SPECIFICATION ManagedSpec
CONSTANTS
  Sock = {s1, s2}
  Addr = {a1, a2}
  Null = Null
  MaxHeld = 2
INVARIANTS
  ManagedTypeOK
  NoDangling
  CountsExact

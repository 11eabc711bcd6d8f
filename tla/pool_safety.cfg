SPECIFICATION LifetimeSpec
CONSTANTS
  tcp = tcp
  udp = udp
  f1 = f1
  f2 = f2
  t1 = t1
  t2 = t2
  Sock = {tcp, udp}
  Stream = {tcp}
  Fd = {f1, f2}
  NoFd = NoFd
  Zero = {}
  MaxArrive = 2
  MaxEmpty = 0
  NetworkMayFail = TRUE
  MaxQueue = 1
  Thread = {t1, t2}
  NoThread = NoThread
  PipeCap = 1
  CreateMayFail = FALSE
CHECK_DEADLOCK FALSE
INVARIANTS
  TypeOK
  OneLoop
  InvariantI
  NoLostWakeup
  PointersValid
  InOrder
  StopsNicely
  LoopIsOver
SYMMETRY Perms

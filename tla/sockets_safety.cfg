SPECIFICATION SocketsSpec
CONSTANTS
  tcp = tcp
  udp = udp
  f1 = f1
  f2 = f2
  t1 = t1
  Sock = {tcp, udp}
  Stream = {tcp}
  Fd = {f1, f2}
  NoFd = NoFd
  Zero = {}
  MaxArrive = 2
  MaxEmpty = 0
  NetworkMayFail = TRUE
  MaxQueue = 5
  Thread = {t1}
  NoThread = NoThread
  PipeCap = 1
  CreateMayFail = TRUE
  Udp = {udp}
  Calls = {"Recv", "RecvData", "Sync", "Resync"}
CHECK_DEADLOCK FALSE
INVARIANTS
  AbortsOnlyUnserved
  FailureIsNoticed
  RegisteredAreAlive
  GivenInOrder
  Owned
PROPERTIES
  KeepsDiscipline
  NothingCutOff
SYMMETRY Perms

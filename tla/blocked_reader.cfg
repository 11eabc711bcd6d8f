SPECIFICATION SocketsSpec
CONSTANTS
  tcp = tcp
  udp = udp
  f1 = f1
  f2 = f2
  t1 = t1
  Sock = {tcp, udp}
  Stream = {tcp}
  Fd = {f1, f2}
  NoFd = NoFd
  Zero = {}
  MaxArrive = 0
  MaxEmpty = 0
  NetworkMayFail = TRUE
  MaxQueue = 5
  Thread = {t1}
  NoThread = NoThread
  PipeCap = 1
  CreateMayFail = FALSE
  Udp = {udp}
  Calls = {"Sync", "Resync"}
PROPERTY
  CloseEnds

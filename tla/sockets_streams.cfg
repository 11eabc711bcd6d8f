SPECIFICATION SocketsSpec
CONSTANTS
  server = server
  conn = conn
  udp = udp
  f1 = f1
  f2 = f2
  t1 = t1
  Sock = {server, conn, udp}
  Stream = {server, conn}
  Fd = {f1, f2}
  NoFd = NoFd
  Zero = {1}
  MaxArrive = 0
  MaxEmpty = 1
  NetworkMayFail = FALSE
  MaxQueue = 5
  Thread = {t1}
  NoThread = NoThread
  PipeCap = 1
  CreateMayFail = FALSE
  Udp = {}
  Calls = {"RecvData", "RecvFrom", "Sync", "Reconnect"}
INVARIANTS
  SocketsTypeOK
  Owned
PROPERTY
  CallsEnd

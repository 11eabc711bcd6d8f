------------------------------ MODULE ErrorCodes ------------------------------
(***************************************************************************)
(* The error values of the script interface (API.h:154-167) and the table  *)
(* AGSEnumerateError makes of the errors of the system (API.cpp:63-123),   *)
(* in the POSIX form.  "none" stands for 0.                                *)
(***************************************************************************)

SockError ==
  [ NO_ERROR              |-> {"none"},
    ACCESS_DENIED         |-> {"EACCES", "EPERM"},
    ADDRESS_NOT_AVAILABLE |-> {"EADDRINUSE", "EADDRNOTAVAIL", "EAFNOSUPPORT"},
    PLEASE_TRY_AGAIN      |-> {"EAGAIN", "EALREADY", "EINPROGRESS", "EINTR"},
    SOCKET_NOT_VALID      |-> {"EBADF", "ENOTSOCK"},
    DISCONNECTED          |-> {"ECONNABORTED", "ECONNREFUSED", "ECONNRESET", "ENETRESET"},
    INVALID               |-> {"EDESTADDRREQ", "EINVAL", "EPROTOTYPE", "EFAULT", "EISCONN"},
    UNSUPPORTED           |-> {"EOPNOTSUPP", "EPROTO", "EPROTONOSUPPORT", "ESOCKTNOSUPPORT"},
    HOST_NOT_REACHED      |-> {"EHOSTUNREACH"},
    NOT_ENOUGH_RESOURCES  |-> {"EMFILE", "ENFILE", "ENOBUFS", "ENOMEM"},
    NETWORK_NOT_AVAILABLE |-> {"ENETDOWN", "ENETUNREACH"},
    NOT_CONNECTED         |-> {"ENOTCONN", "EPIPE", "ESHUTDOWN", "ETIMEDOUT"} ]

\* The script's value for an error of the system.
AGSEnumerateError(errnum) ==
  IF \E v \in DOMAIN SockError : errnum \in SockError[v]
  THEN CHOOSE v \in DOMAIN SockError : errnum \in SockError[v]
  ELSE "OTHER_ERROR"

\* GET_ERROR is looked at through these (API.h:82-83).
WOULD_BLOCK(x) == x = "EAGAIN"
ALREADY(x) == x \in {"EINPROGRESS", "EALREADY"}

===============================================================================

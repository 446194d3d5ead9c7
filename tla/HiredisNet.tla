------------------------------ MODULE HiredisNet ------------------------------
(***************************************************************************)
(* How a hiredis context gets, replaces and gives back its socket          *)
(* (redis/hiredis/net.c; redisConnect*, redisReconnect and redisFree of    *)
(* hiredis.c). Every system call on the way may fail. Descriptors are the  *)
(* process's: another thread opens and closes its own, and the kernel      *)
(* hands out the lowest free number.                                       *)
(***************************************************************************)
EXTENDS Integers, FiniteSets, FiniteSetsExt

CONSTANTS
  Descriptor,      \* numbers from 3 on
  MaxAddresses,    \* addresses of a host name
  ConnectRetries,  \* REDIS_CONNECT_RETRIES
  MaxReconnects    \* a bound on redisReconnect

VARIABLES
  c_kind,          \* "tcp" or "unix"
  c_blocking, c_reuse, c_source,   \* flags, and tcp.source_addr is given
  c_fd, c_err,     \* fields of the context
  fd_table,        \* who has a descriptor: "free", "ctx", "other"
  n_pc, addresses, reuses,   \* the call under way
  reconnects,
  foreign,         \* the context closed another one's descriptor
  unmade           \* a reconnect ended before it had a socket

options == <<c_kind, c_blocking, c_reuse, c_source>>
vars == <<options, c_fd, c_err, fd_table, n_pc, addresses, reuses, reconnects,
          foreign, unmade>>

\* redisContextInit zeroes the context
Init ==
  /\ c_kind \in {"tcp", "unix"} /\ c_blocking \in BOOLEAN
  /\ c_reuse \in BOOLEAN /\ c_source \in BOOLEAN
  /\ c_source => c_kind = "tcp" /\ ~c_blocking
  /\ c_reuse => c_source
  /\ c_fd = 0 /\ c_err = FALSE
  /\ fd_table = [f \in Descriptor |-> "free"]
  /\ n_pc = "start" /\ addresses = 0 /\ reuses = 0 /\ reconnects = 0
  /\ foreign = FALSE /\ unmade = FALSE

Free == {f \in Descriptor : fd_table[f] = "free"}

\* close(2) of the descriptor the context has written down
Close(f) ==
  /\ fd_table' = IF f \in Descriptor THEN [fd_table EXCEPT ![f] = "free"]
                                     ELSE fd_table
  /\ foreign' = (foreign \/ (f \in Descriptor /\ fd_table[f] = "other"))

\* redisContextCloseFd
CloseKeepingNumber == c_fd' = c_fd
CloseFd == c_fd' = -1

Keep == UNCHANGED <<options, reconnects>> /\ unmade' = (unmade /\ n_pc' # "nonblock")
Go(pc) == n_pc' = pc /\ UNCHANGED <<c_fd, c_err, fd_table, foreign, reuses, addresses>>
\* __redisSetErrorFromErrno and return, without and with the descriptor closed
Fail == /\ c_err' = TRUE /\ n_pc' = "idle"
        /\ UNCHANGED <<c_fd, fd_table, foreign, reuses, addresses>>
FailClosing == /\ c_err' = TRUE /\ n_pc' = "idle" /\ Close(c_fd) /\ CloseFd
               /\ UNCHANGED <<reuses, addresses>>
----------------------------------------------------------------------------
\* _redisContextConnectTcp up to getaddrinfo; redisContextConnectUnix has none
Resolve ==
  /\ n_pc = "start"
  /\ IF c_kind = "unix" THEN Go("socket")
     ELSE \/ Fail
          \/ /\ addresses' \in 1..MaxAddresses /\ reuses' = 0
             /\ n_pc' = "socket" /\ UNCHANGED <<c_fd, c_err, fd_table, foreign>>
  /\ Keep

\* socket(2), for the next address
Socket ==
  /\ n_pc = "socket"
  /\ \/ /\ c_kind = "tcp" /\ addresses = 0 /\ Fail
     \/ /\ c_kind = "tcp" => addresses > 0
        /\ Free # {} /\ c_fd' = Min(Free)
        /\ fd_table' = [fd_table EXCEPT ![c_fd'] = "ctx"]
        /\ n_pc' = "nonblock" /\ UNCHANGED <<c_err, foreign, reuses, addresses>>
     \/ /\ c_kind = "unix" /\ Fail
     \/ /\ c_kind = "tcp" /\ addresses > 0 /\ addresses' = addresses - 1
        /\ UNCHANGED <<n_pc, c_fd, c_err, fd_table, foreign, reuses>>
  /\ Keep

\* redisSetBlocking(c, 0)
SetNonBlocking ==
  /\ n_pc = "nonblock"
  /\ FailClosing \/ Go(IF c_source THEN "bind" ELSE "connect")
  /\ Keep

\* the source address: looking it up, SO_REUSEADDR (which fails without an
\* error in the context), bind(2)
Bind ==
  /\ n_pc = "bind"
  /\ Fail \/ Go("connect") \/ (c_reuse /\ Go("idle"))
  /\ Keep

\* connect(2)
Connect ==
  /\ n_pc = "connect"
  /\ \/ Go("connected")
     \/ ~c_blocking /\ Go("connected")            \* EINPROGRESS
     \/ c_blocking /\ Go("wait")                  \* EINPROGRESS
     \/ FailClosing                               \* WaitReady: another errno
     \/ /\ c_kind = "tcp"                         \* EHOSTUNREACH
        /\ Close(c_fd) /\ CloseFd
        /\ addresses' = addresses - 1 /\ n_pc' = "socket"
        /\ UNCHANGED <<c_err, reuses>>
     \/ /\ c_reuse /\ reuses' = reuses + 1        \* EADDRNOTAVAIL
        /\ n_pc' = IF reuses' >= ConnectRetries THEN "idle" ELSE "socket"
        /\ UNCHANGED <<c_fd, c_err, fd_table, foreign, addresses>>
  /\ Keep

\* redisContextWaitReady: poll(2) fails or times out, the socket has an error,
\* or it is connected
WaitReady ==
  /\ n_pc = "wait"
  /\ FailClosing \/ Fail \/ Go("connected")
  /\ Keep

\* redisSetBlocking(c, 1) and redisSetTcpNoDelay
Connected ==
  /\ n_pc = "connected"
  /\ \/ (c_blocking \/ c_kind = "tcp") /\ FailClosing
     \/ Go("idle")
  /\ Keep

Reconnect ==
  /\ n_pc = "idle" /\ reconnects < MaxReconnects
  /\ reconnects' = reconnects + 1
  /\ c_err' = FALSE /\ Close(c_fd) /\ n_pc' = "start"
  /\ unmade' = (c_fd \in Descriptor)
  /\ UNCHANGED <<options, c_fd, reuses, addresses>>

FreeContext ==
  /\ n_pc = "idle" /\ n_pc' = "freed"
  /\ Close(c_fd)
  /\ UNCHANGED <<options, c_fd, c_err, reuses, addresses, reconnects, unmade>>

\* the other threads of the process: external
Others(f) ==
  /\ \/ Free # {} /\ f = Min(Free) /\ fd_table' = [fd_table EXCEPT ![f] = "other"]
     \/ fd_table[f] = "other" /\ fd_table' = [fd_table EXCEPT ![f] = "free"]
  /\ UNCHANGED <<options, c_fd, c_err, n_pc, addresses, reuses, reconnects,
                 foreign, unmade>>

Next ==
  \/ Resolve \/ Socket \/ SetNonBlocking \/ Bind \/ Connect \/ WaitReady
  \/ Connected \/ Reconnect \/ FreeContext
  \/ \E f \in Descriptor : Others(f)

Spec == Init /\ [][Next]_vars
----------------------------------------------------------------------------
\* Sockets come back: the context never closes a descriptor it does not have, a
\* freed context has none left, and a context that is in use and reports no error
\* has one (redisContextCloseFd, redisFree). Not so when a reconnect found no
\* address, as the old number stays in the context, and with SO_REUSEADDR, whose
\* retries open a further socket each and may end without an error.
SocketsReturned ==
  /\ ~unmade => ~foreign
  /\ ~c_reuse =>
       /\ n_pc = "freed" => \A f \in Descriptor : fd_table[f] # "ctx"
       /\ n_pc = "idle" /\ ~c_err => /\ c_fd \in Descriptor
                                     /\ ~unmade => fd_table[c_fd] = "ctx"
=============================================================================

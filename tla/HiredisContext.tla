---------------------------- MODULE HiredisContext ----------------------------
(***************************************************************************)
(* A blocking hiredis context at work (redis/hiredis/hiredis.c) as         *)
(* redis_client.h uses it: commands are appended, perhaps several, and the *)
(* replies fetched one by one. Writes and reads may be short, interrupted, *)
(* fail or time out, and the program may reconnect. A command and a reply  *)
(* are two pieces each, so that both can be cut; the server answers what   *)
(* it has got whole. Sockets are HiredisNet, the parser HiredisReader.     *)
(***************************************************************************)
EXTENDS Naturals, Sequences, SequencesExt

CONSTANTS
  MaxAppended,    \* commands
  MaxReconnect,   \* redisReconnect calls
  ContextFaults        \* "error", "timeout", "format"

VARIABLES
  ctx_err,        \* c->err is set
  ctx_obuf,       \* c->obuf
  ctx_reader,     \* what the reader has been fed and not returned
  ctx_pc,         \* "idle", or redisGetReply's place: "write", "read"
  to_server,      \* pieces that arrived at the server
  to_client,      \* pieces the server sent
  appended,       \* commands so far
  due,            \* commands of this connection without a reply, oldest first
  given,          \* the last reply and the command it had to be for
  reconnected

vars == <<ctx_err, ctx_obuf, ctx_reader, ctx_pc, to_server, to_client,
          appended, due, given, reconnected>>

Pieces(id) == <<<<id, 1>>, <<id, 2>>>>
None == <<0, 0>>

Init ==
  /\ ctx_err = FALSE /\ ctx_obuf = <<>> /\ ctx_reader = <<>> /\ ctx_pc = "idle"
  /\ to_server = <<>> /\ to_client = <<>>
  /\ appended = 0 /\ due = <<>> /\ given = None /\ reconnected = 0

\* redisvAppendCommand, __redisAppendCommand: nothing is written yet, and an
\* error that was set before is not looked at
AppendCommand ==
  /\ ctx_pc = "idle" /\ appended < MaxAppended
  /\ appended' = appended + 1
  /\ \/ /\ ctx_obuf' = ctx_obuf \o Pieces(appended') /\ due' = Append(due, appended')
        /\ UNCHANGED ctx_err
     \/ /\ "format" \in ContextFaults /\ ctx_err' = TRUE /\ UNCHANGED <<ctx_obuf, due>>
  /\ UNCHANGED <<ctx_reader, ctx_pc, to_server, to_client, given, reconnected>>

\* redisGetReplyFromReader: a whole reply, if there is one
HasReply(buf) == Len(buf) >= 2
Give(buf) ==
  /\ given' = <<buf[1][1], Head(due)>> /\ due' = Tail(due)
  /\ ctx_reader' = SubSeq(buf, 3, Len(buf))

\* redisGetReply until it has to write; a reply that was fed before comes first
GetReply ==
  /\ ctx_pc = "idle" /\ due # <<>>
  /\ IF HasReply(ctx_reader)
     THEN Give(ctx_reader) /\ UNCHANGED ctx_pc
     ELSE /\ ctx_pc' = IF ctx_err THEN "idle" ELSE "write"
          /\ UNCHANGED <<given, due, ctx_reader>>
  /\ UNCHANGED <<ctx_err, ctx_obuf, to_server, to_client, appended, reconnected>>

\* redisBufferWrite: n pieces go, none when interrupted, and sdsrange keeps the rest
Rest(n) == SubSeq(ctx_obuf, n + 1, Len(ctx_obuf))
BufferWrite(n) ==
  /\ ctx_pc = "write" /\ n <= Len(ctx_obuf)
  /\ to_server' = to_server \o SubSeq(ctx_obuf, 1, n)
  /\ ctx_obuf' = Rest(n)
  /\ ctx_pc' = IF ctx_obuf' = <<>> THEN "read" ELSE "write"
  /\ UNCHANGED <<ctx_err, ctx_reader, to_client, appended, due, given, reconnected>>

\* redisBufferRead and redisGetReplyFromReader, until there is a reply
BufferRead(n) ==
  /\ ctx_pc = "read" /\ n \in 1..Len(to_client)
  /\ LET fed == ctx_reader \o SubSeq(to_client, 1, n)
     IN IF HasReply(fed)
        THEN Give(fed) /\ ctx_pc' = "idle"
        ELSE ctx_reader' = fed /\ UNCHANGED <<given, due, ctx_pc>>
  /\ to_client' = SubSeq(to_client, n + 1, Len(to_client))
  /\ UNCHANGED <<ctx_err, ctx_obuf, to_server, appended, reconnected>>

\* read(2) or write(2) fails, finds the end, or SO_RCVTIMEO, SO_SNDTIMEO pass:
\* the call returns REDIS_ERR and the error stays
CallFails ==
  /\ ctx_pc \in {"write", "read"} /\ ContextFaults \cap {"error", "timeout"} # {}
  /\ ctx_err' = TRUE /\ ctx_pc' = "idle"
  /\ UNCHANGED <<ctx_obuf, ctx_reader, to_server, to_client, appended, due,
                 given, reconnected>>

\* redisReconnect: new buffer, new reader, new socket
ReaderKept == ctx_reader
FreshReader == <<>>
Reconnect ==
  /\ ctx_pc = "idle" /\ reconnected < MaxReconnect
  /\ reconnected' = reconnected + 1
  /\ ctx_err' = FALSE /\ ctx_obuf' = <<>> /\ ctx_reader' = FreshReader
  /\ to_server' = <<>> /\ to_client' = <<>> /\ due' = <<>>
  /\ UNCHANGED <<ctx_pc, appended, given>>

\* the server: external. What it cannot make sense of it answers too.
Serve ==
  /\ Len(to_server) >= 2
  /\ LET first == to_server[1] second == to_server[2]
     IN to_client' = to_client \o
          Pieces(IF first[1] = second[1] /\ first[2] = 1 THEN first[1] ELSE 0)
  /\ to_server' = SubSeq(to_server, 3, Len(to_server))
  /\ UNCHANGED <<ctx_err, ctx_obuf, ctx_reader, ctx_pc, appended, due, given,
                 reconnected>>

Next ==
  \/ AppendCommand \/ GetReply \/ CallFails \/ Reconnect \/ Serve
  \/ \E n \in 0..(2 * MaxAppended) : BufferWrite(n) \/ BufferRead(n)

Spec == Init /\ [][Next]_vars
----------------------------------------------------------------------------
\* A reply is for the oldest command that waits for one: no short write, failed
\* or timed-out call, format error or reconnect makes redisGetReply return the
\* reply to another command.
ReplyForOldest == given[1] = given[2]
=============================================================================

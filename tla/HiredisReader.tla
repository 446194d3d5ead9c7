---------------------------- MODULE HiredisReader ----------------------------
(***************************************************************************)
(* The reply parser of hiredis (bench_tools/YCSB-C/redis/hiredis/read.c).  *)
(* The bytes of a connection are fed as they arrive; redisReaderGetReply   *)
(* parses as far as they go and keeps a stack of tasks, one per level of   *)
(* nesting. A token is a byte, but for a number of any length, which is    *)
(* one token. A reply is the sequence of its objects, parents first, each  *)
(* with its depth and its place in the parent.                             *)
(***************************************************************************)
EXTENDS Integers, Sequences, SequencesExt

CONSTANTS
  Replies,      \* names of the replies the server may send
  NumReplies,   \* how many it sends
  MaxFeed,      \* the most tokens that arrive at a time
  MaxDepth,     \* the index of the last task, 8 in the code
  TrimAt        \* consumed bytes that are worth discarding, 1024 in the code

VARIABLES
  sent,         \* the replies, by name
  wire,         \* the tokens that are yet to arrive
  rbuf, rpos,   \* redisReader buf and pos
  rstack,       \* the tasks up to ridx
  objs,         \* the objects of the reply under construction
  rerr,         \* REDIS_ERR_PROTOCOL was set
  replies,      \* the replies GetReply has returned
  rd_call       \* GetReply is in its loop

vars == <<sent, wire, rbuf, rpos, rstack, objs, rerr, replies, rd_call>>

Obj(depth, idx, type, n) == [depth |-> depth, idx |-> idx, type |-> type, n |-> n]

\* Type bytes are by name; n is the number, the length or the elements, and of
\* a status or an error the number of bytes before its carriage return.
Objects(name) ==
  CASE name = "int"    -> <<Obj(0, -1, "integer", 5)>>
    [] name = "bulk"   -> <<Obj(0, -1, "string", 2)>>
    [] name = "status" -> <<Obj(0, -1, "status", 2)>>
    [] name = "nil"    -> <<Obj(0, -1, "string", -1)>>
    [] name = "flat"   -> <<Obj(0, -1, "array", 2), Obj(1, 0, "string", 1),
                            Obj(1, 1, "array", 0)>>
    [] name = "nested" -> <<Obj(0, -1, "array", 2), Obj(1, 0, "array", 1),
                            Obj(2, 0, "array", -1), Obj(1, 1, "integer", 7)>>
    [] name = "deep"   -> <<Obj(0, -1, "array", 1), Obj(1, 0, "array", 1),
                            Obj(2, 0, "array", 1), Obj(3, 0, "integer", 1)>>
    [] name = "other"  -> <<Obj(0, -1, "other", 1)>>

\* "x" and "cr" are the bytes of strings: a carriage return is one of them
Bytes(n)  == [j \in 1..n |-> IF j = 2 THEN <<"cr", 0>> ELSE <<"x", 0>>]
NewlineBytes == <<<<"cr", 0>>, <<"lf", 0>>>>
Encode(o) ==
  <<<<o.type, 0>>>> \o
  (IF o.type = "status" THEN Bytes(o.n) ELSE <<<<"number", o.n>>>>) \o NewlineBytes \o
  (IF o.type = "string" /\ o.n >= 0 THEN Bytes(o.n) \o NewlineBytes ELSE <<>>)

Wire(names) == FlattenSeq([j \in 1..Len(names) |->
                 FlattenSeq([k \in 1..Len(Objects(names[j])) |->
                               Encode(Objects(names[j])[k])])])

Is(name, at) == at <= Len(rbuf) /\ rbuf[at][1] = name

\* readLongLong
Number == rbuf[rpos + 1][2]

NewTask(idx) == [type |-> "", elements |-> -1, idx |-> idx]

Init ==
  /\ sent \in [1..NumReplies -> Replies]
  /\ wire = Wire(sent)
  /\ rbuf = <<>> /\ rpos = 0 /\ rstack = <<>> /\ objs = <<>>
  /\ rerr = FALSE /\ replies = <<>> /\ rd_call = FALSE

\* redisReaderFeed; an empty buffer that has grown large is replaced
Feed(n) ==
  /\ ~rd_call /\ ~rerr /\ n <= Len(wire)
  /\ rbuf' = rbuf \o SubSeq(wire, 1, n)
  /\ wire' = SubSeq(wire, n + 1, Len(wire))
  /\ UNCHANGED <<sent, rpos, rstack, objs, rerr, replies, rd_call>>

\* redisReaderGetReply up to its loop
GetReply ==
  /\ ~rd_call /\ ~rerr /\ rbuf # <<>>
  /\ rd_call' = TRUE
  /\ rstack' = IF rstack = <<>> THEN <<NewTask(-1)>> ELSE rstack
  /\ UNCHANGED <<sent, wire, rbuf, rpos, objs, rerr, replies>>

Ridx == Len(rstack) - 1
Cur  == rstack[Len(rstack)]
----------------------------------------------------------------------------
\* seekNewline: the places of the carriage returns that end a line
Returns == {j \in (rpos + 1)..Len(rbuf) : Is("cr", j)}
Newlines == {j \in Returns : Is("lf", j + 1)}
Newline  == CHOOSE j \in Newlines : \A k \in Newlines : j <= k

\* moveToNextTask: the next element of the innermost array that has one
LastElement(stack, d) == stack[d].idx = stack[d - 1].elements - 1
LastElementByCount(stack, d) == stack[d].idx = stack[d - 1].elements
Open(stack) == {d \in 2..Len(stack) : ~LastElement(stack, d)}
MoveToNextTask(stack) ==
  IF Open(stack) = {} THEN <<>>
  ELSE LET d == CHOOSE e \in Open(stack) : \A f \in Open(stack) : f <= e
       IN Append(SubSeq(stack, 1, d - 1), NewTask(stack[d].idx + 1))

Created(type, n) == objs' = Append(objs, Obj(Ridx, Cur.idx, type, n))

\* processItem reads the type of an item once
ReadType ==
  /\ rd_call /\ rstack # <<>> /\ Cur.type = "" /\ ~rerr
  /\ rpos < Len(rbuf)
  /\ rpos' = rpos + 1
  /\ IF rbuf[rpos'][1] \in {"status", "integer", "string", "array"}
     THEN /\ rstack' = [rstack EXCEPT ![Len(rstack)].type = rbuf[rpos'][1]]
          /\ UNCHANGED rerr
     ELSE rstack' = <<>> /\ rerr' = TRUE
  /\ UNCHANGED <<sent, wire, rbuf, objs, replies, rd_call>>

ProcessLineItem ==
  /\ rd_call /\ rstack # <<>> /\ Cur.type \in {"status", "integer"}
  /\ Newlines # {}
  /\ Created(Cur.type, IF Cur.type = "integer" THEN Number
                                               ELSE Newline - rpos - 1)
  /\ rpos' = Newline + 1 /\ rstack' = MoveToNextTask(rstack)
  /\ UNCHANGED <<sent, wire, rbuf, rerr, replies, rd_call>>

\* the end of a bulk string whose length is there
BulkEnd(len) == IF len < 0 THEN Newline + 1 ELSE Newline + 1 + len + 2

ProcessBulkItem ==
  /\ rd_call /\ rstack # <<>> /\ Cur.type = "string" /\ Newlines # {}
  /\ LET len == Number
     IN /\ BulkEnd(len) <= Len(rbuf)
        /\ Created("string", len) /\ rpos' = BulkEnd(len)
        /\ rstack' = MoveToNextTask(rstack)
  /\ UNCHANGED <<sent, wire, rbuf, rerr, replies, rd_call>>

TooDeep ==
  /\ rd_call /\ rstack # <<>> /\ Cur.type = "array" /\ Ridx = MaxDepth
  /\ rerr' = TRUE /\ rstack' = <<>>
  /\ UNCHANGED <<sent, wire, rbuf, rpos, objs, replies, rd_call>>

ProcessMultiBulkItem ==
  /\ rd_call /\ rstack # <<>> /\ Cur.type = "array" /\ Ridx < MaxDepth
  /\ Newlines # {}
  /\ LET elements == Number
     IN /\ Created("array", elements)
        /\ rstack' = IF elements > 0
                     THEN Append([rstack EXCEPT ![Len(rstack)].elements = elements],
                                 NewTask(0))
                     ELSE MoveToNextTask(rstack)
  /\ rpos' = Newline + 1
  /\ UNCHANGED <<sent, wire, rbuf, rerr, replies, rd_call>>

\* an item that is not all there ends the loop
Incomplete ==
  /\ rstack # <<>>
  /\ CASE Cur.type = ""       -> rpos = Len(rbuf)
       [] Cur.type = "string" -> Newlines # {} => BulkEnd(Number) > Len(rbuf)
       [] Cur.type = "array"  -> Ridx < MaxDepth /\ Newlines = {}
       [] OTHER               -> Newlines = {}

\* behind the loop: consumed bytes are discarded, a complete reply is returned
EndGetReply ==
  /\ rd_call /\ (rstack = <<>> \/ Incomplete)
  /\ rd_call' = FALSE
  /\ IF rpos >= TrimAt /\ ~rerr
     THEN rbuf' = SubSeq(rbuf, rpos + 1, Len(rbuf)) /\ rpos' = 0
     ELSE UNCHANGED <<rbuf, rpos>>
  /\ IF rstack = <<>> /\ ~rerr
     THEN replies' = Append(replies, objs) /\ objs' = <<>>
     ELSE UNCHANGED <<replies, objs>>
  /\ UNCHANGED <<sent, wire, rstack, rerr>>

Next ==
  \/ \E n \in 1..MaxFeed : Feed(n)
  \/ GetReply \/ ReadType \/ ProcessLineItem \/ ProcessBulkItem \/ TooDeep
  \/ ProcessMultiBulkItem \/ EndGetReply

Spec == Init /\ [][Next]_vars
----------------------------------------------------------------------------
Sound(name) ==
  \A o \in ToSet(Objects(name)) :
    o.type # "other" /\ (o.type = "array" => o.depth < MaxDepth)

\* However the bytes of the replies are split into feeds, and between whichever
\* calls, redisReaderGetReply returns the replies that were sent, in order and
\* object by object; it waits for more bytes only if the next reply is not all
\* there, and it fails exactly on the first reply that is of no known type or
\* nested too deep.
RepliesAsSent ==
  /\ Len(replies) <= NumReplies
  /\ \A j \in 1..Len(replies) : replies[j] = Objects(sent[j]) /\ Sound(sent[j])
  /\ ~rd_call /\ rbuf # <<>> /\ wire = <<>> /\ ~rerr /\ rpos = Len(rbuf)
       => Len(replies) = NumReplies
  /\ rerr => ~Sound(sent[Len(replies) + 1])
=============================================================================

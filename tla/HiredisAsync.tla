----------------------------- MODULE HiredisAsync -----------------------------
(***************************************************************************)
(* The asynchronous client of hiredis (bench_tools/YCSB-C/redis/hiredis/   *)
(* async.c): commands with callbacks, publish/subscribe, disconnecting and *)
(* freeing, also from inside a callback. A callback is named by the number *)
(* of its command; 0 is none. The parser is HiredisReader: here a reply    *)
(* arrives whole or not yet. The server and the event loop are external.   *)
(***************************************************************************)
EXTENDS Naturals, Sequences, FiniteSets, SequencesExt

CONSTANTS
  Channel,
  CommandKind,   \* out of "get", "sub", "unsub", "monitor"
  MaxCommands,   \* commands issued
  MaxPushed,     \* messages and lines the server sends by itself
  NetFaults      \* "connect", "eof", "protocol": the connection fails so

VARIABLES
  net,           \* the connection: "pending", "ready", "closed"
  connected, disconnecting, freeing, subscribed, monitoring,
  callbacks,     \* ac->replies
  invalid,       \* ac->sub.invalid
  channels,      \* ac->sub.channels, 0 for a channel without an entry
  obuf,          \* commands that are to be written
  parsed,        \* replies that have been read
  reading, writing,   \* the events the event loop watches
  at_pc,         \* where the client is: in the event loop or deeper
  cur_cb,        \* the local variable cb of redisProcessCallbacks
  cerr,          \* c->err
  server, served, server_subs, pushed,   \* the server
  issued,        \* the commands, in order
  ran,           \* the callbacks that ran, with their replies
  stray, mixed   \* see RepliesMatched

flagvars == <<connected, disconnecting, freeing, subscribed, monitoring>>
lists    == <<callbacks, invalid, channels>>
srvvars  == <<server, served, server_subs, pushed>>
history  == <<issued, ran, stray, mixed>>
events   == <<reading, writing>>
vars == <<net, flagvars, lists, obuf, parsed, events, at_pc, cur_cb, cerr,
          srvvars, history>>

Reply(kind, for, ch, left) == [kind |-> kind, for |-> for, ch |-> ch, left |-> left]
NullReply == Reply("null", 0, "", 0)

\* redisAsyncConnect, redisAsyncInitialize and redisAsyncSetConnectCallback
Init ==
  /\ net = "pending"
  /\ connected = FALSE /\ disconnecting = FALSE /\ freeing = FALSE
  /\ subscribed = FALSE /\ monitoring = FALSE
  /\ callbacks = <<>> /\ invalid = <<>> /\ channels = [c \in Channel |-> 0]
  /\ obuf = <<>> /\ parsed = <<>> /\ reading = FALSE /\ writing = TRUE
  /\ at_pc = "loop" /\ cur_cb = 0 /\ cerr = FALSE
  /\ server = <<>> /\ served = <<>> /\ server_subs = {} /\ pushed = 0
  /\ issued = <<>> /\ ran = <<>> /\ stray = FALSE /\ mixed = FALSE

AnyChannel == CHOOSE c \in Channel : TRUE
InCallback == at_pc \in {"callback", "free_callback"}
Alive == at_pc \notin {"freed", "aborted"}
----------------------------------------------------------------------------
\* a command for which the flag REDIS_SUBSCRIBED of now may not be the one of
\* its reply
Overtakes(kind) ==
  kind = "get" \/ \E i \in DOMAIN issued : issued[i].kind = "unsub"

\* __redisAsyncCommand, from the program or from a callback
AsyncCommand(kind, ch) ==
  LET id == Len(issued) + 1 IN
  /\ at_pc = "loop" \/ InCallback
  /\ id <= MaxCommands /\ ~disconnecting /\ ~freeing
  /\ kind = "unsub" => subscribed
  /\ issued' = Append(issued, [kind |-> kind, ch |-> ch])
  /\ subscribed' = (subscribed \/ kind = "sub")
  /\ monitoring' = (monitoring \/ kind = "monitor")
  /\ channels' = IF kind = "sub" THEN [channels EXCEPT ![ch] = id] ELSE channels
  /\ callbacks' = IF kind = "monitor" \/ (kind = "get" /\ ~subscribed)
                  THEN Append(callbacks, id) ELSE callbacks
  /\ invalid' = IF kind = "get" /\ subscribed THEN Append(invalid, id) ELSE invalid
  /\ mixed' = (mixed \/ (subscribed /\ Overtakes(kind)))
  /\ obuf' = Append(obuf, id) /\ writing' = TRUE
  /\ UNCHANGED <<net, connected, disconnecting, freeing, parsed, reading,
                 at_pc, cur_cb, cerr, srvvars, ran, stray>>

\* __redisAsyncDisconnect and __redisAsyncFree: the callbacks left run with no
\* reply, a clean disconnect asserts that there are none for replies
Teardown(failed) ==
  /\ cerr' = failed
  /\ disconnecting' = (disconnecting \/ failed)
  /\ at_pc' = IF ~failed /\ callbacks # <<>> THEN "aborted" ELSE "free"

AsyncDisconnect ==
  /\ at_pc = "loop" \/ InCallback
  /\ ~disconnecting
  /\ IF ~InCallback /\ callbacks = <<>>
     THEN disconnecting' = TRUE /\ at_pc' = "free"
     ELSE disconnecting' = TRUE /\ UNCHANGED at_pc
  /\ UNCHANGED <<net, connected, freeing, subscribed, monitoring, lists, obuf,
                 parsed, events, cur_cb, cerr, srvvars, history>>

AsyncFree ==
  /\ at_pc = "loop" \/ InCallback
  /\ ~freeing /\ freeing' = TRUE
  /\ at_pc' = IF InCallback THEN at_pc ELSE "free"
  /\ UNCHANGED <<net, connected, disconnecting, subscribed, monitoring, lists,
                 obuf, parsed, events, cur_cb, cerr, srvvars, history>>

\* __redisRunCallback of a pending callback: those for replies, those of
\* invalid commands, then the subscriptions
Subscriptions == {channels[c] : c \in Channel} \ {0}
FreeRunsNext ==
  /\ at_pc = "free"
  /\ IF callbacks # <<>>
     THEN /\ cur_cb' = Head(callbacks) /\ callbacks' = Tail(callbacks)
          /\ UNCHANGED <<invalid, channels>>
     ELSE IF invalid # <<>>
     THEN /\ cur_cb' = Head(invalid) /\ invalid' = Tail(invalid)
          /\ UNCHANGED <<callbacks, channels>>
     ELSE \E c \in Channel :
            /\ channels[c] # 0 /\ cur_cb' = channels[c]
            /\ channels' = [channels EXCEPT ![c] = 0]
            /\ UNCHANGED <<callbacks, invalid>>
  /\ at_pc' = "free_callback"
  /\ ran' = IF cur_cb' = 0 THEN ran ELSE Append(ran, <<cur_cb', NullReply>>)
  /\ UNCHANGED <<net, flagvars, obuf, parsed, events, cerr, srvvars, issued,
                 stray, mixed>>

Freed ==
  /\ at_pc = "free" /\ callbacks = <<>> /\ invalid = <<>> /\ Subscriptions = {}
  /\ at_pc' = "freed" /\ net' = "closed" /\ reading' = FALSE /\ writing' = FALSE
  /\ UNCHANGED <<flagvars, lists, obuf, parsed, cur_cb, cerr, srvvars, history>>
----------------------------------------------------------------------------
\* __redisAsyncHandleConnect, before the first read or write
HandleConnect ==
  /\ at_pc = "loop" /\ (reading \/ writing) /\ ~connected
  /\ \/ /\ net = "ready" /\ connected' = TRUE
        /\ UNCHANGED <<cerr, disconnecting, at_pc>>
     \/ /\ "connect" \in NetFaults /\ net = "pending"
        /\ Teardown(TRUE) /\ UNCHANGED connected
  /\ UNCHANGED <<net, freeing, subscribed, monitoring, lists, obuf, parsed,
                 events, cur_cb, srvvars, history>>

\* _EL_DEL_WRITE when done
NeverWriting(rest) == FALSE
StillWriting(rest) == rest # <<>>
\* redisAsyncHandleWrite: redisBufferWrite takes the first n commands
HandleWrite(n) ==
  /\ at_pc = "loop" /\ writing /\ connected /\ net = "ready"
  /\ n <= Len(obuf) /\ (obuf # <<>> => n > 0)
  /\ server' = server \o SubSeq(obuf, 1, n)
  /\ obuf' = SubSeq(obuf, n + 1, Len(obuf))
  /\ writing' = StillWriting(obuf') /\ reading' = TRUE
  /\ UNCHANGED <<net, flagvars, lists, parsed, at_pc, cur_cb, cerr, served,
                 server_subs, pushed, history>>

\* redisAsyncHandleRead: redisBufferRead gets n replies, perhaps none whole
HandleRead(n) ==
  /\ at_pc = "loop" /\ reading /\ connected
  /\ served # <<>> /\ n <= Len(served)
  /\ Len(callbacks) <= MaxCommands   \* bound: see ProcessEnds when monitoring
  /\ parsed' = parsed \o SubSeq(served, 1, n)
  /\ served' = SubSeq(served, n + 1, Len(served))
  /\ at_pc' = "process" /\ cur_cb' = 0
  /\ UNCHANGED <<net, flagvars, lists, obuf, events, cerr, server,
                 server_subs, pushed, history>>

\* end of file, a failed write, or bytes that are no reply
HandleFails ==
  /\ at_pc = "loop" /\ connected
  /\ \/ net = "closed" /\ served = <<>> /\ (reading \/ writing)
     \/ "protocol" \in NetFaults /\ reading
  /\ Teardown(TRUE)
  /\ UNCHANGED <<net, connected, freeing, subscribed, monitoring, lists, obuf,
                 parsed, events, cur_cb, srvvars, history>>

\* redisProcessCallbacks when there is no further reply
ProcessEnds ==
  /\ at_pc = "process" /\ parsed = <<>>
  /\ IF disconnecting /\ obuf = <<>> /\ callbacks = <<>>
     THEN Teardown(FALSE) /\ UNCHANGED callbacks
     ELSE /\ at_pc' = "loop"
          /\ callbacks' = IF monitoring THEN Append(callbacks, cur_cb)
                                        ELSE callbacks
          /\ UNCHANGED <<cerr, disconnecting>>
  /\ UNCHANGED <<net, connected, freeing, subscribed, monitoring, invalid,
                 channels, obuf, parsed, events, cur_cb, srvvars, history>>

\* the callback of a reply that has a regular one
RunsNewest(r) ==
  /\ callbacks # <<>>
  /\ cur_cb' = callbacks[Len(callbacks)] /\ callbacks' = Front(callbacks)
  /\ UNCHANGED <<invalid, channels, subscribed, stray>>
RunsRegular(r) ==
  /\ callbacks # <<>>
  /\ cur_cb' = Head(callbacks) /\ callbacks' = Tail(callbacks)
  /\ UNCHANGED <<invalid, channels, subscribed, stray>>

\* __redisGetSubscribeCallback, and the monitor's stale cb
PubSub(r) == r.kind \in {"subscribe", "unsubscribe", "message"}
RunsSubscription(r) ==
  /\ callbacks = <<>> /\ r.kind # "error" /\ (subscribed \/ monitoring)
  /\ IF subscribed /\ PubSub(r)
     THEN /\ cur_cb' = IF channels[r.ch] # 0 THEN channels[r.ch] ELSE cur_cb
          /\ channels' = IF r.kind = "unsubscribe"
                         THEN [channels EXCEPT ![r.ch] = 0] ELSE channels
          /\ subscribed' = ~(channels[r.ch] # 0 /\ r.kind = "unsubscribe"
                             /\ r.left = 0)
          /\ stray' = (stray \/ channels[r.ch] = 0)
          /\ UNCHANGED invalid
     ELSE /\ IF subscribed /\ invalid # <<>>
             THEN cur_cb' = Head(invalid) /\ invalid' = Tail(invalid)
             ELSE UNCHANGED <<cur_cb, invalid>>
          /\ UNCHANGED <<channels, subscribed, stray>>
  /\ UNCHANGED callbacks

RunCallback ==
  /\ at_pc = "process" /\ parsed # <<>>
  /\ LET r == Head(parsed)
     IN /\ RunsRegular(r) \/ RunsSubscription(r)
        /\ parsed' = Tail(parsed)
        /\ IF cur_cb' = 0 THEN UNCHANGED <<at_pc, ran>>
           ELSE at_pc' = "callback" /\ ran' = Append(ran, <<cur_cb', r>>)
  /\ UNCHANGED <<net, connected, disconnecting, freeing, monitoring, obuf,
                 events, cerr, srvvars, issued, mixed>>

\* a reply nobody waits for: an error closes the connection, another one is
\* the assert
NobodyWaits ==
  /\ at_pc = "process" /\ parsed # <<>> /\ callbacks = <<>>
  /\ LET r == Head(parsed)
     IN IF r.kind = "error" THEN Teardown(TRUE)
        ELSE /\ ~subscribed /\ ~monitoring
             /\ at_pc' = "aborted" /\ UNCHANGED <<cerr, disconnecting>>
  /\ parsed' = Tail(parsed)
  /\ UNCHANGED <<net, connected, freeing, subscribed, monitoring, lists, obuf,
                 events, cur_cb, srvvars, history>>

\* behind a callback: redisAsyncFree is made good for. __redisAsyncFree goes on
\* with the next one.
ReturnTo == IF freeing THEN "free" ELSE "process"
CallbackReturns ==
  /\ InCallback
  /\ at_pc' = IF at_pc = "free_callback" THEN "free" ELSE ReturnTo
  /\ UNCHANGED <<net, flagvars, lists, obuf, parsed, events, cur_cb, cerr,
                 srvvars, history>>
----------------------------------------------------------------------------
\* the server: external
Accept ==
  /\ net = "pending" /\ net' = "ready"
  /\ UNCHANGED <<flagvars, lists, obuf, parsed, events, at_pc, cur_cb, cerr,
                 srvvars, history>>

Answer(id, subs) ==
  LET cmd == issued[id]
  IN CASE cmd.kind = "sub"   -> Reply("subscribe", id, cmd.ch, Cardinality(subs))
       [] cmd.kind = "unsub" -> Reply("unsubscribe", id, cmd.ch, Cardinality(subs))
       [] OTHER -> Reply(IF subs # {} THEN "error" ELSE "value", id, "", 0)

Serve ==
  /\ net = "ready" /\ server # <<>>
  /\ LET cmd == issued[Head(server)]
     IN server_subs' = CASE cmd.kind = "sub"   -> server_subs \cup {cmd.ch}
                         [] cmd.kind = "unsub" -> server_subs \ {cmd.ch}
                         [] OTHER              -> server_subs
  /\ served' = Append(served, Answer(Head(server), server_subs'))
  /\ server' = Tail(server)
  /\ UNCHANGED <<net, flagvars, lists, obuf, parsed, events, at_pc, cur_cb,
                 cerr, pushed, history>>

Push(ch) ==
  /\ net = "ready" /\ pushed < MaxPushed /\ ch \in server_subs
  /\ served' = Append(served, Reply("message", 0, ch, 0))
  /\ pushed' = pushed + 1
  /\ UNCHANGED <<net, flagvars, lists, obuf, parsed, events, at_pc, cur_cb,
                 cerr, server, server_subs, history>>

Close ==
  /\ "eof" \in NetFaults /\ net = "ready" /\ net' = "closed"
  /\ UNCHANGED <<flagvars, lists, obuf, parsed, events, at_pc, cur_cb, cerr,
                 srvvars, history>>

Next ==
  \/ \E k \in CommandKind, c \in Channel :
       /\ k \in {"get", "monitor"} => c = AnyChannel
       /\ AsyncCommand(k, c)
  \/ AsyncDisconnect \/ AsyncFree \/ FreeRunsNext \/ Freed \/ HandleConnect
  \/ \E n \in 0..MaxCommands : HandleWrite(n) \/ HandleRead(n)
  \/ HandleFails \/ ProcessEnds \/ RunCallback \/ NobodyWaits \/ CallbackReturns
  \/ Alive /\ (Accept \/ Serve \/ (\E c \in Channel : Push(c)) \/ Close)

Spec == Init /\ [][Next]_vars
----------------------------------------------------------------------------
RunsOf(id) == SelectSeq(ran, LAMBDA x : x[1] = id)
Regular(id) == issued[id].kind = "get"

\* The callback of a command runs once, with the reply to this command or, when
\* the context goes away first, with none, whatever the callbacks themselves do;
\* the callback of a subscription gets the messages of its channel; and no
\* assert fails. Three uses are outside of it: a monitor, a regular command
\* while subscribed or anything sent behind an unsubscribe, and an unsubscribe
\* of a channel that has no callback.
RepliesMatched ==
  monitoring \/ mixed \/ stray \/
  /\ at_pc # "aborted"
  /\ \A id \in 1..Len(issued) : Regular(id) =>
       /\ Len(RunsOf(id)) <= 1
       /\ at_pc = "freed" => Len(RunsOf(id)) = 1
  /\ \A x \in ToSet(ran) :
       \/ x[2] = NullReply
       \/ Regular(x[1]) /\ x[2].for = x[1]
       \/ issued[x[1]].kind = "sub" /\ x[2].ch = issued[x[1]].ch

\* Whatever is to be done next has an event that will come: as long as there is
\* something to write the event loop watches for writing, and as long as an
\* answer is due for reading (_EL_ADD_WRITE, _EL_ADD_READ).
WorkIsWatched ==
  at_pc = "loop" =>
    /\ obuf # <<>> => writing
    /\ server # <<>> \/ served # <<>> => reading
=============================================================================

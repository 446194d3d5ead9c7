----------------------------- MODULE BenchWrites -----------------------------
(***************************************************************************)
(* DoWrite of db_bench, the fill benchmarks: threads that write batches of *)
(* keys drawn from a generator, to the column families that are hot at the *)
(* moment. As a thread's count crosses into the next stage it creates the  *)
(* next hot families, under a mutex; a thread that writes takes the        *)
(* families without it, by num_created. Range tombstones are written       *)
(* between the keys, as one deletion or expanded to a deletion of each key.*)
(* One database: with several, every one is written in this way.           *)
(***************************************************************************)
EXTENDS Integers, Sequences, FiniteSets, FiniteSetsExt, SequencesExt

CONSTANTS
  FillThread,     \* the threads
  NumFamilies,    \* FLAGS_num_column_families
  NumHot,         \* values of FLAGS_num_hot_column_families
  FirstShare,     \* shares of the first hot family, the last has the rest
  Percent,        \* what FLAGS_column_family_distribution sums to (100)
  FillMode,       \* the WriteModes
  FillNum,        \* FLAGS_num
  FillWrites,     \* values of writes_
  EntriesPerBatch,\* values of entries_per_batch_
  WritesBefore,   \* writes_before_delete_range_
  WritesPer,      \* writes_per_range_tombstone_
  TombstoneWidth, \* range_tombstone_width_
  MaxTombstones,  \* max_num_range_tombstones_
  ByteBase,       \* what a byte of a key counts to (256)
  KeyBytes        \* the bytes of a key that hold the number, at most 8

\* NumHot is within 1 .. NumFamilies, and FillWrites within 1 .. FillNum.

VARIABLES
  opts,      \* the flags of this run of the benchmark
  families,  \* cfh, num_created and who holds create_cf_mutex
  fill,      \* the threads
  content    \* the keys of each column family

vars == <<opts, families, fill, content>>

Family == 0 .. NumFamilies - 1
Nobody == "nobody"
Numbers == FillNum + MaxTombstones    \* num_ of the key generators

\* values_ of a unique fill as FLAGS_seed shuffles it, in every thread alike.
Shuffled == [i \in 1 .. Numbers |-> Numbers - i]

\* The distributions of the flag for h hot families, <<>> when it is not given.
Distributions(h) ==
  {<<>>} \union {[i \in 1 .. h |-> IF i = h THEN Percent - s
                                 ELSE IF i = 1 THEN s ELSE 0] :
                  s \in IF h = 1 THEN {0} ELSE FirstShare}

\* A generator that is out of numbers (an assertion of KeyGenerator::Next).
Exhausted == -1

Init ==
  /\ \E h \in NumHot :
       opts \in [mode : FillMode, writes : FillWrites,
                 batch : EntriesPerBatch, hot : {h}, prob : Distributions(h),
                 expand : BOOLEAN]
  /\ families = [created |-> 0 .. opts.hot - 1, num_created |-> opts.hot,
                 creator |-> Nobody]
  /\ fill = [t \in FillThread |->
       [pc |-> "loop", ops |-> 0, stage |-> 0, left |-> 0, next |-> 0,
        number |-> 0, written |-> 0, drawn |-> {}, batch |-> <<>>]]
  /\ content = [f \in Family |-> {}]

-----------------------------------------------------------------------------
\* GenerateKeyFromInt without prefixes: the low bytes, the highest first.
GenerateKeyFromInt(v) ==
  [i \in 1 .. KeyBytes |-> (v \div ByteBase ^ (KeyBytes - i)) % ByteBase]

KeyLess(a, b) ==
  \E i \in 1 .. KeyBytes : /\ a[i] < b[i]
                           /\ \A j \in 1 .. i - 1 : a[j] = b[j]

OpsPerStage ==
  (opts.writes - 1) \div (NumFamilies \div opts.hot) + 1

GetStage(ops) == Min({ops, opts.writes - 1}) \div OpsPerStage

\* DBWithColumnFamilies::GetCfh.
HotOffset(number) ==
  IF opts.prob = <<>> THEN number % opts.hot
  ELSE Min({i \in 0 .. opts.hot - 1 :
              FoldLeft(+, 0, SubSeq(opts.prob, 1, i + 1)) >= number % Percent})

GetCfh(number) == families.num_created - opts.hot + HotOffset(number)

\* KeyGenerator::Next: the numbers it may return.
NextNumber(f) ==
  CASE opts.mode = "SEQUENTIAL" -> {f.next}
    [] opts.mode = "RANDOM" -> 0 .. Numbers - 1
    [] OTHER -> {IF f.next < Numbers THEN Shuffled[f.next + 1]
                 ELSE Exhausted}

-----------------------------------------------------------------------------
Loop(t) ==
  LET f == fill[t]
      ops == f.ops + opts.batch
      stage == GetStage(ops)
  IN  /\ f.pc = "loop"
      /\ fill' = [fill EXCEPT ![t] =
           IF ops > opts.writes THEN [f EXCEPT !.pc = "exit", !.ops = ops]
           ELSE [f EXCEPT !.pc = IF stage # f.stage THEN "create" ELSE "entry",
                          !.ops = ops, !.stage = stage, !.batch = <<>>,
                          !.left = opts.batch]]
      /\ UNCHANGED <<opts, families, content>>

AlreadyCreated(t) == (fill[t].stage + 1) * opts.hot <= families.num_created

LockCreateNewCf(t) ==
  /\ fill[t].pc = "create" /\ families.creator = Nobody
  /\ IF AlreadyCreated(t)
       THEN /\ fill' = [fill EXCEPT ![t].pc = "entry"]
            /\ UNCHANGED families
       ELSE /\ fill' = [fill EXCEPT ![t].pc = "creating"]
            /\ families' = [families EXCEPT !.creator = t]
  /\ UNCHANGED <<opts, content>>

FamiliesToCreate ==
  families.num_created .. families.num_created + opts.hot - 1

\* num_created is stored when all new entries of cfh are set.
CreateNewCf(t) ==
  LET missing == FamiliesToCreate \ families.created
  IN  /\ fill[t].pc = "creating"
      /\ IF missing # {}
           THEN /\ families' = [families EXCEPT
                     !.created = @ \union {Min(missing)}]
                /\ UNCHANGED fill
           ELSE /\ families' = [families EXCEPT !.num_created = @ + opts.hot,
                                                !.creator = Nobody]
                /\ fill' = [fill EXCEPT ![t].pc = "entry"]
      /\ UNCHANGED <<opts, content>>

TombstoneDue(written) ==
  LET n == written - WritesBefore
  IN  /\ WritesPer > 0 /\ n > 0
      /\ n \div WritesPer <= MaxTombstones /\ n % WritesPer = 0

\* One entry of a batch; its pc is "entry" until none is left.
Entry(t) ==
  \E v \in NextNumber(fill[t]) :
    LET f == fill[t]
        put == [op |-> "put", cf |-> GetCfh(v), key |-> GenerateKeyFromInt(v)]
    IN  /\ f.pc = "entry" /\ f.left > 0
        /\ fill' = [fill EXCEPT ![t] =
             [f EXCEPT !.pc = IF TombstoneDue(f.written + 1) THEN "tombstone"
                              ELSE "entry",
                       !.left = @ - 1, !.next = @ + 1, !.number = v,
                       !.written = @ + 1, !.drawn = @ \union {v},
                       !.batch = Append(@, put)]]
        /\ UNCHANGED <<opts, families, content>>

Expanded(cf, v) ==
  [i \in 1 .. TombstoneWidth |->
     [op |-> "delete", cf |-> cf, key |-> GenerateKeyFromInt(v + i - 1)]]

AsRange(cf, v) ==
  <<[op |-> "range", cf |-> cf, key |-> GenerateKeyFromInt(v),
     end |-> GenerateKeyFromInt(v + TombstoneWidth)]>>

\* The family is taken again, by the number of the entry just written.
Tombstone(t) ==
  \E v \in NextNumber(fill[t]) :
    LET f == fill[t]
        cf == GetCfh(f.number)
    IN  /\ f.pc = "tombstone"
        /\ fill' = [fill EXCEPT ![t] =
             [f EXCEPT !.pc = "entry", !.next = @ + 1, !.drawn = @ \union {v},
                       !.batch = @ \o (IF opts.expand THEN Expanded(cf, v)
                                       ELSE AsRange(cf, v))]]
        /\ UNCHANGED <<opts, families, content>>

\* What one operation of a batch leaves of the keys of its family.
Applied(keys, e) ==
  CASE e.op = "put" -> keys \union {e.key}
    [] e.op = "delete" -> keys \ {e.key}
    [] OTHER -> {k \in keys : KeyLess(k, e.key) \/ ~KeyLess(k, e.end)}

Write(t) ==
  /\ fill[t].pc = "entry" /\ fill[t].left = 0
  /\ content' = FoldLeft(LAMBDA c, e : [c EXCEPT ![e.cf] = Applied(@, e)],
                         content, fill[t].batch)
  /\ fill' = [fill EXCEPT ![t].pc = "loop", ![t].batch = <<>>]
  /\ UNCHANGED <<opts, families>>

Next ==
  \E t \in FillThread :
    \/ Loop(t) \/ LockCreateNewCf(t) \/ CreateNewCf(t)
    \/ Entry(t) \/ Tombstone(t) \/ Write(t)

Spec == Init /\ [][Next]_vars

-----------------------------------------------------------------------------
\* The variables have the values the code gives them.
TypeOK ==
  /\ families.created \subseteq Family
  /\ families.num_created \in 1 .. NumFamilies
  /\ \A f \in Family : content[f] \subseteq [1 .. KeyBytes -> 0 .. ByteBase - 1]

\* A batch names only column families that exist: what GetCfh returns without
\* the mutex has been created, whatever CreateNewCf is in the middle of.
HandlesCreated ==
  /\ 0 .. families.num_created - 1 \subseteq families.created
  /\ \A t \in FillThread : \A i \in DOMAIN fill[t].batch :
       fill[t].batch[i].cf \in families.created

\* A thread writes to families of its stage or a later one: those of its stage
\* have been created, by it or by another, and no stage asks for more families
\* than there are. (A batch is not longer than a stage.)
StageCreated ==
  \A t \in FillThread :
    /\ (fill[t].stage + 1) * opts.hot <= NumFamilies
    /\ fill[t].pc = "entry" /\ opts.batch <= OpsPerStage =>
         (fill[t].stage + 1) * opts.hot <= families.num_created

\* A fill writes whole batches and nothing twice: the numbers of a unique fill
\* are never drawn again and never run out, tombstones included; a sequential
\* one leaves, in all families together, just the keys it drew.
FillComplete ==
  \A t \in FillThread :
    LET f == fill[t]
        tombstones == f.next - f.written
    IN  /\ opts.mode # "RANDOM" => Cardinality(f.drawn) = f.next
        /\ Exhausted \notin f.drawn /\ tombstones <= MaxTombstones
        /\ f.pc = "exit" =>
             /\ f.written = opts.batch * (opts.writes \div opts.batch)
             /\ opts.mode = "SEQUENTIAL" /\ tombstones = 0
                  /\ FillThread = {t} =>
                    UNION {content[c] : c \in Family}
                      = {GenerateKeyFromInt(v) : v \in 0 .. f.written - 1}

\* A tombstone deletes the same keys in either form: the range from the key of
\* its number to the key of the number after its last one holds the keys of
\* the numbers between, and no other.
TombstoneFormsAgree ==
  \A t \in FillThread : fill[t].pc = "tombstone" =>
    \A v \in NextNumber(fill[t]), c \in Family :
      FoldLeft(Applied, content[c], Expanded(c, v))
        = FoldLeft(Applied, content[c], AsRange(c, v))
=============================================================================

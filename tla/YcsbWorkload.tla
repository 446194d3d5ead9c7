---------------------------- MODULE YcsbWorkload ----------------------------
(***************************************************************************)
(* CoreWorkload of the YCSB client and its generators (bench_tools/YCSB-C: *)
(* core/core_workload.* and core/*_generator.h): what Init makes of the    *)
(* properties in the load and in the run phase, and what the choosers of   *)
(* operations, keys, scan lengths and field lengths may then return. A     *)
(* random number is any of its range; a proportion is a whole number of    *)
(* parts.                                                                  *)
(***************************************************************************)
EXTENDS Integers, Sequences, FiniteSets, FiniteSetsExt, SequencesExt

CONSTANTS
  Recorded,      \* values of recordcount
  Requested,     \* operationcount
  Parts,         \* the parts a proportion of 1 has
  RequestDists,  \* values of requestdistribution
  LengthDists,   \* values of fieldlengthdistribution, scanlengthdistribution
                 \* (the two alike)
  MaxLength,     \* fieldlength and maxscanlength
  SmallSize, MidSize,  \* of a ratio; largesize is MaxLength
  InsertStarts   \* values of insertstart

VARIABLES
  config,   \* the properties
  load,     \* the keys of the load phase
  work,     \* the CoreWorkload: whether it is of the run phase, its
            \* key_generator_ and the Last() of its insert_key_sequence_
  picked    \* what the choosers returned last

vars == <<config, load, work, picked>>

\* The order in which Init adds the operations to op_chooser_.
Ops == <<"READ", "UPDATE", "INSERT", "SCAN", "READMODIFYWRITE">>
NoPick == -1
Nothing == [key |-> NoPick, op |-> "", length |-> NoPick]

\* Init of a CoreWorkload: insert_key_sequence_.Set, a new key_generator_.
Workload(run) ==
  [run |-> run, next |-> config.start, last |-> config.records - 1]

\* Two operations, and one of the distributions other than the plain one, are
\* enough: the choosers do not know of each other.
Init ==
  /\ config \in [records : Recorded, dist : RequestDists,
                length : LengthDists, start : InsertStarts,
                weight : {f \in [ToSet(Ops) -> 0 .. Parts] :
                            /\ Cardinality({o \in ToSet(Ops) : f[o] > 0}) = 2
                            /\ MapThenSumSet(LAMBDA o : f[o], ToSet(Ops))
                                 = Parts}]
  /\ config.dist = "uniform" \/ config.length = "constant"
  /\ load = {} /\ work = Workload(FALSE) /\ picked = Nothing

-----------------------------------------------------------------------------
\* DiscreteGenerator: the values with a weight, in the order they were added,
\* and what Next returns for a random number of parts below their sum.
Values == SelectSeq(Ops, LAMBDA o : config.weight[o] > 0)

DiscreteNext(chooser) ==
  LET Before(i) == FoldLeft(LAMBDA n, o : n + config.weight[o], 0,
                            SubSeq(Values, 1, i - 1))
      fits == {i \in DOMAIN Values :
                 chooser - Before(i) < config.weight[Values[i]]}
  IN  Values[Min(fits)]

\* ZipfianGenerator: 0 and 1 are returned without base_ added; for two items
\* there is nothing else.
ZipfianNext(base, num) ==
  {0, 1} \union (IF num > 2 THEN base .. base + num - 1 ELSE {})

UniformNext(min, max) == min .. max

\* The keyspace of the zipfian request distribution has room for the inserts.
NewKeys == (Requested * config.weight["INSERT"] * 2) \div Parts

\* The zipfian number is hashed: any number below num.
ScrambledNext(num) == 0 .. num - 1

SkewedLatestNext(max) == {max - v : v \in ZipfianNext(0, max)}

\* What key_chooser_ may return, and whether its constructor's assertion holds.
KeyChooser ==
  CASE config.dist = "uniform" -> UniformNext(0, config.records - 1)
    [] config.dist = "zipfian" -> ScrambledNext(config.records + NewKeys)
    [] OTHER -> SkewedLatestNext(work.last)

Constructed ==
  CASE config.dist = "zipfian" -> config.records + NewKeys >= 2
    [] config.dist = "latest" -> work.last >= 2
    [] OTHER -> TRUE

\* RatioGenerator::Next: a class by its ratio, then a size of the class.
RatioNext ==
  UNION {UniformNext(1, SmallSize), UniformNext(SmallSize + 1, MidSize),
         UniformNext(MidSize + 1, MaxLength)}

LengthChooser(dist) ==
  CASE dist = "constant" -> {MaxLength}
    [] dist = "uniform" -> UniformNext(1, MaxLength)
    [] dist = "zipfian" -> ZipfianNext(1, MaxLength)
    [] OTHER -> RatioNext

-----------------------------------------------------------------------------
\* A loaded or an inserted key, as many in a phase as there are records (a
\* bound in the run phase).
NextSequenceKey ==
  /\ Constructed /\ work.next < config.start + config.records
  /\ picked' = [Nothing EXCEPT !.key = work.next]
  /\ work' = [work EXCEPT !.next = @ + 1]
  /\ load' = IF work.run THEN load ELSE load \union {work.next}
  /\ UNCHANGED config

\* main makes a new workload for the run phase when all are loaded.
StartRun ==
  /\ ~work.run /\ work.next = config.start + config.records
  /\ work' = Workload(TRUE) /\ picked' = Nothing
  /\ UNCHANGED <<config, load>>

AcceptKey(k) == k <= work.last

\* A number that is not inserted yet is drawn again.
NextTransactionKey ==
  \E k \in KeyChooser :
    /\ work.run /\ Constructed
    /\ picked' = IF AcceptKey(k) THEN [Nothing EXCEPT !.key = k] ELSE picked
    /\ UNCHANGED <<config, load, work>>

NextOperation ==
  \E chooser \in 0 .. Parts - 1 :
    /\ work.run /\ Constructed
    /\ picked' = [Nothing EXCEPT !.op = DiscreteNext(chooser)]
    /\ UNCHANGED <<config, load, work>>

NextScanLength ==
  \E n \in LengthChooser(config.length) :
    /\ work.run /\ Constructed /\ config.length # "ratio"
    /\ picked' = [Nothing EXCEPT !.length = n]
    /\ UNCHANGED <<config, load, work>>

\* The length of a field of BuildValues and BuildUpdate.
BuildValue ==
  \E n \in LengthChooser(config.length) :
    /\ Constructed
    /\ picked' = [Nothing EXCEPT !.length = n]
    /\ UNCHANGED <<config, load, work>>

Next == \/ NextSequenceKey \/ StartRun \/ NextTransactionKey
        \/ NextOperation \/ NextScanLength \/ BuildValue

Spec == Init /\ [][Next]_vars

-----------------------------------------------------------------------------
\* The variables have the values the code gives them.
TypeOK ==
  /\ picked.key \in -1 .. Max(Recorded) + Max(InsertStarts)
  /\ load \subseteq 0 .. Max(Recorded) + Max(InsertStarts)

\* A transaction is of a key that was loaded, though the zipfian keyspace is
\* larger than what is loaded, and some number is always accepted; but for
\* insertstart, which the choosers do not know.
KeysLoaded ==
  work.run /\ Constructed =>
    /\ KeyChooser \cap 0 .. work.last # {}
    /\ config.start = 0 /\ picked.key # NoPick => picked.key \in load

\* The operations have the shares of their proportions: of the numbers
\* op_chooser_ may draw, as many choose an operation as it has parts, and the
\* assertion at the end of DiscreteGenerator::Next is not reached.
OperationsInShares ==
  \A o \in ToSet(Ops) :
    Cardinality({c \in 0 .. Parts - 1 : DiscreteNext(c) = o}) = config.weight[o]

\* Scans and fields have a length, of at most the maximum. A zipfian length may
\* be 0, as its generator returns its first two values without the minimum.
LengthsRight ==
  picked.length # NoPick =>
    /\ picked.length <= MaxLength
    /\ config.length = "zipfian" \/ picked.length >= 1
=============================================================================

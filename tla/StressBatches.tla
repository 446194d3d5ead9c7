---------------------------- MODULE StressBatches ----------------------------
(***************************************************************************)
(* The two stress tests that keep no expected values (tools/               *)
(* titandb_stress.cc). BatchedOpsStressTest writes the same value under    *)
(* ten prefixes of a key in one batch and reads all ten at one snapshot;   *)
(* AtomicFlushStressTest writes a key to all column families in one batch  *)
(* and compares the column families at the end. A slot is a prefix or a    *)
(* column family. The database keeps its versions, one per batch, flushes  *)
(* slots, and may apply part of a batch ("torn") or flush part of the      *)
(* column families ("partial").                                            *)
(***************************************************************************)
EXTENDS Naturals, Sequences, FiniteSets, SequencesExt

CONSTANTS
  Slot,         \* the first one is 0
  BatchKey,     \* the keys of one prefix, numbers
  BatchValue,
  MaxBatches,   \* a bound on the batches written
  BatchFaults

VARIABLES
  test,         \* "batched" or "atomic_flush"
  versions,     \* the contents of the database after each batch
  flushed,      \* per column family, the version its files have
  check,        \* the check under way
  report        \* what the last finished check said

vars == <<test, versions, flushed, check, report>>

NoCheck == [pc |-> "none", key |-> 0, at |-> 0, read |-> <<>>]
Latest  == versions[Len(versions)]

Init ==
  /\ test \in {"batched", "atomic_flush"}
  /\ versions = <<[s \in Slot |-> [k \in BatchKey |-> "none"]]>>
  /\ flushed = [s \in Slot |-> 1]
  /\ check = NoCheck /\ report = "none"

\* TestPut, TestDelete and, over column families, TestDeleteRange: one batch
\* with the same change for every slot; ks are its keys
ApplyBatch(ks, v) ==
  /\ Len(versions) <= MaxBatches
  /\ \E ss \in {Slot} \cup (IF "torn" \in BatchFaults THEN SUBSET Slot ELSE {}) :
       versions' = Append(versions,
         [s \in Slot |-> [k \in BatchKey |->
            IF s \in ss /\ k \in ks THEN v ELSE Latest[s][k]]])
  /\ UNCHANGED <<test, flushed, check, report>>

TestPut == \E k \in BatchKey, v \in BatchValue : ApplyBatch({k}, v)
TestDelete == \E k \in BatchKey : ApplyBatch({k}, "none")
TestDeleteRange == test = "atomic_flush" /\ ApplyBatch(BatchKey, "none")
----------------------------------------------------------------------------
\* TestGet and TestPrefixScan take a snapshot; the reads that follow may have
\* batches between them
StartCheck(pc, k) ==
  /\ test = "batched" /\ check.pc = "none"
  /\ check' = [pc |-> pc, key |-> k, at |-> Len(versions), read |-> <<>>]
  /\ report' = "none"
  /\ UNCHANGED <<test, versions, flushed>>

TestGet == \E k \in BatchKey : StartCheck("get", k)
TestPrefixScan == StartCheck("scan", 0)

\* the values of a slot in the order of the keys
Series(contents) ==
  LET there == {k \in BatchKey : contents[k] # "none"}
      ks == SetToSortSeq(there, LAMBDA a, b : a < b)
  IN [j \in 1..Len(ks) |-> contents[ks[j]]]

ReadSlotNow(s) ==
  IF check.pc = "get" THEN Latest[s][check.key] ELSE Series(Latest[s])
ReadSlot(s) ==
  IF check.pc = "get" THEN versions[check.at][s][check.key]
  ELSE Series(versions[check.at][s])

\* a Get per prefix, an iterator per prefix
ReadNext ==
  /\ check.pc \in {"get", "scan"} /\ Len(check.read) < Cardinality(Slot)
  /\ check' = [check EXCEPT !.read = Append(@, ReadSlot(Len(check.read)))]
  /\ UNCHANGED <<test, versions, flushed, report>>

\* the values are compared with the first; of a scan, the first iterator may
\* not outlive another nor end before it (the asserts)
Compare ==
  /\ check.pc \in {"get", "scan"} /\ Len(check.read) = Cardinality(Slot)
  /\ report' = IF \A j \in 1..Len(check.read) : check.read[j] = check.read[1]
               THEN "same" ELSE "inconsistent"
  /\ check' = [check EXCEPT !.pc = "compared"]
  /\ UNCHANGED <<test, versions, flushed>>

\* TestMultiGet reads all prefixes of a key in one call
TestMultiGet ==
  /\ test = "batched" /\ check.pc = "none"
  /\ \E k \in BatchKey :
       /\ check' = [pc |-> "compared", key |-> k, at |-> Len(versions),
                    read |-> [j \in 1..Cardinality(Slot) |-> Latest[j - 1][k]]]
       /\ report' = IF \A s \in Slot : Latest[s][k] = Latest[0][k]
                    THEN "same" ELSE "inconsistent"
  /\ UNCHANGED <<test, versions, flushed>>

EndCheck ==
  /\ check.pc = "compared" /\ check' = NoCheck /\ report' = "none"
  /\ UNCHANGED <<test, versions, flushed>>
----------------------------------------------------------------------------
\* Flush of all column families, and the process killed before the next one:
\* without a log each is back at what its files have
Flush ==
  /\ test = "atomic_flush" /\ check.pc = "none"
  /\ \E ss \in {Slot} \cup (IF "partial" \in BatchFaults THEN SUBSET Slot
                                                         ELSE {}) :
       flushed' = [s \in Slot |-> IF s \in ss THEN Len(versions) ELSE flushed[s]]
  /\ UNCHANGED <<test, versions, check, report>>

Restart ==
  /\ test = "atomic_flush" /\ check.pc = "none" /\ Len(versions) <= MaxBatches
  /\ versions' = Append(versions, [s \in Slot |-> versions[flushed[s]][s]])
  /\ flushed' = [s \in Slot |-> Len(versions')]
  /\ UNCHANGED <<test, check, report>>

\* AtomicFlushStressTest::VerifyDb: the iterators of the column families move
\* together; at stands for how far, of read only the keys count
KeysOf(s) == SetToSortSeq({k \in BatchKey : Latest[s][k] # "none"},
                          LAMBDA a, b : a < b)
StartVerify ==
  /\ test = "atomic_flush" /\ check.pc = "none"
  /\ check' = [pc |-> "verify", key |-> 0, at |-> 1,
               read |-> [j \in 1..Cardinality(Slot) |-> KeysOf(j - 1)]]
  /\ report' = "none"
  /\ UNCHANGED <<test, versions, flushed>>

ValidCnt == Cardinality({j \in DOMAIN check.read : check.at <= Len(check.read[j])})
AllEnd == ValidCnt = 0
SomeEnd == ValidCnt < Len(check.read)
KeysMatch ==
  \A j \in DOMAIN check.read : check.read[j][check.at] = check.read[1][check.at]

VerifyEnds ==
  /\ check.pc = "verify" /\ SomeEnd
  /\ report' = IF AllEnd THEN "same" ELSE "inconsistent"
  /\ check' = [check EXCEPT !.pc = "compared", !.at = Len(versions)]
  /\ UNCHANGED <<test, versions, flushed>>

\* the failure is seen at the top of the loop
VerifyNext ==
  /\ check.pc = "verify" /\ ~SomeEnd
  /\ IF KeysMatch
     THEN check' = [check EXCEPT !.at = @ + 1] /\ UNCHANGED report
     ELSE /\ check' = [check EXCEPT !.pc = "compared", !.at = Len(versions)]
          /\ report' = "inconsistent"
  /\ UNCHANGED <<test, versions, flushed>>

Writes == TestPut \/ TestDelete \/ TestDeleteRange
Next ==
  \/ (test = "batched" \/ check.pc = "none") /\ Writes
  \/ TestGet \/ TestPrefixScan \/ ReadNext \/ Compare \/ TestMultiGet \/ EndCheck
  \/ Flush \/ Restart \/ StartVerify \/ VerifyEnds \/ VerifyNext

Spec == Init /\ [][Next]_vars
----------------------------------------------------------------------------
Contents == versions[check.at]

\* A check says "inconsistent" exactly if the database is, in what the check
\* looks at: the values of one key under all prefixes at the snapshot, however
\* many batches are written between the reads, the values of all keys in
\* order, or the sets of keys of all column families. Values that differ
\* between column families are outside of it: VerifyDb compares the keys only.
ReportRight ==
  check.pc = "compared" =>
    (report = "same" <=>
       \A s \in Slot :
         CASE test = "atomic_flush" ->
                {k \in BatchKey : Contents[s][k] # "none"}
                  = {k \in BatchKey : Contents[0][k] # "none"}
           [] check.key # 0 -> Contents[s][check.key] = Contents[0][check.key]
           [] OTHER         -> Series(Contents[s]) = Series(Contents[0]))
=============================================================================

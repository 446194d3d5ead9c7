----------------------------- MODULE HiredisDict -----------------------------
(***************************************************************************)
(* The hash table of hiredis (redis/hiredis/dict.c), in which async.c      *)
(* keeps the callbacks of channels and patterns. A bucket is the chain of  *)
(* its entries, newest first; an iterator is the place of the entry it     *)
(* gave last and the entry saved as the next one.                          *)
(***************************************************************************)
EXTENDS Naturals, Sequences, SequencesExt, FiniteSets, FiniteSetsExt

CONSTANTS
  DictKey,       \* numbers: the hash of a key is the key
  DictVal,
  InitialSize    \* DICT_HT_INITIAL_SIZE

VARIABLES
  table,         \* the buckets, from 0 on; none before the first insertion
  used,
  dict_iter,          \* the iterator
  given_keys,    \* the keys this iterator gave, in order
  iter_over,     \* the keys there were when it was made
  dict_map       \* what the table stands for, kept beside it

vars == <<table, used, dict_iter, given_keys, iter_over, dict_map>>

Size == Cardinality(DOMAIN table)
Entry(k, v) == [key |-> k, val |-> v]
NoIter == [on |-> FALSE, index |-> 0, entry |-> 0, next |-> 0]
KeyNone == Max(DictKey) + 1

\* _dictReset
Init ==
  /\ table = [b \in {} |-> <<>>] /\ used = 0
  /\ dict_iter = NoIter /\ given_keys = <<>> /\ iter_over = {}
  /\ dict_map = [k \in {} |-> 0]

Bucket(tb, k) == k % Cardinality(DOMAIN tb)
Chain(tb, k) == IF DOMAIN tb = {} THEN <<>> ELSE tb[Bucket(tb, k)]
\* dictFind: the place in its chain, 0 when there is none
Find(tb, k) == LET hits == {j \in DOMAIN Chain(tb, k) : Chain(tb, k)[j].key = k}
               IN IF hits = {} THEN 0 ELSE Min(hits)

\* _dictNextPower and dictExpand: the entries of the old table in its order, each
\* put in front of its new chain
NextPower(n) == CHOOSE p \in {InitialSize * 2 ^ j : j \in 0..8} :
                  p >= n /\ \A j \in 0..8 : InitialSize * 2 ^ j >= n => p <= InitialSize * 2 ^ j
OldEntries(tb) == FlattenSeq([b \in 1..Cardinality(DOMAIN tb) |-> tb[b - 1]])
Expand(tb, n) ==
  LET size == NextPower(n)
  IN FoldLeft(LAMBDA t, e : [t EXCEPT ![e.key % size] = <<e>> \o @],
              [b \in 0..(size - 1) |-> <<>>], OldEntries(tb))
\* _dictExpandIfNeeded
ExpandIfNeeded(tb, n) ==
  IF DOMAIN tb = {} THEN Expand(tb, InitialSize)
  ELSE IF n = Cardinality(DOMAIN tb) THEN Expand(tb, 2 * Cardinality(DOMAIN tb))
  ELSE tb

\* dictAdd in dictReplace: the table is expanded before the key is looked for
NoIteration == ~dict_iter.on
Replace(k, v) ==
  LET tb == ExpandIfNeeded(table, used)
      at == Find(tb, k)
  IN /\ NoIteration
     /\ IF at = 0
        THEN /\ table' = [tb EXCEPT ![Bucket(tb, k)] = <<Entry(k, v)>> \o @]
             /\ used' = used + 1
        ELSE /\ table' = [tb EXCEPT ![Bucket(tb, k)][at].val = v]
             /\ UNCHANGED used
     /\ dict_map' = [x \in DOMAIN dict_map \cup {k} |-> IF x = k THEN v ELSE dict_map[x]]
     /\ UNCHANGED <<dict_iter, given_keys, iter_over>>

\* dictDelete: unlinked from the head of the chain or from within. While there is
\* an iterator, only the entry it gave last may go.
UnlinkAsHead(chain, at) == SubSeq(chain, at + 1, Len(chain))
Unlink(chain, at) == SubSeq(chain, 1, at - 1) \o SubSeq(chain, at + 1, Len(chain))
Delete(k) ==
  LET at == Find(table, k)
  IN /\ dict_iter.on => given_keys # <<>> /\ k = given_keys[Len(given_keys)]
     /\ at # 0
     /\ table' = [table EXCEPT ![Bucket(table, k)] = Unlink(@, at)]
     /\ used' = used - 1
     /\ dict_map' = [x \in DOMAIN dict_map \ {k} |-> dict_map[x]]
     /\ UNCHANGED <<dict_iter, given_keys, iter_over>>

GetIterator ==
  /\ NoIteration
  /\ dict_iter' = [on |-> TRUE, index |-> 0, entry |-> KeyNone, next |-> KeyNone]
  /\ given_keys' = <<>> /\ iter_over' = DOMAIN dict_map
  /\ UNCHANGED <<table, used, dict_map>>

\* dictNext: the entry that was saved, else the head of the next chain; index
\* counts the chains begun
FirstFrom(i) == {b \in DOMAIN table : b >= i /\ table[b] # <<>>}
KeyAfter(chain, j) == IF j < Len(chain) THEN chain[j + 1].key ELSE KeyNone
Saved(b, j) == KeyAfter(table[b], j)
IterNext ==
  /\ dict_iter.on
  /\ IF dict_iter.next # KeyNone
     THEN /\ dict_iter' = [dict_iter EXCEPT !.entry = dict_iter.next,
                        !.next = Saved(Bucket(table, dict_iter.next), Find(table, dict_iter.next))]
          /\ given_keys' = Append(given_keys, dict_iter.next)
     ELSE /\ FirstFrom(dict_iter.index) # {}
          /\ LET b == Min(FirstFrom(dict_iter.index))
             IN /\ dict_iter' = [dict_iter EXCEPT !.index = b + 1, !.entry = table[b][1].key,
                                        !.next = Saved(b, 1)]
                /\ given_keys' = Append(given_keys, table[b][1].key)
  /\ UNCHANGED <<table, used, iter_over, dict_map>>

\* dictNext finds nothing, dictReleaseIterator
IterEnds ==
  /\ dict_iter.on /\ dict_iter.next = KeyNone /\ FirstFrom(dict_iter.index) = {}
  /\ dict_iter' = NoIter
  /\ UNCHANGED <<table, used, given_keys, iter_over, dict_map>>

Next ==
  \/ \E k \in DictKey, v \in DictVal : Replace(k, v)
  \/ \E k \in DictKey : Delete(k)
  \/ GetIterator \/ IterNext \/ IterEnds

Spec == Init /\ [][Next]_vars
----------------------------------------------------------------------------
\* The table is a map: each key is found with its last value and no other key is,
\* the count is right, through expansions and deletions from the middle of a
\* chain (dictAdd, dictReplace, dictDelete, dictExpand); and an iteration gives
\* every key once, even when the entry just given is deleted (dictNext).
DictIsMap ==
  /\ \A k \in DictKey :
       LET at == Find(table, k)
       IN IF k \in DOMAIN dict_map THEN at # 0 /\ Chain(table, k)[at].val = dict_map[k]
                                   ELSE at = 0
  /\ used = Cardinality(DOMAIN dict_map)
  /\ Len(OldEntries(table)) = used
  /\ IsInjective(given_keys)
  /\ ToSet(given_keys) \subseteq iter_over
  /\ ~dict_iter.on /\ iter_over # {} => ToSet(given_keys) = iter_over
=============================================================================

------------------------------ MODULE SdsBuffer ------------------------------
(***************************************************************************)
(* The dynamic strings of hiredis in memory (redis/hiredis/sds.c, sds.h):  *)
(* an allocation with the fields len and free and the bytes, which end     *)
(* with a zero byte. The operations change the fields and the bytes in     *)
(* place. Bytes are numbers, 0 among them: the strings are binary safe.    *)
(***************************************************************************)
EXTENDS Integers, Sequences, SequencesExt

CONSTANTS
  SdsByte,        \* bytes, with 0
  MaxSds,         \* a bound on the length of the string
  MaxPrealloc     \* SDS_MAX_PREALLOC

VARIABLES
  mem,            \* the bytes allocated, of sh->buf, from place 1 on
  sh_len, sh_free,
  sds_text        \* the string that should be there, kept beside

vars == <<mem, sh_len, sh_free, sds_text>>

Garbage == 99     \* what realloc brings
Texts(n) == UNION {[1..k -> SdsByte] : k \in 0..n}

\* sdsnewlen
Init ==
  \E t \in Texts(2) :
    /\ sds_text = t /\ mem = Append(t, 0) /\ sh_len = Len(t) /\ sh_free = 0

\* sdsMakeRoomFor: the memory and the free bytes afterwards
NewLen(need) == IF need < MaxPrealloc THEN need * 2 ELSE need + MaxPrealloc
HasRoom(n) == sh_free >= n
Room(n) == IF HasRoom(n) THEN [mem |-> mem, free |-> sh_free]
           ELSE LET size == NewLen(sh_len + n)
                IN [mem |-> [j \in 1..(size + 1) |->
                               IF j <= Len(mem) THEN mem[j] ELSE Garbage],
                    free |-> size - sh_len]
\* memcpy to place at, and the zero byte behind
Put(m, at, t) == [j \in DOMAIN m |->
                    IF j \in at..(at + Len(t) - 1) THEN t[j - at + 1]
                    ELSE IF j = at + Len(t) THEN 0 ELSE m[j]]

Becomes(t) == sds_text' = t

\* sdscatlen, and sdscatfmt and sdscatvprintf through it
CatLen(t) ==
  /\ sh_len + Len(t) <= MaxSds
  /\ mem' = Put(Room(Len(t)).mem, sh_len + 1, t)
  /\ sh_len' = sh_len + Len(t) /\ sh_free' = Room(Len(t)).free - Len(t)
  /\ Becomes(sds_text \o t)

\* sdscpylen
CpyLen(t) ==
  LET r == IF sh_free + sh_len < Len(t) THEN Room(Len(t) - sh_len)
                                        ELSE [mem |-> mem, free |-> sh_free]
  IN /\ mem' = Put(r.mem, 1, t)
     /\ sh_len' = Len(t) /\ sh_free' = r.free + sh_len - Len(t)
     /\ Becomes(t)

\* sdsgrowzero
GrowZero(n) ==
  /\ n > sh_len
  /\ LET r == Room(n - sh_len)
     IN /\ mem' = Put(r.mem, sh_len + 1, [j \in 1..(n - sh_len) |-> 0])
        /\ sh_len' = n /\ sh_free' = sh_len + r.free - n
  /\ Becomes(sds_text \o [j \in 1..(n - sh_len) |-> 0])

\* what sdsrange, sdstrim and sdsclear have in common: n bytes from place at on,
\* counted from 0, move to the front
Cut(at, n) ==
  /\ mem' = Put(mem, 1, SubSeq(mem, at + 1, at + n))
  /\ sh_free' = sh_free + (sh_len - n) /\ sh_len' = n

\* sdsrange: negative places count from the end
FromEnd(i) == IF i >= 0 THEN i ELSE IF sh_len + i < 0 THEN 0 ELSE sh_len + i
RangeLenUncut(start, end) == IF start > end THEN 0 ELSE (end - start) + 1
RangeLen(start, end) ==
  IF start > end \/ start >= sh_len THEN 0
  ELSE (IF end >= sh_len THEN sh_len - 1 ELSE end) - start + 1
SdsRange(i, j) ==
  LET start == FromEnd(i) end == FromEnd(j)
  IN /\ sh_len > 0
     /\ Cut(IF RangeLen(start, end) = 0 THEN 0 ELSE start, RangeLen(start, end))
     /\ Becomes(LET ks == SetToSortSeq({k \in 1..sh_len : start < k /\ k <= end + 1}, <)
                IN [k \in DOMAIN ks |-> sds_text[ks[k]]])

\* sdstrim: strchr finds the zero byte of the set too, so zero bytes go as well
InSet(b, c) == b \in {0, c}
Trim(c) ==
  LET kept == {k \in 1..sh_len : ~InSet(mem[k], c)}
      first == CHOOSE k \in kept : \A x \in kept : k <= x
      last  == CHOOSE k \in kept : \A x \in kept : k >= x
  IN /\ IF kept = {} THEN Cut(0, 0) ELSE Cut(first - 1, last - first + 1)
     /\ Becomes(IF kept = {} THEN <<>> ELSE SubSeq(sds_text, first, last))

Clear ==
  /\ sh_free' = sh_free + sh_len /\ sh_len' = 0 /\ mem' = [mem EXCEPT ![1] = 0]
  /\ Becomes(<<>>)

\* sdsRemoveFreeSpace
RemoveFreeSpace ==
  /\ mem' = SubSeq(mem, 1, sh_len + 1) /\ sh_free' = 0
  /\ UNCHANGED <<sh_len, sds_text>>

\* sdsIncrLen with the bytes the caller wrote behind the end after
\* sdsMakeRoomFor, or a negative one
IncrLen(t) ==
  /\ HasRoom(Len(t)) /\ sh_len + Len(t) <= MaxSds
  /\ mem' = Put(mem, sh_len + 1, t)
  /\ sh_len' = sh_len + Len(t) /\ sh_free' = sh_free - Len(t)
  /\ Becomes(sds_text \o t)
DecrLen ==
  /\ sh_len > 0
  /\ sh_len' = sh_len - 1 /\ sh_free' = sh_free + 1 /\ mem' = [mem EXCEPT ![sh_len] = 0]
  /\ Becomes(Front(sds_text))

\* sdsupdatelen: up to the first zero byte
UpdateLen ==
  LET real == CHOOSE k \in 0..sh_len : mem[k + 1] = 0 /\ \A x \in 1..k : mem[x] # 0
  IN /\ sh_free' = sh_free + (sh_len - real) /\ sh_len' = real
     /\ Becomes(SubSeq(sds_text, 1, real)) /\ UNCHANGED mem

\* sdsmapchars, sdstolower, sdstoupper: bytes change, the string keeps its length
MapChars(a, b) ==
  LET Map(x) == IF x = a THEN b ELSE x
  IN /\ mem' = [j \in DOMAIN mem |-> IF j <= sh_len THEN Map(mem[j]) ELSE mem[j]]
     /\ Becomes([j \in DOMAIN sds_text |-> Map(sds_text[j])])
     /\ UNCHANGED <<sh_len, sh_free>>

Next ==
  \/ \E t \in Texts(2) : CatLen(t) \/ CpyLen(t) \/ IncrLen(t)
  \/ \E n \in 1..MaxSds : GrowZero(n)
  \/ \E i, j \in (-MaxSds)..MaxSds : SdsRange(i, j)
  \/ \E c \in SdsByte : Trim(c)
  \/ Clear \/ RemoveFreeSpace \/ DecrLen \/ UpdateLen
  \/ \E a, b \in SdsByte : MapChars(a, b)

Spec == Init /\ [][Next]_vars
----------------------------------------------------------------------------
\* The header, the bytes and the allocation agree after every sequence of
\* operations: the first len bytes are the string, none of them left over from
\* before or from realloc, a zero byte follows, and len and free together are
\* the allocation (sdsMakeRoomFor, sdsrange, sdstrim, sdsgrowzero).
StringIntact ==
  /\ sh_len >= 0 /\ sh_free >= 0
  /\ Len(mem) = sh_len + sh_free + 1
  /\ sh_len = Len(sds_text)
  /\ \A j \in 1..sh_len : mem[j] = sds_text[j]
  /\ mem[sh_len + 1] = 0
=============================================================================

------------------------------- MODULE YcsbTable -------------------------------
(***************************************************************************)
(* The in-memory database of the YCSB client: HashtableDB over             *)
(* LockStlHashtable (bench_tools/YCSB-C: db/hashtable_db.cc,               *)
(* db/lock_stl_db.h, lib/lock_stl_hashtable.h, lib/stl_hashtable.h). Every *)
(* call of a table is one step, under its mutex; the calls of an operation *)
(* interleave with those of other threads. Field tables and value strings  *)
(* are allocated and freed explicitly; 0 is NULL.                          *)
(***************************************************************************)
EXTENDS Naturals, Sequences, FiniteSets

CONSTANTS
  TableThread, RecordName,
  NumFields,         \* the fields of a record are 1..NumFields
  TableOp,           \* a subset of {"read", "scan", "update", "insert", "delete"}
  MaxTableCalls           \* operations in all

VARIABLES
  key_table,         \* by record, its field table or 0
  field_tables,      \* a sequence: [live, of], of gives a field's string or 0
  strings,           \* a sequence: is the string live?
  th,                \* per thread: [op, pc, record, table, field, rest, held]
  table_calls,
  unmanaged,         \* a table or string was dropped by a race of two creations
  dangling,          \* a thread used a table that another one had deleted
  freed_twice,
  read_freed         \* a reader copied a string that was freed before

table_vars == <<key_table, field_tables, strings, th, table_calls, unmanaged, dangling,
                freed_twice, read_freed>>

Idle == [op |-> "none", pc |-> "idle", record |-> "none", table |-> 0, field |-> 1,
         rest |-> <<>>, held |-> {}]
NoFields == [f \in 1..NumFields |-> 0]

Init ==
  /\ key_table = [r \in RecordName |-> 0] /\ field_tables = <<>> /\ strings = <<>>
  /\ th = [t \in TableThread |-> Idle] /\ table_calls = 0
  /\ unmanaged = FALSE /\ dangling = FALSE /\ freed_twice = FALSE /\ read_freed = FALSE

Set(t, new) == th' = [th EXCEPT ![t] = new]
At(t, pc) == th[t].pc = pc
\* Undefined behaviour ends the run of the model
Defined == ~dangling /\ ~freed_twice

Begin(t, op, r) ==
  /\ Defined /\ At(t, "idle") /\ table_calls < MaxTableCalls /\ table_calls' = table_calls + 1
  /\ Set(t, [Idle EXCEPT !.op = op, !.pc = "find", !.record = r])
  /\ UNCHANGED <<key_table, field_tables, strings, unmanaged, dangling, freed_twice,
                 read_freed>>

\* key_table_->Get, or Entries for a scan: the record and any others after it, in
\* the order of the hash table; Remove for a deletion
Others(r) == {k \in RecordName \ {r} : key_table[k] # 0}
Scanned(r) == {<<>>} \cup {<<key_table[k]>> : k \in Others(r)}
Find(t) ==
  LET r == th[t].record
      table == key_table[r]
  IN
  /\ Defined /\ At(t, "find")
  /\ CASE th[t].op \in {"update", "insert"} ->
            Set(t, [th[t] EXCEPT !.table = table,
                                 !.pc = IF table = 0 THEN "create" ELSE "field"])
       [] th[t].op = "read" ->
            Set(t, IF table = 0 THEN Idle
                   ELSE [th[t] EXCEPT !.table = table, !.pc = "fetch"])
       [] th[t].op = "scan" ->
            IF table = 0 THEN Set(t, Idle)
            ELSE \E rest \in Scanned(r) :
                   Set(t, [th[t] EXCEPT !.table = table, !.pc = "fetch", !.rest = rest])
       [] th[t].op = "delete" ->
            Set(t, IF table = 0 THEN Idle
                   ELSE [th[t] EXCEPT !.table = table, !.pc = "destroy"])
  /\ key_table' = IF th[t].op = "delete" THEN [key_table EXCEPT ![r] = 0] ELSE key_table
  /\ UNCHANGED <<field_tables, strings, table_calls, unmanaged, dangling, freed_twice, read_freed>>

\* NewFieldHashtable and key_table_->Insert, which keeps the table that is there;
\* the result is not looked at
Create(t) ==
  LET new == Len(field_tables) + 1
      r == th[t].record
  IN
  /\ Defined /\ At(t, "create")
  /\ field_tables' = Append(field_tables, [live |-> TRUE, of |-> NoFields])
  /\ key_table' = [key_table EXCEPT ![r] = IF @ = 0 THEN new ELSE @]
  /\ unmanaged' = (unmanaged \/ key_table[r] # 0)
  /\ Set(t, [th[t] EXCEPT !.table = new,
                          !.pc = IF th[t].op = "update" THEN "fill" ELSE "field"])
  /\ UNCHANGED <<strings, table_calls, dangling, freed_twice, read_freed>>

Freed(s) == [strings EXCEPT ![s] = FALSE]
Advance(t) == IF th[t].field = NumFields THEN Idle
              ELSE [th[t] EXCEPT !.field = @ + 1, !.held = {}, !.pc =
                      IF th[t].pc = "add" THEN "field" ELSE th[t].pc]
MyTable(t) == field_tables[th[t].table]
Holding(t) == MyTable(t).of[th[t].field]
Store(t, s) == field_tables' = [field_tables EXCEPT ![th[t].table].of[th[t].field] = s]
Uses(t) == dangling' = (dangling \/ ~MyTable(t).live)

\* Insert: CopyString and the field table's Insert for the next field; when the
\* field is there the copy is freed and kErrorConflict returned
InsertFieldLeaking(t) ==
  /\ Defined /\ At(t, "field") /\ th[t].op = "insert" /\ Uses(t)
  /\ strings' = Append(strings, TRUE)
  /\ IF Holding(t) = 0 THEN Store(t, Len(strings) + 1) /\ Set(t, Advance(t))
     ELSE Set(t, Idle) /\ UNCHANGED field_tables
  /\ UNCHANGED <<key_table, table_calls, unmanaged, freed_twice, read_freed>>
InsertField(t) ==
  /\ Defined /\ At(t, "field") /\ th[t].op = "insert" /\ Uses(t)
  /\ IF Holding(t) = 0
     THEN /\ strings' = Append(strings, TRUE) /\ Store(t, Len(strings) + 1)
          /\ Set(t, Advance(t))
     ELSE strings' = Append(strings, FALSE) /\ Set(t, Idle) /\ UNCHANGED field_tables
  /\ UNCHANGED <<key_table, table_calls, unmanaged, freed_twice, read_freed>>

\* Update of a record it made itself: Insert, whose result is not looked at
FillField(t) ==
  /\ Defined /\ At(t, "fill") /\ Uses(t)
  /\ strings' = Append(strings, TRUE)
  /\ IF Holding(t) = 0 THEN Store(t, Len(strings) + 1) ELSE UNCHANGED field_tables
  /\ unmanaged' = (unmanaged \/ Holding(t) # 0)
  /\ Set(t, Advance(t))
  /\ UNCHANGED <<key_table, table_calls, freed_twice, read_freed>>

\* Update of a record that was there: the field table's Update swaps the strings,
\* and then the old one is freed, or the new one inserted if there was none
UpdateField(t) ==
  LET new == Len(strings) + 1 IN
  /\ Defined /\ At(t, "field") /\ th[t].op = "update" /\ Uses(t)
  /\ strings' = Append(strings, TRUE)
  /\ IF Holding(t) = 0
     THEN Set(t, [th[t] EXCEPT !.pc = "add", !.held = {new}]) /\ UNCHANGED field_tables
     ELSE Set(t, [th[t] EXCEPT !.pc = "free", !.held = {Holding(t)}]) /\ Store(t, new)
  /\ UNCHANGED <<key_table, table_calls, unmanaged, freed_twice, read_freed>>
AddField(t) ==
  LET new == CHOOSE s \in th[t].held : TRUE IN
  /\ Defined /\ At(t, "add") /\ Uses(t)
  /\ IF Holding(t) = 0 THEN Store(t, new) ELSE UNCHANGED field_tables
  /\ unmanaged' = (unmanaged \/ Holding(t) # 0)
  /\ Set(t, Advance(t))
  /\ UNCHANGED <<key_table, strings, table_calls, freed_twice, read_freed>>
DeleteString(t) ==
  LET old == CHOOSE s \in th[t].held : TRUE IN
  /\ Defined /\ At(t, "free")
  /\ freed_twice' = (freed_twice \/ ~strings[old]) /\ strings' = Freed(old)
  /\ Set(t, IF th[t].field = NumFields THEN Idle
            ELSE [th[t] EXCEPT !.field = @ + 1, !.held = {}, !.pc = "field"])
  /\ UNCHANGED <<key_table, field_tables, table_calls, unmanaged, dangling, read_freed>>

\* Read and Scan: the pointers of some field or, with Entries, of all of them are
\* taken under the lock and copied after it
Present(t) == {MyTable(t).of[f] : f \in 1..NumFields} \ {0}
Fetch(t) ==
  /\ Defined /\ At(t, "fetch") /\ Uses(t)
  /\ \E held \in {Present(t)} \cup {{MyTable(t).of[f]} \ {0} : f \in 1..NumFields} :
       Set(t, [th[t] EXCEPT !.held = held, !.pc = "copy"])
  /\ UNCHANGED <<key_table, field_tables, strings, table_calls, unmanaged, freed_twice, read_freed>>
Copy(t) ==
  /\ Defined /\ At(t, "copy")
  /\ read_freed' = (read_freed \/ \E s \in th[t].held : ~strings[s])
  /\ Set(t, IF th[t].rest = <<>> THEN Idle
            ELSE [th[t] EXCEPT !.table = Head(th[t].rest), !.rest = Tail(@),
                               !.held = {}, !.pc = "fetch"])
  /\ UNCHANGED <<key_table, field_tables, strings, table_calls, unmanaged, dangling, freed_twice>>

\* DeleteFieldHashtable
Destroy(t) ==
  /\ Defined /\ At(t, "destroy") /\ Uses(t)
  /\ freed_twice' = (freed_twice \/ \E s \in Present(t) : ~strings[s])
  /\ strings' = [s \in DOMAIN strings |-> strings[s] /\ s \notin Present(t)]
  /\ field_tables' = [field_tables EXCEPT ![th[t].table].live = FALSE]
  /\ Set(t, Idle)
  /\ UNCHANGED <<key_table, table_calls, unmanaged, read_freed>>

Next ==
  \E t \in TableThread :
    \/ \E op \in TableOp, r \in RecordName : Begin(t, op, r)
    \/ Find(t) \/ Create(t) \/ InsertField(t) \/ FillField(t) \/ UpdateField(t)
    \/ AddField(t) \/ DeleteString(t) \/ Fetch(t) \/ Copy(t) \/ Destroy(t)

Spec == Init /\ [][Next]_table_vars
----------------------------------------------------------------------------
Reachable == {key_table[r] : r \in RecordName} \ {0}
StringsOf(i) == {field_tables[i].of[f] : f \in 1..NumFields} \ {0}
Owned == UNION {StringsOf(i) : i \in {j \in DOMAIN field_tables : field_tables[j].live}}
           \cup UNION {th[t].held : t \in TableThread}

StringsManaged ==
  Defined =>
  /\ \A i \in Reachable : field_tables[i].live /\ \A s \in StringsOf(i) : strings[s]
  /\ unmanaged \/
       /\ \A s \in DOMAIN strings : strings[s] => s \in Owned
       /\ \A i \in DOMAIN field_tables :
            field_tables[i].live => i \in Reachable \cup {th[t].table : t \in TableThread}
NeverFreedTwice == ~freed_twice

\* However the operations of several threads interleave, no string is freed twice
\* and no record has a string that was freed; and a string or table in memory is
\* one that the database or a running operation still knows of, so that
\* the destructor frees it, except after two threads created the same record or
\* field (Get and Insert are two calls, and Insert's result is dropped). Deleting a
\* record that another thread works on is outside of what the classes provide for.
MemoryManaged == StringsManaged /\ NeverFreedTwice

\* A reader copies strings that are still in memory: it need not, Update frees the
\* old string at once.
ReadsLiveStrings == ~read_freed

\* A table is not used after its deletion: it may be, Delete frees it at once.
TablesOutliveUse == ~dangling
=============================================================================

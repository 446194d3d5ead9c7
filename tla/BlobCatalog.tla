---------------------------- MODULE BlobCatalog -----------------------------
(***************************************************************************)
(* What the catalog of blob files promises to the rest of Titan: the files *)
(* of each column family change one edit at a time, and a crash changes    *)
(* none.  A file leaves only by being deleted, or with its column family   *)
(* once that was dropped.  BlobFileSet implements this with a manifest.    *)
(***************************************************************************)
CONSTANTS ColumnFamily, File

VARIABLES live, dropped

Init == /\ live = [cf \in ColumnFamily |-> {}]
        /\ dropped = {}

\* A new blob file is in no column family yet.
Add(cf, f) ==
  /\ \A c \in ColumnFamily : f \notin live[c]
  /\ live' = [live EXCEPT ![cf] = @ \cup {f}]
  /\ UNCHANGED dropped

Delete(cf, fs) ==
  /\ fs \subseteq live[cf]
  /\ live' = [live EXCEPT ![cf] = @ \ fs]
  /\ UNCHANGED dropped

Drop(cf) ==
  /\ dropped' = dropped \cup {cf}
  /\ UNCHANGED live

\* The files of dropped column families are forgotten.
Forget ==
  /\ live' = [cf \in ColumnFamily |-> IF cf \in dropped THEN {} ELSE live[cf]]
  /\ UNCHANGED dropped

Next == \/ \E cf \in ColumnFamily : \/ \E f \in File : Add(cf, f)
                                    \/ \E fs \in SUBSET File : Delete(cf, fs)
                                    \/ Drop(cf)
        \/ Forget

Spec == Init /\ [][Next]_<<live, dropped>>

=============================================================================

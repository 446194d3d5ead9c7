---------------------------- MODULE BlobFileMeta ----------------------------
(***************************************************************************)
(* The life cycle of one blob file (src/src/blob_format.{h,cc}).           *)
(*                                                                         *)
(* FileStateTransit is the only writer of a file's state.  Its cases carry *)
(* assertions; a debug build stops when one fails, so a failing assertion  *)
(* yields kAssertFailed here, a state from which no case leads out.  Where *)
(* kAssertFailed is unreachable, debug and release builds agree.           *)
(***************************************************************************)

FileState ==
  {"kInit", "kNormal", "kPendingLSM", "kBeingGC", "kPendingGC", "kObsolete",
   "kToMerge", "kToGC"}

kAssertFailed == "kAssertFailed"

\* The assertion each case makes of the state it finds.
FileStateAssert(state, event) ==
  CASE event = "kFlushCompleted" ->
         state \in {"kPendingLSM", "kPendingGC", "kNormal", "kBeingGC",
                    "kObsolete"}
    [] event = "kGCCompleted" ->
         state \in {"kObsolete", "kPendingGC", "kBeingGC"}
    [] event = "kCompactionCompleted"     -> state = "kPendingLSM"
    [] event = "kGCBegin"                 -> state = "kNormal"
    [] event = "kGCOutput"                -> state = "kInit"
    [] event = "kFlushOrCompactionOutput" -> state = "kInit"
    [] event = "kDbRestart"               -> state = "kInit"
    [] event = "kDelete"                  -> state # "kObsolete"
    [] OTHER                              -> TRUE

FileStateTransit(state, event) ==
  IF state = kAssertFailed \/ ~FileStateAssert(state, event)
  THEN kAssertFailed ELSE
  CASE event = "kFlushCompleted" ->
         IF state = "kPendingLSM" THEN "kNormal" ELSE state
    [] event = "kGCCompleted" ->
         IF state = "kObsolete" THEN state ELSE "kNormal"
    [] event = "kCompactionCompleted"     -> "kNormal"
    [] event = "kGCBegin"                 -> "kBeingGC"
    [] event = "kGCOutput"                -> "kPendingGC"
    [] event = "kFlushOrCompactionOutput" -> "kPendingLSM"
    [] event = "kDbRestart"               -> "kNormal"
    [] event = "kDelete"                  -> "kObsolete"
    [] event = "kNeedMerge" ->
         IF state \in {"kToGC", "kObsolete"} THEN state ELSE "kToMerge"
    [] event = "kReset"                   -> "kNormal"
    [] event = "kNeedGC" ->
         IF state = "kObsolete" THEN state ELSE "kToGC"

=============================================================================

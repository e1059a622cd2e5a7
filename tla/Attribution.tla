----------------------------- MODULE Attribution -----------------------------
(***************************************************************************)
(* What the reports say of the transactions that the poller triggered: for *)
(* a failed one the block that should have included it (blameValidator),   *)
(* and, in graffiti mode, which ones were sequenced too late for their     *)
(* target (queryStatusRatios).  Both are computed from the observer's      *)
(* database at the time of the report, the target from what it said when   *)
(* the transaction was triggered.                                          *)
(*                                                                         *)
(* A report takes the block of a submission from the sequencer contract;   *)
(* it is any block after the trigger, so what follows is said of each.     *)
(***************************************************************************)
EXTENDS ShutterBlocks

SequencedIn(k) == {s \in db : s > received[k].block}

-----------------------------------------------------------------------------
(* queryWhoToBlame: the first block after the submission whose proposer is   *)
(* an active validator; 0, the zero value, if there is none yet.             *)
BlameRows_AnyProposer(sequenced) == {s \in db : s > sequenced}
BlameRows(sequenced) == {s \in ShutterRows : s > sequenced}
Blamed_Newest(sequenced) ==
  IF BlameRows(sequenced) = {} THEN 0 ELSE Max(BlameRows(sequenced))
Blamed(sequenced) ==
  IF BlameRows(sequenced) = {} THEN 0 ELSE Min(BlameRows(sequenced))

(* queryStatusRatios: "invalid for target", by the target slot that the main *)
(* loop remembers of the transaction.                                        *)
TargetSlot(k) == received[k].target
Late_After(k, sequenced) == sequenced > TargetSlot(k)
Late(k, sequenced) == sequenced >= TargetSlot(k)

-----------------------------------------------------------------------------
(* The two agree, as long as no validator changes its status: a transaction  *)
(* that was in time has the block of its target slot to blame, if there is   *)
(* one; a late one, or one whose target slot stayed empty, a later block.    *)
BlameAgreesWithTarget == flips = 0 =>
   \A k \in DOMAIN received : \A s \in SequencedIn(k) :
      IF ~Late(k, s) /\ TargetSlot(k) \in db
      THEN Blamed(s) = TargetSlot(k)
      ELSE Blamed(s) = 0 \/ Blamed(s) > TargetSlot(k)

(* A blame that was written moves only if a validator changes its status:    *)
(* the one that was blamed is not active any more, or the one that is blamed *)
(* now was not.  Otherwise no later report names another block, although     *)
(* every report asks the database again and new blocks come.                 *)
BlameStays == [][\A s \in db : Blamed(s) # 0 /\ Blamed(s)' # Blamed(s) =>
                  \/ proposer[Blamed(s)] \in active \ active'
                  \/ Blamed(s)' # 0 /\ proposer[Blamed(s)'] \in active' \ active]_vars
=============================================================================

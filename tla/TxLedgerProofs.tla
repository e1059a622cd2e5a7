--------------------------- MODULE TxLedgerProofs ---------------------------
(***************************************************************************)
(* The promises of the ledger, for every set of transactions.  The cause   *)
(* of a verdict "notIncluded" is an inclusion that was there when the       *)
(* transaction was signalled, and a verdict never changes.                  *)
(***************************************************************************)
EXTENDS TxLedger, TLAPS

SignalHasCause == \A i \in signalled : IncludedOther(i)
LeftOutWasSignalled == \A i \in Tx : verdict[i] = "notIncluded" => i \in signalled
LInv == LedgerTypeOK /\ SignalHasCause /\ LeftOutWasSignalled /\ RetiredIsSettled

(* The inductive invariant of the ledger holds before anything is pending.  *)
LEMMA LInvInit == Init => LInv
  BY DEF Init, LInv, LedgerTypeOK, SignalHasCause, LeftOutWasSignalled, RetiredIsSettled, Verdicts

(* What was a cause, or settled, stays so: verdicts are final and nothing   *)
(* is unsignalled.                                                          *)
LEMMA CausesStay ==
  ASSUME LedgerTypeOK,
         signalled \subseteq signalled',
         \A j \in Tx : verdict[j] # "open" => verdict'[j] = verdict[j]
  PROVE  /\ \A i : IncludedOther(i) => IncludedOther(i)'
         /\ \A i \in Tx : Settled(i) => Settled(i)'
  BY DEF LedgerTypeOK, IncludedOther, Settled

(* Every step of the ledger keeps it.                                       *)
LEMMA LInvNext == LInv /\ [Next]_vars => LInv'
<1> SUFFICES ASSUME LInv, [Next]_vars PROVE LInv'
  OBVIOUS
<1> USE DEF LInv
<1>1. ASSUME NEW i \in Tx, Submit(i) PROVE LInv'
  BY <1>1 DEF Submit, LedgerTypeOK, SignalHasCause, LeftOutWasSignalled, RetiredIsSettled, Settled, IncludedOther
<1>2. ASSUME NEW i \in Tx, Signal(i) PROVE LInv'
  <2>1. LedgerTypeOK' /\ LeftOutWasSignalled'
    BY <1>2 DEF Signal, LedgerTypeOK, LeftOutWasSignalled
  <2>2. SignalHasCause'
    BY <1>2 DEF Signal, SignalHasCause, IncludedOther
  <2>3. RetiredIsSettled'
    BY <1>2 DEF Signal, RetiredIsSettled, Settled
  <2> QED BY <2>1, <2>2, <2>3
<1>3. ASSUME NEW i \in Tx, NEW v \in Verdicts \ {"open"}, Resolve(i, v) PROVE LInv'
  <2>1. /\ signalled' = signalled /\ retired' = retired
        /\ \A j \in Tx : verdict[j] # "open" => verdict'[j] = verdict[j]
    BY <1>3 DEF Resolve, LedgerTypeOK
  <2>2. LedgerTypeOK' /\ LeftOutWasSignalled'
    BY <1>3 DEF Resolve, LedgerTypeOK, LeftOutWasSignalled
  <2>3. SignalHasCause' /\ RetiredIsSettled'
    BY <2>1, CausesStay DEF SignalHasCause, RetiredIsSettled, LedgerTypeOK
  <2> QED BY <2>2, <2>3
<1>4. ASSUME NEW S \in SUBSET pending, Retire(S) PROVE LInv'
  BY <1>4 DEF Retire, LedgerTypeOK, SignalHasCause, LeftOutWasSignalled, RetiredIsSettled, Settled, IncludedOther
<1>5. CASE UNCHANGED vars
  BY <1>5 DEF vars, LedgerTypeOK, SignalHasCause, LeftOutWasSignalled, RetiredIsSettled, Settled, IncludedOther
<1> QED BY <1>1, <1>2, <1>3, <1>4, <1>5 DEF Next

(* So it always holds.                                                      *)
THEOREM LedgerInductive == Spec => []LInv
  BY LInvInit, LInvNext, PTL DEF Spec

(* A retired transaction was signalled, included or given up.               *)
THEOREM RetiredOnlyIfSettled == Spec => []RetiredIsSettled
<1>1. LInv => RetiredIsSettled
  BY DEF LInv
<1> QED BY <1>1, LedgerInductive, PTL

(* A transaction is reported as left out only if another one is included.   *)
THEOREM LeftOutOnlyWithCause == Spec => []LeftOutHasCause
<1>1. LInv => LeftOutHasCause
  BY DEF LInv, LeftOutHasCause, LeftOutWasSignalled, SignalHasCause
<1> QED BY <1>1, LedgerInductive, PTL
=============================================================================

------------------------------ MODULE TxLedger ------------------------------
(***************************************************************************)
(* What the continuous test promises about the transactions it follows,    *)
(* without goroutines, polling or records that are written piecemeal: a    *)
(* transaction is pending once it was sent, gets at most one verdict, may  *)
(* be signalled to stop waiting only because another one was included, and *)
(* is retired for good when it was signalled, included or given up.        *)
(***************************************************************************)
CONSTANT Tx

VARIABLES pending,    \* cfg.status.txInFlight, as a set
          retired,    \* cfg.status.txDone, as a set
          signalled,  \* transactions whose cancel function was called
          verdict     \* final value of txStatus

vars == <<pending, retired, signalled, verdict>>

Verdicts == {"open", "included", "notIncluded", "failed"}

LedgerTypeOK == /\ pending \subseteq Tx /\ retired \subseteq Tx
                /\ pending \cap retired = {}
                /\ signalled \subseteq Tx /\ verdict \in [Tx -> Verdicts]

Init == /\ pending = {} /\ retired = {} /\ signalled = {}
        /\ verdict = [i \in Tx |-> "open"]

Submit(i) == /\ i \notin pending \cup retired
             /\ pending' = pending \cup {i}
             /\ UNCHANGED <<retired, signalled, verdict>>

IncludedOther(i) == \E j \in Tx \ {i} : verdict[j] = "included"

Signal_Any(i) == /\ i \in pending \ signalled
                 /\ signalled' = signalled \cup {i}
                 /\ UNCHANGED <<pending, retired, verdict>>
Signal(i) == /\ i \in pending \ signalled /\ IncludedOther(i)
             /\ signalled' = signalled \cup {i}
             /\ UNCHANGED <<pending, retired, verdict>>

Resolve(i, v) == /\ i \in pending \cup retired /\ verdict[i] = "open"
                 /\ v = "notIncluded" => i \in signalled
                 /\ verdict' = [verdict EXCEPT ![i] = v]
                 /\ UNCHANGED <<pending, retired, signalled>>

Settled(i) == i \in signalled \/ verdict[i] \in {"included", "failed"}

Retire_Unsettled(S) == /\ S # {} /\ S \subseteq pending
             /\ pending' = pending \ S /\ retired' = retired \cup S
             /\ UNCHANGED <<signalled, verdict>>
Retire_KeepsPending(S) == /\ S # {} /\ S \subseteq pending
             /\ \A i \in S : Settled(i)
             /\ retired' = retired \cup S
             /\ UNCHANGED <<pending, signalled, verdict>>
Retire(S) == /\ S # {} /\ S \subseteq pending
             /\ \A i \in S : Settled(i)
             /\ pending' = pending \ S /\ retired' = retired \cup S
             /\ UNCHANGED <<signalled, verdict>>

Next == \/ \E i \in Tx : Submit(i) \/ Signal(i)
        \/ \E i \in Tx : \E v \in Verdicts \ {"open"} : Resolve(i, v)
        \/ \E S \in SUBSET pending : Retire(S)

Spec == Init /\ [][Next]_vars

(* A transaction the loop no longer looks at and that has no verdict yet    *)
(* was told to stop: its goroutine is on the way to one.                    *)
RetiredIsSettled == \A i \in retired : Settled(i)

(* A transaction is reported as left out only if another one got in: the    *)
(* first shutterized block that includes anything is what ends the others.  *)
LeftOutHasCause == \A i \in Tx : verdict[i] = "notIncluded" => IncludedOther(i)
=============================================================================

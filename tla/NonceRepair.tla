----------------------------- MODULE NonceRepair -----------------------------
(***************************************************************************)
(* utils.FixNonce, the housekeeping that is run by hand on the key of      *)
(* earlier tests: it replaces what is pending at the node by self          *)
(* transfers at twice the suggested price and waits for them.  It runs     *)
(* when the program of LegacyTests is over, on the pool that this leaves.  *)
(***************************************************************************)
EXTENDS LegacyTests

VARIABLES
  fixPc,
  headNonce, pendingNonce, i, txs,   \* its locals
  roundHead,   \* the head nonce of a round, which shadows headNonce
  before,      \* history: the pool when it started
  overtaken    \* history: a block was mined before it had sent everything

fixVars == <<fixPc, headNonce, pendingNonce, i, txs, roundHead, before, overtaken>>
allVars == <<vars, fixVars>>

RepairInit ==
  /\ Init
  /\ fixPc = "idle" /\ headNonce = 0 /\ pendingNonce = 0 /\ i = 0 /\ txs = <<>>
  /\ roundHead = 0 /\ before = {} /\ overtaken = FALSE

-----------------------------------------------------------------------------
(* The two nonces of the account.                                           *)
FixHead ==
  /\ fixPc = "idle" /\ process # "running" /\ fixPc' = "pending"
  /\ headNonce' = head /\ before' = pool
  /\ UNCHANGED <<pendingNonce, i, txs, roundHead, overtaken, vars>>
FixPending ==
  /\ fixPc = "pending" /\ fixPc' = "round" /\ pendingNonce' = PendingNonceAt
  /\ UNCHANGED <<headNonce, i, txs, roundHead, before, overtaken, vars>>

(* One round for each nonce between them, which asks for the head nonce      *)
(* again and counts from that one.                                           *)
Rounds_Inclusive == pendingNonce - headNonce + 1
Rounds == pendingNonce - headNonce

FixRound ==
  /\ fixPc = "round" /\ i < Rounds /\ fixPc' = "send" /\ roundHead' = head
  /\ UNCHANGED <<headNonce, pendingNonce, i, txs, before, overtaken, vars>>

FixPrice_Suggested(suggested) == suggested
FixPrice(suggested) == suggested + suggested

(* An error of SendTransaction is logged, and the transaction waited for     *)
(* like any other.                                                           *)
FixSend == \E suggested \in Prices :
  LET tx == [nonce |-> roundHead + i, kind |-> "fix", price |-> FixPrice(suggested)]
  IN /\ fixPc = "send" /\ fixPc' = "round"
     /\ Sent(tx) \/ Refused(tx) \/ SendFails(tx)
     /\ txs' = Append(txs, tx) /\ i' = i + 1
     /\ UNCHANGED <<headNonce, pendingNonce, roundHead, before, overtaken,
                    loaded, process, pc, nonce, sends, waitVars>>

(* bind.WaitMined has no deadline here.                                      *)
FixWait ==
  /\ fixPc = "round" /\ i >= Rounds /\ fixPc' = "wait"
  /\ UNCHANGED <<headNonce, pendingNonce, i, txs, roundHead, before, overtaken, vars>>
FixMined ==
  /\ fixPc = "wait" /\ txs # <<>> /\ Contains(mined, Head(txs))
  /\ txs' = Tail(txs)
  /\ UNCHANGED <<fixPc, headNonce, pendingNonce, i, roundHead, before, overtaken, vars>>
FixDone ==
  /\ fixPc = "wait" /\ txs = <<>> /\ fixPc' = "done"
  /\ UNCHANGED <<headNonce, pendingNonce, i, txs, roundHead, before, overtaken, vars>>

(* Any of the queries can fail, which ends FixNonce.                         *)
FixFails ==
  /\ fixPc \in {"idle", "pending", "round", "send", "wait"} /\ process # "running"
  /\ fixPc' = "failed"
  /\ UNCHANGED <<headNonce, pendingNonce, i, txs, roundHead, before, overtaken, vars>>

FixMine == /\ Mine
           /\ overtaken' = (overtaken \/ fixPc \in {"pending", "round", "send"})
           /\ UNCHANGED <<fixPc, headNonce, pendingNonce, i, txs, roundHead, before>>

FixStep == \/ FixHead \/ FixPending \/ FixRound \/ FixSend
           \/ FixWait \/ FixMined \/ FixDone

RepairNext == FixMine \/ FixStep \/ FixFails \/ (TestsNext /\ UNCHANGED fixVars)

(* Both programs run; the node mines what it can.  No request has to fail.   *)
RepairSpec == /\ RepairInit /\ [][RepairNext]_allVars
              /\ WF_allVars(SendWaitStep /\ UNCHANGED fixVars)
              /\ WF_allVars(FixStep) /\ WF_allVars(FixMine)

-----------------------------------------------------------------------------
(* FixNonce replaces what is pending.  Nothing that was pending is lost: its *)
(* nonce pends on or is mined.  What it adds goes beyond the pending nonce   *)
(* by no more than the blocks that were mined since its first query, as the  *)
(* round number is added to a head nonce that moves with them; and if none   *)
(* was, the pool holds the same nonces as before.                            *)
Nonces(ts) == {t.nonce : t \in ts}
NoneLost == Nonces(before) \subseteq Nonces(pool) \cup 0..(head - 1)
NoneBeyond == \A t \in pool : \/ t.nonce \in Nonces(before)
                             \/ t.nonce < pendingNonce + (head - headNonce)
RepairKeepsNonces == fixPc = "round" =>
  NoneLost /\ NoneBeyond /\ (~overtaken => Nonces(pool) = Nonces(before))

(* It ends, unless a block came in between, a request failed, or what it     *)
(* replaces is paid so well that twice the suggested price is not better:    *)
(* then the node refuses the transaction and FixNonce waits for ever.        *)
Outbid == \A t \in before : \A p \in Prices : t.price < 2 * p
FixEnds == (fixPc = "wait" /\ countsPool /\ ~overtaken /\ ~failed /\ Outbid)
           ~> fixPc \in {"done", "failed"}
=============================================================================

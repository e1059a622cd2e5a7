----------------------------- MODULE LegacyTests -----------------------------
(***************************************************************************)
(* The original tests of the repository: the dispatcher in main.go, the    *)
(* test that sends a transaction, waits for its receipt and cancels it     *)
(* after a timeout (mode "send-wait"), and the test that sends one at each *)
(* tick (mode "chiado"; mode "gnosis" is the same code at another node).   *)
(* Template.env gives both one key and one node.                           *)
(*                                                                         *)
(* The node is external: a chain of mined transactions and a pool.  Either *)
(* its pending nonce counts the pool and a transaction is replaced by a    *)
(* better paid one only (countsPool), or neither, as with an encrypting    *)
(* RPC server, which keeps what it gets to itself.                         *)
(***************************************************************************)
EXTENDS Integers, Sequences, SequencesExt, FiniteSets, FiniteSetsExt

CONSTANTS Prices,    \* what SuggestGasPrice may answer
          MaxSends   \* bound: how often a nonce is asked for

ASSUME PricesAssumption == Prices \subseteq Nat \ {0} /\ Prices # {}
ASSUME SendsAssumption == MaxSends \in Nat \ {0}

VARIABLES
  countsPool, mined, pool,     \* the node
  loaded,        \* the tests get the configuration of the .env file
  process,       \* "running", or how the program ended
  pc,            \* position of each mode
  nonce,         \* the nonce that each mode works with
  own,           \* the transaction that send-wait waits for
  bid,           \* the price of its last cancellation
  successCount, failCount,
  sends,
  used,          \* history: the nonces of send-wait, in order
  confirmed,     \* history: [nonce, bid] of failed cancellations taken for a confirmation
  failed         \* history: a request failed

nodeVars == <<countsPool, mined, pool>>
waitVars == <<own, bid, successCount, failCount, used, confirmed>>
testVars == <<loaded, process, pc, nonce, sends, failed, waitVars>>
vars     == <<nodeVars, testVars>>

SW == "send-wait"
Modes == {SW, "chiado"}
(* "fix" is a transaction of NonceRepair, at twice the suggested price.      *)
Tx == [nonce : 0..(3 * MaxSends), kind : {"test", "cancel", "fix"},
       price : Prices \cup {2 * p : p \in Prices}]
NoTx == [nonce |-> MaxSends, kind |-> "none", price |-> 0]

TypeOK ==
  /\ countsPool \in BOOLEAN /\ mined \in Seq(Tx) /\ pool \subseteq Tx
  /\ loaded \in BOOLEAN /\ process \in {"running", "done", "fatal", "panic"}
  /\ pc \in [Modes -> {"off", "start", "idle", "send", "wait", "cancel", "check", "done"}]
  /\ nonce \in [Modes -> 0..MaxSends] /\ own \in Tx \cup {NoTx} /\ bid \in Prices \cup {0}
  /\ successCount \in 0..MaxSends /\ failCount \in 0..MaxSends
  /\ sends \in 0..MaxSends /\ failed \in BOOLEAN
  /\ used \in Seq(0..MaxSends)
  /\ confirmed \subseteq [nonce : 0..MaxSends, bid : Prices]

Init ==
  /\ countsPool \in BOOLEAN /\ mined = <<>> /\ pool = {}
  /\ loaded \in BOOLEAN /\ process = "running"
  /\ \E modes \in SUBSET Modes :      \* the modes that MODE names
       pc = [m \in Modes |-> IF m \in modes THEN "start" ELSE "off"]
  /\ nonce = [m \in Modes |-> 0]
  /\ own = NoTx /\ bid = 0 /\ successCount = 0 /\ failCount = 0
  /\ sends = 0 /\ used = <<>> /\ confirmed = {} /\ failed = FALSE

-----------------------------------------------------------------------------
(* The node.                                                                *)
head == Len(mined)
Pooled(n) == {t \in pool : t.nonce = n}
PendingNonceAt ==
  IF countsPool THEN Min({n \in head..(head + Cardinality(pool)) : Pooled(n) = {}})
                ELSE head

Accepts(t) == /\ t.nonce >= head
              /\ countsPool => \A u \in Pooled(t.nonce) : u.price < t.price
With(t) == (IF countsPool THEN pool \ Pooled(t.nonce) ELSE pool) \cup {t}

Mine ==
  /\ \E t \in Pooled(head) : mined' = Append(mined, t)
  /\ pool' = pool \ Pooled(head)
  /\ UNCHANGED <<countsPool, testVars>>

(* How a SendTransaction can go: accepted, refused, or failed with the       *)
(* transaction accepted or not.                                              *)
Sent(t)    == Accepts(t) /\ pool' = With(t) /\ UNCHANGED <<countsPool, mined, failed>>
Refused(t) == ~Accepts(t) /\ UNCHANGED <<nodeVars, failed>>
SendFails(t) == /\ failed' = TRUE
                /\ pool' = pool \/ (Accepts(t) /\ pool' = With(t))
                /\ UNCHANGED <<countsPool, mined>>

-----------------------------------------------------------------------------
At(m, place) == process = "running" /\ pc[m] = place
Goto(m, place) == pc' = [pc EXCEPT ![m] = place] /\ UNCHANGED process
Stop(how) == process' = how /\ UNCHANGED pc

(* The start of a mode: with the empty configuration time.NewTicker panics,  *)
(* and the duration of send-wait is over at once.                            *)
StartChiado ==
  /\ At("chiado", "start")
  /\ IF loaded THEN Goto("chiado", "idle") ELSE Stop("panic")
  /\ UNCHANGED <<loaded, nonce, sends, failed, waitVars, nodeVars>>
StartSendWait ==
  /\ At(SW, "start") /\ Goto(SW, IF loaded THEN "idle" ELSE "done")
  /\ UNCHANGED <<loaded, nonce, sends, failed, waitVars, nodeVars>>

(* Between two attempts TEST_DURATION may be over.                           *)
TestOver ==
  /\ At(SW, "idle") /\ Goto(SW, "done")
  /\ UNCHANGED <<loaded, nonce, sends, failed, waitVars, nodeVars>>

(* wg.Wait() returns when every mode is done.                                *)
WaitGroup ==
  /\ process = "running" /\ \A m \in Modes : pc[m] \in {"off", "done"}
  /\ Stop("done")
  /\ UNCHANGED <<loaded, nonce, sends, failed, waitVars, nodeVars>>

-----------------------------------------------------------------------------
(* SendLegacyTx: two requests, and an error ends the process (log.Fatalf).   *)
ReadNonce_Latest(m) ==
  /\ At(m, "idle") /\ sends < MaxSends /\ sends' = sends + 1
  /\ nonce' = [nonce EXCEPT ![m] = head] /\ Goto(m, "send")
  /\ UNCHANGED <<loaded, failed, waitVars, nodeVars>>
ReadNonce(m) ==
  /\ At(m, "idle") /\ sends < MaxSends /\ sends' = sends + 1
  /\ nonce' = [nonce EXCEPT ![m] = PendingNonceAt] /\ Goto(m, "send")
  /\ UNCHANGED <<loaded, failed, waitVars, nodeVars>>

TestTx(m, price) == [nonce |-> nonce[m], kind |-> "test", price |-> price]

SendTick == \E price \in Prices :
  /\ At("chiado", "send")
  /\ Sent(TestTx("chiado", price)) /\ Goto("chiado", "idle")
  /\ UNCHANGED <<loaded, nonce, sends, waitVars>>

SendTest == \E price \in Prices :
  /\ At(SW, "send")
  /\ Sent(TestTx(SW, price)) /\ Goto(SW, "wait")
  /\ own' = TestTx(SW, price) /\ used' = Append(used, nonce[SW])
  /\ UNCHANGED <<loaded, nonce, sends, bid, successCount, failCount, confirmed>>

SendRefused(m) == \E price \in Prices :
  /\ At(m, "send") /\ Refused(TestTx(m, price)) /\ Stop("fatal")
  /\ UNCHANGED <<loaded, nonce, sends, waitVars>>

SendLegacyTxFails(m) ==
  /\ \/ At(m, "idle") /\ sends < MaxSends /\ failed' = TRUE /\ UNCHANGED nodeVars
     \/ At(m, "send") /\ \E price \in Prices : SendFails(TestTx(m, price))
  /\ Stop("fatal")
  /\ UNCHANGED <<loaded, nonce, sends, waitVars>>

-----------------------------------------------------------------------------
(* SendAndCheckTransaction, after the transaction was sent.                  *)
EndAttempt(success) ==
  /\ own' = NoTx /\ bid' = 0 /\ Goto(SW, "idle")
  /\ IF success THEN successCount' = successCount + 1 /\ UNCHANGED failCount
                ELSE failCount' = failCount + 1 /\ UNCHANGED successCount

ReceiptFound ==
  /\ At(SW, "wait") /\ Contains(mined, own)
  /\ EndAttempt(TRUE)
  /\ UNCHANGED <<loaded, nonce, sends, failed, used, confirmed, nodeVars>>

(* The timeout can fire after the transaction was mined: the node is asked   *)
(* once a second only.  A receipt with status failed goes the same way.      *)
ReceiptTimeout_NoDeadline ==
  /\ At(SW, "wait") /\ Contains(mined, own) /\ Goto(SW, "cancel")
  /\ UNCHANGED <<loaded, nonce, sends, failed, waitVars, nodeVars>>
ReceiptTimeout ==
  /\ At(SW, "wait") /\ Goto(SW, "cancel")
  /\ UNCHANGED <<loaded, nonce, sends, failed, waitVars, nodeVars>>

(* An error other than NotFound, which the deadline of the context is if it  *)
(* passes during a request, is fatal.                                        *)
WaitFails ==
  /\ At(SW, "wait") /\ Stop("fatal") /\ failed' = TRUE
  /\ UNCHANGED <<loaded, nonce, sends, waitVars, nodeVars>>

CancelTxFor(price) == [nonce |-> nonce[SW], kind |-> "cancel", price |-> price]

Cancel == \E price \in Prices :
  /\ At(SW, "cancel")
  /\ Sent(CancelTxFor(price)) /\ EndAttempt(FALSE)
  /\ UNCHANGED <<loaded, nonce, sends, used, confirmed>>

CancelNotSent_Counted(price) ==
  /\ At(SW, "cancel") /\ Goto(SW, "check") /\ bid' = price
  /\ failCount' = failCount + 1
  /\ UNCHANGED <<loaded, nonce, sends, own, successCount, used, confirmed>>
CancelNotSent(price) ==
  /\ At(SW, "cancel") /\ Goto(SW, "check") /\ bid' = price
  /\ UNCHANGED <<loaded, nonce, sends, own, successCount, failCount, used, confirmed>>
CancelRefused == \E price \in Prices :
  Refused(CancelTxFor(price)) /\ CancelNotSent(price)
CancelFails == \E price \in Prices :
  SendFails(CancelTxFor(price)) /\ CancelNotSent(price)

(* If the pending nonce is the next one, the transaction counts as confirmed *)
(* in the meantime.                                                          *)
Confirmed_Past == PendingNonceAt >= nonce[SW]
Confirmed_Exact == PendingNonceAt = nonce[SW]
Confirmed == PendingNonceAt = nonce[SW] + 1

Check ==
  /\ At(SW, "check") /\ Confirmed
  /\ confirmed' = confirmed \cup {[nonce |-> nonce[SW], bid |-> bid]}
  /\ EndAttempt(FALSE)
  /\ UNCHANGED <<loaded, nonce, sends, failed, used, nodeVars>>
CheckRefuted ==
  /\ At(SW, "check") /\ ~Confirmed /\ Stop("fatal")
  /\ UNCHANGED <<loaded, nonce, sends, failed, waitVars, nodeVars>>
CheckFails ==
  /\ At(SW, "check") /\ Stop("fatal") /\ failed' = TRUE
  /\ UNCHANGED <<loaded, nonce, sends, waitVars, nodeVars>>

-----------------------------------------------------------------------------
SendWaitStep ==
  \/ StartSendWait \/ ReadNonce(SW) \/ SendTest \/ SendRefused(SW) \/ ReceiptFound
  \/ ReceiptTimeout \/ Cancel \/ CancelRefused \/ Check \/ CheckRefuted
TickStep == StartChiado \/ ReadNonce("chiado") \/ SendTick \/ SendRefused("chiado")
RequestFails == \/ \E m \in Modes : SendLegacyTxFails(m)
                \/ WaitFails \/ CancelFails \/ CheckFails

TestsNext == SendWaitStep \/ TestOver \/ TickStep \/ WaitGroup \/ RequestFails
Next == Mine \/ TestsNext

Spec == Init /\ [][Next]_vars

-----------------------------------------------------------------------------
(* What main() runs: the configuration it loads is a variable of the branch  *)
(* that loads it (cfg := in main.go:22), so the tests get the empty one.     *)
MainInit == Init /\ ~loaded /\ \E m \in Modes : pc[m] # "off"
MainSpec == /\ MainInit /\ [][Next]_vars
            /\ WF_vars(SendWaitStep) /\ WF_vars(TickStep) /\ WF_vars(Mine)

(* README.md:37-45: a mode of MODE "Sends transactions at intervals" or      *)
(* "Sends a transaction to the network".                                     *)
ModesSend == <>(sends > 0 \/ failed)

-----------------------------------------------------------------------------
(* "then sends the next one at nonce n + 1" (README.md:42): true of a node   *)
(* that counts the pool, for a key nobody else uses.                         *)
Alone == pc["chiado"] = "off"
OneAfterAnother == countsPool /\ Alone =>
   \A i \in DOMAIN used : i > 1 => used[i] = used[i - 1] + 1

(* An unconfirmed transaction does not end the test: log.Fatalf is reached   *)
(* only after a failed request, if another mode takes the nonce, or if the   *)
(* node hides the pool, when the next attempt may reuse a nonce that a       *)
(* cancellation is about to use.                                             *)
TimeoutsSurvived == countsPool /\ Alone /\ ~failed => process # "fatal"

(* "Transaction confirmed in the meantime" (sendwaittx.go:50) is said of a   *)
(* nonce that is not used only where the node counts the pool, and there     *)
(* because a request failed or the cancellation did not outbid what it was   *)
(* to replace: the pending nonce is the next one as the transaction pends.   *)
ConfirmedHasCause == \A c \in confirmed :
   \/ c.nonce < head
   \/ countsPool /\ (failed \/ \E t \in Pooled(c.nonce) : t.price >= c.bid)

(* Every attempt ends, whatever becomes of its transaction.                  *)
AttemptEnds == (process = "running" /\ pc[SW] \in {"send", "wait", "cancel", "check"})
               ~> (process # "running" \/ pc[SW] = "idle")
=============================================================================

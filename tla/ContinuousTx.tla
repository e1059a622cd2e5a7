---------------------------- MODULE ContinuousTx ----------------------------
(***************************************************************************)
(* The transaction life cycle of the continuous test (src/continuous):     *)
(* the main loop of main.go runs CheckTxInFlight and SendShutterizedTX for *)
(* every shutterized block, one WatchTx goroutine per transaction follows  *)
(* its submission and its inclusion, and both sides share the ShutterTx    *)
(* record: only the main loop ever takes statusModMutex, so the fields of  *)
(* a record are read by one goroutine while the other writes them.         *)
(*                                                                         *)
(* Transactions are numbered in the order they are sent.  The chain        *)
(* (Nethermind, the sequencer contract, the keypers) is external and       *)
(* modelled by what the program sees of it: blocks, receipts and nonces.   *)
(***************************************************************************)
EXTENDS Integers, Sequences, Functions

CONSTANTS NumAccounts,  \* len(cfg.accounts), NumFundedAccounts in the code
          MaxTx,        \* bound: transactions sent
          MaxBlock      \* bound: chain height

ASSUME NumAccountsAssumption == NumAccounts \in Nat \ {0}
ASSUME MaxTxAssumption == MaxTx \in Nat \ {0}
ASSUME MaxBlockAssumption == MaxBlock \in Nat \ {0}

Tx == 1..MaxTx
Block == 0..MaxBlock          \* 0 is the zero value of an unset block field
Account == 0..(NumAccounts-1)

VARIABLES
  (* cfg.status and cfg.accounts *)
  txInFlight, txDone, accountNonce,
  (* fields of ShutterTx *)
  sender, innerNonce, triggerBlock, submissionBlock, inclusionBlock,
  cancelBlock, txStatus, ctx,
  (* main loop: position, argument and locals of CheckTxInFlight *)
  mainPc, checkBlock, idx, highestInclusion, newInflight, newDone,
  lastTrigger, sent,
  (* WatchTx goroutines: position *)
  pc,
  (* the chain *)
  head, outerBlock, outerOk, innerBlock, forfeitPooled, forfeitBlock,
  (* the process has panicked *)
  crashed

ledgerVars == <<txInFlight, txDone>>
sendVars   == <<accountNonce, sender, innerNonce, triggerBlock, sent>>
checkVars  == <<checkBlock, idx, highestInclusion, newInflight, newDone>>
watchVars  == <<txStatus, submissionBlock, inclusionBlock, pc>>
chainVars  == <<head, outerBlock, outerOk, innerBlock, forfeitBlock>>
mainVars   == <<ledgerVars, sendVars, checkVars, cancelBlock, mainPc, lastTrigger>>
vars       == <<mainVars, watchVars, chainVars, ctx, forfeitPooled, crashed>>

Statuses == {"Unsent", "Signed", "Sequenced", "Included",
             "NotSequenced", "NotIncluded", "SystemFailure"}
WatchPcs == {"unborn", "waitOuter", "seqBlock", "waitInner", "incBlock",
             "forfeit", "waitForfeit", "done"}
MainPcs  == {"recv", "pass1", "pass2", "cancel", "send"}

InFlight == Range(txInFlight)
Done     == Range(txDone)

TypeOK ==
  /\ txInFlight \in Seq(Tx) /\ txDone \in Seq(Tx)
  /\ accountNonce \in [Account -> Nat]
  /\ sender \in [Tx -> Account] /\ innerNonce \in [Tx -> Nat]
  /\ triggerBlock \in [Tx -> Block]
  /\ submissionBlock \in [Tx -> Block] /\ inclusionBlock \in [Tx -> Block]
  /\ cancelBlock \in [Tx -> Block]
  /\ txStatus \in [Tx -> Statuses]
  /\ ctx \in [Tx -> {"active", "canceled", "deadline"}]
  /\ mainPc \in MainPcs /\ checkBlock \in Block
  /\ idx \in 1..(Len(txInFlight) + 1)
  /\ highestInclusion \in Block
  /\ newInflight \in Seq(Tx) /\ newDone \in Seq(Tx)
  /\ lastTrigger \in Block /\ sent \in 0..MaxTx
  /\ pc \in [Tx -> WatchPcs]
  /\ head \in Block
  /\ outerBlock \in [Tx -> Block] /\ outerOk \in [Tx -> BOOLEAN]
  /\ innerBlock \in [Tx -> Block]
  /\ forfeitPooled \in [Tx -> BOOLEAN] /\ forfeitBlock \in [Tx -> Block]
  /\ crashed \in BOOLEAN

Init ==
  /\ txInFlight = <<>> /\ txDone = <<>>
  /\ accountNonce = [a \in Account |-> 0]
  /\ sender = [i \in Tx |-> 0] /\ innerNonce = [i \in Tx |-> 0]
  /\ triggerBlock = [i \in Tx |-> 0]
  /\ submissionBlock = [i \in Tx |-> 0] /\ inclusionBlock = [i \in Tx |-> 0]
  /\ cancelBlock = [i \in Tx |-> 0]
  /\ txStatus = [i \in Tx |-> "Unsent"]
  /\ ctx = [i \in Tx |-> "active"]
  /\ mainPc = "recv" /\ checkBlock = 0 /\ idx = 1 /\ highestInclusion = 0
  /\ newInflight = <<>> /\ newDone = <<>>
  /\ lastTrigger = 0 /\ sent = 0
  /\ pc = [i \in Tx |-> "unborn"]
  /\ head = 1
  /\ outerBlock = [i \in Tx |-> 0] /\ outerOk = [i \in Tx |-> FALSE]
  /\ innerBlock = [i \in Tx |-> 0]
  /\ forfeitPooled = [i \in Tx |-> FALSE] /\ forfeitBlock = [i \in Tx |-> 0]
  /\ crashed = FALSE

-----------------------------------------------------------------------------
(* newDone := cfg.status.txDone[:] *)
OldDone_Fresh == <<>>
OldDone == txDone

(* The main loop: a shutterized block arrives (in increasing order; at the *)
(* bound MaxBlock the last one may arrive again, for a check only).        *)
ReceiveBlock(b) ==
  /\ ~crashed /\ mainPc = "recv"
  /\ b <= head /\ (b > lastTrigger \/ b = MaxBlock)
  /\ mainPc' = "pass1" /\ checkBlock' = b /\ newDone' = OldDone
  /\ UNCHANGED <<ledgerVars, sendVars, idx, highestInclusion, newInflight,
                 cancelBlock, lastTrigger, watchVars, chainVars, ctx,
                 forfeitPooled, crashed>>

(* First pass: one read of tx.inclusionBlock per step. *)
ReadInclusion ==
  /\ ~crashed /\ mainPc = "pass1" /\ idx <= Len(txInFlight)
  /\ LET b == inclusionBlock[txInFlight[idx]]
     IN highestInclusion' = IF b > highestInclusion THEN b ELSE highestInclusion
  /\ idx' = idx + 1
  /\ UNCHANGED <<ledgerVars, sendVars, cancelBlock, lastTrigger, mainPc,
                 checkBlock, newInflight, newDone, watchVars, chainVars, ctx,
                 forfeitPooled, crashed>>

EndPass1 ==
  /\ ~crashed /\ mainPc = "pass1" /\ idx > Len(txInFlight)
  /\ mainPc' = "pass2" /\ idx' = 1
  /\ UNCHANGED <<ledgerVars, sendVars, cancelBlock, lastTrigger, checkBlock,
                 highestInclusion, newInflight, newDone, watchVars, chainVars,
                 ctx, forfeitPooled, crashed>>

(* Another transaction was included after this one was sequenced. *)
CancelSignal_AnyPending(i) == txStatus[i] \in {"Signed", "Sequenced"}
                              /\ highestInclusion > submissionBlock[i]
CancelSignal_NoInclusion(i) == txStatus[i] = "Sequenced"
                              /\ highestInclusion >= submissionBlock[i]
CancelSignal(i) == txStatus[i] = "Sequenced" /\ highestInclusion > submissionBlock[i]

Finished_Signed(i) == txStatus[i] \in {"Signed", "Included", "SystemFailure"}
Finished_NoFailure(i) == txStatus[i] = "Included"
Finished(i) == txStatus[i] \in {"Included", "SystemFailure"}

(* Second pass: one transaction is judged by what its record says now. *)
Judge ==
  /\ ~crashed /\ mainPc = "pass2" /\ idx <= Len(txInFlight)
  /\ LET i == txInFlight[idx]
     IN \/ /\ CancelSignal(i)
           /\ mainPc' = "cancel" /\ UNCHANGED <<idx, newInflight, newDone>>
        \/ /\ ~CancelSignal(i) /\ Finished(i)
           /\ newDone' = Append(newDone, i) /\ idx' = idx + 1
           /\ UNCHANGED <<mainPc, newInflight>>
        \/ /\ ~CancelSignal(i) /\ ~Finished(i)
           /\ newInflight' = Append(newInflight, i) /\ idx' = idx + 1
           /\ UNCHANGED <<mainPc, newDone>>
  /\ UNCHANGED <<ledgerVars, sendVars, cancelBlock, lastTrigger, checkBlock,
                 highestInclusion, watchVars, chainVars, ctx, forfeitPooled,
                 crashed>>

(* A context that is already done keeps its error. *)
Canceled(i) == IF ctx[i] = "active" THEN [ctx EXCEPT ![i] = "canceled"] ELSE ctx

CancelTx ==
  /\ ~crashed /\ mainPc = "cancel"
  /\ LET i == txInFlight[idx]
     IN /\ ctx' = Canceled(i)
        /\ cancelBlock' = [cancelBlock EXCEPT ![i] = checkBlock]
        /\ newDone' = Append(newDone, i)
  /\ idx' = idx + 1 /\ mainPc' = "pass2"
  /\ UNCHANGED <<ledgerVars, sendVars, lastTrigger, checkBlock,
                 highestInclusion, newInflight, watchVars, chainVars,
                 forfeitPooled, crashed>>

EndPass2_StaleIndex ==
  /\ ~crashed /\ mainPc = "pass2" /\ idx > Len(txInFlight)
  /\ txInFlight' = newInflight /\ txDone' = newDone
  /\ mainPc' = "send"
  /\ UNCHANGED <<sendVars, checkVars, cancelBlock, lastTrigger, watchVars,
                 chainVars, ctx, forfeitPooled, crashed>>
EndPass2 ==
  /\ ~crashed /\ mainPc = "pass2" /\ idx > Len(txInFlight)
  /\ txInFlight' = newInflight /\ txDone' = newDone
  /\ mainPc' = "send"
  /\ idx' = 1 /\ highestInclusion' = 0          \* its locals are gone
  /\ newInflight' = <<>> /\ newDone' = <<>>
  /\ UNCHANGED <<sendVars, checkBlock, cancelBlock, lastTrigger, watchVars,
                 chainVars, ctx, forfeitPooled, crashed>>

TxCount_InFlight == Len(txInFlight)
TxCount == Len(txInFlight) + Len(txDone)
NextAccount == TxCount % NumAccounts

(* The whole of SendShutterizedTX: no other goroutine sees its parts before *)
(* AddTxInFlight and `go WatchTx'.                                          *)
Send ==
  /\ ~crashed /\ mainPc = "send" /\ checkBlock > lastTrigger /\ sent < MaxTx
  /\ LET i == sent + 1
     IN /\ sender' = [sender EXCEPT ![i] = NextAccount]
        /\ innerNonce' = [innerNonce EXCEPT ![i] = accountNonce[NextAccount]]
        /\ triggerBlock' = [triggerBlock EXCEPT ![i] = checkBlock]
        /\ txStatus' = [txStatus EXCEPT ![i] = "Signed"]
        /\ txInFlight' = Append(txInFlight, i)
        /\ pc' = [pc EXCEPT ![i] = "waitOuter"]
        /\ sent' = i
  /\ accountNonce' = [accountNonce EXCEPT ![NextAccount] = @ + 1]
  /\ lastTrigger' = checkBlock /\ mainPc' = "recv"
  /\ UNCHANGED <<txDone, checkVars, cancelBlock, submissionBlock,
                 inclusionBlock, chainVars, ctx, forfeitPooled,
                 crashed>>

(* An RPC, key or signing error inside SendShutterizedTX panics. *)
SendPanics ==
  /\ ~crashed /\ mainPc = "send" /\ checkBlock > lastTrigger /\ sent < MaxTx
  /\ crashed' = TRUE
  /\ UNCHANGED <<mainVars, watchVars, chainVars, ctx, forfeitPooled>>

(* Only at the bounds: MaxTx transactions are sent, or the block repeats. *)
SendBounded ==
  /\ ~crashed /\ mainPc = "send" /\ (checkBlock <= lastTrigger \/ sent = MaxTx)
  /\ lastTrigger' = checkBlock /\ mainPc' = "recv"
  /\ UNCHANGED <<ledgerVars, sendVars, checkVars, cancelBlock, watchVars,
                 chainVars, ctx, forfeitPooled, crashed>>

-----------------------------------------------------------------------------
(* WatchTx(i).  What a wait of WaitForTxSubscribe returned is overruled by   *)
(* the check of the context that follows it, so a wait and its check are    *)
(* one step: the context is done; or the receipt is there; or the head      *)
(* subscription failed, which gives neither.                                *)
Goto(i, to) == pc' = [pc EXCEPT ![i] = to]
SetStatus(i, s) == txStatus' = [txStatus EXCEPT ![i] = s]
ContextDone_Never(i) == FALSE
ContextDone(i) == ctx[i] # "active"

(* The goroutine returns; its deferred tx.cancel() ends the context.        *)
Return(i) == Goto(i, "done") /\ ctx' = Canceled(i)

OuterContextDone(i) ==
  /\ ~crashed /\ pc[i] = "waitOuter" /\ ContextDone(i)
  /\ SetStatus(i, IF ctx[i] = "canceled" THEN "NotSequenced" ELSE "SystemFailure")
  /\ Return(i)
  /\ UNCHANGED <<mainVars, submissionBlock, inclusionBlock, chainVars,
                 forfeitPooled, crashed>>

(* No receipt and no context error: submissionReceipt is nil at line 191.   *)
OuterLost(i) ==
  /\ ~crashed /\ pc[i] = "waitOuter" /\ ~ContextDone(i)
  /\ SetStatus(i, "SystemFailure") /\ crashed' = TRUE
  /\ UNCHANGED <<mainVars, submissionBlock, inclusionBlock, pc, chainVars, ctx,
                 forfeitPooled>>

OuterMined(i) ==
  /\ ~crashed /\ pc[i] = "waitOuter" /\ ~ContextDone(i) /\ outerBlock[i] # 0
  /\ IF outerOk[i]
     THEN SetStatus(i, "Sequenced") /\ Goto(i, "seqBlock")
     ELSE SetStatus(i, "SystemFailure") /\ Goto(i, "forfeit")
  /\ UNCHANGED <<mainVars, submissionBlock, inclusionBlock, chainVars, ctx,
                 forfeitPooled, crashed>>

(* The block number is written after the status that announces it.          *)
WriteSubmissionBlock(i) ==
  /\ ~crashed /\ pc[i] = "seqBlock" /\ Goto(i, "waitInner")
  /\ submissionBlock' = [submissionBlock EXCEPT ![i] = outerBlock[i]]
  /\ UNCHANGED <<mainVars, txStatus, inclusionBlock, chainVars, ctx,
                 forfeitPooled, crashed>>

InnerContextDone_EarlyVerdict(i) ==
  /\ ~crashed /\ pc[i] = "waitInner" /\ ContextDone(i)
  /\ SetStatus(i, "NotIncluded") /\ Goto(i, "forfeit")
  /\ UNCHANGED <<mainVars, submissionBlock, inclusionBlock, chainVars, ctx,
                 forfeitPooled, crashed>>
InnerContextDone(i) ==
  /\ ~crashed /\ pc[i] = "waitInner" /\ ContextDone(i)
  /\ Goto(i, "forfeit")
  /\ UNCHANGED <<mainVars, txStatus, submissionBlock, inclusionBlock,
                 chainVars, ctx, forfeitPooled, crashed>>

InnerIncluded(i) ==
  /\ ~crashed /\ pc[i] = "waitInner" /\ ~ContextDone(i) /\ innerBlock[i] # 0
  /\ SetStatus(i, "Included") /\ Goto(i, "incBlock")
  /\ UNCHANGED <<mainVars, submissionBlock, inclusionBlock, chainVars, ctx,
                 forfeitPooled, crashed>>

WriteInclusionBlock(i) ==
  /\ ~crashed /\ pc[i] = "incBlock" /\ Return(i)
  /\ inclusionBlock' = [inclusionBlock EXCEPT ![i] = innerBlock[i]]
  /\ UNCHANGED <<mainVars, txStatus, submissionBlock, chainVars,
                 forfeitPooled, crashed>>

(* The subscription failed: no verdict, and the nonce is not forfeited.     *)
InnerLost(i) ==
  /\ ~crashed /\ pc[i] = "waitInner" /\ ~ContextDone(i)
  /\ SetStatus(i, "SystemFailure") /\ Return(i)
  /\ UNCHANGED <<mainVars, submissionBlock, inclusionBlock, chainVars,
                 forfeitPooled, crashed>>

NonceUsed(i) == innerBlock[i] # 0 \/ forfeitBlock[i] # 0

(* forfeitNonce: the replacement transfer is accepted unless the nonce is   *)
(* used already ("OldNonce").  If the call fails although the node has the  *)
(* transfer, this is followed by ForfeitLost.                               *)
ForfeitSent(i) ==
  /\ ~crashed /\ pc[i] = "forfeit" /\ ~NonceUsed(i)
  /\ forfeitPooled' = [forfeitPooled EXCEPT ![i] = TRUE]
  /\ Goto(i, "waitForfeit")
  /\ UNCHANGED <<mainVars, txStatus, submissionBlock, inclusionBlock,
                 chainVars, ctx, crashed>>

(* The status that is written once forfeitNonce has returned.               *)
Verdict(i) == IF txStatus[i] # "SystemFailure" /\ ctx[i] = "canceled"
              THEN "NotIncluded" ELSE "SystemFailure"
ForfeitReturns(i) ==
  /\ ~crashed /\ SetStatus(i, Verdict(i)) /\ Return(i)
  /\ UNCHANGED <<mainVars, submissionBlock, inclusionBlock, chainVars,
                 forfeitPooled, crashed>>

(* It returns an error before it sends, for a used nonce or any failed call; *)
ForfeitRefused(i) == pc[i] = "forfeit" /\ ForfeitReturns(i)
(* or the receipt of the transfer, in a wait without a deadline;            *)
ForfeitMined(i) == pc[i] = "waitForfeit" /\ forfeitBlock[i] # 0 /\ ForfeitReturns(i)
(* or an error because the call or the subscription of that wait failed.    *)
ForfeitLost(i) == pc[i] = "waitForfeit" /\ ForfeitReturns(i)

(* err.Error()[0:8] of an error text that is shorter than eight bytes.      *)
ForfeitPanics(i) ==
  /\ ~crashed /\ pc[i] \in {"forfeit", "waitForfeit"}
  /\ txStatus[i] # "SystemFailure"
  /\ crashed' = TRUE
  /\ UNCHANGED <<mainVars, watchVars, chainVars, ctx, forfeitPooled>>

(* The twenty minutes are over.  Outside these positions the context is not *)
(* read again, so its end there changes nothing.                            *)
Deadline(i) ==
  /\ ~crashed /\ ~ContextDone(i)
  /\ pc[i] \in {"waitOuter", "seqBlock", "waitInner"}
  /\ ctx' = [ctx EXCEPT ![i] = "deadline"]
  /\ UNCHANGED <<mainVars, watchVars, chainVars, forfeitPooled, crashed>>

-----------------------------------------------------------------------------
(* The chain.  A block holds submissions in the order of the submit         *)
(* account's nonces, transfers decrypted from submissions of earlier        *)
(* blocks, and forfeitures, both in the order of the sender's nonces.       *)
EarlierOfSender(i) == {j \in Tx : sender[j] = sender[i] /\ j < i
                                 /\ pc[j] # "unborn"}
Decryptable(i) == outerOk[i] /\ outerBlock[i] # 0

NewBlock(outers, failed, inners, forfeits) ==
  /\ ~crashed /\ head < MaxBlock
  /\ \A i \in outers : /\ pc[i] # "unborn" /\ outerBlock[i] = 0
                       /\ \A j \in 1..(i-1) : outerBlock[j] # 0 \/ j \in outers
  /\ failed \subseteq outers
  /\ \A i \in inners : Decryptable(i) /\ ~NonceUsed(i)
  /\ \A i \in forfeits : forfeitPooled[i] /\ ~NonceUsed(i) /\ i \notin inners
  /\ \A i \in inners \cup forfeits : \A j \in EarlierOfSender(i) :
        NonceUsed(j) \/ j \in inners \cup forfeits
  /\ head' = head + 1
  /\ outerBlock' = [i \in Tx |-> IF i \in outers THEN head + 1 ELSE outerBlock[i]]
  /\ outerOk' = [i \in Tx |-> outerOk[i] \/ i \in outers \ failed]
  /\ innerBlock' = [i \in Tx |-> IF i \in inners THEN head + 1 ELSE innerBlock[i]]
  /\ forfeitBlock' = [i \in Tx |-> IF i \in forfeits THEN head + 1 ELSE forfeitBlock[i]]
  /\ UNCHANGED <<mainVars, watchVars, ctx, forfeitPooled, crashed>>

Chain == \E outers \in SUBSET {i \in Tx : pc[i] # "unborn" /\ outerBlock[i] = 0} :
         \E failed \in SUBSET outers :
         \E inners \in SUBSET {i \in Tx : Decryptable(i) /\ ~NonceUsed(i)} :
         \E forfeits \in SUBSET {i \in Tx : forfeitPooled[i] /\ ~NonceUsed(i)} :
            NewBlock(outers, failed, inners, forfeits)

-----------------------------------------------------------------------------
MainStep == \/ \E b \in 1..MaxBlock : ReceiveBlock(b)
            \/ ReadInclusion \/ EndPass1 \/ Judge \/ CancelTx \/ EndPass2
            \/ Send \/ SendBounded

(* What the goroutine does unless something it depends on fails; an error   *)
(* of forfeitNonce may but need not be a failure (the nonce may be used).    *)
WatchTx(i) == \/ OuterContextDone(i) \/ OuterMined(i) \/ WriteSubmissionBlock(i)
              \/ InnerContextDone(i) \/ InnerIncluded(i)
              \/ WriteInclusionBlock(i)
              \/ ForfeitSent(i) \/ ForfeitRefused(i) \/ ForfeitMined(i)

Fault(i) == \/ OuterLost(i) \/ InnerLost(i)
            \/ ForfeitLost(i) \/ ForfeitPanics(i)

Next == \/ MainStep
        \/ SendPanics
        \/ \E i \in Tx : WatchTx(i) \/ Fault(i) \/ Deadline(i)
        \/ Chain

Spec == Init /\ [][Next]_vars

(* Goroutines are scheduled, timers fire, and blocks, the shutterized ones   *)
(* among them, keep arriving; nothing is assumed of what a block contains,   *)
(* and no failure has to happen.                                             *)
Fairness == /\ WF_vars(MainStep) /\ WF_vars(Chain)
            /\ \A i \in Tx : WF_vars(WatchTx(i)) /\ WF_vars(Deadline(i))
FairSpec == Spec /\ Fairness

-----------------------------------------------------------------------------
(* Correctness.                                                             *)

(* TxCount has no counter of its own: it adds the lengths of two slices that *)
(* CheckTxInFlight rebuilds around cancellations.  No transaction may be     *)
(* lost or listed twice, whatever the goroutines write meanwhile.            *)
LedgerComplete == InFlight \cup Done = 1..sent /\ TxCount = sent

(* NextAccount picks by TxCount: any NumAccounts transactions in a row have  *)
(* different senders, so that one stuck nonce blocks one account only, and   *)
(* the nonces of a sender count its transactions: no nonce is used twice,    *)
(* and none is passed over behind which the later ones would wait.           *)
RoundRobin == \A i, j \in 1..sent : i < j /\ sender[i] = sender[j] =>
                 /\ j - i >= NumAccounts
                 /\ j - i = NumAccounts * (innerNonce[j] - innerNonce[i])

(* CheckTxInFlight stops waiting for a transaction only when it has seen     *)
(* another one included: the status of the witness is final and its block is *)
(* the one on the chain, although neither is read under a lock.              *)
IncludedOther(i) == \E j \in Tx \ {i} : /\ txStatus[j] = "Included"
                                       /\ inclusionBlock[j] # 0
                                       /\ inclusionBlock[j] = innerBlock[j]
CancelJustified == \A i \in Tx : cancelBlock[i] # 0 => IncludedOther(i)

(* The canceled branch of the first wait is dead code: a context is canceled *)
(* only when the status already says Sequenced.                              *)
NeverNotSequenced == \A i \in Tx : txStatus[i] # "NotSequenced"

(* A final status is never overwritten: what the loop retires and what the   *)
(* log shows is what stays.                                                  *)
Final == {"Included", "NotSequenced", "NotIncluded", "SystemFailure"}
VerdictOnce == [][\A i \in Tx : txStatus[i] \in Final => txStatus'[i] = txStatus[i]]_vars

(* Every goroutine ends, unless it is left in the wait of forfeitNonce, the  *)
(* only one without a deadline, for a transfer that no block ever holds.     *)
WatcherEnds == \A i \in Tx :
   (pc[i] = "waitOuter") ~> \/ pc[i] = "done" \/ crashed
                            \/ [](pc[i] = "waitForfeit" /\ forfeitBlock[i] = 0)

(* A transaction that was included or given up leaves the in-flight list.    *)
FinishedRetires == \A i \in Tx :
   (txStatus[i] \in {"Included", "SystemFailure"}) ~> (i \in Done \/ crashed)

(* The inductive invariant behind CancelJustified, NeverNotSequenced and     *)
(* VerdictOnce: the status that goes with each position of a goroutine, the  *)
(* transaction the first pass owes highestInclusion to, and, between the     *)
(* judgement and the cancellation, the other transaction that justifies it.  *)
WatchInv(i) ==
  /\ pc[i] = "unborn" <=> i > sent
  /\ pc[i] = "unborn" => txStatus[i] = "Unsent"
  /\ pc[i] = "waitOuter" => \/ txStatus[i] = "Signed"
                            \/ crashed /\ txStatus[i] = "SystemFailure"
  /\ pc[i] \in {"seqBlock", "waitInner"} => txStatus[i] = "Sequenced"
  /\ pc[i] = "incBlock" => txStatus[i] = "Included"
  /\ pc[i] \in {"forfeit", "waitForfeit"} => txStatus[i] \in {"Sequenced", "SystemFailure"}
  /\ pc[i] = "done" => txStatus[i] \in {"Included", "NotIncluded", "SystemFailure"}
  /\ inclusionBlock[i] # 0 => /\ txStatus[i] = "Included" /\ pc[i] = "done"
                              /\ inclusionBlock[i] = innerBlock[i]
  /\ ctx[i] = "canceled" => pc[i] \notin {"unborn", "waitOuter"}

HighestHasWitness ==
  highestInclusion # 0 => \E j \in Tx : /\ txStatus[j] = "Included"
                                       /\ inclusionBlock[j] = highestInclusion
                                       /\ inclusionBlock[j] = innerBlock[j]

JudgedToCancel ==
  mainPc = "cancel" =>
     /\ idx <= Len(txInFlight)
     /\ IncludedOther(txInFlight[idx])
     /\ pc[txInFlight[idx]] \notin {"unborn", "waitOuter"}

IInv == /\ TypeOK
        /\ \A i \in Tx : WatchInv(i)
        /\ HighestHasWitness
        /\ JudgedToCancel
        /\ CancelJustified

(* The life cycle implements the ledger.                                     *)
Signalled == {i \in Tx : cancelBlock[i] # 0}
VerdictOf(s) == CASE s = "Included"      -> "included"
                  [] s = "NotIncluded"   -> "notIncluded"
                  [] s = "SystemFailure" -> "failed"
                  [] s = "NotSequenced"  -> "notSequenced"
                  [] OTHER               -> "open"
Ledger == INSTANCE TxLedger WITH
             pending   <- InFlight,
             retired   <- Done,
             signalled <- Signalled,
             verdict   <- [i \in Tx |-> VerdictOf(txStatus[i])]
ImplementsLedger == Ledger!Spec

-----------------------------------------------------------------------------
(* What comments of the source say and the code does not do.                *)

(* continuous.go:228: "another included tx with inclusion block > submission *)
(* block", of the block the submission is really in.                         *)
CanceledAfterSubmission == \A i \in Tx : cancelBlock[i] # 0 =>
   \E j \in Tx \ {i} : inclusionBlock[j] > outerBlock[i]

(* The same comment, as what a check has to do: a transaction that is        *)
(* sequenced, and left out by the block of another one, when a check begins, *)
(* is not in flight any more when a check has ended - cancelled, or because  *)
(* it was included or failed by itself in the meantime.                      *)
SignalDue(i) == /\ i \in InFlight /\ txStatus[i] = "Sequenced"
                /\ submissionBlock[i] # 0
                /\ \E j \in Tx \ {i} : inclusionBlock[j] > submissionBlock[i]
SignalReaches == \A i \in Tx :
   [](mainPc = "recv" /\ SignalDue(i) => [](mainPc = "send" => i \in Done))
=============================================================================

------------------------- MODULE ContinuousTxProofs -------------------------
(***************************************************************************)
(* Proofs about ContinuousTx, for every number of accounts, transactions   *)
(* and blocks.                                                             *)
(***************************************************************************)
EXTENDS ContinuousTx, SequenceTheorems, TLAPS

USE NumAccountsAssumption, MaxTxAssumption, MaxBlockAssumption

(* The account SendShutterizedTX picks is one of cfg.accounts.              *)
LEMMA NextAccountType ==
  ASSUME TypeOK
  PROVE  NextAccount \in Account
<1>1. TxCount \in Nat
  BY LenProperties DEF TypeOK, TxCount
<1>2. QED
  BY <1>1 DEF NextAccount, Account

(* The zero value of a block field is in range.                             *)
LEMMA ZeroBlock == 0 \in Block
BY DEF Block

(* Every step of the main loop keeps the types.                             *)
LEMMA MainStepType ==
  ASSUME IInv, MainStep
  PROVE  TypeOK'
<1> USE DEF vars, mainVars, ledgerVars, sendVars, checkVars, watchVars, chainVars
<1>0. TypeOK
  BY DEF IInv
<1>a. /\ Len(txInFlight) \in Nat
      /\ idx \in Nat
      /\ \A k \in 1..Len(txInFlight) : txInFlight[k] \in Tx
  BY <1>0, LenProperties, ElementOfSeq DEF TypeOK
<1>1. ASSUME NEW b \in 1..MaxBlock, ReceiveBlock(b)
      PROVE  TypeOK'
  <2>1. b \in Block
    BY DEF Block
  <2>2. QED
    BY <1>0, <1>1, <2>1 DEF TypeOK, ReceiveBlock, OldDone, MainPcs
<1>2. CASE ReadInclusion
  <2>1. /\ idx + 1 \in 1..(Len(txInFlight) + 1)
        /\ inclusionBlock[txInFlight[idx]] \in Block
    BY <1>0, <1>a, <1>2 DEF TypeOK, ReadInclusion
  <2>2. QED
    BY <1>0, <1>2, <2>1 DEF TypeOK, ReadInclusion
<1>3. CASE EndPass1
  BY <1>0, <1>a, <1>3 DEF TypeOK, EndPass1, MainPcs
<1>4. CASE Judge
  <2>1. txInFlight[idx] \in Tx
    BY <1>0, <1>a, <1>4 DEF TypeOK, Judge
  <2>2. /\ Append(newDone, txInFlight[idx]) \in Seq(Tx)
        /\ Append(newInflight, txInFlight[idx]) \in Seq(Tx)
    BY <1>0, <2>1, AppendProperties DEF TypeOK
  <2>3. idx + 1 \in 1..(Len(txInFlight) + 1)
    BY <1>0, <1>a, <1>4 DEF Judge
  <2>4. QED
    BY <1>0, <1>4, <2>2, <2>3 DEF TypeOK, Judge, MainPcs
<1>5. CASE CancelTx
  <2>1. idx \in 1..Len(txInFlight) /\ txInFlight[idx] \in Tx
    BY <1>0, <1>a, <1>5 DEF TypeOK, CancelTx, IInv, JudgedToCancel
  <2>2. Append(newDone, txInFlight[idx]) \in Seq(Tx)
    BY <1>0, <2>1, AppendProperties DEF TypeOK
  <2>3. QED
    BY <1>0, <1>a, <1>5, <2>1, <2>2 DEF TypeOK, CancelTx, Canceled, MainPcs
<1>6. CASE EndPass2
  <2>1. 1 \in 1..(Len(newInflight) + 1)
    BY <1>0, LenProperties DEF TypeOK
  <2>2. QED
    BY <1>0, <1>6, <2>1, ZeroBlock DEF TypeOK, EndPass2, MainPcs
<1>7. CASE Send
  <2>1. sent + 1 \in Tx /\ NextAccount \in Account
    <3>1. sent \in 0..MaxTx /\ sent < MaxTx
      BY <1>0, <1>7 DEF TypeOK, Send
    <3>2. QED
      BY <3>1, <1>0, NextAccountType DEF Tx
  <2>2. /\ Append(txInFlight, sent + 1) \in Seq(Tx)
        /\ Len(Append(txInFlight, sent + 1)) = Len(txInFlight) + 1
    BY <1>0, <2>1, AppendProperties DEF TypeOK
  <2>3. idx \in 1..(Len(Append(txInFlight, sent + 1)) + 1)
    BY <1>0, <1>a, <2>2 DEF TypeOK
  <2>4. /\ sender' \in [Tx -> Account] /\ innerNonce' \in [Tx -> Nat]
        /\ accountNonce' \in [Account -> Nat]
        /\ triggerBlock' \in [Tx -> Block]
    BY <1>0, <1>7, <2>1 DEF TypeOK, Send
  <2>5. /\ txStatus' \in [Tx -> Statuses] /\ pc' \in [Tx -> WatchPcs]
        /\ mainPc' \in MainPcs /\ sent' \in 0..MaxTx
    BY <1>0, <1>7, <2>1 DEF TypeOK, Send, MainPcs, Statuses, WatchPcs, Tx
  <2>6. QED
    BY <1>0, <1>7, <2>2, <2>3, <2>4, <2>5 DEF TypeOK, Send
<1>8. CASE SendBounded
  BY <1>0, <1>8 DEF TypeOK, SendBounded, MainPcs
<1>9. QED
  BY <1>1, <1>2, <1>3, <1>4, <1>5, <1>6, <1>7, <1>8 DEF MainStep

(* A panic keeps the types.                                                 *)
LEMMA SendPanicsType ==
  ASSUME TypeOK, SendPanics
  PROVE  TypeOK'
BY DEF TypeOK, SendPanics, vars, mainVars, ledgerVars, sendVars, checkVars,
       watchVars, chainVars

(* So does every step of a goroutine, of its failures and of its timer.     *)
LEMMA WatchStepType ==
  ASSUME TypeOK, NEW i \in Tx, WatchTx(i) \/ Fault(i) \/ Deadline(i)
  PROVE  TypeOK'
<1> USE DEF mainVars, ledgerVars, sendVars, checkVars, watchVars, chainVars,
            SetStatus, Goto, Return, Canceled
<1>1. CASE OuterContextDone(i)
  BY <1>1 DEF TypeOK, OuterContextDone, Statuses, WatchPcs
<1>2. CASE OuterMined(i)
  BY <1>2 DEF TypeOK, OuterMined, Statuses, WatchPcs
<1>3. CASE WriteSubmissionBlock(i)
  BY <1>3 DEF TypeOK, WriteSubmissionBlock, WatchPcs
<1>4. CASE InnerContextDone(i)
  BY <1>4 DEF TypeOK, InnerContextDone, WatchPcs
<1>5. CASE InnerIncluded(i)
  BY <1>5 DEF TypeOK, InnerIncluded, Statuses, WatchPcs
<1>6. CASE WriteInclusionBlock(i)
  BY <1>6 DEF TypeOK, WriteInclusionBlock, WatchPcs
<1>7. CASE ForfeitSent(i)
  BY <1>7 DEF TypeOK, ForfeitSent, WatchPcs
<1>8. CASE ForfeitReturns(i)
  <2>1. Verdict(i) \in Statuses
    BY DEF Verdict, Statuses
  <2>2. QED
    BY <1>8, <2>1 DEF TypeOK, ForfeitReturns, WatchPcs
<1>9. CASE OuterLost(i)
  BY <1>9 DEF TypeOK, OuterLost, Statuses
<1>10. CASE InnerLost(i)
  BY <1>10 DEF TypeOK, InnerLost, Statuses, WatchPcs
<1>11. CASE ForfeitPanics(i)
  BY <1>11 DEF TypeOK, ForfeitPanics
<1>12. CASE Deadline(i)
  BY <1>12 DEF TypeOK, Deadline
<1>13. QED
  BY <1>1, <1>2, <1>3, <1>4, <1>5, <1>6, <1>7, <1>8, <1>9, <1>10, <1>11, <1>12
     DEF WatchTx, Fault, ForfeitRefused, ForfeitMined, ForfeitLost

(* And so does a block.                                                     *)
LEMMA ChainType ==
  ASSUME TypeOK, Chain
  PROVE  TypeOK'
<1>1. PICK outers, failed, inners, forfeits : NewBlock(outers, failed, inners, forfeits)
  BY DEF Chain
<1>2. head + 1 \in Block
  BY <1>1 DEF TypeOK, NewBlock, Block
<1>3. QED
  BY <1>1, <1>2 DEF TypeOK, NewBlock, mainVars, ledgerVars, sendVars, checkVars,
                    watchVars

-----------------------------------------------------------------------------
(* Any step keeps the types.                                                *)
LEMMA StepType ==
  ASSUME IInv, Next
  PROVE  TypeOK'
BY MainStepType, SendPanicsType, WatchStepType, ChainType DEF IInv, Next

(* The status that goes with each position of a goroutine is kept by its own *)
(* steps, and the steps of the others do not touch it.                       *)
LEMMA WatchKept ==
  ASSUME IInv, Next, NEW k \in Tx
  PROVE  WatchInv(k)'
<1> USE DEF mainVars, ledgerVars, sendVars, checkVars, watchVars, chainVars
<1>0. TypeOK /\ WatchInv(k)
  BY DEF IInv
<1>1. CASE \/ \E b \in 1..MaxBlock : ReceiveBlock(b)
           \/ ReadInclusion \/ EndPass1 \/ Judge \/ EndPass2 \/ SendBounded
           \/ SendPanics
  BY <1>0, <1>1 DEF WatchInv, ReceiveBlock, ReadInclusion, EndPass1, Judge,
                    EndPass2, SendBounded, SendPanics
<1>2. CASE CancelTx
  <2>1. pc[txInFlight[idx]] \notin {"unborn", "waitOuter"}
    BY <1>2 DEF IInv, JudgedToCancel, CancelTx
  <2>2. ctx'[k] = ctx[k] \/ k = txInFlight[idx]
    BY <1>0, <1>2 DEF CancelTx, Canceled, TypeOK
  <2>3. QED
    BY <1>0, <1>2, <2>1, <2>2 DEF WatchInv, CancelTx
<1>3. CASE Send
  <2>1. sent \in 0..MaxTx /\ sent + 1 \in Tx
    BY <1>0, <1>3 DEF Send, TypeOK, Tx
  <2>2. WatchInv(sent + 1)
    BY <2>1 DEF IInv
  <2>3. CASE k = sent + 1
    BY <1>0, <1>3, <2>1, <2>2, <2>3 DEF WatchInv, Send, TypeOK, Tx
  <2>4. CASE k # sent + 1
    BY <1>0, <1>3, <2>1, <2>4 DEF WatchInv, Send, TypeOK, Tx
  <2>5. QED
    BY <2>3, <2>4
<1>4. ASSUME NEW i \in Tx, WatchTx(i) \/ Fault(i) \/ Deadline(i)
      PROVE  WatchInv(k)'
  <2> USE DEF SetStatus, Goto, Return, Canceled
  <2>0. CASE i # k
    BY <1>0, <1>4, <2>0
       DEF WatchInv, TypeOK, WatchTx, Fault, Deadline, OuterContextDone, OuterMined,
           WriteSubmissionBlock, InnerContextDone, InnerIncluded,
           WriteInclusionBlock, ForfeitSent, ForfeitRefused, ForfeitMined,
           ForfeitLost, ForfeitReturns, OuterLost, InnerLost, ForfeitPanics
  <2>1. CASE OuterContextDone(k)
    BY <1>0, <2>1 DEF WatchInv, TypeOK, OuterContextDone, ContextDone
  <2>2. CASE OuterMined(k)
    BY <1>0, <2>2 DEF WatchInv, TypeOK, OuterMined, ContextDone
  <2>3. CASE WriteSubmissionBlock(k)
    BY <1>0, <2>3 DEF WatchInv, TypeOK, WriteSubmissionBlock
  <2>4. CASE InnerContextDone(k)
    BY <1>0, <2>4 DEF WatchInv, TypeOK, InnerContextDone
  <2>5. CASE InnerIncluded(k)
    BY <1>0, <2>5 DEF WatchInv, TypeOK, InnerIncluded
  <2>6. CASE WriteInclusionBlock(k)
    BY <1>0, <2>6 DEF WatchInv, TypeOK, WriteInclusionBlock
  <2>7. CASE ForfeitSent(k)
    BY <1>0, <2>7 DEF WatchInv, TypeOK, ForfeitSent
  <2>8. CASE ForfeitReturns(k) /\ pc[k] \in {"forfeit", "waitForfeit"}
    BY <1>0, <2>8 DEF WatchInv, TypeOK, ForfeitReturns, Verdict
  <2>9. CASE OuterLost(k)
    BY <1>0, <2>9 DEF WatchInv, TypeOK, OuterLost
  <2>10. CASE InnerLost(k)
    BY <1>0, <2>10 DEF WatchInv, TypeOK, InnerLost
  <2>11. CASE ForfeitPanics(k)
    BY <1>0, <2>11 DEF WatchInv, TypeOK, ForfeitPanics
  <2>12. CASE Deadline(k)
    BY <1>0, <2>12 DEF WatchInv, TypeOK, Deadline
  <2>13. QED
    BY <1>4, <2>0, <2>1, <2>2, <2>3, <2>4, <2>5, <2>6, <2>7, <2>8, <2>9,
       <2>10, <2>11, <2>12
       DEF WatchTx, Fault, ForfeitRefused, ForfeitMined, ForfeitLost
<1>5. CASE Chain
  <2>1. PICK outers, failed, inners, forfeits :
             NewBlock(outers, failed, inners, forfeits)
    BY <1>5 DEF Chain
  <2>2. innerBlock[k] # 0 => innerBlock'[k] = innerBlock[k]
    BY <2>1 DEF NewBlock, NonceUsed
  <2>3. inclusionBlock[k] # 0 => innerBlock[k] # 0
    BY <1>0 DEF WatchInv
  <2>4. QED
    BY <1>0, <2>1, <2>2, <2>3 DEF WatchInv, NewBlock
<1>6. QED
  BY <1>1, <1>2, <1>3, <1>4, <1>5 DEF Next, MainStep

(* The transaction that is sent has no goroutine yet.                       *)
LEMMA SentIsNew ==
  ASSUME IInv, Send
  PROVE  sent + 1 \in Tx /\ pc[sent + 1] = "unborn"
<1>1. sent \in 0..MaxTx /\ sent < MaxTx
  BY DEF IInv, TypeOK, Send
<1>2. sent + 1 \in Tx /\ sent + 1 > sent
  BY <1>1 DEF Tx
<1>3. QED
  BY <1>2 DEF IInv, WatchInv

(* A published inclusion stays as it is: status, block number and receipt.  *)
LEMMA InclusionKept ==
  ASSUME IInv, Next, NEW j \in Tx, inclusionBlock[j] # 0
  PROVE  /\ txStatus'[j] = "Included"
         /\ inclusionBlock'[j] = inclusionBlock[j]
         /\ innerBlock'[j] = inclusionBlock[j]
<1> USE DEF mainVars, ledgerVars, sendVars, checkVars, watchVars, chainVars
<1>0. TypeOK /\ WatchInv(j)
  BY DEF IInv
<1>1. /\ txStatus[j] = "Included" /\ pc[j] = "done" /\ j <= sent
      /\ innerBlock[j] = inclusionBlock[j]
  BY <1>0 DEF WatchInv, TypeOK, Tx
<1>2. CASE MainStep \/ SendPanics
  <2>1. CASE Send
    BY <1>0, <1>1, <2>1, SentIsNew DEF Send, TypeOK
  <2>2. CASE ~Send
    BY <1>1, <1>2, <2>2
       DEF MainStep, ReceiveBlock, ReadInclusion, EndPass1, Judge, CancelTx,
           EndPass2, SendBounded, SendPanics
  <2>3. QED
    BY <2>1, <2>2
<1>3. ASSUME NEW i \in Tx, WatchTx(i) \/ Fault(i) \/ Deadline(i)
      PROVE  /\ txStatus'[j] = "Included"
             /\ inclusionBlock'[j] = inclusionBlock[j]
             /\ innerBlock'[j] = inclusionBlock[j]
  <2> USE DEF SetStatus, Goto, Return
  <2>1. CASE i = j
    BY <1>0, <1>1, <1>3, <2>1
       DEF TypeOK, WatchTx, Fault, Deadline, OuterContextDone, OuterMined,
           WriteSubmissionBlock, InnerContextDone, InnerIncluded,
           WriteInclusionBlock, ForfeitSent, ForfeitRefused, ForfeitMined,
           ForfeitLost, ForfeitReturns, OuterLost, InnerLost, ForfeitPanics
  <2>2. CASE i # j
    BY <1>0, <1>1, <1>3, <2>2
       DEF TypeOK, WatchTx, Fault, Deadline, OuterContextDone, OuterMined,
           WriteSubmissionBlock, InnerContextDone, InnerIncluded,
           WriteInclusionBlock, ForfeitSent, ForfeitRefused, ForfeitMined,
           ForfeitLost, ForfeitReturns, OuterLost, InnerLost, ForfeitPanics
  <2>3. QED
    BY <2>1, <2>2
<1>4. CASE Chain
  <2>1. PICK outers, failed, inners, forfeits :
             NewBlock(outers, failed, inners, forfeits)
    BY <1>4 DEF Chain
  <2>2. QED
    BY <1>1, <2>1 DEF NewBlock, NonceUsed
<1>5. QED
  BY <1>2, <1>3, <1>4 DEF Next

(* So a transaction that justifies a cancellation goes on justifying it.    *)
COROLLARY IncludedOtherKept ==
  ASSUME IInv, Next, NEW i \in Tx, IncludedOther(i)
  PROVE  IncludedOther(i)'
BY InclusionKept DEF IncludedOther

(* Only CancelTx sets cancelBlock, only the first pass and the end of the    *)
(* check set highestInclusion, and only Judge decides on a cancellation.     *)
LEMMA Frame ==
  ASSUME IInv, Next
  PROVE  /\ CancelTx \/ UNCHANGED cancelBlock
         /\ \/ ReadInclusion \/ EndPass2 \/ UNCHANGED highestInclusion
         /\ \/ mainPc' # "cancel" \/ Judge
            \/ UNCHANGED <<mainPc, idx, txInFlight>>
<1> USE DEF mainVars, ledgerVars, sendVars, checkVars, watchVars, chainVars
<1>1. CASE MainStep \/ SendPanics
  BY <1>1
     DEF MainStep, ReceiveBlock, ReadInclusion, EndPass1, Judge, CancelTx,
         EndPass2, Send, SendBounded, SendPanics
<1>2. ASSUME NEW i \in Tx, WatchTx(i) \/ Fault(i) \/ Deadline(i)
      PROVE  UNCHANGED mainVars
  BY <1>2
     DEF WatchTx, Fault, Deadline, OuterContextDone, OuterMined,
         WriteSubmissionBlock, InnerContextDone, InnerIncluded,
         WriteInclusionBlock, ForfeitSent, ForfeitRefused, ForfeitMined,
         ForfeitLost, ForfeitReturns, OuterLost, InnerLost, ForfeitPanics
<1>3. CASE Chain
  BY <1>3 DEF Chain, NewBlock
<1>4. QED
  BY <1>1, <1>2, <1>3 DEF Next

(* What the first pass has read stays the block of an included transaction. *)
LEMMA WitnessKept ==
  ASSUME IInv, Next
  PROVE  HighestHasWitness'
<1>0. TypeOK /\ HighestHasWitness
  BY DEF IInv
<1>1. CASE UNCHANGED highestInclusion
  <2>1. SUFFICES ASSUME highestInclusion # 0
                 PROVE  HighestHasWitness'
    BY <1>1 DEF HighestHasWitness
  <2>2. PICK j \in Tx : /\ txStatus[j] = "Included"
                        /\ inclusionBlock[j] = highestInclusion
    BY <1>0, <2>1 DEF HighestHasWitness
  <2>3. QED
    BY <1>1, <2>1, <2>2, InclusionKept DEF HighestHasWitness
<1>2. CASE ReadInclusion
  <2>1. /\ idx \in 1..Len(txInFlight) /\ txInFlight[idx] \in Tx
        /\ UNCHANGED <<txStatus, inclusionBlock, innerBlock>>
    BY <1>0, <1>2, ElementOfSeq, LenProperties
       DEF TypeOK, ReadInclusion, watchVars, chainVars
  <2>2. CASE highestInclusion' = highestInclusion
    BY <1>1, <2>2
  <2>3. CASE highestInclusion' = inclusionBlock[txInFlight[idx]]
    BY <2>1, <2>3 DEF HighestHasWitness, IInv, WatchInv
  <2>4. QED
    BY <1>2, <2>2, <2>3 DEF ReadInclusion
<1>3. CASE EndPass2
  BY <1>3 DEF EndPass2, HighestHasWitness
<1>4. QED
  BY <1>1, <1>2, <1>3, Frame

(* A goroutine that has left its first wait does not come back to it.       *)
LEMMA LeftForGood ==
  ASSUME IInv, Next, NEW k \in Tx, pc[k] \notin {"unborn", "waitOuter"}
  PROVE  pc'[k] \notin {"unborn", "waitOuter"}
<1> USE DEF mainVars, ledgerVars, sendVars, checkVars, watchVars, chainVars
<1>0. TypeOK
  BY DEF IInv
<1>1. CASE MainStep \/ SendPanics
  <2>1. CASE Send
    BY <1>0, <2>1, SentIsNew DEF Send, TypeOK
  <2>2. CASE ~Send
    BY <1>1, <2>2
       DEF MainStep, ReceiveBlock, ReadInclusion, EndPass1, Judge, CancelTx,
           EndPass2, SendBounded, SendPanics
  <2>3. QED
    BY <2>1, <2>2
<1>2. ASSUME NEW i \in Tx, WatchTx(i) \/ Fault(i) \/ Deadline(i)
      PROVE  pc'[k] = pc[k] \/ pc'[k] \notin {"unborn", "waitOuter"}
  BY <1>0, <1>2
     DEF TypeOK, Goto, Return, WatchTx, Fault, Deadline, OuterContextDone,
         OuterMined, WriteSubmissionBlock, InnerContextDone, InnerIncluded,
         WriteInclusionBlock, ForfeitSent, ForfeitRefused, ForfeitMined,
         ForfeitLost, ForfeitReturns, OuterLost, InnerLost, ForfeitPanics
<1>3. CASE Chain
  BY <1>3 DEF Chain, NewBlock
<1>4. QED
  BY <1>1, <1>2, <1>3 DEF Next

(* Between the judgement and the cancellation the reason does not go away.  *)
LEMMA JudgementKept ==
  ASSUME IInv, Next
  PROVE  JudgedToCancel'
<1>0. TypeOK
  BY DEF IInv
<1>1. SUFFICES ASSUME mainPc' = "cancel"
               PROVE  JudgedToCancel'
  BY DEF JudgedToCancel
<1>2. CASE Judge
  <2>1. /\ idx <= Len(txInFlight)
        /\ UNCHANGED <<txInFlight, txStatus, inclusionBlock, innerBlock, pc>>
    BY <1>2 DEF Judge, ledgerVars, watchVars, chainVars
  <2>2. PICK i \in Tx : i = txInFlight[idx]
    BY <1>0, <2>1, ElementOfSeq, LenProperties DEF TypeOK
  <2>3. CancelSignal(i) /\ idx' = idx
    BY <1>0, <1>1, <1>2, <2>2 DEF Judge, TypeOK, MainPcs
  <2>4. /\ highestInclusion > submissionBlock[i]
        /\ highestInclusion \in Nat /\ submissionBlock[i] \in Nat
    BY <1>0, <2>3 DEF CancelSignal, TypeOK, Block
  <2>5. PICK j \in Tx : /\ txStatus[j] = "Included"
                        /\ inclusionBlock[j] = highestInclusion
                        /\ inclusionBlock[j] = innerBlock[j]
    BY <2>4 DEF IInv, HighestHasWitness
  <2>6. j # i /\ inclusionBlock[j] # 0
    BY <2>3, <2>4, <2>5 DEF CancelSignal
  <2>7. IncludedOther(i)'
    BY <2>1, <2>5, <2>6 DEF IncludedOther
  <2>8. pc[i] \notin {"unborn", "waitOuter"}
    BY <2>3 DEF IInv, WatchInv, CancelSignal
  <2>9. QED
    BY <2>1, <2>2, <2>3, <2>7, <2>8 DEF JudgedToCancel, IncludedOther
<1>3. CASE UNCHANGED <<mainPc, idx, txInFlight>>
  <2>1. /\ idx <= Len(txInFlight) /\ IncludedOther(txInFlight[idx])
        /\ pc[txInFlight[idx]] \notin {"unborn", "waitOuter"}
    BY <1>1, <1>3 DEF IInv, JudgedToCancel
  <2>2. PICK i \in Tx : i = txInFlight[idx]
    BY <1>0, <2>1, ElementOfSeq, LenProperties DEF TypeOK
  <2>3. IncludedOther(i)'
    BY <2>1, <2>2, IncludedOtherKept
  <2>4. pc'[i] \notin {"unborn", "waitOuter"}
    BY <2>1, <2>2, LeftForGood
  <2>5. QED
    BY <1>3, <2>1, <2>2, <2>3, <2>4 DEF JudgedToCancel, IncludedOther
<1>4. QED
  BY <1>1, <1>2, <1>3, Frame

(* The cancellation itself finds the reason, and later steps leave it.      *)
LEMMA CancelJustifiedKept ==
  ASSUME IInv, Next
  PROVE  CancelJustified'
<1>0. TypeOK
  BY DEF IInv
<1>1. SUFFICES ASSUME NEW k \in Tx, cancelBlock'[k] # 0
               PROVE  IncludedOther(k)'
  BY DEF CancelJustified
<1>2. CASE cancelBlock[k] # 0
  BY <1>2, IncludedOtherKept DEF IInv, CancelJustified
<1>3. CASE cancelBlock[k] = 0
  <2>1. CancelTx
    BY <1>1, <1>3, Frame
  <2>2. k = txInFlight[idx]
    BY <1>0, <1>1, <1>3, <2>1 DEF CancelTx, TypeOK
  <2>3. IncludedOther(k)
    BY <2>1, <2>2 DEF IInv, JudgedToCancel, CancelTx
  <2>4. QED
    BY <2>3, IncludedOtherKept
<1>4. QED
  BY <1>2, <1>3

-----------------------------------------------------------------------------
(* The invariant holds at the start,                                        *)
LEMMA InitIInv == Init => IInv
<1> SUFFICES ASSUME Init
             PROVE  IInv
  OBVIOUS
<1>1. TypeOK
  <2>1. 0 \in Block /\ 1 \in Block /\ 0 \in Account /\ 0 \in 0..MaxTx
    BY DEF Block, Account
  <2>2. <<>> \in Seq(Tx) /\ Len(<<>>) = 0
    BY EmptySeq
  <2>3. QED
    BY <2>1, <2>2 DEF Init, TypeOK, Statuses, WatchPcs, MainPcs
<1>2. \A i \in Tx : WatchInv(i)
  BY DEF Init, WatchInv, Tx
<1>3. HighestHasWitness /\ JudgedToCancel /\ CancelJustified
  BY DEF Init, HighestHasWitness, JudgedToCancel, CancelJustified
<1>4. QED
  BY <1>1, <1>2, <1>3 DEF IInv

(* every step keeps it,                                                     *)
LEMMA NextIInv == IInv /\ [Next]_vars => IInv'
<1> SUFFICES ASSUME IInv, [Next]_vars
             PROVE  IInv'
  OBVIOUS
<1>1. CASE Next
  BY <1>1, StepType, WatchKept, WitnessKept, JudgementKept, CancelJustifiedKept
     DEF IInv
<1>2. CASE UNCHANGED vars
  BY <1>2 DEF IInv, TypeOK, WatchInv, HighestHasWitness, JudgedToCancel,
              CancelJustified, IncludedOther, vars, mainVars, ledgerVars,
              sendVars, checkVars, watchVars, chainVars
<1>3. QED
  BY <1>1, <1>2

(* and so every behaviour of the life cycle satisfies it.                   *)
THEOREM Inductive == Spec => []IInv
BY InitIInv, NextIInv, PTL DEF Spec

(* Every field of the shared records stays in its range, for every number of *)
(* accounts, transactions and blocks.                                        *)
THEOREM TypeCorrect == Spec => []TypeOK
<1>1. IInv => TypeOK
  BY DEF IInv
<1>2. QED
  BY <1>1, Inductive, PTL

(* CheckTxInFlight cancels a transaction only if another one is included for *)
(* good, although it reads the records of running goroutines.                *)
THEOREM CancelIsJustified == Spec => []CancelJustified
<1>1. IInv => CancelJustified
  BY DEF IInv
<1>2. QED
  BY <1>1, Inductive, PTL

(* No goroutine ever takes the canceled branch of its first wait.            *)
THEOREM NotSequencedIsDead == Spec => []NeverNotSequenced
<1>1. IInv => NeverNotSequenced
  BY DEF IInv, WatchInv, NeverNotSequenced, TypeOK, WatchPcs
<1>2. QED
  BY <1>1, Inductive, PTL

(* WatchTx leaves a final status alone: only positions before the verdict    *)
(* write the status.                                                         *)
LEMMA VerdictKept ==
  ASSUME IInv, Next, NEW k \in Tx, txStatus[k] \in Final
  PROVE  txStatus'[k] = txStatus[k]
<1> USE DEF mainVars, ledgerVars, sendVars, checkVars, watchVars, chainVars
<1>0. TypeOK /\ WatchInv(k)
  BY DEF IInv
<1>1. CASE MainStep \/ SendPanics
  <2>1. CASE Send
    <3>1. k # sent + 1
      BY <1>0, <2>1, SentIsNew DEF WatchInv, Final
    <3>2. QED
      BY <1>0, <2>1, <3>1, SentIsNew DEF Send, TypeOK
  <2>2. CASE ~Send
    BY <1>1, <2>2
       DEF MainStep, ReceiveBlock, ReadInclusion, EndPass1, Judge, CancelTx,
           EndPass2, SendBounded, SendPanics
  <2>3. QED
    BY <2>1, <2>2
<1>2. ASSUME NEW i \in Tx, WatchTx(i) \/ Fault(i) \/ Deadline(i)
      PROVE  txStatus'[k] = txStatus[k]
  <2> USE DEF SetStatus, Goto, Return
  <2>1. CASE i # k
    BY <1>0, <1>2, <2>1
       DEF TypeOK, WatchTx, Fault, Deadline, OuterContextDone, OuterMined,
           WriteSubmissionBlock, InnerContextDone, InnerIncluded,
           WriteInclusionBlock, ForfeitSent, ForfeitRefused, ForfeitMined,
           ForfeitLost, ForfeitReturns, OuterLost, InnerLost, ForfeitPanics
  <2>2. CASE i = k /\ ForfeitReturns(k) /\ pc[k] \in {"forfeit", "waitForfeit"}
    BY <1>0, <2>2 DEF TypeOK, WatchInv, Final, ForfeitReturns, Verdict
  <2>3. CASE i = k /\ ~ForfeitReturns(k)
    BY <1>0, <1>2, <2>3
       DEF TypeOK, WatchInv, Final, WatchTx, Fault, Deadline, OuterContextDone,
           OuterMined, WriteSubmissionBlock, InnerContextDone, InnerIncluded,
           WriteInclusionBlock, ForfeitSent, ForfeitRefused, ForfeitMined,
           ForfeitLost, OuterLost, InnerLost, ForfeitPanics
  <2>4. CASE i = k /\ ForfeitReturns(k) /\ pc[k] \notin {"forfeit", "waitForfeit"}
    BY <1>0, <1>2, <2>4
       DEF TypeOK, WatchInv, Final, WatchTx, Fault, Deadline, OuterContextDone,
           OuterMined, WriteSubmissionBlock, InnerContextDone, InnerIncluded,
           WriteInclusionBlock, ForfeitSent, ForfeitRefused, ForfeitMined,
           ForfeitLost, OuterLost, InnerLost, ForfeitPanics
  <2>5. QED
    BY <2>1, <2>2, <2>3, <2>4
<1>3. CASE Chain
  BY <1>3 DEF Chain, NewBlock
<1>4. QED
  BY <1>1, <1>2, <1>3 DEF Next

(* A verdict is written once, whatever the order of cancellation, deadline,  *)
(* inclusion and the return of forfeitNonce.                                 *)
THEOREM VerdictIsFinal == Spec => VerdictOnce
<1>1. IInv /\ [Next]_vars =>
        [\A i \in Tx : txStatus[i] \in Final => txStatus'[i] = txStatus[i]]_vars
  BY VerdictKept
<1>2. QED
  BY <1>1, Inductive, PTL DEF Spec, VerdictOnce
=============================================================================

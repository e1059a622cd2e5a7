---------------------- MODULE ContinuousTxLedgerProofs ----------------------
(***************************************************************************)
(* The lists of CheckTxInFlight.  The two slices of cfg.status are rebuilt *)
(* for every block, one transaction at a time, while goroutines write the  *)
(* records that decide where a transaction goes.  Proved here, for every   *)
(* number of accounts, transactions and blocks: no transaction is lost or  *)
(* listed twice, senders take turns, and the life cycle implements the     *)
(* ledger of TxLedger.                                                     *)
(***************************************************************************)
EXTENDS ContinuousTxProofs

USE NumAccountsAssumption, MaxTxAssumption, MaxBlockAssumption

(* What the second pass has judged so far, which is nothing before it.      *)
Judged == {txInFlight[k] : k \in 1..(idx - 1)}

NoRepeat(s) == \A a, b \in 1..Len(s) : s[a] = s[b] => a = b

(* The lists of cfg.status.                                                 *)
ListsDisjoint == NoRepeat(txInFlight) /\ InFlight \cap Done = {}

(* The local lists, at each position of the main loop.                      *)
LocalLists ==
  /\ mainPc \in {"recv", "send"} => idx = 1 /\ newInflight = <<>> /\ newDone = <<>>
  /\ mainPc = "pass1" => newInflight = <<>> /\ newDone = txDone
  /\ mainPc \in {"pass2", "cancel"} =>
       /\ Range(newInflight) \cup Range(newDone) = Judged \cup Done
       /\ Range(newInflight) \cap Range(newDone) = {}
       /\ Done \subseteq Range(newDone)
       /\ NoRepeat(newInflight)
       /\ Len(newInflight) + Len(newDone) = Len(txDone) + idx - 1
  /\ mainPc # "recv" => checkBlock # 0

(* Whom the loop has given up has a reason to be given up, and a cancelled  *)
(* one is given up.                                                         *)
Settled(i) == cancelBlock[i] # 0 \/ txStatus[i] \in {"Included", "SystemFailure"}
DoneSettled == \A i \in Done \cup Range(newDone) : Settled(i)
CancelledDone == \A i \in Tx : cancelBlock[i] # 0 => i \in Done \cup Range(newDone)
CancelledByLoop == \A i \in Tx :
   ctx[i] = "canceled" /\ pc[i] # "done" => cancelBlock[i] # 0

(* Sender and nonce of a transaction are the remainder and the quotient of   *)
(* its number, and the next nonce of an account is that of the first of its  *)
(* turns that is still to come.                                             *)
SenderByNumber ==
  /\ \A i \in 1..sent : i - 1 = NumAccounts * innerNonce[i] + sender[i]
  /\ \A a \in Account : /\ sent <= NumAccounts * accountNonce[a] + a
                         /\ NumAccounts * accountNonce[a] + a < sent + NumAccounts

LedgerInv ==
  /\ LedgerComplete /\ ListsDisjoint /\ LocalLists
  /\ DoneSettled /\ CancelledDone /\ CancelledByLoop /\ SenderByNumber

-----------------------------------------------------------------------------
(* A list that one transaction is appended to.                              *)
LEMMA AppendToList ==
  ASSUME NEW s \in Seq(Tx), NEW x \in Tx
  PROVE  /\ Range(Append(s, x)) = Range(s) \cup {x}
         /\ Len(Append(s, x)) = Len(s) + 1
         /\ NoRepeat(s) /\ x \notin Range(s) => NoRepeat(Append(s, x))
<1>1. /\ Append(s, x) \in Seq(Tx) /\ Len(Append(s, x)) = Len(s) + 1
      /\ \A k \in 1..Len(s) : Append(s, x)[k] = s[k]
      /\ Append(s, x)[Len(s) + 1] = x
      /\ Len(s) \in Nat
  BY AppendProperties, LenProperties
<1>2. /\ Range(s) = {s[k] : k \in 1..Len(s)}
      /\ Range(Append(s, x)) = {Append(s, x)[k] : k \in 1..(Len(s) + 1)}
  BY <1>1, RangeEquality
<1>3. 1..(Len(s) + 1) = 1..Len(s) \cup {Len(s) + 1}
  BY <1>1
<1>4. Range(Append(s, x)) = Range(s) \cup {x}
  BY <1>1, <1>2, <1>3
<1>5. ASSUME NoRepeat(s), x \notin Range(s)
      PROVE  NoRepeat(Append(s, x))
  <2>1. \A k \in 1..Len(s) : s[k] # x
    BY <1>2, <1>5
  <2>2. QED
    BY <1>1, <1>5, <2>1 DEF NoRepeat
<1>6. QED
  BY <1>1, <1>4, <1>5

(* The lists are lists of transactions; nothing else is used of their type.  *)
LEMMA ListTypes ==
  ASSUME TypeOK
  PROVE  /\ InFlight = {txInFlight[k] : k \in 1..Len(txInFlight)}
         /\ Len(txInFlight) \in Nat /\ Len(txDone) \in Nat
         /\ Len(newInflight) \in Nat /\ Len(newDone) \in Nat
         /\ \A k \in 1..Len(txInFlight) : txInFlight[k] \in Tx
         /\ InFlight \subseteq Tx /\ Done \subseteq Tx
         /\ Range(newInflight) \subseteq Tx /\ Range(newDone) \subseteq Tx
         /\ Range(<<>>) = {} /\ Len(<<>>) = 0
<1>1. /\ txInFlight \in Seq(Tx) /\ txDone \in Seq(Tx)
      /\ newInflight \in Seq(Tx) /\ newDone \in Seq(Tx) /\ <<>> \in Seq(Tx)
  BY EmptySeq DEF TypeOK
<1>2. Len(<<>>) = 0 /\ Range(<<>>) = {<<>>[k] : k \in 1..0}
  BY <1>1, EmptySeq, RangeEquality
<1>3. Range(<<>>) = {}
  BY <1>2
<1>4. QED
  BY <1>1, <1>2, <1>3, LenProperties, RangeEquality, RangeOfSeq, ElementOfSeq
     DEF InFlight, Done

(* The transaction that is judged next is in flight, was not judged yet and  *)
(* is on none of the local lists.                                           *)
LEMMA NextJudged ==
  ASSUME TypeOK, ListsDisjoint, LocalLists, mainPc \in {"pass2", "cancel"},
         idx <= Len(txInFlight)
  PROVE  /\ txInFlight[idx] \in InFlight /\ txInFlight[idx] \in Tx
         /\ txInFlight[idx] \notin Range(newInflight) \cup Range(newDone)
         /\ txInFlight[idx] \notin Done
         /\ {txInFlight[k] : k \in 1..idx} = Judged \cup {txInFlight[idx]}
<1>1. idx \in 1..Len(txInFlight)
  BY ListTypes DEF TypeOK
<1>2. txInFlight[idx] \in InFlight /\ txInFlight[idx] \in Tx
  BY <1>1, ListTypes
<1>3. txInFlight[idx] \notin Done
  BY <1>2 DEF ListsDisjoint
<1>4. txInFlight[idx] \notin Judged
  <2>1. \A k \in 1..(idx - 1) : txInFlight[k] # txInFlight[idx]
    BY <1>1, ListTypes DEF ListsDisjoint, NoRepeat
  <2>2. QED
    BY <2>1 DEF Judged
<1>5. 1..idx = 1..(idx - 1) \cup {idx}
  BY <1>1
<1>6. QED
  BY <1>2, <1>3, <1>4, <1>5 DEF LocalLists, Judged

-----------------------------------------------------------------------------
(* A goroutine does not touch what the main loop works with, and a context   *)
(* that it cancels itself is the one of a goroutine that returns.            *)
LEMMA WatchFrame ==
  ASSUME TypeOK, NEW i \in Tx, WatchTx(i) \/ Fault(i) \/ Deadline(i)
  PROVE  /\ UNCHANGED mainVars
         /\ \A k \in Tx : ctx'[k] = "canceled" /\ pc'[k] # "done"
                             => ctx[k] = "canceled" /\ pc[k] # "done"
<1>1. UNCHANGED mainVars
  BY DEF WatchTx, Fault, Deadline, OuterContextDone, OuterMined,
         WriteSubmissionBlock, InnerContextDone, InnerIncluded,
         WriteInclusionBlock, ForfeitSent, ForfeitRefused, ForfeitMined,
         ForfeitLost, ForfeitReturns, OuterLost, InnerLost, ForfeitPanics
<1>2. ASSUME NEW k \in Tx, k # i
      PROVE  ctx'[k] = ctx[k] /\ pc'[k] = pc[k]
  BY <1>2 DEF TypeOK, watchVars, Goto, Return, Canceled, WatchTx, Fault, Deadline,
         OuterContextDone, OuterMined, WriteSubmissionBlock, InnerContextDone,
         InnerIncluded, WriteInclusionBlock, ForfeitSent, ForfeitRefused,
         ForfeitMined, ForfeitLost, ForfeitReturns, OuterLost, InnerLost,
         ForfeitPanics
<1>3. pc'[i] = "done" \/ (ctx'[i] = ctx[i] /\ pc[i] # "done") \/ ctx'[i] = "deadline"
  BY DEF TypeOK, watchVars, Goto, Return, Canceled, WatchTx, Fault, Deadline,
         OuterContextDone, OuterMined, WriteSubmissionBlock, InnerContextDone,
         InnerIncluded, WriteInclusionBlock, ForfeitSent, ForfeitRefused,
         ForfeitMined, ForfeitLost, ForfeitReturns, OuterLost, InnerLost,
         ForfeitPanics
<1>4. QED
  BY <1>1, <1>2, <1>3

(* The steps of the goroutines and of the chain: only records change, and a  *)
(* reason to be given up does not go away.                                   *)
LEMMA ListsKeptByOthers ==
  ASSUME IInv, LedgerInv, Next, UNCHANGED mainVars,
         \A k \in Tx : ctx'[k] = "canceled" /\ pc'[k] # "done"
                          => ctx[k] = "canceled" /\ pc[k] # "done"
  PROVE  LedgerInv'
<1> USE DEF mainVars, ledgerVars, sendVars, checkVars
<1>1. LedgerComplete' /\ ListsDisjoint' /\ LocalLists' /\ CancelledDone' /\ SenderByNumber'
  BY DEF LedgerInv, LedgerComplete, ListsDisjoint, LocalLists, CancelledDone,
         SenderByNumber, InFlight, Done, TxCount, Judged, NoRepeat
<1>2. DoneSettled'
  <2>1. SUFFICES ASSUME NEW k \in Done \cup Range(newDone)
                 PROVE  Settled(k)'
    BY DEF DoneSettled, Done
  <2>2. k \in Tx /\ Settled(k)
    BY ListTypes DEF IInv, LedgerInv, DoneSettled
  <2>3. QED
    BY <2>2, VerdictKept DEF Settled, Final
<1>3. CancelledByLoop'
  BY DEF LedgerInv, CancelledByLoop
<1>4. QED
  BY <1>1, <1>2, <1>3 DEF LedgerInv

(* The steps of the main loop before a transaction is judged.                *)
LEMMA ListsKeptBeforeJudging ==
  ASSUME IInv, LedgerInv,
         \/ \E b \in 1..MaxBlock : ReceiveBlock(b)
         \/ ReadInclusion \/ EndPass1 \/ SendBounded \/ SendPanics
  PROVE  LedgerInv'
<1> USE DEF mainVars, ledgerVars, sendVars, checkVars, watchVars
<1>0. TypeOK
  BY DEF IInv
<1>1. /\ UNCHANGED <<ledgerVars, sendVars, cancelBlock, txStatus, ctx, pc, newInflight>>
      /\ newDone' = newDone \/ (mainPc = "recv" /\ newDone' = txDone)
  BY DEF ReceiveBlock, ReadInclusion, EndPass1, SendBounded, SendPanics, OldDone
<1>2. LedgerComplete' /\ ListsDisjoint' /\ SenderByNumber' /\ CancelledByLoop'
  BY <1>1 DEF LedgerInv, LedgerComplete, ListsDisjoint, SenderByNumber,
              CancelledByLoop, InFlight, Done, TxCount, NoRepeat
<1>3. Done \cup Range(newDone') = Done \cup Range(newDone)
  <2>1. CASE newDone' = newDone
    BY <2>1
  <2>2. CASE mainPc = "recv" /\ newDone' = txDone
    <3>1. newDone = <<>>
      BY <2>2 DEF LedgerInv, LocalLists
    <3>2. QED
      BY <1>0, <2>2, <3>1, ListTypes DEF Done
  <2>3. QED
    BY <1>1, <2>1, <2>2
<1>4. DoneSettled' /\ CancelledDone'
  <2>1. DoneSettled /\ CancelledDone /\ Done' = Done
    BY <1>1 DEF LedgerInv, Done
  <2>2. QED
    BY <1>1, <1>3, <2>1 DEF DoneSettled, CancelledDone, Settled
<1>5. LocalLists'
  <2>1. ASSUME NEW b \in 1..MaxBlock, ReceiveBlock(b)
        PROVE  LocalLists'
    BY <2>1 DEF ReceiveBlock, OldDone, LedgerInv, LocalLists
  <2>2. CASE ReadInclusion
    BY <2>2 DEF ReadInclusion, LedgerInv, LocalLists
  <2>3. CASE EndPass1
    <3>1. /\ mainPc' = "pass2" /\ idx' = 1 /\ newInflight' = <<>> /\ newDone' = txDone
          /\ txDone' = txDone /\ checkBlock' # 0
      BY <2>3 DEF EndPass1, LedgerInv, LocalLists
    <3>2. Judged' = {}
      BY <3>1 DEF Judged
    <3>3. NoRepeat(newInflight')
      BY <1>0, <3>1, ListTypes DEF NoRepeat
    <3>4. Len(newInflight') + Len(newDone') = Len(txDone') + idx' - 1
      BY <1>0, <3>1, ListTypes
    <3>5. /\ Range(newInflight') = {} /\ Range(newDone') = Done /\ Done' = Done
      BY <1>0, <3>1, ListTypes DEF Done
    <3>6. QED
      BY <3>1, <3>2, <3>3, <3>4, <3>5 DEF LocalLists, NoRepeat
  <2>4. CASE SendBounded
    BY <2>4 DEF SendBounded, LedgerInv, LocalLists
  <2>5. CASE SendPanics
    BY <2>5 DEF SendPanics, LedgerInv, LocalLists, Judged, Done, NoRepeat
  <2>6. QED
    BY <2>1, <2>2, <2>3, <2>4, <2>5
<1>6. QED
  BY <1>2, <1>4, <1>5 DEF LedgerInv

(* One transaction goes to one of the two local lists.                       *)
LEMMA ListsKeptByJudging ==
  ASSUME IInv, LedgerInv, Judge \/ CancelTx
  PROVE  LedgerInv'
<1> USE DEF mainVars, ledgerVars, sendVars, checkVars, watchVars
<1> DEFINE x == txInFlight[idx]
<1>0. TypeOK /\ mainPc \in {"pass2", "cancel"} /\ idx \in 1..Len(txInFlight)
  <2>1. idx <= Len(txInFlight) /\ mainPc \in {"pass2", "cancel"} /\ TypeOK
    BY DEF IInv, JudgedToCancel, Judge, CancelTx
  <2>2. idx \in 1..(Len(txInFlight) + 1) /\ Len(txInFlight) \in Nat
    BY <2>1, ListTypes DEF TypeOK
  <2>3. QED
    BY <2>1, <2>2
<1>1. /\ UNCHANGED <<ledgerVars, sendVars, checkBlock, txStatus, pc>>
      /\ checkBlock # 0
  BY <1>0 DEF Judge, CancelTx, LedgerInv, LocalLists
<1>2. LedgerComplete' /\ ListsDisjoint' /\ SenderByNumber'
  BY <1>1 DEF LedgerInv, LedgerComplete, ListsDisjoint, SenderByNumber,
              InFlight, Done, TxCount, NoRepeat
<1>3. /\ x \in Tx /\ x \notin Range(newInflight) \cup Range(newDone)
      /\ {txInFlight[k] : k \in 1..idx} = Judged \cup {x}
  BY <1>0, NextJudged DEF LedgerInv
<1>4. /\ idx \in Nat /\ Len(newInflight) \in Nat /\ Len(newDone) \in Nat /\ Len(txDone) \in Nat
  <2>1. Len(txInFlight) \in Nat /\ Len(newInflight) \in Nat /\ Len(newDone) \in Nat /\ Len(txDone) \in Nat
    BY <1>0, ListTypes
  <2>2. QED
    BY <1>0, <2>1
<1>5. CASE mainPc' = "cancel"
  <2>1. UNCHANGED <<idx, newInflight, newDone, cancelBlock, ctx>>
    BY <1>0, <1>5 DEF Judge, CancelTx
  <2>2. LocalLists'
    BY <1>0, <1>1, <1>5, <2>1 DEF LedgerInv, LocalLists, Judged, NoRepeat, Done
  <2>3. DoneSettled' /\ CancelledDone' /\ CancelledByLoop'
    BY <1>1, <2>1 DEF LedgerInv, DoneSettled, CancelledDone, CancelledByLoop,
                      Settled, Done
  <2>4. QED
    BY <1>2, <2>2, <2>3 DEF LedgerInv
<1>6. CASE /\ mainPc' = "pass2" /\ idx' = idx + 1 /\ newInflight' = newInflight
           /\ newDone' = Append(newDone, x)
           /\ \/ Finished(x) /\ UNCHANGED <<cancelBlock, ctx>>
              \/ /\ cancelBlock' = [cancelBlock EXCEPT ![x] = checkBlock]
                 /\ ctx' = Canceled(x)
  <2>1. /\ Range(newDone') = Range(newDone) \cup {x}
        /\ Len(newDone') = Len(newDone) + 1
    BY <1>0, <1>3, <1>6, AppendToList DEF TypeOK
  <2>2. Judged' = Judged \cup {x} /\ Done' = Done
    <3>1. idx' - 1 = idx
      BY <1>4, <1>6
    <3>2. QED
      BY <1>1, <1>3, <3>1 DEF Judged, Done
  <2>3. LocalLists'
    <3>1. /\ Range(newInflight) \cup Range(newDone) = Judged \cup Done
          /\ Range(newInflight) \cap Range(newDone) = {}
          /\ Done \subseteq Range(newDone) /\ NoRepeat(newInflight)
          /\ Len(newInflight) + Len(newDone) = Len(txDone) + idx - 1
      BY <1>0 DEF LedgerInv, LocalLists
    <3>2. Len(newInflight') + Len(newDone') = Len(txDone') + idx' - 1
      BY <1>1, <1>4, <1>6, <2>1, <3>1
    <3>3. /\ Range(newInflight') \cup Range(newDone') = Judged' \cup Done'
          /\ Range(newInflight') \cap Range(newDone') = {}
          /\ Done' \subseteq Range(newDone') /\ NoRepeat(newInflight')
      BY <1>3, <1>6, <2>1, <2>2, <3>1
    <3>4. QED
      BY <1>1, <1>6, <3>2, <3>3 DEF LocalLists, NoRepeat
  <2>4. DoneSettled'
    <3>1. \A k \in Tx : Settled(k) => Settled(k)'
      BY <1>0, <1>1, <1>3, <1>6 DEF Settled, TypeOK
    <3>2. cancelBlock'[x] # 0 \/ txStatus'[x] \in {"Included", "SystemFailure"}
      BY <1>0, <1>1, <1>3, <1>6 DEF Finished, TypeOK
    <3>3. \A k \in Done \cup Range(newDone) : k \in Tx /\ Settled(k)
      BY <1>0, ListTypes DEF LedgerInv, DoneSettled
    <3>4. QED
      BY <2>1, <2>2, <3>1, <3>2, <3>3 DEF DoneSettled, Settled, Done
  <2>5. CancelledDone'
    BY <1>0, <1>3, <1>6, <2>1, <2>2 DEF LedgerInv, CancelledDone, TypeOK
  <2>6. CancelledByLoop'
    BY <1>0, <1>1, <1>3, <1>6 DEF LedgerInv, CancelledByLoop, Canceled, TypeOK
  <2>7. QED
    BY <1>2, <2>3, <2>4, <2>5, <2>6 DEF LedgerInv
<1>7. CASE /\ mainPc' = "pass2" /\ idx' = idx + 1
           /\ newInflight' = Append(newInflight, x)
           /\ UNCHANGED <<newDone, cancelBlock, ctx>>
  <2>1. /\ Range(newInflight') = Range(newInflight) \cup {x}
        /\ Len(newInflight') = Len(newInflight) + 1
        /\ NoRepeat(newInflight')
    BY <1>0, <1>3, <1>7, AppendToList DEF TypeOK, LedgerInv, LocalLists
  <2>2. Judged' = Judged \cup {x} /\ Done' = Done
    <3>1. idx' - 1 = idx
      BY <1>4, <1>7
    <3>2. QED
      BY <1>1, <1>3, <3>1 DEF Judged, Done
  <2>3. LocalLists'
    <3>1. /\ Range(newInflight) \cup Range(newDone) = Judged \cup Done
          /\ Range(newInflight) \cap Range(newDone) = {}
          /\ Done \subseteq Range(newDone)
          /\ Len(newInflight) + Len(newDone) = Len(txDone) + idx - 1
      BY <1>0 DEF LedgerInv, LocalLists
    <3>2. Len(newInflight') + Len(newDone') = Len(txDone') + idx' - 1
      BY <1>1, <1>4, <1>7, <2>1, <3>1
    <3>3. /\ Range(newInflight') \cup Range(newDone') = Judged' \cup Done'
          /\ Range(newInflight') \cap Range(newDone') = {}
          /\ Done' \subseteq Range(newDone')
      BY <1>3, <1>7, <2>1, <2>2, <3>1
    <3>4. QED
      BY <1>1, <1>7, <2>1, <3>2, <3>3 DEF LocalLists, NoRepeat
  <2>4. DoneSettled' /\ CancelledDone' /\ CancelledByLoop'
    BY <1>1, <1>7, <2>2 DEF LedgerInv, DoneSettled, CancelledDone, CancelledByLoop, Settled
  <2>5. QED
    BY <1>2, <2>3, <2>4 DEF LedgerInv
<1>8. QED
  BY <1>0, <1>5, <1>6, <1>7 DEF Judge, CancelTx

(* At the end of the check the local lists take the place of the old ones.   *)
LEMMA ListsKeptByEnd ==
  ASSUME IInv, LedgerInv, EndPass2
  PROVE  LedgerInv'
<1>0. TypeOK
  BY DEF IInv
<1>1. /\ mainPc = "pass2" /\ mainPc' = "send" /\ idx' = 1
      /\ txInFlight' = newInflight /\ txDone' = newDone
      /\ newInflight' = <<>> /\ newDone' = <<>>
      /\ UNCHANGED <<sender, innerNonce, accountNonce, sent, checkBlock, cancelBlock,
                     txStatus, ctx, pc>>
  BY DEF EndPass2, sendVars, watchVars
<1>2. idx = Len(txInFlight) + 1 /\ Len(txInFlight) \in Nat
  <2>1. /\ idx \in 1..(Len(txInFlight) + 1) /\ idx > Len(txInFlight)
        /\ Len(txInFlight) \in Nat
    BY <1>0, ListTypes DEF EndPass2, TypeOK
  <2>2. QED
    BY <2>1
<1>3. Judged = InFlight
  <2>1. idx - 1 = Len(txInFlight)
    BY <1>2
  <2>2. QED
    BY <1>0, <2>1, ListTypes DEF Judged
<1>4. /\ Range(newInflight) \cup Range(newDone) = 1..sent
      /\ Range(newInflight) \cap Range(newDone) = {}
      /\ NoRepeat(newInflight)
  BY <1>1, <1>3 DEF LedgerInv, LocalLists, LedgerComplete
<1>5. Len(newInflight) + Len(newDone) = sent
  <2>1. /\ Len(newInflight) + Len(newDone) = Len(txDone) + idx - 1
        /\ Len(txInFlight) + Len(txDone) = sent
    BY <1>1 DEF LedgerInv, LocalLists, LedgerComplete, TxCount
  <2>2. Len(txDone) \in Nat /\ Len(newInflight) \in Nat /\ Len(newDone) \in Nat
    BY <1>0, ListTypes
  <2>3. QED
    BY <1>2, <2>1, <2>2
<1>6. InFlight' = Range(newInflight) /\ Done' = Range(newDone)
  BY <1>1 DEF InFlight, Done
<1>7. LedgerComplete' /\ ListsDisjoint'
  BY <1>1, <1>4, <1>5, <1>6 DEF LedgerComplete, ListsDisjoint, TxCount, NoRepeat
<1>8. LocalLists'
  BY <1>1 DEF LocalLists, LedgerInv
<1>9. Done' \cup Range(newDone') = Done \cup Range(newDone)
  BY <1>0, <1>1, <1>6, ListTypes DEF LedgerInv, LocalLists
<1>10. DoneSettled' /\ CancelledDone' /\ CancelledByLoop' /\ SenderByNumber'
  BY <1>1, <1>9 DEF LedgerInv, DoneSettled, CancelledDone, CancelledByLoop,
                    SenderByNumber, Settled
<1>11. QED
  BY <1>7, <1>8, <1>10 DEF LedgerInv

(* A number has one quotient and one remainder.                              *)
LEMMA SameTurn ==
  ASSUME NEW m \in Nat, NEW n \in Nat, NEW a \in Account, NEW c \in Account,
         NumAccounts * m + c = NumAccounts * n + a
  PROVE  m = n /\ a = c
<1>1. /\ NumAccounts * (m - n) = NumAccounts * m - NumAccounts * n
      /\ NumAccounts * m \in Nat /\ NumAccounts * n \in Nat
  OBVIOUS
<1>2. NumAccounts * (m - n) < NumAccounts /\ NumAccounts * (m - n) > -NumAccounts
  BY <1>1 DEF Account
<1>3. m - n < 1
  <2>1. m - n >= 1 => NumAccounts * (m - n) >= NumAccounts
    OBVIOUS
  <2>2. QED
    BY <1>2, <2>1
<1>4. m - n > -1
  <2>1. m - n <= -1 => NumAccounts * (m - n) <= -NumAccounts
    OBVIOUS
  <2>2. QED
    BY <1>2, <2>1
<1>5. m = n
  BY <1>3, <1>4
<1>6. QED
  BY <1>1, <1>5 DEF Account

(* The account that TxCount picks is the one whose turn has come: its next   *)
(* nonce says so.                                                           *)
LEMMA TurnOfAccount ==
  ASSUME NEW s \in Nat, NEW nonce \in [Account -> Nat],
         \A a \in Account : /\ s <= NumAccounts * nonce[a] + a
                            /\ NumAccounts * nonce[a] + a < s + NumAccounts
  PROVE  \E a \in Account, n \in Nat :
            s % NumAccounts = a /\ nonce[a] = n /\ s = NumAccounts * n + a
<1>1. /\ s = NumAccounts * (s \div NumAccounts) + (s % NumAccounts)
      /\ s \div NumAccounts \in Int
      /\ s % NumAccounts \in 0..(NumAccounts - 1)
  OBVIOUS
<1>2. PICK q \in Int, a \in Account : s = NumAccounts * q + a /\ s % NumAccounts = a
  BY <1>1, Zenon DEF Account
<1>3. PICK n \in Nat : nonce[a] = n
  OBVIOUS
<1>4. /\ s <= NumAccounts * n + a /\ NumAccounts * n + a < s + NumAccounts
  BY <1>3
<1>5. /\ NumAccounts * (n - q) = NumAccounts * n - NumAccounts * q
      /\ NumAccounts * n \in Int /\ NumAccounts * q \in Int
  OBVIOUS
<1>6. NumAccounts * (n - q) >= 0 /\ NumAccounts * (n - q) < NumAccounts
  BY <1>2, <1>4, <1>5 DEF Account
<1>7. n - q >= 0
  <2>1. n - q <= -1 => NumAccounts * (n - q) <= -NumAccounts
    OBVIOUS
  <2>2. QED
    BY <1>6, <2>1
<1>8. n - q < 1
  <2>1. n - q >= 1 => NumAccounts * (n - q) >= NumAccounts
    OBVIOUS
  <2>2. QED
    BY <1>6, <2>1
<1>9. n = q
  BY <1>7, <1>8
<1>10. QED
  BY <1>2, <1>3, <1>9

(* A transaction is sent under the next number, by the next account.         *)
LEMMA ListsKeptBySend ==
  ASSUME IInv, LedgerInv, Send
  PROVE  LedgerInv'
<1> USE DEF checkVars
<1> DEFINE x == sent + 1
<1>0. TypeOK
  BY DEF IInv
<1>1. /\ mainPc = "send" /\ mainPc' = "recv"
      /\ txInFlight' = Append(txInFlight, x) /\ sent' = x
      /\ sender' = [sender EXCEPT ![x] = NextAccount]
      /\ innerNonce' = [innerNonce EXCEPT ![x] = accountNonce[NextAccount]]
      /\ accountNonce' = [accountNonce EXCEPT ![NextAccount] = @ + 1]
      /\ txStatus' = [txStatus EXCEPT ![x] = "Signed"]
      /\ pc' = [pc EXCEPT ![x] = "waitOuter"]
      /\ UNCHANGED <<txDone, checkVars, cancelBlock, ctx>>
  BY DEF Send
<1>2. x \in Tx /\ sent \in Nat /\ pc[x] = "unborn" /\ WatchInv(x)
  BY <1>0, SentIsNew DEF TypeOK, IInv
<1>3. InFlight \cup Done = 1..sent /\ Len(txInFlight) + Len(txDone) = sent
  BY DEF LedgerInv, LedgerComplete, TxCount
<1>4. x \notin InFlight /\ x \notin Done /\ 1..x = 1..sent \cup {x}
  BY <1>2, <1>3
<1>5. /\ InFlight' = InFlight \cup {x} /\ Done' = Done
      /\ Len(txInFlight') = Len(txInFlight) + 1
      /\ NoRepeat(txInFlight')
  BY <1>0, <1>1, <1>2, <1>4, AppendToList
     DEF TypeOK, InFlight, Done, LedgerInv, ListsDisjoint
<1>6. LedgerComplete'
  <2>1. Len(txInFlight) \in Nat /\ Len(txDone) \in Nat
    BY <1>0, ListTypes
  <2>2. sent' = x /\ txDone' = txDone
    BY <1>1
  <2>3. QED
    BY <1>2, <1>3, <1>4, <1>5, <2>1, <2>2 DEF LedgerComplete, TxCount
<1>7. ListsDisjoint'
  BY <1>4, <1>5 DEF LedgerInv, ListsDisjoint, NoRepeat
<1>8. LocalLists'
  BY <1>1 DEF LedgerInv, LocalLists
<1>9. DoneSettled'
  <2>1. newDone = <<>>
    BY <1>1 DEF LedgerInv, LocalLists
  <2>2. Done \cup Range(newDone) = Done
    BY <1>0, <2>1, ListTypes
  <2>3. \A k \in Done : k \in Tx /\ k # x /\ Settled(k)
    BY <1>0, <1>4, ListTypes DEF LedgerInv, DoneSettled
  <2>4. \A k \in Done : Settled(k)'
    BY <1>0, <1>1, <1>2, <2>3 DEF Settled, TypeOK
  <2>5. QED
    BY <1>1, <1>5, <2>2, <2>4 DEF DoneSettled
<1>10. CancelledDone'
  BY <1>1, <1>5 DEF LedgerInv, CancelledDone
<1>11. CancelledByLoop'
  BY <1>0, <1>1, <1>2 DEF LedgerInv, CancelledByLoop, WatchInv, TypeOK
<1>12. SenderByNumber'
  <2>1. NextAccount = sent % NumAccounts
    BY DEF NextAccount, LedgerInv, LedgerComplete
  <2>2. x - 1 = sent /\ \A k \in 1..sent : k \in Tx /\ k # x
    <3>1. sent + 1 \in 1..MaxTx /\ sent \in Nat
      BY <1>2 DEF Tx
    <3>2. QED
      BY <3>1 DEF Tx
  <2>3. PICK a \in Account, n \in Nat :
          /\ NextAccount = a /\ accountNonce[a] = n
          /\ sent = NumAccounts * n + a
    <3>1. sent \in Nat /\ accountNonce \in [Account -> Nat]
      BY <1>0, <1>2 DEF TypeOK
    <3>2. \A a \in Account : /\ sent <= NumAccounts * accountNonce[a] + a
                             /\ NumAccounts * accountNonce[a] + a < sent + NumAccounts
      BY DEF LedgerInv, SenderByNumber
    <3>3. \A s \in Nat, f \in [Account -> Nat] :
             (\A a \in Account : /\ s <= NumAccounts * f[a] + a
                                 /\ NumAccounts * f[a] + a < s + NumAccounts)
             => \E a \in Account, n \in Nat :
                   s % NumAccounts = a /\ f[a] = n /\ s = NumAccounts * n + a
      BY TurnOfAccount
    <3>4. \E a \in Account, n \in Nat :
             sent % NumAccounts = a /\ accountNonce[a] = n /\ sent = NumAccounts * n + a
      BY <3>1, <3>2, <3>3
    <3>5. QED
      BY <2>1, <3>4
  <2>4. /\ sender \in [Tx -> Account] /\ innerNonce \in [Tx -> Nat]
        /\ accountNonce \in [Account -> Nat]
    BY <1>0 DEF TypeOK
  <2>5. /\ sender'[x] = a /\ innerNonce'[x] = n
        /\ \A k \in 1..sent : sender'[k] = sender[k] /\ innerNonce'[k] = innerNonce[k]
        /\ accountNonce'[a] = n + 1
        /\ \A c \in Account : c # a => accountNonce'[c] = accountNonce[c]
    BY <1>1, <1>2, <2>2, <2>3, <2>4
  <2>6. ASSUME NEW k \in 1..sent'
        PROVE  k - 1 = NumAccounts * innerNonce'[k] + sender'[k]
    BY <1>1, <1>4, <2>2, <2>3, <2>5 DEF LedgerInv, SenderByNumber
  <2>7. NumAccounts * (n + 1) + a = sent + NumAccounts
    <3>1. NumAccounts * (n + 1) = NumAccounts * n + NumAccounts /\ NumAccounts * n \in Nat
      OBVIOUS
    <3>2. QED
      BY <2>3, <3>1 DEF Account
  <2>8. ASSUME NEW c \in Account
        PROVE  /\ sent' <= NumAccounts * accountNonce'[c] + c
               /\ NumAccounts * accountNonce'[c] + c < sent' + NumAccounts
    <3>0. sent' = sent + 1
      BY <1>1
    <3>1. CASE c = a
      <4>1. accountNonce'[c] = n + 1 /\ NumAccounts * (n + 1) \in Nat
        BY <2>5, <3>1
      <4>2. QED
        BY <1>2, <2>7, <3>0, <3>1, <4>1
    <3>2. CASE c # a
      <4>1. PICK m \in Nat : accountNonce[c] = m /\ accountNonce'[c] = m
        BY <2>4, <2>5, <3>2
      <4>2. sent <= NumAccounts * m + c /\ NumAccounts * m + c < sent + NumAccounts
        BY <4>1 DEF LedgerInv, SenderByNumber
      <4>3. NumAccounts * m + c # sent
        <5>1. NumAccounts * m + c # NumAccounts * n + a
          <6>1. ASSUME NumAccounts * m + c = NumAccounts * n + a
                PROVE  a = c
            BY <6>1, SameTurn
          <6>2. QED
            BY <3>2, <6>1
        <5>2. QED
          BY <2>3, <5>1
      <4>4. NumAccounts * m \in Nat /\ c \in Nat
        BY DEF Account
      <4>5. QED
        BY <1>2, <3>0, <4>1, <4>2, <4>3, <4>4
    <3>3. QED
      BY <3>1, <3>2
  <2>9. QED
    BY <2>6, <2>8 DEF SenderByNumber
<1>13. QED
  BY <1>6, <1>7, <1>8, <1>9, <1>10, <1>11, <1>12 DEF LedgerInv

-----------------------------------------------------------------------------
(* All slices start empty.                                                   *)
LEMMA InitLedgerInv == Init => LedgerInv
<1> SUFFICES ASSUME Init
             PROVE  LedgerInv
  OBVIOUS
<1>1. TypeOK
  BY InitIInv DEF IInv
<1>2. /\ Range(<<>>) = {} /\ Len(<<>>) = 0
  BY <1>1, ListTypes
<1>3. LedgerComplete /\ ListsDisjoint /\ LocalLists
  BY <1>2 DEF Init, LedgerComplete, ListsDisjoint, LocalLists, InFlight, Done,
              TxCount, NoRepeat
<1>4. DoneSettled /\ CancelledDone /\ CancelledByLoop
  BY <1>2 DEF Init, DoneSettled, CancelledDone, CancelledByLoop, Done
<1>5. SenderByNumber
  <2>1. sent = 0 /\ \A a \in Account : accountNonce[a] = 0
    BY DEF Init
  <2>2. QED
    BY <2>1 DEF SenderByNumber, Account
<1>6. QED
  BY <1>3, <1>4, <1>5 DEF LedgerInv

(* Every step keeps the lists.                                               *)
LEMMA NextLedgerInv == IInv /\ LedgerInv /\ [Next]_vars => LedgerInv'
<1> SUFFICES ASSUME IInv, LedgerInv, [Next]_vars
             PROVE  LedgerInv'
  OBVIOUS
<1>0. TypeOK
  BY DEF IInv
<1>1. CASE MainStep \/ SendPanics
  BY <1>1, ListsKeptBeforeJudging, ListsKeptByJudging, ListsKeptByEnd,
     ListsKeptBySend DEF MainStep
<1>2. ASSUME NEW i \in Tx, WatchTx(i) \/ Fault(i) \/ Deadline(i)
      PROVE  LedgerInv'
  <2>1. Next
    BY <1>2 DEF Next
  <2>2. QED
    BY <1>0, <1>2, <2>1, WatchFrame, ListsKeptByOthers
<1>3. CASE Chain
  <2>1. UNCHANGED mainVars /\ UNCHANGED <<ctx, pc>>
    BY <1>3 DEF Chain, NewBlock, watchVars
  <2>2. Next
    BY <1>3 DEF Next
  <2>3. QED
    BY <2>1, <2>2, ListsKeptByOthers
<1>4. CASE UNCHANGED vars
  BY <1>4
     DEF LedgerInv, LedgerComplete, ListsDisjoint, LocalLists, DoneSettled,
         CancelledDone, CancelledByLoop, SenderByNumber, InFlight, Done, TxCount,
         Judged, NoRepeat, Settled, vars, mainVars, watchVars, ledgerVars,
         sendVars, checkVars
<1>5. QED
  BY <1>1, <1>2, <1>3, <1>4 DEF Next

(* The two invariants of the life cycle hold together.                       *)
THEOREM LedgerInductive == Spec => [](IInv /\ LedgerInv)
<1>1. Init => IInv /\ LedgerInv
  BY InitIInv, InitLedgerInv
<1>2. (IInv /\ LedgerInv) /\ [Next]_vars => (IInv /\ LedgerInv)'
  BY NextIInv, NextLedgerInv
<1>3. QED
  BY <1>1, <1>2, PTL DEF Spec

(* CheckTxInFlight neither loses a transaction nor lists one twice, whatever *)
(* it cancels and whatever the goroutines write while it rebuilds the lists: *)
(* TxCount, from which the next sender is computed, is the number sent.      *)
THEOREM NothingLost == Spec => []LedgerComplete
<1>1. IInv /\ LedgerInv => LedgerComplete
  BY DEF LedgerInv
<1>2. QED
  BY <1>1, LedgerInductive, PTL

(* Any NumAccounts transactions in a row have different senders, so that one *)
(* stuck nonce of an account blocks no other account's transaction, and the  *)
(* transactions of a sender use its nonces one after the other.              *)
THEOREM SendersTakeTurns == Spec => []RoundRobin
<1>1. IInv /\ LedgerInv => RoundRobin
  <2>1. SUFFICES ASSUME IInv, LedgerInv,
                        NEW i \in 1..sent, NEW j \in 1..sent,
                        i < j, sender[i] = sender[j]
                 PROVE  /\ j - i >= NumAccounts
                        /\ j - i = NumAccounts * (innerNonce[j] - innerNonce[i])
    BY DEF RoundRobin
  <2>2. i \in Tx /\ j \in Tx
    BY <2>1 DEF IInv, TypeOK, Tx
  <2>3. PICK a \in Account, m \in Nat, n \in Nat :
          /\ sender[i] = a /\ innerNonce[i] = m
          /\ sender[j] = a /\ innerNonce[j] = n
    BY <2>1, <2>2 DEF IInv, TypeOK
  <2>4. i - 1 = NumAccounts * m + a /\ j - 1 = NumAccounts * n + a
    BY <2>1, <2>3 DEF LedgerInv, SenderByNumber
  <2>5. /\ NumAccounts * (n - m) = NumAccounts * n - NumAccounts * m
        /\ NumAccounts * n \in Nat /\ NumAccounts * m \in Nat
    OBVIOUS
  <2>6. j - i = NumAccounts * (n - m) /\ j - i > 0
    BY <2>1, <2>4, <2>5 DEF Account
  <2>7. n - m >= 1
    <3>1. n - m <= 0 => NumAccounts * (n - m) <= 0
      OBVIOUS
    <3>2. QED
      BY <2>6, <3>1
  <2>8. NumAccounts * (n - m) >= NumAccounts
    BY <2>7
  <2>9. QED
    BY <2>3, <2>6, <2>8
<1>2. QED
  BY <1>1, LedgerInductive, PTL

-----------------------------------------------------------------------------
(* The refinement.  A step that leaves the lists, the cancellations and the  *)
(* verdicts alone is a stutter of the ledger.                                *)
LEMMA LedgerStutter ==
  ASSUME UNCHANGED <<txInFlight, txDone, cancelBlock>>,
         \A i \in Tx : VerdictOf(txStatus'[i]) = VerdictOf(txStatus[i])
  PROVE  UNCHANGED Ledger!vars
BY DEF Ledger!vars, InFlight, Done, Signalled

(* A verdict NotIncluded is given to a cancelled context only.               *)
LEMMA WatchVerdict ==
  ASSUME IInv, NEW i \in Tx, WatchTx(i) \/ Fault(i) \/ Deadline(i)
  PROVE  /\ \A k \in Tx \ {i} : txStatus'[k] = txStatus[k]
         /\ txStatus'[i] = "NotIncluded" /\ txStatus[i] # "NotIncluded"
              => ctx[i] = "canceled" /\ pc[i] # "done"
<1> USE DEF watchVars, SetStatus, Goto, Return
<1>0. TypeOK
  BY DEF IInv
<1>1. ASSUME NEW k \in Tx \ {i}
      PROVE  txStatus'[k] = txStatus[k]
  BY <1>0, <1>1
     DEF TypeOK, WatchTx, Fault, Deadline, OuterContextDone, OuterMined,
         WriteSubmissionBlock, InnerContextDone, InnerIncluded,
         WriteInclusionBlock, ForfeitSent, ForfeitRefused, ForfeitMined,
         ForfeitLost, ForfeitReturns, OuterLost, InnerLost, ForfeitPanics
<1>2. ASSUME txStatus'[i] = "NotIncluded", txStatus[i] # "NotIncluded"
      PROVE  ctx[i] = "canceled" /\ pc[i] # "done"
  BY <1>0, <1>2
     DEF TypeOK, WatchTx, Fault, Deadline, OuterContextDone, OuterMined,
         WriteSubmissionBlock, InnerContextDone, InnerIncluded,
         WriteInclusionBlock, ForfeitSent, ForfeitRefused, ForfeitMined,
         ForfeitLost, ForfeitReturns, OuterLost, InnerLost, ForfeitPanics, Verdict
<1>3. QED
  BY <1>1, <1>2

(* A step of a goroutine resolves its transaction, or is a stutter.          *)
LEMMA WatchImplements ==
  ASSUME IInv, LedgerInv, Next, NEW i \in Tx, WatchTx(i) \/ Fault(i) \/ Deadline(i)
  PROVE  [Ledger!Next]_(Ledger!vars)
<1> DEFINE v == VerdictOf(txStatus'[i])
<1>0. TypeOK /\ TypeOK' /\ WatchInv(i)'
  BY NextIInv DEF IInv
<1>1. UNCHANGED <<txInFlight, txDone, cancelBlock, sent>>
  BY <1>0, WatchFrame DEF mainVars, ledgerVars, sendVars
<1>2. \A k \in Tx \ {i} : txStatus'[k] = txStatus[k]
  BY WatchVerdict
<1>3. CASE v = VerdictOf(txStatus[i])
  BY <1>1, <1>2, <1>3, LedgerStutter
<1>4. CASE v # VerdictOf(txStatus[i])
  <2>1. txStatus[i] \notin Final
    BY <1>4, VerdictKept
  <2>2. VerdictOf(txStatus[i]) = "open" /\ v # "open"
    BY <1>4, <2>1 DEF VerdictOf, Final
  <2>3. txStatus'[i] \in {"Included", "NotIncluded", "SystemFailure"}
    BY <1>0, <2>2 DEF VerdictOf, WatchInv, TypeOK, WatchPcs
  <2>4. v \in Ledger!Verdicts \ {"open"} /\ (v = "notIncluded" <=> txStatus'[i] = "NotIncluded")
    BY <2>3 DEF VerdictOf, Ledger!Verdicts
  <2>5. i \in InFlight \cup Done
    <3>1. pc'[i] # "unborn"
      BY <1>0, <2>3 DEF WatchInv
    <3>2. i \in 1..sent
      BY <1>0, <1>1, <3>1 DEF WatchInv, TypeOK, Tx
    <3>3. QED
      BY <3>2 DEF LedgerInv, LedgerComplete
  <2>6. v = "notIncluded" => i \in Signalled
    BY <2>1, <2>4, WatchVerdict DEF Final, LedgerInv, CancelledByLoop, Signalled
  <2>7. [k \in Tx |-> VerdictOf(txStatus'[k])]
           = [[k \in Tx |-> VerdictOf(txStatus[k])] EXCEPT ![i] = v]
    BY <1>2
  <2>8. Ledger!Resolve(i, v)
    BY <1>1, <2>2, <2>5, <2>6, <2>7 DEF Ledger!Resolve, InFlight, Done, Signalled
  <2>9. QED
    BY <2>4, <2>8 DEF Ledger!Next
<1>5. QED
  BY <1>3, <1>4

(* The cancellation is a signal, to a transaction that had none.             *)
LEMMA CancelImplements ==
  ASSUME IInv, LedgerInv, CancelTx
  PROVE  [Ledger!Next]_(Ledger!vars)
<1> DEFINE x == txInFlight[idx]
<1>0. TypeOK /\ mainPc = "cancel" /\ idx <= Len(txInFlight) /\ IncludedOther(x)
  BY DEF IInv, JudgedToCancel, CancelTx
<1>1. /\ x \in InFlight /\ x \in Tx
      /\ x \notin Done \cup Range(newDone)
  BY <1>0, NextJudged DEF LedgerInv
<1>2. x \notin Signalled
  BY <1>1 DEF LedgerInv, CancelledDone, Signalled
<1>3. checkBlock # 0
  BY <1>0 DEF LedgerInv, LocalLists
<1>4. Signalled' = Signalled \cup {x}
  BY <1>0, <1>1, <1>3 DEF CancelTx, TypeOK, Signalled
<1>5. UNCHANGED <<txInFlight, txDone, txStatus>>
  BY DEF CancelTx, ledgerVars, watchVars
<1>6. Ledger!IncludedOther(x)
  BY <1>0 DEF IncludedOther, Ledger!IncludedOther, VerdictOf
<1>7. Ledger!Signal(x)
  BY <1>1, <1>2, <1>4, <1>5, <1>6 DEF Ledger!Signal, InFlight, Done
<1>8. QED
  BY <1>1, <1>7 DEF Ledger!Next

(* The end of the check retires what was given up during the check, if       *)
(* anything was.                                                             *)
LEMMA EndImplements ==
  ASSUME IInv, LedgerInv, EndPass2
  PROVE  [Ledger!Next]_(Ledger!vars)
<1> DEFINE S == Range(newDone) \ Done
<1>0. TypeOK
  BY DEF IInv
<1>1. /\ mainPc = "pass2" /\ idx > Len(txInFlight)
      /\ InFlight' = Range(newInflight) /\ Done' = Range(newDone)
      /\ UNCHANGED <<cancelBlock, txStatus>>
  BY DEF EndPass2, InFlight, Done, watchVars
<1>2. Judged = InFlight
  <2>1. idx - 1 = Len(txInFlight)
    BY <1>0, <1>1, ListTypes DEF TypeOK
  <2>2. QED
    BY <1>0, <2>1, ListTypes DEF Judged
<1>3. /\ Range(newInflight) \cup Range(newDone) = InFlight \cup Done
      /\ Range(newInflight) \cap Range(newDone) = {}
      /\ Done \subseteq Range(newDone) /\ InFlight \cap Done = {}
  BY <1>1, <1>2 DEF LedgerInv, LocalLists, ListsDisjoint
<1>4. S \subseteq InFlight /\ InFlight' = InFlight \ S /\ Done' = Done \cup S
  BY <1>1, <1>3
<1>5. \A i \in S : Ledger!Settled(i)
  <2>1. SUFFICES ASSUME NEW i \in S
                 PROVE  Ledger!Settled(i)
    OBVIOUS
  <2>2. i \in Tx /\ Settled(i)
    BY <1>0, ListTypes DEF LedgerInv, DoneSettled
  <2>3. QED
    BY <2>2 DEF Settled, Ledger!Settled, Signalled, VerdictOf
<1>6. UNCHANGED <<Signalled, [i \in Tx |-> VerdictOf(txStatus[i])]>>
  BY <1>1 DEF Signalled
<1>7. CASE S = {}
  BY <1>4, <1>6, <1>7 DEF Ledger!vars
<1>8. CASE S # {}
  <2>1. Ledger!Retire(S)
    BY <1>4, <1>5, <1>6, <1>8 DEF Ledger!Retire
  <2>2. QED
    BY <1>4, <2>1 DEF Ledger!Next
<1>9. QED
  BY <1>7, <1>8

(* SendShutterizedTX submits a transaction that the ledger does not know.    *)
LEMMA SendImplements ==
  ASSUME IInv, LedgerInv, Send
  PROVE  [Ledger!Next]_(Ledger!vars)
<1> DEFINE x == sent + 1
<1>0. TypeOK
  BY DEF IInv
<1>1. /\ txInFlight' = Append(txInFlight, x)
      /\ txStatus' = [txStatus EXCEPT ![x] = "Signed"]
      /\ UNCHANGED <<txDone, cancelBlock>>
  BY DEF Send
<1>2. x \in Tx /\ pc[x] = "unborn" /\ txStatus[x] = "Unsent" /\ sent \in Nat
  BY <1>0, SentIsNew DEF IInv, WatchInv, TypeOK
<1>3. x \notin InFlight \cup Done
  BY <1>2 DEF LedgerInv, LedgerComplete
<1>4. InFlight' = InFlight \cup {x} /\ Done' = Done /\ Signalled' = Signalled
  BY <1>0, <1>1, <1>2, AppendToList DEF TypeOK, InFlight, Done, Signalled
<1>5. \A k \in Tx : VerdictOf(txStatus'[k]) = VerdictOf(txStatus[k])
  BY <1>0, <1>1, <1>2 DEF TypeOK, VerdictOf
<1>6. Ledger!Submit(x)
  BY <1>3, <1>4, <1>5 DEF Ledger!Submit
<1>7. QED
  BY <1>2, <1>6 DEF Ledger!Next

(* Every step of the life cycle is a step or a stutter of the ledger.        *)
LEMMA StepImplements ==
  IInv /\ LedgerInv /\ [Next]_vars => [Ledger!Next]_(Ledger!vars)
<1> SUFFICES ASSUME IInv, LedgerInv, [Next]_vars
             PROVE  [Ledger!Next]_(Ledger!vars)
  OBVIOUS
<1>1. CASE \/ \E b \in 1..MaxBlock : ReceiveBlock(b)
           \/ ReadInclusion \/ EndPass1 \/ Judge \/ SendBounded \/ SendPanics
           \/ Chain \/ UNCHANGED vars
  <2>1. UNCHANGED <<txInFlight, txDone, cancelBlock, txStatus>>
    BY <1>1
       DEF ReceiveBlock, ReadInclusion, EndPass1, Judge, SendBounded, SendPanics,
           Chain, NewBlock, vars, mainVars, ledgerVars, watchVars
  <2>2. QED
    BY <2>1, LedgerStutter
<1>2. CASE CancelTx
  BY <1>2, CancelImplements
<1>3. CASE EndPass2
  BY <1>3, EndImplements
<1>4. CASE Send
  BY <1>4, SendImplements
<1>5. ASSUME NEW i \in Tx, WatchTx(i) \/ Fault(i) \/ Deadline(i)
      PROVE  [Ledger!Next]_(Ledger!vars)
  <2>1. Next
    BY <1>5 DEF Next
  <2>2. QED
    BY <1>5, <2>1, WatchImplements
<1>6. QED
  BY <1>1, <1>2, <1>3, <1>4, <1>5 DEF Next, MainStep

(* The goroutines, the polling and the lists implement the ledger: whatever  *)
(* the interleaving, a transaction is submitted once, gets one verdict, is    *)
(* told to stop only after another was included, and is retired once and     *)
(* only when it was included, given up or told to stop.                      *)
THEOREM LifeCycleImplementsLedger == Spec => ImplementsLedger
<1>1. Init => Ledger!Init
  <2>1. SUFFICES ASSUME Init
                 PROVE  Ledger!Init
    OBVIOUS
  <2>2. InFlight = {} /\ Done = {}
    BY <2>1, InitIInv, ListTypes DEF Init, IInv, InFlight, Done
  <2>3. QED
    BY <2>1, <2>2 DEF Init, Ledger!Init, Signalled, VerdictOf
<1>2. QED
  BY <1>1, StepImplements, LedgerInductive, PTL
     DEF Spec, ImplementsLedger, Ledger!Spec

(* The ledger with what is proved of it, under the same refinement.          *)
Promises == INSTANCE TxLedgerProofs WITH
               pending   <- InFlight,
               retired   <- Done,
               signalled <- Signalled,
               verdict   <- [i \in Tx |-> VerdictOf(txStatus[i])]

(* What the ledger promises is true of the program: a transaction is shown   *)
(* as NotIncluded only if another one is Included.                           *)
THEOREM LeftOutIsExplained ==
  Spec => [](\A i \in Tx : txStatus[i] = "NotIncluded"
                => \E j \in Tx \ {i} : txStatus[j] = "Included")
<1>1. Promises!Spec => []Promises!LeftOutHasCause
  BY Promises!LeftOutOnlyWithCause
<1>2. Ledger!Init => Promises!Init
  BY DEF Ledger!Init, Promises!Init
<1>3. [Ledger!Next]_(Ledger!vars) => [Promises!Next]_(Promises!vars)
  BY DEF Ledger!Next, Promises!Next, Ledger!vars, Promises!vars,
         Ledger!Submit, Promises!Submit, Ledger!Signal, Promises!Signal,
         Ledger!IncludedOther, Promises!IncludedOther,
         Ledger!Resolve, Promises!Resolve, Ledger!Retire, Promises!Retire,
         Ledger!Settled, Promises!Settled, Ledger!Verdicts, Promises!Verdicts
<1>4. Promises!LeftOutHasCause =>
        \A i \in Tx : txStatus[i] = "NotIncluded"
           => \E j \in Tx \ {i} : txStatus[j] = "Included"
  <2>1. ASSUME NEW s
        PROVE  /\ VerdictOf(s) = "included" => s = "Included"
               /\ s = "NotIncluded" => VerdictOf(s) = "notIncluded"
    BY DEF VerdictOf
  <2>2. QED
    BY <2>1 DEF Promises!LeftOutHasCause, Promises!IncludedOther
<1>5. QED
  BY <1>1, <1>2, <1>3, <1>4, LifeCycleImplementsLedger, PTL
     DEF ImplementsLedger, Ledger!Spec, Promises!Spec
=============================================================================

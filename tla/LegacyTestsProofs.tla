-------------------------- MODULE LegacyTestsProofs --------------------------
(***************************************************************************)
(* Proofs about LegacyTests and NonceRepair, for every set of prices and   *)
(* every number of transactions.  The two programs share an account at one  *)
(* node, so that everything rests on what the node's pool and its pending   *)
(* nonce say of the nonces that were given away.                            *)
(***************************************************************************)
EXTENDS NonceRepair, MinMaxLemmas, SequenceTheorems, TLAPS

USE PricesAssumption, SendsAssumption

(* The shape of the state, without the bounds of TypeOK.                    *)
AnyTx == [nonce : Nat, kind : {"test", "cancel", "fix"}, price : Nat]
Shape ==
  /\ countsPool \in BOOLEAN /\ mined \in Seq(AnyTx)
  /\ pool \subseteq AnyTx /\ IsFiniteSet(pool)
  /\ process \in {"running", "done", "fatal", "panic"}
  /\ pc \in [Modes -> {"off", "start", "idle", "send", "wait", "cancel", "check", "done"}]
  /\ nonce \in [Modes -> Nat] /\ bid \in Nat /\ failed \in BOOLEAN
  /\ used \in Seq(Nat) /\ confirmed \subseteq [nonce : Nat, bid : Nat]

(* With a node that counts the pool, and nobody else on the key, the nonces  *)
(* of send-wait are 0, 1, 2 and so on: while the program runs, each of them  *)
(* is used or pending, and nothing beyond them is.                           *)
Waiting == {"wait", "cancel", "check"}
NoncesInOrder == countsPool /\ Alone =>
  /\ \A k \in 1..Len(used) : used[k] = k - 1
  /\ process = "running" =>
       /\ head <= Len(used)
       /\ \A n \in head..(Len(used) - 1) : Pooled(n) # {}
       /\ \A t \in pool : t.nonce < Len(used)
       /\ pc[SW] = "send" => nonce[SW] = Len(used)
       /\ pc[SW] \in Waiting => nonce[SW] + 1 = Len(used)

(* A cancellation that the node refused was too late or too cheap.          *)
CheckHasCause == process = "running" /\ pc[SW] = "check" /\ ~failed =>
  \/ nonce[SW] < head
  \/ countsPool /\ \E t \in Pooled(nonce[SW]) : t.price >= bid

TestInv == Shape /\ NoncesInOrder /\ TimeoutsSurvived /\ CheckHasCause /\ ConfirmedHasCause

(* FixNonce starts when the other program is over; until a block overtakes   *)
(* it, it is about the nonces that it found between its two queries.         *)
RepairInv ==
  /\ headNonce \in Nat /\ pendingNonce \in Nat /\ i \in Nat /\ roundHead \in Nat
  /\ fixPc # "idle" => process # "running"
  /\ fixPc \in {"pending", "round", "send"} /\ ~overtaken =>
       head = headNonce /\ Nonces(pool) = Nonces(before)
  /\ fixPc \in {"round", "send"} /\ ~overtaken =>
       \A n \in headNonce..(pendingNonce - 1) : n \in Nonces(before)
  /\ fixPc = "send" /\ ~overtaken => roundHead = headNonce /\ i < Rounds

(* What stays true when blocks overtake it: its first head nonce and that of *)
(* a round are nonces that the chain has reached.                            *)
OvertakenInv ==
  /\ fixPc \in {"pending", "round", "send"} => headNonce <= head /\ NoneLost
  /\ fixPc = "pending" => Nonces(pool) \subseteq Nonces(before)
  /\ fixPc \in {"round", "send"} => NoneBeyond
  /\ fixPc = "send" => roundHead <= head /\ i < Rounds

-----------------------------------------------------------------------------
(* The pool is finite, so that one of the nonces that it could fill is free: *)
(* PendingNonceAt is the first of them.                                      *)
LEMMA PendingIsFree ==
  ASSUME Shape
  PROVE  /\ PendingNonceAt \in Nat /\ head \in Nat /\ head <= PendingNonceAt
         /\ countsPool => /\ Pooled(PendingNonceAt) = {}
                          /\ \A n \in head..(PendingNonceAt - 1) : Pooled(n) # {}
         /\ ~countsPool => PendingNonceAt = head
<1>1. head \in Nat
  BY LenProperties DEF Shape, head
<1>2. CASE ~countsPool
  BY <1>1, <1>2 DEF PendingNonceAt
<1>3. CASE countsPool
  <2> DEFINE top == head + Cardinality(pool)
             S == {n \in head..top : Pooled(n) = {}}
  <2>1. IsFiniteSet(pool) /\ Cardinality(pool) \in Nat /\ top \in Nat
    BY <1>1, FS_CardinalityType DEF Shape
  <2>2. S # {}
    <3>1. SUFFICES ASSUME S = {}
                   PROVE  FALSE
      OBVIOUS
    <3>2. \A n \in head..top : \E t \in pool : t.nonce = n
      BY <3>1 DEF Pooled
    <3> DEFINE f == [n \in head..top |-> CHOOSE t \in pool : t.nonce = n]
    <3>3. \A n \in head..top : f[n] \in pool /\ f[n].nonce = n
      BY <3>2
    <3>4. f \in [head..top -> pool]
      BY <3>3
    <3>5. IsFiniteSet(head..top) /\ Cardinality(pool) < Cardinality(head..top)
      <4>1. /\ IsFiniteSet(head..top)
            /\ Cardinality(head..top) = IF head > top THEN 0 ELSE top - head + 1
        <5>1. head \in Int /\ top \in Int
          BY <1>1, <2>1
        <5> HIDE DEF top
        <5>2. QED
          BY <5>1, FS_Interval
      <4>2. QED
        BY <1>1, <2>1, <4>1
    <3>6. \E x, y \in head..top : x # y /\ f[x] = f[y]
      <4> DEFINE A == head..top
      <4>1. /\ f \in [A -> pool] /\ IsFiniteSet(A) /\ IsFiniteSet(pool)
            /\ Cardinality(pool) < Cardinality(A)
        BY <2>1, <3>4, <3>5
      <4> HIDE DEF f, A
      <4>2. \E x, y \in A : x # y /\ f[x] = f[y]
        BY <4>1, FS_PigeonHole
      <4>3. QED
        BY <4>2 DEF A
    <3>7. QED
      BY <3>3, <3>6
  <2>3. S \in SUBSET Nat
    BY <1>1, <2>1
  <2>4. Min(S) \in S /\ \A x \in S : Min(S) <= x
    BY <2>2, <2>3, MinIsLeast
  <2>5. PendingNonceAt = Min(S)
    BY <1>3 DEF PendingNonceAt
  <2>6. ASSUME NEW n \in head..(Min(S) - 1)
        PROVE  Pooled(n) # {}
    <3>1. n \in head..top /\ n < Min(S) /\ ~(Min(S) <= n)
      BY <1>1, <2>1, <2>4
    <3>2. n \notin S
      BY <2>4, <3>1
    <3>3. QED
      BY <3>1, <3>2
  <2>7. QED
    BY <1>1, <1>3, <2>1, <2>4, <2>5, <2>6
<1>4. QED
  BY <1>2, <1>3 DEF Shape

(* What the pool is when the node has accepted a transaction: its nonce is   *)
(* pending, the others are as before, and where the node replaces, only a    *)
(* better price did.                                                         *)
LEMMA Accepted ==
  ASSUME Shape, NEW t \in AnyTx, Accepts(t), pool' = With(t),
         UNCHANGED <<countsPool, mined>>
  PROVE  /\ pool' \subseteq AnyTx /\ IsFiniteSet(pool')
         /\ \A u \in pool' : u = t \/ u \in pool
         /\ \A n : (Pooled(n) # {} => Pooled(n)' # {})
         /\ Pooled(t.nonce)' # {}
         /\ countsPool => \A n, b \in Nat :
              (\E u \in Pooled(n) : u.price >= b) => \E u \in Pooled(n)' : u.price >= b
<1>1. /\ t \in pool' /\ pool' \subseteq pool \cup {t}
      /\ \A u \in pool : u \in pool' \/ u.nonce = t.nonce
  BY DEF With, Pooled
<1>2. IsFiniteSet(pool')
  <2>1. IsFiniteSet(pool \cup {t})
    BY FS_AddElement DEF Shape
  <2>2. QED
    BY <1>1, <2>1, FS_Subset
<1>3. \A n : (Pooled(n) # {} => Pooled(n)' # {})
  BY <1>1 DEF Pooled
<1>4. ASSUME countsPool, NEW n \in Nat, NEW b \in Nat,
             NEW u \in Pooled(n), u.price >= b
      PROVE  \E w \in Pooled(n)' : w.price >= b
  <2>1. CASE u \in pool'
    BY <1>4, <2>1 DEF Pooled
  <2>2. CASE u \notin pool'
    <3>1. u \in pool /\ u.nonce = n /\ u.nonce = t.nonce
      BY <1>1, <1>4, <2>2 DEF Pooled
    <3>2. u.price < t.price
      BY <1>4, <3>1 DEF Accepts, Pooled
    <3>3. t.price \in Nat /\ u.price \in Nat
      BY <3>1 DEF AnyTx, Shape
    <3>4. t.price >= b
      BY <1>4, <3>2, <3>3
    <3>5. QED
      BY <1>1, <3>1, <3>4 DEF Pooled
  <2>3. QED
    BY <2>1, <2>2
<1>5. QED
  BY <1>1, <1>2, <1>3, <1>4 DEF Shape, Pooled

(* A block takes one transaction with the next nonce, and the pool loses     *)
(* what else has that nonce.                                                 *)
LEMMA MineEffect ==
  ASSUME Shape, Mine
  PROVE  /\ mined' \in Seq(AnyTx) /\ head' = head + 1 /\ head \in Nat
         /\ pool' \subseteq pool /\ IsFiniteSet(pool') /\ Pooled(head) # {}
         /\ \A n : n # head => Pooled(n)' = Pooled(n)
<1>1. PICK t \in Pooled(head) : mined' = Append(mined, t)
  BY DEF Mine
<1>2. t \in AnyTx
  BY DEF Pooled, Shape
<1>3. mined' \in Seq(AnyTx) /\ head' = head + 1 /\ head \in Nat
  BY <1>1, <1>2, AppendProperties, LenProperties DEF Shape, head
<1>4. pool' = pool \ Pooled(head)
  BY DEF Mine
<1>5. IsFiniteSet(pool')
  BY <1>4, FS_Subset DEF Shape
<1>6. \A n : n # head => Pooled(n)' = Pooled(n)
  BY <1>4 DEF Pooled
<1>7. QED
  BY <1>1, <1>3, <1>4, <1>5, <1>6

-----------------------------------------------------------------------------
(* What the two tests and FixNonce send is a transaction with a price.       *)
LEMMA SentShapes ==
  ASSUME Shape, NEW price \in Prices
  PROVE  /\ price \in Nat
         /\ \A m \in Modes : TestTx(m, price) \in AnyTx
         /\ CancelTxFor(price) \in AnyTx
BY DEF Shape, TestTx, CancelTxFor, AnyTx, Modes

(* However a SendTransaction goes, the cause of a confirmation is still      *)
(* there, and the shape of the node is kept.                                 *)
LEMMA SendKeepsCauses ==
  ASSUME Shape, ConfirmedHasCause, NEW t \in AnyTx,
         Sent(t) \/ Refused(t) \/ SendFails(t), UNCHANGED confirmed
  PROVE  /\ ConfirmedHasCause'
         /\ UNCHANGED <<countsPool, mined>>
         /\ pool' \subseteq AnyTx /\ IsFiniteSet(pool')
         /\ failed' \in BOOLEAN /\ (failed => failed') /\ (SendFails(t) => failed')
         /\ pool' = pool \/ (Accepts(t) /\ pool' = With(t))
<1>1. /\ UNCHANGED <<countsPool, mined>>
      /\ failed' \in BOOLEAN /\ (failed => failed') /\ (SendFails(t) => failed')
      /\ pool' = pool \/ (Accepts(t) /\ pool' = With(t))
  BY DEF Shape, Sent, Refused, SendFails, nodeVars
<1>2. pool' \subseteq AnyTx /\ IsFiniteSet(pool')
  BY <1>1, Accepted DEF Shape
<1>3. ASSUME NEW c \in confirmed
      PROVE  \/ c.nonce < head
             \/ countsPool /\ (failed' \/ \E u \in Pooled(c.nonce)' : u.price >= c.bid)
  <2>1. c.nonce \in Nat /\ c.bid \in Nat
    BY DEF Shape
  <2>2. \/ c.nonce < head
        \/ countsPool /\ (failed \/ \E u \in Pooled(c.nonce) : u.price >= c.bid)
    BY DEF ConfirmedHasCause
  <2>3. CASE pool' = pool
    BY <1>1, <2>2, <2>3 DEF Pooled
  <2>4. CASE Accepts(t) /\ pool' = With(t)
    BY <1>1, <2>1, <2>2, <2>4, Accepted
  <2>5. QED
    BY <1>1, <2>3, <2>4
<1>4. head' = head
  BY <1>1 DEF head
<1>5. ConfirmedHasCause'
  BY <1>1, <1>3, <1>4 DEF ConfirmedHasCause, Pooled
<1>6. QED
  BY <1>1, <1>2, <1>5

(* A step that sends nothing, asks for no nonce and confirms nothing.        *)
LEMMA QuietStep ==
  ASSUME TestInv, Shape',
         UNCHANGED <<nodeVars, nonce, used, confirmed>>,
         failed => failed', Alone' => Alone,
         process' = "running" =>
           /\ process = "running"
           /\ pc'[SW] = "send" => pc[SW] = "send"
           /\ pc'[SW] \in Waiting => pc[SW] \in Waiting
           /\ pc'[SW] = "check" => pc[SW] = "check" /\ bid' = bid,
         process' = "fatal" => process = "fatal" \/ failed'
  PROVE  TestInv'
<1> USE DEF nodeVars
<1>1. head' = head /\ \A n : Pooled(n)' = Pooled(n)
  BY DEF head, Pooled
<1>2. NoncesInOrder'
  BY <1>1 DEF TestInv, NoncesInOrder
<1>3. TimeoutsSurvived' /\ CheckHasCause' /\ ConfirmedHasCause'
  BY <1>1 DEF TestInv, TimeoutsSurvived, CheckHasCause, ConfirmedHasCause, Shape, Waiting
<1>4. QED
  BY <1>2, <1>3 DEF TestInv

(* The steps of this kind.                                                   *)
LEMMA QuietSteps ==
  ASSUME TestInv,
         \/ StartChiado \/ StartSendWait \/ TestOver \/ WaitGroup
         \/ ReceiptFound \/ ReceiptTimeout \/ WaitFails \/ CheckFails
  PROVE  TestInv'
<1> USE DEF nodeVars, testVars, waitVars, At, Goto, Stop, EndAttempt, SW, Modes
<1>0. Shape
  BY DEF TestInv
<1>1. /\ UNCHANGED <<nodeVars, nonce, used, confirmed>>
      /\ bid' = bid \/ bid' = 0
      /\ process' \in {process, "done", "fatal", "panic"}
  BY DEF StartChiado, StartSendWait, TestOver, WaitGroup, ReceiptFound,
         ReceiptTimeout, WaitFails, CheckFails
<1>2. failed' \in BOOLEAN /\ (failed => failed')
  BY <1>0 DEF Shape, StartChiado, StartSendWait, TestOver, WaitGroup, ReceiptFound,
              ReceiptTimeout, WaitFails, CheckFails
<1>3. Shape'
  <2>1. pc' \in [Modes -> {"off", "start", "idle", "send", "wait", "cancel", "check", "done"}]
    BY <1>0 DEF Shape, StartChiado, StartSendWait, TestOver, WaitGroup, ReceiptFound,
                ReceiptTimeout, WaitFails, CheckFails
  <2>2. bid' \in Nat
    BY <1>0, <1>1 DEF Shape
  <2>3. QED
    BY <1>0, <1>1, <1>2, <2>1, <2>2 DEF Shape
<1>4. Alone' => Alone
  BY <1>0 DEF Alone, Shape, StartChiado, StartSendWait, TestOver, WaitGroup,
              ReceiptFound, ReceiptTimeout, WaitFails, CheckFails
<1>5. /\ process' = "running" =>
           /\ process = "running"
           /\ pc'[SW] = "send" => pc[SW] = "send"
           /\ pc'[SW] \in Waiting => pc[SW] \in Waiting
           /\ pc'[SW] = "check" => pc[SW] = "check" /\ bid' = bid
      /\ process' = "fatal" => process = "fatal" \/ failed'
  BY <1>0 DEF Waiting, Shape, StartChiado, StartSendWait, TestOver, WaitGroup,
              ReceiptFound, ReceiptTimeout, WaitFails, CheckFails
<1>6. QED
  BY <1>3, <1>1, <1>4, <1>5, <1>2, QuietStep

(* PendingNonceAt is a nonce that neither test has sent anything with.       *)
LEMMA ReadNonceKeeps ==
  ASSUME TestInv, NEW m \in Modes, ReadNonce(m)
  PROVE  TestInv'
<1> USE DEF At, Goto, nodeVars, waitVars, SW, Modes
<1>0. Shape /\ PendingNonceAt \in Nat
  BY PendingIsFree DEF TestInv
<1>1. /\ UNCHANGED <<nodeVars, used, confirmed, bid, failed, process>>
      /\ process = "running"
      /\ pc' = [pc EXCEPT ![m] = "send"]
      /\ nonce' = [nonce EXCEPT ![m] = PendingNonceAt]
  BY DEF ReadNonce
<1>2. Shape'
  BY <1>0, <1>1 DEF Shape
<1>3. head' = head /\ \A n : Pooled(n)' = Pooled(n)
  BY <1>1 DEF head, Pooled
<1>4. NoncesInOrder'
  <2>1. SUFFICES ASSUME countsPool, Alone'
                 PROVE  NoncesInOrder'
    BY <1>1 DEF NoncesInOrder
  <2>2. m = SW /\ Alone
    BY <1>0, <1>1, <2>1 DEF Alone, Shape
  <2>3. /\ \A k \in 1..Len(used) : used[k] = k - 1
        /\ head <= Len(used)
        /\ \A n \in head..(Len(used) - 1) : Pooled(n) # {}
        /\ \A t \in pool : t.nonce < Len(used)
    BY <1>1, <2>1, <2>2 DEF TestInv, NoncesInOrder
  <2>4. Len(used) \in Nat /\ head \in Nat
    BY <1>0, PendingIsFree, LenProperties DEF Shape
  <2>5. Pooled(Len(used)) = {}
    BY <2>3, <2>4 DEF Pooled
  <2>6. PendingNonceAt = Len(used)
    <3>1. /\ Pooled(PendingNonceAt) = {} /\ head <= PendingNonceAt
          /\ \A n \in head..(PendingNonceAt - 1) : Pooled(n) # {}
      BY <1>0, <2>1, PendingIsFree
    <3>2. ~(PendingNonceAt < Len(used))
      BY <1>0, <2>3, <2>4, <3>1
    <3>3. ~(PendingNonceAt > Len(used))
      BY <1>0, <2>3, <2>4, <2>5, <3>1
    <3>4. QED
      BY <1>0, <2>4, <3>2, <3>3
  <2>7. pc'[SW] = "send" /\ nonce'[SW] = Len(used)
    BY <1>0, <1>1, <2>2, <2>6 DEF Shape
  <2>8. QED
    BY <1>1, <1>3, <2>3, <2>7 DEF NoncesInOrder, Waiting
<1>5. TimeoutsSurvived'
  BY <1>1 DEF TimeoutsSurvived
<1>6. CheckHasCause'
  <2>1. SUFFICES ASSUME pc'[SW] = "check"
                 PROVE  CheckHasCause'
    BY DEF CheckHasCause
  <2>2. m # SW /\ pc[SW] = "check" /\ nonce'[SW] = nonce[SW]
    BY <1>0, <1>1, <2>1 DEF Shape
  <2>3. QED
    BY <1>1, <1>3, <2>2 DEF TestInv, CheckHasCause
<1>7. ConfirmedHasCause'
  BY <1>1, <1>3 DEF TestInv, ConfirmedHasCause
<1>8. QED
  BY <1>2, <1>4, <1>5, <1>6, <1>7 DEF TestInv

(* The transaction of send-wait is accepted under the nonce that comes next. *)
LEMMA SendTestKeeps ==
  ASSUME TestInv, SendTest
  PROVE  TestInv'
<1> USE DEF At, Goto, waitVars, SW, Modes
<1>0. Shape /\ ConfirmedHasCause
  BY DEF TestInv
<1>1. PICK price \in Prices : /\ At(SW, "send") /\ Sent(TestTx(SW, price))
                              /\ Goto(SW, "wait")
                              /\ used' = Append(used, nonce[SW])
                              /\ UNCHANGED <<nonce, bid, confirmed, failed>>
  BY DEF SendTest, Sent
<1>2. PICK t \in AnyTx : /\ t.nonce = nonce[SW] /\ Sent(t) /\ Accepts(t)
                         /\ pool' = With(t) /\ UNCHANGED <<countsPool, mined>>
  <2>1. /\ TestTx(SW, price) \in AnyTx /\ TestTx(SW, price).nonce = nonce[SW]
        /\ Sent(TestTx(SW, price))
    BY <1>0, <1>1, SentShapes DEF TestTx
  <2>2. QED
    BY <2>1 DEF Sent
<1>3. /\ pool' \subseteq AnyTx /\ IsFiniteSet(pool')
      /\ \A u \in pool' : u = t \/ u \in pool
      /\ \A n : Pooled(n) # {} => Pooled(n)' # {}
      /\ Pooled(t.nonce)' # {}
  BY <1>0, <1>2, Accepted
<1>4. /\ nonce[SW] \in Nat /\ Len(used) \in Nat /\ head \in Nat /\ head' = head
      /\ used' \in Seq(Nat) /\ Len(used') = Len(used) + 1
      /\ \A k \in 1..Len(used) : used'[k] = used[k]
      /\ used'[Len(used) + 1] = nonce[SW]
  BY <1>0, <1>1, <1>2, AppendProperties, LenProperties, PendingIsFree DEF Shape, head
<1>5. Shape'
  BY <1>0, <1>1, <1>2, <1>3, <1>4 DEF Shape
<1>6. NoncesInOrder'
  <2>1. SUFFICES ASSUME countsPool, Alone
                 PROVE  NoncesInOrder'
    BY <1>0, <1>1, <1>2 DEF NoncesInOrder, Alone, Shape
  <2>2. /\ \A k \in 1..Len(used) : used[k] = k - 1
        /\ head <= Len(used)
        /\ \A n \in head..(Len(used) - 1) : Pooled(n) # {}
        /\ \A u \in pool : u.nonce < Len(used)
        /\ nonce[SW] = Len(used)
    BY <1>1, <2>1 DEF TestInv, NoncesInOrder
  <2>3. \A k \in 1..Len(used') : used'[k] = k - 1
    <3>1. SUFFICES ASSUME NEW k \in 1..Len(used')
                   PROVE  used'[k] = k - 1
      OBVIOUS
    <3>2. k \in 1..Len(used) \/ k = Len(used) + 1
      BY <1>4
    <3>3. CASE k \in 1..Len(used)
      BY <1>4, <2>2, <3>3
    <3>4. CASE k = Len(used) + 1
      <4>1. used'[k] = Len(used) /\ k - 1 = Len(used)
        BY <1>4, <2>2, <3>4
      <4>2. QED
        BY <4>1
    <3>5. QED
      BY <3>2, <3>3, <3>4
  <2>4. \A n \in head'..(Len(used') - 1) : Pooled(n)' # {}
    <3>1. head'..(Len(used') - 1) = head..(Len(used) - 1) \cup {Len(used)}
      BY <1>4, <2>2
    <3>2. \A n : n = Len(used) => Pooled(n)' # {}
      BY <1>2, <1>3, <2>2
    <3>3. QED
      BY <1>3, <2>2, <3>1, <3>2
  <2>5. \A u \in pool' : u.nonce < Len(used')
    <3>1. SUFFICES ASSUME NEW u \in pool'
                   PROVE  u.nonce < Len(used')
      OBVIOUS
    <3>2. u.nonce <= Len(used) /\ u.nonce \in Nat
      BY <1>2, <1>3, <2>2 DEF AnyTx
    <3>3. QED
      BY <1>4, <3>2
  <2>6. head' <= Len(used') /\ nonce'[SW] + 1 = Len(used') /\ pc'[SW] = "wait"
    BY <1>0, <1>1, <1>4, <2>2 DEF Shape
  <2>7. QED
    BY <2>3, <2>4, <2>5, <2>6 DEF NoncesInOrder
<1>7. TimeoutsSurvived'
  BY <1>1 DEF TimeoutsSurvived
<1>8. CheckHasCause'
  BY <1>0, <1>1 DEF CheckHasCause, Shape
<1>9. ConfirmedHasCause'
  BY <1>0, <1>1, <1>2, SendKeepsCauses
<1>10. QED
  BY <1>5, <1>6, <1>7, <1>8, <1>9 DEF TestInv

(* log.Fatalf after a SendTransaction: refused, or failed.  Alone at a node   *)
(* that counts the pool, send-wait is not refused.                           *)
LEMMA FatalKeeps ==
  ASSUME TestInv, NEW m \in Modes, SendRefused(m) \/ SendLegacyTxFails(m)
  PROVE  TestInv'
<1> USE DEF waitVars
<1>0. Shape /\ ConfirmedHasCause
  BY DEF TestInv
<1>1. /\ process' = "fatal"
      /\ UNCHANGED <<pc, nonce, used, confirmed, bid>>
      /\ \/ UNCHANGED <<nodeVars, failed>> /\ SendRefused(m)
         \/ UNCHANGED nodeVars /\ failed' = TRUE
         \/ \E price \in Prices : SendFails(TestTx(m, price))
  BY DEF SendRefused, SendLegacyTxFails, Refused, Stop
<1>2. /\ UNCHANGED <<countsPool, mined>>
      /\ pool' \subseteq AnyTx /\ IsFiniteSet(pool') /\ failed' \in BOOLEAN
      /\ failed' \/ SendRefused(m)
      /\ ConfirmedHasCause'
  <2>1. CASE UNCHANGED <<nodeVars, failed>> /\ SendRefused(m)
    BY <1>0, <1>1, <2>1 DEF nodeVars, Shape, ConfirmedHasCause, head, Pooled
  <2>2. CASE UNCHANGED nodeVars /\ failed' = TRUE
    BY <1>0, <1>1, <2>2 DEF nodeVars, Shape, ConfirmedHasCause, head, Pooled
  <2>3. CASE \E price \in Prices : SendFails(TestTx(m, price))
    <3>1. PICK t \in AnyTx : SendFails(t)
      BY <1>0, <2>3, SentShapes
    <3>2. QED
      BY <1>0, <1>1, <3>1, SendKeepsCauses
  <2>4. QED
    BY <1>1, <2>1, <2>2, <2>3
<1>3. Shape'
  BY <1>0, <1>1, <1>2 DEF Shape
<1>4. NoncesInOrder' /\ CheckHasCause'
  BY <1>1, <1>2 DEF TestInv, NoncesInOrder, CheckHasCause, Alone
<1>5. TimeoutsSurvived'
  <2>1. SUFFICES ASSUME SendRefused(m), countsPool, Alone
                 PROVE  FALSE
    BY <1>1, <1>2 DEF TimeoutsSurvived, Alone
  <2>2. m = SW /\ process = "running" /\ pc[SW] = "send"
    BY <2>1 DEF SendRefused, At, Alone, Modes
  <2>3. PICK price \in Prices : ~Accepts(TestTx(SW, price))
    BY <2>1, <2>2 DEF SendRefused, Refused
  <2>4. /\ head <= Len(used) /\ nonce[SW] = Len(used)
        /\ \A t \in pool : t.nonce < Len(used)
    BY <2>1, <2>2 DEF TestInv, NoncesInOrder
  <2>5. Len(used) \in Nat /\ head \in Nat
    BY <1>0, LenProperties, PendingIsFree DEF Shape
  <2>6. Pooled(Len(used)) = {}
    BY <2>4, <2>5 DEF Pooled
  <2>7. QED
    BY <2>3, <2>4, <2>5, <2>6 DEF Accepts, TestTx
<1>6. QED
  BY <1>2, <1>3, <1>4, <1>5 DEF TestInv

(* A tick of the other mode, which is not alone then.                        *)
LEMMA SendTickKeeps ==
  ASSUME TestInv, SendTick
  PROVE  TestInv'
<1> USE DEF At, Goto, waitVars, SW, Modes
<1>0. Shape /\ ConfirmedHasCause
  BY DEF TestInv
<1>1. /\ process = "running" /\ pc["chiado"] = "send"
      /\ UNCHANGED <<nonce, used, confirmed, bid, failed, process>>
      /\ pc' = [pc EXCEPT !["chiado"] = "idle"]
  BY DEF SendTick, Sent
<1>2. PICK t \in AnyTx : Sent(t)
  BY <1>0, SentShapes DEF SendTick
<1>3. /\ Accepts(t) /\ pool' = With(t) /\ UNCHANGED <<countsPool, mined>>
      /\ pool' \subseteq AnyTx /\ IsFiniteSet(pool') /\ head' = head
      /\ ConfirmedHasCause'
  BY <1>0, <1>1, <1>2, SendKeepsCauses, Accepted DEF Sent, head
<1>4. Shape'
  BY <1>0, <1>1, <1>3 DEF Shape
<1>5. NoncesInOrder' /\ TimeoutsSurvived'
  BY <1>0, <1>1 DEF NoncesInOrder, TimeoutsSurvived, Alone, Shape
<1>6. CheckHasCause'
  <2>1. SUFFICES ASSUME pc[SW] = "check", ~failed
                 PROVE  \/ nonce[SW] < head
                        \/ countsPool /\ \E u \in Pooled(nonce[SW])' : u.price >= bid
    BY <1>0, <1>1, <1>3 DEF CheckHasCause, Shape, Pooled
  <2>2. \/ nonce[SW] < head
        \/ countsPool /\ \E u \in Pooled(nonce[SW]) : u.price >= bid
    BY <1>1, <2>1 DEF TestInv, CheckHasCause
  <2>3. PICK n \in Nat, b \in Nat : n = nonce[SW] /\ b = bid
    BY <1>0 DEF Shape
  <2>4. countsPool /\ (\E u \in Pooled(n) : u.price >= b)
          => \E u \in Pooled(n)' : u.price >= b
    BY <1>0, <1>3, Accepted
  <2>5. QED
    BY <1>1, <2>2, <2>3, <2>4 DEF Pooled
<1>7. QED
  BY <1>3, <1>4, <1>5, <1>6 DEF TestInv

(* The cancellation goes out with the nonce of the attempt: whether it is    *)
(* accepted, refused or fails, the nonces stay in order.                     *)
LEMMA CancelKeeps ==
  ASSUME TestInv, Cancel \/ CancelRefused \/ CancelFails
  PROVE  TestInv'
<1> USE DEF At, Goto, SW, Modes
<1>0. Shape /\ ConfirmedHasCause
  BY DEF TestInv
<1>1. /\ process = "running" /\ pc[SW] = "cancel"
      /\ UNCHANGED <<nonce, used, confirmed, process>>
      /\ pc' = [pc EXCEPT ![SW] = "idle"] \/ pc' = [pc EXCEPT ![SW] = "check"]
  BY DEF Cancel, CancelRefused, CancelFails, CancelNotSent, EndAttempt
<1>2. PICK price \in Prices :
         \/ Sent(CancelTxFor(price)) /\ pc' = [pc EXCEPT ![SW] = "idle"] /\ bid' = 0
         \/ Refused(CancelTxFor(price)) /\ bid' = price
         \/ SendFails(CancelTxFor(price)) /\ bid' = price
  BY DEF Cancel, CancelRefused, CancelFails, CancelNotSent, EndAttempt
<1>3. PICK t \in AnyTx :
         /\ t = CancelTxFor(price)
         /\ Sent(t) \/ Refused(t) \/ SendFails(t)
         /\ t.nonce = nonce[SW] /\ t.price = price
  <2>1. CancelTxFor(price) \in AnyTx
    BY <1>0, SentShapes
  <2>2. CancelTxFor(price).nonce = nonce[SW] /\ CancelTxFor(price).price = price
    BY DEF CancelTxFor
  <2>3. QED
    BY <1>2, <2>1, <2>2
<1>4. /\ UNCHANGED <<countsPool, mined>>
      /\ pool' \subseteq AnyTx /\ IsFiniteSet(pool') /\ failed' \in BOOLEAN
      /\ ConfirmedHasCause' /\ head' = head
      /\ failed => failed'
      /\ SendFails(t) => failed'
      /\ pool' = pool \/ (Accepts(t) /\ pool' = With(t))
  BY <1>0, <1>1, <1>3, SendKeepsCauses DEF head
<1>5. Shape'
  <2>1. bid' \in Nat
    BY <1>0, <1>2, SentShapes
  <2>2. QED
    BY <1>0, <1>1, <1>4, <2>1 DEF Shape
<1>6. NoncesInOrder'
  <2>1. SUFFICES ASSUME countsPool, Alone
                 PROVE  NoncesInOrder'
    BY <1>0, <1>1, <1>4 DEF NoncesInOrder, Alone, Shape
  <2>2. /\ \A k \in 1..Len(used) : used[k] = k - 1
        /\ head <= Len(used)
        /\ \A n \in head..(Len(used) - 1) : Pooled(n) # {}
        /\ \A u \in pool : u.nonce < Len(used)
        /\ nonce[SW] + 1 = Len(used)
    BY <1>1, <2>1 DEF TestInv, NoncesInOrder, Waiting
  <2>3. Len(used) \in Nat /\ nonce[SW] \in Nat
    BY <1>0, LenProperties DEF Shape
  <2>4. CASE pool' = pool
    BY <1>0, <1>1, <1>4, <2>2, <2>4 DEF NoncesInOrder, Shape, Pooled
  <2>5. CASE Accepts(t) /\ pool' = With(t)
    <3>1. /\ \A u \in pool' : u = t \/ u \in pool
          /\ \A n : Pooled(n) # {} => Pooled(n)' # {}
      BY <1>0, <1>4, <2>5, Accepted
    <3>2. \A u \in pool' : u.nonce < Len(used)
      BY <1>3, <2>2, <2>3, <3>1
    <3>3. pc'[SW] # "send"
      BY <1>0, <1>1 DEF Shape
    <3>4. QED
      BY <1>1, <1>4, <2>2, <3>1, <3>2, <3>3 DEF NoncesInOrder
  <2>6. QED
    BY <1>4, <2>4, <2>5
<1>7. TimeoutsSurvived'
  BY <1>1 DEF TimeoutsSurvived
<1>8. CheckHasCause'
  <2>1. SUFFICES ASSUME pc'[SW] = "check", ~failed'
                 PROVE  CheckHasCause'
    BY DEF CheckHasCause
  <2>2. ~Accepts(t) /\ UNCHANGED nodeVars /\ bid' = price
    BY <1>0, <1>2, <1>3, <1>4, <2>1 DEF Refused, Shape
  <2>3. nonce[SW] \in Nat /\ head \in Nat /\ t.price \in Nat
    BY <1>0, PendingIsFree DEF Shape, AnyTx
  <2>4. CASE nonce[SW] < head
    BY <1>1, <1>4, <2>4 DEF CheckHasCause
  <2>5. CASE countsPool /\ \E u \in Pooled(nonce[SW]) : ~(u.price < t.price)
    <3>1. PICK u \in Pooled(nonce[SW]) : ~(u.price < t.price)
      BY <2>5
    <3>2. u.price \in Nat
      BY <1>0 DEF Shape, AnyTx, Pooled
    <3>3. u.price >= bid'
      BY <1>3, <2>2, <2>3, <3>1, <3>2
    <3>4. countsPool' /\ u \in Pooled(nonce[SW])'
      BY <1>1, <2>2, <2>5, <3>1 DEF Pooled, nodeVars
    <3>5. QED
      BY <3>3, <3>4 DEF CheckHasCause
  <2>6. QED
    BY <1>3, <2>2, <2>3, <2>4, <2>5 DEF Accepts
<1>9. QED
  BY <1>4, <1>5, <1>6, <1>7, <1>8 DEF TestInv

(* A confirmation: below the pending nonce a nonce is used, or something     *)
(* pends under it, which the check then is about.                            *)
LEMMA CheckKeeps ==
  ASSUME TestInv, Check
  PROVE  TestInv'
<1> USE DEF At, Goto, EndAttempt, SW, Modes
<1>0. Shape /\ ConfirmedHasCause
  BY DEF TestInv
<1>1. /\ process = "running" /\ pc[SW] = "check"
      /\ PendingNonceAt = nonce[SW] + 1
      /\ confirmed' = confirmed \cup {[nonce |-> nonce[SW], bid |-> bid]}
      /\ UNCHANGED <<nonce, used, failed, process, nodeVars>>
      /\ bid' = 0 /\ pc' = [pc EXCEPT ![SW] = "idle"]
  BY DEF Check, Confirmed
<1>2. Shape'
  BY <1>0, <1>1 DEF Shape, nodeVars
<1>3. head' = head /\ (\A n : Pooled(n)' = Pooled(n)) /\ countsPool' = countsPool
  BY <1>1 DEF head, Pooled, nodeVars
<1>4. NoncesInOrder' /\ TimeoutsSurvived' /\ CheckHasCause'
  BY <1>0, <1>1, <1>3
     DEF TestInv, NoncesInOrder, TimeoutsSurvived, CheckHasCause, Alone, Waiting,
         Shape, nodeVars
<1>5. \/ nonce[SW] < head
      \/ countsPool /\ (failed \/ \E u \in Pooled(nonce[SW]) : u.price >= bid)
  <2>1. SUFFICES ASSUME ~(nonce[SW] < head)
                 PROVE  countsPool /\ (failed \/ \E u \in Pooled(nonce[SW]) : u.price >= bid)
    OBVIOUS
  <2>2. countsPool
    BY <1>0, <1>1, <2>1, PendingIsFree DEF Shape
  <2>3. QED
    BY <1>1, <2>1, <2>2 DEF TestInv, CheckHasCause
<1>6. ConfirmedHasCause'
  <2>1. SUFFICES ASSUME NEW c \in confirmed'
                 PROVE  \/ c.nonce < head
                        \/ countsPool /\ (failed \/ \E u \in Pooled(c.nonce) : u.price >= c.bid)
    BY <1>1, <1>3 DEF ConfirmedHasCause, Pooled, nodeVars
  <2>2. CASE c \in confirmed
    BY <1>0, <2>2 DEF ConfirmedHasCause
  <2>3. CASE c = [nonce |-> nonce[SW], bid |-> bid]
    BY <1>5, <2>3
  <2>4. QED
    BY <1>1, <2>2, <2>3
<1>7. QED
  BY <1>2, <1>4, <1>6 DEF TestInv

(* Alone at a node that counts the pool, the check is never refuted: the     *)
(* pending nonce is the next one.                                            *)
LEMMA CheckRefutedKeeps ==
  ASSUME TestInv, CheckRefuted
  PROVE  TestInv'
<1> USE DEF At, Stop, waitVars
<1>0. Shape
  BY DEF TestInv
<1>1. /\ process = "running" /\ pc[SW] = "check" /\ process' = "fatal"
      /\ PendingNonceAt # nonce[SW] + 1
      /\ UNCHANGED <<pc, nonce, used, failed, bid, confirmed, nodeVars>>
  BY DEF CheckRefuted, Confirmed
<1>2. Shape'
  BY <1>0, <1>1 DEF Shape, nodeVars
<1>3. ~(countsPool /\ Alone)
  <2>1. SUFFICES ASSUME countsPool, Alone
                 PROVE  FALSE
    OBVIOUS
  <2>2. /\ head <= Len(used)
        /\ \A n \in head..(Len(used) - 1) : Pooled(n) # {}
        /\ \A t \in pool : t.nonce < Len(used)
        /\ nonce[SW] + 1 = Len(used)
    BY <1>1, <2>1 DEF TestInv, NoncesInOrder, Waiting
  <2>3. Len(used) \in Nat /\ head \in Nat /\ PendingNonceAt \in Nat
    BY <1>0, LenProperties, PendingIsFree DEF Shape
  <2>4. Pooled(Len(used)) = {}
    BY <2>2, <2>3 DEF Pooled
  <2>5. /\ Pooled(PendingNonceAt) = {} /\ head <= PendingNonceAt
        /\ \A n \in head..(PendingNonceAt - 1) : Pooled(n) # {}
    BY <1>0, <2>1, PendingIsFree
  <2>6. ~(PendingNonceAt < Len(used)) /\ ~(PendingNonceAt > Len(used))
    BY <2>2, <2>3, <2>4, <2>5
  <2>7. QED
    BY <1>1, <2>2, <2>3, <2>6
<1>4. NoncesInOrder' /\ TimeoutsSurvived' /\ CheckHasCause'
  BY <1>1, <1>3 DEF TestInv, NoncesInOrder, TimeoutsSurvived, CheckHasCause,
                    Alone, nodeVars
<1>5. ConfirmedHasCause'
  BY <1>1 DEF TestInv, ConfirmedHasCause, head, Pooled, nodeVars
<1>6. QED
  BY <1>2, <1>4, <1>5 DEF TestInv

(* A block.                                                                  *)
LEMMA MineKeeps ==
  ASSUME TestInv, Mine
  PROVE  TestInv'
<1> USE DEF testVars, waitVars
<1>0. Shape /\ ConfirmedHasCause
  BY DEF TestInv
<1>1. /\ mined' \in Seq(AnyTx) /\ head' = head + 1 /\ head \in Nat
      /\ pool' \subseteq pool /\ IsFiniteSet(pool') /\ Pooled(head) # {}
      /\ \A n : n # head => Pooled(n)' = Pooled(n)
      /\ UNCHANGED <<countsPool, process, pc, nonce, bid, used, confirmed, failed>>
  BY <1>0, MineEffect DEF Mine
<1>2. Shape'
  BY <1>0, <1>1 DEF Shape
<1>3. NoncesInOrder'
  <2>1. SUFFICES ASSUME countsPool, Alone, process = "running"
                 PROVE  /\ head' <= Len(used)
                        /\ \A n \in head'..(Len(used) - 1) : Pooled(n)' # {}
                        /\ \A t \in pool' : t.nonce < Len(used)
    BY <1>1 DEF TestInv, NoncesInOrder, Alone
  <2>2. /\ head <= Len(used)
        /\ \A n \in head..(Len(used) - 1) : Pooled(n) # {}
        /\ \A t \in pool : t.nonce < Len(used)
    BY <2>1 DEF TestInv, NoncesInOrder
  <2>3. Len(used) \in Nat /\ head < Len(used)
    BY <1>0, <1>1, <2>2, LenProperties DEF Shape, Pooled
  <2>4. ASSUME NEW n \in head'..(Len(used) - 1)
        PROVE  Pooled(n)' # {}
    <3>1. n \in head..(Len(used) - 1) /\ n # head
      BY <1>1, <2>3
    <3>2. QED
      BY <1>1, <2>2, <3>1
  <2>5. head' <= Len(used)
    BY <1>1, <2>3
  <2>6. QED
    BY <1>1, <2>2, <2>4, <2>5
<1>4. TimeoutsSurvived'
  BY <1>1 DEF TestInv, TimeoutsSurvived, Alone
<1>5. CheckHasCause'
  <2>1. SUFFICES ASSUME process = "running", pc[SW] = "check", ~failed
                 PROVE  \/ nonce[SW] < head'
                        \/ countsPool /\ \E t \in Pooled(nonce[SW])' : t.price >= bid
    BY <1>1 DEF CheckHasCause, Pooled
  <2>2. PICK n \in Nat : n = nonce[SW]
    BY <1>0 DEF Shape, Modes
  <2>3. \/ n < head
        \/ countsPool /\ \E t \in Pooled(n) : t.price >= bid
    BY <2>1, <2>2 DEF TestInv, CheckHasCause
  <2>4. n < head' \/ Pooled(n)' = Pooled(n)
    BY <1>1
  <2>5. n < head => n < head'
    BY <1>1
  <2>6. Pooled(nonce[SW])' = Pooled(n)'
    BY <1>1, <2>2 DEF Pooled
  <2>7. QED
    BY <2>2, <2>3, <2>4, <2>5, <2>6
<1>6. ConfirmedHasCause'
  <2>1. SUFFICES ASSUME NEW c \in confirmed
                 PROVE  \/ c.nonce < head'
                        \/ countsPool /\ (failed \/ \E t \in Pooled(c.nonce)' : t.price >= c.bid)
    BY <1>1 DEF ConfirmedHasCause
  <2>2. c.nonce \in Nat
    BY <1>0 DEF Shape
  <2>3. \/ c.nonce < head
        \/ countsPool /\ (failed \/ \E t \in Pooled(c.nonce) : t.price >= c.bid)
    BY <1>0 DEF ConfirmedHasCause
  <2>4. c.nonce < head' \/ (Pooled(c.nonce)' = Pooled(c.nonce) /\ ~(c.nonce < head))
    BY <1>1, <2>2
  <2>5. QED
    BY <2>3, <2>4
<1>7. QED
  BY <1>2, <1>3, <1>4, <1>5, <1>6 DEF TestInv

-----------------------------------------------------------------------------
(* The tests start with an empty node and no nonce.                          *)
LEMMA InitTestInv == Init => TestInv
<1> SUFFICES ASSUME Init
             PROVE  TestInv
  OBVIOUS
<1>1. /\ <<>> \in Seq(AnyTx) /\ <<>> \in Seq(Nat) /\ Len(<<>>) = 0
      /\ IsFiniteSet({})
  BY EmptySeq, FS_EmptySet
<1>2. Shape
  BY <1>1 DEF Init, Shape, Modes
<1>3. NoncesInOrder
  BY <1>1 DEF Init, NoncesInOrder, head, Waiting, SW, Modes
<1>4. TimeoutsSurvived /\ CheckHasCause /\ ConfirmedHasCause
  BY DEF Init, TimeoutsSurvived, CheckHasCause, ConfirmedHasCause, SW, Modes
<1>5. QED
  BY <1>2, <1>3, <1>4 DEF TestInv

(* Every step of the tests and of the node keeps the invariant.              *)
LEMMA NextTestInv ==
  ASSUME TestInv, [Next]_vars
  PROVE  TestInv'
<1>1. SW \in Modes /\ "chiado" \in Modes
  BY DEF Modes
<1>2. CASE SendWaitStep
  BY <1>1, <1>2, QuietSteps, ReadNonceKeeps, SendTestKeeps, FatalKeeps,
     CancelKeeps, CheckKeeps, CheckRefutedKeeps DEF SendWaitStep
<1>3. CASE TickStep
  BY <1>1, <1>3, QuietSteps, ReadNonceKeeps, SendTickKeeps, FatalKeeps DEF TickStep
<1>4. CASE RequestFails
  BY <1>4, QuietSteps, FatalKeeps, CancelKeeps DEF RequestFails
<1>5. CASE TestOver \/ WaitGroup
  BY <1>5, QuietSteps
<1>6. CASE Mine
  BY <1>6, MineKeeps
<1>7. CASE UNCHANGED vars
  BY <1>7 DEF TestInv, Shape, NoncesInOrder, TimeoutsSurvived, CheckHasCause,
              ConfirmedHasCause, Alone, head, Pooled, vars, nodeVars, testVars,
              waitVars
<1>8. QED
  BY <1>2, <1>3, <1>4, <1>5, <1>6, <1>7 DEF Next, TestsNext

(* A replacement by FixNonce comes when the tests are over; the cause of a   *)
(* confirmation survives it.                                                 *)
LEMMA FixSendKeeps ==
  ASSUME TestInv, RepairInv, FixSend
  PROVE  TestInv'
<1> USE DEF waitVars
<1>0. Shape /\ ConfirmedHasCause /\ process # "running"
  BY DEF TestInv, RepairInv, FixSend
<1>1. /\ UNCHANGED <<process, pc, nonce, used, confirmed, bid>>
      /\ \E t \in AnyTx : Sent(t) \/ Refused(t) \/ SendFails(t)
  <2>1. PICK suggested \in Prices :
           \E t : /\ t = [nonce |-> roundHead + i, kind |-> "fix", price |-> FixPrice(suggested)]
                  /\ Sent(t) \/ Refused(t) \/ SendFails(t)
                  /\ UNCHANGED <<process, pc, nonce, used, confirmed, bid>>
    BY DEF FixSend
  <2>2. roundHead + i \in Nat /\ FixPrice(suggested) \in Nat
    BY DEF RepairInv, FixPrice
  <2>3. QED
    BY <2>1, <2>2 DEF AnyTx
<1>2. PICK t \in AnyTx : Sent(t) \/ Refused(t) \/ SendFails(t)
  BY <1>1
<1>3. /\ ConfirmedHasCause' /\ UNCHANGED <<countsPool, mined>>
      /\ pool' \subseteq AnyTx /\ IsFiniteSet(pool')
      /\ failed' \in BOOLEAN /\ (failed => failed')
  BY <1>0, <1>1, <1>2, SendKeepsCauses
<1>4. Shape'
  BY <1>0, <1>1, <1>3 DEF Shape
<1>5. NoncesInOrder' /\ TimeoutsSurvived' /\ CheckHasCause'
  BY <1>0, <1>1, <1>3
     DEF TestInv, NoncesInOrder, TimeoutsSurvived, CheckHasCause, Alone
<1>6. QED
  BY <1>3, <1>4, <1>5 DEF TestInv

(* The nonces of the pool when a transaction replaces one of them.           *)
LEMMA NoncesReplaced ==
  ASSUME NEW t, t.nonce \in Nonces(pool), pool' = With(t)
  PROVE  Nonces(pool') = Nonces(pool)
<1>1. pool' \subseteq pool \cup {t} /\ t \in pool'
  BY DEF With
<1>2. \A u \in pool : u \in pool' \/ u.nonce = t.nonce
  BY DEF With, Pooled
<1>3. QED
  BY <1>1, <1>2 DEF Nonces

(* Every step of FixNonce, of the node and of the tests keeps its invariant. *)
LEMMA NextRepairInv ==
  ASSUME TestInv, RepairInv, [RepairNext]_allVars
  PROVE  RepairInv'
<1> USE DEF vars, nodeVars, testVars, waitVars, fixVars, allVars, Rounds
<1>0. Shape /\ head \in Nat /\ PendingNonceAt \in Nat
  BY PendingIsFree DEF TestInv
<1>1. CASE FixHead
  BY <1>0, <1>1 DEF FixHead, RepairInv, head
<1>2. CASE FixPending
  <2>1. /\ fixPc = "pending" /\ fixPc' = "round" /\ pendingNonce' = PendingNonceAt
        /\ UNCHANGED <<headNonce, i, roundHead, before, overtaken, mined, pool, process>>
    BY <1>2 DEF FixPending
  <2>2. ~overtaken => head = headNonce /\ Nonces(pool) = Nonces(before)
    BY <2>1 DEF RepairInv
  <2>3. ASSUME ~overtaken, NEW n \in headNonce..(PendingNonceAt - 1)
        PROVE  n \in Nonces(before)
    <3>1. Pooled(n) # {}
      BY <1>0, <2>2, <2>3, PendingIsFree DEF Shape
    <3>2. QED
      BY <2>2, <2>3, <3>1 DEF Pooled, Nonces
  <2>4. QED
    BY <1>0, <2>1, <2>2, <2>3 DEF RepairInv, head
<1>3. CASE FixRound
  BY <1>0, <1>3 DEF FixRound, RepairInv, head
<1>4. CASE FixSend
  <2>1. PICK t : /\ t.nonce = roundHead + i
                 /\ Sent(t) \/ Refused(t) \/ SendFails(t)
    BY <1>4 DEF FixSend
  <2>2. /\ fixPc = "send" /\ fixPc' = "round" /\ i' = i + 1
        /\ UNCHANGED <<headNonce, pendingNonce, roundHead, before, overtaken, mined, process>>
        /\ pool' = pool \/ pool' = With(t)
    BY <1>4, <2>1 DEF FixSend, Sent, Refused, SendFails
  <2>3. ASSUME ~overtaken
        PROVE  head' = headNonce' /\ Nonces(pool') = Nonces(before')
    <3>1. /\ head = headNonce /\ Nonces(pool) = Nonces(before)
          /\ roundHead = headNonce /\ i < pendingNonce - headNonce
          /\ \A n \in headNonce..(pendingNonce - 1) : n \in Nonces(before)
          /\ i \in Nat /\ headNonce \in Nat /\ pendingNonce \in Nat
      BY <2>2, <2>3 DEF RepairInv
    <3>2. t.nonce \in headNonce..(pendingNonce - 1)
      BY <2>1, <3>1
    <3>3. Nonces(pool') = Nonces(pool)
      BY <2>2, <3>1, <3>2, NoncesReplaced
    <3>4. QED
      BY <2>2, <3>1, <3>3 DEF head
  <2>4. QED
    BY <2>2, <2>3 DEF RepairInv
<1>5. CASE FixWait \/ FixMined \/ FixDone \/ FixFails
  BY <1>5 DEF FixWait, FixMined, FixDone, FixFails, RepairInv, head
<1>6. CASE FixMine
  BY <1>6 DEF FixMine, Mine, RepairInv
<1>7. CASE TestsNext /\ UNCHANGED fixVars
  <2>1. process = "running"
    BY <1>7 DEF TestsNext, SendWaitStep, TickStep, TestOver, WaitGroup, RequestFails,
            StartSendWait, ReadNonce, SendTest, SendRefused, ReceiptFound,
            ReceiptTimeout, Cancel, CancelRefused, CancelNotSent, Check,
            CheckRefuted, StartChiado, SendTick, SendLegacyTxFails, WaitFails,
            CancelFails, CheckFails, At
  <2>2. QED
    BY <1>7, <2>1 DEF RepairInv
<1>8. CASE UNCHANGED allVars
  BY <1>8 DEF RepairInv, head
<1>9. QED
  BY <1>1, <1>2, <1>3, <1>4, <1>5, <1>6, <1>7, <1>8 DEF RepairNext, FixStep

(* A pool in which a transaction has taken the place of what had its nonce.  *)
LEMMA NoncesAfter ==
  ASSUME NEW t, pool' = pool \/ pool' = With(t)
  PROVE  /\ Nonces(pool) \subseteq Nonces(pool')
         /\ \A u \in pool' : u = t \/ u \in pool
<1>1. \A u \in pool' : u = t \/ u \in pool
  BY DEF With
<1>2. \A u \in pool : u \in pool' \/ (t \in pool' /\ u.nonce = t.nonce)
  BY DEF With, Pooled
<1>3. QED
  BY <1>1, <1>2 DEF Nonces

(* Neither does a block disturb what FixNonce keeps of the pool: it takes    *)
(* the head nonce out of it and leaves that below the head.                  *)
LEMMA NextOvertakenInv ==
  ASSUME TestInv, RepairInv, OvertakenInv, [RepairNext]_allVars
  PROVE  OvertakenInv'
<1> USE DEF vars, nodeVars, testVars, waitVars, fixVars, allVars, Rounds
<1>0. /\ Shape /\ head \in Nat
      /\ headNonce \in Nat /\ pendingNonce \in Nat /\ i \in Nat /\ roundHead \in Nat
  BY PendingIsFree DEF TestInv, RepairInv
<1>1. CASE FixHead
  <2>1. fixPc' = "pending" /\ headNonce' = head' /\ before' = pool' /\ head' = head
    BY <1>1 DEF FixHead, head
  <2>2. NoneLost' /\ (Nonces(pool) \subseteq Nonces(before))'
    BY <2>1 DEF NoneLost, Nonces
  <2>3. QED
    BY <1>0, <2>1, <2>2 DEF OvertakenInv
<1>2. CASE FixPending
  <2>1. /\ fixPc = "pending" /\ fixPc' = "round"
        /\ UNCHANGED <<headNonce, before, mined, pool>> /\ head' = head
    BY <1>2 DEF FixPending, head
  <2>2. headNonce <= head /\ NoneLost /\ Nonces(pool) \subseteq Nonces(before)
    BY <2>1 DEF OvertakenInv
  <2>3. NoneLost' /\ NoneBeyond'
    BY <2>1, <2>2 DEF NoneLost, NoneBeyond, Nonces
  <2>4. QED
    BY <1>0, <2>1, <2>2, <2>3 DEF OvertakenInv
<1>3. CASE FixRound
  <2>1. /\ fixPc = "round" /\ fixPc' = "send" /\ roundHead' = head /\ i < Rounds
        /\ UNCHANGED <<headNonce, pendingNonce, i, before, mined, pool>> /\ head' = head
    BY <1>3 DEF FixRound, head
  <2>2. headNonce <= head /\ NoneLost /\ NoneBeyond
    BY <2>1 DEF OvertakenInv
  <2>3. NoneLost' /\ NoneBeyond'
    BY <2>1, <2>2 DEF NoneLost, NoneBeyond, Nonces
  <2>4. QED
    BY <1>0, <2>1, <2>2, <2>3 DEF OvertakenInv
<1>4. CASE FixSend
  <2>1. PICK t : /\ t.nonce = roundHead + i
                 /\ Sent(t) \/ Refused(t) \/ SendFails(t)
    BY <1>4 DEF FixSend
  <2>2. /\ fixPc = "send" /\ fixPc' = "round"
        /\ UNCHANGED <<headNonce, pendingNonce, before, mined>> /\ head' = head
        /\ pool' = pool \/ pool' = With(t)
    BY <1>4, <2>1 DEF FixSend, Sent, Refused, SendFails, head
  <2>3. /\ headNonce <= head /\ NoneLost /\ NoneBeyond
        /\ roundHead <= head /\ i < pendingNonce - headNonce
    BY <2>2 DEF OvertakenInv
  <2>4. /\ Nonces(pool) \subseteq Nonces(pool')
        /\ \A u \in pool' : u = t \/ u \in pool
    BY <2>2, NoncesAfter
  <2>5. NoneLost'
    BY <2>2, <2>3, <2>4 DEF NoneLost, Nonces
  <2>6. t.nonce < pendingNonce + (head - headNonce)
    BY <1>0, <2>1, <2>3
  <2>7. NoneBeyond'
    BY <2>2, <2>3, <2>4, <2>6 DEF NoneBeyond, Nonces
  <2>8. QED
    BY <1>0, <2>2, <2>3, <2>5, <2>7 DEF OvertakenInv
<1>5. CASE FixWait \/ FixMined \/ FixDone \/ FixFails
  BY <1>5 DEF FixWait, FixMined, FixDone, FixFails, OvertakenInv
<1>6. CASE FixMine
  <2>1. PICK t \in Pooled(head) : mined' = Append(mined, t)
    BY <1>6 DEF FixMine, Mine
  <2>2. t \in AnyTx /\ mined \in Seq(AnyTx)
    BY <1>0 DEF Shape, Pooled
  <2>3. head' = head + 1
    BY <2>1, <2>2, AppendProperties DEF head
  <2>4. /\ pool' = pool \ Pooled(head)
        /\ UNCHANGED <<fixPc, headNonce, pendingNonce, i, roundHead, before>>
    BY <1>6 DEF FixMine, Mine
  <2>5. /\ Nonces(pool) \subseteq Nonces(pool') \cup {head}
        /\ Nonces(pool') \subseteq Nonces(pool) /\ pool' \subseteq pool
    BY <2>4 DEF Nonces, Pooled
  <2>6. 0..(head - 1) \cup {head} \subseteq 0..(head' - 1)
    BY <1>0, <2>3
  <2>7. NoneLost => NoneLost'
    BY <2>4, <2>5, <2>6 DEF NoneLost, Nonces
  <2>8. NoneBeyond => NoneBeyond'
    <3>1. SUFFICES ASSUME NoneBeyond, NEW u \in pool', u.nonce \notin Nonces(before)
                   PROVE  u.nonce < pendingNonce + ((head + 1) - headNonce)
      BY <2>3, <2>4 DEF NoneBeyond, Nonces
    <3>2. u.nonce \in Nat /\ u.nonce < pendingNonce + (head - headNonce)
      BY <1>0, <2>5, <3>1 DEF NoneBeyond, Shape, AnyTx
    <3>3. QED
      BY <1>0, <3>2
  <2>9. Nonces(pool) \subseteq Nonces(before) => (Nonces(pool) \subseteq Nonces(before))'
    BY <2>4, <2>5 DEF Nonces
  <2>10. /\ headNonce <= head => headNonce' <= head'
         /\ roundHead <= head => roundHead' <= head'
    BY <1>0, <2>3, <2>4
  <2>11. Rounds' = Rounds /\ i' = i /\ fixPc' = fixPc
    BY <2>4
  <2> HIDE DEF Rounds
  <2>12. QED
    BY <2>7, <2>8, <2>9, <2>10, <2>11 DEF OvertakenInv
<1>7. CASE TestsNext /\ UNCHANGED fixVars
  <2>1. process = "running"
    BY <1>7 DEF TestsNext, SendWaitStep, TickStep, TestOver, WaitGroup, RequestFails,
            StartSendWait, ReadNonce, SendTest, SendRefused, ReceiptFound,
            ReceiptTimeout, Cancel, CancelRefused, CancelNotSent, Check,
            CheckRefuted, StartChiado, SendTick, SendLegacyTxFails, WaitFails,
            CancelFails, CheckFails, At
  <2>2. QED
    BY <1>7, <2>1 DEF RepairInv, OvertakenInv
<1>8. CASE UNCHANGED allVars
  BY <1>8 DEF OvertakenInv, NoneLost, NoneBeyond, Nonces, head
<1>9. QED
  BY <1>1, <1>2, <1>3, <1>4, <1>5, <1>6, <1>7, <1>8 DEF RepairNext, FixStep

(* Both programs, one after the other.                                       *)
LEMMA RepairStep ==
  ASSUME TestInv, RepairInv, [RepairNext]_allVars
  PROVE  TestInv' /\ RepairInv'
<1>1. RepairInv'
  BY NextRepairInv
<1>2. CASE FixMine
  BY <1>1, <1>2, NextTestInv DEF FixMine, Next
<1>3. CASE FixSend
  BY <1>1, <1>3, FixSendKeeps
<1>4. CASE FixHead \/ FixPending \/ FixRound \/ FixWait \/ FixMined \/ FixDone \/ FixFails
  <2>1. UNCHANGED vars
    BY <1>4 DEF FixHead, FixPending, FixRound, FixWait, FixMined, FixDone, FixFails
  <2>2. QED
    BY <1>1, <2>1, NextTestInv
<1>5. CASE TestsNext \/ UNCHANGED allVars
  <2>1. Next \/ UNCHANGED vars
    BY <1>5 DEF Next, allVars
  <2>2. QED
    BY <1>1, <2>1, NextTestInv
<1>6. QED
  BY <1>1, <1>2, <1>3, <1>4, <1>5 DEF RepairNext, FixStep

(* FixNonce has not begun.                                                   *)
LEMMA InitRepairInv == RepairInit => TestInv /\ RepairInv
BY InitTestInv DEF RepairInit, RepairInv, Init

(* The invariants hold in every state of the two programs.                   *)
LEMMA RepairInductive == RepairSpec => [](TestInv /\ RepairInv /\ OvertakenInv)
<1>1. RepairInit => TestInv /\ RepairInv /\ OvertakenInv
  BY InitRepairInv DEF RepairInit, OvertakenInv
<1>2. TestInv /\ RepairInv /\ OvertakenInv /\ [RepairNext]_allVars
        => (TestInv /\ RepairInv /\ OvertakenInv)'
  BY RepairStep, NextOvertakenInv
<1>3. QED
  BY <1>1, <1>2, PTL DEF RepairSpec

(* README.md:42, "then sends the next one at nonce n + 1": at a node that    *)
(* counts the pool, and with nobody else on the key, each transaction of     *)
(* send-wait has the nonce after the one before, however its attempts went.  *)
THEOREM NoncesFollow == RepairSpec => []OneAfterAnother
<1>1. TestInv => OneAfterAnother
  <2> SUFFICES ASSUME TestInv, countsPool, Alone,
                      NEW k \in DOMAIN used, k > 1
               PROVE  used[k] = used[k - 1] + 1
    BY DEF OneAfterAnother
  <2>1. Len(used) \in Nat /\ DOMAIN used = 1..Len(used)
    BY LenProperties DEF TestInv, Shape
  <2>2. k \in 1..Len(used) /\ k - 1 \in 1..Len(used)
    BY <2>1
  <2>3. used[k] = k - 1 /\ used[k - 1] = (k - 1) - 1
    BY <2>2 DEF TestInv, NoncesInOrder
  <2>4. QED
    BY <2>2, <2>3
<1>2. QED
  BY <1>1, RepairInductive, PTL

(* There, send-wait reaches log.Fatalf only after a request has failed: that *)
(* a transaction does not confirm does not end the test.                     *)
THEOREM TimeoutsAreSurvived == RepairSpec => []TimeoutsSurvived
<1>1. TestInv => TimeoutsSurvived
  BY DEF TestInv
<1>2. QED
  BY <1>1, RepairInductive, PTL

(* "Transaction confirmed in the meantime" (sendwaittx.go:50) is said of a   *)
(* nonce that is used, or that something pends under which the cancellation  *)
(* did not outbid, or after a failed request.                                *)
THEOREM ConfirmationsHaveCause == RepairSpec => []ConfirmedHasCause
<1>1. TestInv => ConfirmedHasCause
  BY DEF TestInv
<1>2. QED
  BY <1>1, RepairInductive, PTL

(* FixNonce replaces what pends: while it sends, each nonce that was pending *)
(* pends on or is mined, and it adds none further beyond the pending nonce   *)
(* than blocks were mined since it began; if none was, it neither adds a     *)
(* nonce to the pool nor removes one.                                        *)
THEOREM RepairReplacesOnly == RepairSpec => []RepairKeepsNonces
<1>1. RepairInv /\ OvertakenInv => RepairKeepsNonces
  BY DEF RepairInv, OvertakenInv, RepairKeepsNonces
<1>2. QED
  BY <1>1, RepairInductive, PTL

-----------------------------------------------------------------------------
(* The types with their bounds.  A nonce that a test works with was counted  *)
(* when it was asked for, and an attempt has one outcome at most.            *)
Open == IF pc[SW] \in {"send", "wait", "cancel", "check"} THEN 1 ELSE 0
TestTypes ==
  /\ loaded \in BOOLEAN /\ process \in {"running", "done", "fatal", "panic"}
  /\ pc \in [Modes -> {"off", "start", "idle", "send", "wait", "cancel", "check", "done"}]
  /\ nonce \in [Modes -> 0..MaxSends] /\ own \in Tx \cup {NoTx} /\ bid \in Prices \cup {0}
  /\ successCount \in Nat /\ failCount \in Nat
  /\ sends \in 0..MaxSends /\ failed \in BOOLEAN
  /\ used \in Seq(0..MaxSends)
  /\ confirmed \subseteq [nonce : 0..MaxSends, bid : Prices]
  /\ \A m \in Modes : pc[m] \in {"send", "wait", "cancel"} => nonce[m] < sends
  /\ pc[SW] = "check" => bid # 0
  /\ successCount + failCount + Open <= sends

(* The nonces taken are those mined and those pending.  The tests take those *)
(* that they asked for; FixNonce one more at most with each transaction, so  *)
(* that the head that it counts from stays within what was sent.             *)
Taken == 0..(head - 1) \cup Nonces(pool)
NodeTypes ==
  /\ countsPool \in BOOLEAN /\ mined \in Seq(Tx) /\ pool \subseteq Tx
  /\ IsFiniteSet(Taken) /\ Cardinality(Taken) <= sends + i
  /\ i <= MaxSends /\ roundHead <= sends + i /\ pendingNonce <= sends
  /\ fixPc \in {"idle", "pending"} => i = 0 /\ Taken \subseteq 0..(sends - 1)
  /\ fixPc = "send" => i < pendingNonce

(* The steps of the tests that send nothing keep the types; so does one that *)
(* asks for a nonce while the pending one is at most the number of questions.*)
LEMMA QuietTypes ==
  ASSUME TestTypes,
         \/ StartChiado \/ StartSendWait \/ TestOver \/ WaitGroup
         \/ ReceiptFound \/ ReceiptTimeout \/ WaitFails \/ CheckFails \/ CheckRefuted
         \/ Check
         \/ \E m \in Modes : SendRefused(m)
  PROVE  TestTypes' /\ UNCHANGED <<nodeVars, sends>>
<1> USE DEF nodeVars, waitVars, At, Goto, Stop
<1>1. CASE StartChiado \/ StartSendWait \/ TestOver \/ WaitGroup
  BY <1>1 DEF StartChiado, StartSendWait, TestOver, WaitGroup, TestTypes, Open, Modes, SW
<1>2. CASE ReceiptFound
  BY <1>2 DEF ReceiptFound, EndAttempt, TestTypes, Open, Modes, SW
<1>3. CASE ReceiptTimeout \/ WaitFails \/ CheckFails \/ CheckRefuted
  BY <1>3 DEF ReceiptTimeout, WaitFails, CheckFails, CheckRefuted, TestTypes, Open,
              Modes, SW
<1>4. CASE Check
  <2>1. [nonce |-> nonce[SW], bid |-> bid] \in [nonce : 0..MaxSends, bid : Prices]
    BY <1>4 DEF Check, TestTypes, Modes, SW
  <2>2. QED
    BY <1>4, <2>1 DEF Check, EndAttempt, TestTypes, Open, Modes, SW
<1>5. CASE \E m \in Modes : SendRefused(m)
  BY <1>5 DEF SendRefused, Refused, TestTypes, Open
<1>6. QED
  BY <1>1, <1>2, <1>3, <1>4, <1>5

(* A test asks for a nonce: one question more.                               *)
LEMMA ReadNonceTypes ==
  ASSUME TestTypes, PendingNonceAt \in Nat, PendingNonceAt <= sends,
         NEW m \in Modes, ReadNonce(m)
  PROVE  TestTypes' /\ UNCHANGED nodeVars /\ sends' = sends + 1
<1>1. /\ sends' = sends + 1 /\ sends < MaxSends
      /\ nonce' = [nonce EXCEPT ![m] = PendingNonceAt]
      /\ pc' = [pc EXCEPT ![m] = "send"] /\ pc[m] = "idle"
      /\ UNCHANGED <<process, loaded, failed, waitVars, nodeVars>>
  BY DEF ReadNonce, Goto, At
<1>2. sends' \in 0..MaxSends /\ PendingNonceAt \in 0..MaxSends /\ PendingNonceAt < sends'
  BY <1>1 DEF TestTypes
<1>3. \A k \in Modes : nonce'[k] < sends' \/ pc'[k] \notin {"send", "wait", "cancel"}
  BY <1>1, <1>2 DEF TestTypes
<1>4. successCount' + failCount' + Open' <= sends'
  BY <1>1, <1>2 DEF TestTypes, Open, waitVars
<1>5. pc'[SW] = "check" => bid' # 0
  BY <1>1 DEF TestTypes, waitVars
<1>6. nonce' \in [Modes -> 0..MaxSends]
      /\ pc' \in [Modes -> {"off", "start", "idle", "send", "wait", "cancel", "check", "done"}]
  BY <1>1, <1>2 DEF TestTypes
<1>7. QED
  BY <1>1, <1>2, <1>3, <1>4, <1>5, <1>6 DEF TestTypes, waitVars

(* The steps that send: the nonce is one that was counted.                   *)
LEMMA SendTypes ==
  ASSUME TestTypes,
         \/ SendTick \/ SendTest \/ Cancel \/ CancelRefused \/ CancelFails
         \/ \E m \in Modes : SendLegacyTxFails(m)
  PROVE  /\ TestTypes' /\ UNCHANGED <<countsPool, mined, sends>>
         /\ \/ pool' = pool
            \/ \E t \in Tx : t.nonce < sends /\ Accepts(t) /\ pool' = With(t)
<1> USE DEF nodeVars, waitVars
<1>1. ASSUME NEW price \in Prices, NEW m \in Modes, pc[m] \in {"send", "cancel"}
      PROVE  /\ TestTx(m, price) \in Tx /\ TestTx(m, price).nonce < sends
             /\ m = SW => CancelTxFor(price) \in Tx /\ CancelTxFor(price).nonce < sends
  <2>1. nonce[m] \in 0..(3 * MaxSends) /\ nonce[m] < sends
    BY <1>1 DEF TestTypes
  <2>2. QED
    BY <1>1, <2>1 DEF TestTx, CancelTxFor, Tx
<1>2. CASE SendTick
  <2>1. PICK price \in Prices : Sent(TestTx("chiado", price))
    BY <1>2 DEF SendTick
  <2>2. TestTypes' /\ UNCHANGED <<countsPool, mined, sends>>
    BY <1>2 DEF SendTick, Sent, At, Goto, TestTypes, Open, Modes, SW
  <2>3. QED
    BY <1>1, <1>2, <2>1, <2>2 DEF SendTick, Sent, At, Modes
<1>3. CASE SendTest
  <2>1. PICK price \in Prices : /\ Sent(TestTx(SW, price))
                                /\ own' = TestTx(SW, price) /\ used' = Append(used, nonce[SW])
    BY <1>3 DEF SendTest
  <2>2. TestTx(SW, price) \in Tx /\ TestTx(SW, price).nonce < sends
    BY <1>1, <1>3 DEF SendTest, At, Modes
  <2>3. own' \in Tx \cup {NoTx}
    BY <2>1, <2>2
  <2>4. used' \in Seq(0..MaxSends)
    BY <2>1, AppendProperties DEF TestTypes, Modes
  <2>5. /\ pc' = [pc EXCEPT ![SW] = "wait"] /\ pc[SW] = "send"
        /\ UNCHANGED <<process, loaded, nonce, sends, failed, bid, successCount, failCount, confirmed>>
    BY <1>3 DEF SendTest, Sent, At, Goto
  <2>6. TestTypes'
    BY <2>3, <2>4, <2>5 DEF TestTypes, Open, Modes, SW
  <2>7. QED
    BY <2>1, <2>2, <2>5, <2>6 DEF Sent
<1>4. CASE Cancel
  <2>1. PICK price \in Prices : Sent(CancelTxFor(price))
    BY <1>4 DEF Cancel
  <2>2. /\ pc[SW] = "cancel" /\ pc' = [pc EXCEPT ![SW] = "idle"]
        /\ own' = NoTx /\ bid' = 0 /\ failCount' = failCount + 1
        /\ UNCHANGED <<successCount, process, loaded, nonce, sends, failed, used, confirmed,
                       countsPool, mined>>
    BY <1>4 DEF Cancel, Sent, At, Goto, EndAttempt
  <2>3. TestTypes'
    BY <2>2 DEF TestTypes, Open, Modes, SW
  <2>4. QED
    BY <1>1, <2>1, <2>2, <2>3 DEF Sent, Modes
<1>5. CASE CancelRefused \/ CancelFails
  <2>1. PICK price \in Prices : /\ Refused(CancelTxFor(price)) \/ SendFails(CancelTxFor(price))
                                /\ CancelNotSent(price)
    BY <1>5 DEF CancelRefused, CancelFails
  <2>2. failed' \in BOOLEAN /\ UNCHANGED <<countsPool, mined>>
    BY <2>1 DEF Refused, SendFails, TestTypes
  <2>3. /\ pc[SW] = "cancel" /\ pc' = [pc EXCEPT ![SW] = "check"] /\ bid' = price
        /\ UNCHANGED <<process, loaded, nonce, sends, own, successCount, failCount, used,
                       confirmed>>
    BY <2>1 DEF CancelNotSent, At, Goto
  <2>4. TestTypes'
    BY <2>2, <2>3 DEF TestTypes, Open, Modes, SW
  <2>5. QED
    BY <1>1, <2>1, <2>2, <2>3, <2>4 DEF Refused, SendFails, Modes
<1>6. ASSUME NEW m \in Modes, SendLegacyTxFails(m)
      PROVE  /\ TestTypes' /\ UNCHANGED <<countsPool, mined, sends>>
             /\ \/ pool' = pool
                \/ \E t \in Tx : t.nonce < sends /\ Accepts(t) /\ pool' = With(t)
  <2>1. /\ process' = "fatal" /\ failed' = TRUE
        /\ UNCHANGED <<pc, loaded, nonce, sends, waitVars, countsPool, mined>>
    BY <1>6 DEF SendLegacyTxFails, SendFails, Stop
  <2>2. TestTypes'
    BY <2>1 DEF TestTypes, Open
  <2>3. CASE pool' = pool
    BY <2>1, <2>2, <2>3
  <2>4. CASE pc[m] = "send" /\ \E price \in Prices : SendFails(TestTx(m, price))
    BY <1>1, <2>1, <2>2, <2>4 DEF SendFails
  <2>5. QED
    BY <1>6, <2>3, <2>4 DEF SendLegacyTxFails, At
<1>7. QED
  BY <1>2, <1>3, <1>4, <1>5, <1>6

(* The head is below the number of nonces taken, and while the tests run the *)
(* pending nonce is at most the number of those they asked for.              *)
LEMMA TakenBounds ==
  ASSUME Shape, NodeTypes, sends \in Nat
  PROVE  /\ Cardinality(Taken) \in Nat /\ head <= Cardinality(Taken)
         /\ fixPc \in {"idle", "pending"} => PendingNonceAt <= sends
<1>1. head \in Nat /\ PendingNonceAt \in Nat
  BY PendingIsFree
<1>2. Cardinality(Taken) \in Nat
  BY FS_CardinalityType DEF NodeTypes
<1>3. head <= Cardinality(Taken)
  <2> DEFINE top == head - 1
             below == 0..top
  <2>1. top \in Int /\ top + 1 = head /\ 0 \in Int
    BY <1>1
  <2> HIDE DEF top
  <2>2. IsFiniteSet(below) /\ Cardinality(below) = IF 0 > top THEN 0 ELSE top - 0 + 1
    BY <2>1, FS_Interval
  <2>3. below \in SUBSET Taken
    BY DEF Taken, top
  <2> HIDE DEF below
  <2>4. Cardinality(below) <= Cardinality(Taken)
    BY <2>3, FS_Subset DEF NodeTypes
  <2>5. Cardinality(below) = head
    BY <1>1, <2>1, <2>2
  <2>6. QED
    BY <2>4, <2>5
<1>4. ASSUME fixPc \in {"idle", "pending"}
      PROVE  PendingNonceAt <= sends
  <2>1. Taken \subseteq 0..(sends - 1)
    BY <1>4 DEF NodeTypes
  <2>2. SUFFICES ASSUME PendingNonceAt > sends
                 PROVE  FALSE
    BY <1>1
  <2>3. PICK n \in Nat : n = PendingNonceAt - 1
    BY <1>1, <2>2
  <2>4. n >= sends
    BY <1>1, <2>2, <2>3
  <2>5. n \in Taken
    <3>1. CASE n < head
      BY <1>1, <3>1 DEF Taken
    <3>2. CASE n >= head
      <4>1. countsPool /\ n \in head..(PendingNonceAt - 1)
        BY <1>1, <2>3, <3>2, PendingIsFree DEF Shape
      <4>2. Pooled(n) # {}
        BY <4>1, PendingIsFree
      <4>3. QED
        BY <4>2 DEF Pooled, Taken, Nonces
    <3>3. QED
      BY <1>1, <3>1, <3>2
  <2>6. QED
    BY <2>1, <2>4, <2>5
<1>5. QED
  BY <1>2, <1>3, <1>4

(* A transaction takes one nonce more at most, a block none.                 *)
LEMMA SendTakes ==
  ASSUME NodeTypes, NEW t \in Tx, pool' = pool \/ pool' = With(t), UNCHANGED mined
  PROVE  /\ pool' \subseteq Tx /\ Taken' \subseteq Taken \cup {t.nonce}
         /\ IsFiniteSet(Taken') /\ Cardinality(Taken') <= Cardinality(Taken) + 1
         /\ Cardinality(Taken') \in Nat
<1>1. pool' \subseteq pool \cup {t} /\ head' = head
  BY DEF With, head
<1>2. Taken' \subseteq Taken \cup {t.nonce}
  BY <1>1 DEF Taken, Nonces
<1>3. /\ IsFiniteSet(Taken \cup {t.nonce}) /\ Cardinality(Taken) \in Nat
      /\ Cardinality(Taken \cup {t.nonce}) <= Cardinality(Taken) + 1
  <2> DEFINE T == Taken
  <2>1. IsFiniteSet(T)
    BY DEF NodeTypes
  <2> HIDE DEF T
  <2>2. /\ IsFiniteSet(T \cup {t.nonce}) /\ Cardinality(T) \in Nat
        /\ Cardinality(T \cup {t.nonce}) \in {Cardinality(T), Cardinality(T) + 1}
    BY <2>1, FS_AddElement, FS_CardinalityType
  <2>3. QED
    BY <2>2 DEF T
<1>4. /\ IsFiniteSet(Taken') /\ Cardinality(Taken') \in Nat
      /\ Cardinality(Taken') <= Cardinality(Taken \cup {t.nonce})
      /\ Cardinality(Taken \cup {t.nonce}) \in Nat
  BY <1>2, <1>3, FS_Subset, FS_CardinalityType
<1>5. QED
  BY <1>1, <1>2, <1>3, <1>4 DEF NodeTypes

(* What is mined was pending, so that no further nonce is taken.             *)
LEMMA MineTakes ==
  ASSUME Shape, NodeTypes, Mine, sends \in Nat, i \in Nat,
         UNCHANGED <<fixPc, i, roundHead, pendingNonce>>
  PROVE  NodeTypes' /\ UNCHANGED <<loaded, process, pc, nonce, sends, failed, waitVars>>
<1>1. PICK t \in Pooled(head) : mined' = Append(mined, t)
  BY DEF Mine
<1>2. t \in Tx /\ t.nonce = head /\ t \in pool
  BY DEF Pooled, NodeTypes
<1>3. mined' \in Seq(Tx)
  BY <1>1, <1>2, AppendProperties DEF NodeTypes
<1>4. head' = head + 1 /\ head \in Nat /\ pool' \subseteq pool
  BY MineEffect
<1>5. Taken' \in SUBSET Taken
  <2>1. head \in Taken
    BY <1>2 DEF Taken, Nonces
  <2>2. 0..(head' - 1) = 0..(head - 1) \cup {head}
    BY <1>4
  <2>3. Nonces(pool') \subseteq Nonces(pool)
    BY <1>4 DEF Nonces
  <2>4. QED
    BY <2>1, <2>2, <2>3 DEF Taken
<1>6. /\ IsFiniteSet(Taken') /\ Cardinality(Taken') <= Cardinality(Taken)
      /\ Cardinality(Taken) \in Nat /\ Cardinality(Taken') \in Nat
  BY <1>5, FS_Subset, FS_CardinalityType DEF NodeTypes
<1>7. UNCHANGED <<countsPool, loaded, process, pc, nonce, sends, failed, waitVars,
                  fixPc, i, roundHead, pendingNonce>>
  BY DEF Mine, testVars
<1>8. Cardinality(Taken') <= sends + i
  BY <1>6 DEF NodeTypes
<1>9. pool' \subseteq Tx
  BY <1>4 DEF NodeTypes
<1>10. QED
  BY <1>3, <1>5, <1>6, <1>7, <1>8, <1>9 DEF NodeTypes

(* The tests' part and FixNonce's.                                           *)
LEMMA TestsKeepTypes ==
  ASSUME TestInv, RepairInv, TestTypes, NodeTypes, TestsNext, UNCHANGED fixVars
  PROVE  TestTypes' /\ NodeTypes'
<1> USE DEF fixVars, nodeVars
<1>1. fixPc = "idle" /\ i = 0 /\ Taken \subseteq 0..(sends - 1)
  <2>1. process = "running"
    BY DEF TestsNext, SendWaitStep, TickStep, TestOver, WaitGroup, RequestFails,
           StartSendWait, ReadNonce, SendTest, SendRefused, ReceiptFound,
           ReceiptTimeout, Cancel, CancelRefused, CancelNotSent, Check,
           CheckRefuted, StartChiado, SendTick, SendLegacyTxFails, WaitFails,
           CancelFails, CheckFails, At
  <2>2. QED
    BY <2>1 DEF RepairInv, NodeTypes
<1>2. sends \in Nat /\ Shape
  BY DEF TestTypes, TestInv
<1>3. ASSUME TestTypes', UNCHANGED <<nodeVars, sends>>
      PROVE  TestTypes' /\ NodeTypes'
  BY <1>3 DEF NodeTypes, Taken, head
<1>4. ASSUME NEW m \in Modes, ReadNonce(m)
      PROVE  TestTypes' /\ NodeTypes'
  <2>1. PendingNonceAt \in Nat /\ PendingNonceAt <= sends
    BY <1>1, <1>2, PendingIsFree, TakenBounds
  <2>2. TestTypes' /\ UNCHANGED nodeVars /\ sends' = sends + 1
    BY <1>4, <2>1, ReadNonceTypes
  <2>3. Taken' = Taken /\ Cardinality(Taken) \in Nat
    BY <1>2, <2>2, TakenBounds DEF Taken, head
  <2>4. UNCHANGED <<countsPool, mined, pool, i, roundHead, pendingNonce, fixPc>>
    BY <2>2
  <2>5. Taken' \subseteq 0..(sends' - 1)
    BY <1>1, <1>2, <2>2, <2>3
  <2>6. /\ Cardinality(Taken') <= sends' + i' /\ roundHead' <= sends' + i'
        /\ pendingNonce' <= sends'
    BY <1>1, <1>2, <2>2, <2>3, <2>4 DEF NodeTypes, RepairInv
  <2>7. QED
    BY <2>2, <2>3, <2>4, <2>5, <2>6 DEF NodeTypes
<1>5. ASSUME /\ TestTypes' /\ UNCHANGED <<countsPool, mined, sends>>
             /\ \/ pool' = pool
                \/ \E t \in Tx : t.nonce < sends /\ Accepts(t) /\ pool' = With(t)
      PROVE  TestTypes' /\ NodeTypes'
  <2>1. CASE pool' = pool
    BY <1>3, <1>5, <2>1
  <2>2. CASE \E t \in Tx : t.nonce < sends /\ pool' = With(t)
    <3>1. PICK t \in Tx : t.nonce < sends /\ pool' = With(t)
      BY <2>2
    <3>2. pool' \subseteq Tx /\ Taken' \subseteq Taken \cup {t.nonce}
      BY <1>5, <3>1, SendTakes
    <3>3. t.nonce \in 0..(sends - 1)
      BY <1>2, <3>1 DEF Tx
    <3>4. Taken' \in SUBSET (0..(sends - 1))
      BY <1>1, <3>2, <3>3
    <3>5. IsFiniteSet(Taken') /\ Cardinality(Taken') <= sends
      <4> DEFINE top == sends - 1
                 all == 0..top
      <4>1. top \in Int /\ top + 1 = sends /\ 0 \in Int
        BY <1>2
      <4>2. Taken' \in SUBSET all
        BY <3>4
      <4> HIDE DEF top
      <4>3. IsFiniteSet(all) /\ Cardinality(all) = IF 0 > top THEN 0 ELSE top - 0 + 1
        BY <4>1, FS_Interval
      <4> HIDE DEF all
      <4>4. IsFiniteSet(Taken') /\ Cardinality(Taken') <= Cardinality(all)
        BY <4>2, <4>3, FS_Subset
      <4>5. Cardinality(all) = sends
        BY <1>2, <4>1, <4>3
      <4>6. QED
        BY <4>4, <4>5
    <3>6. QED
      BY <1>1, <1>2, <1>5, <3>2, <3>4, <3>5 DEF NodeTypes
  <2>3. QED
    BY <1>5, <2>1, <2>2
<1>6. CASE \/ StartChiado \/ StartSendWait \/ TestOver \/ WaitGroup
           \/ ReceiptFound \/ ReceiptTimeout \/ WaitFails \/ CheckFails \/ CheckRefuted
           \/ Check
           \/ \E m \in Modes : SendRefused(m)
  BY <1>3, <1>6, QuietTypes
<1>7. CASE \/ SendTick \/ SendTest \/ Cancel \/ CancelRefused \/ CancelFails
           \/ \E m \in Modes : SendLegacyTxFails(m)
  BY <1>5, <1>7, SendTypes
<1>8. SW \in Modes /\ "chiado" \in Modes
  BY DEF Modes
<1>9. QED
  BY <1>4, <1>6, <1>7, <1>8 DEF TestsNext, SendWaitStep, TickStep, RequestFails

(* The steps of FixNonce: one nonce more at most in each round.              *)
LEMMA FixKeepsTypes ==
  ASSUME TestInv, RepairInv, TestTypes, NodeTypes, FixStep \/ FixFails
  PROVE  TestTypes' /\ NodeTypes'
<1> USE DEF vars, nodeVars, testVars, waitVars
<1>0. /\ Shape /\ sends \in Nat /\ head \in Nat /\ head <= Cardinality(Taken)
      /\ Cardinality(Taken) \in Nat /\ i \in Nat /\ headNonce \in Nat /\ roundHead \in Nat
      /\ pendingNonce \in Nat /\ sends <= MaxSends /\ i <= MaxSends
  <2>1. /\ Shape /\ sends \in Nat /\ sends <= MaxSends /\ i <= MaxSends
        /\ i \in Nat /\ headNonce \in Nat /\ roundHead \in Nat /\ pendingNonce \in Nat
    BY DEF TestInv, TestTypes, RepairInv, NodeTypes
  <2>2. head \in Nat /\ head <= Cardinality(Taken) /\ Cardinality(Taken) \in Nat
    BY <2>1, PendingIsFree, TakenBounds
  <2>3. QED
    BY <2>1, <2>2
<1>1. CASE FixHead \/ FixWait \/ FixMined \/ FixDone \/ FixFails
  <2>1. TestTypes' /\ Taken' = Taken
    BY <1>1 DEF FixHead, FixWait, FixMined, FixDone, FixFails, TestTypes, Open, Taken, head
  <2>2. UNCHANGED <<countsPool, mined, pool, sends, i, roundHead, pendingNonce>>
    BY <1>1 DEF FixHead, FixWait, FixMined, FixDone, FixFails
  <2>3. fixPc' # "send" /\ (fixPc' \in {"idle", "pending"} => fixPc = "idle")
    BY <1>1 DEF FixHead, FixWait, FixMined, FixDone, FixFails
  <2>4. QED
    BY <2>1, <2>2, <2>3 DEF NodeTypes
<1>2. CASE FixPending
  <2>1. PendingNonceAt <= sends
    BY <1>0, <1>2, TakenBounds DEF FixPending
  <2>2. TestTypes' /\ Taken' = Taken
    BY <1>2 DEF FixPending, TestTypes, Open, Taken, head
  <2>3. QED
    BY <1>2, <2>1, <2>2 DEF FixPending, NodeTypes
<1>3. CASE FixRound
  <2>1. TestTypes' /\ Taken' = Taken
    BY <1>3 DEF FixRound, TestTypes, Open, Taken, head
  <2>2. head <= sends + i /\ i < pendingNonce
    BY <1>0, <1>3 DEF NodeTypes, FixRound, Rounds
  <2>3. QED
    BY <1>3, <2>1, <2>2 DEF FixRound, NodeTypes
<1>4. CASE FixSend
  <2>0. PICK suggested \in Prices :
           LET tx == [nonce |-> roundHead + i, kind |-> "fix", price |-> FixPrice(suggested)]
           IN Sent(tx) \/ Refused(tx) \/ SendFails(tx)
    BY <1>4 DEF FixSend
  <2>1. PICK t :
           /\ t = [nonce |-> roundHead + i, kind |-> "fix", price |-> FixPrice(suggested)]
           /\ Sent(t) \/ Refused(t) \/ SendFails(t)
    BY <2>0
  <2>2. i < pendingNonce /\ pendingNonce <= sends /\ roundHead <= sends + i
    BY <1>4 DEF FixSend, NodeTypes
  <2>3. roundHead + i \in 0..(3 * MaxSends)
    BY <1>0, <2>2
  <2>4. FixPrice(suggested) \in {2 * p : p \in Prices}
    BY DEF FixPrice
  <2>5. t \in Tx
    BY <2>1, <2>3, <2>4 DEF Tx
  <2>6. /\ pool' = pool \/ pool' = With(t)
        /\ UNCHANGED <<countsPool, mined>> /\ failed' \in BOOLEAN
    BY <2>1 DEF Sent, Refused, SendFails, TestTypes
  <2>7. /\ fixPc' = "round" /\ i' = i + 1
        /\ UNCHANGED <<loaded, process, pc, nonce, sends, waitVars, roundHead, pendingNonce>>
    BY <1>4 DEF FixSend
  <2>8. TestTypes'
    BY <2>6, <2>7 DEF TestTypes, Open
  <2>9. /\ pool' \subseteq Tx /\ IsFiniteSet(Taken') /\ Cardinality(Taken') \in Nat
        /\ Cardinality(Taken') <= Cardinality(Taken) + 1
    BY <2>5, <2>6, SendTakes
  <2>10. Cardinality(Taken') <= sends + i' /\ i' <= MaxSends /\ roundHead <= sends + i'
    BY <1>0, <2>2, <2>7, <2>9 DEF NodeTypes
  <2>11. QED
    BY <2>6, <2>7, <2>8, <2>9, <2>10 DEF NodeTypes
<1>5. QED
  BY <1>1, <1>2, <1>3, <1>4 DEF FixStep

(* The bounds of the types hold: in particular, whatever is mined while      *)
(* FixNonce counts its rounds, no transaction of the two programs has a      *)
(* nonce above three times the number of nonces that were asked for.         *)
THEOREM NoncesBounded == RepairSpec => []TypeOK
<1> DEFINE J == TestInv /\ RepairInv /\ TestTypes /\ NodeTypes
<1>1. RepairInit => J
  <2> SUFFICES ASSUME RepairInit
               PROVE  J
    OBVIOUS
  <2>1. TestInv /\ RepairInv
    BY InitRepairInv
  <2>2. /\ <<>> \in Seq(Tx) /\ <<>> \in Seq(0..MaxSends) /\ Len(<<>>) = 0
        /\ IsFiniteSet({}) /\ Cardinality({}) = 0
    BY EmptySeq, FS_EmptySet
  <2>3. TestTypes
    <3>1. pc \in [Modes -> {"off", "start"}] /\ Open = 0
      BY DEF RepairInit, Init, Open, Modes, SW
    <3>2. nonce \in [Modes -> 0..MaxSends] /\ sends = 0
      BY DEF RepairInit, Init
    <3>3. successCount + failCount + Open <= sends
      BY <3>1, <3>2 DEF RepairInit, Init
    <3>4. /\ \A m \in Modes : pc[m] \notin {"send", "wait", "cancel"}
          /\ pc[SW] # "check"
          /\ pc \in [Modes -> {"off", "start", "idle", "send", "wait", "cancel", "check", "done"}]
      BY <3>1 DEF Modes, SW
    <3>5. /\ loaded \in BOOLEAN /\ process = "running" /\ failed \in BOOLEAN /\ own = NoTx
          /\ bid = 0 /\ successCount = 0 /\ failCount = 0 /\ used = <<>> /\ confirmed = {}
      BY DEF RepairInit, Init
    <3>6. QED
      BY <2>2, <3>2, <3>3, <3>4, <3>5 DEF TestTypes
  <2>4. Taken = {}
    BY <2>2 DEF RepairInit, Init, Taken, head, Nonces
  <2>5. NodeTypes
    BY <2>2, <2>4 DEF RepairInit, Init, NodeTypes
  <2>6. QED
    BY <2>1, <2>3, <2>5
<1>2. J /\ [RepairNext]_allVars => J'
  <2> SUFFICES ASSUME J, [RepairNext]_allVars
               PROVE  J'
    OBVIOUS
  <2>1. TestInv' /\ RepairInv'
    BY RepairStep
  <2>2. CASE FixMine
    <3>1. Mine /\ UNCHANGED <<fixPc, headNonce, pendingNonce, i, txs, roundHead, before>>
      BY <2>2 DEF FixMine
    <3>2. Shape /\ sends \in Nat /\ i \in Nat
      BY DEF TestInv, TestTypes, RepairInv
    <3>3. NodeTypes' /\ UNCHANGED <<loaded, process, pc, nonce, sends, failed, waitVars>>
      BY <3>1, <3>2, MineTakes
    <3>4. TestTypes'
      BY <3>3 DEF TestTypes, Open, waitVars
    <3>5. QED
      BY <2>1, <3>3, <3>4
  <2>3. CASE FixStep \/ FixFails
    BY <2>1, <2>3, FixKeepsTypes
  <2>4. CASE TestsNext /\ UNCHANGED fixVars
    BY <2>1, <2>4, TestsKeepTypes
  <2>5. CASE UNCHANGED allVars
    BY <2>1, <2>5 DEF allVars, vars, fixVars, nodeVars, testVars, waitVars, TestTypes,
                      NodeTypes, Open, Taken, head
  <2>6. QED
    BY <2>2, <2>3, <2>4, <2>5 DEF RepairNext
<1>3. J => TypeOK
  <2> SUFFICES ASSUME J
               PROVE  TypeOK
    OBVIOUS
  <2>1. successCount \in 0..MaxSends /\ failCount \in 0..MaxSends
    <3>1. Open \in {0, 1}
      BY DEF Open
    <3>2. QED
      BY <3>1 DEF TestTypes
  <2>2. QED
    BY <2>1 DEF TestTypes, NodeTypes, TypeOK
<1>4. QED
  BY <1>1, <1>2, <1>3, PTL DEF RepairSpec
=============================================================================

-------------------------- MODULE BlockCacheProofs --------------------------
(***************************************************************************)
(* The cache of the statistics for every number of blocks and              *)
(* transactions: its keys stay an interval (Contiguous), every failure of a *)
(* blame file has a cause outside the collection (FailedHasCause), and a   *)
(* success once reported is never taken back (SuccessKept).                *)
(*                                                                         *)
(* The argument: a reader of the cache, collector or primer, starts at a   *)
(* cached block or at startBlock and leaves only cached blocks behind      *)
(* (Behind, PrimerInv).  What it stores is therefore the next key of the   *)
(* interval.  A blame file is made of an interval of cached blocks, and a  *)
(* later collection, which cannot fail on a cached block, passes all of    *)
(* them (BlameInv).                                                        *)
(***************************************************************************)
EXTENDS BlockCache, TLAPS

(* The inductive invariant holds before anything was cached.                *)
LEMMA InitCacheInv == Init => CacheInv
  BY MaxBlockAssumption, TriggerAssumption, SMT
  DEF Init, CacheInv, TypeOK, Report, NoReport, Block, Contiguous,
      CollectorInv, Collecting, PrimerInv, BlameInv, FailedHasCause

(* Every step of the model keeps the inductive invariant.                   *)
LEMMA NextCacheInv == CacheInv /\ [Next]_vars => CacheInv'
<1> SUFFICES ASSUME CacheInv, [Next]_vars PROVE CacheInv'
  OBVIOUS
<1> USE MaxBlockAssumption, TriggerAssumption
    DEF Block, CacheInv, TypeOK, chainVars, collVars, primeVars
<1>1. CASE NewHead
  <2>1. TypeOK'
    BY <1>1, SMT DEF NewHead
  <2>2. CollectorInv'
    BY <1>1, SMT DEF NewHead, CollectorInv, Collecting, Behind, Submitted
  <2>3. BlameInv'
    BY <1>1, SMT DEF NewHead, BlameInv, Report
  <2>4. Contiguous' /\ PrimerInv' /\ FailedHasCause'
    BY <1>1 DEF NewHead, Contiguous, PrimerInv, FailedHasCause
  <2> QED BY <2>1, <2>2, <2>3, <2>4
<1>2. CASE LookHit
  <2>1. TypeOK'
    BY <1>2, SMT DEF LookHit, Hit, AfterBlock
  <2>2. CollectorInv'
    BY <1>2, SMT DEF LookHit, Hit, AfterBlock, CollectorInv, Collecting, Behind
  <2>3. BlameInv'
    BY <1>2, SMT DEF LookHit, AfterBlock, BlameInv, CollectorInv, Collecting, Report
  <2>4. Contiguous' /\ PrimerInv' /\ FailedHasCause'
    BY <1>2 DEF LookHit, Contiguous, PrimerInv, FailedHasCause
  <2> QED BY <2>1, <2>2, <2>3, <2>4
<1>3. CASE LookMiss
  <2>1. TypeOK'
    BY <1>3, SMT DEF LookMiss
  <2>2. CollectorInv'
    BY <1>3, SMT DEF LookMiss, CollectorInv, Collecting, Behind
  <2>3. BlameInv'
    BY <1>3, SMT DEF LookMiss, BlameInv
  <2>4. Contiguous' /\ PrimerInv' /\ FailedHasCause'
    BY <1>3 DEF LookMiss, Contiguous, PrimerInv, FailedHasCause
  <2> QED BY <2>1, <2>2, <2>3, <2>4
<1>4. CASE FetchFails
  <2>1. TypeOK'
    BY <1>4, SMT DEF FetchFails
  <2>2. CollectorInv'
    BY <1>4, SMT DEF FetchFails, CollectorInv, Collecting, Behind
  <2>3. BlameInv'
    BY <1>4, SMT DEF FetchFails, BlameInv, CollectorInv, Collecting, Report
  <2>4. Contiguous' /\ PrimerInv' /\ FailedHasCause'
    BY <1>4 DEF FetchFails, Contiguous, PrimerInv, FailedHasCause
  <2> QED BY <2>1, <2>2, <2>3, <2>4
<1>5. CASE Store
  <2>1. TypeOK'
    BY <1>5, SMT DEF Store, Remember, AfterBlock, CollectorInv, Collecting
  <2>2. Contiguous'
    BY <1>5, SMT DEF Store, Remember, Contiguous, CollectorInv, Collecting, Behind
  <2>3. CollectorInv'
    BY <1>5, SMT DEF Store, Remember, AfterBlock, CollectorInv, Collecting, Behind
  <2>4. PrimerInv'
    BY <1>5, SMT DEF Store, Remember, CollectorInv, Collecting, PrimerInv
  <2>5. BlameInv'
    BY <1>5, SMT DEF Store, Remember, AfterBlock, CollectorInv, Collecting, BlameInv, Report
  <2>6. FailedHasCause'
    BY <1>5 DEF Store, FailedHasCause
  <2> QED BY <2>1, <2>2, <2>3, <2>4, <2>5, <2>6
<1>6. CASE FilterEvents
  <2>1. TypeOK'
    BY <1>6, SMT DEF FilterEvents, Submitted
  <2>2. CollectorInv'
    BY <1>6, SMT DEF FilterEvents, Submitted, CollectorInv, Collecting, Behind, Submitted
  <2>3. BlameInv'
    <3>1. ASSUME NEW t \in blame.succeeded PROVE t \in Submitted
      <4>1. t \in Trigger /\ outerAt[t] \in 0..MaxBlock
        BY DEF Report
      <4>2. end = lastEvent /\ startBlock \in Block
        BY <1>6 DEF FilterEvents, CollectorInv, Collecting
      <4> QED BY <4>1, <4>2, SMT DEF Submitted, BlameInv
    <3>2. pc' = "report" /\ submit' = Submitted /\ pc = "events"
      BY <1>6 DEF FilterEvents
    <3> QED BY <3>1, <3>2, <1>6, SMT DEF FilterEvents, BlameInv
  <2>4. Contiguous' /\ PrimerInv' /\ FailedHasCause'
    BY <1>6 DEF FilterEvents, Contiguous, PrimerInv, FailedHasCause
  <2> QED BY <2>1, <2>2, <2>3, <2>4
<1>7. CASE WriteBlame
  <2>1. TypeOK'
    <3>1. pos - 1 \in 0..MaxBlock
      BY <1>7, SMT DEF WriteBlame, CollectorInv, Collecting
    <3>2. Successful \subseteq Trigger /\ Failed \subseteq Trigger
      BY DEF Successful, Failed
    <3>3. blame' \in Report
      BY <1>7, <3>1, <3>2, SMT DEF WriteBlame, Report
    <3> QED BY <1>7, <3>3, SMT DEF WriteBlame, Return
  <2>2. CollectorInv'
    BY <1>7, SMT DEF WriteBlame, Return, CollectorInv, Collecting
  <2>3. BlameInv'
    BY <1>7, SMT
       DEF WriteBlame, Return, Successful, BlameInv, CollectorInv, Collecting, Behind,
           Submitted
  <2>4. FailedHasCause'
    <3> SUFFICES ASSUME NEW t \in blame'.failed
                 PROVE /\ t \notin blame'.succeeded
                       /\ outerAt[t] # 0
                       /\ innerAt[t] \notin startBlock..blame'.upto
      BY <1>7 DEF WriteBlame, FailedHasCause
    <3>1. /\ t \in submit /\ t \notin Successful
          /\ blame'.upto = pos - 1 /\ blame'.succeeded = Successful
      BY <1>7 DEF WriteBlame, Failed
    <3>2. found = startBlock..(pos - 1) /\ t \in Submitted
      BY <1>7, <3>1, SMT DEF WriteBlame, CollectorInv, Collecting
    <3> QED BY <3>1, <3>2, SMT DEF Successful, Submitted
  <2>5. Contiguous' /\ PrimerInv'
    BY <1>7 DEF WriteBlame, Contiguous, PrimerInv
  <2> QED BY <2>1, <2>2, <2>3, <2>4, <2>5
<1>8. CASE NoDelays
  <2>1. TypeOK'
    BY <1>8, SMT DEF NoDelays, Return
  <2>2. CollectorInv'
    BY <1>8, SMT DEF NoDelays, Return, CollectorInv, Collecting
  <2>3. BlameInv'
    BY <1>8, SMT DEF NoDelays, Return, BlameInv
  <2>4. Contiguous' /\ PrimerInv' /\ FailedHasCause'
    BY <1>8 DEF NoDelays, Contiguous, PrimerInv, FailedHasCause
  <2> QED BY <2>1, <2>2, <2>3, <2>4
<1>9. CASE CollectFails
  <2>1. TypeOK'
    BY <1>9, SMT DEF CollectFails, Return
  <2>2. CollectorInv'
    BY <1>9, SMT DEF CollectFails, Return, CollectorInv, Collecting
  <2>3. BlameInv'
    BY <1>9, SMT DEF CollectFails, Return, BlameInv
  <2>4. Contiguous' /\ PrimerInv' /\ FailedHasCause'
    BY <1>9 DEF CollectFails, Contiguous, PrimerInv, FailedHasCause
  <2> QED BY <2>1, <2>2, <2>3, <2>4
<1>10. CASE BlamePanics
  <2>1. TypeOK'
    BY <1>10, SMT DEF BlamePanics
  <2>2. CollectorInv'
    BY <1>10, SMT DEF BlamePanics, CollectorInv, Collecting
  <2>3. BlameInv'
    BY <1>10, SMT DEF BlamePanics, BlameInv
  <2>4. Contiguous' /\ PrimerInv' /\ FailedHasCause'
    BY <1>10 DEF BlamePanics, Contiguous, PrimerInv, FailedHasCause
  <2> QED BY <2>1, <2>2, <2>3, <2>4
<1>11. CASE Notify
  <2>1. TypeOK'
    BY <1>11, SMT DEF Notify
  <2>2. PrimerInv'
    BY <1>11, SMT DEF Notify, PrimeFrom, PrimerInv, Contiguous
  <2>3. Contiguous' /\ CollectorInv' /\ BlameInv' /\ FailedHasCause'
    BY <1>11
       DEF Notify, Contiguous, CollectorInv, Collecting, Behind, Submitted, BlameInv,
           FailedHasCause
  <2> QED BY <2>1, <2>2, <2>3
<1>12. CASE SubscriptionLost
  <2>1. TypeOK'
    <3>1. watching' \in BOOLEAN
      BY <1>12, Zenon DEF SubscriptionLost
    <3> QED BY <1>12, <3>1, Zenon DEF SubscriptionLost
  <2>2. Contiguous' /\ CollectorInv' /\ PrimerInv' /\ BlameInv' /\ FailedHasCause'
    BY <1>12
       DEF SubscriptionLost, Contiguous, CollectorInv, Collecting, Behind, Submitted,
           PrimerInv, BlameInv, FailedHasCause
  <2> QED BY <2>1, <2>2
<1>13. CASE PrimeHit
  <2>1. TypeOK'
    BY <1>13, SMT DEF PrimeHit, NextPrimed, DonePriming
  <2>2. PrimerInv'
    BY <1>13, SMT DEF PrimeHit, NextPrimed, DonePriming, PrimerInv
  <2>3. Contiguous' /\ CollectorInv' /\ BlameInv' /\ FailedHasCause'
    BY <1>13
       DEF PrimeHit, Contiguous, CollectorInv, Collecting, Behind, Submitted, BlameInv,
           FailedHasCause
  <2> QED BY <2>1, <2>2, <2>3
<1>14. CASE PrimeMiss
  <2>1. TypeOK'
    BY <1>14, SMT DEF PrimeMiss, DonePriming
  <2>2. PrimerInv'
    BY <1>14, SMT DEF PrimeMiss, DonePriming, PrimerInv
  <2>3. Contiguous' /\ CollectorInv' /\ BlameInv' /\ FailedHasCause'
    BY <1>14
       DEF PrimeMiss, Contiguous, CollectorInv, Collecting, Behind, Submitted, BlameInv,
           FailedHasCause
  <2> QED BY <2>1, <2>2, <2>3
<1>15. CASE PrimeStore
  <2>1. TypeOK'
    BY <1>15, SMT DEF PrimeStore, NextPrimed, DonePriming, PrimerInv
  <2>2. Contiguous'
    BY <1>15, SMT DEF PrimeStore, Contiguous, PrimerInv
  <2>3. CollectorInv'
    BY <1>15, SMT DEF PrimeStore, CollectorInv, Collecting, Behind, Submitted
  <2>4. PrimerInv'
    BY <1>15, SMT DEF PrimeStore, NextPrimed, DonePriming, PrimerInv
  <2>5. BlameInv'
    BY <1>15, SMT DEF PrimeStore, BlameInv
  <2>6. FailedHasCause'
    BY <1>15 DEF PrimeStore, FailedHasCause
  <2> QED BY <2>1, <2>2, <2>3, <2>4, <2>5, <2>6
<1>16. ASSUME NEW b \in Block, NEW due \in BOOLEAN, ReceiveEvent(b, due)
      PROVE  CacheInv'
  <2>1. TypeOK'
    <3>1. /\ startBlock' \in Block /\ startBlock' <= b /\ lastEvent' = b
          /\ pc = "idle" /\ startBlock # 0 => startBlock' = startBlock
      BY <1>16, SMT DEF ReceiveEvent, StartFrom, CollectorInv
    <3>2. CASE due
      <4>1. /\ pc' = "look" /\ pos' = startBlock' /\ end' = b /\ found' = {}
            /\ submit' = submit
        BY <1>16, <3>2, Zenon DEF ReceiveEvent
      <4> QED BY <1>16, <3>1, <4>1, SMT DEF ReceiveEvent
    <3>3. CASE ~due
      <4>1. UNCHANGED <<pc, pos, end, found, submit>>
        BY <1>16, <3>3, Zenon DEF ReceiveEvent
      <4> QED BY <1>16, <3>1, <4>1, SMT DEF ReceiveEvent
    <3> QED BY <3>2, <3>3
  <2>2. Contiguous'
    BY <1>16, SMT DEF ReceiveEvent, StartFrom, Contiguous
  <2>3. CollectorInv'
    <3>1. /\ startBlock' \in Block /\ startBlock' <= b /\ lastEvent' = b
          /\ pc = "idle" /\ startBlock # 0 => startBlock' = startBlock
      BY <1>16, SMT DEF ReceiveEvent, StartFrom, CollectorInv
    <3>2. CASE due
      <4>1. /\ pc' = "look" /\ pos' = startBlock' /\ end' = b /\ found' = {}
            /\ submit' = submit
        BY <1>16, <3>2, Zenon DEF ReceiveEvent
      <4> QED BY <1>16, <3>1, <4>1, SMT DEF ReceiveEvent, CollectorInv, Behind
    <3>3. CASE ~due
      <4>1. UNCHANGED <<pc, pos, end, found, submit>>
        BY <1>16, <3>3, Zenon DEF ReceiveEvent
      <4> QED BY <1>16, <3>1, <4>1, SMT DEF ReceiveEvent, CollectorInv, Collecting
    <3> QED BY <3>2, <3>3
  <2>4. PrimerInv'
    BY <1>16, SMT DEF ReceiveEvent, StartFrom, PrimerInv
  <2>5. BlameInv'
    BY <1>16, SMT DEF ReceiveEvent, StartFrom, BlameInv, NoReport, Report
  <2>6. FailedHasCause'
    BY <1>16, SMT DEF ReceiveEvent, StartFrom, FailedHasCause
  <2> QED BY <2>1, <2>2, <2>3, <2>4, <2>5, <2>6
<1>17. CASE UNCHANGED vars
  BY <1>17 DEF vars, Contiguous, CollectorInv, Collecting, Behind, Submitted,
               PrimerInv, BlameInv, FailedHasCause
<1> QED
  BY <1>1, <1>2, <1>3, <1>4, <1>5, <1>6, <1>7, <1>8, <1>9, <1>10, <1>11, <1>12, <1>13, <1>14, <1>15, <1>16, <1>17
  DEF Next, Collect, Prime

(* The inductive invariant.                                                 *)
THEOREM CacheInductive == Spec => []CacheInv
<1>1. Init => CacheInv
  BY InitCacheInv
<1>2. CacheInv /\ [Next]_vars => CacheInv'
  BY NextCacheInv
<1> QED BY <1>1, <1>2, PTL DEF Spec

(* MaxKey stands for all the cache holds, whatever the interleaving of      *)
(* CollectContinuousTestStats and PrimeBlockCache.                          *)
THEOREM CacheIsContiguous == Spec => []Contiguous
<1>1. CacheInv => Contiguous
  BY DEF CacheInv
<1> QED BY <1>1, CacheInductive, PTL

(* What a blame file calls a failure was not in the blocks it is made of.   *)
THEOREM FailuresHaveCause == Spec => []FailedHasCause
<1>1. CacheInv => FailedHasCause
  BY DEF CacheInv
<1> QED BY <1>1, CacheInductive, PTL

(* Only WriteBlame replaces the file, after a collection that has passed    *)
(* every block of the last one.                                             *)
LEMMA KeptByStep == CacheInv /\ [Next]_vars => blame.succeeded \subseteq blame'.succeeded
<1> SUFFICES ASSUME CacheInv, [Next]_vars
             PROVE  blame.succeeded \subseteq blame'.succeeded
  OBVIOUS
<1>1. CASE WriteBlame
  <2>1. blame.succeeded \subseteq submit /\ blame.upto < pos /\ found = startBlock..(pos - 1)
    BY <1>1, SMT DEF WriteBlame, CacheInv, BlameInv, CollectorInv, Collecting
  <2>2. ASSUME NEW t \in blame.succeeded PROVE innerAt[t] \in found
    BY <2>1, SMT DEF CacheInv, TypeOK, Report, BlameInv
  <2>3. blame'.succeeded = Successful
    BY <1>1 DEF WriteBlame
  <2> QED BY <2>1, <2>2, <2>3 DEF Successful
<1>2. CASE ~WriteBlame
  <2>1. blame' = blame
    BY <1>2 DEF Next, NewHead, ReceiveEvent, Collect, LookHit, LookMiss, FetchFails, Store,
                FilterEvents, NoDelays, CollectFails, BlamePanics, Notify, SubscriptionLost,
                Prime, PrimeHit, PrimeMiss, PrimeStore, vars, collVars
  <2> QED BY <2>1
<1> QED BY <1>1, <1>2

(* A success once reported is never taken back, although any request of any *)
(* later collection may fail.                                               *)
THEOREM SuccessIsKept == Spec => SuccessKept
<1>1. CacheInv /\ [Next]_vars => [blame.succeeded \subseteq blame'.succeeded]_vars
  BY KeptByStep
<1> QED BY <1>1, CacheInductive, PTL DEF Spec, SuccessKept
=============================================================================

----------------------------- MODULE BlockCache -----------------------------
(***************************************************************************)
(* The statistics of the continuous test.  After an event the main loop    *)
(* may run CollectContinuousTestStats over all blocks since its first      *)
(* event: collectSubmitIncomingTx finds the decrypted transactions, block  *)
(* by block, in a cache or at the node; collectSequencerEvents finds the   *)
(* submissions; those without a decrypted transaction are failures and     *)
(* their validators are written to a blame file.  PrimeBlockCache, a       *)
(* goroutine of its own, runs collectSubmitIncomingTx on the same cache    *)
(* whenever the node announces a head.                                     *)
(*                                                                         *)
(* A transaction is named by its trigger block, which is its identity      *)
(* prefix and the value of its inner part.  The chain is external.         *)
(***************************************************************************)
EXTENDS Integers, FiniteSets

CONSTANTS MaxBlock,   \* bound: blocks
          Trigger     \* the blocks a transaction was sent for

ASSUME MaxBlockAssumption == MaxBlock \in Nat
ASSUME TriggerAssumption == Trigger \subseteq 1..MaxBlock

Block == 1..MaxBlock

VARIABLES
  outerAt, innerAt,   \* the block of a submission and of its inner part; 0: none
  head,               \* newest block of the node
  cached,             \* keys of BlockCache
  startBlock, lastEvent,          \* main loop
  pc, pos, end, found, submit,    \* CollectContinuousTestStats
  blame,                          \* the blame file written last
  watching, notified,             \* WatchHeads
  priming, primePos, primeEnd     \* PrimeBlockCache

chainVars == <<outerAt, innerAt, head>>
collVars  == <<startBlock, lastEvent, pc, pos, end, found, submit, blame>>
primeVars == <<watching, notified, priming, primePos, primeEnd>>
vars      == <<chainVars, cached, collVars, primeVars>>

Report == [upto : 0..MaxBlock, succeeded : SUBSET Trigger, failed : SUBSET Trigger]
NoReport == [upto |-> 0, succeeded |-> {}, failed |-> {}]

TypeOK ==
  /\ outerAt \in [Trigger -> 0..MaxBlock] /\ innerAt \in [Trigger -> 0..MaxBlock]
  /\ head \in 0..MaxBlock /\ cached \subseteq Block
  /\ startBlock \in 0..MaxBlock /\ lastEvent \in 0..MaxBlock
  /\ pc \in {"idle", "look", "store", "events", "report", "panic"}
  /\ pos \in 0..MaxBlock + 1 /\ end \in 0..MaxBlock
  /\ found \subseteq Block /\ submit \subseteq Trigger
  /\ blame \in Report
  /\ watching \in BOOLEAN /\ notified \in 0..MaxBlock
  /\ priming \in {"wait", "look", "store"}
  /\ primePos \in 0..MaxBlock /\ primeEnd \in 0..MaxBlock

(* Which blocks the parts of a transaction end up in is chosen here and     *)
(* seen once the chain is that long.                                        *)
Init ==
  /\ outerAt \in [Trigger -> 0..MaxBlock] /\ innerAt \in [Trigger -> 0..MaxBlock]
  /\ \A t \in Trigger : /\ outerAt[t] # 0 => outerAt[t] > t
                        /\ innerAt[t] # 0 => outerAt[t] # 0 /\ innerAt[t] > outerAt[t]
  /\ head = 0 /\ cached = {}
  /\ startBlock = 0 /\ lastEvent = 0
  /\ pc = "idle" /\ pos = 0 /\ end = 0 /\ found = {} /\ submit = {}
  /\ blame = NoReport
  /\ watching = TRUE /\ notified = 0
  /\ priming = "wait" /\ primePos = 0 /\ primeEnd = 0

Running == pc # "panic"

NewHead ==
  /\ head < MaxBlock /\ head' = head + 1
  /\ UNCHANGED <<outerAt, innerAt, cached, collVars, primeVars>>

-----------------------------------------------------------------------------
(* An event of the poller; the observer may be a block ahead of the node.   *)
(* The first one fixes startBlock.  Statistics run if the last ones were    *)
(* more than 12 seconds ago.                                                *)
StartFrom(b) == IF startBlock = 0 THEN b ELSE startBlock
ReceiveEvent(b, due) ==
  /\ pc = "idle" /\ b > lastEvent /\ b <= head + 1
  /\ lastEvent' = b
  /\ startBlock' = StartFrom(b)
  /\ IF due THEN /\ pc' = "look" /\ pos' = StartFrom(b) /\ end' = b /\ found' = {}
            ELSE UNCHANGED <<pc, pos, end, found>>
  /\ UNCHANGED <<chainVars, cached, submit, blame, primeVars>>

(* collectSubmitIncomingTx.                                                 *)
AfterBlock == IF pos < end THEN "look" ELSE "events"

Hit_Dropped == found' = found
Hit == found' = found \cup {pos}
LookHit ==
  /\ pc = "look" /\ pos \in cached
  /\ Hit /\ pos' = pos + 1 /\ pc' = AfterBlock
  /\ UNCHANGED <<startBlock, lastEvent, end, submit, blame, chainVars, cached, primeVars>>

LookMiss ==
  /\ pc = "look" /\ pos \notin cached /\ pos <= head
  /\ pc' = "store"
  /\ UNCHANGED <<startBlock, lastEvent, pos, end, found, submit, blame, chainVars, cached, primeVars>>

(* BlockByNumber fails, for a block the node does not have or for any other *)
(* reason: what was found so far is returned, without the error.            *)
FetchFails_Retried ==
  /\ pc = "look" /\ pos \notin cached /\ pc' = "look"
  /\ UNCHANGED <<startBlock, lastEvent, pos, end, found, submit, blame, chainVars, cached, primeVars>>
FetchFails ==
  /\ pc = "look" /\ pos \notin cached
  /\ pc' = "events"
  /\ UNCHANGED <<startBlock, lastEvent, pos, end, found, submit, blame, chainVars, cached, primeVars>>

Remember_NotLast == cached' = IF pos < end THEN cached \cup {pos} ELSE cached
Remember == cached' = cached \cup {pos}
Store ==
  /\ pc = "store"
  /\ found' = found \cup {pos} /\ Remember
  /\ pos' = pos + 1 /\ pc' = AfterBlock
  /\ UNCHANGED <<startBlock, lastEvent, end, submit, blame, chainVars, primeVars>>

(* collectSequencerEvents: submissions in the range, with a trigger that is *)
(* not older than the range.                                                *)
Submitted == {t \in Trigger : /\ outerAt[t] # 0 /\ outerAt[t] <= head
                              /\ startBlock <= outerAt[t] /\ outerAt[t] <= end
                              /\ startBlock <= t}
FilterEvents ==
  /\ pc = "events"
  /\ submit' = Submitted /\ pc' = "report"
  /\ UNCHANGED <<startBlock, lastEvent, pos, end, found, blame, chainVars, cached, primeVars>>

(* The rest of CollectContinuousTestStats: what was submitted is split by    *)
(* what was found.  Without a success there are no delays, stats.Mean gives  *)
(* an error, and no file is written.                                         *)
Return == pc' = "idle" /\ pos' = 0 /\ end' = 0 /\ found' = {} /\ submit' = {}
Successful == {t \in submit : innerAt[t] \in found}
Failed_All == submit
Failed == submit \ Successful
WriteBlame ==
  /\ pc = "report" /\ Successful # {}
  /\ blame' = [upto |-> pos - 1, succeeded |-> Successful, failed |-> Failed]
  /\ Return
  /\ UNCHANGED <<startBlock, lastEvent, chainVars, cached, primeVars>>

NoDelays ==
  /\ pc = "report" /\ Successful = {}
  /\ Return
  /\ UNCHANGED <<startBlock, lastEvent, blame, chainVars, cached, primeVars>>

(* The sequencer events, the triggers or the file could not be had: the     *)
(* error is logged by the main loop.                                        *)
CollectFails ==
  /\ pc = "events" \/ (pc = "report" /\ Successful # {})
  /\ Return
  /\ UNCHANGED <<startBlock, lastEvent, blame, chainVars, cached, primeVars>>

(* queryWhoToBlame dereferences the credentials it could not get.           *)
BlamePanics ==
  /\ pc = "report" /\ Successful # {} /\ Failed # {}
  /\ pc' = "panic"
  /\ UNCHANGED <<startBlock, lastEvent, pos, end, found, submit, blame, chainVars, cached, primeVars>>

-----------------------------------------------------------------------------
(* PrimeBlockCache takes a head from WatchHeads and fills the cache from    *)
(* its greatest key.                                                        *)
PrimeFrom_Head(k, h) == k = h
PrimeFrom(k, h) == k \in cached /\ k < h /\ \A j \in cached : j <= k

Notify ==
  /\ Running /\ watching /\ priming = "wait" /\ notified < head
  /\ notified' = notified + 1
  /\ \/ \E k \in Block : /\ cached # {} /\ PrimeFrom(k, notified')
                         /\ priming' = "look" /\ primePos' = k /\ primeEnd' = notified'
     \/ /\ \A k \in Block : ~(cached # {} /\ PrimeFrom(k, notified'))
        /\ UNCHANGED <<priming, primePos, primeEnd>>
  /\ UNCHANGED <<watching, chainVars, cached, collVars>>

(* The subscription ends: nothing closes the channel the primer waits on.   *)
SubscriptionLost ==
  /\ Running /\ watching /\ watching' = FALSE
  /\ UNCHANGED <<notified, priming, primePos, primeEnd, chainVars, cached, collVars>>

DonePriming == priming' = "wait" /\ primePos' = 0 /\ primeEnd' = 0
NextPrimed == IF primePos < primeEnd
              THEN priming' = "look" /\ primePos' = primePos + 1 /\ UNCHANGED primeEnd
              ELSE DonePriming
PrimeHit ==
  /\ Running /\ priming = "look" /\ primePos \in cached
  /\ NextPrimed
  /\ UNCHANGED <<watching, notified, chainVars, cached, collVars>>
PrimeMiss ==
  /\ Running /\ priming = "look" /\ primePos \notin cached
  /\ \/ priming' = "store" /\ UNCHANGED <<primePos, primeEnd>>
     \/ DonePriming     \* BlockByNumber failed
  /\ UNCHANGED <<watching, notified, chainVars, cached, collVars>>
PrimeStore ==
  /\ Running /\ priming = "store"
  /\ cached' = cached \cup {primePos}
  /\ NextPrimed
  /\ UNCHANGED <<watching, notified, chainVars, collVars>>

-----------------------------------------------------------------------------
Collect == LookHit \/ LookMiss \/ FetchFails \/ Store \/ FilterEvents
           \/ WriteBlame \/ NoDelays \/ CollectFails
Prime == PrimeHit \/ PrimeMiss \/ PrimeStore
Next == \/ NewHead
        \/ \E b \in Block, due \in BOOLEAN : ReceiveEvent(b, due)
        \/ Collect \/ BlamePanics
        \/ Notify \/ SubscriptionLost \/ Prime

Spec == Init /\ [][Next]_vars

(* The main loop and the primer are scheduled; a failing request returns.   *)
FairSpec == Spec /\ WF_vars(Collect) /\ WF_vars(Prime)

-----------------------------------------------------------------------------
(* MaxKey stands for everything the cache holds: its keys are an interval   *)
(* from startBlock, so that priming from MaxKey leaves no hole behind.      *)
Contiguous == \A k \in cached : startBlock <= k /\ startBlock..k \subseteq cached

(* A submission is a failure of the blame file only if no block the         *)
(* statistics looked at has its inner part: the end of the range, a failed  *)
(* request or the chain is the cause, never another step of the collection. *)
FailedHasCause == \A t \in blame.failed :
  /\ t \notin blame.succeeded
  /\ outerAt[t] # 0
  /\ innerAt[t] \notin startBlock..blame.upto

(* What one blame file calls a success no later one takes back, although    *)
(* requests may fail in any collection: all that was found is cached.       *)
SuccessKept == [][blame.succeeded \subseteq blame'.succeeded]_vars

(* The main loop comes back from the statistics to the next event.          *)
CollectEnds == pc \notin {"idle", "panic"} ~> pc \in {"idle", "panic"}

(* The inductive invariant: both readers of the cache only ever leave cached *)
(* blocks behind, and the blame file was made of cached blocks.             *)
Behind == startBlock..(pos - 1) \subseteq cached
Collecting == pc \in {"look", "store", "events", "report"}
CollectorInv ==
  /\ Collecting => /\ startBlock \in Block /\ startBlock <= pos /\ pos <= end + 1
                   /\ end = lastEvent /\ Behind
                   /\ found = startBlock..(pos - 1)
  /\ pc \in {"look", "store"} => pos <= end
  /\ pc = "report" => submit \subseteq Submitted
  /\ lastEvent = 0 <=> startBlock = 0
  /\ startBlock <= lastEvent
PrimerInv ==
  /\ priming \in {"look", "store"} =>
       /\ startBlock \in Block /\ startBlock <= primePos /\ primePos <= primeEnd
       /\ startBlock..(primePos - 1) \subseteq cached
  /\ cached # {} => startBlock \in Block
BlameInv ==
  /\ blame.upto # 0 => startBlock..blame.upto \subseteq cached
  /\ blame.upto <= lastEvent
  /\ \A t \in blame.succeeded : /\ innerAt[t] \in startBlock..blame.upto
                                /\ outerAt[t] # 0 /\ outerAt[t] <= head
                                /\ startBlock <= outerAt[t] /\ outerAt[t] <= lastEvent
                                /\ startBlock <= t
  /\ startBlock = 0 => blame = NoReport
  \* a collection has passed what the last file was made of, or is going to
  /\ pc \in {"events", "report"} => blame.upto < pos
  /\ pc = "report" => blame.succeeded \subseteq submit
CacheInv == TypeOK /\ Contiguous /\ CollectorInv /\ PrimerInv /\ BlameInv /\ FailedHasCause

-----------------------------------------------------------------------------
(* continuous/README.md:46: "This will regularily write analysis            *)
(* 'blamefiles'".  A collection that ends without an error of the node, the *)
(* database or the file system has written one for what was submitted.      *)
FileWritten == [][NoDelays => submit = {}]_vars
=============================================================================

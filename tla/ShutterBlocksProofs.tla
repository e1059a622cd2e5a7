------------------------- MODULE ShutterBlocksProofs -------------------------
(***************************************************************************)
(* Proofs about the block poller and the reports about its blocks          *)
(* (ShutterBlocks, Attribution), for every set of validators, every length *)
(* of the chain and every number of changes of a status.                   *)
(***************************************************************************)
EXTENDS Attribution, MinMaxLemmas, SequenceTheorems, TLAPS

USE ModeAssumption, MatchingAssumption, BoundsAssumption

(* The events so far: those that the main loop got, and the one that waits   *)
(* in the channel.                                                           *)
Given == {received[k] : k \in DOMAIN received}
         \cup (IF pollPc = "send" THEN {event} ELSE {})

(* Events are ordered as they were given: by their block, by their target.   *)
NewerOnes ==
  /\ \A i, j \in DOMAIN received : i < j => received[i].block < received[j].block
  /\ pollPc = "send" => \A i \in DOMAIN received : received[i].block < event.block
FurtherOnes ==
  /\ \A i, j \in DOMAIN received : i < j => received[i].target + 1 < received[j].target
  /\ pollPc = "send" => \A i \in DOMAIN received : received[i].target + 1 < event.target

PollInv ==
  /\ pollPc # "send" => event = NoBlock
  /\ pollPc = "start" => received = <<>>
  /\ \A e \in Given : e.block \in db
  /\ lastShutterTS \in db \cup {0}

(* In standard mode lastShutterTS follows the events.                        *)
StandardInv == Mode = "standard" =>
  /\ \A e \in Given : e.block <= lastShutterTS /\ e.target = 0
  /\ pollPc = "send" => event.block = lastShutterTS
  /\ NewerOnes

(* In graffiti mode nextShutterSlot follows the targets, and lastShutterTS   *)
(* stays what it was at the start.                                           *)
GraffitiInv == Mode = "graffiti" =>
  /\ \A e \in Given : /\ e.target \in Slot /\ e.block < e.target
                      /\ proposer[e.target] \in Matching
                      /\ e.target <= nextShutterSlot /\ lastShutterTS <= e.block
  /\ FurtherOnes

(* As long as no validator has changed its status: the query finds what was  *)
(* shutterized; a target is the next slot of an active validator after its   *)
(* trigger; what is between two blocks that were given was given too.        *)
SteadyInv == flips = 0 =>
  /\ shutterized = ShutterRows
  /\ NewerOnes
  /\ Mode = "graffiti" => \A e \in Given :
       /\ proposer[e.target] \in active
       /\ \A x \in Slot : e.block < x /\ x < e.target => proposer[x] \notin active
  /\ \A s \in ShutterRows : \A e \in Given :
       e.block <= s /\ s <= lastShutterTS => \E g \in Given : g.block = s

BlocksInv == TypeOK /\ PollInv /\ StandardInv /\ GraffitiInv /\ SteadyInv

-----------------------------------------------------------------------------
(* The facts of the types that the proofs need.                              *)
LEMMA TypeFacts ==
  ASSUME TypeOK
  PROVE  /\ MaxSlot \in Nat /\ slot \in Nat /\ slot <= MaxSlot /\ db \in SUBSET (0..slot)
         /\ \A s \in db : s \in Nat /\ s > 0 /\ s \in Slot
         /\ lastShutterTS \in Nat /\ nextShutterSlot \in Nat /\ flips \in Nat
         /\ ShutterRows \in SUBSET (0..slot) /\ ShutterRows \subseteq db
         /\ Len(received) \in Nat /\ DOMAIN received = 1..Len(received)
         /\ \A e \in Given : e \in Event /\ e.block \in Nat /\ e.target \in Nat
<1>1. /\ MaxSlot \in Nat /\ slot \in Nat /\ slot <= MaxSlot /\ db \in SUBSET (0..slot)
      /\ \A s \in db : s \in Nat /\ s > 0 /\ s \in Slot
      /\ lastShutterTS \in Nat /\ nextShutterSlot \in Nat /\ flips \in Nat
  BY DEF TypeOK, Slot
<1>2. ShutterRows \in SUBSET (0..slot) /\ ShutterRows \subseteq db
  BY <1>1 DEF ShutterRows
<1>3. Len(received) \in Nat /\ DOMAIN received = 1..Len(received)
  BY LenProperties DEF TypeOK
<1>4. ASSUME NEW e \in Given
      PROVE  e \in Event /\ e.block \in Nat /\ e.target \in Nat
  <2>1. e \in Event
    BY <1>3, <1>4 DEF Given, TypeOK
  <2>2. QED
    BY <1>1, <2>1 DEF Event
<1>5. QED
  BY <1>1, <1>2, <1>3, <1>4

(* When the main loop receives, the event that waited becomes the last one.  *)
LEMMA Received ==
  ASSUME TypeOK, Receive
  PROVE  /\ received' \in Seq(Event) /\ Given' = Given
         /\ DOMAIN received' = 1..(Len(received) + 1)
         /\ \A k \in DOMAIN received : received'[k] = received[k]
         /\ received'[Len(received) + 1] = event
<1>1. received' = Append(received, event) /\ pollPc = "send" /\ pollPc' = "poll"
  BY DEF Receive
<1>2. received \in Seq(Event) /\ event \in Event
  BY DEF TypeOK
<1>3. /\ received' \in Seq(Event) /\ Len(received') = Len(received) + 1
      /\ Len(received) \in Nat /\ DOMAIN received = 1..Len(received)
      /\ \A k \in 1..Len(received) : received'[k] = received[k]
      /\ received'[Len(received) + 1] = event
  BY <1>1, <1>2, AppendProperties, LenProperties
<1>4. DOMAIN received' = 1..(Len(received) + 1)
  BY <1>3, LenProperties
<1>5. DOMAIN received' = DOMAIN received \cup {Len(received) + 1}
  BY <1>3, <1>4
<1>6. Given' = Given
  BY <1>1, <1>3, <1>5 DEF Given
<1>7. QED
  BY <1>3, <1>4, <1>6

(* Receiving the event that waits changes who has it, and nothing else.      *)
LEMMA ReceiveKeeps ==
  ASSUME BlocksInv, Receive
  PROVE  BlocksInv'
<1> DEFINE n == Len(received)
<1>0. TypeOK
  BY DEF BlocksInv
<1>1. /\ received' \in Seq(Event) /\ Given' = Given
      /\ DOMAIN received' = 1..(n + 1) /\ DOMAIN received = 1..n /\ n \in Nat
      /\ \A k \in 1..n : received'[k] = received[k]
      /\ received'[n + 1] = event
      /\ pollPc = "send" /\ pollPc' = "poll" /\ event' = NoBlock /\ busy' = TRUE
      /\ UNCHANGED <<lastShutterTS, nextShutterSlot, proposer, active, slot, db,
                     shutterized, flips>>
  BY <1>0, Received, TypeFacts DEF Receive, dbVars
<1>2. NoBlock \in Event
  BY <1>0, TypeFacts DEF NoBlock, Event
<1>3. TypeOK'
  BY <1>0, <1>1, <1>2 DEF TypeOK
<1>4. PollInv'
  BY <1>1 DEF BlocksInv, PollInv
<1>5. ASSUME NEW k \in 1..(n + 1)
      PROVE  k \in 1..n \/ k = n + 1
  BY <1>1
<1>6. NewerOnes => NewerOnes'
  <2> SUFFICES ASSUME NewerOnes, NEW k \in 1..(n + 1), NEW j \in 1..(n + 1), k < j
               PROVE  received'[k].block < received'[j].block
    BY <1>1 DEF NewerOnes
  <2>1. k \in 1..n
    BY <1>1
  <2>2. CASE j \in 1..n
    BY <1>1, <2>1, <2>2 DEF NewerOnes
  <2>3. CASE j = n + 1
    BY <1>1, <2>1, <2>3 DEF NewerOnes
  <2>4. QED
    BY <1>5, <2>2, <2>3
<1>7. FurtherOnes => FurtherOnes'
  <2> SUFFICES ASSUME FurtherOnes, NEW k \in 1..(n + 1), NEW j \in 1..(n + 1), k < j
               PROVE  received'[k].target + 1 < received'[j].target
    BY <1>1 DEF FurtherOnes
  <2>1. k \in 1..n
    BY <1>1
  <2>2. CASE j \in 1..n
    BY <1>1, <2>1, <2>2 DEF FurtherOnes
  <2>3. CASE j = n + 1
    BY <1>1, <2>1, <2>3 DEF FurtherOnes
  <2>4. QED
    BY <1>5, <2>2, <2>3
<1>8. StandardInv' /\ GraffitiInv'
  BY <1>1, <1>6, <1>7 DEF BlocksInv, StandardInv, GraffitiInv
<1>9. SteadyInv'
  BY <1>1, <1>6 DEF BlocksInv, SteadyInv, ShutterRows
<1>10. QED
  BY <1>3, <1>4, <1>8, <1>9 DEF BlocksInv

-----------------------------------------------------------------------------
(* The first query: nothing has been given yet.                              *)
LEMMA StartKeeps ==
  ASSUME BlocksInv, Start
  PROVE  BlocksInv'
<1>0. TypeOK
  BY DEF BlocksInv
<1>1. /\ pollPc = "start" /\ pollPc' = "poll" /\ received = <<>>
      /\ UNCHANGED <<nextShutterSlot, event, proposer, active, slot, db, shutterized,
                     flips, busy, received>>
  BY DEF Start, dbVars, mainVars, BlocksInv, PollInv
<1>2. lastShutterTS' \in db \cup {0} /\ lastShutterTS' \in 0..slot
  <2>1. CASE ShutterRows = {}
    BY <1>0, <2>1 DEF Start, TypeOK, BlocksInv, PollInv
  <2>2. CASE ShutterRows # {}
    <3>1. Max(ShutterRows) \in ShutterRows
      BY <1>0, <2>2, TypeFacts, MaxIsGreatest
    <3>2. QED
      BY <1>0, <2>2, <3>1, TypeFacts DEF Start
  <2>3. QED
    BY <2>1, <2>2
<1>3. TypeOK'
  BY <1>0, <1>1, <1>2 DEF TypeOK
<1>4. DOMAIN received = {} /\ Given' = {}
  <2>1. DOMAIN received = {}
    BY <1>1
  <2>2. QED
    BY <1>1, <2>1 DEF Given
<1>5. NewerOnes' /\ FurtherOnes' /\ PollInv'
  BY <1>1, <1>2, <1>4 DEF NewerOnes, FurtherOnes, PollInv, BlocksInv
<1>6. ShutterRows' = ShutterRows
  BY <1>1 DEF ShutterRows
<1>7. QED
  BY <1>1, <1>3, <1>4, <1>5, <1>6 DEF BlocksInv, StandardInv, GraffitiInv, SteadyInv

(* An event that is found joins those that were given.                       *)
LEMMA FoundGives ==
  ASSUME pollPc = "poll", pollPc' = "send", UNCHANGED received
  PROVE  /\ Given' = Given \cup {event'}
         /\ NewerOnes' <=> /\ NewerOnes
                           /\ \A k \in DOMAIN received : received[k].block < event'.block
         /\ FurtherOnes' <=> /\ FurtherOnes
                             /\ \A k \in DOMAIN received : received[k].target + 1 < event'.target
         /\ \A k \in DOMAIN received : received[k] \in Given
BY DEF Given, NewerOnes, FurtherOnes

(* The only new row is newer than everything given, and nothing is between.  *)
LEMMA PollStandardKeeps ==
  ASSUME BlocksInv, PollStandard
  PROVE  BlocksInv'
<1>0. TypeOK
  BY DEF BlocksInv
<1>1. PICK s \in NewRows : /\ NewRows = {s} /\ lastShutterTS' = s
                           /\ event' = [block |-> s, target |-> 0]
                           /\ pollPc = "poll" /\ pollPc' = "send"
  BY DEF PollStandard, Found
<1>2. /\ Mode = "standard"
      /\ UNCHANGED <<nextShutterSlot, proposer, active, slot, db, shutterized, flips,
                     busy, received>>
  BY DEF PollStandard, dbVars, mainVars
<1>3. /\ s \in Nat /\ s \in ShutterRows /\ lastShutterTS < s /\ s \in db
      /\ s \in Slot /\ lastShutterTS \in Nat /\ s <= slot
  BY <1>0, TypeFacts DEF NewRows
<1>4. event'.block = s /\ event'.target = 0
  BY <1>1
<1>5. TypeOK'
  <2>1. event' \in Event
    BY <1>1, <1>3 DEF Event, Slot
  <2>2. lastShutterTS' \in 0..slot /\ event'.block # 0
    BY <1>0, <1>1, <1>3, <1>4 DEF TypeOK
  <2>3. QED
    BY <1>0, <1>1, <1>2, <2>1, <2>2 DEF TypeOK
<1>6. /\ Given' = Given \cup {event'}
      /\ NewerOnes' <=> /\ NewerOnes
                        /\ \A k \in DOMAIN received : received[k].block < event'.block
      /\ \A k \in DOMAIN received : received[k] \in Given
  BY <1>1, <1>2, FoundGives
<1>7. \A e \in Given : e.block \in Nat /\ e.block <= lastShutterTS /\ e.target = 0
  BY <1>0, <1>2, TypeFacts DEF BlocksInv, StandardInv
<1>8. PollInv'
  BY <1>1, <1>2, <1>3, <1>4, <1>6 DEF BlocksInv, PollInv
<1>9. StandardInv' /\ NewerOnes'
  <2>1. \A e \in Given' : e.block <= lastShutterTS' /\ e.target = 0
    BY <1>1, <1>3, <1>4, <1>6, <1>7
  <2>2. NewerOnes'
    <3>1. \A k \in DOMAIN received : received[k].block < event'.block
      BY <1>3, <1>4, <1>6, <1>7
    <3>2. QED
      BY <1>2, <1>6, <3>1 DEF BlocksInv, StandardInv
  <2>3. QED
    BY <1>1, <1>4, <2>1, <2>2 DEF StandardInv
<1>10. GraffitiInv'
  BY <1>2 DEF GraffitiInv
<1>11. SteadyInv'
  <2>1. SUFFICES ASSUME flips = 0
                 PROVE  SteadyInv'
    BY <1>2 DEF SteadyInv
  <2>2. ShutterRows' = ShutterRows /\ shutterized = ShutterRows
    BY <1>2, <2>1 DEF ShutterRows, BlocksInv, SteadyInv
  <2>3. ASSUME NEW r \in ShutterRows, NEW e \in Given', e.block <= r, r <= s
        PROVE  \E g \in Given' : g.block = r
    <3>1. CASE r = s
      BY <1>4, <1>6, <3>1
    <3>2. CASE r # s
      <4>1. r <= lastShutterTS
        <5>1. r \in Nat
          BY <1>0, TypeFacts
        <5>2. r \notin NewRows
          BY <1>1, <3>2
        <5>3. QED
          BY <1>3, <2>3, <5>1, <5>2 DEF NewRows
      <4>2. r < s /\ r \in Nat
        BY <1>0, <1>3, <4>1, TypeFacts
      <4>3. e \in Given
        BY <1>3, <1>4, <1>6, <2>3, <4>2
      <4>4. \E g \in Given : g.block = r
        BY <2>1, <2>3, <4>1, <4>3 DEF BlocksInv, SteadyInv
      <4>5. QED
        BY <1>6, <4>4
    <3>3. QED
      BY <3>1, <3>2
  <2>4. QED
    BY <1>1, <1>2, <1>9, <2>2, <2>3 DEF SteadyInv
<1>12. QED
  BY <1>5, <1>8, <1>9, <1>10, <1>11 DEF BlocksInv

(* The next target is further than the ones before; if no status has changed *)
(* it is the next active slot, so the ones before have passed.               *)
LEMMA PollGraffitiKeeps ==
  ASSUME BlocksInv, PollGraffiti
  PROVE  BlocksInv'
<1>0. TypeOK
  BY DEF BlocksInv
<1>1. PICK target :
        /\ target = Min(NextSlots)
        /\ Apart(target) /\ proposer[target] \in Matching
        /\ nextShutterSlot' = target
        /\ event' = [block |-> CurrentBlock, target |-> target]
        /\ pollPc = "poll" /\ pollPc' = "send"
  BY DEF PollGraffiti, Found
<1>2. /\ Mode = "graffiti" /\ db # {} /\ NextSlots # {}
      /\ UNCHANGED <<lastShutterTS, proposer, active, slot, db, shutterized, flips,
                     busy, received>>
  BY DEF PollGraffiti, dbVars, mainVars
<1>3. /\ CurrentBlock \in db /\ CurrentBlock \in Nat /\ CurrentBlock > 0
      /\ \A x \in db : x <= CurrentBlock
  BY <1>0, <1>2, TypeFacts, MaxIsGreatest DEF CurrentBlock
<1>4. /\ target \in Slot /\ target \in Nat /\ CurrentBlock < target
      /\ proposer[target] \in active
      /\ \A x \in Slot : CurrentBlock < x /\ x < target => proposer[x] \notin active
  <2>1. NextSlots \in SUBSET Nat
    BY DEF NextSlots, Slot
  <2>2. target \in NextSlots /\ \A x \in NextSlots : target <= x
    BY <1>1, <1>2, <2>1, MinIsLeast
  <2>3. QED
    BY <2>1, <2>2 DEF NextSlots, Slot
<1>5. event'.block = CurrentBlock /\ event'.target = target
  BY <1>1
<1>6. TypeOK'
  <2>1. event' \in Event
    BY <1>0, <1>1, <1>3, <1>4, TypeFacts DEF Event, Slot
  <2>2. nextShutterSlot' \in 0..MaxSlot /\ event'.block # 0
    BY <1>0, <1>1, <1>3, <1>4, <1>5, TypeFacts DEF Slot
  <2>3. QED
    BY <1>0, <1>1, <1>2, <2>1, <2>2 DEF TypeOK
<1>7. /\ Given' = Given \cup {event'}
      /\ NewerOnes' <=> /\ NewerOnes
                        /\ \A k \in DOMAIN received : received[k].block < event'.block
      /\ FurtherOnes' <=> /\ FurtherOnes
                          /\ \A k \in DOMAIN received : received[k].target + 1 < event'.target
      /\ \A k \in DOMAIN received : received[k] \in Given
  BY <1>1, <1>2, FoundGives
<1>8. \A e \in Given : /\ e.target \in Slot /\ e.target \in Nat /\ e.block \in Nat
                       /\ e.block < e.target /\ e.block \in db
                       /\ proposer[e.target] \in Matching
                       /\ e.target <= nextShutterSlot /\ lastShutterTS <= e.block
  BY <1>0, <1>2, TypeFacts DEF BlocksInv, GraffitiInv, PollInv
<1>9. nextShutterSlot \in Nat /\ nextShutterSlot + 1 < target
  BY <1>0, <1>1, <1>4, TypeFacts DEF Apart
<1>10. PollInv'
  BY <1>1, <1>2, <1>3, <1>5, <1>7 DEF BlocksInv, PollInv
<1>11. StandardInv'
  BY <1>2 DEF StandardInv
<1>12. GraffitiInv'
  <2>1. lastShutterTS <= CurrentBlock
    BY <1>0, <1>3, TypeFacts DEF BlocksInv, PollInv
  <2>2. \A e \in Given' : /\ e.target \in Slot /\ e.block < e.target
                          /\ proposer[e.target] \in Matching
                          /\ e.target <= target /\ lastShutterTS <= e.block
    BY <1>1, <1>4, <1>5, <1>7, <1>8, <1>9, <2>1
  <2>3. FurtherOnes'
    <3>1. \A k \in DOMAIN received : received[k].target + 1 < event'.target
      BY <1>4, <1>5, <1>7, <1>8, <1>9
    <3>2. QED
      BY <1>2, <1>7, <3>1 DEF BlocksInv, GraffitiInv
  <2>4. QED
    BY <1>1, <1>2, <2>2, <2>3 DEF GraffitiInv
<1>13. SteadyInv'
  <2>1. SUFFICES ASSUME flips = 0
                 PROVE  SteadyInv'
    BY <1>2 DEF SteadyInv
  <2>2. ShutterRows' = ShutterRows /\ shutterized = ShutterRows
    BY <1>2, <2>1 DEF ShutterRows, BlocksInv, SteadyInv
  <2>3. \A e \in Given : e.target <= CurrentBlock
    <3>1. SUFFICES ASSUME NEW e \in Given
                   PROVE  e.target <= CurrentBlock
      OBVIOUS
    <3>2. proposer[e.target] \in active
      BY <1>2, <2>1 DEF BlocksInv, SteadyInv
    <3>3. e.target < target
      BY <1>4, <1>8, <1>9
    <3>4. QED
      BY <1>3, <1>4, <1>8, <3>2, <3>3
  <2>4. NewerOnes'
    <3>1. \A k \in DOMAIN received : received[k].block < event'.block
      BY <1>3, <1>5, <1>7, <1>8, <2>3
    <3>2. QED
      BY <1>7, <2>1, <3>1 DEF BlocksInv, SteadyInv
  <2>5. \A e \in Given' :
          /\ proposer[e.target] \in active
          /\ \A x \in Slot : e.block < x /\ x < e.target => proposer[x] \notin active
    BY <1>2, <1>4, <1>5, <1>7, <2>1 DEF BlocksInv, SteadyInv
  <2>6. ASSUME NEW r \in ShutterRows, NEW e \in Given', e.block <= r, r <= lastShutterTS
        PROVE  \E g \in Given' : g.block = r
    <3>1. CASE e \in Given
      BY <1>7, <2>1, <2>6, <3>1 DEF BlocksInv, SteadyInv
    <3>2. CASE e = event'
      <4>1. lastShutterTS <= CurrentBlock /\ lastShutterTS \in Nat
        BY <1>0, <1>3, TypeFacts DEF BlocksInv, PollInv
      <4>2. r = CurrentBlock
        BY <1>0, <1>3, <1>5, <2>6, <3>2, <4>1, TypeFacts
      <4>3. QED
        BY <1>5, <1>7, <4>2
    <3>3. QED
      BY <1>7, <3>1, <3>2
  <2>7. QED
    BY <1>1, <1>2, <2>2, <2>4, <2>5, <2>6 DEF SteadyInv
<1>14. QED
  BY <1>6, <1>10, <1>11, <1>12, <1>13 DEF BlocksInv

-----------------------------------------------------------------------------
(* The chain grows at its end: the new slot is after everything in the table.*)
LEMMA NewSlotKeeps ==
  ASSUME BlocksInv, NEW block \in BOOLEAN, NewSlot(block)
  PROVE  BlocksInv'
<1>0. TypeOK
  BY DEF BlocksInv
<1>1. /\ slot < MaxSlot /\ slot' = slot + 1
      /\ db' = IF block THEN db \cup {slot'} ELSE db
      /\ shutterized' = IF block /\ proposer[slot'] \in active
                        THEN shutterized \cup {slot'} ELSE shutterized
      /\ UNCHANGED <<proposer, active, flips, lastShutterTS, nextShutterSlot, pollPc,
                     event, busy, received>>
  BY DEF NewSlot, pollVars, mainVars
<1>2. /\ slot \in Nat /\ slot' \in Slot /\ lastShutterTS <= slot /\ MaxSlot \in Nat
      /\ lastShutterTS \in Nat
  BY <1>0, <1>1, TypeFacts DEF TypeOK, Slot
<1>3. TypeOK'
  <2>1. db' \subseteq 1..slot' /\ shutterized' \subseteq db'
    BY <1>0, <1>1, <1>2 DEF TypeOK
  <2>2. lastShutterTS' \in 0..slot'
    BY <1>1, <1>2
  <2>3. QED
    BY <1>0, <1>1, <1>2, <2>1, <2>2 DEF TypeOK
<1>4. Given' = Given /\ NewerOnes' = NewerOnes /\ FurtherOnes' = FurtherOnes
  BY <1>1 DEF Given, NewerOnes, FurtherOnes
<1>5. ShutterRows' = IF block /\ proposer[slot'] \in active
                     THEN ShutterRows \cup {slot'} ELSE ShutterRows
  BY <1>1 DEF ShutterRows
<1>6. PollInv' /\ StandardInv' /\ GraffitiInv'
  BY <1>1, <1>4 DEF BlocksInv, PollInv, StandardInv, GraffitiInv
<1>7. SteadyInv'
  <2>1. SUFFICES ASSUME flips = 0
                 PROVE  SteadyInv'
    BY <1>1 DEF SteadyInv
  <2>2. \A r \in ShutterRows' : r <= lastShutterTS => r \in ShutterRows
    BY <1>1, <1>2, <1>5
  <2>3. shutterized' = ShutterRows'
    BY <1>1, <1>5, <2>1 DEF BlocksInv, SteadyInv
  <2>4. QED
    BY <1>1, <1>4, <2>1, <2>2, <2>3 DEF BlocksInv, SteadyInv
<1>8. QED
  BY <1>3, <1>6, <1>7 DEF BlocksInv

(* The other steps.                                                          *)
LEMMA OthersKeep ==
  ASSUME BlocksInv,
         \/ FindMultiple \/ QueryFails \/ FinishBlock
         \/ \E v \in Validator : ChangeStatus(v)
         \/ UNCHANGED vars
  PROVE  BlocksInv'
<1> USE DEF dbVars, pollVars, mainVars, vars
<1>0. TypeOK
  BY DEF BlocksInv
<1>1. /\ UNCHANGED <<proposer, slot, db, shutterized, lastShutterTS, nextShutterSlot,
                     event, received>>
      /\ pollPc' = pollPc \/ (pollPc \in {"start", "poll"} /\ pollPc' \in {"fatal", "panic"})
      /\ (flips' = flips /\ active' = active) \/ flips' = flips + 1
  BY DEF FindMultiple, QueryFails, FinishBlock, ChangeStatus
<1>2. TypeOK'
  <2>1. busy' \in BOOLEAN
    BY <1>0 DEF TypeOK, FindMultiple, QueryFails, FinishBlock, ChangeStatus
  <2>2. active' \subseteq Validator /\ flips' \in 0..MaxFlips
    BY <1>0 DEF TypeOK, FindMultiple, QueryFails, FinishBlock, ChangeStatus
  <2>3. QED
    BY <1>0, <1>1, <2>1, <2>2 DEF TypeOK
<1>3. /\ Given' = Given /\ (pollPc' = "send" <=> pollPc = "send")
      /\ NewerOnes' = NewerOnes /\ FurtherOnes' = FurtherOnes
  BY <1>1 DEF Given, NewerOnes, FurtherOnes
<1>4. PollInv' /\ StandardInv' /\ GraffitiInv'
  BY <1>1, <1>3 DEF BlocksInv, PollInv, StandardInv, GraffitiInv
<1>5. SteadyInv'
  <2>1. SUFFICES ASSUME flips' = 0
                 PROVE  SteadyInv'
    BY DEF SteadyInv
  <2>2. flips = 0 /\ active' = active
    BY <1>0, <1>1, <2>1, TypeFacts
  <2>3. QED
    BY <1>1, <1>3, <2>2 DEF BlocksInv, SteadyInv, ShutterRows
<1>6. QED
  BY <1>2, <1>4, <1>5 DEF BlocksInv

(* The invariant holds from the start and after every step.                  *)
LEMMA InitBlocksInv == Init => BlocksInv
<1> SUFFICES ASSUME Init
             PROVE  BlocksInv
  OBVIOUS
<1>1. <<>> \in Seq(Event) /\ DOMAIN received = {}
  <2>1. received = <<>> /\ Len(<<>>) = 0 /\ <<>> \in Seq(Event)
    BY EmptySeq DEF Init
  <2>2. QED
    BY <2>1
<1>2. TypeOK
  <2>1. NoBlock \in Event
    BY DEF NoBlock, Event
  <2>2. busy \in BOOLEAN
    BY DEF Init
  <2>3. slot \in Slot /\ db \subseteq 1..slot /\ shutterized \subseteq db /\ flips \in 0..MaxFlips
    BY DEF Init, Slot
  <2>4. /\ lastShutterTS \in 0..slot /\ nextShutterSlot \in 0..MaxSlot
        /\ proposer \in [Slot -> Validator] /\ active \subseteq Validator
    BY DEF Init
  <2>5. received \in Seq(Event) /\ event \in Event /\ pollPc = "start"
    BY <1>1, <2>1, EmptySeq DEF Init
  <2>6. QED
    BY <2>2, <2>3, <2>4, <2>5 DEF TypeOK
<1>3. Given = {}
  BY <1>1 DEF Given, Init
<1>4. NewerOnes /\ FurtherOnes
  BY <1>1 DEF NewerOnes, FurtherOnes, Init
<1>5. shutterized = ShutterRows
  BY DEF Init, ShutterRows
<1>6. QED
  BY <1>2, <1>3, <1>4, <1>5 DEF Init, BlocksInv, PollInv, StandardInv, GraffitiInv, SteadyInv

(* Every step of poller, main loop and database keeps the invariant.         *)
LEMMA NextBlocksInv ==
  ASSUME BlocksInv, [Next]_vars
  PROVE  BlocksInv'
BY StartKeeps, PollStandardKeeps, PollGraffitiKeeps, ReceiveKeeps, NewSlotKeeps,
   OthersKeep DEF Next, Poll, Database

(* What the poller promises follows from these.                              *)
LEMMA BlocksInductive == Spec => []BlocksInv
<1>1. Init => BlocksInv
  BY InitBlocksInv
<1>2. BlocksInv /\ [Next]_vars => BlocksInv'
  BY NextBlocksInv
<1>3. QED
  BY <1>1, <1>2, PTL DEF Spec

-----------------------------------------------------------------------------
(* The poller stays within its types: lastShutterTS is never ahead of the    *)
(* chain, and no empty event is ever handed over.                            *)
THEOREM PollerTypes == Spec => []TypeOK
<1>1. BlocksInv => TypeOK
  BY DEF BlocksInv
<1>2. QED
  BY <1>1, BlocksInductive, PTL

(* Every event is about a newer block than the one before, in standard mode  *)
(* whatever becomes of the validators, in graffiti mode as long as none of   *)
(* them changes its status.                                                  *)
THEOREM EventsIncrease == Spec => [](Mode = "standard" \/ flips = 0 => TriggersIncrease)
<1>1. BlocksInv => (Mode = "standard" \/ flips = 0 => TriggersIncrease)
  BY DEF BlocksInv, StandardInv, SteadyInv, NewerOnes, TriggersIncrease
<1>2. QED
  BY <1>1, BlocksInductive, PTL

(* In graffiti mode the targets are apart, after their triggers and of       *)
(* wanted validators, whatever becomes of the validators meanwhile.          *)
THEOREM TargetsStayApart == Mode = "graffiti" => (Spec => []TargetsApart)
<1> SUFFICES ASSUME Mode = "graffiti"
             PROVE  Spec => []TargetsApart
  OBVIOUS
<1>1. BlocksInv => TargetsApart
  <2> SUFFICES ASSUME BlocksInv, NEW k \in DOMAIN received, NEW j \in DOMAIN received
               PROVE  /\ k < j => received[k].target + 1 < received[j].target
                      /\ received[k].block < received[k].target
                      /\ proposer[received[k].target] \in Matching
    BY DEF TargetsApart
  <2>1. received[k] \in Given
    BY DEF Given
  <2>2. QED
    BY <2>1 DEF BlocksInv, GraffitiInv, FurtherOnes
<1>2. QED
  BY <1>1, BlocksInductive, PTL

(* As long as no validator changes its status, no shutterized block between  *)
(* the first one handed over and the newest one known is passed over.        *)
THEOREM NothingSkipped == Spec => []NoneSkipped
<1>1. BlocksInv => NoneSkipped
  <2> SUFFICES ASSUME BlocksInv, flips = 0, received # <<>>,
                      NEW s \in shutterized, FirstHanded <= s, s <= lastShutterTS
               PROVE  s \in Handed
    BY DEF NoneSkipped
  <2> DEFINE B == {received[k].block : k \in DOMAIN received}
  <2>0. TypeOK
    BY DEF BlocksInv
  <2>1. B \in SUBSET Nat /\ \A b \in B : \E e \in Given : e.block = b
    <3>1. \A k \in DOMAIN received : received[k] \in Given
      BY DEF Given
    <3>2. QED
      BY <2>0, <3>1, TypeFacts
  <2>2. B # {}
    <3>1. received \in Seq(Event) /\ Len(received) \in Nat
      BY <2>0, TypeFacts DEF TypeOK
    <3>2. Len(received) # 0
      BY <3>1, EmptySeq, LenProperties
    <3>3. 1 \in DOMAIN received
      BY <2>0, <3>1, <3>2, TypeFacts
    <3>4. QED
      BY <3>3
  <2>3. Min(B) \in B
    BY <2>1, <2>2, MinIsLeast
  <2>4. FirstHanded \in B
    BY <2>3 DEF FirstHanded
  <2>5. PICK e \in Given : e.block = FirstHanded
    BY <2>1, <2>4
  <2>6. s \in ShutterRows
    BY DEF BlocksInv, SteadyInv
  <2>7. PICK g \in Given : g.block = s
    BY <2>5, <2>6 DEF BlocksInv, SteadyInv
  <2>8. QED
    BY <2>7 DEF Given, Handed
<1>2. QED
  BY <1>1, BlocksInductive, PTL

(* Blame and lateness agree: in time, the block of the target slot is to     *)
(* blame if there is one; else a later block or none yet.  No slot between   *)
(* a trigger and its target is one of an active validator.                   *)
THEOREM BlameAgrees == Spec => []BlameAgreesWithTarget
<1>1. BlocksInv => BlameAgreesWithTarget
  <2> SUFFICES ASSUME BlocksInv, flips = 0,
                      NEW k \in DOMAIN received, NEW s \in SequencedIn(k)
               PROVE  IF ~Late(k, s) /\ TargetSlot(k) \in db
                      THEN Blamed(s) = TargetSlot(k)
                      ELSE Blamed(s) = 0 \/ Blamed(s) > TargetSlot(k)
    BY DEF BlameAgreesWithTarget
  <2> DEFINE e == received[k]
             T == e.target
             R == BlameRows(s)
  <2>0. TypeOK
    BY DEF BlocksInv
  <2>1. e \in Given /\ T \in Nat /\ e.block \in Nat
    BY <2>0, TypeFacts DEF Given
  <2>2. s \in db /\ s \in Nat /\ s > e.block
    BY <2>0, TypeFacts DEF SequencedIn
  <2>3. /\ R \in SUBSET Nat
        /\ \A x \in R : x \in db /\ x \in Slot /\ x > s /\ proposer[x] \in active
    <3>1. R \subseteq db
      BY DEF BlameRows, ShutterRows
    <3>2. QED
      BY <2>0, <3>1, TypeFacts DEF BlameRows, ShutterRows
  <2>4. R # {} => Blamed(s) \in R /\ \A x \in R : Blamed(s) <= x
    BY <2>3, MinIsLeast DEF Blamed
  <2>5. R = {} => Blamed(s) = 0
    BY DEF Blamed
  <2>6. TargetSlot(k) = T
    BY DEF TargetSlot
  <2>7. CASE Mode = "standard"
    <3>1. T = 0
      BY <2>1, <2>7 DEF BlocksInv, StandardInv
    <3>2. Blamed(s) = 0 \/ Blamed(s) > T
      BY <2>2, <2>3, <2>4, <2>5, <3>1
    <3>3. Late(k, s)
      BY <2>2, <2>6, <3>1 DEF Late
    <3>4. QED
      BY <2>6, <3>2, <3>3
  <2>8. CASE Mode = "graffiti"
    <3>1. /\ proposer[T] \in active /\ T \in Slot
          /\ \A x \in Slot : e.block < x /\ x < T => proposer[x] \notin active
      BY <2>1, <2>8 DEF BlocksInv, SteadyInv, GraffitiInv
    <3>2. \A x \in R : x >= T
      <4> SUFFICES ASSUME NEW x \in R, ~(x >= T)
                   PROVE  FALSE
        OBVIOUS
      <4>1. x \in Nat /\ x < T /\ e.block < x /\ x \in Slot /\ proposer[x] \in active
        BY <2>1, <2>2, <2>3
      <4>2. QED
        BY <3>1, <4>1
    <3>3. CASE s < T /\ T \in db
      <4>1. T \in R
        BY <3>1, <3>3 DEF BlameRows, ShutterRows
      <4>2. Blamed(s) = T
        BY <2>1, <2>3, <2>4, <3>2, <4>1
      <4>3. ~Late(k, s)
        BY <2>1, <2>2, <2>6, <3>3 DEF Late
      <4>4. QED
        BY <2>6, <3>3, <4>2, <4>3
    <3>4. CASE ~(s < T /\ T \in db)
      <4>1. T \notin R
        BY <2>1, <2>2, <2>3, <3>4
      <4>2. \A x \in R : x > T
        BY <2>1, <2>3, <3>2, <4>1
      <4>3. Blamed(s) = 0 \/ Blamed(s) > T
        BY <2>4, <2>5, <4>2
      <4>4. ~(~Late(k, s) /\ T \in db)
        BY <2>1, <2>2, <2>6, <3>4 DEF Late
      <4>5. QED
        BY <2>6, <4>3, <4>4
    <3>5. QED
      BY <3>3, <3>4
  <2>9. QED
    BY <2>7, <2>8
<1>2. QED
  BY <1>1, BlocksInductive, PTL

(* A report names the block that an earlier one named, unless a status       *)
(* changed in between that concerns one of the two: what comes later is      *)
(* later in the chain, and the first row is what counts.                     *)
THEOREM BlameIsFinal == Spec => BlameStays
<1>1. ASSUME BlocksInv, [Next]_vars, NEW s \in db, Blamed(s) # 0, Blamed(s)' # Blamed(s)
      PROVE  \/ proposer[Blamed(s)] \in active \ active'
             \/ Blamed(s)' # 0 /\ proposer[Blamed(s)'] \in active' \ active
  <2> DEFINE R == BlameRows(s)
  <2> DEFINE Q == {t \in db' : proposer[t] \in active' /\ t > s}
  <2>0. TypeOK
    BY <1>1 DEF BlocksInv
  <2>1. R # {} /\ Blamed(s) = Min(R)
    BY <1>1 DEF Blamed
  <2>2. R \in SUBSET Nat /\ (\A x \in R : x <= slot) /\ slot \in Nat /\ db \in SUBSET Nat
    BY <2>0, TypeFacts DEF BlameRows
  <2>3. PICK b \in Nat : b = Blamed(s) /\ b \in R /\ \A x \in R : b <= x
    BY <2>1, <2>2, MinIsLeast
  <2>4. db' = db \/ db' = db \cup {slot + 1}
    BY <1>1 DEF Next, Poll, Start, PollStandard, FindMultiple, PollGraffiti, QueryFails,
                Receive, FinishBlock, Database, NewSlot, ChangeStatus, dbVars, vars
  <2>5. proposer' = proposer
    BY <1>1 DEF Next, Poll, Start, PollStandard, FindMultiple, PollGraffiti, QueryFails,
                Receive, FinishBlock, Database, NewSlot, ChangeStatus, dbVars, vars
  <2>6. BlameRows(s)' = Q
    BY <2>5 DEF BlameRows, ShutterRows
  <2>7. b \in db /\ proposer[b] \in active /\ b > s
    BY <2>3 DEF BlameRows, ShutterRows
  <2>8. CASE proposer[b] \notin active'
    BY <2>3, <2>7, <2>8
  <2>9. CASE proposer[b] \in active'
    <3>1. b \in Q
      BY <2>4, <2>7, <2>9
    <3>2. Q \in SUBSET Nat
      <4>1. slot + 1 \in Nat
        BY <2>2
      <4>2. \A t \in db' : t \in db \/ t = slot + 1
        BY <2>4
      <4>3. \A t \in db' : t \in Nat
        BY <2>2, <4>1, <4>2
      <4>4. QED
        BY <4>3
    <3>3. Blamed(s)' = Min(Q)
      BY <2>6, <3>1 DEF Blamed
    <3> HIDE DEF Q
    <3>4. PICK c \in Nat : c = Blamed(s)' /\ c \in Q /\ \A x \in Q : c <= x
      BY <3>1, <3>2, <3>3, MinIsLeast
    <3>5. c < b
      BY <1>1, <2>3, <3>1, <3>4
    <3>6. c \in db' /\ proposer[c] \in active' /\ c > s
      BY <3>4 DEF Q
    <3>7. c \in db
      BY <2>2, <2>3, <2>4, <3>5, <3>6
    <3>8. c \notin R
      BY <2>3, <3>5
    <3>9. proposer[c] \notin active
      BY <3>6, <3>7, <3>8 DEF BlameRows, ShutterRows
    <3>10. c # 0
      BY <2>2, <3>6
    <3>11. QED
      BY <3>4, <3>6, <3>9, <3>10
  <2>10. QED
    BY <2>8, <2>9
<1>2. BlocksInv /\ [Next]_vars
        => [\A s \in db : Blamed(s) # 0 /\ Blamed(s)' # Blamed(s) =>
              \/ proposer[Blamed(s)] \in active \ active'
              \/ Blamed(s)' # 0 /\ proposer[Blamed(s)'] \in active' \ active]_vars
  BY <1>1
<1>3. QED
  BY <1>2, BlocksInductive, PTL DEF Spec, BlameStays
=============================================================================

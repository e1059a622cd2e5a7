---------------------------- MODULE ShutterBlocks ----------------------------
(***************************************************************************)
(* The block poller of the continuous test: QueryAllShutterBlocks asks the *)
(* observer database once a second for a new shutterized block (mode       *)
(* "standard") or for the next slot worth targeting (mode "graffiti") and  *)
(* hands it to the main loop over an unbuffered channel.                   *)
(*                                                                         *)
(* A block is named by its slot: block numbers and timestamps increase     *)
(* with the slot, and the code only ever compares them.  The database (the *)
(* observer's tables block, proposer_duties, validator_status,             *)
(* validator_graffiti) is external.                                        *)
(***************************************************************************)
EXTENDS Integers, Sequences, FiniteSets, FiniteSetsExt

CONSTANTS Mode,       \* "standard" or "graffiti"
          Validator,  \* the proposers
          Matching,   \* those whose graffiti is in cfg.GraffitiSet
          MaxSlot,    \* bound: slots; also the lookahead of proposer_duties
          MaxFlips    \* bound: changes of a validator's status

ASSUME ModeAssumption == Mode \in {"standard", "graffiti"}
ASSUME MatchingAssumption == Matching \subseteq Validator
ASSUME BoundsAssumption == MaxSlot \in Nat \ {0} /\ MaxFlips \in Nat

Slot == 1..MaxSlot

VARIABLES
  proposer,         \* proposer_duties: who proposes in a slot
  active,           \* validators with status 'active_ongoing'
  slot,             \* the last slot that has passed
  db,               \* table block: the slots that have a block
  shutterized,      \* history: blocks whose proposer was active in their slot
  flips,
  lastShutterTS, nextShutterSlot,    \* status of the poller
  pollPc, event,    \* the poller's position, and the block it found
  busy,             \* the main loop is between two receives
  received          \* history: what the main loop got, in order

dbVars   == <<proposer, active, slot, db, shutterized, flips>>
pollVars == <<lastShutterTS, nextShutterSlot, pollPc, event>>
mainVars == <<busy, received>>
vars     == <<dbVars, pollVars, mainVars>>

NoBlock == [block |-> 0, target |-> 0]
Event == [block : 0..MaxSlot, target : 0..MaxSlot]

TypeOK ==
  /\ proposer \in [Slot -> Validator] /\ active \subseteq Validator
  /\ slot \in Slot /\ db \subseteq 1..slot /\ shutterized \subseteq db
  /\ flips \in 0..MaxFlips
  /\ lastShutterTS \in 0..slot /\ nextShutterSlot \in 0..MaxSlot
  /\ pollPc \in {"start", "poll", "send", "fatal", "panic"}
  /\ event \in Event /\ (pollPc = "send" => event.block # 0)
  /\ busy \in BOOLEAN
  /\ received \in Seq(Event)

Init ==
  /\ proposer \in [Slot -> Validator] /\ active \in SUBSET Validator
  /\ slot = 1 /\ db \in SUBSET {1}
  /\ shutterized = {s \in db : proposer[s] \in active}
  /\ flips = 0
  /\ lastShutterTS = 0 /\ nextShutterSlot = 0
  /\ pollPc = "start" /\ event = NoBlock
  /\ busy = FALSE /\ received = <<>>

-----------------------------------------------------------------------------
(* The database.  A slot may pass without a block.                          *)
NewSlot(block) ==
  /\ slot < MaxSlot /\ slot' = slot + 1
  /\ db' = IF block THEN db \cup {slot'} ELSE db
  /\ shutterized' = IF block /\ proposer[slot'] \in active
                    THEN shutterized \cup {slot'} ELSE shutterized
  /\ UNCHANGED <<proposer, active, flips, pollVars, mainVars>>

ChangeStatus(v) ==
  /\ flips < MaxFlips /\ flips' = flips + 1
  /\ active' = IF v \in active THEN active \ {v} ELSE active \cup {v}
  /\ UNCHANGED <<proposer, slot, db, shutterized, pollVars, mainVars>>

-----------------------------------------------------------------------------
(* The poller.                                                              *)
ShutterRows == {s \in db : proposer[s] \in active}

(* The first query: the newest shutterized block is where polling starts.   *)
Start ==
  /\ pollPc = "start" /\ pollPc' = "poll"
  /\ lastShutterTS' = IF ShutterRows = {} THEN lastShutterTS ELSE Max(ShutterRows)
  /\ UNCHANGED <<nextShutterSlot, event, dbVars, mainVars>>

NewRows_Inclusive == {s \in ShutterRows : s >= lastShutterTS}
NewRows == {s \in ShutterRows : s > lastShutterTS}

Found(e) == event' = e /\ pollPc' = "send"

(* queryNewestShutterBlock returns the only new row, or none;               *)
PollStandard_NoZeroCheck ==
  /\ Mode = "standard" /\ pollPc = "poll"
  /\ IF NewRows = {} THEN Found(NoBlock) /\ UNCHANGED lastShutterTS
     ELSE \E s \in NewRows : /\ NewRows = {s} /\ lastShutterTS' = s
                             /\ Found([block |-> s, target |-> 0])
  /\ UNCHANGED <<nextShutterSlot, dbVars, mainVars>>
PollStandard_Newest ==
  /\ Mode = "standard" /\ pollPc = "poll"
  /\ \E s \in NewRows : /\ s = Max(NewRows) /\ lastShutterTS' = s
                        /\ Found([block |-> s, target |-> 0])
  /\ UNCHANGED <<nextShutterSlot, dbVars, mainVars>>
PollStandard ==
  /\ Mode = "standard" /\ pollPc = "poll"
  /\ \E s \in NewRows : /\ NewRows = {s}
                        /\ lastShutterTS' = s
                        /\ Found([block |-> s, target |-> 0])
  /\ UNCHANGED <<nextShutterSlot, dbVars, mainVars>>

(* a second row ends the process (log.Fatal);                               *)
FindMultiple ==
  /\ Mode = "standard" /\ pollPc = "poll" /\ Cardinality(NewRows) > 1
  /\ pollPc' = "fatal"
  /\ UNCHANGED <<lastShutterTS, nextShutterSlot, event, dbVars, mainVars>>

(* and so does an error of this query or of the first one (panic).          *)
QueryFails ==
  /\ pollPc = "start" \/ (Mode = "standard" /\ pollPc = "poll")
  /\ pollPc' = "panic"
  /\ UNCHANGED <<lastShutterTS, nextShutterSlot, event, dbVars, mainVars>>

(* queryGraffitiNextShutterBlock: the newest block of any proposer is the   *)
(* trigger, the next slot of an active validator is the target.             *)
CurrentBlock == Max(db)
NextSlots == {s \in Slot : s > CurrentBlock /\ proposer[s] \in active}

(* Not the slot that was returned before, and not the one right after it.   *)
Apart_AnyLater(target) == target > nextShutterSlot
Apart_None(target) == TRUE
Apart(target) == target > nextShutterSlot + 1

PollGraffiti ==
  /\ Mode = "graffiti" /\ pollPc = "poll"
  /\ db # {} /\ NextSlots # {}
  /\ LET target == Min(NextSlots)
     IN /\ Apart(target) /\ proposer[target] \in Matching
        /\ nextShutterSlot' = target
        /\ Found([block |-> CurrentBlock, target |-> target])
  /\ UNCHANGED <<lastShutterTS, dbVars, mainVars>>

-----------------------------------------------------------------------------
(* The channel is unbuffered: the poller waits while the main loop checks,  *)
(* sends and collects statistics.                                           *)
Receive ==
  /\ pollPc = "send" /\ ~busy
  /\ received' = Append(received, event) /\ busy' = TRUE
  /\ event' = NoBlock /\ pollPc' = "poll"
  /\ UNCHANGED <<lastShutterTS, nextShutterSlot, dbVars>>

FinishBlock ==
  /\ busy /\ pollPc \notin {"fatal", "panic"} /\ busy' = FALSE
  /\ UNCHANGED <<received, dbVars, pollVars>>

-----------------------------------------------------------------------------
Poll == Start \/ PollStandard \/ FindMultiple \/ PollGraffiti
Database == \/ \E block \in BOOLEAN : NewSlot(block)
            \/ \E v \in Validator : ChangeStatus(v)

Next == Poll \/ QueryFails \/ Receive \/ FinishBlock \/ Database

Spec == Init /\ [][Next]_vars

(* The poller and the main loop are goroutines of a running process; the    *)
(* database owes nothing, and no failure has to happen.                     *)
FairSpec == Spec /\ WF_vars(Poll) /\ WF_vars(Receive) /\ WF_vars(FinishBlock)

-----------------------------------------------------------------------------
(* Each event is about a newer block than the one before: the block number  *)
(* is the identity prefix and the value of the transaction sent for it, so   *)
(* no two transactions of a run can be taken for each other.                 *)
TriggersIncrease == \A i, j \in DOMAIN received :
                       i < j => received[i].block < received[j].block

(* Nothing shutterized is passed over: a block older than the newest one the *)
(* poller knows was handed over, or is being handed over, or came before the *)
(* first query.  (The query asks for the proposers that are active now, so a *)
(* change of status may hide a block: this and Triggered are about runs      *)
(* without one.)                                                             *)
Handed == {received[i].block : i \in DOMAIN received} \cup {event.block}
FirstHanded == Min({received[i].block : i \in DOMAIN received})
NoneSkipped == flips = 0 /\ received # <<>> =>
   \A s \in shutterized : FirstHanded <= s /\ s <= lastShutterTS => s \in Handed

(* A slot is targeted before it comes (as far as the poller can tell), by a  *)
(* validator whose graffiti is wanted, and never twice: the transactions for *)
(* one slot do not compete.                                                  *)
TargetsApart == \A i, j \in DOMAIN received :
   /\ i < j => received[i].target + 1 < received[j].target
   /\ received[i].block < received[i].target
   /\ proposer[received[i].target] \in Matching

(* A shutterized block that comes after the first query is handed over,      *)
(* unless the process ends first.                                            *)
Triggered == \A s \in Slot :
   (s \in shutterized /\ pollPc # "start" /\ s > lastShutterTS)
   ~> (s \in Handed \/ pollPc \in {"fatal", "panic"} \/ flips # 0)

-----------------------------------------------------------------------------
(* continuous/README.md:3: the test "sends special crafted transactions on   *)
(* each shutterized block".                                                  *)
EachShutterBlock == \A s \in Slot :
   (s \in shutterized /\ pollPc # "start" /\ s > lastShutterTS)
   ~> (s \in Handed \/ pollPc = "panic")
=============================================================================

# TLA+ models of shutter-tests

`shutter-tests` is a Go program that tests the Shutter encrypted mempool: it
sends encrypted transactions on every shutterized block (or before the slot of a
validator with a given graffiti), follows what becomes of them, and writes
statistics and "blame" files about validators that left them out. This directory
holds TLA+ modules of its concurrent core, TLC configurations that check them on
small instances, and proofs about them for the TLA+ proof system.
All paths below are relative to `src/`.

To check: `tlc -config <X>.cfg <Module>` for a run of `PROJECT.json`,
`tlapm <Module>Proofs.tla` for the proofs.

## The system

| component | source | state | operations | module |
|---|---|---|---|---|
| dispatcher | `main.go` | list of modes, wait group | `main`, `runContinuous`, `runCollector` | `LegacyTests` (the modes of the tests), the others in theirs |
| transaction life cycle | `continuous/continuous.go`, `continuous/tx.go` | `Status.txInFlight`, `txDone`; the fields of each `ShutterTx`; account nonces | `CheckTxInFlight`, `SendShutterizedTX`, `WatchTx`, `forfeitNonce`, `NextAccount` | `ContinuousTx`, `TxLedger` |
| block poller | `continuous/continuous.go` | `lastShutterTS`, `nextShutterSlot` | `QueryAllShutterBlocks`, `queryNewestShutterBlock`, `queryGraffitiNextShutterBlock` | `ShutterBlocks` |
| block cache and statistics | `continuous/collector.go` | `BlockCache` | `CollectContinuousTestStats`, `collectSubmitIncomingTx`, `collectSequencerEvents`, `PrimeBlockCache`, `WatchHeads` | `BlockCache` |
| blame attribution | `continuous/collector.go` | none of its own | `blameValidator`, `queryWhoToBlame`, `queryStatusRatios` | `Attribution`; its panic in `BlockCache` |
| accounts, configuration | `continuous/account.go`, `continuous/config.go`, `utils/utils.go` | key file, funded accounts, nonces | `createConfiguration`, `retrieveAccounts`, `createAccounts`, `fundNewAccount`, `StoreAccount`, `ReadPks` | `Accounts` |
| database connection | `continuous/db.go` | one pool | `GetConnection` | none: first used by the poller, before any event |
| legacy tests | `tests/`, `requests/` | pending nonce at the node; the counters of send-wait | `SendAndCheckTransaction`, `SendLegacyTx`, `WaitForReceipt`, `CancelTx`, `RunChiadoTransactions` | `LegacyTests` |
| nonce repair, draining | `utils/utils.go`, `stress/stress_test.go` | none of their own: the node's pool, `pk.hex` | `FixNonce`; `TestEmptyAccounts`, `Drain` | `NonceRepair`, `Accounts` |
| stress tests | `stress/` | none that outlives a test | `transact` | none |
| bindings, SQL, plots | `utils/deposit_contract.go`, `plot/` | | | none: generated code, scripts |

How they interact. `runContinuous` starts two goroutines, the poller and the
primer of the block cache, and is itself the main loop. The poller hands it a
block over an unbuffered channel; for every block it runs `CheckTxInFlight`, then
`SendShutterizedTX`, then (every 12 seconds at most) the statistics. Every
transaction sent starts one `WatchTx` goroutine, which shares the `ShutterTx`
record with the main loop: it writes status and blocks, the main loop reads them
and calls the cancel function of the record's context. The mutex
`statusModMutex` is only ever taken by the main loop, so it protects the slices
from nobody and the records not at all. The primer shares the cache with the
statistics. Before all that, `createConfiguration` reads and extends the key file and
funds the accounts. The other modes are one goroutine each; what they share is
the key, hence the nonces at the node. `FixNonce` and `Drain` are run by hand,
on what the others left at the node and in `pk.hex`. The node, the sequencer
contract and the observer database are outside.

What is hard here: records read while they are written, field by field; a
cancellation or deadline that races a receipt; two transactions (the inner one and
the transfer that forfeits its nonce) racing for one nonce on the chain; an event
that grows stale in the channel; a cache filled from two sides with requests that
fail; a node whose pool another process, or an earlier run of this one, has filled;
a set-up that is interrupted and repeated; integers that wrap; and waits that must
end. The `hazards` of `PROJECT.json` list each at its
line with the properties that cover it.

What makes each component correct:
* life cycle: no transaction is lost or counted twice; accounts rotate; a
  transaction is given up early only because another one was included; verdicts
  are final; goroutines end; finished transactions are retired;
* poller: every shutterized block is handed over, once and in order; targets do
  not compete;
* statistics: cache and result hold exactly what the chain holds; a success is not
  taken back; a failure has a cause outside the collection; collections end; blame
  and lateness agree, and later reports agree with earlier ones;
* set-up: what was funded can be found again, as far as the file allows, and is not funded twice; the test
  starts with nonces that nobody has or will have; set-up and draining end;
* tests: nonces follow each other; a timeout is a failure of the attempt and not of
  the test; "confirmed in the meantime" has a cause; attempts end;
* repair: it loses nothing that is pending, adds nothing beyond it, and it ends.

## Modules

### `ContinuousTx` — the transaction life cycle

State: `txInFlight` and `txDone` as sequences; each field of `ShutterTx` as a
function of the transaction's number (`sender`, `innerNonce`, `triggerBlock`,
`submissionBlock`, `inclusionBlock`, `cancelBlock`, `txStatus`, `ctx`);
`accountNonce`; the position and the locals of `CheckTxInFlight` (`mainPc`,
`idx`, `highestInclusion`, `newInflight`, `newDone`); the position `pc[i]` of each
goroutine; and the chain.

| code | actions |
|---|---|
| event received, `CheckTxInFlight` entered (`main.go:95-99`) | `ReceiveBlock` |
| first pass, one element at a time (`continuous.go:219-223`) | `ReadInclusion`, `EndPass1` |
| second pass (`continuous.go:224-245`) | `Judge` (one read of status and submission block), `CancelTx`, `EndPass2` |
| `SendShutterizedTX` | `Send`, `SendPanics`, and `SendBounded` at the bound |
| `WatchTx`, wait for the submission (`tx.go:171-196`) | `OuterMined`, `WriteSubmissionBlock`, `OuterContextDone`, `OuterLost` |
| `WatchTx`, wait for the inclusion (`tx.go:205-250`) | `InnerIncluded`, `WriteInclusionBlock`, `InnerContextDone`, `InnerLost` |
| `forfeitNonce` | `ForfeitSent`, `ForfeitRefused`, `ForfeitMined`, `ForfeitLost`, `ForfeitPanics` |
| the 20 minutes are over (`tx.go:151`) | `Deadline` |
| chain (external) | `NewBlock` |

Grain. Each read or write of a field that the other side may access is a step of
its own; `OuterMined` stores the status and `WriteSubmissionBlock` the block, in
the program's order, so that the main loop can see one without the other. (A data
race may reorder the stores on some machines; the model assumes program order.)
A wait and the check of the context that follows it are one step: the context
overrules the result of the wait, so a receipt followed by the end of the context
is the same as the end of the context. `Deadline` happens only where the context
is read again. `Send` is one step because nobody sees its parts before
`AddTxInFlight`. The transactions of one run have strictly increasing triggers;
that this is so in standard mode, and not always in graffiti mode, is what
`ShutterBlocks` is about.

The chain accepts submissions in the order of the submit account's nonces, an
inner transaction in a block after its submission, and per sender one transaction
for each nonce in order: the inner one or the forfeiture. What a block contains is
otherwise arbitrary.

A panic (`SendPanics`; the nil receipt of `tx.go:191`; `err.Error()[0:8]` of a
short message) sets `crashed`, after which nothing happens.

### `TxLedger` — what the life cycle promises

A transaction is pending, gets at most one verdict, is signalled only if another
one is included, and is retired for good once signalled, included or given up.
`ContinuousTx!ImplementsLedger` is the refinement: `pending` is the set of
`txInFlight`, `signalled` are those with a `cancelBlock`, `verdict` is the
final status. A status `NotSequenced` maps to no verdict of the ledger: the
refinement also says that it is never stored.

### `ShutterBlocks` — the poller

State: the database (`proposer`, `active`, `slot`, `db`), the poller
(`lastShutterTS`, `nextShutterSlot`, its position and the event it offers), the
main loop reduced to `busy`, and the history of what it received. A block is
named by its slot: numbers and timestamps grow with it and the code only compares
them. `Start`, `PollStandard`, `FindMultiple` (the `log.Fatal`), `QueryFails`
(the panic, also of the first query), `PollGraffiti`, `Receive`, `FinishBlock`; the database moves by
`NewSlot` and `ChangeStatus`. The join with `validator_status` uses the status at
the time of the query, not of the block: that is why `ShutterRows` is computed
from `active`.

### `BlockCache` — the statistics

State: the chain (`outerAt`, `innerAt` fixed at the start and visible up to
`head`), the keys of the cache, the locals of a collection, the last blame file,
and the primer. Look-up and store are separate steps (`LookHit`, `LookMiss`,
`Store`; `PrimeHit`, `PrimeMiss`, `PrimeStore`), so that collector and primer
interleave between them. `FetchFails` is the swallowed error of
`collector.go:266`; `NoDelays` the early return of `collector.go:679`;
`CollectFails` the other errors; `BlamePanics` the nil pointer of
`collector.go:366`. `SubscriptionLost` leaves the primer waiting for ever, as the
goroutine that would close its channel starts only after the loop over it.
`MaxKey` walks a `sync.Map` that is being stored to; as the keys form an interval
that only grows, what it returns was the greatest key at some moment of the walk,
so one step reads it.

### `Attribution` — blame and lateness

Extends `ShutterBlocks` by what reports compute from the same database. A submission
is sequenced in some block after its trigger (`SequencedIn`, external); the
properties are about each such block, so no variable is needed. `Blamed` is the query of
`queryWhoToBlame`, asked anew in each state, as every report asks the database anew;
`Late` is the comparison of `queryStatusRatios` with the target slot kept in memory.
A block is its slot here too; the zero value 0 stands for no block to blame.

### `LegacyTests` — dispatcher, send-wait, chiado

State: the node (`mined`, `pool`, and `countsPool`: whether its pending nonce counts
the pool, or, as with an encrypting RPC server, neither that nor a replacement is
noticed), the position and the nonce of each mode, the transaction that
send-wait waits for, its counters, and how the process ended.

| code | actions |
|---|---|
| start of a mode (`main.go:33-52`, `sendtx.go:10-13`, `sendwaittx.go:62-72`) | `StartChiado`, `StartSendWait` |
| `SendLegacyTx`, two requests | `ReadNonce`; `SendTick`, `SendTest`, `SendRefused`; `SendLegacyTxFails` |
| `WaitForReceipt` | `ReceiptFound`, `ReceiptTimeout`, `WaitFails` |
| `CancelTx` | `Cancel`, `CancelRefused`, `CancelFails` |
| the check after a failed cancellation (`sendwaittx.go:41-55`) | `Check`, `CheckRefuted`, `CheckFails` |
| end of the test; `wg.Wait()` | `TestOver`, `WaitGroup` |

`log.Fatalf` in any mode ends the process of all modes: `Stop("fatal")`. A request
can fail with the transaction accepted or not (`SendFails`). Gnosis is chiado's code
at another node and shares nothing with the others there.

### `NonceRepair` — `FixNonce`

Extends `LegacyTests`: when its program is over, `FixHead`, `FixPending`, then for
each round `FixRound` (the second reading of the head nonce) and `FixSend`, then
`FixWait`, `FixMined`, `FixDone`; `FixFails` is each of the returned errors. The
chain goes on at any moment (`FixMine`), between the two readings of a nonce too.

### `Accounts` — the set-up

State: the key files (`pkHex`, `otherFile`; `sameFile` if `CONTINUOUS_PK_FILE` is
`pk.hex`), the submit account and the funded accounts at the node, the locals of
`createConfiguration`, the nonces of the configuration. A file is the sequence of
the pieces that `StoreAccount` writes, `ReadPks` the splitting into words of which
only a whole key is taken, so that a torn line swallows the key appended to it.

| code | actions |
|---|---|
| `createConfiguration` up to `config.go:91` | `Start` |
| `retrieveAccounts`, `createAccounts` | `Retrieve`, `NoFile` (the panic) |
| `StoreAccount` | `StoreAccount`, `StoreTorn`, `AllStored` |
| `fundNewAccount` | `FundEnough`, `FundLacks`, `FundSend`, `FundRefused`, `FundMined` |
| the nonce after the funding (`config.go:110-115`) | `AllFunded` |
| the test, as far as nonces go | `Submit`, `SubmitRefused` |
| the end of the process anywhere | `Crash` |
| `TestEmptyAccounts`, `Drain` | `DrainStart`, `DrainEmpty`, `Drain`, `DrainMined`, `DrainDone` |

Amounts are scaled: `Target` is `MinimalFunding`, `2 * Int64` the 2^64 of the
code's integers, a gas price is the whole price of a transaction. `AsInt64` and
`Uint64` wrap as `big.Int.Int64` and `big.Int.Uint64` do. `Drain` is modelled on a
node that answers; its errors are logged and lead to the same wait. The set-up's
`pk.hex` is taken to be the one in the directory of the stress tests, where
`TestEmptyAccounts` looks for it.

## Runs

| run | question | instance |
|---|---|---|
| `ct_ledger` | `TypeOK`, `LedgerComplete`, `RoundRobin`; under fairness `WatcherEnds`, `FinishedRetires` | 3 transactions, 2 accounts, 3 blocks |
| `ct_verdicts` | `IInv`, `CancelJustified`, `NeverNotSequenced`, `VerdictOnce`, `ImplementsLedger` | 2 transactions, 1 account, 4 blocks |
| `sb_standard` | `TypeOK`, `TriggersIncrease`, `NoneSkipped`, `BlameStays`; under fairness `Triggered` | module `Attribution`: 5 slots, 2 validators, 1 status change |
| `sb_graffiti` | `TriggersIncrease`, `TargetsApart`, `BlameAgreesWithTarget` | module `Attribution`: 6 slots, one wanted validator of two, no status change |
| `lt_repair` | `TypeOK`, `OneAfterAnother`, `TimeoutsSurvived`, `ConfirmedHasCause`, `RepairKeepsNonces`; under fairness `AttemptEnds`, `FixEnds` | module `NonceRepair`: two modes, 2 sends, 2 prices, both kinds of node |
| `acc_setup` | `TypeOK`, `NeverOverfunded`, `FundedIsRecoverable`, `AccountsReused`, `FundingAccepted`, `SubmitNonceUsable`, `InnerNonceFresh`; under fairness `SetupEnds`, `DrainEnds` | 2 runs, 2 accounts, 2 submissions, files with 0 or 3 keys, balances 0 or 7 |
| `bc_stats` | `CacheInv`, `Contiguous`, `FailedHasCause`, `SuccessKept`; under fairness `CollectEnds` | 5 blocks, 2 transactions |

Bounds. A cancellation needs two transactions and four blocks (two submissions,
an inclusion, the shutterized block that finds it), three if the block of the
submission is not stored yet; with one account the transactions also compete for
nonces. Rotation needs more transactions than accounts; three transactions are
needed for a list that loses one in the middle. At `MaxBlock` the last block may be received again, for a check
only, so that what finished last can still be retired; at `MaxTx` nothing more is
sent (`SendBounded`). Five slots let the poller miss two blocks between two polls
and go on; `MaxSlot` is also the lookahead of `proposer_duties`. A success that
could be taken back needs an inclusion in the last block of a range and a further
block, five in all. `NoneSkipped`,
`Triggered` and `BlameAgreesWithTarget` speak of runs without a change of status, and
`sb_graffiti` has none: a validator that leaves hides its older blocks from the query, and in graffiti mode
makes the next slot jump, so that one block can trigger two transactions with the
same identity prefix. Two sends in all are the least with which send-wait follows
itself, is overtaken by chiado, or leaves two nonces for `FixNonce`; with two prices
a cancellation can be better paid or not, and twice the suggestion can be no
better than what it is to replace. In `acc_setup` the second run meets what the first
left behind at any step, in files and pool; three initial keys are one more than are taken; with the
integers of width 8 (`Int64 = 4`) and `Target = 2` a balance of 7 makes the
difference wrap, and the gas price 2 can exceed a balance; two submissions make
the nonces of one account follow each other within a run and across the restart.
Draining is done once, after which no run starts. Deadlock is not
checked: the program may panic or exit, and the bounds stop the models.

Fairness. Goroutines of a running process are scheduled: weak fairness of
`MainStep`, of each `WatchTx(i)`, of `Poll`, `Receive`, `FinishBlock`, `Collect`,
`Prime`; of the steps of send-wait and chiado (`SendWaitStep`, `TickStep`) and of
`FixNonce` (`FixStep`); of `SetupStep` and `DrainStep`. Blocks are mined from what is
in the pool (`Mine`, `FixMine`). Timers fire: `Deadline(i)`. Blocks keep arriving, `Chain`, with arbitrary
contents, and some of them are shutterized (`ReceiveBlock` is part of
`MainStep`). No fairness for failures, so that no property rests on a failure.
`WatcherEnds` allows a goroutine to stay for ever in the wait of `forfeitNonce`, and
nowhere else, and only if no block ever holds its transfer: that wait
has no deadline, and behind a nonce gap it does not end. `SetupEnds` needs no
such exception: a funding transaction is sent at the head nonce or directly after
the one that was just mined, so there is no gap below it. After a refusal `FixNonce` and `Drain`
wait for a transaction that the node does not have: `FixEnds` states the conditions under
which nothing is refused, `DrainEnds` at which accounts draining can hang.

### Where the code and its documents differ

Each run below checks what a comment or a README says and TLC refutes it.

* `ct_comment_cancel` (`continuous.go:228`): a cancellation for an inclusion that
  is not after the submission, since `Sequenced` is stored before the block.
* `ct_comment_signal` (same line): when a check begins, one transaction is `Sequenced`
  and the stored inclusion block of another one is later; when it has ended, the first
  one is in flight still, neither cancelled nor included nor failed by itself. The other one was
  retired by an earlier check, and `highestInclusion` is taken over `txInFlight`
  only. With `txDone` included in `ReadInclusion` the same property holds in every
  behaviour, those with a deadline or a lost subscription among them, so that it is this
  order that the counterexample shows and nothing else.
* `sb_each_block` (`continuous/README.md:3`): two new rows end the process.
* `bc_no_file` (`continuous/README.md:46`): no blame file without a success.
* `lt_modes` (`README.md:37-45`): `main.go:22` declares a new `cfg`, so chiado and
  gnosis panic in `time.NewTicker` and send-wait is over at once. The run starts
  where `main` does (`MainInit`); `lt_repair` also has the configuration loaded, as
  the code means it, since that is what the tests behind it are about.

Other differences the models have as behaviours, without a run of their own: the
status `NotSequenced` (`tx.go:77`) is never stored (`NeverNotSequenced`);
`NotIncluded` (`tx.go:78`) is also stored for a transaction that won the race
against the forfeiture of its nonce; and in graffiti mode an event may reach the
main loop after its target slot. Of the set-up: new keys are stored in `pk.hex` of the
working directory and not in the file of `CONTINUOUS_PK_FILE`
(`continuous/README.md:32`), so that with two files each restart funds new
accounts (no more than `NumFundedAccounts` for each run, says `AccountsReused`); a key file that does not exist
makes the first start panic; a key appended to a torn line is lost, and with it that of the torn line if
that was complete (so `FundedIsRecoverable` allows two for each torn line); what
an interrupted run left pending can have the nonces of the next run (`left`); an account
that is rich enough makes `missing` wrap and the set-up fail. Of the tests:
"Transaction confirmed in the meantime" (`sendwaittx.go:50`) is also said while
the transaction merely pends, when the cancellation was refused for not paying
more; with a node that hides its pool send-wait uses nonce `n` again instead of
`n + 1` (`README.md:42`); a deadline that passes during a request ends the process. Of
the repair: `PendingNonceAt` stops at the first gap, so `FixNonce` does not
close gaps (`stress/README.md:26`), and it can open one when a block overtakes it (no
wider than the blocks mined meanwhile, says `RepairKeepsNonces`). `Drain`
waits for ever for a transaction that was refused.

## Proofs

Every safety property that a passing run checks is also a theorem, for every value
of the constants that the named assumptions allow; the runs show it on a small
instance. `TriggersIncrease`, `NoneSkipped` and `BlameAgreesWithTarget` are proved under the
condition, and `TargetsApart` for the mode, in which they are checked.

| module | about | theorems (property) |
|---|---|---|
| `ContinuousTxProofs` | statuses and cancellations | `Inductive` (`IInv`), `TypeCorrect` (`TypeOK`), `CancelIsJustified` (`CancelJustified`), `NotSequencedIsDead` (`NeverNotSequenced`), `VerdictIsFinal` (`VerdictOnce`) |
| `ContinuousTxLedgerProofs` | the two lists, the refinement | `LedgerInductive`, `NothingLost` (`LedgerComplete`), `SendersTakeTurns` (`RoundRobin`), `LifeCycleImplementsLedger` (`ImplementsLedger`), `LeftOutIsExplained` |
| `TxLedgerProofs` | the abstract ledger | `RetiredOnlyIfSettled`, `LeftOutOnlyWithCause` |
| `ShutterBlocksProofs` | `ShutterBlocks` and `Attribution` | `PollerTypes` (`TypeOK`), `EventsIncrease` (`TriggersIncrease`), `TargetsStayApart` (`TargetsApart`), `NothingSkipped` (`NoneSkipped`), `BlameAgrees` (`BlameAgreesWithTarget`), `BlameIsFinal` (`BlameStays`) |
| `BlockCacheProofs` | `BlockCache` | `CacheInductive` (`CacheInv`), `CacheIsContiguous` (`Contiguous`), `FailuresHaveCause` (`FailedHasCause`), `SuccessIsKept` (`SuccessKept`) |
| `LegacyTestsProofs` | `LegacyTests` and `NonceRepair` | `NoncesFollow` (`OneAfterAnother`), `TimeoutsAreSurvived` (`TimeoutsSurvived`), `ConfirmationsHaveCause` (`ConfirmedHasCause`), `RepairReplacesOnly` (`RepairKeepsNonces`), `NoncesBounded` (`TypeOK`) |
| `AccountsProofs` | `Accounts` | `SetupTypes` (`TypeOK`), `FundedOnce` (`NeverOverfunded`), `FundingIsAccepted` (`FundingAccepted`), `SubmitNonceIsUsable` (`SubmitNonceUsable`), `InnerNoncesAreFresh` (`InnerNonceFresh`), `FundsAreRecoverable` (`FundedIsRecoverable`), `AccountsAreReused` (`AccountsReused`) |
| `MinMaxLemmas` | least and greatest elements | lemmas that the others cite |

Assumptions. Numbers of accounts, transactions, blocks and slots are positive
natural numbers, the bounds natural numbers, prices positive; the sets of
validators of interest and of initial keys are what the names say (`MatchingAssumption`,
`KeysAssumption`: a finite, non-empty set of numbers); `Target` is positive and
smaller than `Int64` (0.5 ETH is less than 2^63 wei). TLC evaluates all of them.

### The arguments

*Life cycle.* `IInv` is inductive; none of `CancelJustified`, `NeverNotSequenced` and
`VerdictOnce` is alone. It says which statuses go with each
position of a goroutine (`WatchInv`: an inclusion block is only there when the
status is `Included` for good); that a non-zero `highestInclusion` is the block of
a transaction that is included for good (`HighestHasWitness`); and that between
`Judge` and `CancelTx` there is a witness other than the judged transaction
(`JudgedToCancel`: it was `Sequenced` when judged and so cannot be the included
one). Included is final, so the witness is still there when the cancellation is
recorded, whatever the goroutines did in between.

*Lists.* `LedgerInv` says of each position of `CheckTxInFlight` what the new lists
are made of: what was judged so far and what was done before, each once
(`LocalLists`). That nothing is lost then is a matter of lengths and of sets. To
it belong that whom the loop gave up has a reason (`DoneSettled`), that a context is
cancelled only by the loop or by the deadline (`CancelledByLoop`), and that the sender of a
transaction and its nonce are the remainder and the quotient of its number
(`SenderByNumber`), from which the turns and the differences of `RoundRobin` follow.

*Refinement.* Under `IInv /\ LedgerInv` a step of the life cycle that retires, sends,
cancels or stores a final status is the step of `TxLedger` of that name, and every other one
leaves the mapped variables alone. `TxLedgerProofs` shows what the ledger promises: a retired
transaction is settled (`RetiredIsSettled`), and one that is reported as left out
has another, included one as its cause (`LeftOutHasCause`): a signal has a cause, who was left
out was signalled, and verdicts do not change. `LeftOutIsExplained` carries that
back over the refinement to the statuses of the code.

*Poller.* In standard mode `lastShutterTS` is the block of the newest event
(`StandardInv`), so that each event is newer than those before, whatever becomes of
the validators. In graffiti mode `nextShutterSlot` is at or above every target
(`GraffitiInv`). `SteadyInv` is about the time before any validator changes its
status: the query sees what was shutterized, a target is the next slot of an active
validator after its trigger, and between two blocks that were handed over none was
left out, which is `NoneSkipped` and the agreement of blame and target. `EventsIncrease`
is stated with that condition for graffiti mode, where it is needed: a change of
status moves the target, and the same block triggers again. `BlameStays` has no such
condition: new blocks come after all others, so the first row of the query moves only
if the old one is filtered out or an earlier one appears, and both take a proposer that
the step switches.

*Statistics.* Both readers of the cache start at a cached block or at
`startBlock` and leave only cached blocks behind (`Behind`, `PrimerInv`), so what
they store is the next key. A blame file is made of cached blocks `startBlock..upto`;
later ranges end later; a look-up of a cached block does not fail; so a later
collection passes `upto` before it reports, and finds what was found before
(`BlameInv`).

*Tests and repair.* The node's pending nonce is free, and everything below it is
taken (`PendingIsFree`, by the pigeonhole principle on the finite pool). With that,
`NoncesInOrder` says that the nonces used are 0, 1, 2 and so on, each
mined or pending; a timeout finds the transaction where it was, and a cancellation is refused for one
of two reasons (`CheckHasCause`). `RepairInv` is about the nonces `FixNonce` found, until a
block overtakes it; `OvertakenInv` about what remains of that when one does: the head
nonce of a round is at most the head, so that a block shifts what is sent by one. The bounds of the types need a count: there are never more nonces
taken than questions asked plus rounds of the repair (`NodeTypes`).

*Set-up.* A pending funding transaction always has the head nonce, and what it brings
does not exceed what its account lacks; a repetition is sent at the head nonce
too, and the pool holds one transaction for a nonce, so that only one of them is
ever mined (`FundingInv`). What is pending when a run starts is remembered (`left`);
whatever else is mined or pending from then on is the run's own and below its next nonce,
and that nonce has no gap below it (`LeftInv`), from which the acceptance of every
funding transaction and the nonce of the test follow; the 64 bit conversion is the identity
between `-Int64` and `Target`. The inner nonces of a run only grow (`RunInv`); those of an
account that is not `risky` are at or above that of the account and above those pending
(`FreshInv`). A key is in a file before it gets money: a line that is appended to whole
lines adds its key as the last word and changes no other (`LineAppended`), while one that is
appended to a torn line loses its own key and at most the last word before it
(`JoinKeeps`, `OneMore`), so that the keys that cannot be read are counted by the torn
lines (`FileInv`: `Lost`, and `Open` for the last line). With one file and no torn line the first accounts of the
file are those that are used (`ReuseInv`); otherwise it is a count: a run lists at most
`NumFundedAccounts` (`CountInv`). That the words of a file can be numbered, and
that `ReadPks` lists each once, is proved from cardinalities (`NthExists`,
`RankUnique`, `ReadPksLists`).

`FundingAccepted` was wrong in its first form, and corrected: its exception was about the balance
of the account at the time of sending, while the code decides by the balance it read; inner
transactions of an earlier run can be paid for in between.

Only model-checked: the liveness properties (`WatcherEnds`, `FinishedRetires`,
`Triggered`, `CollectEnds`, `AttemptEnds`, `FixEnds`, `SetupEnds`, `DrainEnds`),
which need fairness and ENABLED, and are beyond the prover; and the runs that
show a violation.

## Not modelled

Reorganisations of the chain, of which the code knows nothing; contents of the cache
beyond its keys (validator information that could not be queried is cached as
unknown, and only printed); the decryption keys that a report prints, the
counts of the observer's own statuses, and the triggers without a submission
(which in graffiti mode are compared with the blocks of every active validator); gas
price functions, `Difference` and the conversion between block number and identity
prefix, which are pure arithmetic on big integers of a few lines each; encryption and
formatting; the `collect` mode, which is one collection without a primer; the
connection pool, which is created before anybody shares it; the stress tests,
which are scripts of tests that run one after the other against a live chain and
keep nothing between them; generated bindings, SQL and plots.

## Plan

The safety properties of all passing runs are proved. What is left: the variants behind the
liveness properties (that the main loop, a goroutine, the repair and the set-up make
finitely many steps of their own between two events) as action properties with proofs; and an
abstract specification of the set-up, to be refined by `Accounts` as `TxLedger` is
by `ContinuousTx`.

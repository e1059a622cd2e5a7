------------------------------- MODULE Accounts -------------------------------
(***************************************************************************)
(* The set-up of the continuous test: createConfiguration reads the keys   *)
(* of the accounts from a file, creates and stores the missing ones, funds *)
(* all of them from the submit account and then starts sending.  The       *)
(* process can end at any step and be started again.  After it, the funds  *)
(* can be drained from the accounts of pk.hex (utils.Drain, called for     *)
(* each of them by TestEmptyAccounts).                                     *)
(*                                                                         *)
(* The chain is external.  Amounts are scaled: Target stands for           *)
(* MinimalFunding (0.5 ETH), 2 * Int64 for the 2^64 of the code's integers.*)
(***************************************************************************)
EXTENDS Integers, Sequences, SequencesExt, FiniteSets, FiniteSetsExt, Functions

CONSTANTS NumFundedAccounts, Target, Int64, Prices,
          InitialKeys,     \* how many keys PkFile may hold before the first run
          InitialBalance,  \* their balances
          MaxRuns, MaxSubmissions   \* bounds

ASSUME CountAssumption == NumFundedAccounts \in Nat \ {0}
ASSUME AmountAssumption == Target \in Nat \ {0} /\ Int64 \in Nat /\ Target < Int64
ASSUME PricesAssumption == Prices \subseteq Nat \ {0}
ASSUME KeysAssumption == /\ InitialKeys \subseteq Nat /\ InitialBalance \subseteq Nat
                         /\ IsFiniteSet(InitialKeys) /\ InitialKeys # {}
ASSUME BoundsAssumption == MaxRuns \in Nat /\ MaxSubmissions \in Nat

VARIABLES
  sameFile,    \* CONTINUOUS_PK_FILE is pk.hex in the working directory
  present,     \* that file exists
  otherFile,   \* its content, if it is another file
  pkHex,       \* the content of pk.hex
  mined, pool,                      \* the submit account at the node
  balance, accountNonce, inner,     \* the funded accounts at the node
  pc, accounts, created, index, missing, own, submitNonce,  \* createConfiguration
  cfgNonce, innerNonce,             \* nonces in the configuration
  keys, runs, submissions,          \* how many there were
  funded,      \* history: the keys that a funding transaction was sent to
  left,        \* history: the nonces that were pending when this run started
  torn,        \* history: how many lines of pk.hex were not written completely
  risky,       \* history: accounts that may have got a nonce that is not their next one
  drainPc, toDrain, seen, drainTx   \* TestEmptyAccounts and Drain

fileVars  == <<sameFile, present, otherFile>>
chainVars == <<mined, pool, balance, accountNonce, inner>>
localVars == <<accounts, created, index, missing, own, submitNonce>>
cfgVars   == <<cfgNonce, innerNonce>>
countVars == <<keys, runs, submissions>>
histVars  == <<funded, left, risky>>
drainVars == <<drainPc, toDrain, seen, drainTx>>
vars == <<fileVars, pkHex, chainVars, pc, localVars, cfgVars, countVars,
          histVars, torn, drainVars>>

MaxKeys == Max(InitialKeys) + NumFundedAccounts * MaxRuns
Key == 1..MaxKeys
NoTx == [nonce |-> 0, to |-> 0, value |-> 0, price |-> 0]

-----------------------------------------------------------------------------
(* The key file, as the pieces that StoreAccount writes: a key k, a          *)
(* separator 0, its address -k, and a separator.  ReadPks splits the file at *)
(* separators and takes the words that are a key and nothing else.           *)
Line_NoNewline(k) == <<k, 0, -k>>
Line(k) == <<k, 0, -k, 0>>
FirstLines(n) ==
  LET w == Len(Line(1))
  IN [j \in 1..(w * n) |-> Line((j - 1) \div w + 1)[((j - 1) % w) + 1]]

IsWord(file, j) == /\ j > 1 => file[j - 1] = 0
                   /\ j < Len(file) => file[j + 1] = 0
KeyWords(file) == {j \in DOMAIN file : file[j] > 0 /\ IsWord(file, j)}
Rank(places, j) == Cardinality({l \in places : l <= j})
Nth(places, n) == CHOOSE j \in places : Rank(places, j) = n
ReadPks(file) ==
  [n \in 1..Cardinality(KeyWords(file)) |-> file[Nth(KeyWords(file), n)]]

PkFile == IF sameFile THEN pkHex ELSE otherFile

-----------------------------------------------------------------------------
TypeOK ==
  /\ sameFile \in BOOLEAN /\ present \in BOOLEAN /\ torn \in Nat
  /\ pc \in {"down", "retrieve", "store", "fund", "send", "wait", "ready"}
  /\ drainPc \in {"idle", "drain", "wait", "done"}
  /\ ToSet(accounts) \cup ToSet(created) \subseteq 1..keys
  /\ Len(accounts) + Len(created) <= NumFundedAccounts
  /\ keys \in 0..MaxKeys /\ runs \in 0..MaxRuns /\ submissions \in 0..MaxSubmissions
  /\ submitNonce \in Nat /\ cfgNonce \in Nat
  /\ balance \in [Key -> Nat] /\ accountNonce \in [Key -> Nat]

Init ==
  /\ sameFile \in BOOLEAN /\ present \in BOOLEAN
  /\ keys \in InitialKeys
  /\ otherFile = (IF sameFile THEN <<>> ELSE FirstLines(keys))
  /\ pkHex = (IF sameFile THEN FirstLines(keys) ELSE <<>>)
  /\ \E b \in InitialBalance : balance = [k \in Key |-> IF k <= keys THEN b ELSE 0]
  /\ mined = {} /\ pool = {} /\ accountNonce = [k \in Key |-> 0] /\ inner = {}
  /\ pc = "down" /\ accounts = <<>> /\ created = <<>> /\ index = 1 /\ missing = 0
  /\ own = NoTx /\ submitNonce = 0 /\ cfgNonce = 0 /\ innerNonce = [k \in Key |-> 0]
  /\ runs = 0 /\ submissions = 0 /\ funded = {} /\ left = {}
  /\ torn = 0 /\ risky = {}
  /\ drainPc = "idle" /\ toDrain = <<>> /\ seen = balance /\ drainTx = NoTx

-----------------------------------------------------------------------------
(* The node: nonces, and a pool in which a better price replaces.            *)
head == Cardinality(mined)
Pooled(n) == {t \in pool : t.nonce = n}
Accepts(t) == t.value >= 0 /\ t.nonce >= head /\ \A u \in Pooled(t.nonce) : u.price < t.price
With(t) == (pool \ Pooled(t.nonce)) \cup {t}

Mine == \E t \in Pooled(head) :
  /\ mined' = mined \cup {t} /\ pool' = pool \ {t}
  /\ balance' = IF t.to = 0 THEN balance ELSE [balance EXCEPT ![t.to] = @ + t.value]
  /\ UNCHANGED <<accountNonce, inner, fileVars, pkHex, pc, localVars, cfgVars,
                 countVars, histVars, torn, drainVars>>

(* An inner transaction can be included once its submission is.              *)
MineInner == \E t \in inner :
  /\ \E u \in mined : u.to = 0 /\ u.nonce = t.submission
  /\ t.nonce = accountNonce[t.key] /\ balance[t.key] > 0
  /\ inner' = inner \ {t}
  /\ accountNonce' = [accountNonce EXCEPT ![t.key] = @ + 1]
  /\ balance' = [balance EXCEPT ![t.key] = @ - 1]
  /\ UNCHANGED <<mined, pool, fileVars, pkHex, pc, localVars, cfgVars,
                 countVars, histVars, torn, drainVars>>

-----------------------------------------------------------------------------
(* createConfiguration.  When the process ends, all it knows is lost.       *)
Down ==
  /\ pc' = "down" /\ accounts' = <<>> /\ created' = <<>> /\ index' = 1 /\ missing' = 0
  /\ own' = NoTx /\ submitNonce' = 0 /\ cfgNonce' = 0
  /\ innerNonce' = [k \in Key |-> 0]

Crash ==
  /\ pc # "down" /\ Down
  /\ UNCHANGED <<fileVars, pkHex, chainVars, countVars, histVars, torn, drainVars>>

SubmitNonce_Pending == Min({n \in head..(head + Cardinality(pool)) : Pooled(n) = {}})
SubmitNonce == head

Start ==
  /\ pc = "down" /\ drainPc = "idle" /\ runs < MaxRuns
  /\ runs' = runs + 1 /\ pc' = "retrieve"
  /\ submitNonce' = SubmitNonce /\ cfgNonce' = SubmitNonce
  /\ left' = {t.nonce : t \in pool}
  /\ UNCHANGED <<fileVars, pkHex, chainVars, accounts, created, index, missing, own,
                 innerNonce, keys, submissions, funded, risky, torn, drainVars>>

(* retrieveAccounts panics without a file;                                   *)
NoFile ==
  /\ pc = "retrieve" /\ ~present /\ Down
  /\ UNCHANGED <<fileVars, pkHex, chainVars, countVars, histVars, torn, drainVars>>

(* it takes the first keys of the file and asks for their nonces.  A failed  *)
(* NonceAt is only logged, and leaves nonce 0.  createAccounts makes the     *)
(* keys that are missing.                                                    *)
Retrieved_All == ReadPks(PkFile)
Retrieved == LET ks == ReadPks(PkFile)
             IN SubSeq(ks, 1, Min({Len(ks), NumFundedAccounts}))
MissingKeys_All(found) == NumFundedAccounts
MissingKeys(found) == NumFundedAccounts - Len(found)
InnerNonces_Zero(failing) == [k \in Key |-> 0]
InnerNonces(failing) == [k \in Key |-> IF k \in failing THEN 0 ELSE accountNonce[k]]

Retrieve ==
  /\ pc = "retrieve" /\ present /\ pc' = "store"
  /\ accounts' = Retrieved
  /\ \E failing \in SUBSET ToSet(Retrieved) :
       /\ innerNonce' = InnerNonces(failing)
       /\ risky' = risky \cup failing \cup {t.key : t \in inner}
  /\ keys' = keys + MissingKeys(Retrieved)
  /\ created' = [j \in 1..MissingKeys(Retrieved) |-> keys + j]
  /\ UNCHANGED <<fileVars, pkHex, chainVars, index, missing, own, submitNonce, cfgNonce,
                 runs, submissions, funded, left, torn, drainVars>>

(* StoreAccount appends to pk.hex, whatever PkFile is.                       *)
StoreAccount ==
  /\ pc = "store" /\ created # <<>>
  /\ pkHex' = pkHex \o Line(Head(created))
  /\ accounts' = Append(accounts, Head(created)) /\ created' = Tail(created)
  /\ UNCHANGED <<fileVars, chainVars, pc, index, missing, own, submitNonce, cfgVars,
                 countVars, histVars, torn, drainVars>>

(* It writes in four pieces; an error or the end of the process between two  *)
(* of them leaves a part of the line.                                        *)
StoreTorn == \E n \in 1..3 :
  /\ pc = "store" /\ created # <<>> /\ Down
  /\ pkHex' = pkHex \o SubSeq(Line(Head(created)), 1, n) /\ torn' = torn + 1
  /\ UNCHANGED <<fileVars, chainVars, countVars, histVars, drainVars>>

AllStored ==
  /\ pc = "store" /\ created = <<>> /\ pc' = "fund"
  /\ UNCHANGED <<fileVars, pkHex, chainVars, localVars, cfgVars, countVars,
                 histVars, torn, drainVars>>

-----------------------------------------------------------------------------
(* fundNewAccount, for one account after the other.  big.Int.Int64 wraps.    *)
AsInt64(x) == ((x + Int64) % (2 * Int64)) - Int64
Lacks_Any(k) == AsInt64(Target - balance[k]) >= 0
Lacks(k) == AsInt64(Target - balance[k]) > Target \div 2

FundEnough ==
  /\ pc = "fund" /\ index <= Len(accounts) /\ ~Lacks(accounts[index])
  /\ index' = index + 1
  /\ UNCHANGED <<fileVars, pkHex, chainVars, pc, accounts, created, missing, own,
                 submitNonce, cfgVars, countVars, histVars, torn, drainVars>>
FundLacks ==
  /\ pc = "fund" /\ index <= Len(accounts) /\ Lacks(accounts[index])
  /\ missing' = Target - balance[accounts[index]] /\ pc' = "send"
  /\ UNCHANGED <<fileVars, pkHex, chainVars, accounts, created, index, own,
                 submitNonce, cfgVars, countVars, histVars, torn, drainVars>>

FundNonce_Next == submitNonce + 1
FundNonce == submitNonce
FundTx(price) == [nonce |-> FundNonce, to |-> accounts[index],
                  value |-> missing, price |-> price]

FundSend == \E price \in Prices :
  /\ pc = "send" /\ Accepts(FundTx(price)) /\ pc' = "wait"
  /\ pool' = With(FundTx(price)) /\ own' = FundTx(price)
  /\ submitNonce' = submitNonce + 1 /\ funded' = funded \cup {accounts[index]}
  /\ UNCHANGED <<fileVars, pkHex, mined, balance, accountNonce, inner, accounts, created,
                 index, missing, cfgVars, countVars, left, risky, torn, drainVars>>

(* A refused transaction, one of negative value among them, ends the set-up  *)
(* and with it the process.                                                  *)
FundRefused == \E price \in Prices :
  /\ pc = "send" /\ ~Accepts(FundTx(price)) /\ Down
  /\ UNCHANGED <<fileVars, pkHex, chainVars, countVars, histVars, torn, drainVars>>

(* bind.WaitMined without a deadline.                                        *)
FundMined ==
  /\ pc = "wait" /\ own \in mined /\ pc' = "fund" /\ index' = index + 1
  /\ own' = NoTx /\ missing' = 0
  /\ UNCHANGED <<fileVars, pkHex, chainVars, accounts, created, submitNonce,
                 cfgVars, countVars, histVars, torn, drainVars>>

(* The configuration has a copy of the submit account from before; its nonce *)
(* is asked for again.  The rest of it is read from the environment and      *)
(* changes nothing; an error there is Crash.                                 *)
AllFunded_Stale ==
  /\ pc = "fund" /\ index > Len(accounts) /\ pc' = "ready"
  /\ UNCHANGED <<fileVars, pkHex, chainVars, localVars, cfgVars, countVars,
                 histVars, torn, drainVars>>
AllFunded ==
  /\ pc = "fund" /\ index > Len(accounts) /\ pc' = "ready"
  /\ cfgNonce' = head
  /\ UNCHANGED <<fileVars, pkHex, chainVars, localVars, innerNonce, countVars,
                 histVars, torn, drainVars>>

-----------------------------------------------------------------------------
(* The test itself, as far as nonces go (see ContinuousTx): a submission and *)
(* the inner transaction of one of the accounts.                             *)
SubmitTx(price) == [nonce |-> cfgNonce, to |-> 0, value |-> 0, price |-> price]
Submit == \E k \in ToSet(accounts) : \E price \in Prices :
  /\ pc = "ready" /\ submissions < MaxSubmissions /\ submissions' = submissions + 1
  /\ Accepts(SubmitTx(price)) /\ pool' = With(SubmitTx(price))
  /\ inner' = inner \cup {[key |-> k, nonce |-> innerNonce[k], submission |-> cfgNonce, run |-> runs]}
  /\ cfgNonce' = cfgNonce + 1 /\ innerNonce' = [innerNonce EXCEPT ![k] = @ + 1]
  /\ UNCHANGED <<fileVars, pkHex, mined, balance, accountNonce, pc, localVars, keys, runs,
                 histVars, torn, drainVars>>
SubmitRefused == \E price \in Prices :
  /\ pc = "ready" /\ submissions < MaxSubmissions /\ ~Accepts(SubmitTx(price)) /\ Down
  /\ UNCHANGED <<fileVars, pkHex, chainVars, countVars, histVars, torn, drainVars>>

-----------------------------------------------------------------------------
(* TestEmptyAccounts: the balances as of one block, and Drain for each key   *)
(* of pk.hex that had one.  The gas costs as much as the price.  (Bound: it  *)
(* is done once, after the last run.)                                        *)
Uint64(x) == x % (2 * Int64)

DrainStart ==
  /\ pc = "down" /\ drainPc = "idle" /\ drainPc' = "drain"
  /\ toDrain' = ReadPks(pkHex) /\ seen' = balance
  /\ UNCHANGED <<fileVars, pkHex, chainVars, pc, localVars, cfgVars, countVars,
                 histVars, torn, drainTx>>

DrainEmpty ==
  /\ drainPc = "drain" /\ toDrain # <<>> /\ Uint64(seen[Head(toDrain)]) = 0
  /\ toDrain' = Tail(toDrain)
  /\ UNCHANGED <<fileVars, pkHex, chainVars, pc, localVars, cfgVars, countVars,
                 histVars, torn, drainPc, seen, drainTx>>

(* The unsigned difference may wrap; as int64 it may be negative.            *)
Remaining_WithGas(k, gas) == AsInt64(Uint64(seen[k]))
Remaining(k, gas) == AsInt64(Uint64(Uint64(seen[k]) - gas))

(* An error of SendTransaction is only logged.                               *)
Drain == \E gas \in Prices :
  /\ drainPc = "drain" /\ toDrain # <<>> /\ Uint64(seen[Head(toDrain)]) > 0
  /\ drainPc' = "wait"
  /\ LET k == Head(toDrain)
     IN drainTx' = [nonce |-> accountNonce[k], value |-> Remaining(k, gas), gas |-> gas,
                    sent |-> Remaining(k, gas) \in 0..(balance[k] - gas)]
  /\ UNCHANGED <<fileVars, pkHex, chainVars, pc, localVars, cfgVars, countVars,
                 histVars, torn, toDrain, seen>>

(* bind.WaitMined without a deadline, also for what was never sent.          *)
DrainMined ==
  /\ drainPc = "wait" /\ drainPc' = "drain" /\ drainTx.sent
  /\ LET k == Head(toDrain)
     IN /\ drainTx.nonce = accountNonce[k]
        /\ accountNonce' = [accountNonce EXCEPT ![k] = @ + 1]
        /\ balance' = [balance EXCEPT ![k] = @ - drainTx.value - drainTx.gas]
  /\ toDrain' = Tail(toDrain)
  /\ UNCHANGED <<fileVars, pkHex, mined, pool, inner, pc, localVars, cfgVars, countVars,
                 histVars, torn, seen, drainTx>>
DrainDone ==
  /\ drainPc = "drain" /\ toDrain = <<>> /\ drainPc' = "done"
  /\ UNCHANGED <<fileVars, pkHex, chainVars, pc, localVars, cfgVars, countVars,
                 histVars, torn, toDrain, seen, drainTx>>

-----------------------------------------------------------------------------
SetupStep == \/ NoFile \/ Retrieve \/ StoreAccount \/ AllStored \/ FundEnough
             \/ FundLacks \/ FundSend \/ FundRefused \/ FundMined \/ AllFunded
DrainStep == DrainEmpty \/ Drain \/ DrainMined \/ DrainDone

Next == \/ Mine \/ MineInner \/ Start \/ SetupStep \/ StoreTorn \/ Crash
        \/ Submit \/ SubmitRefused \/ DrainStart \/ DrainStep

Spec == Init /\ [][Next]_vars

(* The node mines what it has, and a process that runs goes on; nothing has  *)
(* to fail.                                                                  *)
FairSpec == Spec /\ WF_vars(Mine) /\ WF_vars(SetupStep) /\ WF_vars(DrainStep)

-----------------------------------------------------------------------------
(* However often the set-up is interrupted and repeated, an account never    *)
(* gets more than it lacks: the funding that is still pending and its        *)
(* repetition have the same nonce.                                           *)
NeverOverfunded == \A k \in funded : balance[k] <= Target

(* stress/README.md:41: "In order to allow for recovery of the used funds,   *)
(* all created accounts will be stored" - before they are funded, and such   *)
(* that they can be read again.  A torn line costs at most two of them: its  *)
(* own, if it could be read until something was appended to it, and the next *)
(* one, which is glued to it.                                                *)
Readable == ToSet(ReadPks(pkHex)) \cup ToSet(ReadPks(otherFile))
FundedIsRecoverable == Cardinality(funded \ Readable) <= 2 * torn

(* A restart finds the accounts of the runs before, if it looks for them     *)
(* where they were stored and no line was torn: no more than these are ever  *)
(* funded.  Otherwise each run may fund as many others, but not more.        *)
AccountsReused ==
   Cardinality(funded) <= NumFundedAccounts * (IF sameFile /\ torn = 0 THEN 1 ELSE runs)

(* What is sent is over more than half of the target, and the node takes it  *)
(* unless an earlier run left a transaction of that nonce: except for an     *)
(* account that was so rich when it was asked for its balance that what it   *)
(* lacks wraps around; then the value is negative and the set-up fails.      *)
FundingAccepted == pc = "send" =>
   \/ Target - missing > Int64
   \/ /\ missing > Target \div 2
      /\ \A price \in Prices : Accepts(FundTx(price)) \/ FundNonce \in left

(* Whatever is pending from earlier runs, the test leaves no gap below its   *)
(* next nonce, which would block all it sends; and its next nonces are taken *)
(* by nothing but what was left pending when this run started.               *)
SubmitNonceUsable == pc = "ready" =>
   /\ \A n \in head..(cfgNonce - 1) : Pooled(n) # {}
   /\ \A t \in mined \cup pool : t.nonce < cfgNonce \/ t.nonce \in left

(* No inner transaction takes the nonce of another one: of the same run, in  *)
(* every case; of any run, and of an included one, unless the nonce of this  *)
(* account could once not be queried or a run started while one of its inner *)
(* transactions was not included yet, or somebody drains.                    *)
InnerNonceFresh ==
   /\ \A t, u \in inner : t.key = u.key /\ t.run = u.run /\ t # u => t.nonce # u.nonce
   /\ drainPc = "idle" => \A t \in inner : t.key \notin risky =>
        /\ t.nonce >= accountNonce[t.key]
        /\ \A u \in inner \ {t} : u.key # t.key \/ u.nonce # t.nonce

(* The set-up comes to an end, as each of its waits does.                    *)
SetupEnds == pc \in {"retrieve", "store", "fund", "send", "wait"}
             ~> pc \in {"ready", "down"}

(* Draining ends, or it waits for ever for a transaction that was refused:   *)
(* at an account whose balance does not pay the gas or is too great, if      *)
(* nobody else uses the accounts.                                            *)
DrainEnds ==
   (drainPc = "drain" /\ inner = {} /\ \A k \in ToSet(toDrain) : seen[k] <= balance[k])
   ~> \/ drainPc = "done"
      \/ [](drainPc = "wait" /\ seen[Head(toDrain)] \notin Max(Prices)..(Int64 - 1))
=============================================================================

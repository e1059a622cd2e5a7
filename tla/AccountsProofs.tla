---------------------------- MODULE AccountsProofs ----------------------------
(***************************************************************************)
(* Proofs about the set-up of the continuous test (Accounts), for every    *)
(* number of accounts and runs, every target and every set of prices.      *)
(***************************************************************************)
EXTENDS Accounts, MinMaxLemmas, SequenceTheorems, FunctionTheorems, TLAPS

USE CountAssumption, AmountAssumption, PricesAssumption, KeysAssumption, BoundsAssumption

(* The keys that can be read from a file.                                    *)
KeysIn(file) == {file[j] : j \in KeyWords(file)}
Firsts == {ReadPks(pkHex)[n] : n \in DOMAIN ReadPks(pkHex) \cap 1..NumFundedAccounts}

(* The last line of a file is not complete; the keys that cannot be read.    *)
Open(file) == file # <<>> /\ file[Len(file)] # 0
Lost == (ToSet(accounts) \cup funded) \ (KeysIn(pkHex) \cup KeysIn(otherFile))

SettingUp == {"retrieve", "store", "fund", "send"}
Working == {"store", "fund", "send", "wait", "ready"}

(* The shape of the state.                                                   *)
Places ==
  /\ sameFile \in BOOLEAN /\ present \in BOOLEAN /\ torn \in Nat
  /\ pc \in {"down", "retrieve", "store", "fund", "send", "wait", "ready"}
  /\ drainPc \in {"idle", "drain", "wait", "done"}
  /\ pc # "down" => drainPc = "idle"
Counters ==
  /\ keys \in Nat /\ runs \in 0..MaxRuns /\ submissions \in 0..MaxSubmissions
  /\ keys + (IF pc = "retrieve" THEN NumFundedAccounts ELSE 0)
       <= Max(InitialKeys) + NumFundedAccounts * runs
Locals ==
  /\ accounts \in Seq(1..keys) /\ created \in Seq(1..keys)
  /\ Len(accounts) + Len(created) <= NumFundedAccounts
  /\ index \in Nat \ {0} /\ (pc \in {"send", "wait"} => index <= Len(accounts))
  /\ submitNonce \in Nat /\ cfgNonce \in Nat /\ missing \in Int
Files ==
  /\ pkHex \in Seq(Int) /\ \A j \in 1..Len(pkHex) : pkHex[j] <= keys
  /\ otherFile \in Seq(Int) /\ \A j \in 1..Len(otherFile) : otherFile[j] <= keys
Accts ==
  /\ balance \in [Key -> Nat] /\ accountNonce \in [Key -> Nat] /\ innerNonce \in [Key -> Nat]
  /\ \A t \in inner : t.key \in Key /\ t.nonce \in Nat
Draining ==
  /\ toDrain \in Seq(Key) /\ seen \in [Key -> Nat]
  /\ drainPc = "wait" =>
       /\ toDrain # <<>>
       /\ drainTx.nonce \in Nat /\ drainTx.nonce <= accountNonce[Head(toDrain)]
       /\ drainTx.sent /\ drainTx.nonce = accountNonce[Head(toDrain)] =>
            /\ drainTx.value \in Nat /\ drainTx.gas \in Nat
            /\ drainTx.value + drainTx.gas <= balance[Head(toDrain)]
Shape == Places /\ Counters /\ Locals /\ Files /\ Accts /\ Draining

NodeShape ==
  /\ IsFiniteSet(mined) /\ \A t \in mined : t.nonce \in Nat /\ t.nonce < head
  /\ IsFiniteSet(pool)
  /\ \A t \in pool : /\ t.nonce \in Nat /\ t.nonce >= head
                     /\ t.value \in Nat /\ t.to \in Key \cup {0}
  /\ \A t, u \in pool : t.nonce = u.nonce => t = u
FundingInv ==
  /\ \A t \in pool : t.to # 0 => t.nonce = head /\ balance[t.to] + t.value <= Target
  /\ pc \in SettingUp => submitNonce <= head
  /\ pc = "wait" => own.nonce + 1 = submitNonce
  /\ pc = "send" =>
       /\ missing <= Target /\ AsInt64(missing) > Target \div 2
       /\ submitNonce = head => balance[accounts[index]] + missing <= Target
  /\ funded \subseteq Key /\ NeverOverfunded
LeftInv ==
  /\ pc \in SettingUp \cup {"wait"} =>
       /\ \A t \in pool : t.nonce \in left \/ (pc = "wait" /\ t.nonce + 1 = submitNonce)
       /\ \A n \in submitNonce..(head - 1) : n \in left
  /\ pc = "ready" =>
       /\ \A t \in pool : t.nonce < cfgNonce \/ t.nonce \in left
       /\ \A n \in cfgNonce..(head - 1) : n \in left
       /\ \A n \in head..(cfgNonce - 1) : Pooled(n) # {}
RunInv ==
  /\ \A t \in inner : t.run \in 0..runs
  /\ \A t, u \in inner : t.key = u.key /\ t.run = u.run /\ t # u => t.nonce # u.nonce
  /\ pc = "retrieve" => \A t \in inner : t.run # runs
  /\ pc \in Working => \A t \in inner : t.run = runs => t.nonce < innerNonce[t.key]
FreshInv == drainPc = "idle" =>
  /\ \A t \in inner : t.key \notin risky =>
       /\ t.nonce >= accountNonce[t.key]
       /\ \A u \in inner \ {t} : u.key # t.key \/ u.nonce # t.nonce
  /\ pc \in Working =>
       /\ \A k \in Key \ risky : innerNonce[k] >= accountNonce[k]
       /\ \A t \in inner : t.key \notin risky => t.nonce < innerNonce[t.key]
CountInv ==
  /\ IsFiniteSet(funded)
  /\ pc = "down" => Cardinality(funded) <= NumFundedAccounts * runs
  /\ pc = "retrieve" => Cardinality(funded) <= NumFundedAccounts * (runs - 1)
  /\ pc \in Working =>
       Cardinality(funded \ ToSet(accounts)) <= NumFundedAccounts * (runs - 1)
FileInv ==
  /\ IsFiniteSet(Lost)
  /\ Cardinality(Lost) + (IF Open(pkHex) THEN 2 ELSE 0) <= 2 * torn
ReuseInv == sameFile /\ torn = 0 =>
  /\ ToSet(accounts) \cup funded \subseteq Firsts
  /\ created # <<>> => Len(ReadPks(pkHex)) + Len(created) <= NumFundedAccounts

-----------------------------------------------------------------------------
(* The n-th of a set of places exists, and is the only one of its rank.      *)
LEMMA NthExists ==
  ASSUME NEW m \in Nat, NEW S \in SUBSET (0..m), NEW n \in 1..Cardinality(S)
  PROVE  Nth(S, n) \in S /\ Rank(S, Nth(S, n)) = n
<1> DEFINE Upto(j) == {l \in S : l <= j}
           W == {j \in S : Cardinality(Upto(j)) >= n}
<1>0. \A l \in S : l \in Nat
  OBVIOUS
<1>1. IsFiniteSet(S) /\ Cardinality(S) \in Nat /\ n \in Nat
  <2>1. IsFiniteSet(0..m)
    BY FS_Interval
  <2>2. IsFiniteSet(S)
    BY <2>1, FS_Subset
  <2>3. QED
    BY <2>2, FS_CardinalityType
<1>2. \A j : IsFiniteSet(Upto(j)) /\ Cardinality(Upto(j)) \in Nat
  <2>1. \A j : Upto(j) \in SUBSET S
    OBVIOUS
  <2> HIDE DEF Upto
  <2>2. QED
    BY <1>1, <2>1, FS_Subset, FS_CardinalityType
<1>3. S # {}
  BY FS_EmptySet
<1>4. W # {}
  <2>1. Max(S) \in S /\ \A x \in S : x <= Max(S)
    BY <1>3, MaxIsGreatest
  <2>2. Upto(Max(S)) = S
    BY <2>1
  <2>3. Max(S) \in W
    BY <1>1, <2>1, <2>2
  <2>4. QED
    BY <2>3
<1>5. PICK j \in W : \A x \in W : j <= x
  <2>1. W \in SUBSET Nat
    <3> HIDE DEF Upto
    <3>1. QED
      BY <1>0
  <2>2. QED
    BY <1>4, <2>1, MinIsLeast
<1>6. Cardinality(Upto(j)) = n
  <2>1. SUFFICES ASSUME Cardinality(Upto(j)) > n
                 PROVE  FALSE
    BY <1>1, <1>2, <1>5
  <2> DEFINE P == {l \in S : l < j}
  <2>2. P = Upto(j) \ {j} /\ j \in Upto(j) /\ j \in Nat
    <3>1. j \in S /\ j \in Nat
      BY <1>0, <1>5
    <3>2. \A l \in S : l < j <=> (l <= j /\ l # j)
      BY <1>0, <3>1
    <3>3. P = Upto(j) \ {j}
      BY <3>2
    <3>4. QED
      BY <3>1, <3>3
  <2>3. IsFiniteSet(P) /\ Cardinality(P) = Cardinality(Upto(j)) - 1
    <3> DEFINE U == Upto(j)
    <3>1. IsFiniteSet(U) /\ j \in U
      BY <1>2, <2>2
    <3> HIDE DEF U
    <3>2. IsFiniteSet(U \ {j}) /\ Cardinality(U \ {j}) = Cardinality(U) - 1
      BY <3>1, FS_RemoveElement
    <3>3. P = U \ {j}
      BY <2>2 DEF U
    <3> HIDE DEF P
    <3>4. QED
      BY <3>2, <3>3 DEF U
  <2>4. Cardinality(P) >= n /\ Cardinality(P) > 0
    <3> HIDE DEF P, Upto
    <3>1. QED
      BY <1>1, <1>2, <2>1, <2>3
  <2>5. P # {} /\ P \in SUBSET (0..m)
    <3>1. P \in SUBSET (0..m)
      OBVIOUS
    <3>2. P # {}
      <4> HIDE DEF P
      <4>1. QED
        BY <2>4, FS_EmptySet
    <3>3. QED
      BY <3>1, <3>2
  <2>6. PICK x \in P : \A y \in P : y <= x
    BY <2>5, MaxIsGreatest
  <2>7. Upto(x) = P
    <3>1. x \in S /\ x < j /\ x \in Nat /\ j \in Nat
      BY <1>0, <2>2, <2>6
    <3>2. \A l \in S : l <= x <=> l < j
      BY <1>0, <2>6, <3>1
    <3>3. QED
      BY <3>2
  <2>8. x \in W
    BY <2>4, <2>6, <2>7
  <2>9. QED
    BY <1>5, <2>2, <2>6, <2>8
<1>7. j \in S /\ Rank(S, j) = n
  BY <1>5, <1>6 DEF Rank
<1>8. QED
  BY <1>7 DEF Nth

(* Two places of a set with the same rank are the same place.                *)
LEMMA RankUnique ==
  ASSUME NEW m \in Nat, NEW S \in SUBSET (0..m), NEW j \in S, NEW k \in S,
         Rank(S, j) = Rank(S, k)
  PROVE  j = k
<1>0. \A l \in S : l \in Nat
  OBVIOUS
<1>1. IsFiniteSet(S)
  <2>1. IsFiniteSet(0..m)
    BY FS_Interval
  <2>2. QED
    BY <2>1, FS_Subset
<1>2. ASSUME NEW x \in S, NEW y \in S, x < y,
             Rank(S, x) = Rank(S, y)
      PROVE  FALSE
  <2> DEFINE A == {l \in S : l <= x}
             B == {l \in S : l <= y}
  <2>1. A \in SUBSET B /\ y \in B /\ y \notin A /\ B \in SUBSET S
    <3>1. \A l \in S : l <= x => l <= y
      BY <1>0, <1>2
    <3>2. ~(y <= x) /\ y <= y
      BY <1>0, <1>2
    <3>3. QED
      BY <3>1, <3>2
  <2>2. Cardinality(A) = Cardinality(B)
    BY <1>2 DEF Rank
  <2> HIDE DEF A, B
  <2>3. IsFiniteSet(B)
    BY <1>1, <2>1, FS_Subset
  <2>4. A = B
    BY <2>1, <2>2, <2>3, FS_Subset
  <2>5. QED
    BY <2>1, <2>4
<1>3. j \in Nat /\ k \in Nat
  OBVIOUS
<1>4. ~(j < k) /\ ~(k < j)
  BY <1>2
<1>5. QED
  BY <1>3, <1>4

(* The ranks of a set are the numbers up to its size.                        *)
LEMMA RankRange ==
  ASSUME NEW m \in Nat, NEW S \in SUBSET (0..m), NEW j \in S
  PROVE  Rank(S, j) \in 1..Cardinality(S)
<1> DEFINE U == {l \in S : l <= j}
<1>1. IsFiniteSet(S)
  <2>1. IsFiniteSet(0..m)
    BY FS_Interval
  <2>2. QED
    BY <2>1, FS_Subset
<1>2. U \in SUBSET S /\ j \in U
  OBVIOUS
<1> HIDE DEF U
<1>3. /\ IsFiniteSet(U) /\ Cardinality(U) <= Cardinality(S)
      /\ Cardinality(U) \in Nat /\ Cardinality(S) \in Nat
  BY <1>1, <1>2, FS_Subset, FS_CardinalityType
<1>4. Cardinality(U) # 0
  BY <1>2, <1>3, FS_EmptySet
<1>5. Cardinality(U) \in 1..Cardinality(S)
  BY <1>3, <1>4
<1>6. QED
  BY <1>5 DEF U, Rank

(* ReadPks lists the keys of a file.                                         *)
LEMMA ReadPksLists ==
  ASSUME NEW file \in Seq(Int)
  PROVE  /\ Cardinality(KeyWords(file)) \in Nat
         /\ KeyWords(file) \in SUBSET (0..Len(file)) /\ Len(file) \in Nat
         /\ ReadPks(file) \in Seq(KeysIn(file))
         /\ Len(ReadPks(file)) = Cardinality(KeyWords(file))
         /\ KeysIn(file) = {ReadPks(file)[n] : n \in 1..Len(ReadPks(file))}
<1> DEFINE S == KeyWords(file)
           c == Cardinality(S)
<1>1. Len(file) \in Nat /\ DOMAIN file = 1..Len(file)
  BY LenProperties
<1>2. S \in SUBSET (0..Len(file))
  BY <1>1 DEF KeyWords
<1>3. IsFiniteSet(S) /\ c \in Nat
  <2> HIDE DEF S
  <2>1. IsFiniteSet(0..Len(file))
    BY <1>1, FS_Interval
  <2>2. QED
    BY <1>2, <2>1, FS_Subset, FS_CardinalityType
<1> HIDE DEF S
<1>4. \A n \in 1..c : Nth(S, n) \in S
  BY <1>1, <1>2, NthExists
<1>5. ReadPks(file) = [n \in 1..c |-> file[Nth(S, n)]]
  BY DEF ReadPks, S
<1>6. \A n \in 1..c : file[Nth(S, n)] \in KeysIn(file)
  BY <1>4 DEF KeysIn, S
<1>7. ReadPks(file) \in Seq(KeysIn(file)) /\ Len(ReadPks(file)) = c
  <2>1. ReadPks(file) \in [1..c -> KeysIn(file)]
    BY <1>5, <1>6
  <2> HIDE DEF c
  <2>2. QED
    BY <1>3, <2>1
<1>8. ASSUME NEW j \in S
      PROVE  \E n \in 1..c : ReadPks(file)[n] = file[j]
  <2> DEFINE n == Rank(S, j)
  <2>1. n \in 1..c
    BY <1>1, <1>2, RankRange
  <2>2. Nth(S, n) \in S /\ Rank(S, Nth(S, n)) = n
    BY <1>1, <1>2, <2>1, NthExists
  <2>3. Nth(S, n) = j
    <3> DEFINE k == Nth(S, n)
    <3>1. k \in S /\ Rank(S, k) = Rank(S, j)
      BY <2>2
    <3> HIDE DEF k, n
    <3>2. Len(file) \in Nat /\ S \in SUBSET (0..Len(file)) /\ j \in S
      BY <1>1, <1>2
    <3>4. k = j
      BY <3>1, <3>2, RankUnique
    <3>3. QED
      BY <3>4 DEF k
  <2> HIDE DEF n
  <2>4. ReadPks(file)[n] = file[j]
    BY <1>5, <2>1, <2>3
  <2>5. QED
    BY <2>1, <2>4
<1>9. KeysIn(file) = {ReadPks(file)[n] : n \in 1..c}
  <2>1. \A x \in KeysIn(file) : \E n \in 1..c : ReadPks(file)[n] = x
    BY <1>8 DEF KeysIn, S
  <2>2. \A n \in 1..c : ReadPks(file)[n] \in KeysIn(file)
    BY <1>5, <1>6
  <2> HIDE DEF c
  <2>3. QED
    BY <2>1, <2>2
<1>10. QED
  BY <1>1, <1>2, <1>3, <1>7, <1>9 DEF S

(* What is appended to a file has no larger keys than both had.              *)
LEMMA JoinBounded ==
  ASSUME NEW f \in Seq(Int), NEW g \in Seq(Int), NEW n \in Int,
         \A j \in 1..Len(f) : f[j] <= n, \A j \in 1..Len(g) : g[j] <= n
  PROVE  f \o g \in Seq(Int) /\ \A j \in 1..Len(f \o g) : (f \o g)[j] <= n
<1>1. /\ f \o g \in Seq(Int) /\ Len(f \o g) = Len(f) + Len(g)
      /\ \A j \in 1..(Len(f) + Len(g)) :
            (f \o g)[j] = IF j <= Len(f) THEN f[j] ELSE g[j - Len(f)]
      /\ Len(f) \in Nat /\ Len(g) \in Nat
  BY ConcatProperties, LenProperties
<1>2. ASSUME NEW j \in 1..(Len(f) + Len(g))
      PROVE  (f \o g)[j] <= n
  <2>1. CASE j <= Len(f)
    BY <1>1, <2>1
  <2>2. CASE ~(j <= Len(f))
    <3>1. PICK l \in 1..Len(g) : l = j - Len(f)
      BY <1>1, <2>2
    <3>2. QED
      BY <1>1, <2>2, <3>1
  <2>3. QED
    BY <2>1, <2>2
<1>3. QED
  BY <1>1, <1>2

(* What is appended to a file can only spoil the last word of an open line.  *)
LEMMA JoinKeeps ==
  ASSUME NEW file \in Seq(Int), NEW part \in Seq(Int)
  PROVE  /\ Open(file) => KeysIn(file) \subseteq KeysIn(file \o part) \cup {file[Len(file)]}
         /\ ~Open(file) => KeysIn(file) \subseteq KeysIn(file \o part)
<1> DEFINE g == file \o part
           L == Len(file)
<1>1. /\ L \in Nat /\ DOMAIN file = 1..L /\ Len(part) \in Nat
      /\ g \in Seq(Int) /\ Len(g) = L + Len(part)
      /\ \A j \in 1..(L + Len(part)) : g[j] = IF j <= L THEN file[j] ELSE part[j - L]
  BY ConcatProperties, LenProperties
<1>2. DOMAIN g = 1..(L + Len(part))
  BY <1>1, LenProperties
<1> HIDE DEF g
<1>3. \A j \in 1..L : g[j] = file[j] /\ j \in DOMAIN g
  BY <1>1, <1>2
<1>4. \A j \in KeyWords(file) : j \in 1..L /\ file[j] > 0 /\ IsWord(file, j)
  BY <1>1 DEF KeyWords
<1>5. ASSUME NEW j \in KeyWords(file), j # L
      PROVE  file[j] \in KeysIn(g)
  <2>1. j \in 1..L /\ file[j] > 0 /\ j < L
    BY <1>1, <1>4, <1>5
  <2>2. /\ j > 1 => j - 1 \in 1..L /\ file[j - 1] = 0
        /\ j + 1 \in 1..L /\ file[j + 1] = 0
    BY <1>1, <1>4, <2>1 DEF IsWord
  <2>3. IsWord(g, j)
    BY <1>3, <2>2 DEF IsWord
  <2>4. j \in KeyWords(g) /\ g[j] = file[j]
    BY <1>3, <2>1, <2>3 DEF KeyWords
  <2>5. QED
    BY <2>4 DEF KeysIn
<1>6. L \in KeyWords(file) => Open(file)
  <2>1. SUFFICES ASSUME L \in KeyWords(file)
                 PROVE  Open(file)
    OBVIOUS
  <2>2. L \in 1..L /\ file[L] > 0
    BY <1>4, <2>1
  <2>3. file # <<>>
    BY <2>2, EmptySeq
  <2>4. file[L] # 0
    BY <2>2
  <2>5. QED
    BY <2>3, <2>4 DEF Open
<1>7. \A x \in KeysIn(file) : x \in KeysIn(g) \/ (x = file[L] /\ Open(file))
  BY <1>5, <1>6 DEF KeysIn
<1>8. QED
  BY <1>7 DEF g

(* A set that is another one, and perhaps one element more.                  *)
LEMMA OneMore ==
  ASSUME NEW S, IsFiniteSet(S), NEW a, NEW T \in SUBSET (S \cup {a})
  PROVE  /\ IsFiniteSet(T) /\ Cardinality(T) \in Nat /\ Cardinality(S) \in Nat
         /\ Cardinality(T) <= Cardinality(S) + 1
<1>1. IsFiniteSet(S \cup {a}) /\ Cardinality(S \cup {a}) <= Cardinality(S) + 1
  <2>1. /\ IsFiniteSet(S \cup {a}) /\ Cardinality(S) \in Nat
        /\ Cardinality(S \cup {a}) = IF a \in S THEN Cardinality(S) ELSE Cardinality(S) + 1
    BY FS_AddElement, FS_CardinalityType
  <2>2. QED
    BY <2>1
<1>2. IsFiniteSet(T) /\ Cardinality(T) <= Cardinality(S \cup {a})
  BY <1>1, FS_Subset
<1>3. Cardinality(T) \in Nat /\ Cardinality(S) \in Nat /\ Cardinality(S \cup {a}) \in Nat
  BY <1>1, <1>2, FS_CardinalityType
<1>4. QED
  BY <1>1, <1>2, <1>3

(* A whole line that is appended to whole lines adds its key, as the last.   *)
LEMMA LineAppended ==
  ASSUME NEW file \in Seq(Int), file = <<>> \/ file[Len(file)] = 0,
         NEW k \in Nat \ {0}
  PROVE  /\ file \o Line(k) \in Seq(Int)
         /\ Len(file \o Line(k)) = Len(file) + 4
         /\ (file \o Line(k))[Len(file \o Line(k))] = 0
         /\ ReadPks(file \o Line(k)) = Append(ReadPks(file), k)
         /\ KeysIn(file \o Line(k)) = KeysIn(file) \cup {k}
<1> DEFINE g == file \o Line(k)
           L == Len(file)
           S == KeyWords(file)
           c == Cardinality(S)
<1>1. /\ L \in Nat /\ DOMAIN file = 1..L
      /\ S \in SUBSET (0..L) /\ c \in Nat
  BY LenProperties, ReadPksLists
<1>2. /\ Line(k) \in Seq(Int) /\ Len(Line(k)) = 4 /\ Line(k)[1] = k /\ Line(k)[2] = 0
      /\ Line(k)[3] = -k /\ Line(k)[4] = 0
  BY DEF Line
<1>3. /\ g \in Seq(Int) /\ Len(g) = L + 4
      /\ \A j \in 1..L : g[j] = file[j]
      /\ \A j \in (L + 1)..(L + 4) : g[j] = Line(k)[j - L]
  <2> HIDE DEF g
  <2>1. /\ file \o Line(k) \in Seq(Int) /\ Len(file \o Line(k)) = L + Len(Line(k))
        /\ \A j \in 1..(L + Len(Line(k))) :
              (file \o Line(k))[j] = IF j <= L THEN file[j] ELSE Line(k)[j - L]
    BY <1>2, ConcatProperties
  <2>2. /\ \A j \in 1..L : j \in 1..(L + 4) /\ j <= L
        /\ \A j \in (L + 1)..(L + 4) : j \in 1..(L + 4) /\ ~(j <= L)
    BY <1>1
  <2>3. QED
    BY <1>2, <2>1, <2>2 DEF g
<1>4. g[L + 1] = k /\ g[L + 2] = 0 /\ g[L + 3] = -k /\ g[L + 4] = 0
  <2>1. /\ \A j \in {L + 1, L + 2, L + 3, L + 4} : j \in (L + 1)..(L + 4)
        /\ (L + 1) - L = 1 /\ (L + 2) - L = 2 /\ (L + 3) - L = 3 /\ (L + 4) - L = 4
    BY <1>1
  <2> HIDE DEF g, L
  <2>2. QED
    BY <1>2, <1>3, <2>1
<1>5. DOMAIN g = 1..(L + 4)
  <2> HIDE DEF g, L
  <2>1. QED
    BY <1>3, LenProperties
<1>6. L > 0 => file[L] = 0
  BY <1>1
<1> HIDE DEF g
<1>7. KeyWords(g) = S \cup {L + 1}
  <2>1. ASSUME NEW j \in 1..L
        PROVE  j \in KeyWords(g) <=> j \in S
    <3>1. j > 1 => g[j - 1] = file[j - 1]
      <4>1. j > 1 => j - 1 \in 1..L
        BY <1>1
      <4>2. QED
        BY <1>3, <4>1
    <3>2. CASE j < L
      <4>1. g[j + 1] = file[j + 1] /\ g[j] = file[j] /\ j < L + 4
        BY <1>1, <1>3, <3>2
      <4>2. QED
        BY <1>1, <1>3, <1>5, <3>1, <3>2, <4>1 DEF KeyWords, IsWord
    <3>3. CASE j = L
      <4>1. file[j] = 0 /\ g[j] = 0
        BY <1>1, <1>3, <1>6, <3>3
      <4>2. QED
        BY <4>1 DEF KeyWords
    <3>4. j < L \/ j = L
      <4>1. L \in Nat /\ j \in 1..L
        BY <1>1
      <4> HIDE DEF L
      <4>2. QED
        BY <4>1
    <3>5. QED
      BY <3>2, <3>3, <3>4
  <2>2. L + 1 \in KeyWords(g)
    <3>1. L + 1 > 1 => g[(L + 1) - 1] = 0
      <4>1. L + 1 > 1 => (L + 1) - 1 = L /\ L \in 1..L
        BY <1>1
      <4>2. QED
        BY <1>1, <1>3, <1>6, <4>1
    <3>2. g[(L + 1) + 1] = 0
      <4>1. (L + 1) + 1 = L + 2
        BY <1>1
      <4>2. QED
        BY <1>4, <4>1
    <3>3. L + 1 \in DOMAIN g /\ g[L + 1] > 0
      BY <1>1, <1>4, <1>5
    <3>4. QED
      BY <3>1, <3>2, <3>3 DEF KeyWords, IsWord
  <2>3. \A j \in {L + 2, L + 3, L + 4} : j \notin KeyWords(g)
    BY <1>4 DEF KeyWords
  <2>4. \A j \in 1..(L + 4) : j \in 1..L \/ j \in {L + 1, L + 2, L + 3, L + 4}
    BY <1>1
  <2>5. KeyWords(g) \subseteq 1..(L + 4) /\ S \subseteq 1..L
    BY <1>1, <1>5 DEF KeyWords
  <2>6. \A j : j \in S => j \in KeyWords(g)
    BY <2>1, <2>5
  <2>7. \A j : j \in KeyWords(g) => j \in S \cup {L + 1}
    BY <2>1, <2>3, <2>4, <2>5
  <2> HIDE DEF S, L
  <2>8. QED
    BY <2>2, <2>6, <2>7
<1> HIDE DEF S
<1>8. Cardinality(KeyWords(g)) = c + 1 /\ L + 1 \notin S
  <2>1. L + 1 \notin S
    BY <1>1
  <2>2. IsFiniteSet(S)
    <3>1. IsFiniteSet(0..L)
      BY <1>1, FS_Interval
    <3> HIDE DEF L
    <3>2. QED
      BY <1>1, <3>1, FS_Subset
  <2> HIDE DEF L
  <2>3. QED
    BY <1>7, <2>1, <2>2, FS_AddElement
<1>9. KeyWords(g) \in SUBSET (0..(L + 1))
  <2>1. \A x \in (0..L) \cup {L + 1} : x \in 0..(L + 1)
    BY <1>1
  <2> HIDE DEF L
  <2>2. QED
    BY <1>1, <1>7, <2>1
<1>10. \A j \in S : Rank(KeyWords(g), j) = Rank(S, j)
  <2>1. SUFFICES ASSUME NEW j \in S
                 PROVE  {l \in KeyWords(g) : l <= j} = {l \in S : l <= j}
    BY DEF Rank
  <2>2. ~(L + 1 <= j)
    BY <1>1
  <2>3. QED
    BY <1>7, <2>2
<1>11. Rank(KeyWords(g), L + 1) = c + 1
  <2>1. \A l \in KeyWords(g) : l <= L + 1
    BY <1>1, <1>9
  <2>2. {l \in KeyWords(g) : l <= L + 1} = KeyWords(g)
    BY <2>1
  <2>3. QED
    BY <1>8, <2>2 DEF Rank
<1>12. \A n \in 1..c : Nth(KeyWords(g), n) = Nth(S, n)
  <2>1. SUFFICES ASSUME NEW n \in 1..c
                 PROVE  Nth(KeyWords(g), n) = Nth(S, n)
    OBVIOUS
  <2>2. Nth(S, n) \in S /\ Rank(S, Nth(S, n)) = n
    BY <1>1, <2>1, NthExists
  <2>3. n \in 1..Cardinality(KeyWords(g)) /\ L + 1 \in Nat
    BY <1>1, <1>8
  <2>4. Nth(KeyWords(g), n) \in KeyWords(g) /\ Rank(KeyWords(g), Nth(KeyWords(g), n)) = n
    BY <1>9, <2>3, NthExists
  <2>5. Nth(S, n) \in KeyWords(g) /\ Rank(KeyWords(g), Nth(S, n)) = n
    BY <1>7, <1>10, <2>2
  <2>6. QED
    BY <1>9, <2>3, <2>4, <2>5, RankUnique
<1>13. Nth(KeyWords(g), c + 1) = L + 1
  <2>1. PICK n \in 1..Cardinality(KeyWords(g)), m \in Nat : n = c + 1 /\ m = L + 1
    BY <1>1, <1>8
  <2>2. /\ Nth(KeyWords(g), n) \in KeyWords(g)
        /\ Rank(KeyWords(g), Nth(KeyWords(g), n)) = n
    BY <1>9, <2>1, NthExists
  <2>3. m \in KeyWords(g) /\ Rank(KeyWords(g), m) = n
    BY <1>7, <1>11, <2>1
  <2>4. KeyWords(g) \in SUBSET (0..m)
    BY <1>9, <2>1
  <2>5. Nth(KeyWords(g), n) = m
    BY <2>2, <2>3, <2>4, RankUnique
  <2>6. QED
    BY <2>1, <2>5
<1>14. ReadPks(g) = Append(ReadPks(file), k)
  <2> DEFINE a == ReadPks(file)
             b == ReadPks(g)
  <2>1. /\ a = [n \in 1..c |-> file[Nth(S, n)]]
        /\ b = [n \in 1..(c + 1) |-> g[Nth(KeyWords(g), n)]]
    BY <1>8 DEF ReadPks, S
  <2>2. \A n \in 1..c : b[n] = a[n]
    <3>1. \A n \in 1..c : Nth(S, n) \in 1..L
      <4>1. S \subseteq 1..L
        BY <1>1 DEF KeyWords, S
      <4>2. QED
        BY <1>1, <4>1, NthExists
    <3>2. \A n \in 1..c : n \in 1..(c + 1)
      BY <1>1
    <3>3. QED
      BY <1>3, <1>12, <2>1, <3>1, <3>2
  <2>3. b[c + 1] = k
    BY <1>1, <1>4, <1>13, <2>1
  <2>4. a \in Seq(Int) /\ Len(a) = c
    <3>1. \A n \in 1..c : file[Nth(S, n)] \in Int
      <4>1. S \subseteq 1..L
        BY <1>1 DEF KeyWords, S
      <4>2. \A x \in 1..L : file[x] \in Int
        BY <1>1
      <4>3. QED
        BY <1>1, <4>1, <4>2, NthExists
    <3>2. a \in [1..c -> Int]
      BY <2>1, <3>1
    <3> HIDE DEF a, c
    <3>3. QED
      BY <1>1, <3>2
  <2>5. b \in Seq(Int) /\ Len(b) = c + 1
    <3>1. b \in [1..(c + 1) -> Int]
      <4>1. \A n \in 1..(c + 1) : n \in 1..c \/ n = c + 1
        BY <1>1
      <4>2. \A n \in 1..(c + 1) : b[n] \in Int
        <5>1. \A n \in 1..c : a[n] \in Int
          <6> HIDE DEF a, c
          <6>1. QED
            BY <2>4, LenProperties
        <5>2. QED
          BY <2>2, <2>3, <4>1, <5>1
      <4>3. QED
        BY <2>1, <4>2
    <3>2. c + 1 \in Nat
      BY <1>1
    <3> HIDE DEF b, c
    <3>3. QED
      BY <3>1, <3>2
  <2> HIDE DEF a, b, c
  <2>6. /\ Append(a, k) \in Seq(Int) /\ Len(Append(a, k)) = c + 1
        /\ \A n \in 1..c : Append(a, k)[n] = a[n]
        /\ Append(a, k)[c + 1] = k
    BY <2>4, AppendProperties
  <2>7. \A n \in 1..(c + 1) : b[n] = Append(a, k)[n]
    <3>1. \A n \in 1..(c + 1) : n \in 1..c \/ n = c + 1
      BY <1>1
    <3>2. QED
      BY <2>2, <2>3, <2>6, <3>1
  <2>8. b = Append(a, k)
    BY <2>5, <2>6, <2>7, SeqEqual
  <2>9. QED
    BY <2>8 DEF a, b
<1>15. KeysIn(g) = KeysIn(file) \cup {k}
  <2>1. S \subseteq 1..L
    BY <1>1 DEF KeyWords, S
  <2>2. \A j \in S : g[j] = file[j]
    BY <1>3, <2>1
  <2> HIDE DEF L
  <2>3. KeysIn(g) = {g[j] : j \in S} \cup {g[L + 1]}
    BY <1>7 DEF KeysIn
  <2>4. {g[j] : j \in S} = {file[j] : j \in S}
    BY <2>2
  <2>5. QED
    BY <1>4, <2>3, <2>4 DEF KeysIn, S
<1>16. QED
  BY <1>3, <1>4, <1>14, <1>15 DEF g

(* The file that an earlier user may have left.                              *)
LEMMA FirstLinesShape ==
  ASSUME NEW n \in Nat
  PROVE  /\ FirstLines(n) \in Seq(Int)
         /\ \A j \in 1..Len(FirstLines(n)) : FirstLines(n)[j] <= n
         /\ FirstLines(n) = <<>> \/ FirstLines(n)[Len(FirstLines(n))] = 0
<1> DEFINE f == FirstLines(n)
<1>1. Len(Line(1)) = 4
  BY DEF Line
<1>2. f = [j \in 1..(4 * n) |-> Line((j - 1) \div 4 + 1)[((j - 1) % 4) + 1]]
  BY <1>1 DEF FirstLines
<1>3. ASSUME NEW j \in 1..(4 * n)
      PROVE  f[j] \in Int /\ f[j] <= n /\ (j = 4 * n => f[j] = 0)
  <2>1. PICK q \in Int, r \in Int : q = (j - 1) \div 4 /\ r = (j - 1) % 4
    OBVIOUS
  <2>2. j - 1 = 4 * q + r /\ r >= 0 /\ r < 4
    BY <2>1
  <2>3. q + 1 \in 1..n /\ r + 1 \in {1, 2, 3, 4}
    BY <2>2
  <2>4. j = 4 * n => r + 1 = 4
    BY <2>2
  <2>5. f[j] = Line(q + 1)[r + 1]
    BY <1>2, <2>1
  <2>6. PICK k \in 1..n, p \in {1, 2, 3, 4} : k = q + 1 /\ p = r + 1
    BY <2>3
  <2>7. Line(k)[p] \in {k, 0, -k} /\ (p = 4 => Line(k)[p] = 0)
    BY DEF Line
  <2>8. QED
    BY <2>4, <2>5, <2>6, <2>7
<1>4. 4 * n \in Nat /\ f \in [1..(4 * n) -> Int]
  BY <1>2, <1>3
<1> HIDE DEF f
<1>5. f \in Seq(Int) /\ Len(f) = 4 * n
  BY <1>4
<1>6. f = <<>> \/ f[Len(f)] = 0
  <2>1. CASE n = 0
    BY <1>5, <2>1, EmptySeq
  <2>2. CASE n # 0
    BY <1>3, <1>5, <2>2
  <2>3. QED
    BY <2>1, <2>2
<1>7. QED
  BY <1>3, <1>5, <1>6 DEF f

-----------------------------------------------------------------------------
(* The bounds of the keys.                                                   *)
LEMMA KeyFacts ==
  /\ Max(InitialKeys) \in Nat /\ \A k \in InitialKeys : k \in Nat /\ k <= Max(InitialKeys)
  /\ MaxKeys \in Nat
<1>1. PICK n \in Nat : InitialKeys \in SUBSET (0..n)
  BY FiniteIsBounded
<1>2. Max(InitialKeys) \in InitialKeys /\ \A k \in InitialKeys : k <= Max(InitialKeys)
  BY <1>1, MaxIsGreatest
<1>3. NumFundedAccounts * MaxRuns \in Nat
  OBVIOUS
<1>4. Max(InitialKeys) \in Nat /\ \A k \in InitialKeys : k \in Nat
  BY <1>1, <1>2
<1>5. QED
  BY <1>2, <1>3, <1>4 DEF MaxKeys

(* Each run makes as many keys as it lacks, so that Key has room for all.    *)
LEMMA KeysBounded ==
  ASSUME Counters
  PROVE  keys <= MaxKeys /\ 1..keys \subseteq Key /\ keys \in Nat
<1>1. Max(InitialKeys) \in Nat /\ MaxKeys \in Nat
  BY KeyFacts
<1>2. NumFundedAccounts * runs <= NumFundedAccounts * MaxRuns
  BY DEF Counters
<1>3. NumFundedAccounts * runs \in Nat /\ NumFundedAccounts * MaxRuns \in Nat
  BY DEF Counters
<1>4. keys <= Max(InitialKeys) + NumFundedAccounts * runs
  BY <1>1, <1>3 DEF Counters
<1>5. keys <= MaxKeys /\ keys \in Nat
  BY <1>1, <1>2, <1>3, <1>4 DEF MaxKeys, Counters
<1>6. QED
  BY <1>1, <1>5 DEF Key

-----------------------------------------------------------------------------
Inv == /\ Shape /\ NodeShape /\ FundingInv /\ LeftInv
       /\ RunInv /\ FreshInv /\ FileInv /\ ReuseInv /\ CountInv

(* What the proofs need of the shape.                                        *)
LEMMA Facts ==
  ASSUME Shape, NodeShape
  PROVE  /\ head \in Nat /\ Cardinality(pool) \in Nat
         /\ keys \in Nat /\ 1..keys \subseteq Key /\ \A k \in Key : k \in Nat /\ k # 0
         /\ Len(accounts) \in Nat /\ DOMAIN accounts = 1..Len(accounts)
         /\ \A j \in 1..Len(accounts) : accounts[j] \in 1..keys /\ accounts[j] \in Key
         /\ ToSet(accounts) \subseteq 1..keys
         /\ \A j \in 1..Len(accounts) : accounts[j] \in ToSet(accounts)
         /\ pc \in {"send", "wait"} => index \in 1..Len(accounts)
<1>1. head \in Nat /\ Cardinality(pool) \in Nat
  BY FS_CardinalityType DEF NodeShape, head
<1>2. keys \in Nat /\ 1..keys \subseteq Key /\ \A k \in Key : k \in Nat /\ k # 0
  BY KeysBounded, KeyFacts DEF Shape, Key
<1>3. Len(accounts) \in Nat /\ DOMAIN accounts = 1..Len(accounts)
  BY LenProperties DEF Shape, Locals
<1>4. \A j \in 1..Len(accounts) : accounts[j] \in 1..keys
  <2> DEFINE K == 1..keys
  <2>1. accounts \in Seq(K)
    BY DEF Shape, Locals
  <2> HIDE DEF K
  <2>2. \A j \in 1..Len(accounts) : accounts[j] \in K
    BY <2>1, ElementOfSeq
  <2>3. QED
    BY <2>2 DEF K
<1>5. ToSet(accounts) \subseteq 1..keys /\ \A j \in 1..Len(accounts) : accounts[j] \in ToSet(accounts)
  BY <1>3, <1>4 DEF ToSet
<1>6. pc \in {"send", "wait"} => index \in 1..Len(accounts)
  BY <1>3 DEF Shape, Locals
<1>7. QED
  BY <1>1, <1>2, <1>3, <1>4, <1>5, <1>6

(* The keys in the files are keys that exist.                                *)
LEMMA FileKeys ==
  ASSUME Shape, NEW file \in Seq(Int), file \in {pkHex, otherFile}
  PROVE  KeysIn(file) \subseteq 1..keys
<1>1. DOMAIN file = 1..Len(file) /\ \A j \in 1..Len(file) : file[j] \in Int /\ file[j] <= keys
  BY LenProperties, ElementOfSeq DEF Shape, Files
<1>2. \A j \in DOMAIN file : file[j] > 0 => file[j] \in 1..keys
  BY <1>1 DEF Shape, Counters
<1>3. QED
  BY <1>2 DEF KeysIn, KeyWords

(* A step that leaves the submit account at the node alone.                  *)
LEMMA NodeFrame ==
  ASSUME NodeShape, UNCHANGED <<mined, pool>>
  PROVE  NodeShape' /\ head' = head
BY DEF NodeShape, head

(* A step that leaves files and keys alone.                                  *)
LEMMA FilesFrame ==
  ASSUME Inv,
         UNCHANGED <<sameFile, otherFile, pkHex, torn, accounts, created, funded, keys>>
  PROVE  Files' /\ FileInv' /\ ReuseInv'
BY DEF Inv, Shape, Files, FileInv, Lost, Open, ReuseInv, Firsts

(* As long as no line was torn the file ends with a whole line, and every    *)
(* key that is used can be read.                                             *)
LEMMA WholeFile ==
  ASSUME FileInv, torn = 0
  PROVE  ~Open(pkHex) /\ ToSet(accounts) \cup funded \subseteq KeysIn(pkHex) \cup KeysIn(otherFile)
<1>1. Cardinality(Lost) \in Nat /\ IsFiniteSet(Lost)
  BY FS_CardinalityType DEF FileInv
<1>2. Cardinality(Lost) = 0 /\ ~Open(pkHex)
  BY <1>1 DEF FileInv
<1> HIDE DEF Lost
<1>3. Lost = {}
  BY <1>1, <1>2, FS_EmptySet
<1>4. QED
  BY <1>2, <1>3 DEF Lost

(* A step that loses no key.                                                 *)
LEMMA NoneLost ==
  ASSUME FileInv, torn \in Nat, torn' = torn,
         Lost' \in SUBSET Lost, Open(pkHex)' => Open(pkHex)
  PROVE  FileInv'
<1> DEFINE S == Lost
           T == Lost'
<1>1. IsFiniteSet(S) /\ T \in SUBSET S
  BY DEF FileInv
<1> HIDE DEF S, T
<1>2. IsFiniteSet(T) /\ Cardinality(T) <= Cardinality(S)
  BY <1>1, FS_Subset
<1>3. Cardinality(T) \in Nat /\ Cardinality(S) \in Nat
  BY <1>1, <1>2, FS_CardinalityType
<1>4. PICK b \in {0, 2}, c \in {0, 2} :
        /\ b = (IF Open(pkHex) THEN 2 ELSE 0) /\ c = (IF Open(pkHex)' THEN 2 ELSE 0)
        /\ c <= b
  OBVIOUS
<1>5. Cardinality(S) + b <= 2 * torn
  BY <1>4 DEF FileInv, S
<1>6. Cardinality(T) + c <= 2 * torn'
  BY <1>2, <1>3, <1>4, <1>5
<1>7. QED
  BY <1>2, <1>4, <1>6 DEF FileInv, T

(* A step that leaves draining and the funded accounts alone.                *)
LEMMA DrainFrame ==
  ASSUME Inv, UNCHANGED <<toDrain, seen, drainPc, drainTx, accountNonce, balance>>
  PROVE  Draining'
BY DEF Inv, Shape, Draining

(* A step that leaves the inner nonces alone and starts nothing.             *)
LEMMA FreshFrame ==
  ASSUME Inv, UNCHANGED <<inner, accountNonce, innerNonce, risky, runs>>,
         drainPc' = "idle" => drainPc = "idle",
         pc' = "retrieve" => pc = "retrieve",
         pc' \in Working => pc \in Working
  PROVE  RunInv' /\ FreshInv'
BY DEF Inv, RunInv, FreshInv

(* A step that funds nobody and starts nothing.                              *)
LEMMA CountFrame ==
  ASSUME Inv, UNCHANGED <<funded, accounts, runs>>,
         pc' = pc \/ (pc \in Working /\ pc' \in Working)
  PROVE  CountInv'
BY DEF Inv, CountInv, Working

(* A list has at most as many elements as places.                            *)
LEMMA ListedAreFew ==
  ASSUME NEW S, NEW s \in Seq(S)
  PROVE  IsFiniteSet(ToSet(s)) /\ Cardinality(ToSet(s)) <= Len(s)
<1>1. Len(s) \in Nat /\ DOMAIN s = 1..Len(s) /\ s \in [1..Len(s) -> S]
  BY LenProperties
<1> DEFINE I == 1..Len(s)
           T == ToSet(s)
<1>2. IsFiniteSet(I) /\ Cardinality(I) = Len(s)
  <2>1. PICK n \in Nat : n = Len(s)
    BY <1>1
  <2>2. IsFiniteSet(1..n) /\ Cardinality(1..n) = n
    BY FS_Interval
  <2>3. QED
    BY <2>1, <2>2
<1>3. s \in [I -> T] /\ \A x \in T : \E n \in I : s[n] = x
  BY <1>1 DEF ToSet
<1> HIDE DEF I, T
<1>4. s \in Surjection(I, T)
  BY <1>3, Fun_IsSurj
<1>5. IsFiniteSet(T) /\ Cardinality(T) <= Cardinality(I)
  BY <1>2, <1>4, FS_Surjection
<1>6. QED
  BY <1>2, <1>5 DEF T

(* Wherever a run is, it has added at most the accounts it handles to those  *)
(* that the runs before it funded.                                           *)
LEMMA FundedAreFew ==
  ASSUME Inv
  PROVE  Cardinality(funded) <= NumFundedAccounts * runs
<1>1. /\ runs \in Nat /\ NumFundedAccounts \in Nat /\ Cardinality(funded) \in Nat
      /\ pc \in {"down", "retrieve"} \cup Working /\ CountInv
  BY FS_CardinalityType DEF Inv, CountInv, Shape, Counters, Places, Working
<1>2. NumFundedAccounts * runs = NumFundedAccounts * (runs - 1) + NumFundedAccounts
  BY <1>1
<1>3. PICK a \in Int, b \in Int :
         a = NumFundedAccounts * runs /\ b = NumFundedAccounts * (runs - 1)
  BY <1>1
<1>4. a = b + NumFundedAccounts
  BY <1>2, <1>3
<1>5. CASE pc \in {"down", "retrieve"}
  BY <1>1, <1>3, <1>4, <1>5 DEF CountInv
<1>6. CASE pc \in Working
  <2> DEFINE A == ToSet(accounts)
             B == funded \ A
  <2>1. IsFiniteSet(A) /\ Cardinality(A) <= NumFundedAccounts
    <3> DEFINE K == 1..keys
    <3>1. accounts \in Seq(K) /\ Len(accounts) \in Nat /\ Len(created) \in Nat
          /\ Len(accounts) + Len(created) <= NumFundedAccounts
      BY LenProperties DEF Inv, Shape, Locals
    <3> HIDE DEF K
    <3>2. IsFiniteSet(ToSet(accounts)) /\ Cardinality(ToSet(accounts)) <= Len(accounts)
      BY <3>1, ListedAreFew
    <3>3. Cardinality(ToSet(accounts)) \in Nat
      BY <3>2, FS_CardinalityType
    <3>4. QED
      BY <3>1, <3>2, <3>3
  <2>2. IsFiniteSet(funded) /\ B \in SUBSET funded /\ Cardinality(B) <= b
    BY <1>1, <1>3, <1>6 DEF CountInv
  <2>3. funded \in SUBSET (A \cup B)
    OBVIOUS
  <2> HIDE DEF A, B
  <2>4. IsFiniteSet(B)
    BY <2>2, FS_Subset
  <2>5. /\ IsFiniteSet(A \cup B)
        /\ Cardinality(A \cup B) = Cardinality(A) + Cardinality(B) - Cardinality(A \cap B)
    BY <2>1, <2>4, FS_Union
  <2>6. IsFiniteSet(A \cap B)
    BY <2>1, FS_Intersection
  <2>7. /\ Cardinality(A) \in Nat /\ Cardinality(B) \in Nat
        /\ Cardinality(A \cap B) \in Nat /\ Cardinality(A \cup B) \in Nat
    BY <2>1, <2>4, <2>5, <2>6, FS_CardinalityType
  <2>8. Cardinality(funded) <= Cardinality(A \cup B)
    BY <2>3, <2>5, FS_Subset
  <2>9. Cardinality(funded) <= a
    BY <1>1, <1>4, <2>1, <2>2, <2>5, <2>7, <2>8
  <2>10. QED
    BY <1>3, <2>9
<1>7. QED
  BY <1>1, <1>5, <1>6

(* Nothing but its balances has to be looked at when an account pays.        *)
LEMMA BalancesSink ==
  ASSUME Inv,
         UNCHANGED <<mined, pool, pc, submitNonce, own, missing, accounts, index, funded>>,
         balance' \in [Key -> Nat], \A k \in Key : balance'[k] <= balance[k]
  PROVE  FundingInv'
<1>0. Shape /\ NodeShape /\ FundingInv /\ balance \in [Key -> Nat]
  BY DEF Inv, Shape, Accts
<1>1. head' = head
  BY DEF head
<1>2. \A u \in pool : u.to # 0 => u.nonce = head /\ balance'[u.to] + u.value <= Target
  <2>1. SUFFICES ASSUME NEW u \in pool, u.to # 0
                 PROVE  u.nonce = head /\ balance'[u.to] + u.value <= Target
    OBVIOUS
  <2>2. u.to \in Key /\ u.value \in Nat
    BY <1>0, <2>1 DEF NodeShape
  <2>3. u.nonce = head /\ balance[u.to] + u.value <= Target
    BY <1>0, <2>1 DEF FundingInv
  <2>4. balance[u.to] \in Nat /\ balance'[u.to] \in Nat /\ balance'[u.to] <= balance[u.to]
    BY <1>0, <2>2
  <2>5. QED
    BY <2>2, <2>3, <2>4
<1>3. pc = "send" => (submitNonce = head => balance'[accounts[index]] + missing <= Target)
  <2>1. SUFFICES ASSUME pc = "send", submitNonce = head
                 PROVE  balance'[accounts[index]] + missing <= Target
    OBVIOUS
  <2>2. accounts[index] \in Key
    BY <1>0, <2>1, Facts
  <2>3. missing \in Int /\ balance[accounts[index]] + missing <= Target
    BY <1>0, <2>1 DEF FundingInv, Shape, Locals
  <2>4. /\ balance[accounts[index]] \in Nat /\ balance'[accounts[index]] \in Nat
        /\ balance'[accounts[index]] <= balance[accounts[index]]
    BY <1>0, <2>2
  <2>5. QED
    BY <2>3, <2>4
<1>4. NeverOverfunded'
  <2>1. SUFFICES ASSUME NEW k \in funded
                 PROVE  balance'[k] <= Target
    BY DEF NeverOverfunded
  <2>2. k \in Key /\ balance[k] <= Target
    BY <1>0, <2>1 DEF FundingInv, NeverOverfunded
  <2>3. balance[k] \in Nat /\ balance'[k] \in Nat /\ balance'[k] <= balance[k]
    BY <1>0, <2>2
  <2>4. QED
    BY <2>2, <2>3
<1>5. QED
  BY <1>0, <1>1, <1>2, <1>3, <1>4 DEF FundingInv

(* A step that leaves alone what funding is about.                           *)
LEMMA FundFrame ==
  ASSUME Inv,
         UNCHANGED <<mined, pool, pc, submitNonce, own, missing, accounts, index, funded,
                     balance, left, cfgNonce>>
  PROVE  NodeShape' /\ FundingInv' /\ LeftInv'
BY DEF Inv, NodeShape, FundingInv, LeftInv, NeverOverfunded, Pooled, head

-----------------------------------------------------------------------------
(* The end of the process, wherever it was: what it knew is gone, and a line *)
(* may be torn.                                                              *)
LEMMA DownKeeps ==
  ASSUME Inv, Crash \/ NoFile \/ FundRefused \/ SubmitRefused \/ StoreTorn
  PROVE  Inv'
<1> USE DEF fileVars, chainVars, countVars, histVars, drainVars, Down
<1>0. Shape /\ NodeShape
  BY DEF Inv
<1>1. /\ pc' = "down" /\ accounts' = <<>> /\ created' = <<>> /\ index' = 1 /\ missing' = 0
      /\ own' = NoTx /\ submitNonce' = 0 /\ cfgNonce' = 0
      /\ innerNonce' = [k \in Key |-> 0]
      /\ UNCHANGED <<sameFile, present, otherFile, mined, pool, balance, accountNonce, inner,
                     keys, runs, submissions, funded, left, risky,
                     drainPc, toDrain, seen, drainTx>>
      /\ UNCHANGED <<pkHex, torn>> \/ StoreTorn
  BY DEF Crash, NoFile, FundRefused, SubmitRefused, StoreTorn
<1>2. StoreTorn => /\ torn' = torn + 1 /\ pkHex' \in Seq(Int)
                   /\ \E part \in Seq(Int) : pkHex' = pkHex \o part
                   /\ \A j \in 1..Len(pkHex') : pkHex'[j] <= keys
  <2>1. SUFFICES ASSUME StoreTorn
                 PROVE  /\ torn' = torn + 1 /\ pkHex' \in Seq(Int)
                        /\ \E part \in Seq(Int) : pkHex' = pkHex \o part
                        /\ \A j \in 1..Len(pkHex') : pkHex'[j] <= keys
    OBVIOUS
  <2>2. PICK n \in 1..3 : pkHex' = pkHex \o SubSeq(Line(Head(created)), 1, n)
    BY <2>1 DEF StoreTorn
  <2>3. PICK k \in 1..keys : k = Head(created)
    <3>1. created # <<>> /\ created \in Seq(1..keys)
      BY <1>0, <2>1 DEF StoreTorn, Shape, Locals
    <3>2. QED
      BY <3>1, HeadTailProperties
  <2>4. PICK part \in Seq(Int) : part = SubSeq(Line(k), 1, n) /\ \A j \in 1..Len(part) : part[j] <= k
    <3>1. Line(k) \in Seq(Int) /\ Len(Line(k)) = 4 /\ \A j \in 1..4 : Line(k)[j] <= k
      <4>1. /\ Line(k) \in Seq(Int) /\ Len(Line(k)) = 4
            /\ Line(k)[1] = k /\ Line(k)[2] = 0 /\ Line(k)[3] = -k /\ Line(k)[4] = 0
        BY DEF Line
      <4>2. \A j \in 1..4 : j = 1 \/ j = 2 \/ j = 3 \/ j = 4
        OBVIOUS
      <4>3. QED
        BY <4>1, <4>2
    <3>2. /\ SubSeq(Line(k), 1, n) \in Seq(Int) /\ Len(SubSeq(Line(k), 1, n)) = n
          /\ \A j \in 1..n : SubSeq(Line(k), 1, n)[j] = Line(k)[j]
      <4> DEFINE line == Line(k)
      <4>1. line \in Seq(Int) /\ 1 \in Int /\ n \in Int /\ n <= Len(line)
        BY <3>1
      <4> HIDE DEF line
      <4>2. /\ SubSeq(line, 1, n) \in Seq(Int) /\ Len(SubSeq(line, 1, n)) = n
            /\ \A j \in 1..n : SubSeq(line, 1, n)[j] = line[j]
        BY <4>1
      <4>3. QED
        BY <4>2 DEF line
    <3>3. \A j \in 1..n : SubSeq(Line(k), 1, n)[j] <= k
      <4>1. \A j \in 1..n : j \in 1..4
        OBVIOUS
      <4>2. QED
        BY <3>1, <3>2, <4>1
    <3>4. \E part \in Seq(Int) : part = SubSeq(Line(k), 1, n) /\ \A j \in 1..Len(part) : part[j] <= k
      <4> DEFINE s == SubSeq(Line(k), 1, n)
      <4>1. s \in Seq(Int) /\ \A j \in 1..Len(s) : s[j] <= k
        BY <3>2, <3>3
      <4> HIDE DEF s
      <4>2. \E part \in Seq(Int) : part = s /\ \A j \in 1..Len(part) : part[j] <= k
        BY <4>1
      <4>3. QED
        BY <4>2 DEF s
    <3>5. QED
      BY <3>4
  <2>5. pkHex \in Seq(Int) /\ \A j \in 1..Len(pkHex) : pkHex[j] <= keys
    BY <1>0 DEF Shape, Files
  <2>6. pkHex' = pkHex \o part
    BY <2>2, <2>3, <2>4
  <2>7. keys \in Int /\ \A j \in 1..Len(part) : part[j] <= keys
    <3>1. \A j \in 1..Len(part) : part[j] \in Int /\ part[j] <= k
      BY <2>4, ElementOfSeq
    <3>2. keys \in Int /\ k \in Int /\ k <= keys
      BY <1>0, <2>3, Facts
    <3>3. QED
      BY <3>1, <3>2
  <2>8. PICK file \in Seq(Int), n2 \in Int :
          file = pkHex /\ n2 = keys /\ \A j \in 1..Len(file) : file[j] <= n2
    BY <2>5, <2>7
  <2>9. file \o part \in Seq(Int) /\ \A j \in 1..Len(file \o part) : (file \o part)[j] <= n2
    BY <2>7, <2>8, JoinBounded
  <2>10. QED
    BY <2>1, <2>4, <2>6, <2>8, <2>9 DEF StoreTorn
<1>3. Shape'
  <2>1. Places'
    BY <1>0, <1>1, <1>2 DEF Shape, Places
  <2>2. Counters'
    BY <1>0, <1>1, KeyFacts DEF Shape, Counters
  <2>3. Locals'
    <3>1. <<>> \in Seq(1..keys) /\ Len(<<>>) = 0
      BY EmptySeq
    <3>2. QED
      BY <1>1, <3>1 DEF Locals
  <2>4. Files'
    BY <1>0, <1>1, <1>2 DEF Shape, Files
  <2>5. Accts' /\ Draining'
    BY <1>0, <1>1 DEF Shape, Accts, Draining
  <2>6. QED
    BY <2>1, <2>2, <2>3, <2>4, <2>5 DEF Shape
<1>4. NodeShape' /\ head' = head
  BY <1>0, <1>1, NodeFrame
<1>5. FundingInv' /\ LeftInv'
  BY <1>1, <1>4 DEF Inv, FundingInv, LeftInv, SettingUp, NeverOverfunded
<1>6. RunInv' /\ FreshInv' /\ CountInv'
  <2>1. RunInv' /\ FreshInv'
    BY <1>1 DEF Inv, RunInv, FreshInv, Working
  <2>2. CountInv'
    BY <1>1, FundedAreFew DEF Inv, CountInv, Working
  <2>3. QED
    BY <2>1, <2>2
<1>7. ToSet(accounts') = {}
  BY <1>1 DEF ToSet
<1>8. FileInv' /\ ReuseInv'
  <2>1. CASE UNCHANGED <<pkHex, torn>>
    <3>1. Lost' \in SUBSET Lost /\ Open(pkHex)' = Open(pkHex)
      BY <1>1, <1>7, <2>1 DEF Lost, Open
    <3>2. FileInv'
      BY <1>0, <2>1, <3>1, NoneLost DEF Inv, Shape, Places
    <3>3. ReuseInv'
      BY <1>1, <1>7, <2>1 DEF Inv, ReuseInv, Firsts
    <3>4. QED
      BY <3>2, <3>3
  <2>2. CASE StoreTorn
    <3>1. PICK file \in Seq(Int), part \in Seq(Int) : file = pkHex /\ pkHex' = file \o part
      BY <1>0, <1>2, <2>2 DEF Shape, Files
    <3> DEFINE S == Lost
               T == Lost'
               last == file[Len(file)]
    <3>2. /\ Open(file) => KeysIn(file) \subseteq KeysIn(pkHex') \cup {last}
          /\ ~Open(file) => KeysIn(file) \subseteq KeysIn(pkHex')
      BY <3>1, JoinKeeps
    <3>3. T \in SUBSET (S \cup {last}) /\ (~Open(file) => T \in SUBSET S)
      BY <1>1, <1>7, <3>1, <3>2 DEF Lost
    <3>4. IsFiniteSet(S) /\ torn \in Nat
          /\ Cardinality(S) + (IF Open(file) THEN 2 ELSE 0) <= 2 * torn
      BY <1>0, <3>1 DEF Inv, FileInv, Shape, Places
    <3> HIDE DEF S, T, last
    <3>5. /\ IsFiniteSet(T) /\ Cardinality(T) \in Nat /\ Cardinality(S) \in Nat
          /\ Cardinality(T) <= Cardinality(S) + 1
      BY <3>3, <3>4, OneMore
    <3>6. ~Open(file) => Cardinality(T) <= Cardinality(S)
      BY <3>3, <3>4, FS_Subset
    <3>7. Cardinality(T) + 2 <= 2 * (torn + 1)
      BY <3>4, <3>5, <3>6
    <3>8. FileInv'
      BY <1>2, <2>2, <3>4, <3>5, <3>7 DEF FileInv, T
    <3>9. torn' # 0
      BY <1>2, <2>2, <3>4
    <3>10. QED
      BY <3>8, <3>9 DEF ReuseInv
  <2>3. QED
    BY <1>1, <2>1, <2>2
<1>9. QED
  BY <1>3, <1>4, <1>5, <1>6, <1>8 DEF Inv

(* The node mines the next transaction of the submit account: it is the only *)
(* one that can be a funding transaction, and after it none is pending.      *)
LEMMA MineKeeps ==
  ASSUME Inv, Mine
  PROVE  Inv'
<1>0. Shape /\ NodeShape /\ FundingInv /\ LeftInv
  BY DEF Inv
<1>1. PICK t \in Pooled(head) :
        /\ mined' = mined \cup {t} /\ pool' = pool \ {t}
        /\ balance' = IF t.to = 0 THEN balance ELSE [balance EXCEPT ![t.to] = @ + t.value]
        /\ UNCHANGED <<accountNonce, inner, sameFile, present, otherFile, pkHex, pc,
                       accounts, created, index, missing, own, submitNonce,
                       cfgNonce, innerNonce, keys, runs, submissions,
                       funded, left, risky, torn, drainPc, toDrain, seen, drainTx>>
  BY DEF Mine, fileVars, localVars, cfgVars, countVars, histVars, drainVars
<1>2. /\ t \in pool /\ t.nonce = head /\ t.value \in Nat /\ t.to \in Key \cup {0}
      /\ head \in Nat /\ Cardinality(pool) \in Nat
      /\ IsFiniteSet(mined) /\ IsFiniteSet(pool)
  BY <1>0, <1>1, Facts DEF Pooled, NodeShape
<1>3. t \notin mined
  BY <1>0, <1>2 DEF NodeShape
<1>4. head' = head + 1 /\ IsFiniteSet(mined')
  BY <1>1, <1>2, <1>3, FS_AddElement DEF head
<1>5. Cardinality(pool') = Cardinality(pool) - 1 /\ IsFiniteSet(pool')
  BY <1>1, <1>2, FS_RemoveElement
<1>6. \A u \in pool' : u \in pool /\ u.nonce \in Nat /\ u.nonce > head /\ u.nonce >= head'
  <2>1. SUFFICES ASSUME NEW u \in pool'
                 PROVE  u \in pool /\ u.nonce \in Nat /\ u.nonce > head /\ u.nonce >= head'
    OBVIOUS
  <2>2. u \in pool /\ u # t
    BY <1>1, <2>1
  <2>3. u.nonce \in Nat /\ u.nonce >= head /\ u.nonce # head
    BY <1>0, <1>2, <2>2 DEF NodeShape
  <2>4. QED
    BY <1>2, <1>4, <2>2, <2>3
<1>7. balance \in [Key -> Nat] /\ balance' \in [Key -> Nat]
      /\ \A k \in Key : balance[k] <= balance'[k]
  <2>1. balance \in [Key -> Nat]
    BY <1>0 DEF Shape, Accts
  <2>2. CASE t.to = 0
    BY <1>1, <2>1, <2>2
  <2>3. CASE t.to # 0
    BY <1>1, <1>2, <2>1, <2>3
  <2>4. QED
    BY <2>1, <2>2, <2>3
<1>8. Shape'
  <2>1. Places' /\ Counters' /\ Locals' /\ Files' /\ Accts'
    BY <1>0, <1>1, <1>7 DEF Shape, Places, Counters, Locals, Files, Accts
  <2>2. Draining'
    <3>1. SUFFICES ASSUME drainPc = "wait",
                          drainTx.sent, drainTx.nonce = accountNonce[Head(toDrain)]
                   PROVE  /\ drainTx.value \in Nat /\ drainTx.gas \in Nat
                          /\ drainTx.value + drainTx.gas <= balance'[Head(toDrain)]
      BY <1>0, <1>1 DEF Shape, Draining
    <3>2. /\ drainTx.value \in Nat /\ drainTx.gas \in Nat
          /\ drainTx.value + drainTx.gas <= balance[Head(toDrain)]
          /\ toDrain # <<>> /\ toDrain \in Seq(Key)
      BY <1>0, <3>1 DEF Shape, Draining
    <3>3. Head(toDrain) \in Key
      BY <3>2, HeadTailProperties
    <3>4. balance[Head(toDrain)] \in Nat /\ balance'[Head(toDrain)] \in Nat
          /\ balance[Head(toDrain)] <= balance'[Head(toDrain)]
      BY <1>7, <3>3
    <3>5. QED
      BY <3>2, <3>4
  <2>3. QED
    BY <2>1, <2>2 DEF Shape
<1>9. NodeShape'
  <2>1. \A u \in mined' : u.nonce \in Nat /\ u.nonce < head'
    BY <1>0, <1>1, <1>2, <1>4 DEF NodeShape
  <2>2. QED
    BY <1>0, <1>1, <1>4, <1>5, <1>6, <2>1 DEF NodeShape
<1>10. FundingInv'
  <2>1. \A u \in pool' : ~(u.to # 0)
    BY <1>0, <1>2, <1>6 DEF FundingInv
  <2>2. submitNonce \in Nat /\ (pc \in SettingUp => submitNonce <= head)
    BY <1>0 DEF Shape, Locals, FundingInv
  <2>3. pc \in SettingUp => submitNonce <= head' /\ submitNonce # head'
    BY <1>2, <1>4, <2>2
  <2>4. (NeverOverfunded)'
    <3>1. SUFFICES ASSUME NEW k \in funded
                   PROVE  balance'[k] <= Target
      BY <1>1 DEF NeverOverfunded
    <3>2. k \in Key /\ balance[k] <= Target
      BY <1>0, <3>1 DEF FundingInv, NeverOverfunded
    <3>3. CASE t.to = k
      <4>1. t.to # 0 /\ k \in Nat
        BY <3>2, <3>3, KeyFacts DEF Key
      <4>2. balance[t.to] + t.value <= Target
        BY <1>0, <1>2, <4>1 DEF FundingInv
      <4>3. balance'[k] = balance[k] + t.value
        BY <1>1, <1>7, <3>2, <3>3, <4>1
      <4>4. QED
        BY <3>3, <4>2, <4>3
    <3>4. CASE t.to # k
      <4>1. balance'[k] = balance[k]
        BY <1>1, <1>7, <3>2, <3>4
      <4>2. QED
        BY <3>2, <4>1
    <3>5. QED
      BY <3>3, <3>4
  <2>5. pc = "send" => pc \in SettingUp
    BY DEF SettingUp
  <2>6. QED
    BY <1>0, <1>1, <2>1, <2>3, <2>4, <2>5 DEF FundingInv
<1>11. LeftInv'
  <2>1. submitNonce \in Nat /\ cfgNonce \in Nat
    BY <1>0 DEF Shape, Locals
  <2>2. \A m \in Nat : /\ \A n \in m..(head' - 1) : n = head \/ n \in m..(head - 1)
                       /\ \A n \in head'..(m - 1) : n # head /\ n \in head..(m - 1)
    BY <1>2, <1>4
  <2>3. CASE pc \in SettingUp \cup {"wait"}
    <3>1. /\ \A u \in pool : u.nonce \in left \/ (pc = "wait" /\ u.nonce + 1 = submitNonce)
          /\ \A n \in submitNonce..(head - 1) : n \in left
      BY <1>0, <2>3 DEF LeftInv
    <3>2. \A u \in pool' : u.nonce \in left \/ (pc = "wait" /\ u.nonce + 1 = submitNonce)
      BY <1>6, <3>1
    <3>3. head >= submitNonce => head \in left
      BY <1>2, <2>1, <3>1
    <3>4. \A n \in submitNonce..(head' - 1) : n \in left
      BY <1>2, <1>4, <2>1, <2>2, <3>1, <3>3
    <3>5. pc # "ready"
      BY <2>3 DEF SettingUp
    <3>6. QED
      BY <1>1, <3>2, <3>4, <3>5 DEF LeftInv
  <2>4. CASE pc = "ready"
    <3>1. /\ \A u \in pool : u.nonce < cfgNonce \/ u.nonce \in left
          /\ \A n \in cfgNonce..(head - 1) : n \in left
          /\ \A n \in head..(cfgNonce - 1) : Pooled(n) # {}
      BY <1>0, <2>4 DEF LeftInv
    <3>2. \A u \in pool' : u.nonce < cfgNonce \/ u.nonce \in left
      BY <1>6, <3>1
    <3>3. head >= cfgNonce => head \in left
      BY <1>2, <2>1, <3>1
    <3>4. \A n \in cfgNonce..(head' - 1) : n \in left
      BY <1>2, <1>4, <2>1, <2>2, <3>1, <3>3
    <3>5. \A n : n # head => Pooled(n) \subseteq Pooled(n)'
      BY <1>1, <1>2 DEF Pooled
    <3>6. \A n \in head'..(cfgNonce - 1) : Pooled(n)' # {}
      <4>1. SUFFICES ASSUME NEW n \in head'..(cfgNonce - 1)
                     PROVE  Pooled(n)' # {}
        OBVIOUS
      <4>2. n # head /\ Pooled(n) # {}
        BY <2>1, <2>2, <3>1, <4>1
      <4>3. QED
        BY <3>5, <4>2
    <3>7. pc \notin SettingUp \cup {"wait"}
      BY <2>4 DEF SettingUp
    <3>8. cfgNonce' = cfgNonce /\ left' = left /\ pc' = pc
      BY <1>1
    <3>9. QED
      BY <3>2, <3>4, <3>6, <3>7, <3>8 DEF LeftInv
  <2>5. CASE pc \notin SettingUp \cup {"wait", "ready"}
    BY <1>1, <2>5 DEF LeftInv
  <2>6. QED
    BY <2>3, <2>4, <2>5
<1>12. RunInv' /\ FreshInv' /\ FileInv' /\ ReuseInv' /\ CountInv'
  BY <1>1, FreshFrame, FilesFrame, CountFrame
<1>13. QED
  BY <1>8, <1>9, <1>10, <1>11, <1>12 DEF Inv

(* An inner transaction is included: it has the next nonce of its account,   *)
(* and pays.                                                                 *)
LEMMA MineInnerKeeps ==
  ASSUME Inv, MineInner
  PROVE  Inv'
<1>0. Shape /\ NodeShape /\ FundingInv /\ LeftInv /\ RunInv /\ FreshInv
  BY DEF Inv
<1>1. PICK t \in inner :
        /\ t.nonce = accountNonce[t.key] /\ balance[t.key] > 0
        /\ inner' = inner \ {t}
        /\ accountNonce' = [accountNonce EXCEPT ![t.key] = @ + 1]
        /\ balance' = [balance EXCEPT ![t.key] = @ - 1]
        /\ UNCHANGED <<mined, pool, sameFile, present, otherFile, pkHex, pc,
                       accounts, created, index, missing, own, submitNonce,
                       cfgNonce, innerNonce, keys, runs, submissions,
                       funded, left, risky, torn, drainPc, toDrain, seen, drainTx>>
  BY DEF MineInner, fileVars, localVars, cfgVars, countVars, histVars, drainVars
<1>2. /\ t.key \in Key /\ t.nonce \in Nat
      /\ balance \in [Key -> Nat] /\ accountNonce \in [Key -> Nat]
      /\ innerNonce \in [Key -> Nat]
  BY <1>0 DEF Shape, Accts
<1>3. /\ balance' \in [Key -> Nat] /\ accountNonce' \in [Key -> Nat]
      /\ \A k \in Key : balance'[k] <= balance[k]
      /\ \A k \in Key : k # t.key => /\ balance'[k] = balance[k]
                                     /\ accountNonce'[k] = accountNonce[k]
      /\ accountNonce'[t.key] = accountNonce[t.key] + 1
  BY <1>1, <1>2
<1>4. Shape'
  <2>1. Places' /\ Counters' /\ Locals' /\ Files' /\ Accts'
    BY <1>0, <1>1, <1>3 DEF Shape, Places, Counters, Locals, Files, Accts
  <2>2. Draining'
    <3>1. SUFFICES ASSUME drainPc = "wait"
                   PROVE  /\ drainTx.nonce <= accountNonce'[Head(toDrain)]
                          /\ drainTx.sent /\ drainTx.nonce = accountNonce'[Head(toDrain)] =>
                               /\ drainTx.value \in Nat /\ drainTx.gas \in Nat
                               /\ drainTx.value + drainTx.gas <= balance'[Head(toDrain)]
      BY <1>0, <1>1 DEF Shape, Draining
    <3>2. Head(toDrain) \in Key
      BY <1>0, <3>1, HeadTailProperties DEF Shape, Draining
    <3>3. /\ drainTx.nonce \in Nat /\ drainTx.nonce <= accountNonce[Head(toDrain)]
          /\ accountNonce[Head(toDrain)] \in Nat
      BY <1>0, <1>2, <3>1, <3>2 DEF Shape, Draining
    <3>4. CASE Head(toDrain) # t.key
      <4>1. /\ accountNonce'[Head(toDrain)] = accountNonce[Head(toDrain)]
            /\ balance'[Head(toDrain)] = balance[Head(toDrain)]
        BY <1>3, <3>2, <3>4
      <4>2. QED
        BY <1>0, <3>1, <4>1 DEF Shape, Draining
    <3>5. CASE Head(toDrain) = t.key
      <4>1. accountNonce'[Head(toDrain)] = accountNonce[Head(toDrain)] + 1
        BY <1>3, <3>5
      <4>2. QED
        BY <3>3, <4>1
    <3>6. QED
      BY <3>4, <3>5
  <2>3. QED
    BY <2>1, <2>2 DEF Shape
<1>5. NodeShape' /\ head' = head
  BY <1>0, <1>1, NodeFrame
<1>6. FundingInv'
  BY <1>1, <1>3, BalancesSink
<1>7. LeftInv'
  BY <1>0, <1>1, <1>5 DEF LeftInv, Pooled
<1>8. RunInv' /\ FreshInv'
  <2>1. RunInv'
    BY <1>0, <1>1 DEF RunInv
  <2>2. FreshInv'
    BY <1>0, <1>1, <1>2, <1>3 DEF FreshInv, Shape, Accts
  <2>3. QED
    BY <2>1, <2>2
<1>9. FileInv' /\ ReuseInv' /\ CountInv'
  BY <1>1, FilesFrame, CountFrame
<1>10. QED
  BY <1>4, <1>5, <1>6, <1>7, <1>8, <1>9 DEF Inv

-----------------------------------------------------------------------------
(* The steps of createConfiguration.                                         *)
LEMMA StartKeeps ==
  ASSUME Inv, Start
  PROVE  Inv'
<1>0. Shape /\ NodeShape /\ FundingInv
  BY DEF Inv
<1>1. /\ pc = "down" /\ drainPc = "idle" /\ runs < MaxRuns
      /\ runs' = runs + 1 /\ pc' = "retrieve"
      /\ submitNonce' = head /\ cfgNonce' = head /\ left' = {t.nonce : t \in pool}
      /\ UNCHANGED <<sameFile, present, otherFile, pkHex, mined, pool, balance, accountNonce,
                     inner, accounts, created, index, missing, own, innerNonce, keys,
                     submissions, funded, risky, torn, drainPc, toDrain, seen, drainTx>>
  BY DEF Start, SubmitNonce, fileVars, chainVars, drainVars
<1>2. head \in Nat
  BY <1>0, Facts
<1>3. Shape'
  <2>1. Places'
    BY <1>0, <1>1 DEF Shape, Places
  <2>2. Counters'
    <3>1. /\ keys \in Nat /\ runs \in Nat /\ runs' \in 0..MaxRuns /\ Max(InitialKeys) \in Nat
          /\ keys <= Max(InitialKeys) + NumFundedAccounts * runs
      BY <1>0, <1>1, KeyFacts DEF Shape, Counters
    <3>2. NumFundedAccounts * (runs + 1) = NumFundedAccounts * runs + NumFundedAccounts
      BY <3>1
    <3>3. NumFundedAccounts * runs \in Nat
      BY <3>1
    <3>4. keys + NumFundedAccounts <= Max(InitialKeys) + NumFundedAccounts * (runs + 1)
      BY <3>1, <3>2, <3>3
    <3>5. QED
      BY <1>0, <1>1, <3>1, <3>4 DEF Shape, Counters
  <2>3. Locals' /\ Files' /\ Accts' /\ Draining'
    BY <1>0, <1>1, <1>2 DEF Shape, Locals, Files, Accts, Draining
  <2>4. QED
    BY <2>1, <2>2, <2>3 DEF Shape
<1>4. NodeShape' /\ head' = head
  BY <1>0, <1>1, NodeFrame
<1>5. FundingInv' /\ LeftInv'
  <2>1. NeverOverfunded'
    BY <1>0, <1>1 DEF FundingInv, NeverOverfunded
  <2>2. FundingInv'
    BY <1>0, <1>1, <1>2, <1>4, <2>1 DEF FundingInv
  <2>3. LeftInv'
    <3>1. \A t \in pool' : t.nonce \in left'
      BY <1>1
    <3>2. \A n \in submitNonce'..(head' - 1) : FALSE
      BY <1>1, <1>2, <1>4
    <3>3. QED
      BY <1>1, <3>1, <3>2 DEF LeftInv
  <2>4. QED
    BY <2>2, <2>3
<1>6. RunInv' /\ FreshInv' /\ FileInv' /\ ReuseInv' /\ CountInv'
  <2>1. pc' \notin Working /\ runs \in Nat
    BY <1>0, <1>1 DEF Working, Shape, Counters
  <2>2. RunInv'
    <3>1. \A t \in inner : t.run \in 0..runs
      BY DEF Inv, RunInv
    <3>2. \A t \in inner : t.run \in 0..runs' /\ t.run # runs'
      BY <1>1, <2>1, <3>1
    <3>3. QED
      BY <1>1, <2>1, <3>2 DEF Inv, RunInv
  <2>3. FreshInv'
    BY <1>1, <2>1 DEF Inv, FreshInv
  <2>4. CountInv'
    <3>1. runs' - 1 = runs
      BY <1>1, <2>1
    <3>2. Cardinality(funded') <= NumFundedAccounts * (runs' - 1) /\ IsFiniteSet(funded')
      BY <1>1, <3>1 DEF Inv, CountInv
    <3>3. QED
      BY <1>1, <2>1, <3>2 DEF CountInv
  <2>5. QED
    BY <1>1, <2>2, <2>3, <2>4, FilesFrame
<1>7. QED
  BY <1>3, <1>4, <1>5, <1>6 DEF Inv

(* Steps that do not touch a file, the node or what an account got.          *)
LEMMA LocalKeeps ==
  ASSUME Inv, AllStored \/ FundEnough \/ FundLacks \/ FundMined \/ AllFunded
  PROVE  Inv'
<1>0. Shape /\ NodeShape /\ FundingInv /\ LeftInv
  BY DEF Inv
<1>1. UNCHANGED <<sameFile, present, otherFile, pkHex, mined, pool, balance, accountNonce,
                  inner, accounts, created, innerNonce, submitNonce, keys, runs, submissions,
                  funded, left, risky, torn, drainPc, toDrain, seen, drainTx>>
  BY DEF AllStored, FundEnough, FundLacks, FundMined, AllFunded, fileVars, chainVars,
         localVars, cfgVars, countVars, histVars, drainVars
<1>2. /\ head \in Nat /\ head' = head /\ NodeShape'
      /\ balance \in [Key -> Nat] /\ Len(accounts) \in Nat
      /\ \A j \in 1..Len(accounts) : accounts[j] \in Key
      /\ index \in Nat \ {0} /\ missing \in Int /\ cfgNonce \in Nat /\ submitNonce \in Nat
  BY <1>0, <1>1, Facts, NodeFrame DEF Shape, Accts, Locals
<1>3. pc \in Working /\ pc' \in Working /\ pc' # "retrieve" /\ pc # "retrieve" /\ drainPc = "idle"
  BY <1>0 DEF Working, AllStored, FundEnough, FundLacks, FundMined, AllFunded, Shape, Places
<1>4. RunInv' /\ FreshInv' /\ FileInv' /\ ReuseInv' /\ CountInv'
  BY <1>1, <1>3, FreshFrame, FilesFrame, CountFrame
<1>5. Places' /\ Counters' /\ Files' /\ Accts' /\ Draining'
  <2>1. pc' \in {"down", "retrieve", "store", "fund", "send", "wait", "ready"}
    BY <1>3 DEF Working
  <2>2. QED
    BY <1>0, <1>1, <1>3, <2>1 DEF Shape, Places, Counters, Files, Accts, Draining
<1>6. CASE AllStored
  <2>1. pc = "store" /\ pc' = "fund" /\ UNCHANGED <<index, missing, own, cfgNonce>>
    BY <1>6 DEF AllStored, localVars, cfgVars
  <2>2. Locals'
    BY <1>0, <1>1, <2>1 DEF Shape, Locals
  <2>3. FundingInv' /\ LeftInv'
    BY <1>0, <1>1, <1>2, <2>1 DEF FundingInv, LeftInv, SettingUp, NeverOverfunded
  <2>4. QED
    BY <1>2, <1>4, <1>5, <2>2, <2>3 DEF Inv, Shape
<1>7. CASE FundEnough
  <2>1. pc = "fund" /\ pc' = "fund" /\ index' = index + 1 /\ UNCHANGED <<missing, own, cfgNonce>>
    BY <1>7 DEF FundEnough, cfgVars
  <2>2. Locals'
    BY <1>0, <1>1, <1>2, <2>1 DEF Shape, Locals
  <2>3. FundingInv' /\ LeftInv'
    BY <1>0, <1>1, <1>2, <2>1 DEF FundingInv, LeftInv, SettingUp, NeverOverfunded
  <2>4. QED
    BY <1>2, <1>4, <1>5, <2>2, <2>3 DEF Inv, Shape
<1>8. CASE FundLacks
  <2>1. /\ pc = "fund" /\ pc' = "send" /\ UNCHANGED <<index, own, cfgNonce>>
        /\ index \in 1..Len(accounts) /\ missing' = Target - balance[accounts[index]]
        /\ AsInt64(missing') > Target \div 2
    BY <1>2, <1>8 DEF FundLacks, Lacks, cfgVars
  <2>2. accounts[index] \in Key /\ balance[accounts[index]] \in Nat
    BY <1>2, <2>1
  <2>3. missing' \in Int /\ missing' <= Target /\ balance[accounts[index]] + missing' <= Target
    BY <2>1, <2>2
  <2>4. Locals'
    BY <1>0, <1>1, <1>2, <2>1, <2>3 DEF Shape, Locals
  <2>5. FundingInv'
    <3>1. AsInt64(missing)' > Target \div 2
      BY <2>1 DEF AsInt64
    <3>2. NeverOverfunded'
      BY <1>0, <1>1 DEF FundingInv, NeverOverfunded
    <3>3. submitNonce <= head
      BY <1>0, <2>1 DEF FundingInv, SettingUp
    <3>4. QED
      BY <1>0, <1>1, <1>2, <2>1, <2>3, <3>1, <3>2, <3>3 DEF FundingInv
  <2>6. LeftInv'
    BY <1>0, <1>1, <1>2, <2>1 DEF LeftInv, SettingUp
  <2>7. QED
    BY <1>2, <1>4, <1>5, <2>4, <2>5, <2>6 DEF Inv, Shape
<1>9. CASE FundMined
  <2>1. /\ pc = "wait" /\ pc' = "fund" /\ index' = index + 1 /\ missing' = 0
        /\ own \in mined /\ own' = NoTx /\ UNCHANGED cfgNonce
    BY <1>9 DEF FundMined, cfgVars
  <2>2. own.nonce \in Nat /\ own.nonce < head /\ own.nonce + 1 = submitNonce
    BY <1>0, <2>1 DEF NodeShape, FundingInv
  <2>3. Locals'
    BY <1>0, <1>1, <1>2, <2>1 DEF Shape, Locals
  <2>4. FundingInv'
    BY <1>0, <1>1, <1>2, <2>1, <2>2 DEF FundingInv, NeverOverfunded
  <2>5. LeftInv'
    <3>1. /\ \A t \in pool : t.nonce \in left \/ t.nonce + 1 = submitNonce
          /\ \A n \in submitNonce..(head - 1) : n \in left
      BY <1>0, <2>1 DEF LeftInv
    <3>2. \A t \in pool : t.nonce \in Nat /\ t.nonce >= head
      BY <1>0 DEF NodeShape
    <3>3. head >= submitNonce
      BY <1>2, <2>2
    <3>4. \A t \in pool : t.nonce \in left
      BY <1>2, <3>1, <3>2, <3>3
    <3>5. QED
      BY <1>1, <1>2, <2>1, <3>1, <3>4 DEF LeftInv
  <2>6. QED
    BY <1>2, <1>4, <1>5, <2>3, <2>4, <2>5 DEF Inv, Shape
<1>10. CASE AllFunded
  <2>1. pc = "fund" /\ pc' = "ready" /\ cfgNonce' = head /\ UNCHANGED <<index, missing, own>>
    BY <1>10 DEF AllFunded, localVars
  <2>2. Locals'
    BY <1>0, <1>1, <1>2, <2>1 DEF Shape, Locals
  <2>3. FundingInv'
    BY <1>0, <1>1, <1>2, <2>1 DEF FundingInv, SettingUp, NeverOverfunded
  <2>4. LeftInv'
    <3>1. \A t \in pool' : t.nonce \in left'
      BY <1>0, <1>1, <2>1 DEF LeftInv, SettingUp
    <3>2. \A n \in cfgNonce'..(head' - 1) : FALSE
      BY <1>2, <2>1
    <3>3. \A n \in head'..(cfgNonce' - 1) : FALSE
      BY <1>2, <2>1
    <3>4. QED
      BY <2>1, <3>1, <3>2, <3>3 DEF LeftInv, SettingUp
  <2>5. QED
    BY <1>2, <1>4, <1>5, <2>2, <2>3, <2>4 DEF Inv, Shape
<1>11. QED
  BY <1>6, <1>7, <1>8, <1>9, <1>10

-----------------------------------------------------------------------------
(* Draining.                                                                 *)
LEMMA DrainKeeps ==
  ASSUME Inv, DrainStart \/ DrainEmpty \/ Drain \/ DrainDone
  PROVE  Inv'
<1>0. Shape
  BY DEF Inv
<1>1. /\ UNCHANGED <<sameFile, present, otherFile, pkHex, mined, pool, balance, accountNonce,
                     inner, pc, accounts, created, index, missing, own, submitNonce, cfgNonce,
                     innerNonce, keys, runs, submissions, funded, left, risky, torn>>
      /\ pc = "down"
  BY <1>0 DEF DrainStart, DrainEmpty, Drain, DrainDone, fileVars, chainVars, localVars, cfgVars,
              countVars, histVars, Shape, Places
<1>2. drainPc' \in {"drain", "wait", "done"}
  BY <1>0 DEF DrainStart, DrainEmpty, Drain, DrainDone, Shape, Places
<1>3. Places' /\ Counters' /\ Locals' /\ Files' /\ Accts'
  BY <1>0, <1>1, <1>2 DEF Shape, Places, Counters, Locals, Files, Accts
<1>4. NodeShape' /\ FundingInv' /\ LeftInv' /\ FileInv' /\ ReuseInv' /\ CountInv'
  BY <1>1, FundFrame, FilesFrame, CountFrame
<1>5. RunInv' /\ FreshInv'
  BY <1>1, <1>2 DEF Inv, RunInv, FreshInv, Working
<1>6. Draining'
  <2>1. CASE DrainStart
    <3>1. drainPc' = "drain" /\ toDrain' = ReadPks(pkHex) /\ seen' = balance
      BY <2>1 DEF DrainStart
    <3>2. PICK file \in Seq(Int) : file = pkHex
      BY <1>0 DEF Shape, Files
    <3>3. KeysIn(file) \subseteq Key
      <4>1. KeysIn(file) \subseteq 1..keys
        BY <1>0, <3>2, FileKeys
      <4>2. QED
        BY <1>0, <4>1, KeysBounded DEF Shape
    <3>4. ReadPks(file) \in Seq(Key)
      <4>1. ReadPks(file) \in Seq(KeysIn(file))
        BY ReadPksLists
      <4> HIDE DEF Key
      <4>2. QED
        BY <3>3, <4>1
    <3>5. balance \in [Key -> Nat]
      BY <1>0 DEF Shape, Accts
    <3>6. QED
      BY <3>1, <3>2, <3>4, <3>5 DEF Draining
  <2>2. CASE DrainEmpty
    <3>1. drainPc' = "drain" /\ toDrain' = Tail(toDrain) /\ seen' = seen /\ toDrain # <<>>
      BY <2>2 DEF DrainEmpty
    <3>2. toDrain \in Seq(Key) /\ seen \in [Key -> Nat]
      BY <1>0 DEF Shape, Draining
    <3>3. Tail(toDrain) \in Seq(Key)
      BY <3>1, <3>2, HeadTailProperties
    <3>4. QED
      BY <3>1, <3>2, <3>3 DEF Draining
  <2>3. CASE Drain
    <3>1. PICK gas \in Prices :
            drainTx' = [nonce |-> accountNonce[Head(toDrain)],
                        value |-> Remaining(Head(toDrain), gas), gas |-> gas,
                        sent |-> Remaining(Head(toDrain), gas)
                                   \in 0..(balance[Head(toDrain)] - gas)]
      BY <2>3 DEF Drain
    <3>2. drainPc' = "wait" /\ UNCHANGED <<toDrain, seen>> /\ toDrain # <<>>
      BY <2>3 DEF Drain
    <3>3. toDrain \in Seq(Key) /\ seen \in [Key -> Nat]
      BY <1>0 DEF Shape, Draining
    <3>4. PICK k \in Key : k = Head(toDrain)
      BY <3>2, <3>3, HeadTailProperties
    <3>5. balance[k] \in Nat /\ accountNonce[k] \in Nat /\ gas \in Nat
      BY <1>0 DEF Shape, Accts
    <3> DEFINE v == Remaining(k, gas)
    <3> HIDE DEF v
    <3>6. /\ drainTx'.nonce = accountNonce[k] /\ drainTx'.value = v /\ drainTx'.gas = gas
          /\ drainTx'.sent = (v \in 0..(balance[k] - gas))
      BY <3>1, <3>4 DEF v
    <3>7. v \in 0..(balance[k] - gas) => v \in Nat /\ v + gas <= balance[k]
      BY <3>5
    <3>8. accountNonce'[Head(toDrain')] = accountNonce[k] /\ balance'[Head(toDrain')] = balance[k]
      BY <1>1, <3>2, <3>4
    <3>9. drainTx'.sent => drainTx'.value \in Nat /\ drainTx'.value + drainTx'.gas <= balance[k]
      BY <3>6, <3>7
    <3>10. accountNonce[k] <= accountNonce[k]
      BY <3>5
    <3>11. QED
      BY <3>2, <3>3, <3>5, <3>6, <3>8, <3>9, <3>10 DEF Draining
  <2>4. CASE DrainDone
    BY <1>0, <2>4 DEF Shape, Draining, DrainDone
  <2>5. QED
    BY <2>1, <2>2, <2>3, <2>4
<1>7. QED
  BY <1>3, <1>4, <1>5, <1>6 DEF Inv, Shape

(* What Drain sent never exceeds the balance of an account whose nonce did   *)
(* not change since.                                                         *)
LEMMA DrainMinedKeeps ==
  ASSUME Inv, DrainMined
  PROVE  Inv'
<1>0. Shape /\ NodeShape /\ LeftInv
  BY DEF Inv
<1> DEFINE k == Head(toDrain)
<1>1. /\ drainPc = "wait" /\ drainPc' = "drain" /\ drainTx.sent
      /\ drainTx.nonce = accountNonce[k]
      /\ accountNonce' = [accountNonce EXCEPT ![k] = @ + 1]
      /\ balance' = [balance EXCEPT ![k] = @ - drainTx.value - drainTx.gas]
      /\ toDrain' = Tail(toDrain)
      /\ UNCHANGED <<sameFile, present, otherFile, pkHex, mined, pool, inner, pc,
                     accounts, created, index, missing, own, submitNonce, cfgNonce,
                     innerNonce, keys, runs, submissions, funded, left, risky, torn,
                     seen, drainTx>>
  BY DEF DrainMined, fileVars, localVars, cfgVars, countVars, histVars
<1>2. /\ toDrain # <<>> /\ toDrain \in Seq(Key) /\ seen \in [Key -> Nat]
      /\ drainTx.value \in Nat /\ drainTx.gas \in Nat
      /\ drainTx.value + drainTx.gas <= balance[k]
  BY <1>0, <1>1 DEF Shape, Draining
<1>3. k \in Key /\ Tail(toDrain) \in Seq(Key)
  BY <1>2, HeadTailProperties
<1> HIDE DEF k
<1>4. balance \in [Key -> Nat] /\ accountNonce \in [Key -> Nat]
  BY <1>0 DEF Shape, Accts
<1>5. balance[k] - drainTx.value - drainTx.gas \in 0..balance[k]
  <2>1. balance[k] \in Nat
    BY <1>3, <1>4
  <2>2. QED
    BY <1>2, <2>1
<1>6. /\ balance' \in [Key -> Nat] /\ accountNonce' \in [Key -> Nat]
      /\ \A j \in Key : balance'[j] <= balance[j]
  BY <1>1, <1>3, <1>4, <1>5
<1>7. Places' /\ Counters' /\ Locals' /\ Files' /\ Accts'
  BY <1>0, <1>1, <1>6 DEF Shape, Places, Counters, Locals, Files, Accts
<1>8. Draining'
  BY <1>1, <1>2, <1>3 DEF Draining
<1>9. NodeShape' /\ head' = head
  BY <1>0, <1>1, NodeFrame
<1>10. FundingInv'
  BY <1>1, <1>6, BalancesSink
<1>11. LeftInv'
  BY <1>0, <1>1, <1>9 DEF LeftInv, Pooled
<1>12. RunInv' /\ FreshInv'
  <2>1. pc' = "down"
    BY <1>0, <1>1 DEF Shape, Places
  <2>2. QED
    BY <1>1, <2>1 DEF Inv, RunInv, FreshInv, Working
<1>13. FileInv' /\ ReuseInv' /\ CountInv'
  BY <1>1, FilesFrame, CountFrame
<1>14. QED
  BY <1>7, <1>8, <1>9, <1>10, <1>11, <1>12, <1>13 DEF Inv, Shape

-----------------------------------------------------------------------------
(* The node takes a transaction: it replaces the one of its nonce, if any.   *)
LEMMA AcceptedInPool ==
  ASSUME NodeShape, NEW t, t.nonce \in Nat, t.value \in Nat, t.to \in Key \cup {0},
         Accepts(t), pool' = With(t), mined' = mined
  PROVE  /\ NodeShape' /\ head' = head /\ t \in pool'
         /\ \A u \in pool' : u = t \/ (u \in pool /\ u.nonce # t.nonce)
         /\ Pooled(t.nonce) = {} => /\ pool' = pool \cup {t}
                                    /\ Cardinality(pool') = Cardinality(pool) + 1
<1>1. head' = head
  BY DEF head
<1>2. /\ t \in pool'
      /\ \A u \in pool' : u = t \/ (u \in pool /\ u.nonce # t.nonce)
  BY DEF With, Pooled
<1>3. IsFiniteSet(pool) /\ t.nonce >= head
  BY DEF NodeShape, Accepts
<1>4. IsFiniteSet(pool')
  <2> DEFINE rest == pool \ Pooled(t.nonce)
  <2>1. rest \in SUBSET pool
    OBVIOUS
  <2>2. pool' = rest \cup {t}
    BY DEF With
  <2> HIDE DEF rest
  <2>3. IsFiniteSet(rest)
    BY <1>3, <2>1, FS_Subset
  <2>4. QED
    BY <2>2, <2>3, FS_AddElement
<1>5. NodeShape'
  <2>1. \A u \in mined' : u.nonce \in Nat /\ u.nonce < head'
    BY <1>1 DEF NodeShape
  <2>2. \A u \in pool' : /\ u.nonce \in Nat /\ u.nonce >= head'
                         /\ u.value \in Nat /\ u.to \in Key \cup {0}
    BY <1>1, <1>2, <1>3 DEF NodeShape
  <2>3. \A u, v \in pool' : u.nonce = v.nonce => u = v
    BY <1>2 DEF NodeShape
  <2>4. QED
    BY <1>4, <2>1, <2>2, <2>3 DEF NodeShape
<1>6. Pooled(t.nonce) = {} => pool' = pool \cup {t} /\ t \notin pool
  BY DEF With, Pooled
<1>7. Pooled(t.nonce) = {} => Cardinality(pool') = Cardinality(pool) + 1
  BY <1>3, <1>6, FS_AddElement
<1>8. QED
  BY <1>1, <1>2, <1>5, <1>6, <1>7

(* A funding transaction is sent: it has the very next nonce of the submit   *)
(* account, so that it takes the place of one that is still pending.         *)
LEMMA FundSendKeeps ==
  ASSUME Inv, FundSend
  PROVE  Inv'
<1>0. Shape /\ NodeShape /\ FundingInv /\ LeftInv /\ FileInv /\ ReuseInv
  BY DEF Inv
<1>1. PICK price \in Prices :
        /\ pc = "send" /\ Accepts(FundTx(price)) /\ pc' = "wait"
        /\ pool' = With(FundTx(price)) /\ own' = FundTx(price)
        /\ submitNonce' = submitNonce + 1 /\ funded' = funded \cup {accounts[index]}
        /\ UNCHANGED <<sameFile, present, otherFile, pkHex, mined, balance, accountNonce, inner,
                       accounts, created, index, missing, cfgNonce, innerNonce,
                       keys, runs, submissions, left, risky, torn,
                       drainPc, toDrain, seen, drainTx>>
  BY DEF FundSend, fileVars, cfgVars, countVars, drainVars
<1>2. PICK k \in Key : k = accounts[index]
  BY <1>0, <1>1, Facts
<1>3. /\ head \in Nat /\ balance[k] \in Nat /\ missing \in Int /\ submitNonce \in Nat
      /\ k # 0 /\ k \in ToSet(accounts) /\ balance \in [Key -> Nat]
  BY <1>0, <1>1, <1>2, Facts DEF Shape, Accts, Locals
<1>4. PICK t : t = FundTx(price)
  OBVIOUS
<1>5. t.nonce = submitNonce /\ t.to = k /\ t.value = missing
  BY <1>2, <1>4 DEF FundTx, FundNonce
<1>6. missing \in Nat /\ submitNonce >= head
  BY <1>1, <1>3, <1>4, <1>5 DEF Accepts
<1>7. submitNonce = head /\ balance[k] + missing <= Target
  BY <1>0, <1>1, <1>2, <1>3, <1>6 DEF FundingInv, SettingUp
<1>8. /\ NodeShape' /\ head' = head
      /\ \A u \in pool' : u = t \/ (u \in pool /\ u.nonce # t.nonce)
      /\ Pooled(t.nonce) = {} => pool' = pool \cup {t}
  <2>1. t.nonce \in Nat /\ t.value \in Nat /\ t.to \in Key \cup {0} /\ Accepts(t)
    BY <1>1, <1>3, <1>4, <1>5, <1>6
  <2>2. pool' = With(t) /\ mined' = mined
    BY <1>1, <1>4
  <2>3. QED
    BY <1>0, <2>1, <2>2, AcceptedInPool
<1>9. Shape'
  <2>1. Places'
    BY <1>0, <1>1 DEF Shape, Places
  <2>2. Counters' /\ Files' /\ Accts' /\ Draining'
    BY <1>0, <1>1 DEF Shape, Counters, Files, Accts, Draining
  <2>3. Locals'
    BY <1>0, <1>1, <1>3 DEF Shape, Locals
  <2>4. QED
    BY <2>1, <2>2, <2>3 DEF Shape
<1>10. FundingInv'
  <2>1. \A u \in pool' : u.to # 0 => u.nonce = head' /\ balance'[u.to] + u.value <= Target
    <3>1. SUFFICES ASSUME NEW u \in pool', u.to # 0
                   PROVE  u.nonce = head /\ balance[u.to] + u.value <= Target
      BY <1>1, <1>8
    <3>2. CASE u = t
      BY <1>5, <1>7, <3>2
    <3>3. CASE u # t
      BY <1>0, <1>8, <3>1, <3>3 DEF FundingInv
    <3>4. QED
      BY <3>2, <3>3
  <2>2. pc' \notin SettingUp /\ pc' # "send"
    BY <1>1 DEF SettingUp
  <2>3. own'.nonce + 1 = submitNonce'
    BY <1>1, <1>4, <1>5
  <2>4. balance[k] <= Target
    BY <1>3, <1>6, <1>7
  <2>5. funded' \subseteq Key /\ NeverOverfunded'
    BY <1>0, <1>1, <1>2, <2>4 DEF FundingInv, NeverOverfunded
  <2>6. QED
    BY <2>1, <2>2, <2>3, <2>5 DEF FundingInv
<1>11. LeftInv'
  <2>1. /\ \A u \in pool : u.nonce \in left
        /\ \A n \in submitNonce..(head - 1) : n \in left
    BY <1>0, <1>1 DEF LeftInv, SettingUp
  <2>2. \A u \in pool' : u.nonce \in left \/ u.nonce + 1 = submitNonce'
    BY <1>1, <1>5, <1>8, <2>1
  <2>3. \A n \in submitNonce'..(head' - 1) : n \in left
    BY <1>1, <1>3, <1>8, <2>1
  <2>4. QED
    BY <1>1, <2>2, <2>3 DEF LeftInv
<1>12. RunInv' /\ FreshInv'
  BY <1>1, FreshFrame DEF Working
<1>13. FileInv' /\ ReuseInv'
  <2>1. ToSet(accounts) \cup funded' = ToSet(accounts) \cup funded
    BY <1>1, <1>2, <1>3
  <2>2. QED
    BY <1>0, <1>1, <2>1 DEF FileInv, Lost, Open, ReuseInv, Firsts
<1>14. CountInv'
  <2>1. IsFiniteSet(funded')
    <3>1. IsFiniteSet(funded)
      BY DEF Inv, CountInv
    <3>2. QED
      BY <1>1, <3>1, FS_AddElement
  <2>2. funded' \ ToSet(accounts') = funded \ ToSet(accounts)
    BY <1>1, <1>2, <1>3
  <2>3. pc \in Working /\ pc' \in Working /\ pc' \notin {"down", "retrieve"}
    BY <1>1 DEF Working
  <2>4. QED
    BY <1>1, <2>1, <2>2, <2>3 DEF Inv, CountInv
<1>15. QED
  BY <1>8, <1>9, <1>10, <1>11, <1>12, <1>13, <1>14 DEF Inv

(* A submission, and the inner transaction of an account.                    *)
LEMMA SubmitKeeps ==
  ASSUME Inv, Submit
  PROVE  Inv'
<1>0. Shape /\ NodeShape /\ FundingInv /\ LeftInv /\ RunInv /\ FreshInv
  BY DEF Inv
<1>1. PICK k \in ToSet(accounts), price \in Prices :
        /\ pc = "ready" /\ submissions < MaxSubmissions /\ submissions' = submissions + 1
        /\ Accepts(SubmitTx(price)) /\ pool' = With(SubmitTx(price))
        /\ inner' = inner \cup {[key |-> k, nonce |-> innerNonce[k], submission |-> cfgNonce,
                                    run |-> runs]}
        /\ cfgNonce' = cfgNonce + 1 /\ innerNonce' = [innerNonce EXCEPT ![k] = @ + 1]
        /\ UNCHANGED <<sameFile, present, otherFile, pkHex, mined, balance, accountNonce, pc,
                       accounts, created, index, missing, own, submitNonce, keys, runs,
                       funded, left, risky, torn, drainPc, toDrain, seen, drainTx>>
  BY DEF Submit, fileVars, localVars, histVars, drainVars
<1>2. /\ k \in Key /\ head \in Nat /\ cfgNonce \in Nat /\ Cardinality(pool) \in Nat
      /\ innerNonce \in [Key -> Nat] /\ accountNonce \in [Key -> Nat]
  BY <1>0, <1>1, Facts DEF Shape, Accts, Locals
<1>3. PICK t : t = SubmitTx(price)
  OBVIOUS
<1>4. t.nonce = cfgNonce /\ t.to = 0 /\ t.value = 0
  BY <1>3 DEF SubmitTx
<1>5. /\ NodeShape' /\ head' = head
      /\ \A u \in pool' : u = t \/ (u \in pool /\ u.nonce # t.nonce)
      /\ Pooled(t.nonce) = {} => Cardinality(pool') = Cardinality(pool) + 1
  <2>1. t.nonce \in Nat /\ t.value \in Nat /\ t.to \in Key \cup {0} /\ Accepts(t)
    BY <1>1, <1>2, <1>3, <1>4
  <2>2. pool' = With(t) /\ mined' = mined
    BY <1>1, <1>3
  <2>3. QED
    BY <1>0, <2>1, <2>2, AcceptedInPool
<1>6. PICK i : i = [key |-> k, nonce |-> innerNonce[k], submission |-> cfgNonce,
                                    run |-> runs]
  OBVIOUS
<1>7. /\ inner' = inner \cup {i} /\ i.key = k /\ i.nonce = innerNonce[k] /\ i.nonce \in Nat
      /\ innerNonce' \in [Key -> Nat] /\ innerNonce'[k] = innerNonce[k] + 1
      /\ \A j \in Key : innerNonce'[j] >= innerNonce[j]
  BY <1>1, <1>2, <1>6
<1>8. Shape'
  <2>1. Places' /\ Counters' /\ Files' /\ Draining'
    BY <1>0, <1>1 DEF Shape, Places, Counters, Files, Draining
  <2>2. Locals'
    BY <1>0, <1>1, <1>2 DEF Shape, Locals
  <2>3. Accts'
    BY <1>0, <1>1, <1>2, <1>7 DEF Shape, Accts
  <2>4. QED
    BY <2>1, <2>2, <2>3 DEF Shape
<1>9. FundingInv'
  <2>1. \A u \in pool' : u.to # 0 => u \in pool
    BY <1>4, <1>5
  <2>2. NeverOverfunded'
    BY <1>0, <1>1 DEF FundingInv, NeverOverfunded
  <2>3. QED
    BY <1>0, <1>1, <1>5, <2>1, <2>2 DEF FundingInv, SettingUp
<1>10. LeftInv'
  <2>1. /\ \A u \in pool : u.nonce < cfgNonce \/ u.nonce \in left
        /\ \A n \in cfgNonce..(head - 1) : n \in left
        /\ \A n \in head..(cfgNonce - 1) : Pooled(n) # {}
    BY <1>0, <1>1 DEF LeftInv
  <2>2. \A u \in pool' : u.nonce \in Nat
    BY <1>5 DEF NodeShape
  <2>3. \A u \in pool' : u.nonce < cfgNonce' \/ u.nonce \in left
    BY <1>1, <1>2, <1>4, <1>5, <2>1, <2>2
  <2>4. \A n \in cfgNonce'..(head' - 1) : n \in left
    BY <1>1, <1>2, <1>5, <2>1
  <2>5. \A n \in head'..(cfgNonce' - 1) : Pooled(n)' # {}
    <3>1. SUFFICES ASSUME NEW n \in head'..(cfgNonce' - 1)
                   PROVE  \E u \in pool' : u.nonce = n
      BY DEF Pooled
    <3>2. n = cfgNonce \/ n \in head..(cfgNonce - 1)
      BY <1>1, <1>2, <1>5, <3>1
    <3>3. CASE n = cfgNonce
      BY <1>1, <1>3, <1>4, <3>3 DEF With
    <3>4. CASE n # cfgNonce
      <4>1. PICK u \in pool : u.nonce = n
        BY <2>1, <3>2, <3>4 DEF Pooled
      <4>2. u \notin Pooled(t.nonce)
        BY <1>4, <3>4, <4>1 DEF Pooled
      <4>3. u \in pool'
        BY <1>1, <1>3, <4>2 DEF With
      <4>4. QED
        BY <4>1, <4>3
    <3>5. QED
      BY <3>3, <3>4
  <2>6. pc' = "ready" /\ left' = left
    BY <1>1
  <2>7. QED
    BY <2>3, <2>4, <2>5, <2>6 DEF LeftInv, SettingUp
<1>11. RunInv' /\ FreshInv'
  <2>0. drainPc = "idle" /\ pc \in Working /\ pc' \in Working /\ pc' # "retrieve"
        /\ runs \in Nat /\ i.run = runs
    BY <1>0, <1>1, <1>6 DEF Shape, Places, Counters, Working
  <2>1. /\ \A u \in inner : u.run \in 0..runs
        /\ \A u, v \in inner : u.key = v.key /\ u.run = v.run /\ u # v => u.nonce # v.nonce
        /\ \A u \in inner : u.run = runs => u.nonce < innerNonce[u.key]
    BY <1>0, <2>0 DEF RunInv
  <2>2. /\ \A u \in inner : u.key \notin risky =>
             /\ u.nonce >= accountNonce[u.key]
             /\ \A v \in inner \ {u} : v.key # u.key \/ v.nonce # u.nonce
        /\ \A j \in Key \ risky : innerNonce[j] >= accountNonce[j]
        /\ \A u \in inner : u.key \notin risky => u.nonce < innerNonce[u.key]
    BY <1>0, <2>0 DEF FreshInv
  <2>3. \A u \in inner : u.key \in Key /\ u.nonce \in Nat
    BY <1>0 DEF Shape, Accts
  <2>4. \A u \in inner : (u.run = runs \/ u.key \notin risky) => u.key # k \/ u.nonce # i.nonce
    BY <1>2, <1>7, <2>1, <2>2, <2>3
  <2>5. \A u \in inner' : u = i \/ u \in inner
    BY <1>7
  <2>6. \A u \in inner : u.nonce < innerNonce[u.key] => u.nonce < innerNonce'[u.key]
    BY <1>2, <1>7, <2>3
  <2>7. i.nonce < innerNonce'[i.key]
    BY <1>2, <1>7
  <2>8. RunInv'
    <3>1. \A u \in inner' : u.run \in 0..runs
      BY <2>0, <2>1, <2>5
    <3>2. \A u, v \in inner' : u.key = v.key /\ u.run = v.run /\ u # v => u.nonce # v.nonce
      BY <1>7, <2>0, <2>1, <2>4, <2>5
    <3>3. \A u \in inner' : u.run = runs => u.nonce < innerNonce'[u.key]
      BY <2>1, <2>5, <2>6, <2>7
    <3>4. QED
      BY <1>1, <2>0, <3>1, <3>2, <3>3 DEF RunInv
  <2>9. FreshInv'
    <3>1. \A u \in inner' : u.key \notin risky => u.nonce >= accountNonce[u.key]
      BY <1>2, <1>7, <2>2, <2>5
    <3>2. \A u \in inner', v \in inner' :
             u.key \notin risky /\ u # v => v.key # u.key \/ v.nonce # u.nonce
      BY <1>7, <2>2, <2>4, <2>5
    <3>3. \A j \in Key \ risky : innerNonce'[j] >= accountNonce[j]
      BY <1>2, <1>7, <2>2
    <3>4. \A u \in inner' : u.key \notin risky => u.nonce < innerNonce'[u.key]
      BY <2>2, <2>5, <2>6, <2>7
    <3>5. QED
      BY <1>1, <3>1, <3>2, <3>3, <3>4 DEF FreshInv
  <2>10. QED
    BY <2>8, <2>9
<1>12. FileInv' /\ ReuseInv' /\ CountInv'
  BY <1>1, FilesFrame, CountFrame
<1>13. QED
  BY <1>5, <1>8, <1>9, <1>10, <1>11, <1>12 DEF Inv

(* The keys that are there are taken from the file, the others are made.     *)
LEMMA RetrieveKeeps ==
  ASSUME Inv, Retrieve
  PROVE  Inv'
<1>0. Shape /\ NodeShape /\ FundingInv /\ LeftInv /\ FileInv /\ ReuseInv
  BY DEF Inv
<1> DEFINE ks == ReadPks(PkFile)
           m == Len(Retrieved)
<1>1. PICK failing \in SUBSET ToSet(Retrieved) :
        /\ pc = "retrieve" /\ pc' = "store" /\ accounts' = Retrieved
        /\ innerNonce' = InnerNonces(failing)
        /\ risky' = risky \cup failing \cup {t.key : t \in inner}
        /\ keys' = keys + (NumFundedAccounts - m)
        /\ created' = [j \in 1..(NumFundedAccounts - m) |-> keys + j]
        /\ UNCHANGED <<sameFile, present, otherFile, pkHex, mined, pool, balance, accountNonce,
                       inner, index, missing, own, submitNonce, cfgNonce, runs, submissions,
                       funded, left, torn, drainPc, toDrain, seen, drainTx>>
  BY DEF Retrieve, MissingKeys, fileVars, chainVars, drainVars
<1>2. PICK file \in Seq(Int) : file = PkFile /\ file \in {pkHex, otherFile}
                               /\ (sameFile => file = pkHex)
  BY <1>0 DEF PkFile, Shape, Files, Places
<1>3. /\ ks \in Seq(KeysIn(file)) /\ Len(ks) \in Nat /\ DOMAIN ks = 1..Len(ks)
      /\ \A n \in 1..Len(ks) : ks[n] \in KeysIn(file)
  BY <1>2, ReadPksLists, LenProperties, ElementOfSeq
<1>4. PICK l \in Nat : /\ l = Min({Len(ks), NumFundedAccounts})
                       /\ l <= Len(ks) /\ l <= NumFundedAccounts
                       /\ l = Len(ks) \/ l = NumFundedAccounts
  <2> DEFINE S == {Len(ks), NumFundedAccounts}
  <2>1. S \in SUBSET Nat /\ S # {}
    BY <1>3
  <2>2. Min(S) \in S /\ \A x \in S : Min(S) <= x
    <3> HIDE DEF S
    <3>1. QED
      BY <2>1, MinIsLeast
  <2>3. QED
    BY <1>3, <2>2
<1>5. Retrieved = SubSeq(ks, 1, l)
  BY <1>4 DEF Retrieved
<1>6. /\ m = l /\ Retrieved \in Seq(KeysIn(file))
      /\ \A n \in 1..l : Retrieved[n] = ks[n]
  <2> DEFINE K == KeysIn(file)
  <2>1. ks \in Seq(K) /\ 1 \in Int /\ l \in Int /\ l <= Len(ks) /\ Len(ks) \in Nat
    BY <1>3, <1>4
  <2> HIDE DEF K, ks
  <2>2. \A i \in 1..l : ks[i] \in K
    <3>1. \A i \in 1..l : i \in 1..Len(ks)
      BY <2>1
    <3>2. QED
      BY <2>1, <3>1, ElementOfSeq
  <2>3. /\ SubSeq(ks, 1, l) \in Seq(K) /\ Len(SubSeq(ks, 1, l)) = l
        /\ \A n \in 1..l : SubSeq(ks, 1, l)[n] = ks[n]
    <3>1. SubSeq(ks, 1, l) = [n \in 1..l |-> ks[n]]
      BY <2>1
    <3>2. SubSeq(ks, 1, l) \in [1..l -> K]
      BY <2>2, <3>1
    <3>3. QED
      BY <2>1, <3>1, <3>2
  <2>4. QED
    BY <1>5, <2>3 DEF K
<1> HIDE DEF m, ks
<1>7. ToSet(Retrieved) = {ks[n] : n \in 1..l} /\ ToSet(Retrieved) \subseteq KeysIn(file)
  <2>1. DOMAIN Retrieved = 1..l
    BY <1>6, LenProperties DEF m
  <2>2. \A n \in 1..l : n \in 1..Len(ks)
    BY <1>3, <1>4
  <2>3. ToSet(Retrieved) = {Retrieved[n] : n \in 1..l}
    BY <2>1 DEF ToSet
  <2>4. QED
    BY <1>3, <1>6, <2>2, <2>3
<1>8. /\ keys \in Nat /\ keys' \in Nat /\ keys' >= keys
      /\ NumFundedAccounts - m \in Nat /\ keys' = keys + (NumFundedAccounts - m)
  BY <1>0, <1>1, <1>4, <1>6 DEF Shape, Counters
<1>9. Shape'
  <2>1. Places'
    BY <1>0, <1>1 DEF Shape, Places
  <2>2. Counters'
    <3>1. keys + NumFundedAccounts <= Max(InitialKeys) + NumFundedAccounts * runs
      BY <1>0, <1>1 DEF Shape, Counters
    <3>2. runs \in Nat /\ Max(InitialKeys) + NumFundedAccounts * runs \in Nat
      BY <1>0, KeyFacts DEF Shape, Counters
    <3>3. keys' <= Max(InitialKeys) + NumFundedAccounts * runs
      <4> DEFINE b == Max(InitialKeys) + NumFundedAccounts * runs
      <4>1. keys + NumFundedAccounts <= b /\ b \in Nat
        BY <3>1, <3>2
      <4> HIDE DEF b
      <4>2. keys' <= b
        BY <1>4, <1>6, <1>8, <4>1
      <4>3. QED
        BY <4>2 DEF b
    <3>4. QED
      BY <1>0, <1>1, <1>8, <3>3 DEF Shape, Counters
  <2>3. Locals'
    <3> DEFINE K == 1..keys'
               d == NumFundedAccounts - m
    <3>1. KeysIn(file) \subseteq K
      BY <1>0, <1>2, <1>8, FileKeys
    <3>2. \A j \in 1..d : keys + j \in K
      BY <1>8
    <3>3. created' = [j \in 1..d |-> keys + j] /\ d \in Nat
      BY <1>1, <1>8
    <3> HIDE DEF K, d
    <3>4. accounts' \in Seq(K) /\ Len(accounts') = m
      BY <1>1, <1>6, <3>1 DEF m
    <3>5. created' \in [1..d -> K]
      BY <3>2, <3>3
    <3>6. created' \in Seq(K) /\ Len(created') = d
      BY <3>3, <3>5
    <3>7. m + d <= NumFundedAccounts
      BY <1>4, <1>6 DEF d
    <3>8. QED
      BY <1>0, <1>1, <3>4, <3>6, <3>7 DEF K, Shape, Locals
  <2>4. Files'
    <3>1. /\ pkHex \in Seq(Int) /\ \A j \in 1..Len(pkHex) : pkHex[j] \in Int /\ pkHex[j] <= keys
          /\ otherFile \in Seq(Int)
          /\ \A j \in 1..Len(otherFile) : otherFile[j] \in Int /\ otherFile[j] <= keys
      BY <1>0, ElementOfSeq DEF Shape, Files
    <3>2. QED
      BY <1>1, <1>8, <3>1 DEF Files
  <2>5. Accts'
    <3>1. innerNonce' \in [Key -> Nat]
      BY <1>0, <1>1 DEF Shape, Accts, InnerNonces
    <3>2. QED
      BY <1>0, <1>1, <3>1 DEF Shape, Accts
  <2>6. Draining'
    BY <1>1, DrainFrame
  <2>7. QED
    BY <2>1, <2>2, <2>3, <2>4, <2>5, <2>6 DEF Shape
<1>10. NodeShape' /\ head' = head
  BY <1>0, <1>1, NodeFrame
<1>11. FundingInv' /\ LeftInv'
  <2>1. NeverOverfunded'
    BY <1>0, <1>1 DEF FundingInv, NeverOverfunded
  <2>2. FundingInv'
    BY <1>0, <1>1, <1>10, <2>1 DEF FundingInv, SettingUp
  <2>3. LeftInv'
    BY <1>0, <1>1, <1>10 DEF LeftInv, SettingUp
  <2>4. QED
    BY <2>2, <2>3
<1>12. RunInv' /\ FreshInv' /\ CountInv'
  <2>1. pc' \in Working /\ pc' \notin {"down", "retrieve"}
    BY <1>1 DEF Working
  <2>2. RunInv'
    <3>1. \A t \in inner : t.run # runs
      BY <1>1 DEF Inv, RunInv
    <3>2. QED
      BY <1>1, <2>1, <3>1 DEF Inv, RunInv
  <2>3. FreshInv'
    <3>1. \A t \in inner' : t.key \in risky'
      BY <1>1
    <3>2. \A k \in Key \ risky' : innerNonce'[k] = accountNonce[k] /\ accountNonce[k] \in Nat
      BY <1>0, <1>1 DEF InnerNonces, Shape, Accts
    <3>3. \A k \in Key \ risky' : innerNonce'[k] >= accountNonce'[k]
      BY <1>1, <3>2
    <3>4. QED
      BY <3>1, <3>3 DEF FreshInv
  <2>4. CountInv'
    <3> DEFINE A == ToSet(accounts')
               B == funded \ A
    <3>1. IsFiniteSet(funded) /\ Cardinality(funded) <= NumFundedAccounts * (runs - 1)
      BY <1>1 DEF Inv, CountInv
    <3>2. B \in SUBSET funded
      OBVIOUS
    <3>3. funded' \ ToSet(accounts') = B /\ runs' = runs /\ funded' = funded
      BY <1>1
    <3> HIDE DEF B
    <3>4. IsFiniteSet(B) /\ Cardinality(B) <= Cardinality(funded)
      BY <3>1, <3>2, FS_Subset
    <3>5. Cardinality(B) \in Nat /\ Cardinality(funded) \in Nat
      BY <3>1, <3>4, FS_CardinalityType
    <3>6. PICK b \in Int : b = NumFundedAccounts * (runs - 1)
      BY <1>0 DEF Shape, Counters
    <3>7. Cardinality(B) <= b
      BY <3>1, <3>4, <3>5, <3>6
    <3>8. QED
      BY <2>1, <3>1, <3>3, <3>6, <3>7 DEF CountInv
  <2>5. QED
    BY <2>2, <2>3, <2>4
<1>13. FileInv'
  <2>1. ToSet(accounts') \subseteq KeysIn(pkHex) \cup KeysIn(otherFile)
    BY <1>1, <1>2, <1>7
  <2>2. Lost' \in SUBSET Lost /\ Open(pkHex)' = Open(pkHex)
    BY <1>1, <2>1 DEF Lost, Open
  <2>3. QED
    BY <1>0, <1>1, <2>2, NoneLost DEF Shape, Places
<1>14. ReuseInv'
  <2>1. SUFFICES ASSUME sameFile, torn = 0
                 PROVE  /\ ToSet(accounts') \cup funded \subseteq Firsts
                        /\ created' # <<>> =>
                             Len(ReadPks(pkHex)) + Len(created') <= NumFundedAccounts
    BY <1>1 DEF ReuseInv, Firsts
  <2>2. ks = ReadPks(pkHex)
    BY <1>2, <2>1 DEF ks
  <2>3. \A n \in 1..l : n \in DOMAIN ReadPks(pkHex) \cap 1..NumFundedAccounts
    BY <1>3, <1>4, <2>2
  <2>4. ToSet(accounts') \subseteq Firsts
    BY <1>1, <1>7, <2>2, <2>3 DEF Firsts
  <2>5. Len(created') = NumFundedAccounts - m
    <3> DEFINE d == NumFundedAccounts - m
    <3>1. created' = [j \in 1..d |-> keys + j] /\ d \in Nat
      BY <1>1, <1>8
    <3> HIDE DEF d
    <3>2. created' \in [1..d -> Int]
      BY <1>8, <3>1
    <3>3. Len(created') = d
      BY <3>1, <3>2
    <3>4. QED
      BY <3>3 DEF d
  <2>6. created' # <<>> => m # NumFundedAccounts
    <3>1. SUFFICES ASSUME m = NumFundedAccounts
                   PROVE  created' = <<>>
      OBVIOUS
    <3>2. created' \in Seq(1..keys') /\ Len(created') = 0
      BY <1>9, <2>5, <3>1 DEF Shape, Locals
    <3>3. QED
      BY <3>2, EmptySeq
  <2>7. created' # <<>> => Len(ks) + Len(created') <= NumFundedAccounts
    BY <1>3, <1>4, <1>6, <2>5, <2>6
  <2>8. QED
    BY <1>0, <2>1, <2>2, <2>4, <2>7 DEF ReuseInv
<1>15. QED
  BY <1>9, <1>10, <1>11, <1>12, <1>13, <1>14 DEF Inv

(* A created key is written to the file before anything is sent to it.       *)
LEMMA StoreAccountKeeps ==
  ASSUME Inv, StoreAccount
  PROVE  Inv'
<1>0. Shape /\ NodeShape /\ FundingInv /\ LeftInv /\ FileInv /\ ReuseInv
  BY DEF Inv
<1>1. /\ pc = "store" /\ created # <<>>
      /\ pkHex' = pkHex \o Line(Head(created))
      /\ accounts' = Append(accounts, Head(created)) /\ created' = Tail(created)
      /\ UNCHANGED <<sameFile, present, otherFile, mined, pool, balance, accountNonce, inner, pc,
                     index, missing, own, submitNonce, cfgNonce, innerNonce,
                     keys, runs, submissions, funded, left, risky, torn,
                     drainPc, toDrain, seen, drainTx>>
  BY DEF StoreAccount, fileVars, chainVars, cfgVars, countVars, histVars, drainVars
<1>2. keys \in Nat /\ accounts \in Seq(1..keys) /\ created \in Seq(1..keys)
  BY <1>0 DEF Shape, Locals, Counters
<1>3. PICK k \in 1..keys : k = Head(created)
  BY <1>1, <1>2, HeadTailProperties
<1>4. /\ Tail(created) \in Seq(1..keys) /\ Len(Tail(created)) = Len(created) - 1
      /\ Len(created) \in Nat
  BY <1>1, <1>2, HeadTailProperties, LenProperties
<1>5. /\ Append(accounts, k) \in Seq(1..keys) /\ Len(Append(accounts, k)) = Len(accounts) + 1
      /\ Len(accounts) \in Nat
  BY <1>2, AppendProperties, LenProperties
<1>6. ToSet(accounts') = ToSet(accounts) \cup {k}
  <2> DEFINE n == Len(accounts)
  <2>1. DOMAIN accounts = 1..n /\ DOMAIN Append(accounts, k) = 1..(n + 1)
    BY <1>2, <1>5, LenProperties
  <2>2. /\ \A j \in 1..n : Append(accounts, k)[j] = accounts[j]
        /\ Append(accounts, k)[n + 1] = k
    BY <1>2, AppendProperties
  <2>3. /\ \A j \in 1..(n + 1) : j \in 1..n \/ j = n + 1
        /\ \A j \in 1..n : j \in 1..(n + 1)
        /\ n + 1 \in 1..(n + 1)
    BY <1>5
  <2> HIDE DEF n
  <2>4. {Append(accounts, k)[j] : j \in 1..(n + 1)} = {accounts[j] : j \in 1..n} \cup {k}
    BY <2>2, <2>3
  <2>5. QED
    BY <1>1, <1>3, <2>1, <2>4 DEF ToSet
<1>7. PICK file \in Seq(Int) : file = pkHex /\ \A j \in 1..Len(file) : file[j] <= keys
  BY <1>0 DEF Shape, Files
<1>8. pkHex' = file \o Line(k)
  BY <1>1, <1>3, <1>7
<1>9. Files'
  <2>1. PICK line \in Seq(Int), n \in Int :
          line = Line(k) /\ n = keys /\ \A j \in 1..Len(line) : line[j] <= n
    <3>1. /\ Line(k) \in Seq(Int) /\ Len(Line(k)) = 4
          /\ Line(k)[1] = k /\ Line(k)[2] = 0 /\ Line(k)[3] = -k /\ Line(k)[4] = 0
      BY DEF Line
    <3>2. \A j \in 1..4 : j = 1 \/ j = 2 \/ j = 3 \/ j = 4
      OBVIOUS
    <3>3. k <= keys /\ -k <= keys /\ 0 <= keys
      BY <1>2
    <3>4. \A j \in 1..4 : Line(k)[j] <= keys
      BY <3>1, <3>2, <3>3
    <3> HIDE DEF Line
    <3>5. QED
      BY <1>2, <3>1, <3>4
  <2>2. file \o line \in Seq(Int) /\ \A j \in 1..Len(file \o line) : (file \o line)[j] <= n
    BY <1>7, <2>1, JoinBounded
  <2>3. QED
    BY <1>0, <1>1, <1>8, <2>1, <2>2 DEF Shape, Files
<1>10. Shape'
  <2>1. Places' /\ Counters' /\ Accts'
    BY <1>0, <1>1 DEF Shape, Places, Counters, Accts
  <2>2. Locals'
    BY <1>0, <1>1, <1>3, <1>4, <1>5 DEF Shape, Locals
  <2>3. Draining'
    BY <1>1, DrainFrame
  <2>4. QED
    BY <1>9, <2>1, <2>2, <2>3 DEF Shape
<1>11. NodeShape' /\ head' = head
  BY <1>0, <1>1, NodeFrame
<1>12. FundingInv' /\ LeftInv'
  <2>1. NeverOverfunded'
    BY <1>0, <1>1 DEF FundingInv, NeverOverfunded
  <2>2. FundingInv'
    BY <1>0, <1>1, <1>11, <2>1 DEF FundingInv
  <2>3. LeftInv'
    BY <1>0, <1>1, <1>11 DEF LeftInv
  <2>4. QED
    BY <2>2, <2>3
<1>13. RunInv' /\ FreshInv'
  BY <1>1, FreshFrame
<1>14. ~Open(file) => /\ ReadPks(pkHex') = Append(ReadPks(file), k)
                      /\ KeysIn(pkHex') = KeysIn(file) \cup {k}
  <2>1. SUFFICES ASSUME ~Open(file)
                 PROVE  /\ ReadPks(pkHex') = Append(ReadPks(file), k)
                        /\ KeysIn(pkHex') = KeysIn(file) \cup {k}
    OBVIOUS
  <2>2. file = <<>> \/ file[Len(file)] = 0
    BY <2>1 DEF Open
  <2>3. k \in Nat \ {0}
    BY <1>2
  <2>4. QED
    BY <1>8, <2>2, <2>3, LineAppended
<1>15. FileInv'
  <2> DEFINE S == Lost
             T == Lost'
             last == file[Len(file)]
  <2>1. PICK line \in Seq(Int) : line = Line(k) /\ Len(line) = 4 /\ line[4] = 0
    <3>1. Line(k) \in Seq(Int) /\ Len(Line(k)) = 4 /\ Line(k)[4] = 0
      BY <1>2 DEF Line
    <3> HIDE DEF Line
    <3>2. QED
      BY <3>1
  <2>2. /\ Open(file) => KeysIn(file) \subseteq KeysIn(pkHex') \cup {last}
        /\ ~Open(file) => KeysIn(file) \subseteq KeysIn(pkHex')
    BY <1>8, <2>1, JoinKeeps
  <2>3. ~Open(pkHex')
    <3>1. /\ Len(file \o line) = Len(file) + 4 /\ Len(file) \in Nat
          /\ \A j \in 1..(Len(file) + 4) :
                (file \o line)[j] = IF j <= Len(file) THEN file[j] ELSE line[j - Len(file)]
      <4>1. Len(file) \in Nat
        BY LenProperties
      <4>2. /\ Len(file \o line) = Len(file) + Len(line)
            /\ \A j \in 1..(Len(file) + Len(line)) :
                  (file \o line)[j] = IF j <= Len(file) THEN file[j] ELSE line[j - Len(file)]
        BY ConcatProperties
      <4>3. Len(file) + Len(line) = Len(file) + 4
        BY <2>1
      <4> HIDE DEF last, S, T
      <4>4. QED
        BY <4>1, <4>2, <4>3
    <3>2. (file \o line)[Len(file) + 4] = 0
      BY <2>1, <3>1
    <3>3. QED
      BY <1>8, <2>1, <3>1, <3>2 DEF Open
  <2>4. IsFiniteSet(S) /\ torn \in Nat
        /\ Cardinality(S) + (IF Open(file) THEN 2 ELSE 0) <= 2 * torn
    BY <1>0, <1>7 DEF FileInv, Shape, Places
  <2>5. CASE ~Open(file)
    <3>1. T \in SUBSET S /\ ~Open(pkHex)
      BY <1>1, <1>6, <1>7, <1>14, <2>5 DEF Lost
    <3>2. QED
      BY <1>0, <1>1, <2>3, <2>4, <3>1, NoneLost
  <2>6. CASE Open(file)
    <3>1. T \in SUBSET ((S \cup {last}) \cup {k})
      BY <1>1, <1>6, <1>7, <2>2, <2>6 DEF Lost
    <3> HIDE DEF S, T, last
    <3> DEFINE U == S \cup {last}
    <3>2. U \in SUBSET (S \cup {last}) /\ T \in SUBSET (U \cup {k})
      BY <3>1
    <3> HIDE DEF U
    <3>3. /\ IsFiniteSet(U) /\ Cardinality(U) \in Nat /\ Cardinality(S) \in Nat
          /\ Cardinality(U) <= Cardinality(S) + 1
      BY <2>4, <3>2, OneMore
    <3>4. IsFiniteSet(T) /\ Cardinality(T) \in Nat /\ Cardinality(T) <= Cardinality(U) + 1
      BY <3>2, <3>3, OneMore
    <3>5. Cardinality(T) + 0 <= 2 * torn
      BY <2>4, <2>6, <3>3, <3>4
    <3>6. QED
      BY <1>1, <2>3, <3>4, <3>5 DEF FileInv, T
  <2>7. QED
    BY <2>5, <2>6
<1>16. ReuseInv'
  <2>1. SUFFICES ASSUME sameFile, torn = 0
                 PROVE  /\ ToSet(accounts') \cup funded \subseteq Firsts'
                        /\ Len(ReadPks(pkHex')) + Len(created') <= NumFundedAccounts
    BY <1>1 DEF ReuseInv
  <2> DEFINE a == ReadPks(file)
             b == ReadPks(pkHex')
  <2>2. a \in Seq(KeysIn(file)) /\ Len(a) \in Nat /\ DOMAIN a = 1..Len(a)
    BY ReadPksLists, LenProperties
  <2>3. PICK K : K = KeysIn(file) \cup {k}
    OBVIOUS
  <2>4. a \in Seq(K)
    <3> HIDE DEF a
    <3>1. QED
      BY <2>2, <2>3
  <2>5. b = Append(a, k)
    BY <1>0, <1>7, <1>14, <2>1, WholeFile
  <2> HIDE DEF a, b
  <2>6. /\ b \in Seq(K) /\ Len(b) = Len(a) + 1
        /\ \A j \in 1..Len(a) : b[j] = a[j]
        /\ b[Len(a) + 1] = k
        /\ DOMAIN b = 1..(Len(a) + 1)
    <3>1. k \in K
      BY <2>3
    <3>2. /\ Append(a, k) \in Seq(K) /\ Len(Append(a, k)) = Len(a) + 1
          /\ \A j \in 1..Len(a) : Append(a, k)[j] = a[j]
          /\ Append(a, k)[Len(a) + 1] = k
      BY <2>4, <3>1, AppendProperties
    <3>3. QED
      BY <2>5, <3>2, LenProperties
  <2>7. Len(a) + Len(created) <= NumFundedAccounts /\ Len(created) \in Nat \ {0}
    <3>1. Len(created) # 0
      BY <1>1, <1>2, EmptySeq
    <3>2. Len(a) + Len(created) <= NumFundedAccounts
      BY <1>0, <1>1, <1>7, <2>1 DEF ReuseInv, a
    <3>3. QED
      BY <1>4, <3>1, <3>2
  <2>8. Firsts' = {b[j] : j \in DOMAIN b \cap 1..NumFundedAccounts}
    BY DEF Firsts, b
  <2>9. Firsts = {a[j] : j \in DOMAIN a \cap 1..NumFundedAccounts}
    BY <1>7 DEF Firsts, a
  <2>10. Firsts \subseteq Firsts'
    <3>1. \A j \in DOMAIN a \cap 1..NumFundedAccounts :
             j \in DOMAIN b \cap 1..NumFundedAccounts /\ b[j] = a[j]
      BY <2>2, <2>6
    <3>2. QED
      BY <2>8, <2>9, <3>1
  <2>11. k \in Firsts'
    <3>1. Len(a) + 1 \in DOMAIN b \cap 1..NumFundedAccounts
      BY <2>2, <2>6, <2>7
    <3>2. QED
      BY <2>6, <2>8, <3>1
  <2>12. ToSet(accounts) \cup funded \subseteq Firsts
    BY <1>0, <2>1 DEF ReuseInv
  <2>13. Len(b) + Len(created') <= NumFundedAccounts
    BY <1>1, <1>4, <2>2, <2>6, <2>7
  <2>14. QED
    BY <1>6, <2>10, <2>11, <2>12, <2>13 DEF b
<1>17. CountInv'
  <2> DEFINE A == funded \ ToSet(accounts)
             B == funded \ ToSet(accounts')
  <2>1. IsFiniteSet(funded) /\ Cardinality(A) <= NumFundedAccounts * (runs - 1)
    BY <1>1 DEF Inv, CountInv, Working
  <2>2. A \in SUBSET funded /\ B \in SUBSET A
    BY <1>6
  <2>3. pc' \in Working /\ pc' \notin {"down", "retrieve"}
    BY <1>1 DEF Working
  <2>4. (funded \ ToSet(accounts))' = B /\ runs' = runs /\ funded' = funded
    BY <1>1
  <2> HIDE DEF A, B
  <2>5. IsFiniteSet(A)
    BY <2>1, <2>2, FS_Subset
  <2>6. IsFiniteSet(B) /\ Cardinality(B) <= Cardinality(A)
    BY <2>2, <2>5, FS_Subset
  <2>7. Cardinality(A) \in Nat /\ Cardinality(B) \in Nat
    BY <2>5, <2>6, FS_CardinalityType
  <2>8. PICK b \in Int : b = NumFundedAccounts * (runs - 1)
    BY <1>0 DEF Shape, Counters
  <2>9. Cardinality(B) <= b
    BY <2>1, <2>6, <2>7, <2>8
  <2>10. QED
    BY <2>1, <2>3, <2>4, <2>8, <2>9 DEF CountInv
<1>18. QED
  BY <1>10, <1>11, <1>12, <1>13, <1>15, <1>16, <1>17 DEF Inv

-----------------------------------------------------------------------------
(* The invariant holds from the start and after every step.                  *)
LEMMA InitInv ==
  ASSUME Init
  PROVE  Inv
<1>1. /\ keys \in InitialKeys /\ sameFile \in BOOLEAN /\ present \in BOOLEAN
      /\ mined = {} /\ pool = {} /\ inner = {} /\ accountNonce = [k \in Key |-> 0]
      /\ pc = "down" /\ accounts = <<>> /\ created = <<>> /\ index = 1 /\ missing = 0
      /\ submitNonce = 0 /\ cfgNonce = 0 /\ innerNonce = [k \in Key |-> 0]
      /\ runs = 0 /\ submissions = 0 /\ funded = {} /\ torn = 0
      /\ drainPc = "idle" /\ toDrain = <<>> /\ seen = balance
  BY DEF Init
<1>2. keys \in Nat /\ keys <= Max(InitialKeys) /\ Max(InitialKeys) \in Nat
  BY <1>1, KeyFacts
<1>3. balance \in [Key -> Nat]
  <2>1. PICK b \in InitialBalance : balance = [k \in Key |-> IF k <= keys THEN b ELSE 0]
    BY DEF Init
  <2>2. b \in Nat
    BY <2>1
  <2>3. QED
    BY <2>1, <2>2
<1>4. /\ <<>> \in Seq(Int) /\ <<>> \in Seq(Key) /\ <<>> \in Seq(1..keys)
      /\ Len(<<>>) = 0 /\ \A j \in 1..0 : FALSE
  BY EmptySeq
<1>5. /\ pkHex \in Seq(Int) /\ \A j \in 1..Len(pkHex) : pkHex[j] <= keys
      /\ otherFile \in Seq(Int) /\ \A j \in 1..Len(otherFile) : otherFile[j] <= keys
      /\ pkHex = <<>> \/ pkHex[Len(pkHex)] = 0
  <2>1. PICK n \in Nat : n = keys
    BY <1>2
  <2>2. /\ FirstLines(n) \in Seq(Int)
        /\ \A j \in 1..Len(FirstLines(n)) : FirstLines(n)[j] <= n
        /\ FirstLines(n) = <<>> \/ FirstLines(n)[Len(FirstLines(n))] = 0
    BY FirstLinesShape
  <2>3. /\ pkHex = <<>> \/ pkHex = FirstLines(n)
        /\ otherFile = <<>> \/ otherFile = FirstLines(n)
    BY <2>1 DEF Init
  <2>4. \A f : f = <<>> => f \in Seq(Int) /\ \A j \in 1..Len(f) : f[j] <= keys
    BY <1>4
  <2>5. QED
    BY <2>1, <2>2, <2>3, <2>4
<1>6. Shape
  <2>1. Places
    BY <1>1 DEF Places
  <2>2. Counters
    <3>1. NumFundedAccounts * 0 = 0
      OBVIOUS
    <3>2. QED
      BY <1>1, <1>2, <3>1 DEF Counters
  <2>3. Locals
    BY <1>1, <1>4 DEF Locals
  <2>4. Files
    BY <1>5 DEF Files
  <2>5. Accts
    BY <1>1, <1>3 DEF Accts
  <2>6. Draining
    BY <1>1, <1>3, <1>4 DEF Draining
  <2>7. QED
    BY <2>1, <2>2, <2>3, <2>4, <2>5, <2>6 DEF Shape
<1>7. head = 0 /\ NodeShape
  BY <1>1, FS_EmptySet DEF head, NodeShape
<1>8. FundingInv /\ LeftInv
  BY <1>1, <1>7 DEF FundingInv, LeftInv, SettingUp, NeverOverfunded
<1>9. RunInv /\ FreshInv
  BY <1>1 DEF RunInv, FreshInv, Working
<1>10. ToSet(accounts) = {}
  BY <1>1, <1>4 DEF ToSet
<1>11. FileInv /\ ReuseInv
  <2>1. Lost = {} /\ ~Open(pkHex)
    BY <1>1, <1>5, <1>10 DEF Lost, Open
  <2>2. IsFiniteSet({}) /\ Cardinality({}) = 0
    BY FS_EmptySet
  <2>3. FileInv
    BY <1>1, <2>1, <2>2 DEF FileInv
  <2>4. QED
    BY <1>1, <1>10, <2>3 DEF ReuseInv
<1>12. CountInv
  <2>1. IsFiniteSet({}) /\ Cardinality({}) = 0
    BY FS_EmptySet
  <2>2. NumFundedAccounts * 0 = 0
    OBVIOUS
  <2>3. QED
    BY <1>1, <2>1, <2>2 DEF CountInv, Working
<1>13. QED
  BY <1>6, <1>7, <1>8, <1>9, <1>11, <1>12 DEF Inv

(* Every step of the process, the node and whoever drains keeps it.          *)
LEMMA NextInv ==
  ASSUME Inv, [Next]_vars
  PROVE  Inv'
<1>1. CASE Next
  <2>1. \/ Mine \/ MineInner \/ Start
        \/ Crash \/ NoFile \/ FundRefused \/ SubmitRefused \/ StoreTorn
        \/ Retrieve \/ StoreAccount \/ FundSend \/ Submit
        \/ AllStored \/ FundEnough \/ FundLacks \/ FundMined \/ AllFunded
        \/ DrainStart \/ DrainEmpty \/ Drain \/ DrainDone \/ DrainMined
    BY <1>1 DEF Next, SetupStep, DrainStep
  <2>2. QED
    BY <2>1, MineKeeps, MineInnerKeeps, StartKeeps, DownKeeps, RetrieveKeeps,
       StoreAccountKeeps, FundSendKeeps, SubmitKeeps, LocalKeeps, DrainKeeps, DrainMinedKeeps
<1>2. CASE UNCHANGED vars
  <2>1. UNCHANGED <<sameFile, present, otherFile, pkHex, mined, pool, balance, accountNonce,
                    inner, pc, accounts, created, index, missing, own, submitNonce, cfgNonce,
                    innerNonce, keys, runs, submissions, funded, left, risky, torn,
                    drainPc, toDrain, seen, drainTx>>
    BY <1>2 DEF vars, fileVars, chainVars, localVars, cfgVars, countVars, histVars, drainVars
  <2>2. Shape'
    BY <2>1 DEF Inv, Shape, Places, Counters, Locals, Files, Accts, Draining
  <2>3. /\ NodeShape' /\ FundingInv' /\ LeftInv' /\ RunInv' /\ FreshInv'
        /\ FileInv' /\ ReuseInv' /\ CountInv'
    BY <2>1, FundFrame, FreshFrame, FilesFrame, CountFrame
  <2>4. QED
    BY <2>2, <2>3 DEF Inv
<1>3. QED
  BY <1>1, <1>2

(* So it always holds.                                                       *)
LEMMA AlwaysInv == Spec => []Inv
<1>1. Init => Inv
  BY InitInv
<1>2. Inv /\ [Next]_vars => Inv'
  BY NextInv
<1>3. QED
  BY <1>1, <1>2, PTL DEF Spec

-----------------------------------------------------------------------------
(* The state of the set-up, of the node and of the files has its shape: the  *)
(* process never handles a key that was not made, nor more accounts than it  *)
(* was asked for, and no account is ever in debt.                            *)
THEOREM SetupTypes == Spec => []TypeOK
<1>1. Inv => TypeOK
  <2>1. SUFFICES ASSUME Inv
                 PROVE  TypeOK
    OBVIOUS
  <2>2. Shape
    BY <2>1 DEF Inv
  <2>3. keys \in 0..MaxKeys
    BY <2>2, KeysBounded, KeyFacts DEF Shape
  <2>4. \A s : s \in Seq(1..keys) => ToSet(s) \subseteq 1..keys
    <3>1. SUFFICES ASSUME NEW s, s \in Seq(1..keys)
                   PROVE  ToSet(s) \subseteq 1..keys
      OBVIOUS
    <3> DEFINE K == 1..keys
    <3>2. s \in Seq(K)
      BY <3>1
    <3> HIDE DEF K
    <3>3. \A j \in DOMAIN s : s[j] \in K
      BY <3>2, LenProperties, ElementOfSeq
    <3>4. QED
      BY <3>3 DEF ToSet, K
  <2>5. ToSet(accounts) \cup ToSet(created) \subseteq 1..keys
    BY <2>2, <2>4 DEF Shape, Locals
  <2>6. QED
    BY <2>2, <2>3, <2>5 DEF TypeOK, Shape, Places, Counters, Locals, Accts
<1>2. QED
  BY <1>1, AlwaysInv, PTL

(* However often the set-up is interrupted and repeated, no account gets     *)
(* more than it lacked.                                                      *)
THEOREM FundedOnce == Spec => []NeverOverfunded
<1>1. Inv => NeverOverfunded
  BY DEF Inv, FundingInv
<1>2. QED
  BY <1>1, AlwaysInv, PTL

(* The node takes every funding transaction whose nonce is not one that was  *)
(* pending when the run started, and it is over more than half of the target *)
(* - except for an account whose balance made the 64 bits wrap.              *)
THEOREM FundingIsAccepted == Spec => []FundingAccepted
<1>1. Inv => FundingAccepted
  <2>1. SUFFICES ASSUME Inv, pc = "send", ~(Target - missing > Int64)
                 PROVE  /\ missing > Target \div 2
                        /\ \A price \in Prices : Accepts(FundTx(price)) \/ FundNonce \in left
    BY DEF FundingAccepted
  <2>2. /\ missing \in Int /\ missing <= Target /\ AsInt64(missing) > Target \div 2
        /\ submitNonce \in Nat /\ submitNonce <= head /\ head \in Nat
        /\ \A t \in pool : t.nonce \in left
        /\ \A n \in submitNonce..(head - 1) : n \in left
    BY <2>1, Facts DEF Inv, Shape, Locals, FundingInv, LeftInv, SettingUp
  <2>3. missing + Int64 \in 0..(2 * Int64 - 1)
    BY <2>1, <2>2
  <2>4. \A x \in Int, w \in Int : w > 0 /\ x \in 0..(w - 1) => x % w = x
    OBVIOUS
  <2>5. (missing + Int64) % (2 * Int64) = missing + Int64
    BY <2>2, <2>3, <2>4
  <2>6. AsInt64(missing) = missing
    BY <2>2, <2>5 DEF AsInt64
  <2>7. missing > Target \div 2 /\ missing >= 0
    BY <2>2, <2>6
  <2>8. FundNonce \notin left => \A price \in Prices : Accepts(FundTx(price))
    <3>1. SUFFICES ASSUME submitNonce \notin left
                   PROVE  \A price \in Prices : Accepts(FundTx(price))
      BY DEF FundNonce
    <3>2. submitNonce = head /\ Pooled(submitNonce) = {}
      BY <2>2, <3>1 DEF Pooled
    <3>3. QED
      BY <2>2, <2>7, <3>2 DEF Accepts, FundTx, FundNonce
  <2>9. QED
    BY <2>7, <2>8
<1>2. QED
  BY <1>1, AlwaysInv, PTL

(* Below the next nonce of the test there is no gap, and nothing but what    *)
(* was pending when the run started can have taken one of its next nonces.   *)
THEOREM SubmitNonceIsUsable == Spec => []SubmitNonceUsable
<1>1. Inv => SubmitNonceUsable
  <2>1. SUFFICES ASSUME Inv, pc = "ready"
                 PROVE  /\ \A n \in head..(cfgNonce - 1) : Pooled(n) # {}
                        /\ \A t \in mined \cup pool : t.nonce < cfgNonce \/ t.nonce \in left
    BY DEF SubmitNonceUsable
  <2>2. /\ \A t \in pool : t.nonce < cfgNonce \/ t.nonce \in left
        /\ \A n \in cfgNonce..(head - 1) : n \in left
        /\ \A n \in head..(cfgNonce - 1) : Pooled(n) # {}
    BY <2>1 DEF Inv, LeftInv
  <2>3. head \in Nat /\ cfgNonce \in Nat
    BY <2>1, Facts DEF Inv, Shape, Locals
  <2>4. \A t \in mined : t.nonce \in Nat /\ t.nonce < head
    BY <2>1 DEF Inv, NodeShape
  <2>5. \A t \in mined : t.nonce < cfgNonce \/ t.nonce \in left
    BY <2>2, <2>3, <2>4
  <2>6. QED
    BY <2>2, <2>5
<1>2. QED
  BY <1>1, AlwaysInv, PTL

(* No inner transaction takes the nonce of another one of the same run; nor  *)
(* of any run, unless its account is one whose nonce could not be queried or *)
(* that had an inner transaction pending when a run started.                 *)
THEOREM InnerNoncesAreFresh == Spec => []InnerNonceFresh
<1>1. Inv => InnerNonceFresh
  BY DEF Inv, RunInv, FreshInv, InnerNonceFresh
<1>2. QED
  BY <1>1, AlwaysInv, PTL

(* The accounts that were ever funded can be read from a key file again, all *)
(* but two for each line that was torn.                                      *)
THEOREM FundsAreRecoverable == Spec => []FundedIsRecoverable
<1>1. Inv => FundedIsRecoverable
  <2>1. SUFFICES ASSUME Inv
                 PROVE  Cardinality(funded \ Readable) <= 2 * torn
    BY DEF FundedIsRecoverable
  <2>2. \A file \in Seq(Int) : KeysIn(file) = ToSet(ReadPks(file))
    <3>1. SUFFICES ASSUME NEW file \in Seq(Int)
                   PROVE  KeysIn(file) = ToSet(ReadPks(file))
      OBVIOUS
    <3>2. DOMAIN ReadPks(file) = 1..Len(ReadPks(file))
      BY ReadPksLists, LenProperties
    <3>3. KeysIn(file) = {ReadPks(file)[n] : n \in 1..Len(ReadPks(file))}
      BY ReadPksLists
    <3>4. QED
      BY <3>2, <3>3 DEF ToSet
  <2>3. pkHex \in Seq(Int) /\ otherFile \in Seq(Int) /\ torn \in Nat
    BY <2>1 DEF Inv, Shape, Files, Places
  <2> DEFINE S == Lost
             T == funded \ Readable
  <2>4. T \in SUBSET S
    BY <2>2, <2>3 DEF Lost, Readable
  <2>5. IsFiniteSet(S) /\ Cardinality(S) + (IF Open(pkHex) THEN 2 ELSE 0) <= 2 * torn
    BY <2>1 DEF Inv, FileInv
  <2> HIDE DEF S, T
  <2>6. IsFiniteSet(T) /\ Cardinality(T) <= Cardinality(S)
    BY <2>4, <2>5, FS_Subset
  <2>7. Cardinality(T) \in Nat /\ Cardinality(S) \in Nat
    BY <2>5, <2>6, FS_CardinalityType
  <2>8. Cardinality(T) <= 2 * torn
    BY <2>3, <2>5, <2>6, <2>7
  <2>9. QED
    BY <2>8 DEF T
<1>2. QED
  BY <1>1, AlwaysInv, PTL

(* Each run funds at most as many accounts as it was asked for; all runs     *)
(* together too, if the keys are stored in the file that is read and no line *)
(* was torn.                                                                 *)
THEOREM AccountsAreReused == Spec => []AccountsReused
<1>1. ASSUME Inv, sameFile, torn = 0
      PROVE  Cardinality(funded) <= NumFundedAccounts
  <2> DEFINE I == 1..NumFundedAccounts
             f == [x \in funded |-> CHOOSE n \in I : ReadPks(pkHex)[n] = x]
  <2>2. \A x \in funded : \E n \in I : ReadPks(pkHex)[n] = x
    BY <1>1 DEF Inv, ReuseInv, Firsts
  <2>3. \A x \in funded : f[x] \in I /\ ReadPks(pkHex)[f[x]] = x
    BY <2>2
  <2>4. f \in [funded -> I] /\ \A x, y \in funded : f[x] = f[y] => x = y
    BY <2>3
  <2>5. IsFiniteSet(I) /\ Cardinality(I) = NumFundedAccounts
    BY FS_Interval
  <2> HIDE DEF I, f
  <2>6. f \in Injection(funded, I)
    BY <2>4, Fun_IsInj
  <2>7. Cardinality(funded) <= Cardinality(I)
    BY <2>5, <2>6, FS_Injection
  <2>8. QED
    BY <2>5, <2>7
<1>2. Inv => AccountsReused
  <2>1. NumFundedAccounts * 1 = NumFundedAccounts
    OBVIOUS
  <2>2. SUFFICES ASSUME Inv
                 PROVE  AccountsReused
    OBVIOUS
  <2>3. CASE sameFile /\ torn = 0
    BY <1>1, <2>1, <2>2, <2>3 DEF AccountsReused
  <2>4. CASE ~(sameFile /\ torn = 0)
    BY <2>2, <2>4, FundedAreFew DEF AccountsReused
  <2>5. QED
    BY <2>3, <2>4
<1>3. QED
  BY <1>2, AlwaysInv, PTL
=============================================================================

------------------------------ MODULE FeedProofs ------------------------------
(***************************************************************************)
(* Proofs about PoolFeed: the answers of a multicall go to the pools they  *)
(* are about, whichever of them fail.                                      *)
(***************************************************************************)
EXTENDS PoolFeed, WellFoundedInduction, FiniteSetTheorems, TLAPS

-----------------------------------------------------------------------------
(* Loops.                                                                  *)

LEMMA NatWellFounded == IsWellFoundedOn({ss \in Nat \X Nat : ss[1] < ss[2]}, Nat)
  BY NatLessThanWellFounded DEF OpToRel

\* Every set of numbers that is not empty has a least one: induction without an operator.
LEMMA LeastNumber ==
  ASSUME NEW T \in SUBSET Nat, T # {}
  PROVE  \E x \in T : \A y \in T : x <= y
<1> DEFINE R == {ss \in Nat \X Nat : ss[1] < ss[2]}
<1>1. PICK x \in T : \A y \in T : ~(<<y, x>> \in R)
  BY NatWellFounded, WFMin
<1>2. ASSUME NEW y \in T PROVE x <= y
  <2> SUFFICES ASSUME ~(x <= y) PROVE FALSE
    OBVIOUS
  <2>1. x \in Nat /\ y \in Nat /\ y < x
    OBVIOUS
  <2>2. <<y, x>> \in R
    BY <2>1
  <2> QED BY <2>2, <1>1
<1> QED BY <1>2

\* Induction over a set of numbers.
LEMMA UpTo ==
  ASSUME NEW n \in Nat, NEW T, 0 \in T, \A i \in 1..n : i - 1 \in T => i \in T
  PROVE  0..n \subseteq T
<1> SUFFICES ASSUME NEW k \in 0..n, k \notin T
             PROVE  FALSE
  OBVIOUS
<1> DEFINE Out == {i \in 0..n : i \notin T}
<1>1. PICK x \in Out : \A y \in Out : x <= y
  <2>1. Out \in SUBSET Nat /\ Out # {}
    OBVIOUS
  <2> QED BY <2>1, LeastNumber
<1>2. x # 0 /\ x \in 1..n
  OBVIOUS
<1>3. x - 1 \in 0..n /\ ~(x <= x - 1)
  BY <1>2
<1>4. x - 1 \notin Out
  BY <1>1, <1>3
<1>5. x - 1 \in T
  BY <1>3, <1>4
<1> QED BY <1>2, <1>5

\* A loop of n rounds from c, the i-th of which makes g[i][s] of s, has a run.
Runs(n, S, c, g) == {f \in [0..n -> S] : f[0] = c /\ \A i \in 1..n : f[i] = g[i][f[i - 1]]}

LEMMA LoopRuns ==
  ASSUME NEW n \in Nat, NEW S, NEW c \in S, NEW g \in [1..n -> [S -> S]]
  PROVE  Runs(n, S, c, g) # {}
<1> DEFINE Up(f, m) == f[0] = c /\ \A i \in 1..m : f[i] = g[i][f[i - 1]]
           T == {m \in 0..n : \E f \in [0..m -> S] : Up(f, m)}
<1>1. 0 \in T
  <2> DEFINE f == [i \in 0..0 |-> c]
  <2>1. f \in [0..0 -> S] /\ Up(f, 0)
    OBVIOUS
  <2>2. \E ff \in [0..0 -> S] : Up(ff, 0)
    <3> HIDE DEF f, Up
    <3> QED BY <2>1
  <2> HIDE DEF Up
  <2> QED BY <2>2
<1>2. ASSUME NEW i \in 1..n, i - 1 \in T PROVE i \in T
  <2>1. PICK f \in [0..(i - 1) -> S] : Up(f, i - 1)
    BY <1>2
  <2> DEFINE h == [k \in 0..i |-> IF k = i THEN g[i][f[i - 1]] ELSE f[k]]
  <2>2. i - 1 \in 0..(i - 1) /\ f[i - 1] \in S
    OBVIOUS
  <2>3. g[i][f[i - 1]] \in S
    BY <2>2
  <2>4. \A k \in 0..(i - 1) : h[k] = f[k]
    OBVIOUS
  <2>5. h \in [0..i -> S]
    <3> SUFFICES ASSUME NEW k \in 0..i PROVE h[k] \in S
      OBVIOUS
    <3>1. CASE k = i
      BY <3>1, <2>3
    <3>2. CASE k # i
      BY <3>2
    <3> QED BY <3>1, <3>2
  <2>6. h[0] = c
    BY <2>1, <2>4
  <2>7. ASSUME NEW k \in 1..i PROVE h[k] = g[k][h[k - 1]]
    <3>1. k - 1 \in 0..(i - 1) /\ h[k - 1] = f[k - 1]
      BY <2>4
    <3>2. CASE k = i
      BY <3>1, <3>2
    <3>3. CASE k # i
      <4>1. k \in 1..(i - 1)
        BY <3>3
      <4>2. h[k] = f[k]
        BY <4>1, <2>4
      <4>3. f[k] = g[k][f[k - 1]]
        BY <4>1, <2>1
      <4> QED BY <4>2, <4>3, <3>1
    <3> QED BY <3>2, <3>3
  <2>8. i \in 0..n
    OBVIOUS
  <2> HIDE DEF h
  <2>9. Up(h, i)
    BY <2>6, <2>7
  <2> QED BY <2>5, <2>8, <2>9
<1>3. n \in T
  <2> HIDE DEF T
  <2>1. 0..n \subseteq T
    BY <1>1, <1>2, UpTo
  <2> QED BY <2>1
<1> QED BY <1>3 DEF Runs

-----------------------------------------------------------------------------
(* The multicall.                                                          *)

LEMMA Concatenation ==
  ASSUME NEW S, NEW s \in Seq(S), NEW t \in Seq(S)
  PROVE  /\ Len(s \o t) = Len(s) + Len(t)
         /\ \A k \in 1..Len(s) : (s \o t)[k] = s[k]
         /\ \A k \in 1..Len(t) : (s \o t)[Len(s) + k] = t[k]
  OBVIOUS

Words == [pool : Places, kind : {"slot0", "liquidity", "reserves"}, time : {time}]

LEMMA KindsOf ==
  ASSUME NEW p
  PROVE  /\ Kinds(p) \in Seq({"slot0", "liquidity", "reserves"})
         /\ DOMAIN Kinds(p) = 1..Len(Kinds(p))
         /\ IsUni(p) => Len(Kinds(p)) = 2 /\ Kinds(p)[1] = "slot0" /\ Kinds(p)[2] = "liquidity"
         /\ ~IsUni(p) => Len(Kinds(p)) = 1 /\ Kinds(p)[1] = "reserves"
<1>1. CASE IsUni(p)
  <2>1. Kinds(p) = <<"slot0", "liquidity">>
    BY <1>1 DEF Kinds
  <2> QED BY <1>1, <2>1
<1>2. CASE ~IsUni(p)
  <2>1. Kinds(p) = <<"reserves">>
    BY <1>2 DEF Kinds
  <2> QED BY <1>2, <2>1
<1> QED BY <1>1, <1>2

LEMMA StateNowIs ==
  ASSUME NEW p \in Places
  PROVE  /\ StateNow(p) \in Seq(Words)
         /\ Len(StateNow(p)) = Advance(p)
         /\ \A j \in 1..Advance(p) : StateNow(p)[j] = Word(p, Kinds(p)[j])
<1>1. DOMAIN Kinds(p) = 1..Advance(p) /\ Advance(p) \in Nat
  BY KindsOf DEF Advance
<1>2. \A j \in 1..Advance(p) : Kinds(p)[j] \in {"slot0", "liquidity", "reserves"}
  BY <1>1, KindsOf
<1>3. StateNow(p) = [j \in 1..Advance(p) |-> Word(p, Kinds(p)[j])]
  BY <1>1 DEF StateNow
<1>4. \A j \in 1..Advance(p) : Word(p, Kinds(p)[j]) \in Words
  BY <1>2 DEF Word, Words
<1>5. StateNow(p) \in [1..Advance(p) -> Words]
  BY <1>3, <1>4
<1>6. StateNow(p) \in Seq(Words) /\ Len(StateNow(p)) = Advance(p)
  BY <1>1, <1>5
<1> QED BY <1>3, <1>6

\* The two loops over the pools are well defined.
LEMMA AskedIs ==
  ASSUME list \in Seq(Places)
  PROVE  /\ Asked \in [0..Len(list) -> Seq(Words)]
         /\ Asked[0] = <<>>
         /\ \A i \in 1..Len(list) : Asked[i] = Asked[i - 1] \o StateNow(list[i])
<1> DEFINE n == Len(list)
           g == [i \in 1..n |-> [s \in Seq(Words) |-> s \o StateNow(list[i])]]
           Body(f) == [i \in 0..n |-> IF i = 0 THEN <<>> ELSE f[i - 1] \o StateNow(list[i])]
<1>1. n \in Nat /\ <<>> \in Seq(Words) /\ \A i \in 1..n : list[i] \in Places
  OBVIOUS
<1>2. g \in [1..n -> [Seq(Words) -> Seq(Words)]]
  <2> SUFFICES ASSUME NEW i \in 1..n, NEW s \in Seq(Words)
               PROVE  s \o StateNow(list[i]) \in Seq(Words)
    OBVIOUS
  <2>1. StateNow(list[i]) \in Seq(Words)
    BY <1>1, StateNowIs
  <2> QED BY <2>1
<1>3. PICK f \in [0..n -> Seq(Words)] : f[0] = <<>> /\ \A i \in 1..n : f[i] = g[i][f[i - 1]]
  <2> HIDE DEF g, n
  <2>1. Runs(n, Seq(Words), <<>>, g) # {}
    BY <1>1, <1>2, LoopRuns
  <2> QED BY <2>1 DEF Runs
<1>4. ASSUME NEW i \in 1..n PROVE i - 1 \in 0..n /\ f[i] = f[i - 1] \o StateNow(list[i])
  <2>1. i - 1 \in 0..n
    BY <1>1
  <2>2. f[i - 1] \in Seq(Words)
    BY <2>1, <1>3
  <2>3. g[i][f[i - 1]] = f[i - 1] \o StateNow(list[i])
    BY <2>2
  <2> QED BY <2>1, <2>3, <1>3
<1>5. f = Body(f)
  <2>1. \A i \in 0..n : f[i] = Body(f)[i]
    <3> SUFFICES ASSUME NEW i \in 0..n PROVE f[i] = Body(f)[i]
      OBVIOUS
    <3>1. CASE i = 0
      BY <3>1, <1>3
    <3>2. CASE i # 0
      <4>1. i \in 1..n
        BY <3>2, <1>1
      <4> HIDE DEF n
      <4> QED BY <3>2, <4>1, <1>4
    <3> QED BY <3>1, <3>2
  <2>2. f = [i \in 0..n |-> f[i]]
    BY <1>3
  <2> QED BY <2>1, <2>2
<1>6. Asked = CHOOSE h : h = Body(h)
  BY DEF Asked
<1>7. Asked = Body(Asked)
  <2> HIDE DEF Body
  <2> QED BY <1>5, <1>6
<1>8. Asked[0] = <<>> /\ \A i \in 1..n : Asked[i] = Asked[i - 1] \o StateNow(list[i])
  <2>1. \A i \in 0..n : Asked[i] = Body(Asked)[i]
    <3> HIDE DEF Body
    <3> QED BY <1>7
  <2>2. Asked[0] = <<>>
    BY <1>1, <2>1
  <2>3. ASSUME NEW i \in 1..n PROVE Asked[i] = Asked[i - 1] \o StateNow(list[i])
    <3>1. i \in 0..n /\ i # 0
      BY <1>1
    <3> HIDE DEF n
    <3> QED BY <3>1, <2>1
  <2> QED BY <2>2, <2>3
<1>9. \A i \in 0..n : Asked[i] \in Seq(Words)
  <2> DEFINE T == {i \in 0..n : Asked[i] \in Seq(Words)}
  <2>1. 0 \in T
    <3>1. 0 \in 0..n /\ Asked[0] \in Seq(Words)
      BY <1>1, <1>8
    <3> HIDE DEF n
    <3> QED BY <3>1
  <2>2. ASSUME NEW i \in 1..n, i - 1 \in T PROVE i \in T
    <3>1. Asked[i - 1] \in Seq(Words) /\ StateNow(list[i]) \in Seq(Words) /\ i \in 0..n
      BY <2>2, <1>1, StateNowIs
    <3>2. Asked[i - 1] \o StateNow(list[i]) \in Seq(Words)
      BY <3>1
    <3> QED BY <3>1, <3>2, <1>8
  <2>3. 0..n \subseteq T
    <3> HIDE DEF T, n
    <3> QED BY <1>1, <2>1, <2>2, UpTo
  <2> QED BY <2>3
<1>10. Asked = [i \in 0..n |-> Asked[i]]
  BY <1>7
<1>11. Asked \in [0..n -> Seq(Words)]
  BY <1>9, <1>10
<1> QED BY <1>8, <1>11

LEMMA CallIdxIs ==
  ASSUME list \in Seq(Places)
  PROVE  /\ CallIdx \in [0..Len(list) -> Nat]
         /\ CallIdx[0] = 0
         /\ \A i \in 1..Len(list) : CallIdx[i] = CallIdx[i - 1] + Advance(list[i])
<1> DEFINE n == Len(list)
           g == [i \in 1..n |-> [s \in Nat |-> s + Advance(list[i])]]
           Body(f) == [i \in 0..n |-> IF i = 0 THEN 0 ELSE f[i - 1] + Advance(list[i])]
<1>1. n \in Nat /\ 0 \in Nat /\ \A i \in 1..n : Advance(list[i]) \in Nat
  BY KindsOf DEF Advance
<1>2. g \in [1..n -> [Nat -> Nat]]
  BY <1>1
<1>3. PICK f \in [0..n -> Nat] : f[0] = 0 /\ \A i \in 1..n : f[i] = g[i][f[i - 1]]
  <2> HIDE DEF g, n
  <2>1. Runs(n, Nat, 0, g) # {}
    BY <1>1, <1>2, LoopRuns
  <2> QED BY <2>1 DEF Runs
<1>4. ASSUME NEW i \in 1..n PROVE i - 1 \in 0..n /\ f[i] = f[i - 1] + Advance(list[i])
  <2>1. i - 1 \in 0..n
    BY <1>1
  <2>2. f[i - 1] \in Nat
    BY <2>1, <1>3
  <2>3. g[i][f[i - 1]] = f[i - 1] + Advance(list[i])
    BY <2>2
  <2> QED BY <2>1, <2>3, <1>3
<1>5. f = Body(f)
  <2>1. \A i \in 0..n : f[i] = Body(f)[i]
    BY <1>1, <1>3, <1>4
  <2>2. f = [i \in 0..n |-> f[i]]
    BY <1>3
  <2> QED BY <2>1, <2>2
<1>6. CallIdx = CHOOSE h : h = Body(h)
  BY DEF CallIdx
<1>7. CallIdx = Body(CallIdx)
  <2> HIDE DEF Body
  <2> QED BY <1>5, <1>6
<1>8. CallIdx[0] = 0 /\ \A i \in 1..n : CallIdx[i] = CallIdx[i - 1] + Advance(list[i])
  BY <1>1, <1>7
<1>9. \A i \in 0..n : CallIdx[i] \in Nat
  <2> DEFINE T == {i \in 0..n : CallIdx[i] \in Nat}
  <2>1. 0 \in T
    BY <1>1, <1>8
  <2>2. ASSUME NEW i \in 1..n, i - 1 \in T PROVE i \in T
    BY <2>2, <1>1, <1>8
  <2>3. 0..n \subseteq T
    <3> HIDE DEF T, n
    <3> QED BY <1>1, <2>1, <2>2, UpTo
  <2> QED BY <2>3
<1>10. CallIdx = [i \in 0..n |-> CallIdx[i]]
  BY <1>7
<1>11. CallIdx \in [0..n -> Nat]
  BY <1>9, <1>10
<1> QED BY <1>8, <1>11

\* Each round appends the calls of its pool.
LEMMA AskedGrows ==
  ASSUME list \in Seq(Places), NEW i \in 1..Len(list)
  PROVE  /\ Len(Asked[i]) = Len(Asked[i - 1]) + Advance(list[i])
         /\ \A k \in 1..Len(Asked[i - 1]) : Asked[i][k] = Asked[i - 1][k]
         /\ \A j \in 1..Advance(list[i]) :
              Asked[i][Len(Asked[i - 1]) + j] = Word(list[i], Kinds(list[i])[j])
<1> DEFINE s == Asked[i - 1]
           t == StateNow(list[i])
<1>1. i - 1 \in 0..Len(list) /\ list[i] \in Places
  OBVIOUS
<1>2. s \in Seq(Words) /\ Asked[i] = s \o t
  BY <1>1, AskedIs
<1>3. /\ t \in Seq(Words) /\ Len(t) = Advance(list[i])
      /\ \A j \in 1..Advance(list[i]) : t[j] = Word(list[i], Kinds(list[i])[j])
  BY <1>1, StateNowIs
<1> HIDE DEF s, t
<1>4. /\ Len(s \o t) = Len(s) + Len(t)
      /\ \A k \in 1..Len(s) : (s \o t)[k] = s[k]
      /\ \A k \in 1..Len(t) : (s \o t)[Len(s) + k] = t[k]
  <2>1. s \in Seq(Words) /\ t \in Seq(Words)
    BY <1>2, <1>3
  <2> QED BY <2>1, Concatenation
<1>5. /\ Len(Asked[i]) = Len(s) + Advance(list[i])
      /\ \A k \in 1..Len(s) : Asked[i][k] = s[k]
      /\ \A j \in 1..Advance(list[i]) :
           Asked[i][Len(s) + j] = Word(list[i], Kinds(list[i])[j])
  BY <1>2, <1>3, <1>4, Zenon
<1> QED BY <1>5 DEF s

\* call_idx counts the calls of the pools before.
LEMMA IndexCounts ==
  ASSUME list \in Seq(Places)
  PROVE  \A i \in 0..Len(list) : Len(Asked[i]) = CallIdx[i]
<1> DEFINE n == Len(list)
           T == {i \in 0..n : Len(Asked[i]) = CallIdx[i]}
<1>1. n \in Nat
  OBVIOUS
<1>2. 0 \in T
  BY AskedIs, CallIdxIs
<1>3. ASSUME NEW i \in 1..n, i - 1 \in T PROVE i \in T
  <2>1. i \in 0..n /\ i - 1 \in 0..n /\ list[i] \in Places
    BY <1>1
  <2>4. Len(Asked[i]) = Len(Asked[i - 1]) + Advance(list[i])
    BY AskedGrows
  <2>5. CallIdx[i] = CallIdx[i - 1] + Advance(list[i])
    BY CallIdxIs
  <2> QED BY <1>3, <2>1, <2>4, <2>5
<1>4. 0..n \subseteq T
  <2> HIDE DEF T, n
  <2> QED BY <1>1, <1>2, <1>3, UpTo
<1> QED BY <1>4

\* The answers that are decoded for a pool are those to its own calls.
LEMMA OwnCalls ==
  ASSUME list \in Seq(Places), NEW i \in 1..Len(list), NEW j \in 1..Advance(list[i])
  PROVE  /\ CallIdx[i - 1] + j \in 1..Len(Asked[Len(list)])
         /\ Asked[Len(list)][CallIdx[i - 1] + j] = Word(list[i], Kinds(list[i])[j])
<1> DEFINE n == Len(list)
           k == CallIdx[i - 1] + j
           word == Word(list[i], Kinds(list[i])[j])
           T == {m \in 0..n : m >= i => k <= Len(Asked[m]) /\ Asked[m][k] = word}
<1>1. n \in Nat /\ i \in 1..n /\ i - 1 \in 0..n /\ list[i] \in Places
  OBVIOUS
<1>2. j \in Nat /\ j >= 1 /\ CallIdx[i - 1] \in Nat /\ k \in Nat /\ k >= 1
  <2>1. Advance(list[i]) \in Nat
    BY KindsOf DEF Advance
  <2>2. CallIdx[i - 1] \in Nat
    BY <1>1, CallIdxIs
  <2>3. j \in Nat /\ j >= 1
    BY <2>1
  <2> QED BY <2>2, <2>3
<1>3. 0 \in T
  BY <1>1
<1>4. ASSUME NEW m \in 1..n, m - 1 \in T PROVE m \in T
  <2>1. m \in 0..n /\ m - 1 \in 0..n /\ list[m] \in Places
    BY <1>1
  <2>2. Len(Asked[m]) = Len(Asked[m - 1]) + Advance(list[m]) /\ Advance(list[m]) \in Nat
    <3>1. Len(Asked[m]) = Len(Asked[m - 1]) + Advance(list[m])
      BY AskedGrows
    <3>2. Advance(list[m]) \in Nat
      BY KindsOf DEF Advance
    <3> QED BY <3>1, <3>2
  <2>3. Len(Asked[m - 1]) = CallIdx[m - 1] /\ CallIdx[m - 1] \in Nat
    BY <2>1, IndexCounts, CallIdxIs
  <2>4. CASE m = i
    <3>1. k <= Len(Asked[m]) /\ k = Len(Asked[m - 1]) + j
      BY <1>2, <2>2, <2>3, <2>4
    <3>2. Asked[m][Len(Asked[m - 1]) + j] = word
      BY <2>4, AskedGrows
    <3> HIDE DEF k, word, n
    <3> QED BY <2>1, <3>1, <3>2
  <2>5. CASE m > i
    <3>1. k <= Len(Asked[m - 1]) /\ Asked[m - 1][k] = word
      BY <1>4, <2>1, <2>5
    <3>2. k \in 1..Len(Asked[m - 1])
      BY <1>2, <2>3, <3>1
    <3>3. Asked[m][k] = Asked[m - 1][k]
      BY <3>2, AskedGrows
    <3> HIDE DEF k, word, n
    <3>4. k <= Len(Asked[m])
      BY <1>2, <2>2, <2>3, <3>1
    <3> QED BY <2>1, <3>1, <3>3, <3>4
  <2>6. CASE m < i
    BY <2>1, <2>6
  <2> QED BY <2>4, <2>5, <2>6
<1>5. 0..n \subseteq T
  <2> HIDE DEF T, n
  <2> QED BY <1>1, <1>3, <1>4, UpTo
<1>6. n \in T
  <2> HIDE DEF T
  <2> QED BY <1>1, <1>5
<1> QED BY <1>1, <1>2, <1>6

-----------------------------------------------------------------------------
(* The inductive invariant.                                                *)

\* what is registered, and what is still to be read, are places that were looked at
RegistryInv == /\ registry \subseteq Places
               /\ found \in [Builders -> SUBSET Places]
               /\ list \in Seq(Places)

\* the pools are read one by one only after a multicall failed; half belongs to the first
HalfInv == /\ pc \in {"single", "liquidity"} => list # <<>> /\ apart = TRUE
           /\ pc = "liquidity" => IsUni(Head(list)) /\ half.pool = Head(list)
                                                   /\ half.kind = "slot0"

\* a state of p, with the answers of one moment unless it was read apart
Own(p, state, mixed) ==
  /\ DOMAIN state = DOMAIN Kinds(p)
  /\ \A i \in DOMAIN state : state[i].pool = p /\ state[i].kind = Kinds(p)[i]
  /\ mixed \/ \A i \in DOMAIN state : state[i].time = state[1].time

\* every body starts from a clone of what was read at the boot
BootInv ==
  \A p \in DOMAIN feed : feed[p] = [i \in DOMAIN Kinds(p) |->
                                      [pool |-> p, kind |-> Kinds(p)[i], time |-> 0]]

FeedInv == RegistryInv /\ HalfInv /\ StatesAreOwn /\ BootInv

LEMMA PlacesFinite == IsFiniteSet(Places)
<1>1. Looks \in Nat
  BY FeedAssumption DEF Looks
<1>2. IsFiniteSet(1..Looks)
  BY <1>1, FS_Interval
<1> DEFINE f == [i \in 1..Looks |-> Look(i)]
<1>3. f \in Surjection(1..Looks, Places)
  BY DEF Surjection, Places
<1> HIDE DEF f
<1> QED BY <1>2, <1>3, FS_Surjection

LEMMA OwnStates == StatesAreOwn <=> \A p \in DOMAIN copy : Own(p, copy[p], apart)
  BY DEF StatesAreOwn, Own

LEMMA OwnStatesNext == (\A p \in DOMAIN copy' : Own(p, copy'[p], apart')) => StatesAreOwn'
  BY DEF StatesAreOwn, Own

\* What is read at one moment is a state of its own.
LEMMA NowIsOwn ==
  ASSUME NEW p, NEW mixed
  PROVE  Own(p, StateNow(p), mixed)
<1>1. 1 \in DOMAIN Kinds(p)
  BY KindsOf
<1> QED BY <1>1 DEF Own, StateNow, Word

\* Apart or not, a state that is of one moment is one.
LEMMA BootIsOwn ==
  ASSUME BootInv, NEW p \in DOMAIN feed, NEW mixed
  PROVE  Own(p, feed[p], mixed)
<1>1. 1 \in DOMAIN Kinds(p)
  BY KindsOf
<1> QED BY <1>1 DEF Own, BootInv

\* all() returns registered pools, and some if there are any.
LEMMA SnapshotIs ==
  ASSUME RegistryInv, NEW seq \in SetToSeqs(registry)
  PROVE  seq \in Seq(Places) /\ (registry # {} => seq # <<>>)
<1>1. IsFiniteSet(registry)
  BY PlacesFinite, FS_Subset DEF RegistryInv
<1>2. Cardinality(registry) \in Nat /\ (registry # {} => Cardinality(registry) # 0)
  BY <1>1, FS_CardinalityType, FS_EmptySet
<1>3. seq \in [1..Cardinality(registry) -> registry]
  BY DEF SetToSeqs
<1>4. seq \in Seq(registry) /\ Len(seq) = Cardinality(registry)
  BY <1>2, <1>3
<1>5. seq \in Seq(Places)
  BY <1>4 DEF RegistryInv
<1> QED BY <1>2, <1>4, <1>5

LEMMA FeedInit == Init => FeedInv
<1> SUFFICES ASSUME Init PROVE FeedInv
  OBVIOUS
<1>1. RegistryInv
  BY DEF Init, RegistryInv, Builders
<1>2. HalfInv
  BY DEF Init, HalfInv
<1>3. StatesAreOwn
  BY DEF Init, StatesAreOwn
<1>4. BootInv
  <2> SUFFICES ASSUME NEW p \in DOMAIN feed
               PROVE  feed[p] = [i \in DOMAIN Kinds(p) |->
                                   [pool |-> p, kind |-> Kinds(p)[i], time |-> 0]]
    BY DEF BootInv
  <2>1. feed[p] = StateNow(p) /\ time = 0
    BY DEF Init
  <2> QED BY <2>1 DEF StateNow, Word
<1> QED BY <1>1, <1>2, <1>3, <1>4 DEF FeedInv

\* Inserting a state of its own.
LEMMA InsertOwn ==
  ASSUME StatesAreOwn, NEW p, NEW state, Own(p, state, apart),
         copy' = Insert(p, state), apart' = apart
  PROVE  StatesAreOwn'
<1> SUFFICES ASSUME NEW q \in DOMAIN copy' PROVE Own(q, copy'[q], apart')
  BY DEF StatesAreOwn, Own
<1>1. CASE q = p
  <2>1. copy'[q] = state
    BY <1>1 DEF Insert
  <2> QED BY <1>1, <2>1
<1>2. CASE q # p
  <2>1. q \in DOMAIN copy /\ copy'[q] = copy[q]
    BY <1>2 DEF Insert
  <2> QED BY <2>1, OwnStates
<1> QED BY <1>1, <1>2

LEMMA Tails ==
  ASSUME NEW S, NEW s \in Seq(S), s # <<>>
  PROVE  Tail(s) \in Seq(S) /\ Len(Tail(s)) = Len(s) - 1
<1>1. Tail(s) \in Seq(S)
  OBVIOUS
<1>2. Len(Tail(s)) = Len(s) - 1
  OBVIOUS
<1> QED BY <1>1, <1>2

LEMMA NextPoolKeeps ==
  ASSUME RegistryInv, list # <<>>, apart = TRUE, apart' = TRUE, NextPool
  PROVE  list' \in Seq(Places) /\ HalfInv'
<1>1. list \in Seq(Places) /\ list' = Tail(list) /\ pc' \in {"done", "single"}
  BY DEF NextPool, RegistryInv
<1>2. Tail(list) \in Seq(Places) /\ (Len(list) # 1 => Tail(list) # <<>>)
  <2>1. Tail(list) \in Seq(Places) /\ Len(Tail(list)) = Len(list) - 1
    BY <1>1, Tails
  <2>2. Len(list) # 1 => Len(Tail(list)) # 0
    BY <1>1, <2>1
  <2>3. Len(list) # 1 => Tail(list) # <<>>
    <3> DEFINE t == Tail(list)
    <3> HIDE DEF t
    <3>1. t = <<>> => Len(t) = 0
      OBVIOUS
    <3> QED BY <2>2, <3>1 DEF t
  <2> QED BY <2>1, <2>3
<1>3. pc' = "single" => list' # <<>>
  BY <1>1, <1>2 DEF NextPool
<1> QED BY <1>1, <1>2, <1>3 DEF HalfInv

\* The multicall gives every pool its own answers, whichever of them fail.
LEMMA BatchOwn ==
  ASSUME FeedInv, ReloadBatched
  PROVE  StatesAreOwn'
<1> DEFINE calls == Asked[Len(list)]
           index == CallIdx
           slot == [p \in Range(list) |-> CHOOSE i \in DOMAIN list : list[i] = p]
           answer(failing, k) == Answer(calls[k], k \in failing)
           state(failing) == [p \in Range(list) |->
                                [j \in DOMAIN Kinds(p) |-> answer(failing, index[slot[p] - 1] + j)]]
           got(failing) == {p \in Range(list) :
                              \A j \in DOMAIN Kinds(p) : Fits(state(failing)[p][j], Kinds(p)[j])}
<1>1. PICK failing \in SUBSET DOMAIN calls :
        copy' = [p \in DOMAIN copy \union got(failing) |->
                   IF p \in got(failing) THEN state(failing)[p] ELSE copy[p]]
  BY Zenon DEF ReloadBatched
<1>2. ASSUME NEW p \in got(failing) PROVE Own(p, state(failing)[p], apart)
  <2>1. list \in Seq(Places) /\ p \in Range(list)
    BY DEF FeedInv, RegistryInv
  <2>2. slot[p] \in 1..Len(list) /\ list[slot[p]] = p
    BY <2>1 DEF Range
  <2>3. ASSUME NEW j \in DOMAIN Kinds(p) PROVE state(failing)[p][j] = Word(p, Kinds(p)[j])
    <3> DEFINE i == slot[p]
               k == index[i - 1] + j
    <3>1. state(failing)[p][j] = answer(failing, k) /\ state(failing)[p][j] # Nothing
      BY <2>1 DEF Fits
    <3>2. j \in 1..Advance(list[i])
      BY <2>2, KindsOf DEF Advance
    <3>3. calls[k] = Word(p, Kinds(p)[j])
      <4>1. i \in 1..Len(list) /\ list[i] = p
        BY <2>2
      <4> HIDE DEF i, slot
      <4>2. Asked[Len(list)][CallIdx[i - 1] + j] = Word(list[i], Kinds(list[i])[j])
        BY <2>1, <3>2, <4>1, OwnCalls
      <4> QED BY <4>1, <4>2
    <3> HIDE DEF slot, i, k, calls, index, state
    <3>4. answer(failing, k) = calls[k]
      BY <3>1 DEF Answer
    <3> QED BY <3>1, <3>3, <3>4, Zenon
  <2>4. DOMAIN state(failing)[p] = DOMAIN Kinds(p) /\ 1 \in DOMAIN Kinds(p)
    BY <2>1, KindsOf
  <2> DEFINE s == state(failing)[p]
  <2> HIDE DEF state, s
  <2>5. \A j \in DOMAIN s : s[j] = [pool |-> p, kind |-> Kinds(p)[j], time |-> time]
    BY <2>3, <2>4 DEF Word, s
  <2>6. DOMAIN s = DOMAIN Kinds(p) /\ 1 \in DOMAIN s
    BY <2>4 DEF s
  <2>7. Own(p, s, apart)
    BY <2>5, <2>6 DEF Own
  <2> QED BY <2>7 DEF s
<1>3. apart' = apart
  BY Zenon DEF ReloadBatched
<1> HIDE DEF calls, index, slot, answer, state, got
<1>4. SUFFICES ASSUME NEW p \in DOMAIN copy' PROVE Own(p, copy'[p], apart')
  BY OwnStatesNext
<1>5. CASE p \in got(failing)
  <2>1. copy'[p] = state(failing)[p]
    BY <1>1, <1>5
  <2> QED BY <1>2, <1>3, <1>5, <2>1
<1>6. CASE p \notin got(failing)
  <2>1. p \in DOMAIN copy /\ copy'[p] = copy[p]
    BY <1>1, <1>6
  <2> QED BY <1>3, <2>1, OwnStates DEF FeedInv
<1> QED BY <1>5, <1>6

\* Every step keeps the invariant.
LEMMA FeedStep == FeedInv /\ [Next]_vars => FeedInv'
<1> SUFFICES ASSUME FeedInv, [Next]_vars PROVE FeedInv'
  OBVIOUS
<1> USE DEF FeedInv
<1>1. BootInv'
  <2>1. feed' = feed
    BY Zenon DEF Next, Move, RefreshOne, Built, NewBlock, Update, ReloadBatched, BatchFails, ReadOne,
           ReadLiquidity, EndOfBody, vars, loop
  <2>2. BootInv
    OBVIOUS
  <2> QED BY <2>1, <2>2, Zenon DEF BootInv
<1>2. CASE Move
  <2>1. UNCHANGED <<builds, loop>>
    BY <1>2 DEF Move
  <2> QED BY <1>1, <2>1 DEF builds, loop, RegistryInv, HalfInv, StatesAreOwn
<1>3. ASSUME NEW b \in Builders, NEW ok \in BOOLEAN, RefreshOne(b, ok) PROVE FeedInv'
  <2>1. at[b] \in 1..Looks => Look(at[b]) \in Places
    BY DEF Places
  <2>2. RegistryInv'
    BY <1>3, <2>1 DEF RefreshOne, RegistryInv, loop
  <2>3. HalfInv' /\ StatesAreOwn'
    BY <1>3 DEF RefreshOne, HalfInv, StatesAreOwn, loop
  <2> QED BY <1>1, <2>2, <2>3
<1>4. ASSUME NEW b \in Builders, Built(b) PROVE FeedInv'
  <2>1. registry' = found[b] /\ found' = [found EXCEPT ![b] = {}] /\ list' = list
    BY <1>4 DEF Built
  <2>2. RegistryInv'
    <3>1. registry' \subseteq Places
      BY <2>1 DEF RegistryInv
    <3>2. found' \in [Builders -> SUBSET Places]
      BY <2>1 DEF RegistryInv
    <3>3. list' \in Seq(Places)
      BY <2>1 DEF RegistryInv
    <3> QED BY <3>1, <3>2, <3>3 DEF RegistryInv
  <2>3. HalfInv' /\ StatesAreOwn'
    BY <1>4 DEF Built, HalfInv, StatesAreOwn
  <2> QED BY <1>1, <2>2, <2>3
<1>5. CASE NewBlock
  <2>1. RegistryInv'
    BY <1>5 DEF NewBlock, Started, RegistryInv, Builders
  <2>2. HalfInv' /\ StatesAreOwn'
    BY <1>5 DEF NewBlock, HalfInv, StatesAreOwn
  <2> QED BY <1>1, <2>1, <2>2
<1>6. CASE Update
  <2>1. list' \in Seq(Places)
    BY <1>6, SnapshotIs DEF Update, Snapshot
  <2>2. RegistryInv'
    BY <1>6, <2>1 DEF Update, Started, RegistryInv, Builders
  <2>3. HalfInv'
    BY <1>6 DEF Update, Snapshot, HalfInv
  <2>4. copy' = feed
    BY <1>6 DEF Update
  <2>5. \A p \in DOMAIN copy' : Own(p, copy'[p], apart')
    BY <2>4, BootIsOwn
  <2>6. StatesAreOwn'
    BY <2>5 DEF StatesAreOwn, Own
  <2> QED BY <1>1, <2>2, <2>3, <2>6
<1>7. CASE ReloadBatched
  <2> DEFINE after == list' = <<>> /\ pc' = "done" /\ registry' = registry /\ found' = found
  <2>0. after
    BY <1>7, Zenon DEF ReloadBatched, builds
  <2>1. RegistryInv'
    BY <2>0 DEF RegistryInv
  <2>2. HalfInv'
    BY <2>0 DEF HalfInv
  <2> QED BY <1>1, <1>7, <2>1, <2>2, BatchOwn
<1>8. CASE BatchFails
  <2>1. list' \in Seq(Places) /\ (registry # {} => list' # <<>>)
    BY <1>8, SnapshotIs DEF BatchFails, Snapshot
  <2>2. RegistryInv'
    BY <1>8, <2>1 DEF BatchFails, RegistryInv, builds
  <2>3. HalfInv'
    BY <1>8, <2>1 DEF BatchFails, Snapshot, HalfInv
  <2>4. StatesAreOwn'
    BY <1>8 DEF BatchFails, StatesAreOwn
  <2> QED BY <1>1, <2>2, <2>3, <2>4
<1>9. ASSUME NEW ok \in BOOLEAN, ReadOne(ok) PROVE FeedInv'
  <2> DEFINE p == Head(list)
  <2>1. list # <<>> /\ apart = TRUE /\ apart' = TRUE
    BY <1>9 DEF ReadOne, HalfInv
  <2>2. UNCHANGED <<registry, found>>
    BY <1>9 DEF ReadOne, builds
  <2>3. CASE NextPool /\ UNCHANGED copy
    <3>1. list' \in Seq(Places) /\ HalfInv'
      BY <2>1, <2>3, NextPoolKeeps
    <3>2. StatesAreOwn'
      BY <2>1, <2>3 DEF StatesAreOwn
    <3> QED BY <1>1, <2>2, <3>1, <3>2 DEF RegistryInv
  <2>4. CASE copy' = Insert(p, StateNow(p)) /\ NextPool
    <3>1. list' \in Seq(Places) /\ HalfInv'
      BY <2>1, <2>4, NextPoolKeeps
    <3>2. StatesAreOwn'
      BY <2>1, <2>4, NowIsOwn, InsertOwn
    <3> QED BY <1>1, <2>2, <3>1, <3>2 DEF RegistryInv
  <2>5. CASE IsUni(p) /\ pc' = "liquidity" /\ half' = Word(p, "slot0") /\ UNCHANGED <<list, copy>>
    <3>1. HalfInv'
      BY <2>1, <2>5 DEF HalfInv, Word
    <3>2. StatesAreOwn'
      BY <2>1, <2>5 DEF StatesAreOwn
    <3> QED BY <1>1, <2>2, <2>5, <3>1, <3>2 DEF RegistryInv
  <2> QED BY <1>9, <2>3, <2>4, <2>5 DEF ReadOne
<1>10. ASSUME NEW ok \in BOOLEAN, ReadLiquidity(ok) PROVE FeedInv'
  <2> DEFINE p == Head(list)
             state == <<half, Word(p, "liquidity")>>
  <2>1. list # <<>> /\ apart = TRUE /\ apart' = TRUE /\ NextPool
    BY <1>10 DEF ReadLiquidity, HalfInv
  <2>2. UNCHANGED <<registry, found>>
    BY <1>10 DEF ReadLiquidity, builds
  <2>3. list' \in Seq(Places) /\ HalfInv'
    BY <2>1, NextPoolKeeps
  <2>4. Own(p, state, apart)
    <3>1. IsUni(p) /\ half.pool = p /\ half.kind = "slot0"
      BY <1>10 DEF ReadLiquidity, HalfInv
    <3>2. Kinds(p) = <<"slot0", "liquidity">>
      BY <3>1 DEF Kinds
    <3>3. DOMAIN state = DOMAIN Kinds(p) /\ DOMAIN state = 1..2
      BY <3>2
    <3>4. \A i \in 1..2 : state[i].pool = p /\ state[i].kind = Kinds(p)[i]
      BY <3>1, <3>2 DEF Word
    <3> HIDE DEF state
    <3> QED BY <2>1, <3>3, <3>4 DEF Own
  <2>5. StatesAreOwn'
    <3>1. CASE copy' = Insert(p, state)
      BY <2>1, <2>4, <3>1, InsertOwn
    <3>2. CASE copy' = copy
      BY <2>1, <3>2 DEF StatesAreOwn
    <3> QED BY <1>10, <3>1, <3>2 DEF ReadLiquidity
  <2> QED BY <1>1, <2>2, <2>3, <2>5 DEF RegistryInv
<1>11. CASE EndOfBody
  <2>1. RegistryInv'
    BY <1>11 DEF EndOfBody, RegistryInv, builds
  <2>2. HalfInv' /\ StatesAreOwn'
    BY <1>11 DEF EndOfBody, HalfInv, StatesAreOwn
  <2> QED BY <1>1, <2>1, <2>2
<1>12. CASE UNCHANGED vars
  BY <1>1, <1>12 DEF vars, builds, loop, RegistryInv, HalfInv, StatesAreOwn
<1> QED BY <1>2, <1>3, <1>4, <1>5, <1>6, <1>7, <1>8, <1>9, <1>10, <1>11, <1>12 DEF Next

LEMMA FeedInvariant == Spec => []FeedInv
<1>1. Init => FeedInv
  BY FeedInit
<1>2. FeedInv /\ [Next]_vars => FeedInv'
  BY FeedStep
<1> QED BY <1>1, <1>2, PTL DEF Spec

\* However many pools there are and whichever calls fail, a pool's state is made of its own
\* answers, of one moment if they came in one multicall (price_feed.rs:86-139).
THEOREM StatesOwn == Spec => []StatesAreOwn
<1>1. FeedInv => StatesAreOwn
  BY DEF FeedInv
<1> QED BY <1>1, FeedInvariant, PTL
=============================================================================

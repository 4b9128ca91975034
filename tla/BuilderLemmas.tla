---------------------------- MODULE BuilderLemmas ----------------------------
(***************************************************************************)
(* Lemmas about the operators of the builders: loops over lists, lists     *)
(* grouped by a key, sorted lists, the first and the last of some indices. *)
(* What a loop computes is proved by induction over its steps; the set of  *)
(* the steps for which a statement holds takes the place of the statement. *)
(***************************************************************************)
EXTENDS Routing, WellFoundedInduction, SequenceTheorems, FiniteSetTheorems, TLAPS

(* A set that contains 0 and with every number the next one is Nat.        *)
LEMMA NatSetInduction ==
  ASSUME NEW P, 0 \in P, \A n \in Nat : n \in P => n + 1 \in P
  PROVE  \A n \in Nat : n \in P
<1> DEFINE T == {n \in Nat : n \notin P}
<1> SUFFICES ASSUME T # {} PROVE FALSE
  OBVIOUS
<1>1. PICK x \in T : \A y \in T : ~ (<<y, x>> \in OpToRel(<, Nat))
  <2>1. T \subseteq Nat
    OBVIOUS
  <2> HIDE DEF T
  <2> QED
    BY <2>1, NatLessThanWellFounded, WFMin
<1>2. \A y \in T : ~ (y < x)
  BY <1>1 DEF OpToRel
<1>3. x \in Nat /\ x # 0
  OBVIOUS
<1>4. x - 1 \in Nat /\ x - 1 < x
  BY <1>3
<1>5. x - 1 \in P
  BY <1>2, <1>4
<1> QED
  BY <1>3, <1>4, <1>5

(* A loop of N steps keeps what it has computed so far, f[n] after n steps. *)
Steps(N, S) == [S \X (1 .. N) -> S]
Loop(f, N, a, step) == f[0] = a /\ \A n \in 1 .. N : f[n] = step[<<f[n - 1], n>>]

(* A loop of any length computes something.                                *)
LEMMA LoopExists ==
  ASSUME NEW N \in Nat, NEW S, NEW a \in S, NEW step \in Steps(N, S)
  PROVE  \E f \in [0 .. N -> S] : Loop(f, N, a, step)
<1> DEFINE Ok(f, M) == f[0] = a /\ \A n \in 1 .. M : f[n] = step[<<f[n - 1], n>>]
           P == {M \in Nat : M <= N => \E f \in [0 .. M -> S] : Ok(f, M)}
<1>1. 0 \in P
  <2>1. [n \in 0 .. 0 |-> a] \in [0 .. 0 -> S] /\ Ok([n \in 0 .. 0 |-> a], 0)
    OBVIOUS
  <2> QED
    BY <2>1
<1>2. ASSUME NEW M \in Nat, M \in P PROVE M + 1 \in P
  <2> SUFFICES ASSUME M + 1 <= N PROVE \E f \in [0 .. M + 1 -> S] : Ok(f, M + 1)
    OBVIOUS
  <2>1. PICK g \in [0 .. M -> S] : Ok(g, M)
    BY <1>2
  <2> DEFINE f == [n \in 0 .. M + 1 |-> IF n = M + 1 THEN step[<<g[M], M + 1>>] ELSE g[n]]
  <2>2. f \in [0 .. M + 1 -> S]
    BY DEF Steps
  <2>3. Ok(f, M + 1)
    <3>1. f[0] = a
      <4>1. 0 \in 0 .. M + 1 /\ 0 # M + 1
        OBVIOUS
      <4>2. f[0] = g[0]
        BY <4>1
      <4>3. g[0] = a
        BY <2>1
      <4> QED
        BY <4>2, <4>3
    <3>2. ASSUME NEW n \in 1 .. M + 1 PROVE f[n] = step[<<f[n - 1], n>>]
      <4>1. f[n - 1] = g[n - 1]
        OBVIOUS
      <4>2. CASE n = M + 1
        <5>1. f[n] = step[<<g[M], n>>] /\ n - 1 = M
          BY <4>2
        <5> HIDE DEF f
        <5> QED
          BY <5>1, <4>1
      <4>3. CASE n # M + 1
        BY <4>1, <4>3, <2>1
      <4> QED
        BY <4>2, <4>3
    <3> QED
      BY <3>1, <3>2
  <2> HIDE DEF Ok, f
  <2> QED
    BY <2>2, <2>3
<1>3. N \in P
  <2>1. \A M \in Nat : M \in P => M + 1 \in P
    BY <1>2
  <2> HIDE DEF P
  <2> QED
    BY <1>1, <2>1, NatSetInduction
<1> QED
  BY <1>3 DEF Loop

(* Whatever a loop computes stays in the set that its steps keep to. *)
LEMMA LoopTyped ==
  ASSUME NEW N \in Nat, NEW S, NEW w, w[0] \in S,
         \A n \in 1 .. N : w[n - 1] \in S => w[n] \in S
  PROVE  \A n \in 0 .. N : w[n] \in S
<1> DEFINE P == {n \in Nat : n <= N => w[n] \in S}
<1>1. 0 \in P
  OBVIOUS
<1>2. \A n \in Nat : n \in P => n + 1 \in P
  <2> SUFFICES ASSUME NEW n \in Nat, n \in P, n + 1 <= N PROVE w[n + 1] \in S
    OBVIOUS
  <2>1. n + 1 \in 1 .. N /\ (n + 1) - 1 = n /\ w[n] \in S
    OBVIOUS
  <2> QED
    BY <2>1
<1>3. \A n \in Nat : n \in P
  <2> HIDE DEF P
  <2> QED
    BY <1>1, <1>2, NatSetInduction
<1> QED
  BY <1>3

(* Min and Max of indices are what their names say.                        *)
LEMMA MinIs ==
  ASSUME NEW S \in SUBSET Nat, S # {}
  PROVE  Min(S) \in S /\ \A y \in S : Min(S) <= y
<1>1. PICK x \in S : \A y \in S : ~ (<<y, x>> \in OpToRel(<, Nat))
  BY NatLessThanWellFounded, WFMin
<1>2. ASSUME NEW y \in S PROVE x <= y
  <2>1. ~ (y < x)
    BY <1>1 DEF OpToRel
  <2> QED
    BY <2>1
<1> QED
  BY <1>2 DEF Min

LEMMA MaxIs ==
  ASSUME NEW N \in Nat, NEW S \in SUBSET (1 .. N), S # {}
  PROVE  Max(S) \in S /\ \A y \in S : Max(S) >= y
<1> DEFINE T == {n \in Nat : \E x \in S : n = N - x}
<1>1. T \in SUBSET Nat /\ T # {}
  <2>1. PICK x \in S : TRUE
    OBVIOUS
  <2>2. N - x \in T
    BY <2>1
  <2> QED
    BY <2>2
<1>2. Min(T) \in T /\ \A y \in T : Min(T) <= y
  <2> HIDE DEF T
  <2> QED
    BY <1>1, MinIs
<1>3. PICK x \in S : Min(T) = N - x
  BY <1>2
<1>4. \A y \in S : x >= y
  <2> SUFFICES ASSUME NEW y \in S PROVE x >= y
    OBVIOUS
  <2>1. N - y \in T
    OBVIOUS
  <2>2. N - x <= N - y
    BY <2>1, <1>2, <1>3
  <2> QED
    BY <2>2
<1> QED
  BY <1>4 DEF Max

-----------------------------------------------------------------------------
(* Weights. *)

(* clusterTotalWeight adds one weight after the other.                     *)
LEMMA TotalWeightLoop ==
  ASSUME NEW list, Len(list) \in Nat, \A n \in 1 .. Len(list) : list[n].weight \in Nat
  PROVE  \E w : /\ clusterTotalWeight(list) = w[Len(list)]
                /\ w[0] = 0
                /\ \A n \in 1 .. Len(list) : w[n] = (w[n - 1] + list[n].weight) % Word
<1> DEFINE N == Len(list)
           Body(g) == [n \in 0 .. N |-> IF n = 0 THEN 0 ELSE (g[n - 1] + list[n].weight) % Word]
           step == [x \in Nat \X (1 .. N) |-> (x[1] + list[x[2]].weight) % Word]
           w == CHOOSE g : g = Body(g)
<1>1. clusterTotalWeight(list) = w[N]
  BY DEF clusterTotalWeight
<1>2. \E g : g = Body(g)
  <2>1. step \in Steps(N, Nat)
    BY RouteAssumption DEF Steps
  <2>2. PICK f \in [0 .. N -> Nat] : Loop(f, N, 0, step)
    <3>1. N \in Nat /\ 0 \in Nat
      OBVIOUS
    <3> HIDE DEF step, N
    <3> QED
      BY <3>1, <2>1, LoopExists
  <2>3. ASSUME NEW n \in 0 .. N PROVE f[n] = Body(f)[n]
    <3>1. CASE n = 0
      BY <3>1, <2>2 DEF Loop
    <3>2. CASE n # 0
      <4>1. n \in 1 .. N /\ f[n - 1] \in Nat
        <5> HIDE DEF Body, step
        <5>1. n \in 1 .. N /\ n - 1 \in 0 .. N
          BY <3>2
        <5> HIDE DEF N
        <5> QED
          BY <5>1
      <4>2. f[n] = step[<<f[n - 1], n>>]
        BY <4>1, <2>2 DEF Loop
      <4>3. <<f[n - 1], n>> \in Nat \X (1 .. N)
        BY <4>1
      <4>4. step[<<f[n - 1], n>>] = (f[n - 1] + list[n].weight) % Word
        BY <4>3
      <4> QED
        BY <3>2, <4>2, <4>4
    <3> QED
      BY <3>1, <3>2
  <2>4. f = [n \in 0 .. N |-> f[n]] /\ Body(f) = [n \in 0 .. N |-> Body(f)[n]]
    OBVIOUS
  <2> HIDE DEF Body
  <2> QED
    BY <2>3, <2>4
<1>3. w = Body(w)
  <2> HIDE DEF Body
  <2> QED
    BY <1>2
<1> HIDE DEF w
<1>4. w[0] = 0 /\ \A n \in 1 .. N : w[n] = (w[n - 1] + list[n].weight) % Word
  <2>1. \A n \in 0 .. N : w[n] = IF n = 0 THEN 0 ELSE (w[n - 1] + list[n].weight) % Word
    BY <1>3
  <2> QED
    BY <2>1
<1> QED
  BY <1>1, <1>4

(* The sum that Envoy expects, one weight after the other. *)
LEMMA SumLoop ==
  ASSUME NEW list, Len(list) \in Nat, \A n \in 1 .. Len(list) : list[n].weight \in Nat
  PROVE  \E w : /\ SumOfWeights(list) = w[Len(list)]
                /\ w[0] = 0
                /\ \A n \in 1 .. Len(list) : w[n] = w[n - 1] + list[n].weight
<1> DEFINE N == Len(list)
           Body(g) == [n \in 0 .. N |-> IF n = 0 THEN 0 ELSE g[n - 1] + list[n].weight]
           step == [x \in Nat \X (1 .. N) |-> x[1] + list[x[2]].weight]
           w == CHOOSE g : g = Body(g)
<1>1. SumOfWeights(list) = w[N]
  BY DEF SumOfWeights
<1>2. \E g : g = Body(g)
  <2>1. step \in Steps(N, Nat)
    BY DEF Steps
  <2>2. PICK f \in [0 .. N -> Nat] : Loop(f, N, 0, step)
    <3>1. N \in Nat /\ 0 \in Nat
      OBVIOUS
    <3> HIDE DEF step, N
    <3> QED
      BY <3>1, <2>1, LoopExists
  <2>3. ASSUME NEW n \in 0 .. N PROVE f[n] = Body(f)[n]
    <3>1. CASE n = 0
      BY <3>1, <2>2 DEF Loop
    <3>2. CASE n # 0
      <4>1. n \in 1 .. N /\ f[n - 1] \in Nat
        <5> HIDE DEF Body, step
        <5>1. n \in 1 .. N /\ n - 1 \in 0 .. N
          BY <3>2
        <5> HIDE DEF N
        <5> QED
          BY <5>1
      <4>2. f[n] = step[<<f[n - 1], n>>]
        BY <4>1, <2>2 DEF Loop
      <4>3. <<f[n - 1], n>> \in Nat \X (1 .. N)
        BY <4>1
      <4>4. step[<<f[n - 1], n>>] = f[n - 1] + list[n].weight
        BY <4>3
      <4> QED
        BY <3>2, <4>2, <4>4
    <3> QED
      BY <3>1, <3>2
  <2>4. f = [n \in 0 .. N |-> f[n]] /\ Body(f) = [n \in 0 .. N |-> Body(f)[n]]
    OBVIOUS
  <2> HIDE DEF Body
  <2> QED
    BY <2>3, <2>4
<1>3. w = Body(w)
  <2> HIDE DEF Body
  <2> QED
    BY <1>2
<1> HIDE DEF w
<1>4. w[0] = 0 /\ \A n \in 1 .. N : w[n] = w[n - 1] + list[n].weight
  <2>1. \A n \in 0 .. N : w[n] = IF n = 0 THEN 0 ELSE w[n - 1] + list[n].weight
    BY <1>3
  <2> QED
    BY <2>1
<1> QED
  BY <1>1, <1>4

(* A number below the width is not cut.                                    *)
LEMMA SmallModulo == ASSUME NEW x \in 0 .. (Word - 1) PROVE x % Word = x
BY RouteAssumption

(* The sum of uint32 is the sum as long as that fits in one. *)
LEMMA WeightsAddUp ==
  ASSUME NEW list, NEW shown, Len(list) \in Nat, Len(shown) = Len(list),
         \A n \in 1 .. Len(list) : list[n].weight \in Nat /\ shown[n].weight = list[n].weight
  PROVE  /\ SumOfWeights(shown) < Word => clusterTotalWeight(list) = SumOfWeights(shown)
         /\ (\A n \in 1 .. Len(list) : shown[n].weight <= 100)
              => SumOfWeights(shown) <= 100 * Len(list)
         /\ SumOfWeights(shown) \in Nat
<1> DEFINE N == Len(list)
<1>1. PICK w : /\ clusterTotalWeight(list) = w[N] /\ w[0] = 0
               /\ \A n \in 1 .. N : w[n] = (w[n - 1] + list[n].weight) % Word
  BY TotalWeightLoop
<1>2. PICK sum : /\ SumOfWeights(shown) = sum[N] /\ sum[0] = 0
                 /\ \A n \in 1 .. N : sum[n] = sum[n - 1] + shown[n].weight
  BY SumLoop
<1>3. \A n \in 0 .. N : sum[n] \in Nat
  <2>1. \A n \in 1 .. N : sum[n - 1] \in Nat => sum[n] \in Nat
    BY <1>2
  <2>2. N \in Nat /\ sum[0] \in Nat
    BY <1>2
  <2> HIDE DEF N
  <2> QED
    BY <2>1, <2>2, LoopTyped
<1>4. SumOfWeights(shown) < Word => clusterTotalWeight(list) = SumOfWeights(shown)
  <2> DEFINE P == {n \in Nat : n <= N /\ sum[n] < Word => w[n] = sum[n]}
  <2>1. 0 \in P
    BY <1>1, <1>2
  <2>2. ASSUME NEW n \in Nat, n \in P PROVE n + 1 \in P
    <3> SUFFICES ASSUME n + 1 <= N, sum[n + 1] < Word PROVE w[n + 1] = sum[n + 1]
      OBVIOUS
    <3>1. n + 1 \in 1 .. N /\ (n + 1) - 1 = n /\ n \in 0 .. N /\ n + 1 \in 0 .. N
      OBVIOUS
    <3>2. /\ sum[n + 1] = sum[n] + shown[n + 1].weight
          /\ w[n + 1] = (w[n] + list[n + 1].weight) % Word
          /\ list[n + 1].weight \in Nat /\ shown[n + 1].weight = list[n + 1].weight
      BY <3>1, <1>1, <1>2
    <3>3. sum[n] \in Nat /\ sum[n + 1] \in Nat
      BY <3>1, <1>3
    <3>4. w[n] = sum[n]
      BY <3>1, <3>2, <3>3, <2>2, RouteAssumption
    <3> QED
      BY <3>2, <3>3, <3>4, SmallModulo, RouteAssumption
  <2>3. N \in P
    <3>1. \A n \in Nat : n \in P => n + 1 \in P
      BY <2>2
    <3> HIDE DEF P
    <3> QED
      BY <2>1, <3>1, NatSetInduction
  <2> QED
    BY <2>3, <1>1, <1>2
<1>5. ASSUME \A n \in 1 .. N : shown[n].weight <= 100
      PROVE  SumOfWeights(shown) <= 100 * N
  <2> DEFINE P == {n \in Nat : n <= N => sum[n] <= 100 * n}
  <2>1. 0 \in P
    BY <1>2
  <2>2. ASSUME NEW n \in Nat, n \in P PROVE n + 1 \in P
    <3> SUFFICES ASSUME n + 1 <= N PROVE sum[n + 1] <= 100 * (n + 1)
      OBVIOUS
    <3>1. n + 1 \in 1 .. N /\ (n + 1) - 1 = n /\ n \in 0 .. N
      OBVIOUS
    <3>2. /\ sum[n + 1] = sum[n] + shown[n + 1].weight
          /\ shown[n + 1].weight \in Nat /\ shown[n + 1].weight <= 100
      BY <3>1, <1>2, <1>5
    <3>3. sum[n] \in Nat /\ sum[n] <= 100 * n
      BY <3>1, <1>3, <2>2
    <3> QED
      BY <3>2, <3>3
  <2>3. N \in P
    <3>1. \A n \in Nat : n \in P => n + 1 \in P
      BY <2>2
    <3> HIDE DEF P
    <3> QED
      BY <2>1, <3>1, NatSetInduction
  <2> QED
    BY <2>3, <1>2
<1>6. SumOfWeights(shown) \in Nat
  BY <1>2, <1>3
<1> QED
  BY <1>4, <1>5, <1>6

-----------------------------------------------------------------------------
(* Lists. *)

(* Loops that begin alike and go on alike agree. *)
Alike(v, w, N) == v[0] = w[0] /\ \A n \in 1 .. N : v[n - 1] = w[n - 1] => v[n] = w[n]

(* Two loops with the same start and the same steps agree.                 *)
LEMMA LoopSame ==
  ASSUME NEW N \in Nat, NEW v, NEW w, Alike(v, w, N)
  PROVE  \A n \in 0 .. N : v[n] = w[n]
<1> DEFINE P == {n \in Nat : n <= N => v[n] = w[n]}
<1>1. 0 \in P
  BY DEF Alike
<1>2. ASSUME NEW n \in Nat, n \in P PROVE n + 1 \in P
  <2> SUFFICES ASSUME n + 1 <= N PROVE v[n + 1] = w[n + 1]
    OBVIOUS
  <2>1. n + 1 \in 1 .. N /\ (n + 1) - 1 = n /\ v[n] = w[n]
    BY <1>2
  <2> QED
    BY <2>1 DEF Alike
<1>3. \A n \in Nat : n \in P
  <2>1. \A n \in Nat : n \in P => n + 1 \in P
    BY <1>2
  <2> HIDE DEF P
  <2> QED
    BY <1>1, <2>1, NatSetInduction
<1> QED
  BY <1>3

(* Append, in the form that later proofs use.                              *)
LEMMA AppendIs ==
  ASSUME NEW T, NEW list \in Seq(T), NEW x \in T
  PROVE  /\ Append(list, x) \in Seq(T) /\ Len(list) \in Nat
         /\ Len(Append(list, x)) = Len(list) + 1
         /\ Append(list, x)[Len(list) + 1] = x
         /\ \A n \in 1 .. Len(list) : Append(list, x)[n] = list[n]
OBVIOUS

(* What holds of the empty list and goes on to hold when a list gets one   *)
(* more member holds of every list.                                        *)
LEMMA ListInduction ==
  ASSUME NEW T, NEW Good, <<>> \in Good,
         \A list \in Seq(T) : \A x \in T : list \in Good => Append(list, x) \in Good
  PROVE  \A list \in Seq(T) : list \in Good
<1> DEFINE P == {n \in Nat : \A list \in Seq(T) : Len(list) = n => list \in Good}
<1>1. 0 \in P
  <2>1. \A list \in Seq(T) : Len(list) = 0 => list = <<>>
    OBVIOUS
  <2> QED
    BY <2>1
<1>2. ASSUME NEW n \in Nat, n \in P PROVE n + 1 \in P
  <2> SUFFICES ASSUME NEW list \in Seq(T), Len(list) = n + 1 PROVE list \in Good
    OBVIOUS
  <2> DEFINE front == [k \in 1 .. n |-> list[k]]
  <2>1. front \in Seq(T) /\ Len(front) = n /\ list[n + 1] \in T
    <3>1. front \in [1 .. n -> T]
      OBVIOUS
    <3> QED
      BY <3>1
  <2>2. list = Append(front, list[n + 1])
    <3>1. Append(front, list[n + 1]) \in Seq(T) /\ Len(Append(front, list[n + 1])) = n + 1
      BY <2>1
    <3>2. \A k \in 1 .. n + 1 : Append(front, list[n + 1])[k] = list[k]
      BY <2>1
    <3> QED
      BY <3>1, <3>2, SeqEqual
  <2>3. front \in Good
    BY <1>2, <2>1
  <2> HIDE DEF front
  <2> QED
    BY <2>1, <2>2, <2>3
<1>3. \A n \in Nat : n \in P
  <2>1. \A n \in Nat : n \in P => n + 1 \in P
    BY <1>2
  <2> HIDE DEF P
  <2> QED
    BY <1>1, <2>1, NatSetInduction
<1> QED
  BY <1>3

(* Only, one member after the other. *)
Kept(w, list, set) ==
  /\ Only(list, set) = w[Len(list)]
  /\ w[0] = <<>>
  /\ \A n \in 1 .. Len(list) :
       w[n] = IF list[n] \in set THEN Append(w[n - 1], list[n]) ELSE w[n - 1]

(* The loop of Only, one member after the other.                           *)
LEMMA OnlyLoop ==
  ASSUME NEW T, NEW list \in Seq(T), NEW set
  PROVE  \E w : Kept(w, list, set)
<1> DEFINE N == Len(list)
           Body(g) == [n \in 0 .. N |-> IF n = 0 THEN <<>>
                                        ELSE IF list[n] \in set THEN Append(g[n - 1], list[n])
                                        ELSE g[n - 1]]
           step == [x \in Seq(T) \X (1 .. N) |->
                      IF list[x[2]] \in set THEN Append(x[1], list[x[2]]) ELSE x[1]]
           w == CHOOSE g : g = Body(g)
<1>1. Only(list, set) = w[N]
  BY DEF Only
<1>2. \E g : g = Body(g)
  <2>1. step \in Steps(N, Seq(T))
    BY DEF Steps
  <2>2. PICK f \in [0 .. N -> Seq(T)] : Loop(f, N, <<>>, step)
    <3>1. N \in Nat /\ <<>> \in Seq(T)
      OBVIOUS
    <3> HIDE DEF step, N
    <3> QED
      BY <3>1, <2>1, LoopExists
  <2>3. ASSUME NEW n \in 0 .. N PROVE f[n] = Body(f)[n]
    <3>1. CASE n = 0
      BY <3>1, <2>2 DEF Loop
    <3>2. CASE n # 0
      <4>1. n \in 1 .. N /\ f[n - 1] \in Seq(T)
        BY <3>2
      <4> QED
        BY <4>1, <2>2 DEF Loop
    <3> QED
      BY <3>1, <3>2
  <2>4. f = [n \in 0 .. N |-> f[n]] /\ Body(f) = [n \in 0 .. N |-> Body(f)[n]]
    OBVIOUS
  <2> HIDE DEF Body
  <2> QED
    BY <2>3, <2>4
<1>3. w = Body(w)
  <2> HIDE DEF Body
  <2> QED
    BY <1>2
<1> HIDE DEF w
<1>4. /\ w[0] = <<>>
      /\ \A n \in 1 .. N :
           w[n] = IF list[n] \in set THEN Append(w[n - 1], list[n]) ELSE w[n - 1]
  <2>1. \A n \in 0 .. N : w[n] = Body(w)[n]
    BY <1>3
  <2>2. 0 \in 0 .. N /\ \A n \in 1 .. N : n \in 0 .. N /\ n # 0
    OBVIOUS
  <2>3. w[0] = <<>>
    BY <2>1, <2>2
  <2>4. ASSUME NEW n \in 1 .. N
        PROVE  w[n] = IF list[n] \in set THEN Append(w[n - 1], list[n]) ELSE w[n - 1]
    BY <2>1, <2>2
  <2> QED
    BY <2>3, <2>4
<1> QED
  BY <1>1, <1>4 DEF Kept

LEMMA OnlyEmpty == \A set : Only(<<>>, set) = <<>>
<1> SUFFICES ASSUME NEW set PROVE Only(<<>>, set) = <<>>
  OBVIOUS
<1> DEFINE list == <<>>
<1>0. PICK T : T = {}
  OBVIOUS
<1>1. list \in Seq(T) /\ Len(list) = 0
  OBVIOUS
<1> HIDE DEF list
<1>2. PICK w : Kept(w, list, set)
  BY <1>1, OnlyLoop
<1> QED
  BY <1>1, <1>2 DEF list, Kept

(* Only takes a new last member if and only if it is in the set.           *)
LEMMA OnlyAppend ==
  ASSUME NEW T, NEW list \in Seq(T), NEW x \in T, NEW set
  PROVE  Only(Append(list, x), set) =
           IF x \in set THEN Append(Only(list, set), x) ELSE Only(list, set)
<1> DEFINE N == Len(list)
           more == Append(list, x)
<1>1. /\ more \in Seq(T) /\ N \in Nat /\ Len(more) = N + 1 /\ more[N + 1] = x
      /\ \A n \in 1 .. N : more[n] = list[n]
  BY AppendIs
<1> HIDE DEF more
<1>2. PICK v : Kept(v, list, set)
  BY OnlyLoop
<1>3. PICK w : Kept(w, more, set)
  BY <1>1, OnlyLoop
<1>4. v[N] = w[N]
  <2>1. Alike(v, w, N)
    <3>1. v[0] = w[0]
      BY <1>2, <1>3 DEF Kept
    <3>2. ASSUME NEW n \in 1 .. N, v[n - 1] = w[n - 1] PROVE v[n] = w[n]
      <4>1. n \in 1 .. Len(more) /\ more[n] = list[n]
        BY <1>1
      <4> QED
        BY <4>1, <3>2, <1>2, <1>3 DEF Kept
    <3> QED
      BY <3>1, <3>2 DEF Alike
  <2>2. N \in 0 .. N
    BY <1>1
  <2> HIDE DEF N
  <2> QED
    BY <1>1, <2>1, <2>2, LoopSame
<1>5. w[N + 1] = IF x \in set THEN Append(w[N], x) ELSE w[N]
  BY <1>1, <1>3 DEF Kept
<1>6. Only(list, set) = v[N] /\ Only(more, set) = w[N + 1]
  BY <1>1, <1>2, <1>3 DEF Kept
<1> QED
  BY <1>4, <1>5, <1>6 DEF more

LEMMA ToSetEmpty == ToSet(<<>>) = {}
BY DEF ToSet

LEMMA ToSetAppend ==
  ASSUME NEW T, NEW list \in Seq(T), NEW x \in T
  PROVE  ToSet(Append(list, x)) = ToSet(list) \cup {x}
<1> DEFINE N == Len(list)
           more == Append(list, x)
<1>1. /\ more \in Seq(T) /\ N \in Nat /\ Len(more) = N + 1 /\ more[N + 1] = x
      /\ \A n \in 1 .. N : more[n] = list[n]
  BY AppendIs
<1>2. DOMAIN list = 1 .. N /\ DOMAIN more = 1 .. N + 1
  BY <1>1
<1> HIDE DEF more, N
<1>3. \A y \in ToSet(more) : y \in ToSet(list) \cup {x}
  BY <1>1, <1>2 DEF ToSet
<1>4. \A y \in ToSet(list) : y \in ToSet(more)
  BY <1>1, <1>2 DEF ToSet
<1>5. x \in ToSet(more)
  BY <1>1, <1>2 DEF ToSet
<1> QED
  BY <1>3, <1>4, <1>5 DEF more

(* The members that Only keeps. *)
LEMMA OnlyMembers ==
  ASSUME NEW T, NEW list \in Seq(T), NEW set
  PROVE  Only(list, set) \in Seq(T) /\ ToSet(Only(list, set)) = ToSet(list) \cap set
<1> DEFINE Good == {l \in Seq(T) : /\ Only(l, set) \in Seq(T)
                                   /\ ToSet(Only(l, set)) = ToSet(l) \cap set}
<1>1. <<>> \in Good
  <2>1. Only(<<>>, set) = <<>> /\ ToSet(<<>>) = {}
    BY OnlyEmpty, ToSetEmpty
  <2>2. <<>> \in Seq(T)
    OBVIOUS
  <2>3. ToSet(Only(<<>>, set)) = ToSet(<<>>) \cap set
    BY <2>1
  <2> QED
    BY <2>1, <2>2, <2>3
<1>2. ASSUME NEW l \in Seq(T), NEW x \in T, l \in Good PROVE Append(l, x) \in Good
  <2>1. Append(l, x) \in Seq(T) /\ ToSet(Append(l, x)) = ToSet(l) \cup {x}
    BY AppendIs, ToSetAppend
  <2>2. Only(l, set) \in Seq(T) /\ ToSet(Only(l, set)) = ToSet(l) \cap set
    BY <1>2
  <2>3. CASE x \in set
    <3>1. Only(Append(l, x), set) = Append(Only(l, set), x)
      BY <2>3, OnlyAppend
    <3>2. /\ Append(Only(l, set), x) \in Seq(T)
          /\ ToSet(Append(Only(l, set), x)) = ToSet(Only(l, set)) \cup {x}
      BY <2>2, AppendIs, ToSetAppend
    <3> QED
      BY <2>1, <2>2, <2>3, <3>1, <3>2
  <2>4. CASE x \notin set
    <3>1. Only(Append(l, x), set) = Only(l, set)
      BY <2>4, OnlyAppend
    <3> QED
      BY <2>1, <2>2, <2>4, <3>1
  <2> QED
    BY <2>3, <2>4
<1>3. \A l \in Seq(T) : l \in Good
  <2>1. \A l \in Seq(T) : \A x \in T : l \in Good => Append(l, x) \in Good
    BY <1>2
  <2> HIDE DEF Good
  <2> QED
    BY <1>1, <2>1, ListInduction
<1> QED
  BY <1>3

(* What Only keeps depends on the members of the list alone. *)
LEMMA OnlySame ==
  ASSUME NEW T, NEW list \in Seq(T), NEW R, NEW S, ToSet(list) \cap R = ToSet(list) \cap S
  PROVE  Only(list, R) = Only(list, S)
<1> DEFINE Good == {l \in Seq(T) :
                      ToSet(l) \cap R = ToSet(l) \cap S => Only(l, R) = Only(l, S)}
<1>1. <<>> \in Good
  BY OnlyEmpty
<1>2. ASSUME NEW l \in Seq(T), NEW x \in T, l \in Good PROVE Append(l, x) \in Good
  <2>1. Append(l, x) \in Seq(T) /\ ToSet(Append(l, x)) = ToSet(l) \cup {x}
    BY AppendIs, ToSetAppend
  <2> SUFFICES ASSUME (ToSet(l) \cup {x}) \cap R = (ToSet(l) \cup {x}) \cap S
               PROVE  Only(Append(l, x), R) = Only(Append(l, x), S)
    BY <2>1
  <2>2. ToSet(l) \cap R = ToSet(l) \cap S /\ (x \in R <=> x \in S)
    OBVIOUS
  <2>3. Only(l, R) = Only(l, S)
    BY <1>2, <2>2
  <2>4. /\ Only(Append(l, x), R) = IF x \in R THEN Append(Only(l, R), x) ELSE Only(l, R)
        /\ Only(Append(l, x), S) = IF x \in S THEN Append(Only(l, S), x) ELSE Only(l, S)
    BY OnlyAppend
  <2> QED
    BY <2>2, <2>3, <2>4
<1>3. \A l \in Seq(T) : l \in Good
  <2>1. \A l \in Seq(T) : \A x \in T : l \in Good => Append(l, x) \in Good
    BY <1>2
  <2> HIDE DEF Good
  <2> QED
    BY <1>1, <2>1, ListInduction
<1> QED
  BY <1>3

(* Selecting twice is selecting what both keep.                            *)
LEMMA OnlyOnly ==
  ASSUME NEW T, NEW list \in Seq(T), NEW R, NEW S
  PROVE  Only(Only(list, R), S) = Only(list, R \cap S)
<1> DEFINE Good == {l \in Seq(T) : Only(Only(l, R), S) = Only(l, R \cap S)}
<1>1. <<>> \in Good
  BY OnlyEmpty
<1>2. ASSUME NEW l \in Seq(T), NEW x \in T, l \in Good PROVE Append(l, x) \in Good
  <2>1. Append(l, x) \in Seq(T) /\ Only(l, R) \in Seq(T)
    BY AppendIs, OnlyMembers
  <2>2. /\ Only(Append(l, x), R) = IF x \in R THEN Append(Only(l, R), x) ELSE Only(l, R)
        /\ Only(Append(l, x), R \cap S) =
             IF x \in R \cap S THEN Append(Only(l, R \cap S), x) ELSE Only(l, R \cap S)
        /\ Only(Append(Only(l, R), x), S) =
             IF x \in S THEN Append(Only(Only(l, R), S), x) ELSE Only(Only(l, R), S)
    BY <2>1, OnlyAppend
  <2>3. Only(Only(l, R), S) = Only(l, R \cap S)
    BY <1>2
  <2>4. Only(Only(Append(l, x), R), S) = Only(Append(l, x), R \cap S)
    <3>1. CASE x \in R
      <4>1. Only(Only(Append(l, x), R), S) =
              IF x \in S THEN Append(Only(l, R \cap S), x) ELSE Only(l, R \cap S)
        BY <3>1, <2>2, <2>3
      <4>2. x \in R \cap S <=> x \in S
        BY <3>1
      <4> QED
        BY <4>1, <4>2, <2>2
    <3>2. CASE x \notin R
      BY <3>2, <2>2, <2>3
    <3> QED
      BY <3>1, <3>2
  <2> QED
    BY <2>1, <2>4
<1>3. \A l \in Seq(T) : l \in Good
  <2>1. \A l \in Seq(T) : \A x \in T : l \in Good => Append(l, x) \in Good
    BY <1>2
  <2> HIDE DEF Good
  <2> QED
    BY <1>1, <2>1, ListInduction
<1> QED
  BY <1>3

-----------------------------------------------------------------------------
(* Groups.                                                                 *)

(* Go maps from keys to lists. *)
Maps(T, K) == UNION {[D -> Seq(T)] : D \in SUBSET K}

(* Enter returns a map like the one it was given.                          *)
LEMMA EnterTyped ==
  ASSUME NEW T, NEW K, NEW m \in Maps(T, K), NEW v \in K, NEW x \in T
  PROVE  Enter(m, v, x) \in Maps(T, K)
<1>1. PICK D \in SUBSET K : m \in [D -> Seq(T)]
  BY DEF Maps
<1>2. DOMAIN m = D /\ D \cup {v} \in SUBSET K
  BY <1>1
<1>3. ASSUME NEW k \in D \cup {v}
      PROVE  (IF k # v THEN m[k] ELSE IF v \in D THEN Append(m[v], x) ELSE <<x>>) \in Seq(T)
  <2>1. CASE k # v
    BY <2>1, <1>1
  <2>2. CASE k = v /\ v \in D
    BY <2>2, <1>1, AppendIs
  <2>3. CASE k = v /\ v \notin D
    BY <2>3
  <2> QED
    BY <2>1, <2>2, <2>3
<1>4. Enter(m, v, x) \in [D \cup {v} -> Seq(T)]
  BY <1>2, <1>3 DEF Enter
<1> QED
  BY <1>2, <1>4 DEF Maps

(* GroupBy, one member after the other. *)
Grouped(w, list, key) ==
  /\ GroupBy(list, key) = w[Len(list)]
  /\ w[0] = <<>>
  /\ \A n \in 1 .. Len(list) : w[n] = Enter(w[n - 1], list[n][key], list[n])

(* The loop of instancesByRegion and instancesByZone.                      *)
LEMMA GroupByLoop ==
  ASSUME NEW T, NEW list \in Seq(T), NEW key
  PROVE  \E w : Grouped(w, list, key)
<1> DEFINE N == Len(list)
           K == {x[key] : x \in T}
           S == Maps(T, K)
           Body(g) == [n \in 0 .. N |-> IF n = 0 THEN <<>>
                                        ELSE Enter(g[n - 1], list[n][key], list[n])]
           step == [x \in S \X (1 .. N) |-> Enter(x[1], list[x[2]][key], list[x[2]])]
           w == CHOOSE g : g = Body(g)
<1>1. GroupBy(list, key) = w[N]
  BY DEF GroupBy
<1>2. \E g : g = Body(g)
  <2>1. step \in Steps(N, S)
    <3>1. ASSUME NEW m \in S, NEW n \in 1 .. N
          PROVE  Enter(m, list[n][key], list[n]) \in S
      <4>1. list[n] \in T /\ list[n][key] \in K
        OBVIOUS
      <4> HIDE DEF K
      <4> QED
        BY <4>1, EnterTyped
    <3> HIDE DEF S
    <3> QED
      BY <3>1 DEF Steps
  <2>2. PICK f \in [0 .. N -> S] : Loop(f, N, <<>>, step)
    <3>1. <<>> \in S
      <4>1. <<>> \in [{} -> Seq(T)]
        OBVIOUS
      <4> QED
        BY <4>1 DEF Maps
    <3>2. N \in Nat
      OBVIOUS
    <3> HIDE DEF step, N, S
    <3> QED
      BY <3>1, <3>2, <2>1, LoopExists
  <2> HIDE DEF S
  <2>3. ASSUME NEW n \in 0 .. N PROVE f[n] = Body(f)[n]
    <3>1. CASE n = 0
      BY <3>1, <2>2 DEF Loop
    <3>2. CASE n # 0
      <4>1. n \in 1 .. N /\ f[n - 1] \in S
        BY <3>2
      <4> QED
        BY <4>1, <2>2 DEF Loop
    <3> QED
      BY <3>1, <3>2
  <2>4. f = [n \in 0 .. N |-> f[n]] /\ Body(f) = [n \in 0 .. N |-> Body(f)[n]]
    OBVIOUS
  <2> HIDE DEF Body
  <2> QED
    BY <2>3, <2>4
<1>3. w = Body(w)
  <2> HIDE DEF Body
  <2> QED
    BY <1>2
<1> HIDE DEF w
<1>4. /\ w[0] = <<>>
      /\ \A n \in 1 .. N : w[n] = Enter(w[n - 1], list[n][key], list[n])
  <2>1. \A n \in 0 .. N : w[n] = Body(w)[n]
    BY <1>3
  <2>2. 0 \in 0 .. N /\ \A n \in 1 .. N : n \in 0 .. N /\ n # 0
    OBVIOUS
  <2>3. w[0] = <<>>
    BY <2>1, <2>2
  <2>4. ASSUME NEW n \in 1 .. N PROVE w[n] = Enter(w[n - 1], list[n][key], list[n])
    BY <2>1, <2>2
  <2> QED
    BY <2>3, <2>4
<1> QED
  BY <1>1, <1>4 DEF Grouped

LEMMA GroupByEmpty == \A key : GroupBy(<<>>, key) = <<>>
<1> SUFFICES ASSUME NEW key PROVE GroupBy(<<>>, key) = <<>>
  OBVIOUS
<1> DEFINE list == <<>>
<1>0. PICK T : T = {}
  OBVIOUS
<1>1. list \in Seq(T) /\ Len(list) = 0
  OBVIOUS
<1> HIDE DEF list
<1>2. PICK w : Grouped(w, list, key)
  BY <1>1, GroupByLoop
<1> QED
  BY <1>1, <1>2 DEF list, Grouped

(* A new last member is entered under its key.                             *)
LEMMA GroupByAppend ==
  ASSUME NEW T, NEW list \in Seq(T), NEW x \in T, NEW key
  PROVE  GroupBy(Append(list, x), key) = Enter(GroupBy(list, key), x[key], x)
<1> DEFINE N == Len(list)
           more == Append(list, x)
<1>1. /\ more \in Seq(T) /\ N \in Nat /\ Len(more) = N + 1 /\ more[N + 1] = x
      /\ \A n \in 1 .. N : more[n] = list[n]
  BY AppendIs
<1> HIDE DEF more
<1>2. PICK v : Grouped(v, list, key)
  BY GroupByLoop
<1>3. PICK w : Grouped(w, more, key)
  BY <1>1, GroupByLoop
<1>4. v[N] = w[N]
  <2>1. Alike(v, w, N)
    <3>1. v[0] = w[0]
      BY <1>2, <1>3 DEF Grouped
    <3>2. ASSUME NEW n \in 1 .. N, v[n - 1] = w[n - 1] PROVE v[n] = w[n]
      <4>1. n \in 1 .. Len(more) /\ more[n] = list[n]
        BY <1>1
      <4> QED
        BY <4>1, <3>2, <1>2, <1>3 DEF Grouped
    <3> QED
      BY <3>1, <3>2 DEF Alike
  <2>2. N \in 0 .. N
    BY <1>1
  <2> HIDE DEF N
  <2> QED
    BY <1>1, <2>1, <2>2, LoopSame
<1>5. w[N + 1] = Enter(w[N], x[key], x)
  BY <1>1, <1>3 DEF Grouped
<1>6. GroupBy(list, key) = v[N] /\ GroupBy(more, key) = w[N + 1]
  BY <1>1, <1>2, <1>3 DEF Grouped
<1> QED
  BY <1>4, <1>5, <1>6 DEF more

Keys(list, key) == {x[key] : x \in ToSet(list)}
Having(T, key, v) == {x \in T : x[key] = v}

(* GroupBy has an entry for every key that occurs, and under it the members *)
(* with that key in their order.                                           *)
LEMMA GroupByIs ==
  ASSUME NEW T, NEW list \in Seq(T), NEW key
  PROVE  /\ DOMAIN GroupBy(list, key) = Keys(list, key)
         /\ \A v \in Keys(list, key) : GroupBy(list, key)[v] = Only(list, Having(T, key, v))
<1> DEFINE With(v) == {x \in T : x[key] = v}
           Good == {l \in Seq(T) :
                      /\ DOMAIN GroupBy(l, key) = {x[key] : x \in ToSet(l)}
                      /\ \A v \in DOMAIN GroupBy(l, key) :
                           GroupBy(l, key)[v] = Only(l, With(v))}
<1>1. <<>> \in Good
  <2>1. GroupBy(<<>>, key) = <<>> /\ ToSet(<<>>) = {}
    BY GroupByEmpty, ToSetEmpty
  <2>2. DOMAIN <<>> = {}
    OBVIOUS
  <2> HIDE DEF With
  <2>3. <<>> \in Seq(T)
    OBVIOUS
  <2> QED
    BY <2>1, <2>2, <2>3
<1>2. ASSUME NEW l \in Seq(T), NEW x \in T, l \in Good PROVE Append(l, x) \in Good
  <2> DEFINE m == GroupBy(l, key)
             v == x[key]
             new == GroupBy(Append(l, x), key)
  <2>1. Append(l, x) \in Seq(T) /\ ToSet(Append(l, x)) = ToSet(l) \cup {x}
    BY AppendIs, ToSetAppend
  <2>2. new = Enter(m, v, x)
    BY GroupByAppend
  <2>3. DOMAIN m = {y[key] : y \in ToSet(l)} /\ \A k \in DOMAIN m : m[k] = Only(l, With(k))
    BY <1>2
  <2> HIDE DEF m, new
  <2>4. DOMAIN new = DOMAIN m \cup {v}
    BY <2>2 DEF Enter
  <2>5. DOMAIN new = {y[key] : y \in ToSet(Append(l, x))}
    BY <2>1, <2>3, <2>4
  <2>6. ASSUME NEW k \in DOMAIN new PROVE new[k] = Only(Append(l, x), With(k))
    <3>1. Only(Append(l, x), With(k)) =
            IF x \in With(k) THEN Append(Only(l, With(k)), x) ELSE Only(l, With(k))
      BY OnlyAppend
    <3>2. new[k] = IF k # v THEN m[k] ELSE IF v \in DOMAIN m THEN Append(m[v], x) ELSE <<x>>
      BY <2>2, <2>4 DEF Enter
    <3>3. CASE k # v
      <4>1. x \notin With(k) /\ k \in DOMAIN m
        BY <3>3, <2>4
      <4> QED
        BY <4>1, <3>1, <3>2, <3>3, <2>3
    <3>4. CASE k = v /\ v \in DOMAIN m
      <4>1. x \in With(k)
        BY <3>4
      <4> QED
        BY <4>1, <3>1, <3>2, <3>4, <2>3
    <3>5. CASE k = v /\ v \notin DOMAIN m
      <4>1. x \in With(k)
        BY <3>5
      <4>2. ToSet(l) \cap With(k) = {}
        BY <3>5, <2>3
      <4> HIDE DEF With
      <4>3. Only(l, With(k)) \in Seq(T) /\ ToSet(Only(l, With(k))) = {}
        BY <4>2, OnlyMembers
      <4>4. Only(l, With(k)) = <<>>
        <5>1. ASSUME NEW s \in Seq(T), ToSet(s) = {} PROVE s = <<>>
          <6>1. DOMAIN s = {}
            BY <5>1 DEF ToSet
          <6> QED
            BY <6>1
        <5> QED
          BY <5>1, <4>3
      <4>5. Append(<<>>, x) = <<x>>
        OBVIOUS
      <4> QED
        BY <4>1, <4>4, <4>5, <3>1, <3>2, <3>5
    <3> QED
      BY <3>3, <3>4, <3>5
  <2> HIDE DEF With
  <2> QED
    BY <2>1, <2>5, <2>6 DEF new
<1>3. \A l \in Seq(T) : l \in Good
  <2>1. \A l \in Seq(T) : \A x \in T : l \in Good => Append(l, x) \in Good
    BY <1>2
  <2> HIDE DEF Good
  <2> QED
    BY <1>1, <2>1, ListInduction
<1> QED
  BY <1>3 DEF Keys, Having

-----------------------------------------------------------------------------
(* Sorting. *)

Sorts(p, numbers, N) == \A j, k \in 1 .. N : j <= k => numbers[p[j]] <= numbers[p[k]]

(* The last number is put in front of the first one that is larger. *)
LEMMA InsertSorts ==
  ASSUME NEW N \in Nat, NEW numbers \in [1 .. N + 1 -> Nat],
         NEW p \in Bijection(1 .. N, 1 .. N), Sorts(p, numbers, N)
  PROVE  \E q \in Bijection(1 .. N + 1, 1 .. N + 1) : Sorts(q, numbers, N + 1)
<1> DEFINE x == numbers[N + 1]
           Larger == {j \in 1 .. N + 1 : j = N + 1 \/ numbers[p[j]] > x}
           i == Min(Larger)
           q == [k \in 1 .. N + 1 |-> IF k < i THEN p[k] ELSE IF k = i THEN N + 1 ELSE p[k - 1]]
<1>1. /\ p \in [1 .. N -> 1 .. N]
      /\ \A a, b \in 1 .. N : p[a] = p[b] => a = b
      /\ \A t \in 1 .. N : \E a \in 1 .. N : p[a] = t
  BY DEF Bijection, Injection, Surjection, IsInjective
<1>8. x \in Nat /\ \A a \in 1 .. N : numbers[p[a]] \in Nat
  <2>1. x \in Nat
    OBVIOUS
  <2>2. ASSUME NEW a \in 1 .. N PROVE numbers[p[a]] \in Nat
    <3>1. p[a] \in 1 .. N
      BY <1>1
    <3>2. p[a] \in 1 .. N + 1
      BY <3>1
    <3> QED
      BY <3>2
  <2> QED
    BY <2>1, <2>2
<1>2. i \in Larger /\ \A j \in Larger : i <= j
  <2>1. Larger \in SUBSET Nat /\ N + 1 \in Larger
    OBVIOUS
  <2> HIDE DEF Larger
  <2> QED
    BY <2>1, MinIs
<1>3. /\ i \in 1 .. N + 1
      /\ i = N + 1 \/ numbers[p[i]] > x
      /\ \A k \in 1 .. N + 1 : k < i => numbers[p[k]] <= x
  <2>1. i \in 1 .. N + 1 /\ (i = N + 1 \/ numbers[p[i]] > x)
    BY <1>2
  <2>2. ASSUME NEW k \in 1 .. N + 1, k < i PROVE numbers[p[k]] <= x
    <3>0. k \notin Larger
      <4> HIDE DEF Larger
      <4> QED
        BY <2>1, <2>2, <1>2
    <3>1. k # N + 1 /\ ~ (numbers[p[k]] > x)
      BY <3>0
    <3>3. k \in 1 .. N
      BY <3>1, <2>2
    <3>2. numbers[p[k]] \in Nat /\ x \in Nat
      BY <3>3, <1>8
    <3> QED
      BY <3>1, <3>2
  <2> QED
    BY <2>1, <2>2
<1> HIDE DEF i
<1>0. \A a, b \in 1 .. N : a <= b => numbers[p[a]] <= numbers[p[b]]
  BY DEF Sorts
<1>4. \A k \in 1 .. N + 1 : /\ k < i => k \in 1 .. N /\ q[k] = p[k]
                            /\ k = i => q[k] = N + 1
                            /\ k > i => k - 1 \in 1 .. N /\ q[k] = p[k - 1]
  BY <1>3
<1>5. q \in Bijection(1 .. N + 1, 1 .. N + 1)
  <2>1. ASSUME NEW k \in 1 .. N + 1 PROVE q[k] \in 1 .. N + 1
    <3> HIDE DEF q
    <3>1. CASE k < i
      <4>1. k \in 1 .. N /\ q[k] = p[k]
        BY <3>1, <1>4
      <4>2. p[k] \in 1 .. N
        BY <4>1, <1>1
      <4> QED
        BY <4>1, <4>2
    <3>2. CASE k = i
      BY <3>2, <1>4
    <3>3. CASE k > i
      <4>1. k - 1 \in 1 .. N /\ q[k] = p[k - 1]
        BY <3>3, <1>4
      <4>2. p[k - 1] \in 1 .. N
        BY <4>1, <1>1
      <4> QED
        BY <4>1, <4>2
    <3> QED
      BY <3>1, <3>2, <3>3, <1>3
  <2>2. q \in [1 .. N + 1 -> 1 .. N + 1]
    BY <2>1
  <2> HIDE DEF q
  <2>3. ASSUME NEW a \in 1 .. N + 1, NEW b \in 1 .. N + 1, q[a] = q[b] PROVE a = b
    <3>1. CASE a = i
      BY <3>1, <2>3, <1>1, <1>3, <1>4
    <3>2. CASE b = i
      BY <3>2, <2>3, <1>1, <1>3, <1>4
    <3>3. CASE a # i /\ b # i
      <4> DEFINE c == IF a < i THEN a ELSE a - 1
                 d == IF b < i THEN b ELSE b - 1
      <4>1. c \in 1 .. N /\ d \in 1 .. N /\ q[a] = p[c] /\ q[b] = p[d]
        BY <3>3, <1>3, <1>4
      <4>2. c = d
        BY <4>1, <2>3, <1>1
      <4> QED
        BY <4>2, <3>3, <1>3
    <3> QED
      BY <3>1, <3>2, <3>3
  <2>4. ASSUME NEW t \in 1 .. N + 1 PROVE \E k \in 1 .. N + 1 : q[k] = t
    <3>1. CASE t = N + 1
      BY <3>1, <1>3, <1>4
    <3>2. CASE t # N + 1
      <4>1. PICK a \in 1 .. N : p[a] = t
        BY <3>2, <1>1
      <4>2. CASE a < i
        BY <4>1, <4>2, <1>4
      <4>3. CASE ~ (a < i)
        <5>1. a + 1 \in 1 .. N + 1 /\ a + 1 > i /\ (a + 1) - 1 = a
          BY <4>3, <1>3
        <5> QED
          BY <5>1, <4>1, <1>4
      <4> QED
        BY <4>2, <4>3
    <3> QED
      BY <3>1, <3>2
  <2> QED
    BY <2>2, <2>3, <2>4 DEF Bijection, Injection, Surjection, IsInjective
<1> HIDE DEF q
<1>6. \A k \in 1 .. N + 1 : /\ k < i => numbers[q[k]] <= x
                            /\ k = i => numbers[q[k]] = x
                            /\ k > i => numbers[q[k]] > x
  <2>1. \A k \in 1 .. N + 1 : (k < i => numbers[q[k]] <= x) /\ (k = i => numbers[q[k]] = x)
    BY <1>3, <1>4
  <2>2. ASSUME NEW k \in 1 .. N + 1, k > i PROVE numbers[q[k]] > x
    <3>1. k - 1 \in 1 .. N /\ i \in 1 .. N /\ i <= k - 1 /\ q[k] = p[k - 1]
      BY <2>2, <1>3, <1>4
    <3>2. numbers[p[i]] <= numbers[p[k - 1]]
      BY <3>1, <1>0
    <3>4. numbers[p[i]] > x
      BY <3>1, <1>3
    <3>3. numbers[p[i]] \in Nat /\ numbers[p[k - 1]] \in Nat /\ x \in Nat
      BY <3>1, <1>8
    <3> QED
      BY <3>1, <3>2, <3>3, <3>4
  <2> QED
    BY <2>1, <2>2
<1>7. ASSUME NEW j \in 1 .. N + 1, NEW k \in 1 .. N + 1, j <= k
      PROVE  numbers[q[j]] <= numbers[q[k]]
  <2>0. numbers[q[j]] \in Nat /\ numbers[q[k]] \in Nat /\ x \in Nat
    <3>1. q[j] \in 1 .. N + 1 /\ q[k] \in 1 .. N + 1
      BY <1>5 DEF Bijection, Injection
    <3> QED
      BY <3>1
  <2>1. CASE j <= i /\ i <= k
    <3>1. numbers[q[j]] <= x /\ x <= numbers[q[k]]
      BY <2>0, <2>1, <1>3, <1>6
    <3> QED
      BY <2>0, <3>1
  <2>2. CASE k < i
    <3>0. j < i
      BY <2>2, <1>3, <1>7
    <3>1. j \in 1 .. N /\ k \in 1 .. N /\ q[j] = p[j] /\ q[k] = p[k]
      BY <2>2, <3>0, <1>4
    <3> QED
      BY <3>1, <1>0, <1>7
  <2>3. CASE j > i
    <3>1. j - 1 \in 1 .. N /\ k - 1 \in 1 .. N /\ q[j] = p[j - 1] /\ q[k] = p[k - 1]
      BY <2>3, <1>3, <1>4, <1>7
    <3> QED
      BY <3>1, <1>0, <1>7
  <2> QED
    BY <2>1, <2>2, <2>3, <1>3, <1>7
<1> QED
  BY <1>5, <1>7 DEF Sorts

(* Every list of numbers can be sorted.                                    *)
LEMMA SortExists ==
  ASSUME NEW N \in Nat, NEW numbers \in [1 .. N -> Nat]
  PROVE  \E p \in Bijection(1 .. N, 1 .. N) : Sorts(p, numbers, N)
<1> DEFINE P == {n \in Nat : \A f \in [1 .. n -> Nat] :
                               \E p \in Bijection(1 .. n, 1 .. n) : Sorts(p, f, n)}
<1>1. 0 \in P
  <2>1. [k \in 1 .. 0 |-> 0] \in Bijection(1 .. 0, 1 .. 0)
    BY DEF Bijection, Injection, Surjection, IsInjective
  <2> QED
    BY <2>1 DEF Sorts
<1>2. ASSUME NEW n \in Nat, n \in P PROVE n + 1 \in P
  <2> SUFFICES ASSUME NEW f \in [1 .. n + 1 -> Nat]
               PROVE  \E q \in Bijection(1 .. n + 1, 1 .. n + 1) : Sorts(q, f, n + 1)
    OBVIOUS
  <2> DEFINE g == [k \in 1 .. n |-> f[k]]
  <2>1. g \in [1 .. n -> Nat]
    OBVIOUS
  <2>2. PICK p \in Bijection(1 .. n, 1 .. n) : Sorts(p, g, n)
    BY <1>2, <2>1
  <2>3. \A k \in 1 .. n : p[k] \in 1 .. n
    BY DEF Bijection, Injection
  <2>4. Sorts(p, f, n)
    BY <2>2, <2>3 DEF Sorts
  <2> QED
    BY <2>4, InsertSorts
<1>3. N \in P
  <2>1. \A n \in Nat : n \in P => n + 1 \in P
    BY <1>2
  <2> HIDE DEF P
  <2> QED
    BY <1>1, <2>1, NatSetInduction
<1> QED
  BY <1>3

(* Sorted puts the same numbers in order. *)
LEMMA SortedIs ==
  ASSUME NEW N \in Nat, NEW numbers \in [1 .. N -> Nat]
  PROVE  /\ Sorted(numbers) \in [1 .. N -> Nat]
         /\ \A j, k \in 1 .. N : j <= k => Sorted(numbers)[j] <= Sorted(numbers)[k]
         /\ \A k \in 1 .. N : \E j \in 1 .. N : Sorted(numbers)[k] = numbers[j]
         /\ \A j \in 1 .. N : \E k \in 1 .. N : Sorted(numbers)[k] = numbers[j]
<1> DEFINE Order(p) == [k \in 1 .. N |-> numbers[p[k]]]
           orders == {Order(p) : p \in Bijection(1 .. N, 1 .. N)}
           Up(s) == \A j, k \in DOMAIN s : j <= k => s[j] <= s[k]
           s == CHOOSE s \in orders : Up(s)
<1>1. Sorted(numbers) = s
  <2>1. DOMAIN numbers = 1 .. N
    OBVIOUS
  <2> QED
    BY <2>1 DEF Sorted
<1>2. \E t \in orders : Up(t)
  <2>1. PICK p \in Bijection(1 .. N, 1 .. N) : Sorts(p, numbers, N)
    BY SortExists
  <2>2. Up(Order(p))
    BY <2>1 DEF Sorts
  <2> HIDE DEF Order, Up
  <2> QED
    BY <2>2
<1>3. s \in orders /\ Up(s)
  <2> HIDE DEF orders, Up
  <2> QED
    BY <1>2
<1>4. PICK p \in Bijection(1 .. N, 1 .. N) : s = Order(p)
  BY <1>3
<1>5. /\ p \in [1 .. N -> 1 .. N]
      /\ \A j \in 1 .. N : \E k \in 1 .. N : p[k] = j
  BY DEF Bijection, Injection, Surjection
<1> HIDE DEF s
<1>6. s \in [1 .. N -> Nat] /\ \A k \in 1 .. N : s[k] = numbers[p[k]]
  BY <1>4, <1>5
<1>7. \A k \in 1 .. N : \E j \in 1 .. N : s[k] = numbers[j]
  BY <1>5, <1>6
<1>8. \A j \in 1 .. N : \E k \in 1 .. N : s[k] = numbers[j]
  BY <1>5, <1>6
<1> QED
  BY <1>1, <1>3, <1>6, <1>7, <1>8

=============================================================================

------------------------------- MODULE Recursion -------------------------------
(***************************************************************************)
(* Induction and recursion over data, stated with sets and functions only, *)
(* so that the provers can apply them: what holds of zero and of the       *)
(* successor holds of every number, and what is defined in terms of        *)
(* smaller arguments exists.                                               *)
(***************************************************************************)
EXTENDS Integers, Sequences, SequencesExt, FiniteSetsExt, WellFoundedInduction, TLAPS

NatLess == {ss \in Nat \X Nat : ss[1] < ss[2]}

(* A set of numbers that is not empty has a least element. *)
LEMMA NatLeast ==
  ASSUME NEW T \in SUBSET Nat, T # {}
  PROVE  \E x \in T : \A y \in T : x <= y
<1>1. IsWellFoundedOn(NatLess, Nat)
  <2>1. OpToRel(<, Nat) = NatLess
    BY DEF OpToRel, NatLess
  <2>. QED BY <2>1, NatLessThanWellFounded
<1>2. PICK x \in T : \A y \in T : ~(<<y, x>> \in NatLess)
  BY <1>1, WFMin
<1>3. ASSUME NEW y \in Nat, NEW z \in Nat, y < z PROVE <<y, z>> \in NatLess
  BY <1>3 DEF NatLess
<1>4. \A y \in T : ~(y < x)
  BY <1>2, <1>3
<1>. QED BY <1>2, <1>4, SMT

(* A set with zero and with the successor of each of its numbers has them all. *)
LEMMA NatAll ==
  ASSUME NEW T, 0 \in T, \A n \in Nat : n \in T => n + 1 \in T
  PROVE  Nat \subseteq T
<1>. SUFFICES ASSUME Nat \ T # {} PROVE FALSE
  OBVIOUS
<1>1. PICK x \in Nat \ T : \A y \in Nat \ T : x <= y
  BY NatLeast
<1>2. x # 0 /\ x - 1 \in Nat /\ x - 1 \in T
  BY <1>1
<1>. QED BY <1>1, <1>2

(* Min of a set of numbers is its least element. *)
LEMMA MinFacts ==
  ASSUME NEW T \in SUBSET Nat, T # {}
  PROVE  Min(T) \in T /\ \A y \in T : Min(T) <= y
BY NatLeast DEF Min

(* What holds of each argument as soon as it holds of the smaller ones, by a measure m,
   holds of all. *)
LEMMA MeasureInduction ==
  ASSUME NEW S, NEW T, NEW m \in [S -> Nat],
         \A s \in S : (\A r \in S : m[r] < m[s] => r \in T) => s \in T
  PROVE  S \subseteq T
<1>. SUFFICES ASSUME S \ T # {} PROVE FALSE
  OBVIOUS
<1>1. {m[s] : s \in S \ T} \in SUBSET Nat /\ {m[s] : s \in S \ T} # {}
  OBVIOUS
<1>2. PICK n \in {m[s] : s \in S \ T} : \A y \in {m[s] : s \in S \ T} : n <= y
  BY <1>1, NatLeast
<1>3. PICK s \in S \ T : n = m[s]
  BY <1>2
<1>4. ASSUME NEW r \in S, m[r] < m[s] PROVE r \in T
  <2>1. m[r] \in Nat /\ m[s] \in Nat
    OBVIOUS
  <2>2. r \notin T => m[s] <= m[r]
    BY <1>2, <1>3
  <2>. QED BY <1>4, <2>1, <2>2
<1>5. s \in T
  BY <1>3, <1>4
<1>. QED BY <1>3, <1>5

(* A function on S with values in V that is defined in terms of itself: b is its value
   where it stops, next what it asks for elsewhere, and k what it makes of the answer. *)
IsRecursive(f, S, V, stop, next, b, k) ==
  /\ f \in [S -> V]
  /\ \A s \in S : f[s] = IF s \in stop THEN b[s] ELSE k[s][f[next[s]]]

(* It asks for smaller arguments only, by the measure m, and its values stay in V. *)
Descends(m, S, V, stop, next, b, k) ==
  /\ m \in [S -> Nat]
  /\ \A s \in S : s \in stop => b[s] \in V
  /\ \A s \in S : s \notin stop => /\ next[s] \in S /\ m[next[s]] < m[s]
                                   /\ \A v \in V : k[s][v] \in V

(* Such a function exists. *)
LEMMA RecursionExists ==
  ASSUME NEW m, NEW S, NEW V, NEW stop, NEW next, NEW b, NEW k,
         Descends(m, S, V, stop, next, b, k)
  PROVE  \E f : IsRecursive(f, S, V, stop, next, b, k)
<1>. USE DEF Descends
<1>. DEFINE D(n) == {s \in S : m[s] < n}
            G(n, g) == /\ g \in [D(n) -> V]
                       /\ \A s \in D(n) :
                            g[s] = IF s \in stop THEN b[s] ELSE k[s][g[next[s]]]
<1>1. \A n \in Nat : \E g : G(n, g)
  <2>. DEFINE T == {n \in Nat : \E g : G(n, g)}
  <2>1. 0 \in T
    <3>1. D(0) = {}
      OBVIOUS
    <3>2. G(0, [s \in D(0) |-> b[s]])
      BY <3>1
    <3>. QED BY <3>2
  <2>2. ASSUME NEW n \in Nat, n \in T PROVE n + 1 \in T
    <3>1. PICK g : G(n, g)
      BY <2>2
    <3>. DEFINE h == [s \in D(n + 1) |-> IF s \in D(n) THEN g[s]
                                         ELSE IF s \in stop THEN b[s] ELSE k[s][g[next[s]]]]
    <3>2. \A s \in D(n + 1) : s \in stop \/ next[s] \in D(n)
      OBVIOUS
    <3>3. \A s \in D(n) : s \in D(n + 1) /\ h[s] = g[s]
      OBVIOUS
    <3>4. h \in [D(n + 1) -> V]
      BY <3>1, <3>2
    <3>5. \A s \in D(n + 1) : h[s] = IF s \in stop THEN b[s] ELSE k[s][h[next[s]]]
      BY <3>1, <3>2, <3>3
    <3>6. G(n + 1, h)
      BY <3>4, <3>5
    <3>. HIDE DEF G, h
    <3>. QED BY <3>6
  <2>. HIDE DEF T
  <2>3. Nat \subseteq T
    BY <2>1, <2>2, NatAll
  <2>. QED BY <2>3 DEF T
<1>2. ASSUME NEW n \in Nat, NEW p \in Nat, NEW g, NEW h, G(n, g), G(p, h)
      PROVE  \A s \in S : m[s] < n /\ m[s] < p => g[s] = h[s]
  <2>. DEFINE T == {s \in S : m[s] < n /\ m[s] < p => g[s] = h[s]}
  <2>1. ASSUME NEW s \in S, \A r \in S : m[r] < m[s] => r \in T PROVE s \in T
    <3>. SUFFICES ASSUME m[s] < n, m[s] < p PROVE g[s] = h[s]
      OBVIOUS
    <3>1. CASE s \in stop
      BY <1>2, <3>1
    <3>2. CASE s \notin stop
      <4>1. next[s] \in S /\ m[next[s]] < m[s] /\ next[s] \in T
        BY <2>1, <3>2
      <4>2. m[next[s]] < n /\ m[next[s]] < p
        BY <4>1
      <4>3. g[next[s]] = h[next[s]]
        BY <4>1, <4>2
      <4>. QED BY <1>2, <3>2, <4>3
    <3>. QED BY <3>1, <3>2
  <2>. HIDE DEF T
  <2>2. S \subseteq T
    BY <2>1, MeasureInduction
  <2>. QED BY <2>2 DEF T
<1>. DEFINE F == [n \in Nat |-> CHOOSE g : G(n, g)]
            f == [s \in S |-> F[m[s] + 1][s]]
<1>3. \A n \in Nat : G(n, F[n])
  BY <1>1
<1>. HIDE DEF F, G, D
<1>4. ASSUME NEW s \in S
      PROVE  /\ m[s] + 1 \in Nat /\ G(m[s] + 1, F[m[s] + 1]) /\ s \in D(m[s] + 1)
             /\ f[s] = F[m[s] + 1][s]
  BY <1>3 DEF D
<1>. HIDE DEF f
<1>5. ASSUME NEW s \in S
      PROVE  /\ f[s] \in V
             /\ f[s] = IF s \in stop THEN b[s] ELSE k[s][F[m[s] + 1][next[s]]]
  BY <1>4 DEF G
<1>6. ASSUME NEW s \in S, s \notin stop PROVE F[m[s] + 1][next[s]] = f[next[s]]
  <2>1. next[s] \in S /\ m[next[s]] < m[s] + 1 /\ m[next[s]] < m[next[s]] + 1
    BY <1>6
  <2>. QED BY <1>2, <1>4, <2>1
<1>7. f \in [S -> V]
  BY <1>5 DEF f
<1>. QED BY <1>5, <1>6, <1>7 DEF IsRecursive

------------------------------------------------------------------------------
(* The folds of the community modules. *)

(* Max of the indices that are left is the greatest of them. *)
LEMMA MaxFacts ==
  ASSUME NEW n \in Nat, NEW T \in SUBSET (1..n), T # {}
  PROVE  Max(T) \in T /\ \A y \in T : y <= Max(T)
<1>0. \A y \in T : y \in Int /\ n - y \in Nat
  OBVIOUS
<1>1. {n - y : y \in T} \in SUBSET Nat /\ {n - y : y \in T} # {}
  BY <1>0
<1>2. PICK z \in {n - y : y \in T} : \A w \in {n - y : y \in T} : z <= w
  BY <1>1, NatLeast
<1>3. PICK x \in T : z = n - x
  BY <1>2
<1>4. \A y \in T : n - x <= n - y
  BY <1>2, <1>3
<1>5. \A y \in T : y <= x
  BY <1>0, <1>4
<1>. QED BY <1>5 DEF Max

(* A fold over the indices 1..n that begins with b; k[i][v] is what the i-th element makes
   of v, and V holds all that comes up on the way. *)
CanFold(n, V, b, k) == /\ n \in Nat /\ b \in V
                     /\ \A i \in 1..n : \A v \in V : k[i][v] \in V

(* The function that MapThenFoldSet computes it with. *)
IsFold(f, n, V, b, k) ==
  /\ f \in [SUBSET (1..n) -> V]
  /\ \A s \in SUBSET (1..n) : f[s] = IF s = {} THEN b ELSE k[Max(s)][f[s \ {Max(s)}]]

LEMMA FoldExists ==
  ASSUME NEW n, NEW V, NEW b, NEW k, CanFold(n, V, b, k)
  PROVE  \E f : IsFold(f, n, V, b, k)
<1>. USE DEF CanFold
<1>. DEFINE S == SUBSET (1..n)
            m == [s \in S |-> IF s = {} THEN 0 ELSE Max(s)]
            next == [s \in S |-> s \ {Max(s)}]
            kk == [s \in S |-> k[Max(s)]]
            bb == [s \in S |-> b]
            stop == {{}}
<1>1. \A s \in S : s # {} => Max(s) \in s /\ Max(s) \in 1..n /\ \A y \in s : y <= Max(s)
  BY MaxFacts
<1>2. m \in [S -> Nat]
  BY <1>1
<1>3. ASSUME NEW s \in S, s \notin stop
      PROVE  /\ next[s] \in S /\ m[next[s]] < m[s]
             /\ \A v \in V : kk[s][v] \in V
  <2>1. next[s] \in S /\ next[s] = s \ {Max(s)} /\ m[s] = Max(s)
    BY <1>3
  <2>2. CASE next[s] = {}
    BY <1>1, <1>3, <2>1, <2>2
  <2>3. CASE next[s] # {}
    <3>1. m[next[s]] = Max(next[s]) /\ Max(next[s]) \in s /\ Max(next[s]) # Max(s)
      BY <1>1, <2>1, <2>3
    <3>. QED BY <1>1, <1>3, <2>1, <3>1
  <2>. QED BY <2>2, <2>3
<1>4. \A s \in S : s \in stop => bb[s] \in V
  OBVIOUS
<1>5. Descends(m, S, V, stop, next, bb, kk)
  BY <1>2, <1>3, <1>4 DEF Descends
<1>. HIDE DEF S, m, next, kk, bb, stop
<1>6. PICK f : IsRecursive(f, S, V, stop, next, bb, kk)
  BY <1>5, RecursionExists
<1>7. \A s \in S : f[s] = IF s = {} THEN b ELSE k[Max(s)][f[s \ {Max(s)}]]
  BY <1>6 DEF IsRecursive, next, kk, bb, stop
<1>. QED BY <1>6, <1>7 DEF IsRecursive, IsFold, S

(* The indices up to i. *)
LEMMA UpTo ==
  ASSUME NEW n \in Nat, NEW i \in 1..n
  PROVE  /\ 1..i \in SUBSET (1..n) /\ 1..i # {}
         /\ Max(1..i) = i /\ (1..i) \ {i} = 1..(i - 1)
<1>1. 1..i \in SUBSET (1..n) /\ i \in 1..i /\ (1..i) \ {i} = 1..(i - 1)
  OBVIOUS
<1>2. Max(1..i) \in 1..i /\ i <= Max(1..i)
  BY <1>1, MaxFacts
<1>3. Max(1..i) = i
  BY <1>2
<1>. QED BY <1>1, <1>3

(* What each of the first n steps carries from one set to the next holds after each of
   them. *)
LEMMA StepByStep ==
  ASSUME NEW n \in Nat, NEW P, NEW x, x[0] \in P[0],
         \A i \in 1..n : x[i - 1] \in P[i - 1] => x[i] \in P[i]
  PROVE  \A i \in 0..n : x[i] \in P[i]
<1>. DEFINE T == {i \in Nat : i <= n => x[i] \in P[i]}
<1>1. 0 \in T
  OBVIOUS
<1>2. ASSUME NEW i \in Nat, i \in T PROVE i + 1 \in T
  <2>. SUFFICES ASSUME i + 1 <= n PROVE x[i + 1] \in P[i + 1]
    OBVIOUS
  <2>1. i + 1 \in 1..n /\ (i + 1) - 1 = i /\ x[i] \in P[i]
    BY <1>2
  <2>. QED BY <2>1
<1>. HIDE DEF T
<1>3. Nat \subseteq T
  BY <1>1, <1>2, NatAll
<1>. QED BY <1>3 DEF T

(* Whatever satisfies the equation on its way up has its values in V. *)
LEMMA FoldStays ==
  ASSUME NEW n, NEW V, NEW b, NEW k, CanFold(n, V, b, k), NEW acc, acc[0] = b,
         \A i \in 1..n : acc[i - 1] \in V => acc[i] = k[i][acc[i - 1]]
  PROVE  \A i \in 0..n : acc[i] \in V
<1>. USE DEF CanFold
<1>. DEFINE P == [i \in 0..n |-> V]
<1>1. \A i \in 1..n : P[i - 1] = V /\ P[i] = V
  OBVIOUS
<1>2. acc[0] \in P[0]
  OBVIOUS
<1>3. \A i \in 1..n : acc[i - 1] \in P[i - 1] => acc[i] \in P[i]
  BY <1>1
<1>. HIDE DEF P
<1>4. \A i \in 0..n : acc[i] \in P[i]
  BY <1>2, <1>3, StepByStep
<1>. QED BY <1>4 DEF P

(* Any function that satisfies the equation of the fold as long as it is in V: *)
ObeysFold(f, n, V, b, k) ==
  /\ f[{}] = b
  /\ \A s \in SUBSET (1..n) :
       s # {} /\ f[s \ {Max(s)}] \in V => f[s] = k[Max(s)][f[s \ {Max(s)}]]

(* its value for all indices is reached element by element. *)
LEMMA FoldResult ==
  ASSUME NEW n, NEW V, NEW b, NEW k, CanFold(n, V, b, k),
         NEW f, ObeysFold(f, n, V, b, k)
  PROVE  \E acc \in [0..n -> V] :
           /\ acc[0] = b /\ \A i \in 1..n : acc[i] = k[i][acc[i - 1]]
           /\ acc[n] = f[1..n]
<1>. DEFINE acc == [i \in 0..n |-> f[1..i]]
<1>1. n \in Nat
  BY DEF CanFold
<1>2. ASSUME NEW i \in 1..n, f[1..(i - 1)] \in V PROVE f[1..i] = k[i][f[1..(i - 1)]]
  <2>1. /\ 1..i \in SUBSET (1..n) /\ 1..i # {}
        /\ Max(1..i) = i /\ (1..i) \ {i} = 1..(i - 1)
    BY <1>1, UpTo
  <2>. QED BY <1>2, <2>1 DEF ObeysFold
<1>3. acc[0] = b
  <2>1. 0 \in 0..n /\ 1..0 = {}
    BY <1>1
  <2>. QED BY <2>1 DEF ObeysFold
<1>4. \A i \in 1..n : acc[i] = f[1..i] /\ acc[i - 1] = f[1..(i - 1)]
  BY <1>1
<1>5. acc[n] = f[1..n] /\ acc = [i \in 0..n |-> acc[i]]
  BY <1>1
<1>. HIDE DEF acc
<1>6. \A i \in 1..n : acc[i - 1] \in V => acc[i] = k[i][acc[i - 1]]
  BY <1>2, <1>4
<1>7. \A i \in 0..n : acc[i] \in V
  BY <1>3, <1>6, FoldStays
<1>8. acc \in [0..n -> V]
  BY <1>5, <1>7
<1>9. \A i \in 1..n : i - 1 \in 0..n
  BY <1>1
<1>. QED BY <1>3, <1>5, <1>6, <1>7, <1>8, <1>9

(* The steps of a fold, from the first to the last. *)
LEMMA IterationExists ==
  ASSUME NEW n, NEW V, NEW b, NEW k, CanFold(n, V, b, k)
  PROVE  \E acc \in [0..n -> V] :
           acc[0] = b /\ \A i \in 1..n : acc[i] = k[i][acc[i - 1]]
<1>1. PICK f : IsFold(f, n, V, b, k)
  BY FoldExists
<1>2. ObeysFold(f, n, V, b, k)
  BY <1>1 DEF IsFold, ObeysFold
<1>. QED BY <1>2, FoldResult
==============================================================================

------------------------ MODULE CreateBundleProofs ------------------------
(***************************************************************************)
(* Theorems about CreateBundle, for any set of requests: any number of     *)
(* capabilities, mounts, devices, seccomp blocks, resizes, image records   *)
(* and layers.                                                             *)
(***************************************************************************)
EXTENDS CreateBundle, FiniteSetTheorems, WellFoundedInduction, TLAPS

(* Induction over the natural numbers, for a set. *)
LEMMA NatSet ==
  ASSUME NEW S, 0 \in S, \A n \in Nat : n \in S => n + 1 \in S
  PROVE  Nat \subseteq S
  <1> DEFINE R == OpToRel(<, Nat)
             T == Nat \ S
  <1>0. IsWellFoundedOn(R, Nat)
    BY NatLessThanWellFounded
  <1> SUFFICES ASSUME T # {} PROVE FALSE
    BY Zenon
  <1>1. PICK x \in T : \A y \in T : ~ (<<y, x>> \in R)
    <2>1. T \subseteq Nat
      OBVIOUS
    <2> HIDE DEF R, T
    <2> QED BY <1>0, <2>1, WFMin
  <1>2. x # 0 /\ x \in Nat
    OBVIOUS
  <1>3. x - 1 \in Nat /\ x - 1 < x
    BY <1>2
  <1>4. <<x - 1, x>> \in R
    BY <1>2, <1>3 DEF OpToRel
  <1>5. x - 1 \in S
    BY <1>1, <1>3, <1>4
  <1> QED BY <1>2, <1>3, <1>5

(* A function that a recurrence defines exists. *)
Iterated(n, A, base, next) ==
  \E f \in [0..n -> A] : f[0] = base /\ \A i \in 1..n : f[i] = next[i][f[i - 1]]

LEMMA Iterate ==
  ASSUME NEW n \in Nat, NEW A, NEW base \in A, NEW next \in [1..n -> [A -> A]]
  PROVE  Iterated(n, A, base, next)
  <1> DEFINE Runs(f, k) == f[0] = base /\ \A i \in 1..k : f[i] = next[i][f[i - 1]]
             S == {k \in Nat : k <= n => \E f \in [0..k -> A] : Runs(f, k)}
  <1>1. 0 \in S
    <2>1. [i \in 0..0 |-> base] \in [0..0 -> A] /\ Runs([i \in 0..0 |-> base], 0)
      OBVIOUS
    <2> HIDE DEF Runs
    <2> QED BY <2>1
  <1>2. ASSUME NEW k \in Nat, k \in S PROVE k + 1 \in S
    <2> SUFFICES ASSUME k + 1 <= n PROVE \E f \in [0..(k + 1) -> A] : Runs(f, k + 1)
      OBVIOUS
    <2>1. PICK f \in [0..k -> A] : Runs(f, k)
      <3>1. k <= n
        OBVIOUS
      <3> HIDE DEF Runs
      <3> QED BY <1>2, <3>1
    <2> DEFINE g == [i \in 0..(k + 1) |-> IF i = k + 1 THEN next[k + 1][f[k]] ELSE f[i]]
    <2>2. f[k] \in A /\ k + 1 \in 1..n
      OBVIOUS
    <2>3. next[k + 1][f[k]] \in A
      BY <2>2
    <2>4. g \in [0..(k + 1) -> A]
      BY <2>3
    <2>5. Runs(g, k + 1)
      <3>1. g[0] = base
        BY <2>1
      <3>2. ASSUME NEW i \in 1..(k + 1) PROVE g[i] = next[i][g[i - 1]]
        <4>1. CASE i = k + 1
          BY <4>1
        <4>2. CASE i # k + 1
          <5>1. i \in 1..k /\ i \in 0..k /\ i - 1 \in 0..k
            BY <4>2
          <5>2. g[i] = f[i] /\ g[i - 1] = f[i - 1]
            BY <5>1
          <5> QED BY <2>1, <5>1, <5>2
        <4> QED BY <4>1, <4>2
      <3> HIDE DEF g
      <3> QED BY <3>1, <3>2
    <2> HIDE DEF g, Runs
    <2> QED BY <2>4, <2>5
  <1>3. n \in S
    <2> HIDE DEF S
    <2> QED BY <1>1, <1>2, NatSet
  <1> QED BY <1>3 DEF Iterated

(* The partial results of FlattenSeq. *)
Flattens(f, ss, n, T) ==
  /\ f \in [0..n -> Seq(T)] /\ f[0] = <<>> /\ f[n] = FlattenSeq(ss)
  /\ \A i \in 1..n : f[i] = f[i - 1] \o ss[i]

LEMMA FlattenTrace ==
  ASSUME NEW T, NEW ss \in Seq(Seq(T))
  PROVE  \E f : Flattens(f, ss, Len(ss), T)
  <1> DEFINE n == Len(ss)
             P(h) == h = [i \in 1..n |-> IF i = 1 THEN ss[i] ELSE h[i - 1] \o ss[i]]
             flat == CHOOSE h : P(h)
  <1>n. n \in Nat /\ \A i \in 1..n : ss[i] \in Seq(T)
    OBVIOUS
  <1>1. PICK f \in [0..n -> Seq(T)] : f[0] = <<>> /\ \A i \in 1..n : f[i] = f[i - 1] \o ss[i]
    <2> DEFINE next == [i \in 1..n |-> [x \in Seq(T) |-> x \o ss[i]]]
    <2>1. next \in [1..n -> [Seq(T) -> Seq(T)]]
      BY <1>n
    <2>2. <<>> \in Seq(T)
      OBVIOUS
    <2>3. PICK f \in [0..n -> Seq(T)] : f[0] = <<>> /\ \A i \in 1..n : f[i] = next[i][f[i - 1]]
      <3> DEFINE A == Seq(T)
                 base == <<>>
      <3>1. n \in Nat /\ base \in A /\ next \in [1..n -> [A -> A]]
        BY <1>n, <2>1, <2>2
      <3> HIDE DEF next, n, A, base
      <3>2. Iterated(n, A, base, next)
        BY <3>1, Iterate
      <3> QED BY <3>2 DEF Iterated, A, base
    <2>4. \A i \in 1..n : i - 1 \in 0..n
      BY <1>n
    <2>5. \A i \in 1..n : f[i - 1] \in Seq(T)
      BY <2>4
    <2>6. \A i \in 1..n : next[i][f[i - 1]] = f[i - 1] \o ss[i]
      BY <2>5
    <2> QED BY <2>3, <2>6
  <1>e. \A x \in Seq(T) : <<>> \o x = x
    OBVIOUS
  <1>2. CASE n = 0
    <2>1. ss = <<>> /\ FlattenSeq(ss) = ss
      BY <1>2 DEF FlattenSeq
    <2> QED BY <1>1, <1>2, <2>1 DEF Flattens
  <1>3. CASE n # 0
    <2> DEFINE h == [i \in 1..n |-> f[i]]
    <2>1. P(h)
      <3>1. ASSUME NEW i \in 1..n PROVE f[i] = IF i = 1 THEN ss[i] ELSE h[i - 1] \o ss[i]
        <4>1. CASE i = 1
          <5>1. 1 \in 1..n /\ 1 - 1 = 0 /\ ss[1] \in Seq(T)
            BY <1>n, <4>1
          <5>2. f[1] = f[1 - 1] \o ss[1]
            BY <1>1, <5>1, Zenon
          <5> QED BY <1>1, <1>e, <4>1, <5>1, <5>2
        <4>2. CASE i # 1
          <5>1. i - 1 \in 1..n
            BY <1>n, <4>2
          <5> QED BY <1>1, <4>2, <5>1
        <4> QED BY <4>1, <4>2
      <3> QED BY <3>1
    <2>2. P(flat)
      <3> HIDE DEF P
      <3> QED BY <2>1, Zenon
    <2>3. FlattenSeq(ss) = flat[n]
      BY <1>3, Zenon DEF FlattenSeq
    <2> DEFINE S == {k \in Nat : k + 1 <= n => flat[k + 1] = f[k + 1]}
    <2> HIDE DEF flat
    <2>4. \A i \in 1..n : flat[i] = IF i = 1 THEN ss[i] ELSE flat[i - 1] \o ss[i]
      <3> DEFINE Step(i) == IF i = 1 THEN ss[i] ELSE flat[i - 1] \o ss[i]
      <3>1. flat = [i \in 1..n |-> Step(i)]
        BY <2>2
      <3> HIDE DEF Step
      <3>2. \A i \in 1..n : flat[i] = Step(i)
        BY <3>1
      <3> QED BY <3>2 DEF Step
    <2>5. 0 \in S
      <3>1. 1 \in 1..n /\ 0 \in 0..n
        BY <1>n, <1>3
      <3>2. f[1] = ss[1]
        <4>1. f[1] = f[1 - 1] \o ss[1]
          BY <1>1, <3>1, Zenon
        <4>2. 1 - 1 = 0 /\ ss[1] \in Seq(T)
          BY <1>n, <3>1
        <4> QED BY <1>1, <1>e, <4>1, <4>2
      <3> QED BY <2>4, <3>1, <3>2
    <2>6. ASSUME NEW k \in Nat, k \in S PROVE k + 1 \in S
      <3> SUFFICES ASSUME k + 2 <= n PROVE flat[k + 2] = f[k + 2]
        OBVIOUS
      <3>1. k + 2 \in 1..n /\ (k + 2) - 1 = k + 1 /\ k + 2 # 1 /\ k + 1 <= n
        BY <1>n
      <3>2. flat[k + 2] = flat[k + 1] \o ss[k + 2]
        BY <2>4, <3>1
      <3>3. f[k + 2] = f[k + 1] \o ss[k + 2]
        BY <1>1, <3>1
      <3> QED BY <2>6, <3>1, <3>2, <3>3
    <2>7. n - 1 \in S
      <3> HIDE DEF S
      <3>1. n - 1 \in Nat
        BY <1>n, <1>3
      <3> QED BY <2>5, <2>6, <3>1, NatSet
    <2>8. flat[n] = f[n]
      BY <1>n, <1>3, <2>7
    <2> QED BY <1>1, <2>3, <2>8 DEF Flattens
  <1> QED BY <1>2, <1>3

(* r is s at the positions of K, in their order, and e says which. *)
Embeds(e, r, s, K) ==
  /\ e \in [1..Len(r) -> K]
  /\ \A j \in 1..Len(r) : r[j] = s[e[j]]
  /\ \A i \in K : \E j \in 1..Len(r) : e[j] = i
  /\ \A j, k \in 1..Len(r) : j < k => e[j] < e[k]

(* What Retain keeps. *)
LEMMA KeptEmbeds ==
  ASSUME NEW T, NEW s \in Seq(T), NEW keep,
         NEW ss, ss = [i \in DOMAIN s |-> IF i \in keep THEN <<s[i]>> ELSE <<>>]
  PROVE  FlattenSeq(ss) \in Seq(T) /\ \E e : Embeds(e, FlattenSeq(ss), s, keep \cap (1..Len(s)))
  <1> DEFINE n == Len(s)
  <1>n. n \in Nat /\ DOMAIN s = 1..n /\ \A i \in 1..n : s[i] \in T
    OBVIOUS
  <1>1. ss \in Seq(Seq(T)) /\ Len(ss) = n
    <2>1. \A i \in 1..n : (IF i \in keep THEN <<s[i]>> ELSE <<>>) \in Seq(T)
      BY <1>n
    <2>2. ss \in [1..n -> Seq(T)]
      BY <1>n, <2>1
    <2> QED BY <1>n, <2>2
  <1>2. PICK f : Flattens(f, ss, n, T)
    BY <1>1, FlattenTrace
  <1>f. /\ f \in [0..n -> Seq(T)] /\ f[0] = <<>> /\ f[n] = FlattenSeq(ss)
        /\ \A i \in 1..n : f[i] = f[i - 1] \o ss[i]
    BY <1>2 DEF Flattens
  <1>c. \A x \in Seq(T) : x \o <<>> = x /\ \A v \in T : x \o <<v>> = Append(x, v)
    OBVIOUS
  <1> DEFINE Q(k) == \E e : Embeds(e, f[k], s, keep \cap (1..k))
             S == {k \in Nat : k <= n => Q(k)}
  <1> HIDE DEF Q
  <1>3. 0 \in S
    <2>1. Len(f[0]) = 0 /\ 1..0 = {}
      BY <1>f
    <2>2. <<>> \in [1..0 -> keep \cap (1..0)]
      BY <2>1
    <2>3. Embeds(<<>>, f[0], s, keep \cap (1..0))
      BY <2>1, <2>2 DEF Embeds
    <2> QED BY <2>3 DEF Q
  <1>4. ASSUME NEW k \in Nat, k \in S PROVE k + 1 \in S
    <2> SUFFICES ASSUME k + 1 <= n PROVE Q(k + 1)
      OBVIOUS
    <2>1. k <= n /\ k \in 0..n /\ k + 1 \in 1..n /\ (k + 1) - 1 = k /\ f[k] \in Seq(T)
      BY <1>n, <1>f
    <2>2. f[k + 1] = f[k] \o ss[k + 1]
      BY <1>f, <2>1
    <2>3. PICK e : Embeds(e, f[k], s, keep \cap (1..k))
      BY <1>4, <2>1 DEF Q
    <2>4. CASE k + 1 \notin keep
      <3>1. ss[k + 1] = <<>>
        BY <1>n, <2>1, <2>4
      <3>2. f[k + 1] = f[k]
        BY <1>c, <2>1, <2>2, <3>1
      <3>3. keep \cap (1..(k + 1)) = keep \cap (1..k)
        BY <2>4
      <3> QED BY <2>3, <3>2, <3>3 DEF Q
    <2>5. CASE k + 1 \in keep
      <3> DEFINE m == Len(f[k])
                 d == [j \in 1..(m + 1) |-> IF j = m + 1 THEN k + 1 ELSE e[j]]
      <3>1. ss[k + 1] = <<s[k + 1]>> /\ s[k + 1] \in T
        BY <1>n, <2>1, <2>5
      <3>2. f[k + 1] = Append(f[k], s[k + 1])
        BY <1>c, <2>1, <2>2, <3>1
      <3>m. m \in Nat
        BY <2>1
      <3>3. Len(f[k + 1]) = m + 1 /\ f[k + 1][m + 1] = s[k + 1] /\ \A j \in 1..m : f[k + 1][j] = f[k][j]
        BY <2>1, <3>1, <3>2
      <3>4. /\ e \in [1..m -> keep \cap (1..k)]
            /\ \A j \in 1..m : f[k][j] = s[e[j]]
            /\ \A i \in keep \cap (1..k) : \E j \in 1..m : e[j] = i
            /\ \A j, l \in 1..m : j < l => e[j] < e[l]
        BY <2>3 DEF Embeds
      <3> HIDE DEF m
      <3>5. d[m + 1] = k + 1 /\ \A j \in 1..m : d[j] = e[j] /\ j # m + 1 /\ j \in 1..(m + 1)
        BY <3>m
      <3>6. d \in [1..(m + 1) -> keep \cap (1..(k + 1))]
        <4>1. \A j \in 1..(m + 1) : (IF j = m + 1 THEN k + 1 ELSE e[j]) \in keep \cap (1..(k + 1))
          BY <2>5, <3>m, <3>4
        <4> QED BY <4>1
      <3> HIDE DEF d
      <3>7. \A j \in 1..(m + 1) : j \in 1..m \/ j = m + 1
        BY <3>m
      <3>8. \A j \in 1..(m + 1) : f[k + 1][j] = s[d[j]]
        BY <3>3, <3>4, <3>5, <3>7
      <3>9. \A i \in keep \cap (1..(k + 1)) : \E j \in 1..(m + 1) : d[j] = i
        <4> TAKE i \in keep \cap (1..(k + 1))
        <4>1. CASE i = k + 1
          BY <3>m, <3>5, <4>1
        <4>2. CASE i # k + 1
          <5>1. i \in keep \cap (1..k)
            BY <4>2
          <5> QED BY <3>4, <3>5, <5>1
        <4> QED BY <4>1, <4>2
      <3>10. ASSUME NEW j \in 1..(m + 1), NEW l \in 1..(m + 1), j < l PROVE d[j] < d[l]
        <4>1. j \in 1..m
          BY <3>m, <3>10
        <4>2. e[j] \in 1..k /\ d[j] = e[j]
          BY <3>4, <3>5, <4>1
        <4>3. CASE l = m + 1
          BY <3>5, <4>2, <4>3
        <4>4. CASE l \in 1..m
          BY <3>4, <3>5, <3>10, <4>1, <4>2, <4>4
        <4> QED BY <3>7, <4>3, <4>4
      <3>11. Embeds(d, f[k + 1], s, keep \cap (1..(k + 1)))
        BY <3>3, <3>6, <3>8, <3>9, <3>10 DEF Embeds
      <3> QED BY <3>11 DEF Q
    <2> QED BY <2>4, <2>5
  <1>5. n \in S
    <2> HIDE DEF S
    <2> QED BY <1>n, <1>3, <1>4, NatSet
  <1>6. f[n] \in Seq(T) /\ Q(n)
    BY <1>n, <1>f, <1>5
  <1> QED BY <1>f, <1>6 DEF Q

(* FoldLeft goes over the sets of positions, the largest last. *)
LEMMA MaxOf ==
  ASSUME NEW n \in Nat, NEW t \in SUBSET (1..n), t # {}
  PROVE  Max(t) \in t /\ \A y \in t : Max(t) >= y
  <1> DEFINE Top(x, u) == x \in u /\ \A y \in u : x >= y
             Q(k) == \A u \in SUBSET (1..k) : u # {} => \E x : Top(x, u)
             S == {k \in Nat : Q(k)}
  <1>1. 0 \in S
    OBVIOUS
  <1>2. ASSUME NEW k \in Nat, k \in S PROVE k + 1 \in S
    <2>1. ASSUME NEW u \in SUBSET (1..(k + 1)), u # {} PROVE \E x : Top(x, u)
      <3>1. CASE k + 1 \in u
        <4>1. Top(k + 1, u)
          BY <3>1
        <4> HIDE DEF Top
        <4> QED BY <4>1
      <3>2. CASE k + 1 \notin u
        <4>1. u \in SUBSET (1..k)
          BY <3>2
        <4>2. Q(k)
          BY <1>2
        <4> HIDE DEF Top
        <4> QED BY <2>1, <4>1, <4>2
      <3> QED BY <3>1, <3>2
    <2> HIDE DEF Top
    <2> QED BY <2>1
  <1>3. Q(n)
    <2>1. n \in S
      <3> HIDE DEF S
      <3> QED BY <1>1, <1>2, NatSet
    <2> HIDE DEF Q
    <2> QED BY <2>1
  <1>4. PICK x : Top(x, t)
    <2> HIDE DEF Top
    <2> QED BY <1>3
  <1>5. Max(t) = CHOOSE z \in t : \A y \in t : z >= y
    BY DEF Max
  <1> QED BY <1>4, <1>5

Folds(g, n, A, base, next) ==
  /\ g \in [SUBSET (1..n) -> A]
  /\ \A t \in SUBSET (1..n) : g[t] = IF t = {} THEN base ELSE next[Max(t)][g[t \ {Max(t)}]]

LEMMA FoldExists ==
  ASSUME NEW n \in Nat, NEW A, NEW base \in A, NEW next \in [1..n -> [A -> A]]
  PROVE  \E g : Folds(g, n, A, base, next)
  <1> DEFINE Q(k) == \E g : Folds(g, k, A, base, next)
             S == {k \in Nat : k <= n => Q(k)}
  <1>1. Q(0)
    <2> DEFINE g == [t \in SUBSET (1..0) |-> base]
    <2>1. 1..0 = {}
      OBVIOUS
    <2>2. \A t \in SUBSET (1..0) : t = {} /\ g[t] = base
      BY <2>1
    <2>3. g \in [SUBSET (1..0) -> A]
      OBVIOUS
    <2> HIDE DEF g
    <2>4. Folds(g, 0, A, base, next)
      BY <2>2, <2>3 DEF Folds
    <2> QED BY <2>4
  <1>2. ASSUME NEW k \in Nat, k + 1 <= n, Q(k) PROVE Q(k + 1)
    <2>1. PICK h : Folds(h, k, A, base, next)
      BY <1>2
    <2> HIDE DEF Q
    <2>h. h \in [SUBSET (1..k) -> A] /\ k + 1 \in 1..n /\ 1..k \subseteq 1..n
      BY <1>2, <2>1 DEF Folds
    <2> DEFINE g == [t \in SUBSET (1..(k + 1)) |-> IF k + 1 \in t THEN next[k + 1][h[t \ {k + 1}]] ELSE h[t]]
    <2>2. \A t \in SUBSET (1..(k + 1)) : t \ {k + 1} \in SUBSET (1..k) /\ (k + 1 \notin t => t \in SUBSET (1..k))
      OBVIOUS
    <2>3. \A t \in SUBSET (1..k) : t \in SUBSET (1..(k + 1)) /\ k + 1 \notin t
      OBVIOUS
    <2>4. \A t \in SUBSET (1..k) : g[t] = h[t]
      BY <2>3
    <2>5. g \in [SUBSET (1..(k + 1)) -> A]
      <3>1. ASSUME NEW t \in SUBSET (1..(k + 1))
            PROVE  (IF k + 1 \in t THEN next[k + 1][h[t \ {k + 1}]] ELSE h[t]) \in A
        <4>1. k + 1 \notin t => h[t] \in A
          BY <2>h, <2>2
        <4>2. h[t \ {k + 1}] \in A /\ next[k + 1] \in [A -> A]
          BY <2>h, <2>2
        <4> QED BY <4>1, <4>2
      <3> QED BY <3>1
    <2>6. ASSUME NEW t \in SUBSET (1..(k + 1))
          PROVE  g[t] = IF t = {} THEN base ELSE next[Max(t)][g[t \ {Max(t)}]]
      <3>1. CASE k + 1 \in t
        <4>0. t # {} /\ k + 1 \in Nat
          BY <3>1
        <4>1. Max(t) \in t /\ \A y \in t : Max(t) >= y
          BY <4>0, MaxOf
        <4>2. Max(t) = k + 1
          <5>1. Max(t) \in 1..(k + 1) /\ Max(t) >= k + 1
            BY <3>1, <4>1
          <5> QED BY <5>1
        <4>3. g[t] = next[k + 1][h[t \ {k + 1}]]
          BY <3>1, Zenon
        <4>4. g[t \ {k + 1}] = h[t \ {k + 1}]
          <5> DEFINE u == t \ {k + 1}
          <5>1. u \in SUBSET (1..k)
            BY <2>2
          <5> HIDE DEF g, u
          <5>2. g[u] = h[u]
            BY <2>4, <5>1
          <5> QED BY <5>2 DEF u
        <4> HIDE DEF g
        <4> QED BY <4>0, <4>2, <4>3, <4>4
      <3>2. CASE k + 1 \notin t
        <4>1. t \in SUBSET (1..k)
          BY <2>2, <3>2
        <4>2. g[t] = h[t]
          BY <2>4, <4>1
        <4>3. t \ {Max(t)} \in SUBSET (1..k)
          BY <4>1
        <4>4. g[t \ {Max(t)}] = h[t \ {Max(t)}]
          BY <2>4, <4>3
        <4>5. h[t] = IF t = {} THEN base ELSE next[Max(t)][h[t \ {Max(t)}]]
          BY <2>1, <4>1 DEF Folds
        <4> HIDE DEF g
        <4> QED BY <4>2, <4>4, <4>5
      <3> QED BY <3>1, <3>2
    <2> HIDE DEF g
    <2>7. Folds(g, k + 1, A, base, next)
      BY <2>5, <2>6 DEF Folds
    <2> QED BY <2>7 DEF Q
  <1> HIDE DEF Q
  <1>3. 0 \in S
    BY <1>1
  <1>4. ASSUME NEW k \in Nat, k \in S PROVE k + 1 \in S
    BY <1>2, <1>4
  <1>5. n \in S
    <2> HIDE DEF S
    <2> QED BY <1>3, <1>4, NatSet
  <1> QED BY <1>5 DEF Q

LEMMA Ranges ==
  ASSUME NEW i \in Nat, i # 0
  PROVE  1..i # {} /\ Max(1..i) = i /\ (1..i) \ {Max(1..i)} = 1..(i - 1)
  <1>1. 1..i \in SUBSET (1..i) /\ i \in 1..i
    OBVIOUS
  <1>2. Max(1..i) \in 1..i /\ Max(1..i) >= i
    BY <1>1, MaxOf
  <1>3. Max(1..i) = i
    BY <1>2
  <1>4. (1..i) \ {i} = 1..(i - 1)
    OBVIOUS
  <1> QED BY <1>1, <1>3, <1>4
-----------------------------------------------------------------------------
(* Every edit of generate_spec leaves all fields but a few alone. *)
SpecFields ==
  {"process", "root", "hostname", "ns", "uid_mappings", "gid_mappings", "resources", "masked",
   "readonly", "seccomp", "devices", "sysctl", "cgroups_path", "propagation", "mounts"}
ProcessFields ==
  {"args", "env", "cwd", "terminal", "uid", "gid", "groups", "caps", "nnp", "apparmor", "selinux"}
ResourceFields == {"cpu", "memory", "hugepages", "unified", "devices"}

IsSpec(x) ==
  /\ x = [f \in SpecFields |-> x[f]]
  /\ x.process = [f \in ProcessFields |-> x.process[f]]
  /\ x.resources = [f \in ResourceFields |-> x.resources[f]]

(* y is x but for the fields in F. *)
Edits(x, y, F) == IsSpec(y) /\ \A f \in SpecFields \ F : y[f] = x[f]

LEMMA BaseFields ==
  ASSUME NEW ids
  PROVE  LET b == BaseSpec(ids) IN
         /\ DOMAIN b = SpecFields \ {"process", "root", "hostname"}
         /\ b.resources = [f \in ResourceFields |-> b.resources[f]]
         /\ b.mounts = <<>> /\ b.propagation = None /\ b.seccomp = None /\ b.cgroups_path = None
         /\ b.resources.cpu = None /\ b.resources.memory = None
         /\ ids = None => b.resources.devices = <<DenyAll>>
  <1> DEFINE b == BaseSpec(ids)
  <1>1. DOMAIN b = SpecFields \ {"process", "root", "hostname"}
    BY DEF BaseSpec, SpecFields
  <1>2. b.mounts = <<>> /\ b.propagation = None /\ b.seccomp = None /\ b.cgroups_path = None
    BY DEF BaseSpec
  <1>3. b.resources = IF ids = None THEN [NoResources EXCEPT !.devices = <<DenyAll>>] ELSE NoResources
    BY DEF BaseSpec
  <1>4. b.resources = [f \in ResourceFields |-> b.resources[f]]
    BY <1>3 DEF NoResources, ResourceFields
  <1>5. b.resources.cpu = None /\ b.resources.memory = None
    BY <1>3 DEF NoResources
  <1>6. ids = None => b.resources.devices = <<DenyAll>>
    BY <1>3 DEF NoResources
  <1> QED BY <1>1, <1>2, <1>4, <1>5, <1>6

LEMMA WithProcessFields ==
  ASSUME NEW image, NEW req
  PROVE  LET w == WithProcess(image, req)
             b == BaseSpec(req.rootless_host_ids) IN
         /\ IsSpec(w) /\ \A f \in SpecFields \ {"process", "root", "hostname"} : w[f] = b[f]
         /\ w.process.caps = build_caps(default_capabilities, {})
  <1> DEFINE b == BaseSpec(req.rootless_host_ids)
             p == Process(image, req)
             w == Extend(b, [process |-> p, root |-> [readonly |-> req.readonly_rootfs],
                             hostname |-> req.hostname])
  <1>1. DOMAIN b = SpecFields \ {"process", "root", "hostname"}
    BY BaseFields
  <1>2. b.resources = [f \in ResourceFields |-> b.resources[f]]
    BY BaseFields
  <1>3. p = [f \in ProcessFields |-> p[f]] /\ p.caps = build_caps(default_capabilities, {})
    BY DEF Process, ProcessFields
  <1>w. w = WithProcess(image, req)
    BY DEF WithProcess
  <1> HIDE DEF b, p
  <1>4. w = [f \in SpecFields |-> w[f]]
    BY <1>1 DEF Extend, SpecFields
  <1>5. w.process = p
    BY <1>1 DEF Extend, SpecFields
  <1>6. \A f \in SpecFields \ {"process", "root", "hostname"} : w[f] = b[f]
    BY <1>1 DEF Extend, SpecFields
  <1>7. w.resources = b.resources
    BY <1>6 DEF SpecFields
  <1> HIDE DEF w
  <1>8. IsSpec(w)
    BY <1>2, <1>3, <1>4, <1>5, <1>7 DEF IsSpec
  <1> QED BY <1>3, <1>5, <1>6, <1>8, <1>w DEF b

LEMMA EditNs ==
  ASSUME NEW spec, IsSpec(spec), NEW v
  PROVE  Edits(spec, [spec EXCEPT !.ns = v], {"ns"}) /\ [spec EXCEPT !.ns = v].ns = v
  BY DEF IsSpec, Edits, SpecFields

LEMMA EditPrivileged ==
  ASSUME NEW spec, IsSpec(spec)
  PROVE  LET x == apply_privileged(spec) IN
         /\ Edits(spec, x, {"process", "masked", "readonly", "resources"})
         /\ x.process.caps = build_caps(all_capabilities, all_capabilities)
         /\ x.resources.devices = <<AllowAll>>
         /\ x.resources.cpu = spec.resources.cpu /\ x.resources.memory = spec.resources.memory
  BY DEF apply_privileged, IsSpec, Edits, SpecFields, ProcessFields, ResourceFields

LEMMA EditCapabilities ==
  ASSUME NEW spec, IsSpec(spec), NEW add, NEW drop
  PROVE  LET x == apply_capabilities(spec, add, drop)
             caps == FoldLeft(AddCap, FoldLeft(DropCap, spec.process.caps.bounding, drop), add) IN
         /\ Edits(spec, x, {"process"})
         /\ add = <<>> /\ drop = <<>> => x = spec
         /\ add # <<>> \/ drop # <<>> => x.process.caps = build_caps(caps, caps)
  <1> DEFINE caps == FoldLeft(AddCap, FoldLeft(DropCap, spec.process.caps.bounding, drop), add)
             b == build_caps(caps, caps)
             y == [spec EXCEPT !.process.caps = b]
  <1>1. apply_capabilities(spec, add, drop) = IF add = <<>> /\ drop = <<>> THEN spec ELSE y
    BY Zenon DEF apply_capabilities
  <1> HIDE DEF b
  <1>2. Edits(spec, y, {"process"}) /\ y.process.caps = b
    BY DEF IsSpec, Edits, SpecFields, ProcessFields
  <1>3. Edits(spec, spec, {"process"})
    BY DEF Edits
  <1> HIDE DEF y
  <1> QED BY <1>1, <1>2, <1>3 DEF b

LEMMA EditSecurity ==
  ASSUME NEW spec, IsSpec(spec), NEW req
  PROVE  LET x == apply_security(spec, req) IN
         /\ Edits(spec, x, {"process", "masked", "readonly", "seccomp"})
         /\ x.process.caps = spec.process.caps
         /\ req.seccomp.kind = "Unconfined" => x.seccomp = spec.seccomp
         /\ req.seccomp.kind = "RuntimeDefault" =>
              x.seccomp = runtime_default(effective_capabilities(spec))
         /\ req.seccomp.kind = "Localhost" => x.seccomp = req.seccomp.path
  <1> DEFINE nnp == spec.process.nnp \/ req.no_new_privileges
             aa  == OrElse(req.apparmor_profile, spec.process.apparmor)
             se  == OrElse(req.selinux_label, spec.process.selinux)
             ma  == IF req.masked_paths # <<>> THEN req.masked_paths ELSE spec.masked
             ro  == IF req.readonly_paths # <<>> THEN req.readonly_paths ELSE spec.readonly
             sc  == CASE req.seccomp.kind = "Unconfined"     -> spec.seccomp
                      [] req.seccomp.kind = "RuntimeDefault" -> runtime_default(effective_capabilities(spec))
                      [] req.seccomp.kind = "Localhost"      -> req.seccomp.path
             x == [spec EXCEPT !.process.nnp = nnp, !.process.apparmor = aa, !.process.selinux = se,
                               !.masked = ma, !.readonly = ro, !.seccomp = sc]
  <1>1. x = apply_security(spec, req)
    BY DEF apply_security, IsSpec, SpecFields, ProcessFields
  <1>2. /\ req.seccomp.kind = "Unconfined" => sc = spec.seccomp
        /\ req.seccomp.kind = "RuntimeDefault" => sc = runtime_default(effective_capabilities(spec))
        /\ req.seccomp.kind = "Localhost" => sc = req.seccomp.path
    OBVIOUS
  <1> HIDE DEF nnp, aa, se, ma, ro, sc
  <1>3. x.seccomp = sc
    BY DEF IsSpec, SpecFields
  <1>4. Edits(spec, x, {"process", "masked", "readonly", "seccomp"}) /\ x.process.caps = spec.process.caps
    BY DEF IsSpec, Edits, SpecFields, ProcessFields
  <1> QED BY <1>1, <1>2, <1>3, <1>4

LEMMA EditDevices ==
  ASSUME NEW spec, IsSpec(spec), NEW devices
  PROVE  LET x == apply_devices(spec, devices) IN
         /\ Edits(spec, x, {"devices", "resources"})
         /\ x.resources.devices = spec.resources.devices \o [i \in DOMAIN devices |->
                         [allow  |-> TRUE,
                          dev    |-> stat_device(devices[i].host).dev,
                          access |-> sanitize_device_access(devices[i].permissions)]]
         /\ x.resources.cpu = spec.resources.cpu /\ x.resources.memory = spec.resources.memory
  BY DEF apply_devices, IsSpec, Edits, SpecFields, ResourceFields

LEMMA EditSysctls ==
  ASSUME NEW spec, IsSpec(spec), NEW sysctls
  PROVE  Edits(spec, apply_sysctls(spec, sysctls), {"sysctl"})
  BY DEF apply_sysctls, IsSpec, Edits, SpecFields
LEMMA EditSelf == ASSUME NEW x, IsSpec(x), NEW F PROVE Edits(x, x, F)
  BY DEF Edits

LEMMA EditTrans ==
  ASSUME NEW x, NEW y, NEW z, NEW F, NEW G, Edits(x, y, F), Edits(y, z, G)
  PROVE  Edits(x, z, F \cup G) /\ IsSpec(z)
  BY DEF Edits

LEMMA EditResources ==
  ASSUME NEW spec, IsSpec(spec), NEW res
  PROVE  LET x == apply_resources(spec, res) IN
         /\ Edits(spec, x, {"resources"})
         /\ x.resources.devices = spec.resources.devices
         /\ res = Resources0 => x = spec
         /\ res # Resources0 =>
              /\ x.resources.cpu = CpuLimits(res)
              /\ x.resources.memory = OrElse(res.memory, spec.resources.memory)
  <1>1. CASE res = Resources0
    BY <1>1, EditSelf DEF apply_resources
  <1>2. CASE res # Resources0
    <2> DEFINE c == CpuLimits(res)
               m == OrElse(res.memory, spec.resources.memory)
               h == IF res.hugepages # <<>> THEN res.hugepages ELSE spec.resources.hugepages
               u == Extend(spec.resources.unified, res.unified)
               x == [spec EXCEPT !.resources.cpu = c, !.resources.memory = m,
                                 !.resources.hugepages = h, !.resources.unified = u]
    <2>1. x = apply_resources(spec, res)
      <3>1. ASSUME NEW a, NEW b, NEW d
            PROVE  /\ [spec EXCEPT !.resources.cpu = a].resources.memory = spec.resources.memory
                   /\ [spec EXCEPT !.resources.cpu = a, !.resources.memory = b].resources.hugepages
                        = spec.resources.hugepages
                   /\ [spec EXCEPT !.resources.cpu = a, !.resources.memory = b,
                                   !.resources.hugepages = d].resources.unified
                        = spec.resources.unified
        BY DEF IsSpec, SpecFields, ResourceFields
      <3> QED BY <1>2, <3>1 DEF apply_resources
    <2> HIDE DEF c, m, h, u
    <2>2. Edits(spec, x, {"resources"})
      BY DEF IsSpec, Edits, SpecFields, ResourceFields
    <2>3. /\ x.resources.cpu = c /\ x.resources.memory = m
          /\ x.resources.devices = spec.resources.devices
      BY DEF IsSpec, SpecFields, ResourceFields
    <2> QED BY <1>2, <2>1, <2>2, <2>3 DEF c, m
  <1> QED BY <1>1, <1>2

LEMMA EditCgroup ==
  ASSUME NEW spec, IsSpec(spec), NEW req
  PROVE  LET x == WithCgroup(spec, req) IN
         /\ Edits(spec, x, {"resources", "cgroups_path"})
         /\ x.resources.devices = spec.resources.devices
         /\ req.cgroup_path = None => x = spec
         /\ req.cgroup_path # None => x.cgroups_path = req.cgroup_path
         /\ req.cgroup_path = None \/ req.resources = Resources0 =>
              x.resources.cpu = spec.resources.cpu /\ x.resources.memory = spec.resources.memory
         /\ req.cgroup_path # None /\ req.resources # Resources0 =>
              /\ x.resources.cpu = CpuLimits(req.resources)
              /\ x.resources.memory = OrElse(req.resources.memory, spec.resources.memory)
  <1>1. CASE req.cgroup_path = None
    <2>1. WithCgroup(spec, req) = spec
      BY <1>1 DEF WithCgroup
    <2> QED BY <1>1, <2>1, EditSelf
  <1>2. CASE req.cgroup_path # None
    <2> DEFINE y == [spec EXCEPT !.cgroups_path = req.cgroup_path]
               x == apply_resources(y, req.resources)
    <2>1. x = WithCgroup(spec, req)
      BY <1>2 DEF WithCgroup
    <2>2. /\ Edits(spec, y, {"cgroups_path"}) /\ y.cgroups_path = req.cgroup_path
          /\ y.resources = spec.resources /\ IsSpec(y)
      BY DEF IsSpec, Edits, SpecFields
    <2> HIDE DEF y
    <2>3. Edits(y, x, {"resources"}) /\ x.resources.devices = y.resources.devices
      BY <2>2, EditResources
    <2>4. Edits(spec, x, {"resources", "cgroups_path"})
      BY <2>2, <2>3, EditTrans
    <2>5. x.cgroups_path = req.cgroup_path
      BY <2>2, <2>3 DEF Edits, SpecFields
    <2>6. req.resources = Resources0 => x = y
      BY <2>2, EditResources
    <2>7. req.resources # Resources0 =>
            /\ x.resources.cpu = CpuLimits(req.resources)
            /\ x.resources.memory = OrElse(req.resources.memory, y.resources.memory)
      BY <2>2, EditResources
    <2> HIDE DEF x
    <2> QED BY <1>2, <2>1, <2>2, <2>3, <2>4, <2>5, <2>6, <2>7
  <1> QED BY <1>1, <1>2
-----------------------------------------------------------------------------
(* Namespaces: none of a type, or one. *)
IsSeq(x) == \E T : x \in Seq(T)

Has(ns, typ, wanted) ==
  /\ \A i \in DOMAIN ns : ns[i].typ = typ => ns[i].path \in wanted
  /\ \A p \in wanted : \E i \in DOMAIN ns : ns[i].typ = typ /\ ns[i].path = p
  /\ \A i, j \in DOMAIN ns : ns[i].typ = typ /\ ns[j].typ = typ => i = j

LEMMA WithoutHas ==
  ASSUME NEW ns, IsSeq(ns), NEW typ
  PROVE  /\ IsSeq(Without(ns, typ)) /\ Has(Without(ns, typ), typ, {})
         /\ \A t, w : t # typ /\ Has(ns, t, w) => Has(Without(ns, typ), t, w)
  <1>1. PICK T : ns \in Seq(T)
    BY DEF IsSeq
  <1> DEFINE keep == {i \in DOMAIN ns : ns[i].typ # typ}
             ss == [i \in DOMAIN ns |-> IF i \in keep THEN <<ns[i]>> ELSE <<>>]
             r == FlattenSeq(ss)
             n == Len(ns)
  <1>2. Without(ns, typ) = r
    <2>1. ss = [i \in DOMAIN ns |-> IF ns[i].typ # typ THEN <<ns[i]>> ELSE <<>>]
      OBVIOUS
    <2> QED BY <2>1 DEF Without, Retain
  <1>3. r \in Seq(T) /\ \E e : Embeds(e, r, ns, keep \cap (1..n))
    <2> HIDE DEF keep
    <2> QED BY <1>1, KeptEmbeds
  <1>4. DOMAIN ns = 1..n /\ n \in Nat /\ DOMAIN r = 1..Len(r) /\ Len(r) \in Nat
    BY <1>1, <1>3
  <1>k. keep \cap (1..n) = keep
    BY <1>4
  <1> HIDE DEF r, ss
  <1>5. PICK e : Embeds(e, r, ns, keep)
    BY <1>3, <1>k
  <1>6. /\ e \in [1..Len(r) -> keep]
        /\ \A j \in 1..Len(r) : r[j] = ns[e[j]]
        /\ \A i \in keep : \E j \in 1..Len(r) : e[j] = i
        /\ \A j, k \in 1..Len(r) : j < k => e[j] < e[k]
    BY <1>5 DEF Embeds
  <1>i. ASSUME NEW j \in 1..Len(r), NEW k \in 1..Len(r), e[j] = e[k] PROVE j = k
    <2>1. e[j] \in 1..n /\ e[k] \in 1..n
      BY <1>4, <1>6
    <2> QED BY <1>4, <1>6, <1>i, <2>1
  <1>7. Has(r, typ, {})
    BY <1>4, <1>6 DEF Has
  <1>8. ASSUME NEW t, NEW w, t # typ, Has(ns, t, w) PROVE Has(r, t, w)
    <2>1. \A i \in 1..Len(r) : e[i] \in DOMAIN ns /\ r[i] = ns[e[i]]
      BY <1>6
    <2>2. \A i \in DOMAIN r : r[i].typ = t => r[i].path \in w
      BY <1>4, <1>8, <2>1 DEF Has
    <2>3. \A p \in w : \E i \in DOMAIN r : r[i].typ = t /\ r[i].path = p
      <3> TAKE p \in w
      <3>1. PICK i \in DOMAIN ns : ns[i].typ = t /\ ns[i].path = p
        BY <1>8 DEF Has
      <3>2. i \in keep
        BY <1>8, <3>1
      <3> QED BY <1>4, <1>6, <3>1, <3>2
    <2>4. ASSUME NEW i \in DOMAIN r, NEW j \in DOMAIN r, r[i].typ = t, r[j].typ = t PROVE i = j
      <3>1. e[i] = e[j]
        BY <1>4, <1>8, <2>1, <2>4 DEF Has
      <3> QED BY <1>4, <1>i, <3>1
    <2> QED BY <2>2, <2>3, <2>4 DEF Has
  <1> QED BY <1>2, <1>3, <1>7, <1>8 DEF IsSeq

LEMMA AppendHas ==
  ASSUME NEW ns, IsSeq(ns), NEW typ, NEW path
  PROVE  LET r == Append(ns, [typ |-> typ, path |-> path]) IN
         /\ IsSeq(r)
         /\ Has(ns, typ, {}) => Has(r, typ, {path})
         /\ \A t, w : t # typ /\ Has(ns, t, w) => Has(r, t, w)
  <1> DEFINE x == [typ |-> typ, path |-> path]
             r == Append(ns, x)
             n == Len(ns)
  <1>1. PICK T : ns \in Seq(T)
    BY DEF IsSeq
  <1>x. x.typ = typ /\ x.path = path
    OBVIOUS
  <1> HIDE DEF x
  <1>2. r \in Seq(T \cup {x}) /\ n \in Nat /\ DOMAIN ns = 1..n
    BY <1>1
  <1>3. DOMAIN r = 1..(n + 1) /\ r[n + 1] = x /\ \A i \in 1..n : r[i] = ns[i] /\ i # n + 1 /\ i \in DOMAIN r
    BY <1>1
  <1> HIDE DEF r
  <1>4. n + 1 \in DOMAIN r /\ \A i \in DOMAIN r : i \in 1..n \/ i = n + 1
    BY <1>2, <1>3
  <1>5. Has(ns, typ, {}) => Has(r, typ, {path})
    BY <1>x, <1>2, <1>3, <1>4 DEF Has
  <1>6. ASSUME NEW t, NEW w, t # typ, Has(ns, t, w) PROVE Has(r, t, w)
    BY <1>x, <1>2, <1>3, <1>4, <1>6 DEF Has
  <1> QED BY <1>2, <1>5, <1>6 DEF IsSeq, r, x

LEMMA HasCounts ==
  ASSUME NEW ns, NEW typ, NEW wanted, Has(ns, typ, wanted), wanted = {} \/ \E p : wanted = {p}
  PROVE  LET is == {i \in DOMAIN ns : ns[i].typ = typ} IN
         Cardinality(is) = Cardinality(wanted) /\ {ns[i].path : i \in is} = wanted
  <1> DEFINE is == {i \in DOMAIN ns : ns[i].typ = typ}
  <1>1. CASE wanted = {}
    <2>1. is = {}
      BY <1>1 DEF Has
    <2> QED BY <1>1, <2>1
  <1>2. CASE wanted # {}
    <2>1. PICK p : wanted = {p}
      BY <1>2
    <2>2. PICK k \in DOMAIN ns : ns[k].typ = typ /\ ns[k].path = p
      BY <2>1 DEF Has
    <2>3. is = {k}
      BY <2>2 DEF Has
    <2>4. Cardinality(is) = 1 /\ Cardinality(wanted) = 1
      BY <2>1, <2>3, FS_Singleton
    <2>5. {ns[i].path : i \in is} = {p}
      BY <2>2, <2>3
    <2> QED BY <2>1, <2>4, <2>5
  <1> QED BY <1>1, <1>2
LEMMA BaseHas ==
  ASSUME NEW ids
  PROVE  LET ns == BaseSpec(ids).ns IN
         /\ IsSeq(ns) /\ Has(ns, "pid", {None}) /\ Has(ns, "ipc", {None})
         /\ \E w : Has(ns, "network", w)
         /\ Has(ns, "user", IF ids = None THEN {} ELSE {None})
  <1> DEFINE kinds == IF ids = None THEN <<"pid", "network", "ipc", "uts", "mount", "cgroup">>
                      ELSE <<"pid", "ipc", "uts", "mount", "cgroup", "user">>
             ns == [i \in DOMAIN kinds |-> Private(kinds[i])]
  <1>1. ns = BaseSpec(ids).ns
    BY DEF BaseSpec
  <1>2. DOMAIN kinds = 1..6
    <2>1. CASE ids = None
      BY <2>1
    <2>2. CASE ids # None
      BY <2>2
    <2> QED BY <2>1, <2>2
  <1>3. DOMAIN ns = 1..6 /\ \A i \in 1..6 : ns[i].typ = kinds[i] /\ ns[i].path = None
    BY <1>2 DEF Private
  <1>4. IsSeq(ns)
    <2>1. ns \in Seq({ns[i] : i \in 1..6})
      BY <1>3
    <2> QED BY <2>1 DEF IsSeq
  <1> DEFINE Is(i, t) == i \in 1..6 /\ kinds[i] = t
  <1>5. ASSUME NEW t, NEW k, Is(k, t), \A i : Is(i, t) => i = k PROVE Has(ns, t, {None})
    BY <1>3, <1>5 DEF Has
  <1>6. ASSUME NEW t, \A i : ~ Is(i, t) PROVE Has(ns, t, {})
    BY <1>3, <1>6 DEF Has
  <1>s. 1..6 = {1, 2, 3, 4, 5, 6}
    OBVIOUS
  <1>7. CASE ids = None
    <2>1. /\ kinds[1] = "pid" /\ kinds[2] = "network" /\ kinds[3] = "ipc"
          /\ kinds[4] = "uts" /\ kinds[5] = "mount" /\ kinds[6] = "cgroup"
      BY <1>7
    <2> HIDE DEF ns, kinds
    <2>2. Has(ns, "pid", {None})
      <3>1. Is(1, "pid") /\ \A i : Is(i, "pid") => i = 1
        BY <1>s, <2>1
      <3> QED BY <1>5, <3>1
    <2>3. Has(ns, "ipc", {None})
      <3>1. Is(3, "ipc") /\ \A i : Is(i, "ipc") => i = 3
        BY <1>s, <2>1
      <3> QED BY <1>5, <3>1
    <2>4. Has(ns, "network", {None})
      <3>1. Is(2, "network") /\ \A i : Is(i, "network") => i = 2
        BY <1>s, <2>1
      <3> QED BY <1>5, <3>1
    <2>5. Has(ns, "user", {})
      <3>1. \A i : ~ Is(i, "user")
        BY <1>s, <2>1
      <3> QED BY <1>6, <3>1
    <2> QED BY <1>1, <1>4, <1>7, <2>2, <2>3, <2>4, <2>5
  <1>8. CASE ids # None
    <2>1. /\ kinds[1] = "pid" /\ kinds[2] = "ipc" /\ kinds[3] = "uts"
          /\ kinds[4] = "mount" /\ kinds[5] = "cgroup" /\ kinds[6] = "user"
      BY <1>8
    <2> HIDE DEF ns, kinds
    <2>2. Has(ns, "pid", {None})
      <3>1. Is(1, "pid") /\ \A i : Is(i, "pid") => i = 1
        BY <1>s, <2>1
      <3> QED BY <1>5, <3>1
    <2>3. Has(ns, "ipc", {None})
      <3>1. Is(2, "ipc") /\ \A i : Is(i, "ipc") => i = 2
        BY <1>s, <2>1
      <3> QED BY <1>5, <3>1
    <2>4. Has(ns, "network", {})
      <3>1. \A i : ~ Is(i, "network")
        BY <1>s, <2>1
      <3> QED BY <1>6, <3>1
    <2>5. Has(ns, "user", {None})
      <3>1. Is(6, "user") /\ \A i : Is(i, "user") => i = 6
        BY <1>s, <2>1
      <3> QED BY <1>5, <3>1
    <2> QED BY <1>1, <1>4, <1>8, <2>2, <2>3, <2>4, <2>5
  <1> QED BY <1>7, <1>8

LEMMA JoinHas ==
  ASSUME NEW spec, IsSpec(spec), IsSeq(spec.ns), NEW typ, NEW path
  PROVE  LET x == join_namespace(spec, typ, path) IN
         /\ Edits(spec, x, {"ns"}) /\ IsSpec(x) /\ IsSeq(x.ns)
         /\ path # None => Has(x.ns, typ, {path})
         /\ \A w : path = None /\ Has(spec.ns, typ, w) => Has(x.ns, typ, w)
         /\ \A t, w : t # typ /\ Has(spec.ns, t, w) => Has(x.ns, t, w)
  <1> DEFINE x == join_namespace(spec, typ, path)
  <1>1. CASE path = None
    <2>1. x = spec
      BY <1>1 DEF join_namespace
    <2> QED BY <1>1, <2>1, EditSelf
  <1>2. CASE path # None
    <2> DEFINE rest == Without(spec.ns, typ)
               v == Append(rest, [typ |-> typ, path |-> path])
    <2>1. x = [spec EXCEPT !.ns = v]
      BY <1>2 DEF join_namespace
    <2>2. IsSeq(rest) /\ Has(rest, typ, {}) /\ \A t, w : t # typ /\ Has(spec.ns, t, w) => Has(rest, t, w)
      BY WithoutHas
    <2> HIDE DEF rest
    <2>3. IsSeq(v) /\ Has(v, typ, {path}) /\ \A t, w : t # typ /\ Has(rest, t, w) => Has(v, t, w)
      BY <2>2, AppendHas
    <2> HIDE DEF v
    <2>4. Edits(spec, x, {"ns"}) /\ x.ns = v
      BY <2>1, EditNs
    <2> HIDE DEF x
    <2>5. IsSpec(x)
      BY <2>4 DEF Edits
    <2> QED BY <1>2, <2>2, <2>3, <2>4, <2>5 DEF x
  <1> QED BY <1>1, <1>2

LEMMA NetworkHas ==
  ASSUME NEW spec, IsSpec(spec), IsSeq(spec.ns), NEW path
  PROVE  LET x == set_network_namespace(spec, path) IN
         /\ Edits(spec, x, {"ns"}) /\ IsSpec(x) /\ IsSeq(x.ns)
         /\ Has(x.ns, "network", IF path \in {None, "host"} THEN {} ELSE {path})
         /\ \A t, w : t # "network" /\ Has(spec.ns, t, w) => Has(x.ns, t, w)
  <1> DEFINE x == set_network_namespace(spec, path)
  <1>1. CASE path \in {None, "host"}
    <2> DEFINE v == Without(spec.ns, "network")
    <2>1. x = [spec EXCEPT !.ns = v]
      BY <1>1 DEF set_network_namespace
    <2>2. IsSeq(v) /\ Has(v, "network", {}) /\ \A t, w : t # "network" /\ Has(spec.ns, t, w) => Has(v, t, w)
      BY WithoutHas
    <2> HIDE DEF v
    <2>3. Edits(spec, x, {"ns"}) /\ x.ns = v
      BY <2>1, EditNs
    <2> HIDE DEF x
    <2>4. IsSpec(x)
      BY <2>3 DEF Edits
    <2> QED BY <1>1, <2>2, <2>3, <2>4 DEF x
  <1>2. CASE path \notin {None, "host"}
    <2>1. x = join_namespace(spec, "network", path) /\ path # None
      BY <1>2 DEF set_network_namespace
    <2> QED BY <1>2, <2>1, JoinHas
  <1> QED BY <1>1, <1>2

LEMMA HostHas ==
  ASSUME NEW spec, IsSpec(spec), IsSeq(spec.ns), NEW hostPid, NEW hostIpc
  PROVE  LET x == apply_host_namespaces(spec, hostPid, hostIpc) IN
         /\ Edits(spec, x, {"ns"}) /\ IsSpec(x) /\ IsSeq(x.ns)
         /\ \A w : Has(spec.ns, "pid", w) => Has(x.ns, "pid", IF hostPid THEN {} ELSE w)
         /\ \A w : Has(spec.ns, "ipc", w) => Has(x.ns, "ipc", IF hostIpc THEN {} ELSE w)
         /\ \A t, w : t \notin {"pid", "ipc"} /\ Has(spec.ns, t, w) => Has(x.ns, t, w)
  <1> DEFINE noPid == IF hostPid THEN Without(spec.ns, "pid") ELSE spec.ns
             v == IF hostIpc THEN Without(noPid, "ipc") ELSE noPid
             x == apply_host_namespaces(spec, hostPid, hostIpc)
  <1>1. /\ IsSeq(noPid)
        /\ \A w : Has(spec.ns, "pid", w) => Has(noPid, "pid", IF hostPid THEN {} ELSE w)
        /\ \A t, w : t # "pid" /\ Has(spec.ns, t, w) => Has(noPid, t, w)
    BY WithoutHas
  <1> HIDE DEF noPid
  <1>2. /\ IsSeq(v)
        /\ \A w : Has(noPid, "ipc", w) => Has(v, "ipc", IF hostIpc THEN {} ELSE w)
        /\ \A t, w : t # "ipc" /\ Has(noPid, t, w) => Has(v, t, w)
    BY <1>1, WithoutHas
  <1> HIDE DEF v
  <1>3. x = [spec EXCEPT !.ns = v]
    BY DEF apply_host_namespaces, v, noPid
  <1>4. Edits(spec, x, {"ns"}) /\ x.ns = v
    BY <1>3, EditNs
  <1> HIDE DEF x
  <1>5. IsSpec(x)
    BY <1>4 DEF Edits
  <1>6. \A w : Has(spec.ns, "pid", w) => Has(v, "pid", IF hostPid THEN {} ELSE w)
    BY <1>1, <1>2
  <1>7. \A w : Has(spec.ns, "ipc", w) => Has(v, "ipc", IF hostIpc THEN {} ELSE w)
    BY <1>1, <1>2
  <1>8. \A t, w : t \notin {"pid", "ipc"} /\ Has(spec.ns, t, w) => Has(v, t, w)
    BY <1>1, <1>2
  <1> QED BY <1>2, <1>4, <1>5, <1>6, <1>7, <1>8 DEF x

LEMMA UserHas ==
  ASSUME NEW spec, IsSpec(spec), IsSeq(spec.ns), NEW uids, NEW gids,
         Has(spec.ns, "user", {}) \/ Has(spec.ns, "user", {None})
  PROVE  LET x == apply_user_namespace(spec, uids, gids) IN
         /\ Edits(spec, x, {"ns", "uid_mappings", "gid_mappings"}) /\ IsSpec(x) /\ IsSeq(x.ns)
         /\ uids = <<>> /\ gids = <<>> => x = spec
         /\ uids # <<>> \/ gids # <<>> =>
              Has(x.ns, "user", {None}) /\ x.uid_mappings = uids /\ x.gid_mappings = gids
         /\ \A t, w : t # "user" /\ Has(spec.ns, t, w) => Has(x.ns, t, w)
  <1> DEFINE x == apply_user_namespace(spec, uids, gids)
             some == \E i \in DOMAIN spec.ns : spec.ns[i].typ = "user"
             v == IF some THEN spec.ns ELSE Append(spec.ns, Private("user"))
  <1>1. CASE uids = <<>> /\ gids = <<>>
    <2>1. x = spec
      BY <1>1 DEF apply_user_namespace
    <2> QED BY <1>1, <2>1, EditSelf
  <1>2. CASE uids # <<>> \/ gids # <<>>
    <2>1. x = [spec EXCEPT !.uid_mappings = uids, !.gid_mappings = gids, !.ns = v]
      <3>1. [spec EXCEPT !.uid_mappings = uids, !.gid_mappings = gids].ns = spec.ns
        BY DEF IsSpec, SpecFields
      <3>2. x = [spec EXCEPT !.uid_mappings = uids, !.gid_mappings = gids,
                   !.ns = IF \E i \in DOMAIN @ : @[i].typ = "user" THEN @ ELSE Append(@, Private("user"))]
        BY <1>2 DEF apply_user_namespace
      <3> QED BY <3>1, <3>2
    <2>2. IsSeq(v) /\ Has(v, "user", {None}) /\ \A t, w : t # "user" /\ Has(spec.ns, t, w) => Has(v, t, w)
      <3>1. CASE some
        BY <3>1 DEF Has
      <3>2. CASE ~ some
        <4>1. Has(spec.ns, "user", {})
          BY <3>2 DEF Has
        <4>2. v = Append(spec.ns, [typ |-> "user", path |-> None])
          BY <3>2 DEF Private
        <4> HIDE DEF v
        <4> QED BY <4>1, <4>2, AppendHas
      <3> QED BY <3>1, <3>2
    <2> DEFINE y == [spec EXCEPT !.uid_mappings = uids, !.gid_mappings = gids, !.ns = v]
    <2> HIDE DEF v, x
    <2>3. /\ Edits(spec, y, {"ns", "uid_mappings", "gid_mappings"})
          /\ y.uid_mappings = uids /\ y.gid_mappings = gids /\ y.ns = v
      BY DEF IsSpec, Edits, SpecFields
    <2>5. x = y
      BY <2>1
    <2> HIDE DEF y
    <2>4. IsSpec(x)
      BY <2>3, <2>5 DEF Edits
    <2> QED BY <1>2, <2>2, <2>3, <2>4, <2>5 DEF x
  <1> QED BY <1>1, <1>2
LEMMA NamespacesHas ==
  ASSUME NEW image, NEW req
  PROVE  LET w == WithProcess(image, req)
             x == WithNamespaces(w, req)
             remap == req.userns_uid_mappings # <<>> \/ req.userns_gid_mappings # <<>> IN
         /\ Edits(w, x, {"ns", "uid_mappings", "gid_mappings"}) /\ IsSpec(x)
         /\ Has(x.ns, "network", IF req.netns_path \in {None, "host"} THEN {} ELSE {req.netns_path})
         /\ Has(x.ns, "pid", IF req.pid_ns_path # None THEN {req.pid_ns_path}
                             ELSE IF req.host_pid THEN {} ELSE {None})
         /\ Has(x.ns, "ipc", IF req.ipc_ns_path # None THEN {req.ipc_ns_path}
                             ELSE IF req.host_ipc THEN {} ELSE {None})
         /\ Has(x.ns, "user", IF req.rootless_host_ids = None /\ ~ remap THEN {} ELSE {None})
         /\ remap => /\ x.uid_mappings = req.userns_uid_mappings
                     /\ x.gid_mappings = req.userns_gid_mappings
  <1> DEFINE w    == WithProcess(image, req)
             net  == set_network_namespace(w, req.netns_path)
             host == apply_host_namespaces(net, req.host_pid, req.host_ipc)
             user == apply_user_namespace(host, req.userns_uid_mappings, req.userns_gid_mappings)
             pid  == join_namespace(user, "pid", req.pid_ns_path)
             x    == join_namespace(pid, "ipc", req.ipc_ns_path)
             remap == req.userns_uid_mappings # <<>> \/ req.userns_gid_mappings # <<>>
             wUser == IF req.rootless_host_ids = None THEN {} ELSE {None}
             wNet == IF req.netns_path \in {None, "host"} THEN {} ELSE {req.netns_path}
  <1>x. x = WithNamespaces(w, req)
    BY DEF WithNamespaces
  <1>1. /\ IsSpec(w) /\ IsSeq(w.ns) /\ Has(w.ns, "pid", {None}) /\ Has(w.ns, "ipc", {None})
        /\ Has(w.ns, "user", wUser)
    <2> DEFINE b == BaseSpec(req.rootless_host_ids)
    <2>1. IsSpec(w) /\ w.ns = b.ns
      BY WithProcessFields DEF SpecFields
    <2> QED BY <2>1, BaseHas
  <1> HIDE DEF w
  <1>2. /\ Edits(w, net, {"ns"}) /\ IsSpec(net) /\ IsSeq(net.ns)
        /\ Has(net.ns, "pid", {None}) /\ Has(net.ns, "ipc", {None}) /\ Has(net.ns, "user", wUser)
        /\ Has(net.ns, "network", wNet)
    BY <1>1, NetworkHas
  <1> HIDE DEF net
  <1> DEFINE wPid == IF req.host_pid THEN {} ELSE {None}
             wIpc == IF req.host_ipc THEN {} ELSE {None}
  <1>3. /\ Edits(net, host, {"ns"}) /\ IsSpec(host) /\ IsSeq(host.ns)
        /\ Has(host.ns, "pid", wPid) /\ Has(host.ns, "ipc", wIpc) /\ Has(host.ns, "user", wUser)
        /\ Has(host.ns, "network", wNet)
    BY <1>2, HostHas
  <1> HIDE DEF host, wPid, wIpc, wNet
  <1>4. /\ Edits(host, user, {"ns", "uid_mappings", "gid_mappings"}) /\ IsSpec(user) /\ IsSeq(user.ns)
        /\ Has(user.ns, "pid", wPid) /\ Has(user.ns, "ipc", wIpc) /\ Has(user.ns, "network", wNet)
        /\ ~ remap => user = host
        /\ remap => /\ Has(user.ns, "user", {None})
                    /\ user.uid_mappings = req.userns_uid_mappings
                    /\ user.gid_mappings = req.userns_gid_mappings
    <2>1. Has(host.ns, "user", {}) \/ Has(host.ns, "user", {None})
      BY <1>3
    <2> DEFINE uids == req.userns_uid_mappings
               gids == req.userns_gid_mappings
    <2> HIDE DEF wUser, uids, gids
    <2>2. LET y == apply_user_namespace(host, uids, gids) IN
          /\ Edits(host, y, {"ns", "uid_mappings", "gid_mappings"}) /\ IsSpec(y) /\ IsSeq(y.ns)
          /\ uids = <<>> /\ gids = <<>> => y = host
          /\ uids # <<>> \/ gids # <<>> =>
               Has(y.ns, "user", {None}) /\ y.uid_mappings = uids /\ y.gid_mappings = gids
          /\ \A t, v : t # "user" /\ Has(host.ns, t, v) => Has(y.ns, t, v)
      BY <1>3, <2>1, UserHas
    <2>3. user = apply_user_namespace(host, uids, gids) /\ (remap <=> uids # <<>> \/ gids # <<>>)
      BY DEF uids, gids
    <2>4. uids = req.userns_uid_mappings /\ gids = req.userns_gid_mappings
      BY DEF uids, gids
    <2> HIDE DEF user, remap
    <2> QED BY <1>3, <2>2, <2>3, <2>4
  <1>5. Has(user.ns, "user", IF req.rootless_host_ids = None /\ ~ remap THEN {} ELSE {None})
    BY <1>3, <1>4
  <1> HIDE DEF user, wUser
  <1> DEFINE vUser == IF req.rootless_host_ids = None /\ ~ remap THEN {} ELSE {None}
             vPid == IF req.pid_ns_path # None THEN {req.pid_ns_path} ELSE wPid
             vIpc == IF req.ipc_ns_path # None THEN {req.ipc_ns_path} ELSE wIpc
  <1>6. /\ Edits(user, pid, {"ns"}) /\ IsSpec(pid) /\ IsSeq(pid.ns)
        /\ Has(pid.ns, "pid", vPid) /\ Has(pid.ns, "ipc", wIpc) /\ Has(pid.ns, "network", wNet)
        /\ Has(pid.ns, "user", vUser)
    <2> HIDE DEF vUser
    <2> QED BY <1>4, <1>5, JoinHas DEF vUser
  <1> HIDE DEF pid, vPid
  <1>7. /\ Edits(pid, x, {"ns"}) /\ IsSpec(x) /\ IsSeq(x.ns)
        /\ Has(x.ns, "pid", vPid) /\ Has(x.ns, "ipc", vIpc) /\ Has(x.ns, "network", wNet)
        /\ Has(x.ns, "user", vUser)
    BY <1>6, JoinHas
  <1> HIDE DEF x, vIpc, vUser
  <1>8. Edits(w, x, {"ns", "uid_mappings", "gid_mappings"})
    BY <1>2, <1>3, <1>4, <1>6, <1>7 DEF Edits
  <1>9. x.uid_mappings = user.uid_mappings /\ x.gid_mappings = user.gid_mappings
    BY <1>6, <1>7 DEF Edits, SpecFields
  <1> QED BY <1>x, <1>4, <1>7, <1>8, <1>9 DEF w, wNet, vPid, vIpc, vUser, wPid, wIpc

(* What the whole chain of generate_spec leaves in each field. *)
LEMMA GenerateFields ==
  ASSUME NEW image, NEW req
  PROVE  LET base == BaseSpec(req.rootless_host_ids)
             n == WithNamespaces(WithProcess(image, req), req)
             x == generate_spec(image, req)
             prop == FoldLeft(RootPropagation, None, req.mounts)
             kept == FoldLeft(DropCap, default_capabilities, req.drop_capabilities)
             caps == FoldLeft(AddCap, kept, req.add_capabilities)
             some == req.add_capabilities # <<>> \/ req.drop_capabilities # <<>>
             limited == req.cgroup_path # None /\ req.resources # Resources0 IN
         /\ x.ns = n.ns /\ x.uid_mappings = n.uid_mappings /\ x.gid_mappings = n.gid_mappings
         /\ x.mounts = <<>> \o [i \in DOMAIN req.mounts |->
                                  [source      |-> req.mounts[i].source,
                                   destination |-> req.mounts[i].destination,
                                   options     |-> MountOptions(req.mounts[i])]]
         /\ x.propagation = IF prop # None THEN prop ELSE None
         /\ x.cgroups_path = req.cgroup_path
         /\ ~ limited => x.resources.cpu = None
         /\ limited =>
              /\ x.resources.cpu = CpuLimits(req.resources)
              /\ x.resources.memory = OrElse(req.resources.memory, None)
         /\ req.privileged =>
              /\ x.process.caps = build_caps(all_capabilities, all_capabilities)
              /\ x.seccomp = None /\ x.resources.devices = <<AllowAll>>
         /\ ~ req.privileged =>
              /\ x.process.caps = IF some THEN build_caps(caps, caps)
                                  ELSE build_caps(default_capabilities, {})
              /\ req.seccomp.kind = "Unconfined" => x.seccomp = None
              /\ req.seccomp.kind = "RuntimeDefault" =>
                   x.seccomp = runtime_default(x.process.caps.bounding)
              /\ req.seccomp.kind = "Localhost" => x.seccomp = req.seccomp.path
              /\ x.resources.devices = base.resources.devices \o [i \in DOMAIN req.devices |->
                         [allow  |-> TRUE,
                          dev    |-> stat_device(req.devices[i].host).dev,
                          access |-> sanitize_device_access(req.devices[i].permissions)]]
  <1> DEFINE base == BaseSpec(req.rootless_host_ids)
             w == WithProcess(image, req)
             n == WithNamespaces(w, req)
             b == add_bind_mounts(n, req.mounts)
             c == WithCgroup(b, req)
             p == WithPrivileges(c, req)
             x == apply_sysctls(p, req.sysctls)
             prop == FoldLeft(RootPropagation, None, req.mounts)
             mounts == [i \in DOMAIN req.mounts |->
                          [source      |-> req.mounts[i].source,
                           destination |-> req.mounts[i].destination,
                           options     |-> MountOptions(req.mounts[i])]]
             kept == FoldLeft(DropCap, default_capabilities, req.drop_capabilities)
             caps == FoldLeft(AddCap, kept, req.add_capabilities)
             some == req.add_capabilities # <<>> \/ req.drop_capabilities # <<>>
             limited == req.cgroup_path # None /\ req.resources # Resources0
             rules == [i \in DOMAIN req.devices |->
                         [allow  |-> TRUE,
                          dev    |-> stat_device(req.devices[i].host).dev,
                          access |-> sanitize_device_access(req.devices[i].permissions)]]
  <1>x. x = generate_spec(image, req)
    BY DEF generate_spec
  <1>1. /\ IsSpec(w) /\ w.process.caps = build_caps(default_capabilities, {})
        /\ \A f \in SpecFields \ {"process", "root", "hostname"} : w[f] = base[f]
    BY WithProcessFields
  <1>2. Edits(w, n, {"ns", "uid_mappings", "gid_mappings"}) /\ IsSpec(n)
    BY NamespacesHas
  <1>3. /\ n.process.caps = build_caps(default_capabilities, {})
        /\ n.mounts = <<>> /\ n.propagation = None /\ n.seccomp = None /\ n.cgroups_path = None
        /\ n.resources = base.resources /\ base.resources.cpu = None /\ base.resources.memory = None
    BY <1>1, <1>2, BaseFields DEF Edits, SpecFields
  <1>4. /\ Edits(n, b, {"mounts", "propagation"}) /\ IsSpec(b) /\ b.mounts = <<>> \o mounts
        /\ b.propagation = IF prop # None THEN prop ELSE None
    <2> DEFINE v == <<>> \o mounts
               q == IF prop # None THEN prop ELSE None
               y == [n EXCEPT !.mounts = v, !.propagation = q]
    <2>1. b = [n EXCEPT !.mounts = n.mounts \o mounts, !.propagation = IF prop # None THEN prop ELSE n.propagation]
      <3>1. ASSUME NEW a PROVE [n EXCEPT !.mounts = a].propagation = n.propagation
        BY <1>2 DEF IsSpec, SpecFields
      <3> HIDE DEF n
      <3> QED BY <3>1 DEF add_bind_mounts
    <2>2. b = y
      BY <1>3, <2>1
    <2> HIDE DEF v, q, n, b
    <2>3. Edits(n, y, {"mounts", "propagation"}) /\ y.mounts = v /\ y.propagation = q
      BY <1>2 DEF IsSpec, Edits, SpecFields
    <2> HIDE DEF y
    <2> QED BY <2>2, <2>3 DEF v, q, Edits
  <1> HIDE DEF prop, mounts, n, w, base, b
  <1>5. /\ b.ns = n.ns /\ b.uid_mappings = n.uid_mappings /\ b.gid_mappings = n.gid_mappings
        /\ b.process = n.process /\ b.seccomp = None /\ b.cgroups_path = None /\ b.resources = base.resources
    BY <1>3, <1>4 DEF Edits, SpecFields
  <1>6. /\ Edits(b, c, {"resources", "cgroups_path"}) /\ IsSpec(c)
        /\ c.resources.devices = base.resources.devices /\ c.cgroups_path = req.cgroup_path
        /\ ~ limited => c.resources.cpu = None
        /\ limited =>
              /\ c.resources.cpu = CpuLimits(req.resources)
              /\ c.resources.memory = OrElse(req.resources.memory, None)
    <2>1. Edits(b, c, {"resources", "cgroups_path"}) /\ c.resources.devices = b.resources.devices
      BY <1>4, EditCgroup
    <2>2. /\ req.cgroup_path = None => c = b
          /\ req.cgroup_path # None => c.cgroups_path = req.cgroup_path
          /\ ~ limited => c.resources.cpu = b.resources.cpu
          /\ limited => /\ c.resources.cpu = CpuLimits(req.resources)
                        /\ c.resources.memory = OrElse(req.resources.memory, b.resources.memory)
      BY <1>4, EditCgroup
    <2> HIDE DEF c, limited
    <2> QED BY <1>3, <1>5, <2>1, <2>2 DEF Edits
  <1> HIDE DEF c
  <1>7. /\ c.ns = n.ns /\ c.uid_mappings = n.uid_mappings /\ c.gid_mappings = n.gid_mappings
        /\ c.process.caps = build_caps(default_capabilities, {}) /\ c.seccomp = None
        /\ c.mounts = <<>> \o mounts /\ c.propagation = IF prop # None THEN prop ELSE None
    BY <1>3, <1>4, <1>5, <1>6 DEF Edits, SpecFields
  <1>8. /\ Edits(c, p, {"process", "masked", "readonly", "seccomp", "devices", "resources"}) /\ IsSpec(p)
        /\ p.resources.cpu = c.resources.cpu /\ p.resources.memory = c.resources.memory
        /\ req.privileged =>
              /\ p.process.caps = build_caps(all_capabilities, all_capabilities)
              /\ p.seccomp = None /\ p.resources.devices = <<AllowAll>>
        /\ ~ req.privileged =>
              /\ p.process.caps = IF some THEN build_caps(caps, caps)
                                  ELSE build_caps(default_capabilities, {})
              /\ req.seccomp.kind = "Unconfined" => p.seccomp = None
              /\ req.seccomp.kind = "RuntimeDefault" =>
                   p.seccomp = runtime_default(p.process.caps.bounding)
              /\ req.seccomp.kind = "Localhost" => p.seccomp = req.seccomp.path
              /\ p.resources.devices = base.resources.devices \o rules
    <2>1. CASE req.privileged
      <3>1. p = apply_privileged(c)
        BY <2>1 DEF WithPrivileges
      <3> HIDE DEF p
      <3> DEFINE y == apply_privileged(c)
      <3>2. /\ Edits(c, y, {"process", "masked", "readonly", "resources"})
            /\ y.process.caps = build_caps(all_capabilities, all_capabilities)
            /\ y.resources.devices = <<AllowAll>>
            /\ y.resources.cpu = c.resources.cpu /\ y.resources.memory = c.resources.memory
        BY <1>6, EditPrivileged
      <3> HIDE DEF y
      <3>3. y.seccomp = None
        BY <1>7, <3>2 DEF Edits, SpecFields
      <3>4. IsSpec(y) /\ Edits(c, y, {"process", "masked", "readonly", "seccomp", "devices", "resources"})
        BY <3>2 DEF Edits
      <3> QED BY <2>1, <3>1, <3>2, <3>3, <3>4 DEF y
    <2>2. CASE ~ req.privileged
      <3> DEFINE a == apply_capabilities(c, req.add_capabilities, req.drop_capabilities)
                 s == apply_security(a, req)
                 d == apply_devices(s, req.devices)
      <3>1. p = d
        BY <2>2 DEF WithPrivileges
      <3>2. c.process.caps.bounding = default_capabilities
        BY <1>7 DEF build_caps
      <3>3. /\ Edits(c, a, {"process"}) /\ IsSpec(a)
            /\ a.process.caps = IF some THEN build_caps(caps, caps) ELSE build_caps(default_capabilities, {})
        <4> DEFINE e == FoldLeft(AddCap, FoldLeft(DropCap, c.process.caps.bounding, req.drop_capabilities),
                                 req.add_capabilities)
        <4>1. e = caps
          BY <3>2, Zenon
        <4>2. /\ Edits(c, a, {"process"}) /\ ~ some => a = c
          BY <1>6, EditCapabilities
        <4>3. some => a.process.caps = build_caps(e, e)
          BY <1>6, EditCapabilities
        <4>4. Edits(c, a, {"process"})
          BY <1>6, EditCapabilities
        <4> HIDE DEF a, e, caps
        <4> QED BY <1>7, <4>1, <4>2, <4>3, <4>4 DEF Edits
      <3> HIDE DEF a, caps
      <3>4. /\ Edits(a, s, {"process", "masked", "readonly", "seccomp"}) /\ IsSpec(s)
            /\ s.process.caps = a.process.caps
            /\ req.seccomp.kind = "Unconfined" => s.seccomp = a.seccomp
            /\ req.seccomp.kind = "RuntimeDefault" => s.seccomp = runtime_default(a.process.caps.bounding)
            /\ req.seccomp.kind = "Localhost" => s.seccomp = req.seccomp.path
        <4>1. effective_capabilities(a) = a.process.caps.bounding
          BY DEF effective_capabilities
        <4> QED BY <3>3, <4>1, EditSecurity DEF Edits
      <3> HIDE DEF s
      <3>5. a.seccomp = None /\ a.resources = c.resources /\ s.resources = c.resources
        BY <1>7, <3>3, <3>4 DEF Edits, SpecFields
      <3>6. /\ Edits(s, d, {"devices", "resources"}) /\ IsSpec(d)
            /\ d.resources.devices = s.resources.devices \o rules
            /\ d.resources.cpu = s.resources.cpu /\ d.resources.memory = s.resources.memory
        <4>1. Edits(s, d, {"devices", "resources"})
          BY <3>4, EditDevices
        <4>2. /\ d.resources.devices = s.resources.devices \o rules
              /\ d.resources.cpu = s.resources.cpu /\ d.resources.memory = s.resources.memory
          BY <3>4, EditDevices
        <4> HIDE DEF d, rules
        <4> QED BY <4>1, <4>2 DEF Edits
      <3> HIDE DEF d, rules, p
      <3>7. d.process = s.process /\ d.seccomp = s.seccomp
        BY <3>6 DEF Edits, SpecFields
      <3>8. Edits(c, d, {"process", "masked", "readonly", "seccomp", "devices", "resources"})
        BY <3>3, <3>4, <3>6 DEF Edits
      <3> QED BY <1>6, <2>2, <3>1, <3>3, <3>4, <3>5, <3>6, <3>7, <3>8
    <2> QED BY <2>1, <2>2
  <1> HIDE DEF p, rules, caps, some
  <1>9. Edits(p, x, {"sysctl"})
    BY <1>8, EditSysctls
  <1> HIDE DEF x
  <1>10. /\ x.ns = n.ns /\ x.uid_mappings = n.uid_mappings /\ x.gid_mappings = n.gid_mappings
         /\ x.mounts = <<>> \o mounts /\ x.propagation = IF prop # None THEN prop ELSE None
         /\ x.cgroups_path = req.cgroup_path
    BY <1>6, <1>7, <1>8, <1>9 DEF Edits, SpecFields
  <1>11. x.process = p.process /\ x.seccomp = p.seccomp /\ x.resources = p.resources
    BY <1>9 DEF Edits, SpecFields
  <1> QED BY <1>x, <1>6, <1>8, <1>10, <1>11 DEF mounts, prop, n, w, base, rules, caps, some
LEMMA GenerateDevices ==
  ASSUME NEW image, NEW req, ~ req.privileged
  PROVE  generate_spec(image, req).resources.devices =
           BaseSpec(req.rootless_host_ids).resources.devices \o
             [i \in DOMAIN req.devices |->
                [allow |-> TRUE, dev |-> stat_device(req.devices[i].host).dev,
                 access |-> sanitize_device_access(req.devices[i].permissions)]]
  BY GenerateFields, Zenon

-----------------------------------------------------------------------------
(* The request CreateContainer builds, field by field. *)
SandboxOf(a) == sandbox_record(a.pod, a.holder)
RequestOf(a) == container_request(SandboxOf(a), a.config)
ImageOf(a)   == find_image(a.images, a.config.image)

LEMMA SandboxFields ==
  ASSUME NEW a
  PROVE  LET s == SandboxOf(a)
             m == NamespaceModes(a.pod) IN
         /\ s.host_network = m.host_network /\ s.host_pid = m.host_pid /\ s.host_ipc = m.host_ipc
         /\ s.shared_pid = m.shared_pid /\ s.shared_ipc = m.shared_ipc
         /\ s.userns_uid_mappings = m.userns_uid_mappings
         /\ s.userns_gid_mappings = m.userns_gid_mappings
         /\ s.netns_path = IF m.host_network THEN "host" ELSE "netns"
         /\ s.pid_holder_pid = IF m.shared_pid \/ m.shared_ipc THEN a.holder ELSE None
         /\ s.resolv_conf_path = a.pod.resolv /\ s.cgroup_parent = a.pod.cgroup_parent
  <1> DEFINE m == NamespaceModes(a.pod)
             r == [netns_path       |-> IF m.host_network THEN "host" ELSE "netns",
                   pid_holder_pid   |-> IF m.shared_pid \/ m.shared_ipc THEN a.holder ELSE None,
                   resolv_conf_path |-> a.pod.resolv,
                   sysctls          |-> a.pod.sysctls,
                   cgroup_parent    |-> a.pod.cgroup_parent,
                   hostname         |-> a.pod.hostname]
  <1>1. DOMAIN m = {"host_network", "host_pid", "host_ipc", "shared_pid", "shared_ipc",
                    "userns_uid_mappings", "userns_gid_mappings"}
    BY DEF NamespaceModes
  <1>2. SandboxOf(a) = Extend(m, r)
    BY DEF SandboxOf, sandbox_record
  <1>3. DOMAIN r = {"netns_path", "pid_holder_pid", "resolv_conf_path", "sysctls", "cgroup_parent", "hostname"}
    OBVIOUS
  <1>4. /\ r.netns_path = IF m.host_network THEN "host" ELSE "netns"
        /\ r.pid_holder_pid = IF m.shared_pid \/ m.shared_ipc THEN a.holder ELSE None
        /\ r.resolv_conf_path = a.pod.resolv /\ r.cgroup_parent = a.pod.cgroup_parent
    OBVIOUS
  <1> HIDE DEF m, r
  <1>5. \A f \in DOMAIN r : Extend(m, r)[f] = r[f]
    BY DEF Extend
  <1>6. \A f \in DOMAIN m \ DOMAIN r : Extend(m, r)[f] = m[f]
    BY DEF Extend
  <1> QED BY <1>1, <1>2, <1>3, <1>4, <1>5, <1>6 DEF m

LEMMA RequestFields ==
  ASSUME NEW a
  PROVE  LET s == SandboxOf(a)
             req == RequestOf(a) IN
         /\ req.rootless_host_ids = DaemonIds
         /\ req.netns_path = s.netns_path /\ req.host_pid = s.host_pid /\ req.host_ipc = s.host_ipc
         /\ req.pid_ns_path = NsPath(s.shared_pid, s.pid_holder_pid, "pid")
         /\ req.ipc_ns_path = NsPath(s.shared_ipc, s.pid_holder_pid, "ipc")
         /\ req.userns_uid_mappings = s.userns_uid_mappings
         /\ req.userns_gid_mappings = s.userns_gid_mappings
         /\ req.mounts = BundleMounts(s, a.config)
         /\ req.privileged = a.config.privileged
         /\ req.resources = IF a.config.resources = None THEN Resources0 ELSE cri_resources(a.config.resources)
         /\ req.cgroup_path = cgroups_path(s.cgroup_parent)
         /\ req.add_capabilities = a.config.add /\ req.drop_capabilities = a.config.drop
         /\ req.seccomp = map_seccomp(a.config.seccomp)
         /\ req.devices = IF a.config.privileged THEN <<>> ELSE a.config.devices
  BY DEF RequestOf, container_request

(* A bundle is the outcome of all the steps, none of which has failed. *)
LEMMA CreateFields ==
  ASSUME NEW a
  PROVE  LET c == create_container(a) IN
         /\ "error" \in DOMAIN c
         /\ c.error = None =>
              /\ ~ UsernsRejected(a.pod) /\ ~ ConfigRejected(a.config) /\ ~ SpecFails(RequestOf(a))
              /\ Rootfs(ImageOf(a).layers, SandboxOf(a)) # Failed
              /\ c.spec = generate_spec(parse_image_config(ImageOf(a)), RequestOf(a))
              /\ c = [error |-> None, rootfs |-> Rootfs(ImageOf(a).layers, SandboxOf(a)),
                      record |-> StatusRecord(ImageOf(a), a.config),
                      spec |-> c.spec, cgroup |-> CgroupOf(c.spec)]
  <1> DEFINE rootfs == Rootfs(ImageOf(a).layers, SandboxOf(a))
             spec == generate_spec(parse_image_config(ImageOf(a)), RequestOf(a))
             rec == StatusRecord(ImageOf(a), a.config)
             done == [error |-> None, rootfs |-> rootfs, record |-> rec, spec |-> spec, cgroup |-> CgroupOf(spec)]
  <1>1. create_container(a) =
           IF UsernsRejected(a.pod) THEN [error |-> "pod"]
           ELSE IF ConfigRejected(a.config) THEN [error |-> "config"]
           ELSE IF rootfs = Failed THEN [error |-> "layers"]
           ELSE IF SpecFails(RequestOf(a)) THEN [error |-> "spec"]
           ELSE done
    BY DEF create_container, ImageOf, SandboxOf, RequestOf
  <1>2. None \notin {"pod", "config", "layers", "spec"}
    BY BundleAssumption
  <1>3. done.spec = spec
    OBVIOUS
  <1> HIDE DEF rootfs, spec, rec
  <1>4. "error" \in DOMAIN create_container(a)
    BY <1>1
  <1>5. ASSUME create_container(a).error = None
        PROVE  create_container(a) = done /\ ~ UsernsRejected(a.pod) /\ ~ ConfigRejected(a.config)
               /\ rootfs # Failed /\ ~ SpecFails(RequestOf(a))
    BY <1>1, <1>2, <1>5
  <1> QED BY <1>3, <1>4, <1>5 DEF rootfs, spec, rec

IsAsked(a) == \E family \in DOMAIN Asks : a \in Asks[family]

LEMMA AskedIsRequest == ASSUME NEW a, IsAsked(a) PROVE IsRequest(a)
  BY BundleAssumption DEF IsAsked

(* The bundle in `made' is the one made for the last request, but for its
   limits, which the resizes change. *)
Bundled ==
  LET c == create_container(asked) IN
  asked # None =>
    /\ IsAsked(asked) /\ made.error = c.error
    /\ c.error = None =>
         /\ made = [error |-> None, rootfs |-> c.rootfs, record |-> made.record, spec |-> c.spec,
                    cgroup |-> made.cgroup]
         /\ made.record = [image_id |-> ImageOf(asked).id, mounts |-> asked.config.mounts,
                           resources |-> made.record.resources, devices |-> made.record.devices]

LEMMA BundledStays == Init => Bundled
  BY DEF Init, Bundled

LEMMA CreateBundles ==
  ASSUME NEW a, IsAsked(a), CreateContainer(a)
  PROVE  Bundled'
  <1> DEFINE c == create_container(a)
             rec == StatusRecord(ImageOf(a), a.config)
  <1>1. asked' = a /\ made' = c
    BY DEF CreateContainer
  <1>2. "error" \in DOMAIN c /\ (c.error = None =>
          c = [error |-> None, rootfs |-> Rootfs(ImageOf(a).layers, SandboxOf(a)), record |-> rec,
               spec |-> c.spec, cgroup |-> CgroupOf(c.spec)])
    BY CreateFields
  <1>3. rec = [image_id |-> ImageOf(a).id, mounts |-> a.config.mounts, resources |-> rec.resources,
               devices |-> rec.devices]
    BY DEF StatusRecord
  <1> HIDE DEF c, rec
  <1>4. create_container(asked)' = c
    BY <1>1 DEF c
  <1>5. c.error = None => c = [error |-> None, rootfs |-> c.rootfs, record |-> c.record, spec |-> c.spec,
                               cgroup |-> c.cgroup] /\ c.record = rec
    BY <1>2
  <1>6. ImageOf(asked)' = ImageOf(a) /\ IsAsked(asked)'
    BY <1>1
  <1> QED BY <1>1, <1>3, <1>4, <1>5, <1>6 DEF Bundled

LEMMA ResizeBundles ==
  ASSUME Bundled, UpdateContainerResources
  PROVE  LET linux == asked.resizes[resized + 1]
             res == IF linux = None THEN Resources0 ELSE cri_resources(linux) IN
         /\ Bundled' /\ asked' = asked /\ made'.spec = made.spec /\ Done'
         /\ made'.cgroup = Extend(made.cgroup, update_args(res))
         /\ made'.record.resources = IF linux = None THEN made.record.resources ELSE resources_record(linux)
  <1> DEFINE linux == asked.resizes[resized + 1]
             res == IF linux = None THEN Resources0 ELSE cri_resources(linux)
             cg == Extend(made.cgroup, update_args(res))
             rs == IF linux = None THEN made.record.resources ELSE resources_record(linux)
             c == create_container(asked)
  <1>1. Done /\ asked' = asked
    BY DEF UpdateContainerResources
  <1>2. /\ IsAsked(asked) /\ made.error = c.error /\ c.error = None
        /\ made = [error |-> None, rootfs |-> c.rootfs, record |-> made.record, spec |-> c.spec,
                   cgroup |-> made.cgroup]
        /\ made.record = [image_id |-> ImageOf(asked).id, mounts |-> asked.config.mounts,
                          resources |-> made.record.resources, devices |-> made.record.devices]
    BY <1>1 DEF Bundled, Done
  <1>3. made' = [made EXCEPT !.cgroup = cg, !.record.resources = rs]
    <2>1. made' = [made EXCEPT !.cgroup = cg,
                               !.record.resources = IF linux = None THEN @ ELSE resources_record(linux)]
      BY DEF UpdateContainerResources
    <2>2. [made EXCEPT !.cgroup = cg].record = made.record
      BY <1>2
    <2> QED BY <2>1, <2>2
  <1> HIDE DEF cg, rs, c, res, linux
  <1>4. c' = c /\ ImageOf(asked)' = ImageOf(asked) /\ IsAsked(asked)'
    BY <1>1, <1>2 DEF c
  <1>5. made' = [error |-> None, rootfs |-> c.rootfs, record |-> made'.record, spec |-> c.spec, cgroup |-> cg]
        /\ made'.record = [made.record EXCEPT !.resources = rs]
    <2> DEFINE R == made.record
               G == made.cgroup
    <2>1. made = [error |-> None, rootfs |-> c.rootfs, record |-> R, spec |-> c.spec, cgroup |-> G]
      BY <1>2
    <2> HIDE DEF R, G
    <2>2. made' = [error |-> None, rootfs |-> c.rootfs, record |-> [R EXCEPT !.resources = rs],
                   spec |-> c.spec, cgroup |-> cg]
      BY <1>3, <2>1
    <2> QED BY <2>2 DEF R
  <1>6. made'.record = [image_id |-> ImageOf(asked).id, mounts |-> asked.config.mounts,
                        resources |-> rs, devices |-> made.record.devices]
    BY <1>2, <1>5
  <1>7. made'.cgroup = cg /\ made'.record.resources = rs /\ made'.error = None /\ made'.spec = made.spec
    <2> DEFINE R == made'.record
    <2>1. made' = [error |-> None, rootfs |-> c.rootfs, record |-> R, spec |-> c.spec, cgroup |-> cg]
      BY <1>5
    <2>2. made'.record.resources = rs
      BY <1>6
    <2> HIDE DEF R
    <2> QED BY <1>2, <2>1, <2>2
  <1>8. Bundled'
    BY <1>1, <1>2, <1>4, <1>5, <1>6 DEF Bundled, c
  <1>9. Done'
    BY <1>1, <1>7 DEF Done
  <1> QED BY <1>1, <1>7, <1>8, <1>9 DEF cg, rs, res, linux

LEMMA NextBundles == Bundled /\ [Next]_vars => Bundled'
  <1> SUFFICES ASSUME Bundled, [Next]_vars PROVE Bundled'
    OBVIOUS
  <1>1. CASE UNCHANGED vars
    BY <1>1 DEF vars, Bundled
  <1>2. CASE Next
    BY <1>2, CreateBundles, ResizeBundles DEF Next, IsAsked
  <1> QED BY <1>1, <1>2
-----------------------------------------------------------------------------
LEMMA HasIsNamespace ==
  ASSUME NEW typ, NEW wanted, Has(made.spec.ns, typ, wanted), wanted = {} \/ \E p : wanted = {p}
  PROVE  HasNamespace(typ, wanted)
  <1> DEFINE is == {i \in DOMAIN made.spec.ns : made.spec.ns[i].typ = typ}
  <1>1. Cardinality(is) = Cardinality(wanted) /\ {made.spec.ns[i].path : i \in is} = wanted
    BY HasCounts
  <1> QED BY <1>1 DEF HasNamespace, Count, Paths

LEMMA BundledNamespaces == Bundled => NamespacesAsAsked
  <1> SUFFICES ASSUME Bundled, Done PROVE NamespacesAsAsked
    BY DEF NamespacesAsAsked
  <1> DEFINE a == asked
             pod == a.pod
             image == parse_image_config(ImageOf(a))
             req == RequestOf(a)
             m == NamespaceModes(pod)
             w == WithProcess(image, req)
             n == WithNamespaces(w, req)
             remap == pod.options /\ pod.userns.mode = "POD"
             rmap == req.userns_uid_mappings # <<>> \/ req.userns_gid_mappings # <<>>
  <1>1. /\ IsRequest(a) /\ made.spec = generate_spec(image, req) /\ ~ UsernsRejected(pod)
    BY AskedIsRequest, CreateFields DEF Bundled, Done
  <1>2. /\ made.spec.ns = n.ns /\ made.spec.uid_mappings = n.uid_mappings
        /\ made.spec.gid_mappings = n.gid_mappings
    <2> DEFINE x == generate_spec(image, req)
    <2> HIDE DEF image, req
    <2>1. x.ns = n.ns /\ x.uid_mappings = n.uid_mappings /\ x.gid_mappings = n.gid_mappings
      BY GenerateFields, Zenon
    <2> HIDE DEF n, x
    <2> QED BY <1>1, <2>1 DEF x
  <1>3. /\ Has(n.ns, "network", IF req.netns_path \in {None, "host"} THEN {} ELSE {req.netns_path})
        /\ Has(n.ns, "pid", IF req.pid_ns_path # None THEN {req.pid_ns_path}
                             ELSE IF req.host_pid THEN {} ELSE {None})
        /\ Has(n.ns, "ipc", IF req.ipc_ns_path # None THEN {req.ipc_ns_path}
                             ELSE IF req.host_ipc THEN {} ELSE {None})
        /\ Has(n.ns, "user", IF req.rootless_host_ids = None /\ ~ rmap THEN {} ELSE {None})
        /\ rmap => /\ n.uid_mappings = req.userns_uid_mappings
                   /\ n.gid_mappings = req.userns_gid_mappings
    <2> HIDE DEF image, req
    <2> QED BY NamespacesHas
  <1>4. /\ req.rootless_host_ids = DaemonIds
        /\ req.netns_path = (IF m.host_network THEN "host" ELSE "netns")
        /\ req.host_pid = m.host_pid /\ req.host_ipc = m.host_ipc
        /\ req.userns_uid_mappings = m.userns_uid_mappings
        /\ req.userns_gid_mappings = m.userns_gid_mappings
        /\ req.pid_ns_path = NsPath(m.shared_pid, IF m.shared_pid \/ m.shared_ipc THEN a.holder ELSE None, "pid")
        /\ req.ipc_ns_path = NsPath(m.shared_ipc, IF m.shared_pid \/ m.shared_ipc THEN a.holder ELSE None, "ipc")
    BY RequestFields, SandboxFields
  <1>5. /\ m.host_network = (pod.options /\ pod.network = "NODE")
        /\ m.host_pid = (pod.options /\ pod.pid = "NODE") /\ m.host_ipc = (pod.options /\ pod.ipc = "NODE")
        /\ m.shared_pid = (pod.options /\ pod.pid = "POD") /\ m.shared_ipc = (pod.options /\ pod.ipc = "POD")
        /\ m.userns_uid_mappings = IF remap THEN pod.userns.uids ELSE <<>>
        /\ m.userns_gid_mappings = IF remap THEN pod.userns.gids ELSE <<>>
    BY DEF NamespaceModes
  <1>6. None # "netns" /\ <<a.holder, "pid">> # None /\ <<a.holder, "ipc">> # None /\ pod.options \in BOOLEAN
    BY <1>1, BundleAssumption DEF IsRequest
  <1>7. remap => pod.userns.uids # <<>> /\ pod.userns.gids # <<>>
    <2> SUFFICES ASSUME remap PROVE pod.userns.uids # <<>> /\ pod.userns.gids # <<>>
      OBVIOUS
    <2>1. Len(pod.userns.uids) = 1 /\ Len(pod.userns.gids) = 1
      BY <1>1 DEF UsernsRejected, validate_userns_map
    <2> QED BY <2>1
  <1>8. rmap <=> remap
    BY <1>4, <1>5, <1>7
  <1>9. HasNamespace("network", IF pod.options /\ pod.network = "NODE" THEN {} ELSE {"netns"})
    <2>1. Has(made.spec.ns, "network", IF pod.options /\ pod.network = "NODE" THEN {} ELSE {"netns"})
      BY <1>2, <1>3, <1>4, <1>5, <1>6
    <2> QED BY <2>1, HasIsNamespace
  <1>10. HasNamespace("pid", Shared(pod.pid, "pid"))
    <2>1. Shared(pod.pid, "pid") = IF req.pid_ns_path # None THEN {req.pid_ns_path}
                                   ELSE IF req.host_pid THEN {} ELSE {None}
      BY <1>4, <1>5, <1>6 DEF Shared, NsPath
    <2>2. Has(made.spec.ns, "pid", Shared(pod.pid, "pid"))
      BY <1>2, <1>3, <2>1
    <2>3. Shared(pod.pid, "pid") = {} \/ \E p : Shared(pod.pid, "pid") = {p}
      BY <2>1
    <2> QED BY <2>2, <2>3, HasIsNamespace
  <1>11. HasNamespace("ipc", Shared(pod.ipc, "ipc"))
    <2>1. Shared(pod.ipc, "ipc") = IF req.ipc_ns_path # None THEN {req.ipc_ns_path}
                                   ELSE IF req.host_ipc THEN {} ELSE {None}
      BY <1>4, <1>5, <1>6 DEF Shared, NsPath
    <2>2. Has(made.spec.ns, "ipc", Shared(pod.ipc, "ipc"))
      BY <1>2, <1>3, <2>1
    <2>3. Shared(pod.ipc, "ipc") = {} \/ \E p : Shared(pod.ipc, "ipc") = {p}
      BY <2>1
    <2> QED BY <2>2, <2>3, HasIsNamespace
  <1>12. HasNamespace("user", IF remap \/ DaemonIds # None THEN {None} ELSE {})
    <2>1. Has(made.spec.ns, "user", IF remap \/ DaemonIds # None THEN {None} ELSE {})
      BY <1>2, <1>3, <1>4, <1>8
    <2> QED BY <2>1, HasIsNamespace
  <1>13. remap => made.spec.uid_mappings = pod.userns.uids /\ made.spec.gid_mappings = pod.userns.gids
    BY <1>2, <1>3, <1>4, <1>5, <1>8
  <1> HIDE DEF req, m, n, rmap
  <1> QED BY <1>9, <1>10, <1>11, <1>12, <1>13 DEF NamespacesAsAsked

(* generate_spec: whatever a pod's options, its holder and the daemon's ids,
   the edits of the namespace list leave at most one entry of each type, the
   one the pod asks for, and the resizes do not touch it. *)
THEOREM PodGetsItsNamespaces == Spec => []NamespacesAsAsked
  BY BundledStays, NextBundles, BundledNamespaces, PTL DEF Spec
-----------------------------------------------------------------------------
(* FoldLeft, for the operators that the code folds with. *)
DropRun(f, s, base, r) ==
  f[0] = base /\ f[Len(s)] = r /\ \A i \in 1..Len(s) : f[i] = DropCap(f[i - 1], s[i])

LEMMA DropTrace ==
  ASSUME NEW s, IsVec(s), NEW base
  PROVE  \E f : DropRun(f, s, base, FoldLeft(DropCap, base, s))
  <1> DEFINE n == Len(s)
             A == SUBSET base
             next == [i \in 1..n |-> [c \in A |-> DropCap(c, s[i])]]
             P(h) == h = [t \in SUBSET (DOMAIN s) |->
                            IF t = {} THEN base ELSE DropCap(h[t \ {Max(t)}], s[Max(t)])]
             it == CHOOSE h : P(h)
             f == [i \in 0..n |-> it[1..i]]
  <1>1. n \in Nat /\ DOMAIN s = 1..n
    BY DEF IsVec
  <1>2. \A c \in A, i \in 1..n : DropCap(c, s[i]) \in A
    BY DEF DropCap
  <1>3. base \in A
    OBVIOUS
  <1>4. PICK g : Folds(g, n, A, base, next)
    <2>1. next \in [1..n -> [A -> A]]
      BY <1>2
    <2> HIDE DEF n, A, next
    <2> QED BY <1>1, <1>3, <2>1, FoldExists
  <1> HIDE DEF A
  <1>5. P(g)
    <2>1. g \in [SUBSET (1..n) -> A]
      BY <1>4 DEF Folds
    <2>2. ASSUME NEW t \in SUBSET (1..n)
          PROVE  g[t] = IF t = {} THEN base ELSE DropCap(g[t \ {Max(t)}], s[Max(t)])
      <3>1. g[t] = IF t = {} THEN base ELSE next[Max(t)][g[t \ {Max(t)}]]
        BY <1>4 DEF Folds
      <3>2. CASE t = {}
        BY <3>1, <3>2
      <3>3. CASE t # {}
        <4> DEFINE m == Max(t)
                   u == t \ {m}
        <4>1. m \in 1..n
          BY <1>1, <3>3, MaxOf
        <4>2. u \in SUBSET (1..n)
          OBVIOUS
        <4> HIDE DEF m, u
        <4>3. g[u] \in A
          BY <2>1, <4>2
        <4>4. next[m][g[u]] = DropCap(g[u], s[m])
          BY <4>1, <4>3
        <4> QED BY <3>1, <3>3, <4>4 DEF m, u
      <3> QED BY <3>2, <3>3
    <2> QED BY <1>1, <2>1, <2>2
  <1>6. P(it)
    <2> HIDE DEF P
    <2> QED BY <1>5, Zenon
  <1>7. FoldLeft(DropCap, base, s) = it[DOMAIN s]
    BY Zenon DEF FoldLeft, MapThenFoldSet
  <1>8. \A t \in SUBSET (1..n) : it[t] = IF t = {} THEN base ELSE DropCap(it[t \ {Max(t)}], s[Max(t)])
    <2> HIDE DEF it
    <2> DEFINE Step(t) == IF t = {} THEN base ELSE DropCap(it[t \ {Max(t)}], s[Max(t)])
    <2>1. it = [t \in SUBSET (1..n) |-> Step(t)]
      BY <1>1, <1>6
    <2> HIDE DEF Step
    <2>2. \A t \in SUBSET (1..n) : it[t] = Step(t)
      BY <2>1
    <2> QED BY <2>2 DEF Step
  <1> HIDE DEF it, n
  <1>9. f[0] = base
    <2>1. 0 \in 0..n /\ 1..0 = {} /\ {} \in SUBSET (1..n)
      BY <1>1
    <2> QED BY <1>8, <2>1
  <1>10. f[n] = FoldLeft(DropCap, base, s)
    BY <1>1, <1>7
  <1>11. ASSUME NEW i \in 1..n PROVE f[i] = DropCap(f[i - 1], s[i])
    <2>1. i \in Nat /\ i # 0 /\ i \in 0..n /\ i - 1 \in 0..n /\ 1..i \in SUBSET (1..n)
      BY <1>1
    <2>2. 1..i # {} /\ Max(1..i) = i /\ (1..i) \ {Max(1..i)} = 1..(i - 1)
      BY <2>1, Ranges
    <2>3. it[1..i] = DropCap(it[1..(i - 1)], s[i])
      BY <1>8, <2>1, <2>2
    <2> QED BY <2>1, <2>3
  <1> HIDE DEF f
  <1> QED BY <1>9, <1>10, <1>11 DEF n, DropRun

(* The same for AddCap. *)
AddRun(f, s, base, r) ==
  f[0] = base /\ f[Len(s)] = r /\ \A i \in 1..Len(s) : f[i] = AddCap(f[i - 1], s[i])

LEMMA AddTrace ==
  ASSUME NEW s, IsVec(s), NEW base
  PROVE  \E f : AddRun(f, s, base, FoldLeft(AddCap, base, s))
  <1> DEFINE n == Len(s)
             A == SUBSET (base \cup all_capabilities)
             next == [i \in 1..n |-> [c \in A |-> AddCap(c, s[i])]]
             P(h) == h = [t \in SUBSET (DOMAIN s) |->
                            IF t = {} THEN base ELSE AddCap(h[t \ {Max(t)}], s[Max(t)])]
             it == CHOOSE h : P(h)
             f == [i \in 0..n |-> it[1..i]]
  <1>1. n \in Nat /\ DOMAIN s = 1..n
    BY DEF IsVec
  <1>2. \A c \in A, i \in 1..n : AddCap(c, s[i]) \in A
    BY DEF AddCap, parse_cap
  <1>3. base \in A
    OBVIOUS
  <1>4. PICK g : Folds(g, n, A, base, next)
    <2>1. next \in [1..n -> [A -> A]]
      BY <1>2
    <2> HIDE DEF n, A, next
    <2> QED BY <1>1, <1>3, <2>1, FoldExists
  <1> HIDE DEF A
  <1>5. P(g)
    <2>1. g \in [SUBSET (1..n) -> A]
      BY <1>4 DEF Folds
    <2>2. ASSUME NEW t \in SUBSET (1..n)
          PROVE  g[t] = IF t = {} THEN base ELSE AddCap(g[t \ {Max(t)}], s[Max(t)])
      <3>1. g[t] = IF t = {} THEN base ELSE next[Max(t)][g[t \ {Max(t)}]]
        BY <1>4 DEF Folds
      <3>2. CASE t = {}
        BY <3>1, <3>2
      <3>3. CASE t # {}
        <4> DEFINE m == Max(t)
                   u == t \ {m}
        <4>1. m \in 1..n
          BY <1>1, <3>3, MaxOf
        <4>2. u \in SUBSET (1..n)
          OBVIOUS
        <4> HIDE DEF m, u
        <4>3. g[u] \in A
          BY <2>1, <4>2
        <4>4. next[m][g[u]] = AddCap(g[u], s[m])
          BY <4>1, <4>3
        <4> QED BY <3>1, <3>3, <4>4 DEF m, u
      <3> QED BY <3>2, <3>3
    <2> QED BY <1>1, <2>1, <2>2
  <1>6. P(it)
    <2> HIDE DEF P
    <2> QED BY <1>5, Zenon
  <1>7. FoldLeft(AddCap, base, s) = it[DOMAIN s]
    BY Zenon DEF FoldLeft, MapThenFoldSet
  <1>8. \A t \in SUBSET (1..n) : it[t] = IF t = {} THEN base ELSE AddCap(it[t \ {Max(t)}], s[Max(t)])
    <2> HIDE DEF it
    <2> DEFINE Step(t) == IF t = {} THEN base ELSE AddCap(it[t \ {Max(t)}], s[Max(t)])
    <2>1. it = [t \in SUBSET (1..n) |-> Step(t)]
      BY <1>1, <1>6
    <2> HIDE DEF Step
    <2>2. \A t \in SUBSET (1..n) : it[t] = Step(t)
      BY <2>1
    <2> QED BY <2>2 DEF Step
  <1> HIDE DEF it, n
  <1>9. f[0] = base
    <2>1. 0 \in 0..n /\ 1..0 = {} /\ {} \in SUBSET (1..n)
      BY <1>1
    <2> QED BY <1>8, <2>1
  <1>10. f[n] = FoldLeft(AddCap, base, s)
    BY <1>1, <1>7
  <1>11. ASSUME NEW i \in 1..n PROVE f[i] = AddCap(f[i - 1], s[i])
    <2>1. i \in Nat /\ i # 0 /\ i \in 0..n /\ i - 1 \in 0..n /\ 1..i \in SUBSET (1..n)
      BY <1>1
    <2>2. 1..i # {} /\ Max(1..i) = i /\ (1..i) \ {Max(1..i)} = 1..(i - 1)
      BY <2>1, Ranges
    <2>3. it[1..i] = AddCap(it[1..(i - 1)], s[i])
      BY <1>8, <2>1, <2>2
    <2> QED BY <2>1, <2>3
  <1> HIDE DEF f
  <1> QED BY <1>9, <1>10, <1>11 DEF n, AddRun

(* The same for RootPropagation. *)
PropagationRun(f, s, base, r) ==
  f[0] = base /\ f[Len(s)] = r /\ \A i \in 1..Len(s) : f[i] = RootPropagation(f[i - 1], s[i])

LEMMA PropagationTrace ==
  ASSUME NEW s, IsVec(s), NEW base, base = None
  PROVE  \E f : PropagationRun(f, s, base, FoldLeft(RootPropagation, base, s))
  <1> DEFINE n == Len(s)
             A == {None, "rslave", "rshared"}
             next == [i \in 1..n |-> [c \in A |-> RootPropagation(c, s[i])]]
             P(h) == h = [t \in SUBSET (DOMAIN s) |->
                            IF t = {} THEN base ELSE RootPropagation(h[t \ {Max(t)}], s[Max(t)])]
             it == CHOOSE h : P(h)
             f == [i \in 0..n |-> it[1..i]]
  <1>1. n \in Nat /\ DOMAIN s = 1..n
    BY DEF IsVec
  <1>2. \A c \in A, i \in 1..n : RootPropagation(c, s[i]) \in A
    BY DEF RootPropagation
  <1>3. base \in A
    OBVIOUS
  <1>4. PICK g : Folds(g, n, A, base, next)
    <2>1. next \in [1..n -> [A -> A]]
      BY <1>2
    <2> HIDE DEF n, A, next
    <2> QED BY <1>1, <1>3, <2>1, FoldExists
  <1> HIDE DEF A
  <1>5. P(g)
    <2>1. g \in [SUBSET (1..n) -> A]
      BY <1>4 DEF Folds
    <2>2. ASSUME NEW t \in SUBSET (1..n)
          PROVE  g[t] = IF t = {} THEN base ELSE RootPropagation(g[t \ {Max(t)}], s[Max(t)])
      <3>1. g[t] = IF t = {} THEN base ELSE next[Max(t)][g[t \ {Max(t)}]]
        BY <1>4 DEF Folds
      <3>2. CASE t = {}
        BY <3>1, <3>2
      <3>3. CASE t # {}
        <4> DEFINE m == Max(t)
                   u == t \ {m}
        <4>1. m \in 1..n
          BY <1>1, <3>3, MaxOf
        <4>2. u \in SUBSET (1..n)
          OBVIOUS
        <4> HIDE DEF m, u
        <4>3. g[u] \in A
          BY <2>1, <4>2
        <4>4. next[m][g[u]] = RootPropagation(g[u], s[m])
          BY <4>1, <4>3
        <4> QED BY <3>1, <3>3, <4>4 DEF m, u
      <3> QED BY <3>2, <3>3
    <2> QED BY <1>1, <2>1, <2>2
  <1>6. P(it)
    <2> HIDE DEF P
    <2> QED BY <1>5, Zenon
  <1>7. FoldLeft(RootPropagation, base, s) = it[DOMAIN s]
    BY Zenon DEF FoldLeft, MapThenFoldSet
  <1>8. \A t \in SUBSET (1..n) : it[t] = IF t = {} THEN base ELSE RootPropagation(it[t \ {Max(t)}], s[Max(t)])
    <2> HIDE DEF it
    <2> DEFINE Step(t) == IF t = {} THEN base ELSE RootPropagation(it[t \ {Max(t)}], s[Max(t)])
    <2>1. it = [t \in SUBSET (1..n) |-> Step(t)]
      BY <1>1, <1>6
    <2> HIDE DEF Step
    <2>2. \A t \in SUBSET (1..n) : it[t] = Step(t)
      BY <2>1
    <2> QED BY <2>2 DEF Step
  <1> HIDE DEF it, n
  <1>9. f[0] = base
    <2>1. 0 \in 0..n /\ 1..0 = {} /\ {} \in SUBSET (1..n)
      BY <1>1
    <2> QED BY <1>8, <2>1
  <1>10. f[n] = FoldLeft(RootPropagation, base, s)
    BY <1>1, <1>7
  <1>11. ASSUME NEW i \in 1..n PROVE f[i] = RootPropagation(f[i - 1], s[i])
    <2>1. i \in Nat /\ i # 0 /\ i \in 0..n /\ i - 1 \in 0..n /\ 1..i \in SUBSET (1..n)
      BY <1>1
    <2>2. 1..i # {} /\ Max(1..i) = i /\ (1..i) \ {Max(1..i)} = 1..(i - 1)
      BY <2>1, Ranges
    <2>3. it[1..i] = RootPropagation(it[1..(i - 1)], s[i])
      BY <1>8, <2>1, <2>2
    <2> QED BY <2>1, <2>3
  <1> HIDE DEF f
  <1> QED BY <1>9, <1>10, <1>11 DEF n, PropagationRun
(* The capabilities of the first i names. *)
KeysTo(s, i) == {CapKey[s[j]] : j \in 1..i}

LEMMA KeysGrow ==
  ASSUME NEW s, NEW i \in Nat
  PROVE  KeysTo(s, 0) = {} /\ KeysTo(s, i + 1) = KeysTo(s, i) \cup {CapKey[s[i + 1]]}
  <1>1. 1..(i + 1) = (1..i) \cup {i + 1} /\ 1..0 = {}
    OBVIOUS
  <1> QED BY <1>1 DEF KeysTo

LEMMA KeysAre ==
  ASSUME NEW s, IsVec(s)
  PROVE  Len(s) \in Nat /\ KeysTo(s, Len(s)) = Keys(s)
  BY DEF IsVec, KeysTo, Keys

(* What the loop over the dropped names leaves. *)
LEMMA Dropped ==
  ASSUME NEW s, IsVec(s), NEW base, base \subseteq all_capabilities
  PROVE  FoldLeft(DropCap, base, s) = IF "ALL" \in Keys(s) THEN {} ELSE base \ Keys(s)
  <1> DEFINE n == Len(s)
             fold == FoldLeft(DropCap, base, s)
             W(i) == IF "ALL" \in KeysTo(s, i) THEN {} ELSE base \ KeysTo(s, i)
  <1>f. PICK f : DropRun(f, s, base, FoldLeft(DropCap, base, s))
    BY DropTrace, Zenon
  <1>1. f[0] = base /\ f[n] = fold /\ \A i \in 1..n : f[i] = DropCap(f[i - 1], s[i])
    BY <1>f, Zenon DEF DropRun
  <1>n. n \in Nat /\ KeysTo(s, n) = Keys(s)
    BY KeysAre
  <1> HIDE DEF fold, n
  <1> DEFINE S == {i \in Nat : i <= n => f[i] = W(i)}
  <1>2. 0 \in S
    BY <1>1, KeysGrow
  <1>3. ASSUME NEW i \in Nat, i \in S PROVE i + 1 \in S
    <2> SUFFICES ASSUME i + 1 <= n PROVE f[i + 1] = W(i + 1)
      OBVIOUS
    <2>1. f[i] = W(i) /\ i + 1 \in 1..n /\ (i + 1) - 1 = i
      BY <1>n, <1>3
    <2> DEFINE k == CapKey[s[i + 1]]
               K == KeysTo(s, i)
    <2>2. f[i + 1] = IF k = "ALL" THEN {} ELSE W(i) \ ({k} \cap all_capabilities)
      BY <1>1, <2>1 DEF DropCap, parse_cap
    <2>3. KeysTo(s, i + 1) = K \cup {k}
      BY KeysGrow
    <2>4. W(i) = IF "ALL" \in K THEN {} ELSE base \ K
      OBVIOUS
    <2> HIDE DEF k, K
    <2> QED BY <2>2, <2>3, <2>4
  <1> HIDE DEF W
  <1>4. n \in S
    BY <1>2, <1>3, <1>n, NatSet
  <1> QED BY <1>1, <1>4, <1>n DEF W, fold

(* What the loop over the added names leaves. *)
LEMMA Added ==
  ASSUME NEW s, IsVec(s), NEW base, base \subseteq all_capabilities
  PROVE  FoldLeft(AddCap, base, s)
           = IF "ALL" \in Keys(s) THEN all_capabilities ELSE base \cup (Keys(s) \cap all_capabilities)
  <1> DEFINE n == Len(s)
             fold == FoldLeft(AddCap, base, s)
             W(i) == IF "ALL" \in KeysTo(s, i) THEN all_capabilities
                     ELSE base \cup (KeysTo(s, i) \cap all_capabilities)
  <1>f. PICK f : AddRun(f, s, base, FoldLeft(AddCap, base, s))
    BY AddTrace, Zenon
  <1>1. f[0] = base /\ f[n] = fold /\ \A i \in 1..n : f[i] = AddCap(f[i - 1], s[i])
    BY <1>f, Zenon DEF AddRun
  <1>n. n \in Nat /\ KeysTo(s, n) = Keys(s)
    BY KeysAre
  <1> HIDE DEF fold, n
  <1> DEFINE S == {i \in Nat : i <= n => f[i] = W(i)}
  <1>2. 0 \in S
    BY <1>1, KeysGrow
  <1>3. ASSUME NEW i \in Nat, i \in S PROVE i + 1 \in S
    <2> SUFFICES ASSUME i + 1 <= n PROVE f[i + 1] = W(i + 1)
      OBVIOUS
    <2>1. f[i] = W(i) /\ i + 1 \in 1..n /\ (i + 1) - 1 = i
      BY <1>n, <1>3
    <2> DEFINE k == CapKey[s[i + 1]]
               K == KeysTo(s, i)
    <2>2. f[i + 1] = IF k = "ALL" THEN W(i) \cup all_capabilities ELSE W(i) \cup ({k} \cap all_capabilities)
      BY <1>1, <2>1 DEF AddCap, parse_cap
    <2>3. KeysTo(s, i + 1) = K \cup {k}
      BY KeysGrow
    <2>4. W(i) = IF "ALL" \in K THEN all_capabilities ELSE base \cup (K \cap all_capabilities)
      OBVIOUS
    <2> HIDE DEF k, K
    <2> QED BY <2>2, <2>3, <2>4
  <1> HIDE DEF W
  <1>4. n \in S
    BY <1>2, <1>3, <1>n, NatSet
  <1> QED BY <1>1, <1>4, <1>n DEF W, fold
LEMMA DefaultIsKnown == default_capabilities \subseteq all_capabilities
  BY DEF default_capabilities, all_capabilities

(* The profile's loop keeps exactly the blocks whose conditions hold. *)
LEMMA KeptSyscalls ==
  ASSUME NEW caps
  PROVE  Range(runtime_default(caps).syscalls) = {b \in Range(Profile) : Applies(b, caps)}
  <1> DEFINE T == Range(Profile)
             keep == {i \in DOMAIN Profile : Keep(Profile[i], caps)}
             ss == [i \in DOMAIN Profile |-> IF i \in keep THEN <<Profile[i]>> ELSE <<>>]
             r == FlattenSeq(ss)
             n == Len(Profile)
  <1>1. Profile \in Seq(T)
    BY BundleAssumption DEF IsVec
  <1>2. runtime_default(caps).syscalls = r
    <2>1. ss = [i \in DOMAIN Profile |-> IF Keep(Profile[i], caps) THEN <<Profile[i]>> ELSE <<>>]
      OBVIOUS
    <2>2. Retain(Profile, LAMBDA b : Keep(b, caps))
            = FlattenSeq([i \in DOMAIN Profile |-> IF Keep(Profile[i], caps) THEN <<Profile[i]>> ELSE <<>>])
      BY Zenon DEF Retain
    <2>3. runtime_default(caps).syscalls = Retain(Profile, LAMBDA b : Keep(b, caps))
      BY DEF runtime_default
    <2> QED BY <2>1, <2>2, <2>3
  <1>3. r \in Seq(T) /\ \E e : Embeds(e, r, Profile, keep \cap (1..n))
    <2> HIDE DEF keep, T
    <2> QED BY <1>1, KeptEmbeds
  <1>4. DOMAIN Profile = 1..n /\ n \in Nat /\ DOMAIN r = 1..Len(r) /\ Len(r) \in Nat
    BY <1>1, <1>3
  <1>k. keep \cap (1..n) = keep
    BY <1>4
  <1> HIDE DEF r, ss, T
  <1>5. PICK e : Embeds(e, r, Profile, keep)
    BY <1>3, <1>k
  <1>6. /\ e \in [1..Len(r) -> keep]
        /\ \A j \in 1..Len(r) : r[j] = Profile[e[j]]
        /\ \A i \in keep : \E j \in 1..Len(r) : e[j] = i
    BY <1>5 DEF Embeds
  <1>7. \A b : Keep(b, caps) <=> Applies(b, caps)
    BY DEF Keep, Applies, ArchMatches, CapMatches
  <1>8. ASSUME NEW b \in Range(r) PROVE b \in T /\ Applies(b, caps)
    <2>1. PICK j \in 1..Len(r) : b = r[j]
      BY <1>4 DEF Range
    <2>2. e[j] \in keep /\ b = Profile[e[j]]
      BY <1>6, <2>1
    <2> QED BY <1>7, <2>2 DEF Range, T
  <1>9. ASSUME NEW b \in T, Applies(b, caps) PROVE b \in Range(r)
    <2>1. PICK i \in DOMAIN Profile : b = Profile[i]
      BY DEF Range, T
    <2>2. i \in keep
      BY <1>7, <1>9, <2>1
    <2>3. PICK j \in 1..Len(r) : e[j] = i
      BY <1>6, <2>2
    <2> QED BY <1>4, <1>6, <2>1, <2>3 DEF Range
  <1> QED BY <1>2, <1>8, <1>9 DEF T

LEMMA BundledPrivileges == Bundled => PrivilegesAsAsked
  <1> SUFFICES ASSUME Bundled, Done PROVE PrivilegesAsAsked
    BY DEF PrivilegesAsAsked
  <1> DEFINE config == asked.config
             wants == config.seccomp
             req == RequestOf(asked)
             image == parse_image_config(ImageOf(asked))
             x == generate_spec(image, req)
             kept == FoldLeft(DropCap, default_capabilities, req.drop_capabilities)
             fold == FoldLeft(AddCap, kept, req.add_capabilities)
             some == req.add_capabilities # <<>> \/ req.drop_capabilities # <<>>
             caps == x.process.caps
             all == all_capabilities
  <1>1. IsRequest(asked) /\ made.spec = x /\ ~ SpecFails(req)
    BY AskedIsRequest, CreateFields DEF Bundled, Done
  <1>2. /\ req.privileged = config.privileged /\ req.add_capabilities = config.add
        /\ req.drop_capabilities = config.drop /\ req.seccomp = map_seccomp(wants)
    BY RequestFields
  <1>3. config.privileged \in BOOLEAN /\ IsVec(config.add) /\ IsVec(config.drop)
    BY <1>1 DEF IsRequest
  <1>4. /\ req.privileged => caps = build_caps(all, all) /\ x.seccomp = None
        /\ ~ req.privileged =>
              /\ caps = IF some THEN build_caps(fold, fold) ELSE build_caps(default_capabilities, {})
              /\ req.seccomp.kind = "Unconfined" => x.seccomp = None
              /\ req.seccomp.kind = "RuntimeDefault" => x.seccomp = runtime_default(caps.bounding)
              /\ req.seccomp.kind = "Localhost" => x.seccomp = req.seccomp.path
    <2> HIDE DEF image, req
    <2>1. req.privileged => x.process.caps = build_caps(all_capabilities, all_capabilities) /\ x.seccomp = None
      BY GenerateFields, Zenon
    <2>2. ~ req.privileged => x.process.caps = IF some THEN build_caps(fold, fold)
                                               ELSE build_caps(default_capabilities, {})
      BY GenerateFields, Zenon
    <2>3. ~ req.privileged /\ req.seccomp.kind = "Unconfined" => x.seccomp = None
      BY GenerateFields, Zenon
    <2>4. ~ req.privileged /\ req.seccomp.kind = "RuntimeDefault" =>
            x.seccomp = runtime_default(x.process.caps.bounding)
      BY GenerateFields, Zenon
    <2>5. ~ req.privileged /\ req.seccomp.kind = "Localhost" => x.seccomp = req.seccomp.path
      BY GenerateFields, Zenon
    <2> HIDE DEF x, fold, some
    <2> QED BY <2>1, <2>2, <2>3, <2>4, <2>5
  <1> DEFINE add == Keys(config.add)
             drop == Keys(config.drop)
             left == IF "ALL" \in drop THEN {} ELSE default_capabilities \ drop
             wanted == IF config.privileged \/ "ALL" \in add THEN all ELSE left \cup (add \cap all)
  <1>5. wanted = WantedCaps
    BY DEF WantedCaps
  <1>6. kept = left
    <2>1. FoldLeft(DropCap, default_capabilities, config.drop) = left
      BY <1>3, DefaultIsKnown, Dropped, Zenon
    <2> QED BY <1>2, <2>1
  <1>7. fold = IF "ALL" \in add THEN all ELSE left \cup (add \cap all)
    <2>1. left \subseteq all
      BY DefaultIsKnown
    <2> HIDE DEF left
    <2>2. FoldLeft(AddCap, left, config.add) = IF "ALL" \in add THEN all ELSE left \cup (add \cap all)
      BY <1>3, <2>1, Added, Zenon
    <2> QED BY <1>2, <1>6, <2>2
  <1> HIDE DEF kept, fold, x, image, req
  <1>8. \A c, a : build_caps(c, a).bounding = c /\ build_caps(c, a).ambient = a
    BY DEF build_caps
  <1>9. ~ some => add = {} /\ drop = {}
    BY <1>2 DEF Keys
  <1>10. /\ caps.bounding = wanted /\ caps.ambient \in {{}, wanted}
         /\ (config.add # <<>> \/ config.privileged) => caps.ambient = wanted
    <2>1. CASE req.privileged
      BY <1>2, <1>4, <1>8, <2>1
    <2>2. CASE ~ req.privileged /\ some
      BY <1>2, <1>4, <1>7, <1>8, <2>2
    <2>3. CASE ~ req.privileged /\ ~ some
      <3>1. left = default_capabilities /\ left \cup (add \cap all) = default_capabilities
        BY <1>9, <2>3
      <3>2. caps = build_caps(default_capabilities, {}) /\ "ALL" \notin add /\ config.add = <<>>
        BY <1>2, <1>4, <1>9, <2>3
      <3>3. wanted = default_capabilities
        BY <1>2, <2>3, <3>1, <3>2
      <3> HIDE DEF wanted
      <3> QED BY <1>2, <1>8, <2>3, <3>2, <3>3
    <2> QED BY <2>1, <2>2, <2>3
  <1>11. config.privileged => x.seccomp = None
    BY <1>2, <1>4
  <1>12. ASSUME ~ config.privileged, wants # None
         PROVE  CASE wants.type = "RuntimeDefault" ->
                       Range(x.seccomp.syscalls) = {b \in Range(Profile) : Applies(b, caps.bounding)}
                  [] wants.type = "Localhost" -> x.seccomp = wants.ref /\ wants.ref \in SeccompFiles
                  [] OTHER -> x.seccomp = None
    <2>1. CASE wants.type = "RuntimeDefault"
      <3>1. req.seccomp.kind = "RuntimeDefault"
        BY <1>2, <1>12, <2>1 DEF map_seccomp
      <3>2. x.seccomp = runtime_default(caps.bounding)
        BY <1>2, <1>4, <1>12, <3>1
      <3>3. Range(x.seccomp.syscalls) = {b \in Range(Profile) : Applies(b, caps.bounding)}
        BY <3>2, KeptSyscalls
      <3> QED BY <2>1, <3>3
    <2>2. CASE wants.type = "Localhost"
      <3>1. req.seccomp.kind = "Localhost" /\ req.seccomp.path = wants.ref
        BY <1>2, <1>12, <2>2 DEF map_seccomp
      <3>2. x.seccomp = wants.ref /\ wants.ref \in SeccompFiles
        BY <1>1, <1>2, <1>4, <1>12, <3>1 DEF SpecFails, SeccompReadable
      <3> QED BY <2>2, <3>2
    <2>3. CASE wants.type \notin {"RuntimeDefault", "Localhost"}
      <3>1. req.seccomp.kind = "Unconfined"
        BY <1>2, <2>3 DEF map_seccomp
      <3>2. x.seccomp = None
        BY <1>2, <1>4, <1>12, <3>1
      <3> QED BY <2>3, <3>2
    <2> QED BY <2>1, <2>2, <2>3
  <1> HIDE DEF wanted
  <1> QED BY <1>1, <1>5, <1>10, <1>11, <1>12 DEF PrivilegesAsAsked

(* apply_capabilities, apply_security and runtime_default: for lists of any
   length and in any order, added names win over dropped ones and the profile
   is resolved for the capabilities that result; no container that asked for
   a profile runs without one. *)
THEOREM ContainerGetsItsPrivileges == Spec => []PrivilegesAsAsked
  BY BundledStays, NextBundles, BundledPrivileges, PTL DEF Spec
-----------------------------------------------------------------------------
(* The strongest propagation of a list of mounts. *)
Strongest(asks) ==
  IF "Bidirectional" \in asks THEN "rshared" ELSE IF "HostToContainer" \in asks THEN "rslave" ELSE None

LEMMA Propagated ==
  ASSUME NEW s, IsVec(s)
  PROVE  FoldLeft(RootPropagation, None, s) = Strongest({s[i].propagation : i \in DOMAIN s})
  <1> DEFINE n == Len(s)
             fold == FoldLeft(RootPropagation, None, s)
             A(i) == {s[j].propagation : j \in 1..i}
             W(i) == Strongest(A(i))
  <1>f. PICK f : PropagationRun(f, s, None, FoldLeft(RootPropagation, None, s))
    <2>1. \A base : base = None => \E f : PropagationRun(f, s, base, FoldLeft(RootPropagation, base, s))
      BY PropagationTrace, Zenon
    <2> QED BY <2>1, Zenon
  <1>1. f[0] = None /\ f[n] = fold /\ \A i \in 1..n : f[i] = RootPropagation(f[i - 1], s[i])
    BY <1>f, Zenon DEF PropagationRun
  <1>n. n \in Nat /\ DOMAIN s = 1..n
    BY DEF IsVec
  <1> HIDE DEF fold, n
  <1>z. None \notin {"rslave", "rshared"}
    BY BundleAssumption
  <1>g. A(0) = {} /\ \A i \in Nat : A(i + 1) = A(i) \cup {s[i + 1].propagation}
    <2>1. 1..0 = {} /\ \A i \in Nat : 1..(i + 1) = (1..i) \cup {i + 1}
      OBVIOUS
    <2> QED BY <2>1
  <1> DEFINE S == {i \in Nat : i <= n => f[i] = W(i)}
  <1>2. 0 \in S
    BY <1>1, <1>g DEF Strongest
  <1>3. ASSUME NEW i \in Nat, i \in S PROVE i + 1 \in S
    <2> SUFFICES ASSUME i + 1 <= n PROVE f[i + 1] = W(i + 1)
      OBVIOUS
    <2> DEFINE q == s[i + 1].propagation
               B == A(i)
    <2>1. f[i] = Strongest(B) /\ i + 1 \in 1..n /\ (i + 1) - 1 = i
      BY <1>n, <1>3
    <2>2. f[i + 1] = RootPropagation(Strongest(B), s[i + 1])
      BY <1>1, <2>1
    <2>3. A(i + 1) = B \cup {q}
      BY <1>g
    <2>4. RootPropagation(Strongest(B), s[i + 1]) =
            CASE q = "Bidirectional" -> "rshared"
              [] q = "HostToContainer" /\ Strongest(B) = None -> "rslave"
              [] OTHER -> Strongest(B)
      BY DEF RootPropagation
    <2> HIDE DEF q, B, A
    <2>5. Strongest(B \cup {q}) = RootPropagation(Strongest(B), s[i + 1])
      BY <1>z, <2>4 DEF Strongest
    <2> QED BY <2>2, <2>3, <2>5
  <1>w. W(n) = Strongest({s[i].propagation : i \in DOMAIN s})
    BY <1>n
  <1> HIDE DEF W
  <1>4. n \in S
    BY <1>2, <1>3, <1>n, NatSet
  <1>5. fold = W(n)
    BY <1>1, <1>4, <1>n
  <1> QED BY <1>5, <1>w, Zenon DEF fold

(* One mount of the bundle. *)
LEMMA MountIs ==
  ASSUME NEW m, m.readonly \in BOOLEAN, m.recursive_read_only \in BOOLEAN
  PROVE  LET b == MountSpec(m)
             o == Range(MountOptions(b)) IN
         /\ b.source = m.source /\ b.destination = m.destination
         /\ m.readonly <=> o \cap {"ro", "rro"} # {}
         /\ m.recursive_read_only /\ m.readonly /\ m.propagation = "Private" => {"rro", "rprivate"} \subseteq o
         /\ b.propagation = "Bidirectional" <=> m.propagation = "Bidirectional"
         /\ b.propagation = "HostToContainer" <=> m.propagation = "HostToContainer"
  <1> DEFINE b == MountSpec(m)
             o == Range(MountOptions(b))
             p == CASE b.propagation = "Private"         -> "rprivate"
                    [] b.propagation = "HostToContainer" -> "rslave"
                    [] b.propagation = "Bidirectional"   -> "rshared"
             w == IF ~ b.readonly THEN "rw" ELSE IF b.recursive_read_only THEN "rro" ELSE "ro"
  <1>1. /\ b.source = m.source /\ b.destination = m.destination /\ b.readonly = m.readonly
        /\ b.recursive_read_only = m.recursive_read_only
        /\ b.propagation = IF m.propagation \in {"HostToContainer", "Bidirectional"}
                           THEN m.propagation ELSE "Private"
    BY DEF MountSpec
  <1> HIDE DEF b
  <1>2. MountOptions(b) = <<"rbind", p, w>>
    BY DEF MountOptions
  <1>3. p \in {"rprivate", "rslave", "rshared"} /\ (b.propagation = "Private" => p = "rprivate")
    BY <1>1
  <1>4. w = IF ~ m.readonly THEN "rw" ELSE IF m.recursive_read_only THEN "rro" ELSE "ro"
    BY <1>1
  <1> HIDE DEF p, w
  <1>5. o = {"rbind", p, w}
    BY <1>2 DEF Range
  <1> HIDE DEF o
  <1>6. m.readonly <=> o \cap {"ro", "rro"} # {}
    BY <1>3, <1>4, <1>5
  <1>7. m.recursive_read_only /\ m.readonly /\ m.propagation = "Private" => {"rro", "rprivate"} \subseteq o
    BY <1>1, <1>3, <1>4, <1>5
  <1> QED BY <1>1, <1>6, <1>7 DEF o, b

(* The list of mounts: the container's own, then perhaps the pod's. *)
LEMMA MountList ==
  ASSUME NEW sandbox, NEW config, IsVec(config.mounts)
  PROVE  LET b == BundleMounts(sandbox, config)
             n == Len(config.mounts)
             own == \E i \in 1..n : config.mounts[i].destination = ResolvConf
             extra == IF own \/ sandbox.resolv_conf_path = None THEN 0 ELSE 1 IN
         /\ n \in Nat /\ DOMAIN config.mounts = 1..n /\ IsVec(b) /\ Len(b) = n + extra
         /\ DOMAIN b = 1..(n + extra)
         /\ \A i \in 1..n : b[i] = MountSpec(config.mounts[i])
         /\ extra = 1 => b[n + 1].destination = ResolvConf /\ b[n + 1].propagation = "Private"
  <1> DEFINE b == BundleMounts(sandbox, config)
             n == Len(config.mounts)
             f == [i \in DOMAIN config.mounts |-> MountSpec(config.mounts[i])]
             own == \E i \in 1..n : config.mounts[i].destination = ResolvConf
             extra == IF own \/ sandbox.resolv_conf_path = None THEN 0 ELSE 1
             r == [source |-> sandbox.resolv_conf_path, destination |-> ResolvConf,
                   readonly |-> TRUE, recursive_read_only |-> FALSE, propagation |-> "Private"]
  <1>1. n \in Nat /\ DOMAIN config.mounts = 1..n
    BY DEF IsVec
  <1>2. DOMAIN f = 1..n /\ \A i \in 1..n : f[i] = MountSpec(config.mounts[i])
    BY <1>1
  <1>3. \A m : MountSpec(m).destination = m.destination
    BY DEF MountSpec
  <1>4. b = IF extra = 0 THEN f ELSE Append(f, r)
    <2>1. b = IF sandbox.resolv_conf_path = None \/ \E i \in DOMAIN f : f[i].destination = ResolvConf
              THEN f ELSE Append(f, r)
      BY DEF BundleMounts
    <2>2. (\E i \in DOMAIN f : f[i].destination = ResolvConf) <=> own
      BY <1>2, <1>3
    <2> HIDE DEF f, r, b, own
    <2> QED BY <2>1, <2>2
  <1>5. r.destination = ResolvConf /\ r.propagation = "Private"
    OBVIOUS
  <1>6. f = [i \in 1..n |-> f[i]]
    BY <1>1
  <1> HIDE DEF f, r, b
  <1>7. f \in Seq(Range(f)) /\ Len(f) = n
    <2>1. f \in [1..n -> Range(f)]
      BY <1>2, <1>6 DEF Range
    <2> HIDE DEF n
    <2>2. f \in Seq(Range(f))
      BY <1>1, <2>1
    <2> QED BY <1>1, <1>2, <2>2
  <1>8. CASE extra = 0
    <2>1. b = f
      BY <1>4, <1>8
    <2>2. b \in Seq(Range(b)) /\ Len(b) = n /\ DOMAIN b = 1..n /\ n + 0 = n
      BY <1>1, <1>2, <1>7, <2>1
    <2>3. \A i \in 1..n : b[i] = MountSpec(config.mounts[i])
      BY <1>2, <2>1
    <2> HIDE DEF extra, n, own
    <2>4. IsVec(b) /\ Len(b) = n + extra /\ DOMAIN b = 1..(n + extra) /\ extra # 1
      BY <1>8, <2>2 DEF IsVec
    <2> QED BY <1>1, <2>3, <2>4, Zenon DEF b, n, extra, own
  <1>9. CASE extra = 1
    <2>1. b = Append(f, r)
      BY <1>4, <1>9
    <2>2. Len(b) = n + 1 /\ DOMAIN b = 1..(n + 1) /\ b[n + 1] = r /\ \A i \in 1..n : b[i] = f[i]
      BY <1>1, <1>7, <2>1
    <2>3. b \in Seq(Range(f) \cup {r})
      BY <1>7, <2>1
    <2>4. b \in Seq(Range(b))
      <3>1. \A i \in 1..Len(b) : b[i] \in Range(b)
        BY <2>2 DEF Range
      <3>2. b = [i \in 1..Len(b) |-> b[i]]
        BY <2>3
      <3>3. b \in [1..Len(b) -> Range(b)]
        BY <3>1, <3>2
      <3> QED BY <1>1, <2>2, <3>3
    <2> HIDE DEF n
    <2> QED BY <1>1, <1>2, <1>5, <1>9, <2>2, <2>4 DEF IsVec, b, n
  <1> QED BY <1>8, <1>9
LEMMA BundledMounts == Bundled => MountsAsAsked
  <1> SUFFICES ASSUME Bundled, Done PROVE MountsAsAsked
    BY DEF MountsAsAsked
  <1> DEFINE config == asked.config
             sandbox == SandboxOf(asked)
             req == RequestOf(asked)
             image == parse_image_config(ImageOf(asked))
             x == generate_spec(image, req)
             b == req.mounts
             ms == config.mounts
             n == Len(ms)
             own == \E i \in 1..n : ms[i].destination = ResolvConf
             extra == IF own \/ sandbox.resolv_conf_path = None THEN 0 ELSE 1
             prop == FoldLeft(RootPropagation, None, b)
             R(m) == [source |-> m.source, destination |-> m.destination, options |-> MountOptions(m)]
             g == [i \in DOMAIN b |-> R(b[i])]
  <1>1. IsRequest(asked) /\ made.spec = x /\ ~ ConfigRejected(config)
    BY AskedIsRequest, CreateFields DEF Bundled, Done
  <1>2. Shown.mounts = ms
    <2>1. made.record.mounts = ms
      <3> DEFINE i == ImageOf(asked).id
                 r == made.record.resources
                 d == made.record.devices
      <3>1. made.record = [image_id |-> i, mounts |-> ms, resources |-> r, devices |-> d]
        BY DEF Bundled, Done
      <3> HIDE DEF i, r, d, ms
      <3> QED BY <3>1
    <2> QED BY <2>1 DEF Shown, container_status
  <1>3. b = BundleMounts(sandbox, config) /\ sandbox.resolv_conf_path = asked.pod.resolv
    BY RequestFields, SandboxFields
  <1>4. IsVec(ms) /\ \A i \in DOMAIN ms : ms[i].readonly \in BOOLEAN /\ ms[i].recursive_read_only \in BOOLEAN
    BY <1>1 DEF IsRequest
  <1>5. x.mounts = <<>> \o g /\ x.propagation = IF prop # None THEN prop ELSE None
    <2> HIDE DEF image, req
    <2>1. x.mounts = <<>> \o [i \in DOMAIN b |-> [source |-> b[i].source, destination |-> b[i].destination,
                                                  options |-> MountOptions(b[i])]]
      BY GenerateFields, Zenon
    <2>2. x.propagation = IF prop # None THEN prop ELSE None
      BY GenerateFields, Zenon
    <2> HIDE DEF x, prop
    <2> QED BY <2>1, <2>2
  <1> HIDE DEF sandbox
  <1>6. /\ n \in Nat /\ DOMAIN ms = 1..n /\ IsVec(b) /\ Len(b) = n + extra
        /\ DOMAIN b = 1..(n + extra)
        /\ \A i \in 1..n : b[i] = MountSpec(ms[i])
        /\ extra = 1 => b[n + 1].destination = ResolvConf /\ b[n + 1].propagation = "Private"
    <2> DEFINE c == BundleMounts(sandbox, config)
    <2>1. /\ n \in Nat /\ DOMAIN ms = 1..n /\ IsVec(c) /\ Len(c) = n + extra
          /\ DOMAIN c = 1..(n + extra)
          /\ \A i \in 1..n : c[i] = MountSpec(ms[i])
          /\ extra = 1 => c[n + 1].destination = ResolvConf /\ c[n + 1].propagation = "Private"
      BY <1>4, MountList, Zenon
    <2> HIDE DEF c, n, extra, b
    <2> QED BY <1>3, <2>1 DEF c
  <1>7. prop = Strongest({b[i].propagation : i \in DOMAIN b})
    <2> HIDE DEF b
    <2> QED BY <1>6, Propagated, Zenon
  <1>e. extra \in {0, 1} /\ extra = IF own \/ asked.pod.resolv = None THEN 0 ELSE 1
    BY <1>3
  <1>o. own <=> \E i \in DOMAIN ms : ms[i].destination = ResolvConf
    BY <1>6
  <1> HIDE DEF req, x, prop, b, own, extra, n, R
  <1>8. x.mounts = g /\ Len(g) = n + extra /\ DOMAIN g = 1..(n + extra)
    <2>1. g \in Seq(Range(g)) /\ DOMAIN g = 1..(n + extra)
      <3>1. DOMAIN g = 1..(n + extra) /\ g = [i \in 1..(n + extra) |-> g[i]] /\ n + extra \in Nat
        BY <1>6, <1>e
      <3> HIDE DEF g
      <3>2. g \in [1..(n + extra) -> Range(g)]
        BY <3>1 DEF Range
      <3> QED BY <3>1, <3>2
    <2> HIDE DEF g
    <2>2. \A S, h : h \in Seq(S) => <<>> \o h = h
      OBVIOUS
    <2>3. <<>> \o g = g
      BY <2>1, <2>2
    <2> QED BY <1>5, <1>6, <1>e, <2>1, <2>3
  <1>9. \A i \in DOMAIN g : g[i].source = b[i].source /\ g[i].destination = b[i].destination
                            /\ g[i].options = MountOptions(b[i])
    BY DEF R
  <1> HIDE DEF g
  <1>10. \A i \in 1..n : i \in DOMAIN b /\ i \in DOMAIN g
    BY <1>6, <1>8, <1>e
  <1>11. ASSUME NEW i \in 1..n
         PROVE  /\ g[i].destination = ms[i].destination /\ g[i].source = ms[i].source
                /\ ms[i].readonly <=> Range(g[i].options) \cap {"ro", "rro"} # {}
                /\ ms[i].recursive_read_only => {"rro", "rprivate"} \subseteq Range(g[i].options)
                /\ b[i].propagation = "Bidirectional" <=> ms[i].propagation = "Bidirectional"
                /\ b[i].propagation = "HostToContainer" <=> ms[i].propagation = "HostToContainer"
    <2> DEFINE m == ms[i]
    <2>1. m.readonly \in BOOLEAN /\ m.recursive_read_only \in BOOLEAN
      BY <1>4, <1>6
    <2>2. m.recursive_read_only => m.readonly /\ m.propagation = "Private"
      BY <1>1, <1>6, <2>1 DEF ConfigRejected
    <2>3. b[i] = MountSpec(m) /\ g[i].source = b[i].source /\ g[i].destination = b[i].destination
          /\ g[i].options = MountOptions(b[i])
      BY <1>6, <1>9, <1>10
    <2> HIDE DEF m
    <2> DEFINE c == MountSpec(m)
               o == Range(MountOptions(c))
    <2>4. /\ c.source = m.source /\ c.destination = m.destination
          /\ m.readonly <=> o \cap {"ro", "rro"} # {}
          /\ m.recursive_read_only /\ m.readonly /\ m.propagation = "Private" => {"rro", "rprivate"} \subseteq o
          /\ c.propagation = "Bidirectional" <=> m.propagation = "Bidirectional"
          /\ c.propagation = "HostToContainer" <=> m.propagation = "HostToContainer"
      BY <2>1, MountIs
    <2>5. b[i] = c /\ Range(g[i].options) = o
      BY <2>3
    <2> HIDE DEF c, o
    <2> QED BY <2>2, <2>3, <2>4, <2>5 DEF m
  <1>12. Len(x.mounts) - Len(ms) = extra
    BY <1>6, <1>8, <1>e DEF n
  <1>13. extra = 1 => g[n + 1].destination = ResolvConf /\ Len(x.mounts) = n + 1
    BY <1>6, <1>8, <1>9
  <1> DEFINE asks == {ms[i].propagation : i \in DOMAIN ms}
             got == {b[i].propagation : i \in DOMAIN b}
  <1>14. \A v \in {"Bidirectional", "HostToContainer"} : v \in got <=> v \in asks
    <2> TAKE v \in {"Bidirectional", "HostToContainer"}
    <2>1. ASSUME v \in asks PROVE v \in got
      <3>1. PICK i \in 1..n : ms[i].propagation = v
        BY <1>6, <2>1
      <3>2. b[i].propagation = v
        BY <1>11, <3>1
      <3> QED BY <1>10, <3>2
    <2>2. ASSUME v \in got PROVE v \in asks
      <3>1. PICK i \in 1..(n + extra) : b[i].propagation = v
        BY <1>6, <2>2
      <3>2. i # n + 1 \/ extra # 1
        BY <1>6, <3>1
      <3>3. i \in 1..n
        BY <1>6, <1>e, <3>2
      <3>4. ms[i].propagation = v
        BY <1>11, <3>1, <3>3
      <3> QED BY <1>6, <3>3, <3>4
    <2> QED BY <2>1, <2>2
  <1>15. x.propagation = Strongest(asks)
    <2>1. prop = Strongest(got)
      BY <1>7
    <2> HIDE DEF asks, got
    <2>2. Strongest(got) = Strongest(asks)
      BY <1>14 DEF Strongest
    <2> QED BY <1>5, <2>1, <2>2
  <1>16. /\ \A i \in DOMAIN ms :
              /\ x.mounts[i].destination = ms[i].destination /\ x.mounts[i].source = ms[i].source
              /\ ms[i].readonly <=> Range(x.mounts[i].options) \cap {"ro", "rro"} # {}
              /\ ms[i].recursive_read_only => {"rro", "rprivate"} \subseteq Range(x.mounts[i].options)
         /\ extra = 1 => x.mounts[Len(x.mounts)].destination = ResolvConf
    BY <1>6, <1>8, <1>11, <1>13
  <1> HIDE DEF ms
  <1> QED BY <1>1, <1>2, <1>12, <1>15, <1>16, <1>e, <1>o DEF MountsAsAsked, MountAt, Strongest

(* add_bind_mounts: however many mounts a container has and in whatever
   order, what its status shows is what is mounted and as writable, the pod's
   resolv.conf is never laid over its own, and the root's propagation is the
   strongest that any of them needs. *)
THEOREM ContainerGetsItsMounts == Spec => []MountsAsAsked
  BY BundledStays, NextBundles, BundledMounts, PTL DEF Spec
-----------------------------------------------------------------------------
(* The device rules. *)
LEMMA LastHit ==
  ASSUME NEW n \in Nat, NEW hits \in SUBSET (1..n), hits # {}
  PROVE  LET m == CHOOSE i \in hits : \A j \in hits : j <= i
         IN m \in hits /\ \A j \in hits : j <= m
  <1> DEFINE Q(i) == \A j \in hits : j <= i
             m == CHOOSE i \in hits : Q(i)
             t == Max(hits)
  <1>1. t \in hits /\ \A j \in hits : t >= j
    BY MaxOf
  <1>2. Q(t)
    <2> HIDE DEF t
    <2> QED BY <1>1
  <1> HIDE DEF Q, t
  <1>3. m \in hits /\ Q(m)
    BY <1>1, <1>2, Zenon
  <1> QED BY <1>3, Zenon DEF Q

LEMMA PrivilegedAllows ==
  ASSUME NEW dev, NEW access \in {"r", "w", "m"}, NEW default \in BOOLEAN
  PROVE  Allows(<<AllowAll>>, dev, access, default)
  <1> DEFINE rules == <<AllowAll>>
             hits == {i \in DOMAIN rules : rules[i].dev \in {None, dev} /\ access \in rules[i].access}
             m == CHOOSE i \in hits : \A j \in hits : j <= i
  <1>1. AllowAll.dev = None /\ AllowAll.access = {"r", "w", "m"} /\ AllowAll.allow = TRUE
    BY DEF AllowAll, DenyAll
  <1>2. hits = {1}
    BY <1>1
  <1>3. Allows(rules, dev, access, default) = IF hits = {} THEN default ELSE rules[m].allow
    BY DEF Allows
  <1>4. m = 1
    <2>1. m \in hits
      <3>1. 1 \in Nat /\ hits \in SUBSET (1..1) /\ hits # {}
        BY <1>2
      <3> HIDE DEF hits
      <3> QED BY <3>1, LastHit, Zenon
    <2> QED BY <1>2, <2>1
  <1> HIDE DEF hits, m
  <1> QED BY <1>1, <1>2, <1>3, <1>4

RulesFor(devices) ==
  <<DenyAll>> \o [i \in DOMAIN devices |->
                    [allow |-> TRUE, dev |-> stat_device(devices[i].host).dev,
                     access |-> sanitize_device_access(devices[i].permissions)]]

AskedFor(devices, dev, access) ==
  \E i \in DOMAIN devices :
    LET d == devices[i]
    IN Nodes[d.host].dev = dev /\ (access \in d.permissions \/ d.permissions \cap {"r", "w", "m"} = {})

LEMMA ListedAllows ==
  ASSUME NEW devices, IsVec(devices), DevicesPresent(devices),
         NEW dev, NEW access \in {"r", "w", "m"}, NEW default \in BOOLEAN
  PROVE  Allows(RulesFor(devices), dev, access, default) <=> AskedFor(devices, dev, access)
  <1> DEFINE Rule(d) == [allow |-> TRUE, dev |-> stat_device(d.host).dev,
                         access |-> sanitize_device_access(d.permissions)]
             g == [i \in DOMAIN devices |-> Rule(devices[i])]
             rules == <<DenyAll>> \o g
             n == Len(devices)
             Wants(d) == Nodes[d.host].dev = dev
                         /\ (access \in d.permissions \/ d.permissions \cap {"r", "w", "m"} = {})
             Hit(r) == r.dev \in {None, dev} /\ access \in r.access
             hits == {i \in DOMAIN rules : Hit(rules[i])}
             m == CHOOSE i \in hits : \A j \in hits : j <= i
  <1>1. n \in Nat /\ DOMAIN devices = 1..n
    BY DEF IsVec
  <1>2. ASSUME NEW i \in 1..n PROVE Rule(devices[i]).allow = TRUE /\ (Hit(Rule(devices[i])) <=> Wants(devices[i]))
    <2> DEFINE d == devices[i]
    <2>1. stat_device(d.host) # None
      BY <1>1 DEF DevicesPresent
    <2>2. stat_device(d.host) = Nodes[d.host] /\ Nodes[d.host].dev # None
      BY <2>1, BundleAssumption DEF stat_device
    <2>3. access \in sanitize_device_access(d.permissions)
            <=> access \in d.permissions \/ d.permissions \cap {"r", "w", "m"} = {}
      BY DEF sanitize_device_access
    <2> HIDE DEF d
    <2>4. Rule(d).allow = TRUE /\ Rule(d).dev = Nodes[d.host].dev
          /\ Rule(d).access = sanitize_device_access(d.permissions)
      BY <2>2
    <2> HIDE DEF Rule
    <2> QED BY <2>2, <2>3, <2>4 DEF d
  <1>3. DenyAll.allow = FALSE /\ Hit(DenyAll)
    BY DEF DenyAll
  <1>4. g = [i \in 1..n |-> Rule(devices[i])] /\ DOMAIN g = 1..n
    BY <1>1
  <1> HIDE DEF n, Rule, Hit, Wants
  <1>5. DOMAIN rules = 1..(n + 1) /\ rules[1] = DenyAll /\ \A i \in 1..n : rules[i + 1] = Rule(devices[i])
    <2>1. g \in Seq({Rule(devices[i]) : i \in 1..n}) /\ Len(g) = n
      <3>1. g \in [1..n -> {Rule(devices[i]) : i \in 1..n}]
        BY <1>4
      <3>2. \A S : [1..n -> S] \subseteq Seq(S)
        BY <1>1
      <3>3. g \in Seq({Rule(devices[i]) : i \in 1..n})
        BY <3>1, <3>2
      <3> HIDE DEF g
      <3> QED BY <1>1, <1>4, <3>3
    <2>2. \A i \in 1..n : g[i] = Rule(devices[i])
      BY <1>4
    <2> HIDE DEF g
    <2>3. \A S : g \in Seq(S) => /\ DOMAIN (<<DenyAll>> \o g) = 1..(1 + Len(g))
                                 /\ (<<DenyAll>> \o g)[1] = DenyAll
                                 /\ \A i \in 1..Len(g) : (<<DenyAll>> \o g)[i + 1] = g[i]
      OBVIOUS
    <2> QED BY <1>1, <2>1, <2>2, <2>3
  <1>6. Allows(rules, dev, access, default) = IF hits = {} THEN default ELSE rules[m].allow
    BY DEF Allows, Hit
  <1> HIDE DEF rules
  <1>7. 1 \in hits /\ hits \in SUBSET (1..(n + 1)) /\ n + 1 \in Nat
    BY <1>1, <1>3, <1>5
  <1>8. m \in hits /\ \A j \in hits : j <= m
    <2> HIDE DEF hits
    <2> QED BY <1>7, LastHit, Zenon
  <1>9. \A i \in 1..n : i + 1 \in hits <=> Wants(devices[i])
    <2> TAKE i \in 1..n
    <2>1. i + 1 \in DOMAIN rules /\ rules[i + 1] = Rule(devices[i])
      BY <1>1, <1>5
    <2>2. i + 1 \in hits <=> Hit(Rule(devices[i]))
      BY <2>1
    <2> QED BY <1>2, <2>2
  <1> HIDE DEF hits, m
  <1>10. CASE m = 1
    <2>1. \A i \in 1..n : ~ Wants(devices[i])
      <3> TAKE i \in 1..n
      <3>1. ~ (i + 1 <= 1)
        BY <1>1
      <3> QED BY <1>8, <1>9, <1>10, <3>1
    <2>2. Allows(rules, dev, access, default) = FALSE
      BY <1>3, <1>5, <1>6, <1>7, <1>10
    <2> QED BY <1>1, <2>1, <2>2 DEF rules, g, Rule, Wants, RulesFor, AskedFor
  <1>11. CASE m # 1
    <2>1. m - 1 \in 1..n /\ (m - 1) + 1 = m
      BY <1>1, <1>7, <1>8, <1>11
    <2>2. Wants(devices[m - 1])
      BY <1>8, <1>9, <2>1
    <2>3. rules[m].allow = TRUE
      BY <1>2, <1>5, <2>1
    <2>4. Allows(rules, dev, access, default) = TRUE
      BY <1>6, <1>7, <2>3
    <2> QED BY <1>1, <2>1, <2>2, <2>4 DEF rules, g, Rule, Wants, RulesFor, AskedFor
  <1> QED BY <1>10, <1>11
-----------------------------------------------------------------------------
(* The resources the client sent, and the last value of a limit in them. *)
LEMMA FlattenAppend ==
  ASSUME NEW T, NEW ss \in Seq(Seq(T)), NEW y \in Seq(T)
  PROVE  FlattenSeq(ss) \in Seq(T) /\ FlattenSeq(Append(ss, y)) = FlattenSeq(ss) \o y
  <1> DEFINE n == Len(ss)
             tt == Append(ss, y)
  <1>1. n \in Nat /\ tt \in Seq(Seq(T)) /\ Len(tt) = n + 1 /\ tt[n + 1] = y /\ \A i \in 1..n : tt[i] = ss[i]
    OBVIOUS
  <1>2. PICK f : Flattens(f, ss, n, T)
    BY FlattenTrace
  <1> HIDE DEF n, tt
  <1>3. PICK g : Flattens(g, tt, n + 1, T)
    BY <1>1, FlattenTrace
  <1> DEFINE S == {i \in Nat : i <= n => f[i] = g[i]}
  <1>4. 0 \in S
    BY <1>2, <1>3 DEF Flattens
  <1>5. ASSUME NEW i \in Nat, i \in S PROVE i + 1 \in S
    <2> SUFFICES ASSUME i + 1 <= n PROVE f[i + 1] = g[i + 1]
      OBVIOUS
    <2>1. i + 1 \in 1..n /\ i + 1 \in 1..(n + 1) /\ (i + 1) - 1 = i /\ i <= n
      BY <1>1
    <2>2. f[i + 1] = f[i] \o ss[i + 1] /\ g[i + 1] = g[i] \o tt[i + 1]
      BY <1>2, <1>3, <2>1 DEF Flattens
    <2> QED BY <1>1, <1>5, <2>1, <2>2
  <1>6. f[n] = g[n]
    <2>1. n \in S
      <3> HIDE DEF S
      <3> QED BY <1>1, <1>4, <1>5, NatSet
    <2> QED BY <1>1, <2>1
  <1>7. n + 1 \in 1..(n + 1) /\ (n + 1) - 1 = n /\ n \in 0..n
    BY <1>1
  <1>8. g[n + 1] = g[n] \o y
    BY <1>1, <1>3, <1>7 DEF Flattens
  <1>9. f[n] = FlattenSeq(ss) /\ g[n + 1] = FlattenSeq(tt) /\ f[n] \in Seq(T)
    BY <1>2, <1>3, <1>7 DEF Flattens
  <1> QED BY <1>6, <1>8, <1>9 DEF tt

Present(s) == FlattenSeq([i \in DOMAIN s |-> IF s[i] # None THEN <<s[i]>> ELSE <<>>])

LEMMA PresentAppend ==
  ASSUME NEW T, NEW s \in Seq(T), NEW x \in T
  PROVE  /\ Present(<<>>) = <<>> /\ Present(s) \in Seq(T)
         /\ Present(Append(s, x)) = IF x # None THEN Append(Present(s), x) ELSE Present(s)
  <1> DEFINE E(v) == IF v # None THEN <<v>> ELSE <<>>
             n == Len(s)
             ss == [i \in DOMAIN s |-> E(s[i])]
             t == Append(s, x)
             tt == [i \in DOMAIN t |-> E(t[i])]
             y == E(x)
  <1>1. n \in Nat /\ DOMAIN s = 1..n /\ \A i \in 1..n : s[i] \in T
    OBVIOUS
  <1>2. \A v \in T : E(v) \in Seq(T)
    OBVIOUS
  <1>3. y \in Seq(T) /\ y = IF x # None THEN <<x>> ELSE <<>>
    OBVIOUS
  <1>4. ss = [i \in 1..n |-> ss[i]] /\ \A i \in 1..n : ss[i] = E(s[i])
    BY <1>1
  <1>5. DOMAIN t = 1..(n + 1) /\ t[n + 1] = x /\ \A i \in 1..n : t[i] = s[i]
    BY <1>1
  <1>6. Present(s) = FlattenSeq(ss) /\ Present(t) = FlattenSeq(tt)
    BY Zenon DEF Present
  <1>0. Present(<<>>) = <<>>
    <2> DEFINE zz == [i \in DOMAIN <<>> |-> E(<<>>[i])]
    <2>1. zz = <<>>
      OBVIOUS
    <2>2. Present(<<>>) = FlattenSeq(zz)
      BY Zenon DEF Present
    <2> HIDE DEF zz
    <2>3. FlattenSeq(<<>>) = <<>>
      BY DEF FlattenSeq
    <2> QED BY <2>1, <2>2, <2>3
  <1> HIDE DEF E, y, n, t
  <1>7. tt = [i \in 1..(n + 1) |-> E(t[i])]
    BY <1>5
  <1>8. \A i \in 1..n : ss[i] \in Seq(T)
    BY <1>1, <1>2, <1>4
  <1> HIDE DEF ss, tt
  <1>9. ss \in Seq(Seq(T)) /\ Len(ss) = n
    <2>1. ss \in [1..n -> Seq(T)]
      BY <1>4, <1>8
    <2> DEFINE U == Seq(T)
    <2>2. ss \in [1..n -> U]
      BY <2>1
    <2> HIDE DEF U
    <2>3. ss \in Seq(U) /\ Len(ss) = n
      BY <1>1, <2>2
    <2> QED BY <2>3 DEF U
  <1>10. tt = Append(ss, y)
    <2> DEFINE U == Seq(T)
               A == Append(ss, y)
    <2>1. ss \in Seq(U) /\ y \in U
      BY <1>3, <1>9
    <2> HIDE DEF U
    <2>2. A = [i \in 1..(n + 1) |-> A[i]] /\ A[n + 1] = y /\ \A i \in 1..n : A[i] = ss[i]
      <3>1. A \in Seq(U) /\ Len(A) = n + 1
        BY <1>9, <2>1
      <3>2. A[n + 1] = y /\ \A i \in 1..n : A[i] = ss[i]
        BY <1>1, <1>9, <2>1
      <3> HIDE DEF A
      <3> QED BY <3>1, <3>2
    <2> HIDE DEF A
    <2>3. ASSUME NEW i \in 1..(n + 1) PROVE A[i] = E(t[i])
      <3>1. CASE i = n + 1
        BY <1>5, <2>2, <3>1 DEF y
      <3>2. CASE i # n + 1
        <4>1. i \in 1..n
          BY <1>1, <3>2
        <4> QED BY <1>4, <1>5, <2>2, <4>1
      <3> QED BY <3>1, <3>2
    <2> QED BY <1>7, <2>2, <2>3 DEF A
  <1>11. FlattenSeq(ss) \in Seq(T) /\ FlattenSeq(Append(ss, y)) = FlattenSeq(ss) \o y
    BY <1>3, <1>9, FlattenAppend
  <1> DEFINE r == FlattenSeq(ss)
  <1>12. r \o y = IF x # None THEN Append(r, x) ELSE r
    <2> HIDE DEF r
    <2>1. r \in Seq(T)
      BY <1>11 DEF r
    <2>2. r \o <<x>> = Append(r, x) /\ r \o <<>> = r
      BY <2>1
    <2> QED BY <1>3, <2>2
  <1> QED BY <1>0, <1>6, <1>10, <1>11, <1>12 DEF t

LastIn(sent, f) ==
  LET sets == {i \in DOMAIN sent : Set(sent[i], f) # {}}
  IN IF sets = {} THEN {} ELSE Set(sent[CHOOSE i \in sets : \A j \in sets : j <= i], f)

LEMMA LastAppend ==
  ASSUME NEW T, NEW sent \in Seq(T), NEW r \in T, NEW f
  PROVE  LastIn(Append(sent, r), f) = IF Set(r, f) # {} THEN Set(r, f) ELSE LastIn(sent, f)
  <1> DEFINE n == Len(sent)
             t == Append(sent, r)
             sets == {i \in DOMAIN sent : Set(sent[i], f) # {}}
             tops == {i \in DOMAIN t : Set(t[i], f) # {}}
             m == CHOOSE i \in sets : \A j \in sets : j <= i
             k == CHOOSE i \in tops : \A j \in tops : j <= i
  <1>1. /\ n \in Nat /\ DOMAIN sent = 1..n /\ DOMAIN t = 1..(n + 1) /\ t[n + 1] = r
        /\ \A i \in 1..n : t[i] = sent[i]
    OBVIOUS
  <1>2. /\ LastIn(sent, f) = IF sets = {} THEN {} ELSE Set(sent[m], f)
        /\ LastIn(t, f) = IF tops = {} THEN {} ELSE Set(t[k], f)
    BY Zenon DEF LastIn
  <1> HIDE DEF t, n
  <1>3. sets \in SUBSET (1..n) /\ tops \in SUBSET (1..(n + 1)) /\ n + 1 \in Nat
    BY <1>1
  <1>4. sets # {} => m \in sets
    <2> HIDE DEF sets
    <2> QED BY <1>1, <1>3, LastHit, Zenon
  <1>5. tops # {} => k \in tops /\ \A j \in tops : j <= k
    <2> HIDE DEF tops
    <2> QED BY <1>3, LastHit, Zenon
  <1>6. tops = IF Set(r, f) # {} THEN sets \cup {n + 1} ELSE sets
    BY <1>1
  <1>7. CASE Set(r, f) # {}
    <2>1. n + 1 \in tops
      BY <1>6, <1>7
    <2> HIDE DEF sets, tops, m, k
    <2>2. k = n + 1
      <3>1. k \in tops /\ n + 1 <= k
        BY <1>5, <2>1
      <3>2. k \in 1..(n + 1)
        BY <1>3, <3>1
      <3> QED BY <1>1, <3>1, <3>2
    <2> QED BY <1>1, <1>2, <1>7, <2>1, <2>2 DEF t
  <1>8. CASE Set(r, f) = {}
    <2>1. tops = sets /\ k = m
      <3>1. tops = sets
        BY <1>6, <1>8
      <3> HIDE DEF tops, sets
      <3> QED BY <3>1
    <2> HIDE DEF sets, tops, m, k
    <2> QED BY <1>1, <1>2, <1>3, <1>4, <1>8, <2>1 DEF t
  <1> QED BY <1>7, <1>8
FirstOf(a) == IF a.pod.cgroup_parent = None THEN None ELSE a.config.resources
SentTo(a, k) == Present(<<FirstOf(a)>> \o SubSeq(a.resizes, 1, k))
SentType(a) == Range(a.resizes) \cup {a.config.resources, None}

LEMMA SentIs == Sent = SentTo(asked, resized) /\ \A f : LastSet(f) = LastIn(Sent, f)
  <1>1. Sent = SentTo(asked, resized)
    BY Zenon DEF Sent, Retain, SentTo, Present, FirstOf
  <1>2. \A f : LastSet(f) = LastIn(Sent, f)
    BY Zenon DEF LastSet, LastIn
  <1> QED BY <1>1, <1>2

LEMMA SentFirst ==
  ASSUME NEW a, IsVec(a.resizes)
  PROVE  SentTo(a, 0) = (IF FirstOf(a) # None THEN <<FirstOf(a)>> ELSE <<>>) /\ SentTo(a, 0) \in Seq(SentType(a))
  <1> DEFINE T == SentType(a)
             x == FirstOf(a)
  <1>1. x \in T
    BY DEF FirstOf, SentType
  <1>2. <<x>> \o SubSeq(a.resizes, 1, 0) = Append(<<>>, x)
    <2> DEFINE u == SubSeq(a.resizes, 1, 0)
    <2>1. u \in Seq(Range(a.resizes)) /\ Len(u) = 0
      BY DEF IsVec
    <2> HIDE DEF u, x
    <2>2. u = <<>>
      BY <2>1
    <2>3. <<x>> \o <<>> = Append(<<>>, x)
      OBVIOUS
    <2> QED BY <2>2, <2>3 DEF u
  <1> HIDE DEF T, x
  <1>3. <<>> \in Seq(T) /\ Append(<<>>, x) = <<x>> /\ <<x>> \in Seq(T)
    BY <1>1
  <1>4. Present(Append(<<>>, x)) = IF x # None THEN Append(Present(<<>>), x) ELSE Present(<<>>)
    BY <1>1, <1>3, PresentAppend
  <1>5. Present(<<>>) = <<>>
    BY <1>1, <1>3, PresentAppend
  <1>6. SentTo(a, 0) = IF x # None THEN <<x>> ELSE <<>>
    BY <1>2, <1>3, <1>4, <1>5, Zenon DEF SentTo, x
  <1> QED BY <1>3, <1>6 DEF x, T

LEMMA SentStep ==
  ASSUME NEW a, IsVec(a.resizes), NEW k \in Nat, k < Len(a.resizes)
  PROVE  LET x == a.resizes[k + 1] IN
         /\ x \in Range(a.resizes) /\ SentTo(a, k) \in Seq(SentType(a))
         /\ SentTo(a, k + 1) = IF x # None THEN Append(SentTo(a, k), x) ELSE SentTo(a, k)
  <1> DEFINE T == SentType(a)
             s == a.resizes
             x == s[k + 1]
             first == FirstOf(a)
             q == <<first>> \o SubSeq(s, 1, k)
  <1>1. s \in Seq(Range(s)) /\ k + 1 \in 1..Len(s)
    BY DEF IsVec
  <1>2. x \in Range(s) /\ x \in T /\ Range(s) \subseteq T /\ first \in T
    BY <1>1 DEF Range, SentType, FirstOf
  <1> HIDE DEF T, s, first
  <1>3. s \in Seq(T)
    BY <1>1, <1>2
  <1>4. SubSeq(s, 1, k) \in Seq(T) /\ SubSeq(s, 1, k + 1) = Append(SubSeq(s, 1, k), x)
    <2>1. SubSeq(s, 1, k) \in Seq(T)
      BY <1>1, <1>3
    <2> DEFINE u == SubSeq(s, 1, k)
               v == SubSeq(s, 1, k + 1)
    <2>2. Len(u) = k /\ \A i \in 1..k : u[i] = s[i]
      BY <1>1, <1>3
    <2>3. v \in Seq(T) /\ Len(v) = k + 1 /\ \A i \in 1..(k + 1) : v[i] = s[i]
      BY <1>1, <1>3
    <2> HIDE DEF u, v
    <2>4. v = Append(u, x)
      BY <1>2, <2>1, <2>2, <2>3 DEF u
    <2> QED BY <2>1, <2>4 DEF u, v
  <1>5. q \in Seq(T) /\ <<first>> \o SubSeq(s, 1, k + 1) = Append(q, x)
    <2> DEFINE u == SubSeq(s, 1, k)
    <2>1. u \in Seq(T) /\ <<first>> \in Seq(T)
      BY <1>2, <1>4
    <2> HIDE DEF u, x
    <2>2. <<first>> \o Append(u, x) = Append(<<first>> \o u, x) /\ <<first>> \o u \in Seq(T)
      BY <1>2, <2>1
    <2> QED BY <1>4, <2>2 DEF u
  <1> HIDE DEF q, x
  <1>6. Present(q) \in Seq(T) /\ Present(Append(q, x)) = IF x # None THEN Append(Present(q), x) ELSE Present(q)
    BY <1>2, <1>5, PresentAppend
  <1>7. SentTo(a, k) = Present(q) /\ SentTo(a, k + 1) = Present(Append(q, x))
    BY <1>5, Zenon DEF SentTo, q, first, s
  <1> QED BY <1>2, <1>6, <1>7 DEF x, s, T

LEMMA LimitNames == DOMAIN NoLimits = {"memory", "quota", "period", "shares", "cpus", "mems"}
  BY DEF NoLimits

(* a limit is set exactly if its conversion is not None *)
LEMMA SetIs ==
  ASSUME NEW r, IsLimits(r), NEW f \in DOMAIN NoLimits
  PROVE  Set(r, f) = {cri_resources(r)[f]} \ {None}
  <1> DEFINE c == cri_resources(r)
  <1>1. /\ c.shares = Positive(r.cpu_shares) /\ c.period = Positive(r.cpu_period)
        /\ c.quota = (IF r.cpu_quota # 0 THEN r.cpu_quota ELSE None)
        /\ c.memory = Positive(r.memory) /\ c.cpus = r.cpus /\ c.mems = r.mems
    BY DEF cri_resources
  <1> HIDE DEF c
  <1>2. /\ r.cpu_shares \in Int /\ r.cpu_quota \in Int /\ r.cpu_period \in Int /\ r.memory \in Int
        /\ None \notin Int
    BY BundleAssumption DEF IsLimits
  <1>3. ASSUME NEW v \in Int PROVE (IF v <= 0 THEN {} ELSE {v}) = {Positive(v)} \ {None}
    BY <1>2, <1>3 DEF Positive
  <1>4. CASE f = "shares"
    BY <1>1, <1>2, <1>3, <1>4 DEF Set, c
  <1>5. CASE f = "period"
    BY <1>1, <1>2, <1>3, <1>5 DEF Set, c
  <1>6. CASE f = "memory"
    BY <1>1, <1>2, <1>3, <1>6 DEF Set, c
  <1>7. CASE f = "quota"
    BY <1>1, <1>2, <1>7 DEF Set, c
  <1>8. CASE f = "cpus"
    BY <1>1, <1>8 DEF Set, c
  <1>9. CASE f = "mems"
    BY <1>1, <1>9 DEF Set, c
  <1> QED BY <1>4, <1>5, <1>6, <1>7, <1>8, <1>9, LimitNames

(* `crun update' changes the limits that are set, and no other. *)
LEMMA UpdateIs ==
  ASSUME NEW c, DOMAIN c = DOMAIN NoLimits, NEW res
  PROVE  LET e == Extend(c, update_args(res)) IN
         DOMAIN e = DOMAIN NoLimits /\ \A f \in DOMAIN NoLimits : e[f] = IF res[f] # None THEN res[f] ELSE c[f]
  <1> DEFINE N == DOMAIN NoLimits
             u == [f \in {g \in N : res[g] # None} |-> res[f]]
  <1>1. update_args(res) = u
    BY DEF update_args
  <1> HIDE DEF N
  <1>2. DOMAIN u = {g \in N : res[g] # None} /\ \A f \in DOMAIN u : u[f] = res[f]
    OBVIOUS
  <1>3. DOMAIN c = N
    BY DEF N
  <1> HIDE DEF u
  <1>4. DOMAIN Extend(c, u) = N /\ \A f \in N : Extend(c, u)[f] = IF f \in DOMAIN u THEN u[f] ELSE c[f]
    BY <1>2, <1>3 DEF Extend
  <1> QED BY <1>1, <1>2, <1>4 DEF N
(* The limits that the bundle itself sets. *)
LEMMA FirstLimits ==
  ASSUME NEW a, IsAsked(a), create_container(a).error = None
  PROVE  LET c == create_container(a) IN
         /\ DOMAIN c.cgroup = DOMAIN NoLimits
         /\ \A f \in DOMAIN NoLimits :
              c.cgroup[f] = IF FirstOf(a) = None THEN None ELSE cri_resources(FirstOf(a))[f]
         /\ FirstOf(a) # None => c.record.resources = resources_record(FirstOf(a)) /\ IsLimits(FirstOf(a))
         /\ c.spec.resources.cpu # None => c.spec.cgroups_path # None
  <1> DEFINE c == create_container(a)
             req == RequestOf(a)
             image == parse_image_config(ImageOf(a))
             x == generate_spec(image, req)
             first == FirstOf(a)
             limited == req.cgroup_path # None /\ req.resources # Resources0
             rec == StatusRecord(ImageOf(a), a.config)
             parent == a.pod.cgroup_parent
  <1>1. /\ c = [error |-> None, rootfs |-> Rootfs(ImageOf(a).layers, SandboxOf(a)), record |-> rec,
                spec |-> c.spec, cgroup |-> CgroupOf(c.spec)]
        /\ c.spec = x
    BY CreateFields
  <1>2. c.cgroup = CgroupOf(x) /\ c.record = rec
    <2> HIDE DEF x, rec, c
    <2> QED BY <1>1
  <1>3. IsRequest(a)
    BY AskedIsRequest
  <1>4. /\ x.cgroups_path = req.cgroup_path
        /\ ~ limited => x.resources.cpu = None
        /\ limited => x.resources.cpu = CpuLimits(req.resources)
                      /\ x.resources.memory = OrElse(req.resources.memory, None)
    <2> HIDE DEF image, req
    <2>1. x.cgroups_path = req.cgroup_path
      BY GenerateFields, Zenon
    <2>2. ~ limited => x.resources.cpu = None
      BY GenerateFields, Zenon
    <2>3. limited => x.resources.cpu = CpuLimits(req.resources)
      BY GenerateFields, Zenon
    <2>4. limited => x.resources.memory = OrElse(req.resources.memory, None)
      BY GenerateFields, Zenon
    <2> HIDE DEF x, limited
    <2> QED BY <2>1, <2>2, <2>3, <2>4
  <1>5. /\ req.cgroup_path = cgroups_path(parent)
        /\ req.resources = IF a.config.resources = None THEN Resources0 ELSE cri_resources(a.config.resources)
    BY RequestFields, SandboxFields
  <1>6. req.cgroup_path # None <=> parent # None
    BY <1>3, <1>5 DEF IsRequest, cgroups_path
  <1>7. first = IF parent = None THEN None ELSE a.config.resources
    BY DEF FirstOf
  <1>8. first # None => IsLimits(first) /\ rec.resources = resources_record(first)
    <2>1. a.config.resources = None \/ IsLimits(a.config.resources)
      BY <1>3 DEF IsRequest
    <2>2. a.config.resources # None => rec.resources = resources_record(a.config.resources)
      BY DEF StatusRecord
    <2> QED BY <1>7, <2>1, <2>2
  <1>9. limited <=> first # None /\ cri_resources(first) # Resources0
    BY <1>5, <1>6, <1>7
  <1>10. x.resources.cpu # None => x.cgroups_path # None
    <2> HIDE DEF x
    <2> QED BY <1>4
  <1> HIDE DEF x, rec, c, req, first
  <1>11. CASE limited
    <2> DEFINE r == cri_resources(first)
               cpu == CpuLimits(r)
               mem == [memory |-> x.resources.memory]
    <2>1. req.resources = r /\ first # None /\ cpu # None
      <3>1. first # None /\ IsLimits(first)
        BY <1>8, <1>9, <1>11
      <3> QED BY <1>5, <1>7, <3>1 DEF IsLimits
    <2>2. x.resources.cpu = cpu /\ x.resources.memory = r.memory
      BY <1>4, <1>11, <2>1 DEF OrElse
    <2>3. CgroupOf(x) = Extend(mem, cpu)
      BY <2>1, <2>2 DEF CgroupOf
    <2> HIDE DEF r
    <2>4. /\ DOMAIN cpu = {"shares", "quota", "period", "cpus", "mems"} /\ DOMAIN mem = {"memory"}
          /\ \A f \in DOMAIN cpu : cpu[f] = r[f]
          /\ mem["memory"] = r["memory"]
      BY <2>2 DEF CpuLimits
    <2> HIDE DEF cpu, mem
    <2>5. /\ DOMAIN Extend(mem, cpu) = DOMAIN mem \cup DOMAIN cpu
          /\ \A f \in DOMAIN mem \cup DOMAIN cpu :
               Extend(mem, cpu)[f] = IF f \in DOMAIN cpu THEN cpu[f] ELSE mem[f]
      BY DEF Extend
    <2>6. DOMAIN Extend(mem, cpu) = DOMAIN NoLimits
      BY <2>4, <2>5, LimitNames
    <2>7. \A f \in DOMAIN NoLimits : Extend(mem, cpu)[f] = r[f]
      BY <2>4, <2>5, LimitNames
    <2> QED BY <1>1, <1>2, <1>8, <1>10, <2>1, <2>3, <2>6, <2>7 DEF first, c, r
  <1>12. CASE ~ limited
    <2>1. CgroupOf(x) = NoLimits
      BY <1>4, <1>12 DEF CgroupOf
    <2>2. \A f \in DOMAIN NoLimits : NoLimits[f] = None /\ Resources0[f] = None
      BY DEF NoLimits, Resources0
    <2>3. first # None => cri_resources(first) = Resources0
      BY <1>9, <1>12
    <2>4. \A f \in DOMAIN NoLimits : NoLimits[f] = IF first = None THEN None ELSE cri_resources(first)[f]
      BY <2>2, <2>3
    <2> QED BY <1>1, <1>2, <1>8, <1>10, <2>1, <2>4 DEF first, c
  <1> QED BY <1>11, <1>12

(* The limits in effect are the last ones sent, and so is the record. *)
LimitsKept(a, k, cgroup, resources) ==
  LET sent == SentTo(a, k) IN
  /\ k \in Nat /\ k <= Len(a.resizes) /\ sent \in Seq(SentType(a))
  /\ DOMAIN cgroup = DOMAIN NoLimits
  /\ \A f \in DOMAIN NoLimits : LastIn(sent, f) = {cgroup[f]} \ {None}
  /\ sent # <<>> => resources = resources_record(sent[Len(sent)])

Limited ==
  /\ ~ Done => resized = 0
  /\ Done => LimitsKept(asked, resized, made.cgroup, made.record.resources)

LEMMA LastInNone == \A f : LastIn(<<>>, f) = {}
  BY DEF LastIn

LEMMA CreateLimits ==
  ASSUME NEW a, IsAsked(a), create_container(a).error = None
  PROVE  LimitsKept(a, 0, create_container(a).cgroup, create_container(a).record.resources)
  <1> DEFINE c == create_container(a)
             sent == SentTo(a, 0)
             first == FirstOf(a)
             T == SentType(a)
  <1>1. IsVec(a.resizes)
    BY AskedIsRequest DEF IsRequest
  <1>2. sent = (IF first # None THEN <<first>> ELSE <<>>) /\ sent \in Seq(T)
    BY <1>1, SentFirst
  <1>3. /\ DOMAIN c.cgroup = DOMAIN NoLimits
        /\ \A f \in DOMAIN NoLimits : c.cgroup[f] = IF first = None THEN None ELSE cri_resources(first)[f]
        /\ first # None => c.record.resources = resources_record(first) /\ IsLimits(first)
    BY FirstLimits
  <1>4. 0 \in Nat /\ 0 <= Len(a.resizes)
    BY <1>1 DEF IsVec
  <1>t. first \in T
    BY DEF FirstOf, SentType
  <1> HIDE DEF c, sent, first, T
  <1>5. \A f \in DOMAIN NoLimits : LastIn(sent, f) = {c.cgroup[f]} \ {None}
    <2> TAKE f \in DOMAIN NoLimits
    <2>1. CASE first = None
      BY <1>2, <1>3, <2>1, LastInNone
    <2>2. CASE first # None
      <3>1. Set(first, f) = {cri_resources(first)[f]} \ {None}
        BY <1>3, <2>2, SetIs
      <3>2. <<>> \in Seq(T) /\ Append(<<>>, first) = <<first>>
        OBVIOUS
      <3>3. LastIn(Append(<<>>, first), f) = IF Set(first, f) # {} THEN Set(first, f) ELSE LastIn(<<>>, f)
        BY <1>t, <3>2, LastAppend
      <3>4. LastIn(sent, f) = Set(first, f)
        BY <1>2, <2>2, <3>2, <3>3, LastInNone
      <3> QED BY <1>3, <2>2, <3>1, <3>4
    <2> QED BY <2>1, <2>2
  <1>6. sent # <<>> => c.record.resources = resources_record(sent[Len(sent)])
    BY <1>2, <1>3
  <1> QED BY <1>2, <1>3, <1>4, <1>5, <1>6 DEF LimitsKept, c, sent, T

LEMMA ResizeLimits ==
  ASSUME Bundled, Limited, UpdateContainerResources
  PROVE  Limited'
  <1> DEFINE a == asked
             k == resized
             linux == a.resizes[k + 1]
             res == IF linux = None THEN Resources0 ELSE cri_resources(linux)
             sent == SentTo(a, k)
             next == SentTo(a, k + 1)
             T == SentType(a)
             g == made.cgroup
             h == Extend(g, update_args(res))
             rs == IF linux = None THEN made.record.resources ELSE resources_record(linux)
  <1>1. Done /\ IsRequest(a) /\ k < Len(a.resizes) /\ resized' = k + 1
    BY AskedIsRequest DEF UpdateContainerResources, Bundled, Done
  <1>2. LimitsKept(a, k, g, made.record.resources)
    BY <1>1 DEF Limited
  <1>3. asked' = a /\ Done' /\ made'.cgroup = h /\ made'.record.resources = rs
    BY ResizeBundles
  <1>4. /\ k \in Nat /\ sent \in Seq(T) /\ DOMAIN g = DOMAIN NoLimits
        /\ \A f \in DOMAIN NoLimits : LastIn(sent, f) = {g[f]} \ {None}
        /\ sent # <<>> => made.record.resources = resources_record(sent[Len(sent)])
    BY <1>2 DEF LimitsKept
  <1>5. linux \in Range(a.resizes) /\ next = IF linux # None THEN Append(sent, linux) ELSE sent
    <2>1. IsVec(a.resizes)
      BY <1>1 DEF IsRequest
    <2> QED BY <1>1, <1>4, <2>1, SentStep
  <1>6. linux = None \/ IsLimits(linux)
    BY <1>1, <1>5 DEF IsRequest
  <1>7. k + 1 \in Nat /\ k + 1 <= Len(a.resizes)
    <2>1. Len(a.resizes) \in Nat
      BY <1>1 DEF IsRequest, IsVec
    <2> QED BY <1>1, <1>4, <2>1
  <1>8. linux \in T
    BY <1>5 DEF SentType
  <1> HIDE DEF linux, sent, next, T, g, a
  <1>9. DOMAIN h = DOMAIN NoLimits /\ \A f \in DOMAIN NoLimits : h[f] = IF res[f] # None THEN res[f] ELSE g[f]
    <2> HIDE DEF res
    <2> QED BY <1>4, UpdateIs
  <1> HIDE DEF h, rs
  <1>10. LimitsKept(a, k + 1, h, rs)
    <2>1. CASE linux = None
      <3>1. \A f \in DOMAIN NoLimits : res[f] = None
        BY <2>1 DEF NoLimits, Resources0
      <3>2. \A f \in DOMAIN NoLimits : h[f] = g[f]
        BY <1>9, <3>1
      <3> QED BY <1>4, <1>5, <1>7, <1>9, <2>1, <3>2 DEF LimitsKept, sent, next, T, rs
    <2>2. CASE linux # None
      <3>1. next = Append(sent, linux) /\ next \in Seq(T) /\ next[Len(next)] = linux
        BY <1>4, <1>5, <1>8, <2>2
      <3>2. ASSUME NEW f \in DOMAIN NoLimits PROVE LastIn(next, f) = {h[f]} \ {None}
        <4>1. Set(linux, f) = {res[f]} \ {None}
          BY <1>6, <2>2, SetIs
        <4>2. LastIn(next, f) = IF Set(linux, f) # {} THEN Set(linux, f) ELSE LastIn(sent, f)
          BY <1>4, <1>8, <3>1, LastAppend
        <4> HIDE DEF res
        <4>3. CASE res[f] = None
          BY <1>4, <1>9, <4>1, <4>2, <4>3
        <4>4. CASE res[f] # None
          BY <1>9, <4>1, <4>2, <4>4
        <4> QED BY <4>3, <4>4
      <3>3. rs = resources_record(linux)
        BY <2>2 DEF rs
      <3> QED BY <1>7, <1>9, <3>1, <3>2, <3>3 DEF LimitsKept, next, T
    <2> QED BY <2>1, <2>2
  <1> QED BY <1>1, <1>3, <1>10 DEF Limited, a
LEMMA NextLimits == Bundled /\ Limited /\ [Next]_vars => Limited'
  <1> SUFFICES ASSUME Bundled, Limited, [Next]_vars PROVE Limited'
    OBVIOUS
  <1>1. CASE UNCHANGED vars
    BY <1>1 DEF vars, Limited, Done
  <1>2. ASSUME asked = None, NEW a, IsAsked(a), CreateContainer(a) PROVE Limited'
    <2>1. asked' = a /\ made' = create_container(a) /\ resized' = 0
      BY <1>2 DEF CreateContainer, Limited, Done
    <2>2. Done' => create_container(a).error = None
      BY <2>1 DEF Done
    <2>3. Done' => LimitsKept(a, 0, create_container(a).cgroup, create_container(a).record.resources)
      BY <1>2, <2>2, CreateLimits
    <2>4. Done' => LimitsKept(asked', resized', made'.cgroup, made'.record.resources)
      BY <2>1, <2>3
    <2> QED BY <2>1, <2>4 DEF Limited
  <1>3. CASE Next
    BY <1>2, <1>3, ResizeLimits DEF Next, IsAsked
  <1> QED BY <1>1, <1>3

(* what a status shows of a record sets what the message set *)
LEMMA ShownSets ==
  ASSUME NEW r, NEW f \in DOMAIN NoLimits
  PROVE  Set(record_to_cri_resources(resources_record(r)), f) = Set(r, f)
  <1> DEFINE rec == resources_record(r)
             z == [hugepages |-> <<>>, unified |-> <<>>]
             s == Extend(z, rec)
  <1>1. /\ DOMAIN rec = {"cpu_shares", "cpu_quota", "cpu_period", "memory", "cpus", "mems"}
        /\ \A g \in DOMAIN rec : rec[g] = r[g]
    BY DEF resources_record
  <1> HIDE DEF rec, z
  <1>2. \A g \in DOMAIN rec : s[g] = r[g]
    BY <1>1 DEF Extend
  <1>3. s = record_to_cri_resources(rec)
    BY DEF record_to_cri_resources, z
  <1> HIDE DEF s
  <1>4. /\ s.cpu_shares = r.cpu_shares /\ s.cpu_quota = r.cpu_quota /\ s.cpu_period = r.cpu_period
        /\ s.memory = r.memory /\ s.cpus = r.cpus /\ s.mems = r.mems
    BY <1>1, <1>2
  <1>5. \A g \in DOMAIN NoLimits : g \in {"memory", "cpus", "mems"} => s[g] = r[g]
    BY <1>1, <1>2
  <1>6. Set(s, f) = Set(r, f)
    BY <1>4, <1>5, LimitNames DEF Set
  <1> QED BY <1>3, <1>6 DEF rec

LEMMA LastSetIn ==
  ASSUME NEW T, NEW sent \in Seq(T), sent # <<>>, NEW f
  PROVE  LET last == sent[Len(sent)] IN Set(last, f) # {} => LastIn(sent, f) = Set(last, f)
  <1> DEFINE n == Len(sent)
             sets == {i \in DOMAIN sent : Set(sent[i], f) # {}}
             m == CHOOSE i \in sets : \A j \in sets : j <= i
  <1> SUFFICES ASSUME Set(sent[n], f) # {} PROVE LastIn(sent, f) = Set(sent[n], f)
    OBVIOUS
  <1>1. n \in Nat /\ n # 0 /\ DOMAIN sent = 1..n /\ n \in 1..n
    OBVIOUS
  <1>2. n \in sets /\ sets \in SUBSET (1..n)
    BY <1>1
  <1>3. LastIn(sent, f) = IF sets = {} THEN {} ELSE Set(sent[m], f)
    BY Zenon DEF LastIn
  <1> HIDE DEF sets, n
  <1>4. m \in sets /\ \A j \in sets : j <= m
    BY <1>1, <1>2, LastHit, Zenon
  <1> HIDE DEF m
  <1>5. m = n
    <2>1. m \in 1..n /\ n <= m
      BY <1>2, <1>4
    <2> QED BY <1>1, <2>1
  <1> QED BY <1>2, <1>3, <1>5

LEMMA BundledDevices ==
  ASSUME Bundled, Done, DaemonIds = None,
         NEW dev, NEW access \in {"r", "w", "m"}, NEW default \in BOOLEAN
  PROVE  Allows(made.spec.resources.devices, dev, access, default)
           <=> asked.config.privileged \/ AskedFor(asked.config.devices, dev, access)
  <1> DEFINE config == asked.config
             req == RequestOf(asked)
             image == parse_image_config(ImageOf(asked))
             x == generate_spec(image, req)
             base == BaseSpec(req.rootless_host_ids)
             Rules(ds) == [i \in DOMAIN ds |->
                            [allow |-> TRUE, dev |-> stat_device(ds[i].host).dev,
                             access |-> sanitize_device_access(ds[i].permissions)]]
             wanted == AskedFor(config.devices, dev, access)
  <1>1. IsRequest(asked) /\ made.spec = x /\ ~ SpecFails(req)
    BY AskedIsRequest, CreateFields DEF Bundled, Done
  <1>2. /\ req.privileged = config.privileged /\ req.rootless_host_ids = None
        /\ req.devices = IF config.privileged THEN <<>> ELSE config.devices
    BY RequestFields
  <1>3. req.privileged => x.resources.devices = <<AllowAll>>
    <2> HIDE DEF image, req
    <2> QED BY GenerateFields, Zenon
  <1>4. ~ req.privileged => x.resources.devices = base.resources.devices \o Rules(req.devices)
    <2> HIDE DEF image, req
    <2> QED BY GenerateDevices, Zenon
  <1>5. base.resources.devices = <<DenyAll>>
    BY <1>2, BaseFields
  <1>6. config.privileged \in BOOLEAN /\ IsVec(config.devices)
    BY <1>1 DEF IsRequest
  <1> HIDE DEF x, base
  <1>7. CASE config.privileged
    <2>1. made.spec.resources.devices = <<AllowAll>>
      BY <1>1, <1>2, <1>3, <1>7
    <2>2. Allows(<<AllowAll>>, dev, access, default)
      BY PrivilegedAllows
    <2> QED BY <1>7, <2>1, <2>2
  <1>8. CASE ~ config.privileged
    <2>1. req.devices = config.devices /\ DevicesPresent(config.devices)
      BY <1>1, <1>2, <1>8 DEF SpecFails
    <2> HIDE DEF req
    <2>2. made.spec.resources.devices = <<DenyAll>> \o Rules(config.devices)
      BY <1>1, <1>2, <1>4, <1>5, <1>8, <2>1
    <2>3. Allows(RulesFor(config.devices), dev, access, default) <=> wanted
      BY <1>6, <2>1, ListedAllows
    <2>r. RulesFor(config.devices) = <<DenyAll>> \o Rules(config.devices)
      BY DEF RulesFor
    <2> HIDE DEF wanted, Rules
    <2>4. Allows(made.spec.resources.devices, dev, access, default) <=> config.privileged \/ wanted
      BY <1>8, <2>2, <2>3, <2>r
    <2> QED BY <2>4 DEF wanted
  <1> QED BY <1>6, <1>7, <1>8

LEMMA BundledResources == Bundled /\ Limited => ResourcesAsAsked
  <1> SUFFICES ASSUME Bundled, Limited, Done, DaemonIds = None PROVE ResourcesAsAsked
    BY DEF ResourcesAsAsked
  <1> DEFINE config == asked.config
             sent == SentTo(asked, resized)
             last == sent[Len(sent)]
             rec == made.record.resources
             res == made.spec.resources
             shown == Shown.resources
             Asked(dev, access) == AskedFor(config.devices, dev, access)
  <1>1. ASSUME NEW p \in DOMAIN Nodes, NEW access \in {"r", "w", "m"}, NEW default \in BOOLEAN
        PROVE  Allows(res.devices, Nodes[p].dev, access, default)
                 <=> config.privileged \/ Asked(Nodes[p].dev, access)
    BY BundledDevices
  <1>2. res.cpu # None => made.spec.cgroups_path # None
    <2>1. IsAsked(asked) /\ create_container(asked).error = None /\ made.spec = create_container(asked).spec
      BY DEF Bundled, Done
    <2> QED BY <2>1, FirstLimits
  <1>3. LimitsKept(asked, resized, made.cgroup, rec)
    BY DEF Limited
  <1>4. /\ sent \in Seq(SentType(asked))
        /\ \A f \in DOMAIN NoLimits : LastIn(sent, f) = {made.cgroup[f]} \ {None}
        /\ sent # <<>> => rec = resources_record(last)
    BY <1>3 DEF LimitsKept
  <1>5. Sent = sent /\ \A f : LastSet(f) = LastIn(sent, f)
    BY SentIs
  <1>6. shown = IF rec = None THEN None ELSE record_to_cri_resources(rec)
    BY DEF Shown, container_status
  <1> HIDE DEF sent, rec, shown, res, Asked
  <1>7. ASSUME NEW f \in DOMAIN NoLimits, shown # None, sent # <<>> PROVE Set(shown, f) \subseteq {made.cgroup[f]}
    <2>1. shown = record_to_cri_resources(resources_record(last))
      BY <1>4, <1>6, <1>7
    <2>2. Set(shown, f) = Set(last, f)
      BY <2>1, ShownSets
    <2>3. Set(last, f) # {} => LastIn(sent, f) = Set(last, f)
      BY <1>4, <1>7, LastSetIn
    <2> HIDE DEF last
    <2> QED BY <1>4, <2>2, <2>3
  <1>8. \A f \in DOMAIN NoLimits :
            /\ LastSet(f) = {made.cgroup[f]} \ {None}
            /\ shown # None /\ Sent # <<>> => Set(shown, f) \subseteq {made.cgroup[f]}
    BY <1>4, <1>5, <1>7
  <1>9. \A p \in DOMAIN Nodes, access \in {"r", "w", "m"}, default \in BOOLEAN :
            Nodes[p].typ # "other" =>
              (Allows(res.devices, Nodes[p].dev, access, default)
                 <=> config.privileged \/ Asked(Nodes[p].dev, access))
    BY <1>1
  <1> QED BY <1>2, <1>8, <1>9, Zenon DEF ResourcesAsAsked, res, shown, Asked, AskedFor

(* apply_resources, apply_devices, update_args and resources_record: with any
   list of devices and after any sequence of resizes, device access is what
   was asked, every limit in effect is the last one the client set, and the
   limits that a status shows are in effect. *)
THEOREM ContainerGetsItsResources == Spec => []ResourcesAsAsked
  <1>1. Init => Limited
    BY DEF Init, Limited, Done
  <1> QED BY <1>1, BundledStays, NextBundles, NextLimits, BundledResources, PTL DEF Spec
-----------------------------------------------------------------------------
(* Paths are sequences of names of U. *)
LEMMA PrefixIs ==
  ASSUME NEW U, NEW p \in Seq(U), NEW q \in Seq(U)
  PROVE  IsPrefix(p, q) <=> Len(p) <= Len(q) /\ \A i \in 1..Len(p) : p[i] = q[i]
  <1> DEFINE m == Len(p)
             n == Len(q)
  <1>1. m \in Nat /\ n \in Nat /\ SubSeq(p, 1, m) = p
    OBVIOUS
  <1>2. ASSUME m <= n PROVE SubSeq(q, 1, m) \in Seq(U) /\ Len(SubSeq(q, 1, m)) = m
                            /\ \A i \in 1..m : SubSeq(q, 1, m)[i] = q[i]
    BY <1>1, <1>2
  <1>3. ASSUME m <= n, \A i \in 1..m : p[i] = q[i] PROVE p = SubSeq(q, 1, m)
    <2> DEFINE r == SubSeq(q, 1, m)
    <2>1. r \in Seq(U) /\ Len(r) = m /\ \A i \in 1..m : r[i] = p[i]
      BY <1>2, <1>3
    <2> HIDE DEF r
    <2>2. r = [i \in 1..m |-> r[i]] /\ p = [i \in 1..m |-> p[i]]
      <3>1. r = [i \in 1..m |-> r[i]]
        BY <2>1
      <3>2. p = [i \in 1..m |-> p[i]]
        OBVIOUS
      <3> QED BY <3>1, <3>2
    <2>3. r = p
      BY <2>1, <2>2
    <2> QED BY <2>3 DEF r
  <1> HIDE DEF m, n
  <1>4. IsPrefix(p, q) <=> m <= n /\ SubSeq(p, 1, m) = SubSeq(q, 1, m)
    BY DEF IsPrefix, m, n
  <1> QED BY <1>1, <1>2, <1>3, <1>4 DEF m, n

LEMMA PrefixTrans ==
  ASSUME NEW U, NEW p \in Seq(U), NEW q \in Seq(U), NEW r \in Seq(U), IsPrefix(p, q), IsPrefix(q, r)
  PROVE  IsPrefix(p, r) /\ (p # q => p # r)
  <1>1. /\ Len(p) <= Len(q) /\ \A i \in 1..Len(p) : p[i] = q[i]
        /\ Len(q) <= Len(r) /\ \A i \in 1..Len(q) : q[i] = r[i]
    BY PrefixIs
  <1>2. Len(p) \in Nat /\ Len(q) \in Nat /\ Len(r) \in Nat
    OBVIOUS
  <1>3. IsPrefix(p, r)
    <2>1. Len(p) <= Len(r) /\ \A i \in 1..Len(p) : p[i] = r[i]
      BY <1>1, <1>2
    <2> QED BY <2>1, PrefixIs
  <1>4. ASSUME p = r PROVE p = q
    <2>1. Len(p) = Len(q) /\ \A i \in 1..Len(p) : p[i] = q[i]
      BY <1>1, <1>2, <1>4
    <2>2. p = [i \in 1..Len(p) |-> p[i]]
      OBVIOUS
    <2>3. q = [i \in 1..Len(q) |-> q[i]]
      OBVIOUS
    <2> QED BY <2>1, <2>2, <2>3
  <1> QED BY <1>3, <1>4

(* The directories above a path, but for the root. *)
LEMMA ParentIs ==
  ASSUME NEW U, NEW p \in Seq(U)
  PROVE  /\ Parents(p) \subseteq Seq(U)
         /\ \A q \in Seq(U) : q \in Parents(p) <=> q # <<>> /\ IsStrictPrefix(q, p)
  <1>1. Len(p) \in Nat
    OBVIOUS
  <1>2. ASSUME NEW n \in 1..(Len(p) - 1)
        PROVE  /\ SubSeq(p, 1, n) \in Seq(U) /\ Len(SubSeq(p, 1, n)) = n
               /\ \A i \in 1..n : SubSeq(p, 1, n)[i] = p[i]
    BY <1>1
  <1>3. Parents(p) = {SubSeq(p, 1, n) : n \in 1..(Len(p) - 1)}
    BY DEF Parents
  <1>4. ASSUME NEW q \in Seq(U), q \in Parents(p) PROVE q # <<>> /\ IsStrictPrefix(q, p)
    <2>1. PICK n \in 1..(Len(p) - 1) : q = SubSeq(p, 1, n)
      BY <1>3, <1>4
    <2>2. Len(q) = n /\ \A i \in 1..n : q[i] = p[i]
      BY <1>2, <2>1
    <2>3. IsPrefix(q, p)
      <3>1. Len(q) <= Len(p) /\ \A i \in 1..Len(q) : q[i] = p[i]
        BY <1>1, <2>2
      <3> QED BY <3>1, PrefixIs
    <2>4. n \in Nat /\ n > 0 /\ n < Len(p)
      BY <1>1
    <2>5. q # p /\ q # <<>>
      BY <2>2, <2>4
    <2> QED BY <2>3, <2>5 DEF IsStrictPrefix
  <1>5. ASSUME NEW q \in Seq(U), q # <<>>, IsStrictPrefix(q, p) PROVE q \in Parents(p)
    <2>1. IsPrefix(q, p) /\ q # p
      BY <1>5 DEF IsStrictPrefix
    <2>2. Len(q) <= Len(p) /\ \A i \in 1..Len(q) : q[i] = p[i]
      BY <2>1, PrefixIs
    <2>3. Len(q) \in Nat /\ Len(q) > 0
      BY <1>5
    <2>4. Len(q) # Len(p)
      <3> SUFFICES ASSUME Len(q) = Len(p) PROVE q = p
        BY <2>1
      <3>1. p = [i \in 1..Len(p) |-> p[i]]
        OBVIOUS
      <3>2. q = [i \in 1..Len(q) |-> q[i]]
        OBVIOUS
      <3> QED BY <2>2, <3>1, <3>2
    <2> DEFINE n == Len(q)
    <2>5. n \in 1..(Len(p) - 1)
      BY <1>1, <2>2, <2>3, <2>4
    <2>6. q = SubSeq(p, 1, n)
      <3>1. SubSeq(q, 1, n) = q
        OBVIOUS
      <3> QED BY <2>1, <3>1 DEF IsPrefix
    <2> HIDE DEF n
    <2> QED BY <1>3, <2>5, <2>6
  <1>6. Parents(p) \subseteq Seq(U)
    BY <1>2, <1>3
  <1> QED BY <1>4, <1>5, <1>6

LEMMA ParentTrans ==
  ASSUME NEW U, NEW p \in Seq(U), NEW q \in Parents(p)
  PROVE  Parents(q) \subseteq Parents(p) /\ q # p
  <1>1. q \in Seq(U) /\ Parents(q) \subseteq Seq(U) /\ IsPrefix(q, p) /\ q # p
    BY ParentIs DEF IsStrictPrefix
  <1>2. ASSUME NEW r \in Parents(q) PROVE r \in Parents(p)
    <2>1. r \in Seq(U) /\ r # <<>> /\ IsPrefix(r, q) /\ r # q
      BY <1>1, <1>2, ParentIs DEF IsStrictPrefix
    <2>2. IsPrefix(r, p) /\ r # p
      BY <1>1, <2>1, PrefixTrans
    <2> QED BY <2>1, <2>2, ParentIs DEF IsStrictPrefix
  <1> QED BY <1>1, <1>2

(* A file or a link. *)
IsLeaf(node) == \E k \in {"file", "link"} : \E d : node = [kind |-> k, data |-> d, owner |-> 0]

(* A tree as the code leaves it: the directories above a path are there, and
   nobody has changed an owner. *)
Sound(tree, U) ==
  /\ tree = [p \in DOMAIN tree |-> tree[p]]
  /\ DOMAIN tree \subseteq Seq(U)
  /\ \A p \in DOMAIN tree :
       /\ tree[p] = DirNode \/ IsLeaf(tree[p])
       /\ \A q \in Parents(p) : q \in DOMAIN tree /\ tree[q] = DirNode

TarEntry(e, U) ==
  /\ e.dir \in Seq(U) /\ FullPath(e) \in Seq(U)
  /\ e.mark \in {"no", "wh", "opq"} /\ e.kind \in {"dir", "file", "link"}

IsTar(layer, U) ==
  /\ layer \in Seq(Range(layer))
  /\ \A i \in 1..Len(layer) : TarEntry(layer[i], U)

LEMMA DirKind == ASSUME NEW tree, NEW U, Sound(tree, U), NEW p \in DOMAIN tree
                 PROVE  tree[p].kind = "dir" <=> tree[p] = DirNode
  <1>1. tree[p] = DirNode \/ IsLeaf(tree[p])
    BY DEF Sound
  <1>2. DirNode.kind = "dir"
    BY DEF DirNode
  <1>3. \A k \in {"file", "link"} : \A d : [kind |-> k, data |-> d, owner |-> 0].kind # "dir"
    OBVIOUS
  <1> QED BY <1>1, <1>2, <1>3 DEF IsLeaf

(* Removing paths with all that is below them. *)
LEMMA HideSound ==
  ASSUME NEW U, NEW tree, Sound(tree, U), NEW H,
         \A p \in DOMAIN tree : \A q \in Parents(p) : q \in H => p \in H
  PROVE  Sound(Hide(tree, H), U)
  <1> DEFINE D == DOMAIN tree \ H
             y == Hide(tree, H)
  <1>1. y = [q \in D |-> tree[q]]
    BY DEF Hide
  <1> HIDE DEF y
  <1>2. DOMAIN y = D /\ (\A q \in D : y[q] = tree[q]) /\ y = [q \in DOMAIN y |-> y[q]]
    BY <1>1
  <1>3. \A p \in D : \A q \in Parents(p) : q \in D
    BY DEF Sound
  <1>4. Sound(y, U)
    BY <1>2, <1>3 DEF Sound
  <1> QED BY <1>4 DEF y

(* The last entry of a layer, and what it adds to the change set. *)
LEMMA LayerLast ==
  ASSUME NEW U, NEW s, IsTar(s, U), NEW e, TarEntry(e, U)
  PROVE  LET t == Append(s, e)
             n == Len(s)
         IN /\ n \in Nat /\ Len(t) = n + 1 /\ DOMAIN s = 1..n /\ DOMAIN t = 1..(n + 1)
            /\ t[n + 1] = e /\ \A i \in 1..n : t[i] = s[i]
            /\ IsTar(t, U)
  <1> DEFINE n == Len(s)
             V == Range(s) \cup {e}
             t == Append(s, e)
  <1>1. s \in Seq(V) /\ e \in V
    <2>1. s \in Seq(Range(s)) /\ Range(s) \subseteq V
      BY DEF IsTar
    <2> HIDE DEF V
    <2>2. s \in Seq(V)
      BY <2>1
    <2> QED BY <2>2 DEF V
  <1> HIDE DEF V
  <1>2. /\ n \in Nat /\ Len(t) = n + 1 /\ DOMAIN s = 1..n /\ DOMAIN t = 1..(n + 1)
        /\ t[n + 1] = e /\ (\A i \in 1..n : t[i] = s[i]) /\ t \in Seq(V)
    BY <1>1
  <1>3. t \in Seq(Range(t))
    <2> HIDE DEF t
    <2> QED BY <1>2 DEF Range
  <1>4. \A i \in 1..(n + 1) : TarEntry(t[i], U)
    <2>1. \A i \in 1..(n + 1) : i \in 1..n \/ i = n + 1
      BY <1>2
    <2> HIDE DEF t
    <2> QED BY <1>2, <2>1 DEF IsTar
  <1>5. IsTar(t, U)
    <2> HIDE DEF t
    <2> QED BY <1>2, <1>3, <1>4 DEF IsTar
  <1> QED BY <1>2, <1>5

LEMMA LastHides ==
  ASSUME NEW U, NEW s, IsTar(s, U), NEW e, TarEntry(e, U)
  PROVE  \A q : Hidden(Append(s, e), q) <=> Hidden(s, q) \/ Hides(e, q)
  <1> DEFINE t == Append(s, e)
             n == Len(s)
  <1>1. /\ n \in Nat /\ DOMAIN s = 1..n /\ DOMAIN t = 1..(n + 1)
        /\ t[n + 1] = e /\ \A i \in 1..n : t[i] = s[i]
    BY LayerLast
  <1>2. \A i \in 1..(n + 1) : i \in 1..n \/ i = n + 1
    BY <1>1
  <1>3. n + 1 \in 1..(n + 1) /\ 1..n \subseteq 1..(n + 1)
    BY <1>1
  <1> HIDE DEF t, n
  <1>4. \A q : Hidden(t, q) <=> \E i \in 1..(n + 1) : Hides(t[i], q)
    BY <1>1 DEF Hidden
  <1>5. \A q : Hidden(s, q) <=> \E i \in 1..n : Hides(s[i], q)
    BY <1>1 DEF Hidden
  <1>6. \A q : Hidden(t, q) <=> Hidden(s, q) \/ Hides(e, q)
    BY <1>1, <1>2, <1>3, <1>4, <1>5
  <1> QED BY <1>6 DEF t

(* What Overlay is, path by path. *)
LEMMA OverlayIs ==
  ASSUME NEW tree, NEW s
  PROVE  LET o == Overlay(tree, s)
             below == {q \in DOMAIN tree : ~ Hidden(s, q)}
             L == LayerPaths(s)
         IN /\ o = [p \in DOMAIN o |-> o[p]] /\ DOMAIN o = below \cup L
            /\ \A p \in L : o[p] = LayerNode(s, p)
            /\ \A p \in below \ L : o[p] = tree[p]
  <1> DEFINE below == {q \in DOMAIN tree : ~ Hidden(s, q)}
             L == LayerPaths(s)
             o == Overlay(tree, s)
  <1>1. o = [p \in below \cup L |-> IF p \in L THEN LayerNode(s, p) ELSE tree[p]]
    BY DEF Overlay
  <1> HIDE DEF below, L, o
  <1>2. /\ o = [p \in DOMAIN o |-> o[p]] /\ DOMAIN o = below \cup L
        /\ \A p \in L : o[p] = LayerNode(s, p)
        /\ \A p \in below \ L : o[p] = tree[p]
    BY <1>1
  <1> QED BY <1>2 DEF below, L, o

(* A marker comes before all files, so there is only the lower tree yet. *)
LEMMA MarkStep ==
  ASSUME NEW U, NEW tree, Sound(tree, U), NEW s, IsTar(s, U), NEW e, TarEntry(e, U), e.mark # "no",
         MarksFirst(Append(s, e)), Sound(Overlay(tree, s), U)
  PROVE  LET x == apply_entry(Overlay(tree, s), e)
         IN x = Overlay(tree, Append(s, e)) /\ Sound(x, U)
  <1> DEFINE t == Append(s, e)
             n == Len(s)
             o == Overlay(tree, s)
             w == Overlay(tree, t)
             H == {q \in DOMAIN o : Hides(e, q)}
  <1>1. /\ n \in Nat /\ DOMAIN s = 1..n /\ DOMAIN t = 1..(n + 1)
        /\ t[n + 1] = e /\ \A i \in 1..n : t[i] = s[i]
    BY LayerLast
  <1>2. Contents(s) = {} /\ Contents(t) = {}
    <2>1. \A i \in 1..(n + 1) : ~(n + 1 < i) /\ n + 1 \in 1..(n + 1)
      BY <1>1
    <2> HIDE DEF t, n
    <2>2. \A i \in 1..(n + 1) : t[i].mark # "no"
      BY <1>1, <2>1 DEF MarksFirst, t
    <2>3. \A i \in 1..n : i \in 1..(n + 1)
      BY <1>1
    <2> QED BY <1>1, <2>2, <2>3 DEF Contents
  <1>3. LayerPaths(s) = {} /\ LayerPaths(t) = {}
    BY <1>2 DEF LayerPaths
  <1>4. /\ o = [p \in DOMAIN o |-> o[p]] /\ DOMAIN o = {q \in DOMAIN tree : ~ Hidden(s, q)}
        /\ \A p \in DOMAIN o : o[p] = tree[p]
    <2> DEFINE b == {q \in DOMAIN tree : ~ Hidden(s, q)}
    <2>1. /\ o = [p \in DOMAIN o |-> o[p]] /\ DOMAIN o = b \cup LayerPaths(s)
          /\ \A p \in b \ LayerPaths(s) : o[p] = tree[p]
      BY OverlayIs
    <2> HIDE DEF b, o
    <2>2. DOMAIN o = b /\ \A p \in b : o[p] = tree[p]
      BY <1>3, <2>1
    <2> QED BY <2>1, <2>2 DEF b
  <1>5. /\ w = [p \in DOMAIN w |-> w[p]] /\ DOMAIN w = {q \in DOMAIN tree : ~ Hidden(t, q)}
        /\ \A p \in DOMAIN w : w[p] = tree[p]
    <2> DEFINE b == {q \in DOMAIN tree : ~ Hidden(t, q)}
    <2>1. /\ w = [p \in DOMAIN w |-> w[p]] /\ DOMAIN w = b \cup LayerPaths(t)
          /\ \A p \in b \ LayerPaths(t) : w[p] = tree[p]
      BY OverlayIs
    <2> HIDE DEF b, w
    <2>2. DOMAIN w = b /\ \A p \in b : w[p] = tree[p]
      BY <1>3, <2>1
    <2> QED BY <2>1, <2>2 DEF b
  <1>6. \A q : Hidden(t, q) <=> Hidden(s, q) \/ Hides(e, q)
    BY LastHides
  <1> HIDE DEF t, n, o, w
  <1>7. DOMAIN w = DOMAIN o \ H
    BY <1>4, <1>5, <1>6
  <1>8. w = Hide(o, H)
    <2>1. \A q \in DOMAIN w : w[q] = o[q]
      BY <1>4, <1>5, <1>7
    <2>2. w = [q \in DOMAIN o \ H |-> o[q]]
      BY <1>5, <1>7, <2>1
    <2> QED BY <2>2 DEF Hide
  <1>9. DOMAIN o \subseteq Seq(U) /\ e.dir \in Seq(U) /\ FullPath(e) \in Seq(U) /\ e.mark \in {"no", "wh", "opq"}
    BY DEF Sound, o, TarEntry
  <1>10. \A p \in DOMAIN o : \A q \in Parents(p) : q \in DOMAIN o /\ o[q] = DirNode
    BY DEF Sound, o
  <1>11. ASSUME NEW p \in DOMAIN o, NEW q \in Parents(p), q \in H PROVE p \in H
    <2>1. p \in Seq(U) /\ q \in Seq(U) /\ IsPrefix(q, p) /\ q # p
      BY <1>9, ParentIs DEF IsStrictPrefix
    <2>2. Hides(e, q)
      BY <1>11
    <2>3. CASE e.mark = "wh"
      <3>1. IsPrefix(FullPath(e), q) /\ safe_join(FullPath(e))
        BY <2>2, <2>3 DEF Hides
      <3>2. IsPrefix(FullPath(e), p)
        BY <1>9, <2>1, <3>1, PrefixTrans
      <3> QED BY <2>3, <3>1, <3>2 DEF Hides
    <2>4. CASE e.mark = "opq"
      <3>1. IsPrefix(e.dir, q) /\ e.dir # q /\ safe_join(e.dir)
        BY <2>2, <2>4 DEF Hides, IsStrictPrefix
      <3>2. IsPrefix(e.dir, p) /\ e.dir # p
        BY <1>9, <2>1, <3>1, PrefixTrans
      <3> QED BY <2>4, <3>1, <3>2 DEF Hides, IsStrictPrefix
    <2> QED BY <1>9, <2>3, <2>4
  <1>12. Sound(w, U)
    <2>1. Sound(o, U)
      BY DEF o
    <2> HIDE DEF H
    <2> QED BY <1>8, <1>11, <2>1, HideSound
  <1>e. Hide(o, {}) = o
    <2>1. DOMAIN o \ {} = DOMAIN o
      OBVIOUS
    <2> QED BY <1>4, <2>1 DEF Hide
  <1>13. CASE e.mark = "wh"
    <2>1. apply_entry(o, e) = IF safe_join(FullPath(e)) THEN remove_path(o, FullPath(e)) ELSE o
      BY <1>13 DEF apply_entry, classify, FullPath
    <2>2. CASE safe_join(FullPath(e))
      <3>1. Subtree(o, FullPath(e)) = H
        BY <1>13, <2>2 DEF Subtree, Hides
      <3> QED BY <1>8, <1>12, <2>1, <2>2, <3>1 DEF remove_path, o, w, t
    <2>3. CASE ~ safe_join(FullPath(e))
      <3>1. H = {}
        BY <1>13, <2>3 DEF Hides
      <3> QED BY <1>8, <1>12, <1>e, <2>1, <2>3, <3>1 DEF o, w, t
    <2> QED BY <2>2, <2>3
  <1>14. CASE e.mark = "opq"
    <2>1. apply_entry(o, e) = IF safe_join(e.dir) /\ IsDir(o, e.dir)
                              THEN Hide(o, Subtree(o, e.dir) \ {e.dir}) ELSE o
      BY <1>14 DEF apply_entry, classify
    <2>2. CASE safe_join(e.dir) /\ IsDir(o, e.dir)
      <3>1. Subtree(o, e.dir) \ {e.dir} = H
        BY <1>14, <2>2 DEF Subtree, Hides, IsStrictPrefix
      <3> QED BY <1>8, <1>12, <2>1, <2>2, <3>1 DEF o, w, t
    <2>3. CASE ~ (safe_join(e.dir) /\ IsDir(o, e.dir))
      <3>1. ASSUME NEW q \in DOMAIN o, Hides(e, q) PROVE FALSE
        <4>1. safe_join(e.dir) /\ IsStrictPrefix(e.dir, q) /\ q \in Seq(U)
          BY <1>9, <1>14, <3>1 DEF Hides
        <4>2. e.dir # <<>>
          BY <2>3, <4>1 DEF IsDir
        <4>3. e.dir \in Parents(q)
          BY <1>9, <4>1, <4>2, ParentIs
        <4>4. e.dir \in DOMAIN o /\ o[e.dir].kind = "dir"
          BY <1>10, <4>3 DEF DirNode
        <4> QED BY <2>3, <4>1, <4>4 DEF IsDir
      <3>2. H = {}
        BY <3>1
      <3> QED BY <1>8, <1>12, <1>e, <2>1, <2>3, <3>2 DEF o, w, t
    <2> QED BY <2>2, <2>3
  <1> QED BY <1>9, <1>13, <1>14 DEF o

(* What the last file of a layer adds to its paths and nodes. *)
LEMMA LastContents ==
  ASSUME NEW U, NEW s, IsTar(s, U), NEW e, TarEntry(e, U), e.mark = "no"
  PROVE  LET t == Append(s, e)
             p == FullPath(e)
         IN /\ ~ safe_join(p) => Contents(t) = Contents(s)
            /\ safe_join(p) => Contents(t) = Contents(s) \cup {Len(s) + 1}
            /\ Contents(s) \subseteq 1..Len(s)
  <1> DEFINE t == Append(s, e)
             n == Len(s)
             p == FullPath(e)
  <1>1. /\ n \in Nat /\ DOMAIN s = 1..n /\ DOMAIN t = 1..(n + 1)
        /\ t[n + 1] = e /\ \A i \in 1..n : t[i] = s[i]
    BY LayerLast
  <1>2. \A i \in 1..(n + 1) : i \in 1..n \/ i = n + 1
    BY <1>1
  <1>3. n + 1 \in 1..(n + 1) /\ 1..n \subseteq 1..(n + 1) /\ n + 1 \notin 1..n
    BY <1>1
  <1> HIDE DEF t, n, p
  <1>4. Contents(t) = {i \in 1..(n + 1) : t[i].mark = "no" /\ safe_join(FullPath(t[i]))}
    BY <1>1 DEF Contents
  <1>5. Contents(s) = {i \in 1..n : s[i].mark = "no" /\ safe_join(FullPath(s[i]))}
    BY <1>1 DEF Contents
  <1>6. \A i \in 1..n : i \in Contents(t) <=> i \in Contents(s)
    BY <1>1, <1>3, <1>4, <1>5
  <1>7. n + 1 \in Contents(t) <=> safe_join(p)
    BY <1>1, <1>3, <1>4 DEF p
  <1>8. Contents(s) \subseteq 1..n /\ Contents(t) \subseteq 1..(n + 1)
    BY <1>4, <1>5
  <1>9. ~ safe_join(p) => Contents(t) = Contents(s)
    BY <1>2, <1>6, <1>7, <1>8
  <1>10. safe_join(p) => Contents(t) = Contents(s) \cup {n + 1}
    BY <1>2, <1>6, <1>7, <1>8
  <1> QED BY <1>8, <1>9, <1>10 DEF t, n, p

Mine(layer, p) == {i \in Contents(layer) : FullPath(layer[i]) = p}

LEMMA NodeIs ==
  ASSUME NEW layer, NEW p
  PROVE  /\ Mine(layer, p) = {} => LayerNode(layer, p) = DirNode
         /\ Mine(layer, p) # {} =>
              LayerNode(layer, p) = EntryNode(layer[CHOOSE i \in Mine(layer, p) : \A j \in Mine(layer, p) : j <= i])
  <1> DEFINE mine == Mine(layer, p)
             last == CHOOSE i \in mine : \A j \in mine : j <= i
  <1>1. LayerNode(layer, p) = IF mine = {} THEN DirNode ELSE EntryNode(layer[last])
    BY Zenon DEF LayerNode, Mine
  <1> HIDE DEF mine, last
  <1>2. /\ mine = {} => LayerNode(layer, p) = DirNode
        /\ mine # {} => LayerNode(layer, p) = EntryNode(layer[last])
    BY <1>1
  <1> QED BY <1>2, Zenon DEF mine, last

LEMMA LastNodes ==
  ASSUME NEW U, NEW s, IsTar(s, U), NEW e, TarEntry(e, U), e.mark = "no", safe_join(FullPath(e))
  PROVE  LET t == Append(s, e)
             p == FullPath(e)
         IN /\ LayerPaths(t) = LayerPaths(s) \cup {p} \cup Parents(p)
            /\ LayerNode(t, p) = EntryNode(e)
            /\ \A q : q # p => LayerNode(t, q) = LayerNode(s, q)
            /\ \A q : q \notin LayerPaths(s) => LayerNode(s, q) = DirNode
  <1> DEFINE t == Append(s, e)
             n == Len(s)
             p == FullPath(e)
  <1>1. /\ n \in Nat /\ DOMAIN s = 1..n /\ DOMAIN t = 1..(n + 1)
        /\ t[n + 1] = e /\ \A i \in 1..n : t[i] = s[i]
    BY LayerLast
  <1>2. Contents(t) = Contents(s) \cup {n + 1} /\ Contents(s) \subseteq 1..n
    BY LastContents
  <1>3. n + 1 \notin 1..n
    BY <1>1
  <1> HIDE DEF t, n
  <1>4. LayerPaths(t) = LayerPaths(s) \cup {p} \cup Parents(p)
    <2> DEFINE F(l, i) == {FullPath(l[i])} \cup Parents(FullPath(l[i]))
    <2>1. \A i \in Contents(s) : F(t, i) = F(s, i)
      BY <1>1, <1>2
    <2>2. F(t, n + 1) = {p} \cup Parents(p)
      BY <1>1
    <2>3. /\ LayerPaths(t) = UNION {F(t, i) : i \in Contents(t)}
          /\ LayerPaths(s) = UNION {F(s, i) : i \in Contents(s)}
      BY DEF LayerPaths
    <2> HIDE DEF F
    <2>4. ASSUME NEW q PROVE q \in LayerPaths(t) <=> q \in LayerPaths(s) \/ q \in F(t, n + 1)
      <3>1. q \in LayerPaths(t) <=> \E i \in Contents(t) : q \in F(t, i)
        BY <2>3
      <3>2. q \in LayerPaths(s) <=> \E i \in Contents(s) : q \in F(s, i)
        BY <2>3
      <3> QED BY <1>2, <2>1, <3>1, <3>2
    <2> HIDE DEF p
    <2> QED BY <2>2, <2>4
  <1>5. LayerNode(t, p) = EntryNode(e)
    <2> DEFINE M == Mine(t, p)
               last == CHOOSE i \in M : \A j \in M : j <= i
    <2>1. n + 1 \in M /\ M \subseteq 1..(n + 1)
      <3>1. 1..n \cup {n + 1} \subseteq 1..(n + 1)
        BY <1>1
      <3> QED BY <1>1, <1>2, <3>1 DEF Mine
    <2>2. \A j \in M : j <= n + 1
      BY <1>1, <2>1
    <2> HIDE DEF M
    <2>3. last \in M /\ \A j \in M : j <= last
      <3>1. \E i \in M : \A j \in M : j <= i
        BY <2>1, <2>2
      <3> QED BY <3>1, Zenon
    <2> HIDE DEF last
    <2>4. last = n + 1
      BY <1>1, <2>1, <2>2, <2>3
    <2>5. LayerNode(t, p) = EntryNode(t[last])
      BY <2>1, NodeIs, Zenon DEF M, last
    <2> QED BY <1>1, <2>4, <2>5
  <1>6. ASSUME NEW q, q # p PROVE LayerNode(t, q) = LayerNode(s, q)
    <2>1. Mine(t, q) = Mine(s, q)
      <3>1. \A i \in Contents(s) : FullPath(t[i]) = FullPath(s[i])
        BY <1>1, <1>2
      <3>2. FullPath(t[n + 1]) = p
        BY <1>1
      <3> HIDE DEF p
      <3>3. Mine(t, q) \subseteq Contents(s)
        BY <1>2, <1>6, <3>2 DEF Mine
      <3> QED BY <1>2, <3>1, <3>3 DEF Mine
    <2> DEFINE M == Mine(s, q)
               last == CHOOSE i \in M : \A j \in M : j <= i
    <2>2. CASE M = {}
      BY <2>1, <2>2, NodeIs
    <2>3. CASE M # {}
      <3>1. LayerNode(t, q) = EntryNode(t[last]) /\ LayerNode(s, q) = EntryNode(s[last])
        BY <2>1, <2>3, NodeIs, Zenon
      <3>2. last \in M
        <4>1. M \in SUBSET (1..n)
          BY <1>2 DEF Mine
        <4> HIDE DEF M
        <4> QED BY <1>1, <2>3, <4>1, LastHit
      <3>3. last \in 1..n
        BY <1>2, <3>2 DEF Mine
      <3> HIDE DEF last
      <3> QED BY <1>1, <3>1, <3>3
    <2> QED BY <2>2, <2>3
  <1>7. ASSUME NEW q, q \notin LayerPaths(s) PROVE LayerNode(s, q) = DirNode
    <2>1. Mine(s, q) = {}
      BY <1>7 DEF Mine, LayerPaths
    <2> QED BY <2>1, NodeIs
  <1> QED BY <1>4, <1>5, <1>6, <1>7 DEF t

(* A file or directory goes over what is there. *)
LEMMA ContentStep ==
  ASSUME NEW U, NEW tree, NEW s, IsTar(s, U), NEW e, TarEntry(e, U), e.mark = "no",
         Sound(Overlay(tree, s), U), apply_entry(Overlay(tree, s), e) # Failed
  PROVE  LET x == apply_entry(Overlay(tree, s), e)
         IN x = Overlay(tree, Append(s, e)) /\ Sound(x, U)
  <1> DEFINE t == Append(s, e)
             p == FullPath(e)
             o == Overlay(tree, s)
             w == Overlay(tree, t)
             x == apply_entry(o, e)
             b == {q \in DOMAIN tree : ~ Hidden(s, q)}
  <1>1. x = unpack_in(o, p, e)
    BY DEF apply_entry, classify, FullPath
  <1>2. \A q : Hidden(t, q) <=> Hidden(s, q)
    <2>1. \A q : ~ Hides(e, q)
      BY DEF Hides
    <2> QED BY <2>1, LastHides
  <1>3. /\ o = [q \in DOMAIN o |-> o[q]] /\ DOMAIN o = b \cup LayerPaths(s)
        /\ \A q \in LayerPaths(s) : o[q] = LayerNode(s, q)
        /\ \A q \in b \ LayerPaths(s) : o[q] = tree[q]
    BY OverlayIs
  <1>4. /\ w = [q \in DOMAIN w |-> w[q]] /\ DOMAIN w = b \cup LayerPaths(t)
        /\ \A q \in LayerPaths(t) : w[q] = LayerNode(t, q)
        /\ \A q \in b \ LayerPaths(t) : w[q] = tree[q]
    <2> DEFINE c == {q \in DOMAIN tree : ~ Hidden(t, q)}
    <2>1. c = b
      BY <1>2
    <2>2. /\ w = [q \in DOMAIN w |-> w[q]] /\ DOMAIN w = c \cup LayerPaths(t)
          /\ \A q \in LayerPaths(t) : w[q] = LayerNode(t, q)
          /\ \A q \in c \ LayerPaths(t) : w[q] = tree[q]
      BY OverlayIs
    <2> HIDE DEF b, c, w, t
    <2> QED BY <2>1, <2>2
  <1>5. CASE ~ safe_join(p)
    <2>1. Contents(t) = Contents(s) /\ Contents(s) \subseteq 1..Len(s)
      BY <1>5, LastContents
    <2>2. /\ DOMAIN s = 1..Len(s) /\ DOMAIN t = 1..(Len(s) + 1)
          /\ \A i \in 1..Len(s) : t[i] = s[i]
      BY LayerLast
    <2> HIDE DEF t, o, w, b
    <2>3. \A i \in Contents(s) : t[i] = s[i]
      BY <2>1, <2>2
    <2>4. LayerPaths(t) = LayerPaths(s)
      BY <2>1, <2>3 DEF LayerPaths
    <2>5. \A q : LayerNode(t, q) = LayerNode(s, q)
      <3> TAKE q
      <3>1. Mine(t, q) = Mine(s, q)
        BY <2>1, <2>3 DEF Mine
      <3> DEFINE M == Mine(s, q)
                 last == CHOOSE i \in M : \A j \in M : j <= i
      <3>2. CASE M = {}
        BY <3>1, <3>2, NodeIs
      <3>3. CASE M # {}
        <4>1. LayerNode(t, q) = EntryNode(t[last]) /\ LayerNode(s, q) = EntryNode(s[last])
          BY <3>1, <3>3, NodeIs, Zenon
        <4>2. M \in SUBSET (1..Len(s)) /\ Len(s) \in Nat /\ M \subseteq Contents(s)
          BY <2>1 DEF Mine, IsTar
        <4>3. last \in M
          <5> HIDE DEF M
          <5> QED BY <3>3, <4>2, LastHit
        <4> HIDE DEF last
        <4> QED BY <2>3, <4>1, <4>2, <4>3
      <3> QED BY <3>2, <3>3
    <2>6. w = o
      <3>1. DOMAIN w = DOMAIN o
        BY <1>3, <1>4, <2>4
      <3>2. \A q \in DOMAIN w : w[q] = o[q]
        BY <1>3, <1>4, <2>4, <2>5
      <3> QED BY <1>3, <1>4, <3>1, <3>2
    <2>7. x = o
      BY <1>1, <1>5 DEF unpack_in
    <2> QED BY <2>6, <2>7 DEF w, t, o
  <1>6. CASE safe_join(p)
    <2> DEFINE up == [q \in Parents(p) |-> DirNode]
               y == Extend(Extend(up, o), [q \in {p} |-> EntryNode(e)])
    <2>1. /\ LayerPaths(t) = LayerPaths(s) \cup {p} \cup Parents(p)
          /\ LayerNode(t, p) = EntryNode(e)
          /\ \A q : q # p => LayerNode(t, q) = LayerNode(s, q)
          /\ \A q : q \notin LayerPaths(s) => LayerNode(s, q) = DirNode
      BY <1>6, LastNodes
    <2>2. p \in Seq(U) /\ e.kind \in {"dir", "file", "link"}
      BY DEF TarEntry
    <2> HIDE DEF t, o, w, b, x, p
    <2>3. Sound(o, U) /\ x # Failed
      BY DEF o, x
    <2>4. /\ x = y
          /\ \A q \in Parents(p) : q \in DOMAIN o => IsDir(o, q)
          /\ p \in DOMAIN o => (IsDir(o, p) <=> e.kind = "dir")
      <3> DEFINE bad == \/ \E q \in Parents(p) : q \in DOMAIN o /\ ~ IsDir(o, q)
                        \/ p \in DOMAIN o /\ (IsDir(o, p) # (e.kind = "dir"))
      <3>1. unpack_in(o, p, e) = IF bad THEN Failed ELSE y
        BY <1>6 DEF unpack_in
      <3>2. ~ bad /\ x = y
        BY <1>1, <2>3, <3>1
      <3> QED BY <3>2
    <2>5. Parents(p) \subseteq Seq(U) /\ p \notin Parents(p) /\ <<>> \notin Parents(p)
      BY <2>2, ParentIs DEF IsStrictPrefix
    <2>6. \A q \in Parents(p) : q \in DOMAIN o => o[q] = DirNode
      <3> SUFFICES ASSUME NEW q \in Parents(p), q \in DOMAIN o PROVE o[q] = DirNode
        OBVIOUS
      <3>1. o[q].kind = "dir"
        BY <2>4, <2>5 DEF IsDir
      <3> QED BY <2>3, <3>1, DirKind
    <2>7. /\ DOMAIN y = Parents(p) \cup DOMAIN o \cup {p} /\ y = [q \in DOMAIN y |-> y[q]]
          /\ y[p] = EntryNode(e)
          /\ \A q \in DOMAIN o : q # p => y[q] = o[q]
          /\ \A q \in Parents(p) : y[q] = DirNode
      <3>1. DOMAIN up = Parents(p) /\ \A q \in Parents(p) : up[q] = DirNode
        OBVIOUS
      <3> HIDE DEF up
      <3> DEFINE m == Extend(up, o)
                 v == [q \in {p} |-> EntryNode(e)]
      <3>2. /\ DOMAIN m = Parents(p) \cup DOMAIN o
            /\ \A q \in DOMAIN o : m[q] = o[q]
            /\ \A q \in Parents(p) : m[q] = DirNode
        BY <2>6, <3>1 DEF Extend
      <3>3. DOMAIN v = {p} /\ v[p] = EntryNode(e)
        OBVIOUS
      <3>4. y = Extend(m, v)
        OBVIOUS
      <3> HIDE DEF m, v, y
      <3>5. y = [q \in DOMAIN m \cup DOMAIN v |-> IF q \in DOMAIN v THEN v[q] ELSE m[q]]
        BY <3>4 DEF Extend
      <3> QED BY <2>5, <3>2, <3>3, <3>5
    <2> HIDE DEF y
    <2>8. DOMAIN y = DOMAIN w
      BY <1>3, <1>4, <2>1, <2>7
    <2>9. ASSUME NEW q \in DOMAIN w PROVE y[q] = w[q]
      <3>1. CASE q = p
        BY <1>4, <2>1, <2>7, <3>1
      <3>2. CASE q # p /\ q \in Parents(p)
        <4>1. w[q] = LayerNode(s, q) /\ y[q] = DirNode
          BY <1>4, <2>1, <2>7, <3>2
        <4>2. CASE q \in LayerPaths(s)
          BY <1>3, <2>6, <3>2, <4>1, <4>2
        <4>3. CASE q \notin LayerPaths(s)
          BY <2>1, <4>1, <4>3
        <4> QED BY <4>2, <4>3
      <3>3. CASE q # p /\ q \notin Parents(p) /\ q \in LayerPaths(s)
        BY <1>3, <1>4, <2>1, <2>7, <3>3
      <3>4. CASE q # p /\ q \notin Parents(p) /\ q \notin LayerPaths(s)
        <4>1. q \in b /\ q \notin LayerPaths(t)
          BY <1>4, <2>1, <3>4
        <4> QED BY <1>3, <1>4, <2>7, <3>4, <4>1
      <3> QED BY <3>1, <3>2, <3>3, <3>4
    <2>10. y = w
      BY <1>4, <2>7, <2>8, <2>9
    <2>11. Sound(y, U)
      <3>1. DOMAIN y \subseteq Seq(U)
        BY <2>2, <2>3, <2>5, <2>7 DEF Sound
      <3>2. \A q \in Parents(p) : q \in DOMAIN y /\ y[q] = DirNode
        BY <2>7
      <3>3. ASSUME NEW r \in DOMAIN y
            PROVE  \A q \in Parents(r) : q \in DOMAIN y /\ y[q] = DirNode
        <4>1. CASE r = p
          BY <3>2, <4>1
        <4>2. CASE r \in Parents(p)
          BY <2>2, <3>2, <4>2, ParentTrans
        <4>3. CASE r # p /\ r \in DOMAIN o
          <5> TAKE q \in Parents(r)
          <5>1. q \in DOMAIN o /\ o[q] = DirNode
            BY <2>3, <4>3 DEF Sound
          <5>2. CASE q # p
            BY <2>7, <5>1, <5>2
          <5>3. CASE q = p
            BY <2>4, <2>7, <5>1, <5>3 DEF DirNode, EntryNode, IsDir
          <5> QED BY <5>2, <5>3
        <4> QED BY <2>7, <4>1, <4>2, <4>3
      <3>4. ASSUME NEW r \in DOMAIN y
            PROVE  y[r] = DirNode \/ IsLeaf(y[r])
        <4>1. CASE r = p
          BY <2>2, <2>7, <4>1 DEF EntryNode, IsLeaf
        <4>2. CASE r \in Parents(p)
          BY <2>7, <4>2
        <4>3. CASE r # p /\ r \in DOMAIN o
          BY <2>3, <2>7, <4>3 DEF Sound
        <4> QED BY <2>7, <4>1, <4>2, <4>3
      <3> QED BY <2>7, <3>1, <3>3, <3>4 DEF Sound
    <2> QED BY <2>4, <2>10, <2>11 DEF x, w, t, o
  <1> QED BY <1>5, <1>6

(* The loop of apply_layer; each of its turns. *)
Turn(t, e) == IF t = Failed THEN Failed ELSE apply_entry(t, e)

LEMMA LayerTrace ==
  ASSUME NEW tree, NEW layer, Len(layer) \in Nat
  PROVE  \E f : /\ f[0] = tree /\ f[Len(layer)] = apply_layer(tree, layer)
                /\ \A i \in 1..Len(layer) : f[i] = Turn(f[i - 1], layer[i])
  <1> DEFINE n == Len(layer)
             Step(f, i) == IF i = 0 THEN tree
                           ELSE IF f[i - 1] = Failed THEN Failed ELSE apply_entry(f[i - 1], layer[i])
             Runs(f, k) == f = [i \in 0..k |-> Step(f, i)]
             S == {k \in Nat : \E f : Runs(f, k)}
             it == CHOOSE f : Runs(f, n)
  <1>1. 0 \in S
    <2> DEFINE f == [i \in 0..0 |-> tree]
    <2>1. Runs(f, 0)
      <3>1. \A i \in 0..0 : Step(f, i) = tree
        OBVIOUS
      <3> HIDE DEF Step
      <3> QED BY <3>1
    <2> HIDE DEF Runs
    <2> QED BY <2>1
  <1>2. ASSUME NEW k \in Nat, k \in S PROVE k + 1 \in S
    <2>1. PICK f : Runs(f, k)
      <3> HIDE DEF Runs
      <3> QED BY <1>2
    <2> DEFINE g == [i \in 0..(k + 1) |-> IF i = k + 1 THEN Turn(f[k], layer[k + 1]) ELSE f[i]]
    <2>2. \A i \in 0..k : i # k + 1 /\ i \in 0..(k + 1) /\ g[i] = f[i]
      BY <1>2
    <2>3. \A i \in 0..k : f[i] = Step(f, i)
      <3> HIDE DEF Step
      <3> QED BY <2>1
    <2>4. \A i \in 0..(k + 1) : i = k + 1 \/ i \in 0..k
      BY <1>2
    <2>5. k + 1 \in 0..(k + 1) /\ k \in 0..k /\ (k + 1) - 1 = k /\ k + 1 # 0
      BY <1>2
    <2>6. g[k + 1] = Turn(f[k], layer[k + 1]) /\ g = [i \in 0..(k + 1) |-> g[i]]
      BY <2>5
    <2> HIDE DEF g
    <2>7. g[k + 1] = Step(g, k + 1)
      BY <2>2, <2>5, <2>6 DEF Turn
    <2>8. ASSUME NEW i \in 0..k PROVE g[i] = Step(g, i)
      <3>1. CASE i = 0
        BY <2>2, <2>3, <3>1
      <3>2. CASE i # 0
        <4>1. i - 1 \in 0..k
          BY <1>2, <3>2
        <4> QED BY <2>2, <2>3, <3>2, <4>1
      <3> QED BY <3>1, <3>2
    <2>9. Runs(g, k + 1)
      <3> HIDE DEF Step
      <3> QED BY <2>4, <2>6, <2>7, <2>8
    <2> HIDE DEF Runs
    <2> QED BY <2>9
  <1>3. Runs(it, n)
    <2>1. n \in S
      <3> HIDE DEF S
      <3> QED BY <1>1, <1>2, NatSet
    <2> HIDE DEF Runs
    <2> QED BY <2>1, Zenon
  <1>4. apply_layer(tree, layer) = it[n]
    BY Zenon DEF apply_layer
  <1> HIDE DEF it
  <1>5. \A i \in 0..n : it[i] = Step(it, i)
    <2> HIDE DEF Step
    <2> QED BY <1>3
  <1>6. 0 \in 0..n /\ \A i \in 1..n : i \in 0..n /\ i # 0
    OBVIOUS
  <1>7. it[0] = tree /\ \A i \in 1..n : it[i] = Turn(it[i - 1], layer[i])
    BY <1>5, <1>6 DEF Turn
  <1> QED BY <1>4, <1>7

(* One layer: without an error its loop makes the overlay. *)
LEMMA LayerMerges ==
  ASSUME NEW U, NEW tree, Sound(tree, U), NEW layer, IsTar(layer, U), MarksFirst(layer),
         apply_layer(tree, layer) # Failed
  PROVE  apply_layer(tree, layer) = Overlay(tree, layer) /\ Sound(Overlay(tree, layer), U)
  <1> DEFINE n == Len(layer)
             V == Range(layer)
  <1>n. n \in Nat /\ layer \in Seq(V) /\ DOMAIN layer = 1..n
    BY DEF IsTar
  <1>1. PICK f : /\ f[0] = tree /\ f[n] = apply_layer(tree, layer)
                 /\ \A i \in 1..n : f[i] = Turn(f[i - 1], layer[i])
    BY <1>n, LayerTrace
  <1> HIDE DEF n, V
  <1> DEFINE cut(k) == SubSeq(layer, 1, k)
  <1>2. ASSUME NEW k \in 0..n
        PROVE  /\ cut(k) \in Seq(V) /\ Len(cut(k)) = k /\ DOMAIN cut(k) = 1..k
               /\ \A i \in 1..k : cut(k)[i] = layer[i]
    BY <1>n DEF n
  <1>3. ASSUME NEW k \in 0..n PROVE IsTar(cut(k), U) /\ MarksFirst(cut(k))
    <2> DEFINE s == cut(k)
    <2>1. s \in Seq(V) /\ Len(s) = k /\ DOMAIN s = 1..k /\ \A i \in 1..k : s[i] = layer[i]
      BY <1>2
    <2>2. \A i \in 1..k : i \in 1..n
      BY <1>n
    <2> HIDE DEF s
    <2>3. s \in Seq(Range(s))
      BY <2>1 DEF Range
    <2>4. IsTar(s, U)
      BY <1>n, <2>1, <2>2, <2>3 DEF IsTar, n
    <2>5. MarksFirst(s)
      BY <1>n, <2>1, <2>2 DEF MarksFirst
    <2> QED BY <2>4, <2>5 DEF s
  <1> DEFINE Q(k) == f[k] # Failed => f[k] = Overlay(tree, cut(k)) /\ Sound(f[k], U)
             S == {k \in Nat : k <= n => Q(k)}
  <1>4. 0 \in S
    <2> DEFINE s == cut(0)
    <2>1. DOMAIN s = {}
      <3>1. 0 \in 0..n /\ 1..0 = {}
        BY <1>n
      <3>2. DOMAIN s = 1..0
        BY <1>2, <3>1
      <3> QED BY <3>1, <3>2
    <2> HIDE DEF s
    <2>2. LayerPaths(s) = {} /\ \A q : ~ Hidden(s, q)
      BY <2>1 DEF LayerPaths, Contents, Hidden
    <2> DEFINE w == Overlay(tree, s)
               b == {q \in DOMAIN tree : ~ Hidden(s, q)}
    <2>3. /\ w = [q \in DOMAIN w |-> w[q]] /\ DOMAIN w = b \cup LayerPaths(s)
          /\ \A q \in b \ LayerPaths(s) : w[q] = tree[q]
      BY OverlayIs
    <2>4. b = DOMAIN tree
      BY <2>2
    <2> HIDE DEF w, b
    <2>5. DOMAIN w = DOMAIN tree /\ \A q \in DOMAIN tree : w[q] = tree[q]
      BY <2>2, <2>3, <2>4
    <2>6. w = tree
      BY <2>3, <2>5 DEF Sound
    <2> QED BY <1>1, <2>6 DEF w, s
  <1>5. ASSUME NEW k \in Nat, k \in S PROVE k + 1 \in S
    <2> SUFFICES ASSUME k + 1 <= n, f[k + 1] # Failed
                 PROVE  f[k + 1] = Overlay(tree, cut(k + 1)) /\ Sound(f[k + 1], U)
      OBVIOUS
    <2>1. k \in 0..n /\ k + 1 \in 0..n /\ k + 1 \in 1..n /\ (k + 1) - 1 = k /\ k <= n
      BY <1>n
    <2>2. f[k + 1] = Turn(f[k], layer[k + 1])
      BY <1>1, <2>1
    <2>3. f[k] # Failed /\ f[k + 1] = apply_entry(f[k], layer[k + 1])
      BY <2>2 DEF Turn
    <2>4. f[k] = Overlay(tree, cut(k)) /\ Sound(f[k], U)
      BY <1>5, <2>1, <2>3
    <2> DEFINE s == cut(k)
               e == layer[k + 1]
    <2>5. IsTar(s, U) /\ IsTar(layer, U) /\ TarEntry(e, U)
      BY <1>3, <2>1 DEF IsTar, n
    <2>6. cut(k + 1) = Append(s, e)
      <3> DEFINE r == cut(k + 1)
                 t == Append(s, e)
      <3>1. r \in Seq(V) /\ Len(r) = k + 1 /\ \A i \in 1..(k + 1) : r[i] = layer[i]
        BY <1>2, <2>1
      <3>2. s \in Seq(V) /\ Len(s) = k /\ \A i \in 1..k : s[i] = layer[i]
        BY <1>2, <2>1
      <3>3. e \in V
        BY <1>n, <2>1
      <3> HIDE DEF r, s, e
      <3>4. t \in Seq(V) /\ Len(t) = k + 1 /\ t[k + 1] = e /\ \A i \in 1..k : t[i] = s[i]
        BY <3>2, <3>3
      <3> HIDE DEF t
      <3>5. \A i \in 1..(k + 1) : i \in 1..k \/ i = k + 1
        BY <1>5
      <3>6. \A i \in 1..(k + 1) : t[i] = r[i]
        BY <3>1, <3>2, <3>4, <3>5 DEF e
      <3>7. t = [i \in 1..(k + 1) |-> t[i]]
        BY <3>4
      <3>8. r = [i \in 1..(k + 1) |-> r[i]]
        BY <3>1
      <3> QED BY <3>6, <3>7, <3>8 DEF r, t
    <2>7. MarksFirst(Append(s, e))
      BY <1>3, <2>1, <2>6
    <2> HIDE DEF s, e
    <2>8. f[k] = Overlay(tree, s) /\ f[k + 1] = apply_entry(Overlay(tree, s), e) /\ Sound(Overlay(tree, s), U)
      BY <2>3, <2>4 DEF s, e
    <2> DEFINE x == apply_entry(Overlay(tree, s), e)
    <2>9. x = Overlay(tree, Append(s, e)) /\ Sound(x, U)
      <3>1. x # Failed
        BY <2>8
      <3>2. CASE e.mark # "no"
        BY <2>5, <2>7, <2>8, <3>2, MarkStep
      <3>3. CASE e.mark = "no"
        BY <2>5, <2>8, <3>1, <3>3, ContentStep
      <3> QED BY <3>2, <3>3
    <2> HIDE DEF x
    <2>10. f[k + 1] = x
      BY <2>8 DEF x
    <2> QED BY <2>6, <2>9, <2>10
  <1>6. Q(n)
    <2>1. n \in S
      <3> HIDE DEF S
      <3> QED BY <1>n, <1>4, <1>5, NatSet
    <2> QED BY <1>n, <2>1
  <1>7. cut(n) = layer
    BY <1>n DEF n
  <1> QED BY <1>1, <1>6, <1>7

(* The loop of unpack_rootfs. *)
LayerTurn(t, layer) == IF t = Failed THEN Failed ELSE apply_layer(t, layer)

LEMMA RootfsTrace ==
  ASSUME NEW layers, Len(layers) \in Nat
  PROVE  \E f : /\ f[0] = EmptyTree /\ f[Len(layers)] = unpack_rootfs(layers)
                /\ \A i \in 1..Len(layers) : f[i] = LayerTurn(f[i - 1], layers[i])
  <1> DEFINE n == Len(layers)
             Step(f, i) == IF i = 0 THEN EmptyTree
                           ELSE IF f[i - 1] = Failed THEN Failed ELSE apply_layer(f[i - 1], layers[i])
             Runs(f, k) == f = [i \in 0..k |-> Step(f, i)]
             S == {k \in Nat : \E f : Runs(f, k)}
             it == CHOOSE f : Runs(f, n)
  <1>1. 0 \in S
    <2> DEFINE f == [i \in 0..0 |-> EmptyTree]
    <2>1. Runs(f, 0)
      <3>1. \A i \in 0..0 : Step(f, i) = EmptyTree
        OBVIOUS
      <3> HIDE DEF Step
      <3> QED BY <3>1
    <2> HIDE DEF Runs
    <2> QED BY <2>1
  <1>2. ASSUME NEW k \in Nat, k \in S PROVE k + 1 \in S
    <2>1. PICK f : Runs(f, k)
      <3> HIDE DEF Runs
      <3> QED BY <1>2
    <2> DEFINE g == [i \in 0..(k + 1) |-> IF i = k + 1 THEN LayerTurn(f[k], layers[k + 1]) ELSE f[i]]
    <2>2. \A i \in 0..k : i # k + 1 /\ i \in 0..(k + 1) /\ g[i] = f[i]
      BY <1>2
    <2>3. \A i \in 0..k : f[i] = Step(f, i)
      <3> HIDE DEF Step
      <3> QED BY <2>1
    <2>4. \A i \in 0..(k + 1) : i = k + 1 \/ i \in 0..k
      BY <1>2
    <2>5. k + 1 \in 0..(k + 1) /\ k \in 0..k /\ (k + 1) - 1 = k /\ k + 1 # 0
      BY <1>2
    <2>6. g[k + 1] = LayerTurn(f[k], layers[k + 1]) /\ g = [i \in 0..(k + 1) |-> g[i]]
      BY <2>5
    <2> HIDE DEF g
    <2>7. g[k + 1] = Step(g, k + 1)
      BY <2>2, <2>5, <2>6 DEF LayerTurn
    <2>8. ASSUME NEW i \in 0..k PROVE g[i] = Step(g, i)
      <3>1. CASE i = 0
        BY <2>2, <2>3, <3>1
      <3>2. CASE i # 0
        <4>1. i - 1 \in 0..k
          BY <1>2, <3>2
        <4> QED BY <2>2, <2>3, <3>2, <4>1
      <3> QED BY <3>1, <3>2
    <2>9. Runs(g, k + 1)
      <3> HIDE DEF Step
      <3> QED BY <2>4, <2>6, <2>7, <2>8
    <2> HIDE DEF Runs
    <2> QED BY <2>9
  <1>3. Runs(it, n)
    <2>1. n \in S
      <3> HIDE DEF S
      <3> QED BY <1>1, <1>2, NatSet
    <2> HIDE DEF Runs
    <2> QED BY <2>1, Zenon
  <1>4. unpack_rootfs(layers) = it[n]
    BY Zenon DEF unpack_rootfs
  <1> HIDE DEF it
  <1>5. \A i \in 0..n : it[i] = Step(it, i)
    <2> HIDE DEF Step
    <2> QED BY <1>3
  <1>6. 0 \in 0..n /\ \A i \in 1..n : i \in 0..n /\ i # 0
    OBVIOUS
  <1>7. it[0] = EmptyTree /\ \A i \in 1..n : it[i] = LayerTurn(it[i - 1], layers[i])
    BY <1>5, <1>6 DEF LayerTurn
  <1> QED BY <1>4, <1>7

(* Trees that are overlays of one another are the stack of the layers. *)
LEMMA StackedIs ==
  ASSUME NEW layers, Len(layers) \in Nat, NEW f, f[0] = EmptyTree,
         \A i \in 1..Len(layers) : f[i] = Overlay(f[i - 1], layers[i])
  PROVE  Stacked(layers) = f[Len(layers)]
  <1> DEFINE n == Len(layers)
             Step(h, i) == IF i = 0 THEN EmptyTree ELSE Overlay(h[i - 1], layers[i])
             Runs(h) == h = [i \in 0..n |-> Step(h, i)]
             it == CHOOSE h : Runs(h)
             g == [i \in 0..n |-> f[i]]
  <1>1. Runs(g)
    <2>1. ASSUME NEW i \in 0..n PROVE g[i] = Step(g, i)
      <3>1. CASE i = 0
        BY <3>1
      <3>2. CASE i # 0
        <4>1. i \in 1..n /\ i - 1 \in 0..n
          BY <3>2
        <4>2. g[i] = f[i] /\ g[i - 1] = f[i - 1]
          BY <4>1
        <4> QED BY <3>2, <4>1, <4>2
      <3> QED BY <3>1, <3>2
    <2>2. g = [i \in 0..n |-> g[i]]
      OBVIOUS
    <2> HIDE DEF g, Step
    <2> QED BY <2>1, <2>2
  <1>2. Runs(it)
    <2> HIDE DEF Runs
    <2> QED BY <1>1, Zenon
  <1>3. Stacked(layers) = it[n]
    BY Zenon DEF Stacked
  <1> HIDE DEF it
  <1>4. \A i \in 0..n : it[i] = Step(it, i)
    <2> HIDE DEF Step
    <2> QED BY <1>2
  <1> DEFINE S == {i \in Nat : i <= n => it[i] = f[i]}
  <1>5. 0 \in S
    <2>1. 0 \in 0..n
      OBVIOUS
    <2> QED BY <1>4, <2>1
  <1>6. ASSUME NEW i \in Nat, i \in S PROVE i + 1 \in S
    <2> SUFFICES ASSUME i + 1 <= n PROVE it[i + 1] = f[i + 1]
      OBVIOUS
    <2>1. i + 1 \in 1..n /\ i + 1 \in 0..n /\ (i + 1) - 1 = i /\ i <= n /\ i + 1 # 0
      BY <1>6
    <2>2. it[i + 1] = Overlay(it[i], layers[i + 1]) /\ f[i + 1] = Overlay(f[i], layers[i + 1])
      BY <1>4, <2>1
    <2>3. it[i] = f[i]
      BY <1>6, <2>1
    <2> QED BY <2>2, <2>3
  <1>7. n \in S
    <2> HIDE DEF S
    <2> QED BY <1>5, <1>6, NatSet
  <1> QED BY <1>3, <1>7

(* All the layers: without an error the root file system is their stack. *)
LEMMA RootfsMerges ==
  ASSUME NEW U, NEW layers, Len(layers) \in Nat,
         \A i \in 1..Len(layers) : IsTar(layers[i], U) /\ MarksFirst(layers[i]),
         unpack_rootfs(layers) # Failed
  PROVE  unpack_rootfs(layers) = Stacked(layers) /\ Sound(Stacked(layers), U)
  <1> DEFINE n == Len(layers)
  <1>1. PICK f : /\ f[0] = EmptyTree /\ f[n] = unpack_rootfs(layers)
                 /\ \A i \in 1..n : f[i] = LayerTurn(f[i - 1], layers[i])
    BY RootfsTrace
  <1> DEFINE Q(k) == f[k] # Failed =>
                       Sound(f[k], U) /\ \A i \in 1..k : f[i] = Overlay(f[i - 1], layers[i])
             S == {k \in Nat : k <= n => Q(k)}
  <1>2. 0 \in S
    <2>1. Sound(EmptyTree, U)
      BY DEF Sound, EmptyTree
    <2>2. 1..0 = {}
      OBVIOUS
    <2> QED BY <1>1, <2>1, <2>2
  <1>3. ASSUME NEW k \in Nat, k \in S PROVE k + 1 \in S
    <2> SUFFICES ASSUME k + 1 <= n, f[k + 1] # Failed
                 PROVE  Sound(f[k + 1], U) /\ \A i \in 1..(k + 1) : f[i] = Overlay(f[i - 1], layers[i])
      OBVIOUS
    <2>1. k + 1 \in 1..n /\ (k + 1) - 1 = k /\ k <= n
      BY <1>3
    <2>2. f[k] # Failed /\ f[k + 1] = apply_layer(f[k], layers[k + 1])
      BY <1>1, <2>1 DEF LayerTurn
    <2>3. Sound(f[k], U) /\ \A i \in 1..k : f[i] = Overlay(f[i - 1], layers[i])
      BY <1>3, <2>1, <2>2
    <2> DEFINE b == f[k]
               l == layers[k + 1]
    <2>4. IsTar(l, U) /\ MarksFirst(l) /\ Sound(b, U) /\ apply_layer(b, l) # Failed
      BY <2>1, <2>2, <2>3
    <2> HIDE DEF b, l
    <2>5. apply_layer(b, l) = Overlay(b, l) /\ Sound(Overlay(b, l), U)
      BY <2>4, LayerMerges
    <2>6. f[k + 1] = Overlay(f[k], layers[k + 1]) /\ Sound(f[k + 1], U)
      BY <2>2, <2>5 DEF b, l
    <2>7. \A i \in 1..(k + 1) : i \in 1..k \/ i = k + 1
      BY <1>3
    <2> QED BY <2>1, <2>3, <2>6, <2>7
  <1>4. Q(n)
    <2>1. n \in S
      <3> HIDE DEF S
      <3> QED BY <1>2, <1>3, NatSet
    <2> QED BY <2>1
  <1>5. Sound(f[n], U) /\ \A i \in 1..n : f[i] = Overlay(f[i - 1], layers[i])
    BY <1>1, <1>4
  <1>6. Stacked(layers) = f[n]
    BY <1>1, <1>5, StackedIs
  <1> QED BY <1>1, <1>5, <1>6

LEMMA RootOwned ==
  ASSUME NEW U, NEW tree, Sound(tree, U)
  PROVE  chown_tree(tree, 0) = tree
  <1>1. ASSUME NEW p \in DOMAIN tree PROVE [tree[p] EXCEPT !.owner = 0] = tree[p]
    <2>1. tree[p] = DirNode \/ IsLeaf(tree[p])
      BY DEF Sound
    <2> QED BY <2>1 DEF DirNode, IsLeaf
  <1>2. tree = [p \in DOMAIN tree |-> tree[p]]
    BY DEF Sound
  <1> QED BY <1>1, <1>2 DEF chown_tree

(* The entries of an image's layers have their names in one set. *)
LEMMA ImageTars ==
  ASSUME NEW r, IsImage(r)
  PROVE  Len(r.layers) \in Nat /\ DOMAIN r.layers = 1..Len(r.layers)
         /\ \E U : \A i \in 1..Len(r.layers) : IsTar(r.layers[i], U)
  <1> DEFINE ls == r.layers
             N(i, j) == Range(ls[i][j].dir) \cup {ls[i][j].name}
             U == UNION {UNION {N(i, j) : j \in DOMAIN ls[i]} : i \in DOMAIN ls}
  <1>1. /\ ls \in Seq(Range(ls))
        /\ \A i \in DOMAIN ls : ls[i] \in Seq(Range(ls[i])) /\ \A j \in DOMAIN ls[i] : IsEntry(ls[i][j])
    BY DEF IsImage, IsVec
  <1>2. Len(ls) \in Nat /\ DOMAIN ls = 1..Len(ls)
    BY <1>1
  <1>3. ASSUME NEW i \in DOMAIN ls, NEW j \in DOMAIN ls[i] PROVE TarEntry(ls[i][j], U)
    <2> DEFINE e == ls[i][j]
               d == e.dir
               R == Range(d)
    <2>1. R \subseteq U /\ e.name \in U
      <3>1. N(i, j) \subseteq U
        <4> HIDE DEF N
        <4> QED OBVIOUS
      <3> QED BY <3>1
    <2>2. d \in Seq(R) /\ e.mark \in {"no", "wh", "opq"} /\ e.kind \in {"dir", "file", "link"}
      BY <1>1 DEF IsEntry, IsVec
    <2> HIDE DEF U, R, e, d
    <2>3. d \in Seq(U)
      BY <2>1, <2>2
    <2>4. Append(d, e.name) \in Seq(U)
      BY <2>1, <2>3
    <2>5. TarEntry(e, U)
      BY <2>2, <2>3, <2>4 DEF TarEntry, FullPath, d
    <2> QED BY <2>5 DEF e
  <1> HIDE DEF U
  <1>4. ASSUME NEW i \in 1..Len(ls) PROVE IsTar(ls[i], U)
    <2> DEFINE l == ls[i]
    <2>1. l \in Seq(Range(l)) /\ \A j \in DOMAIN l : TarEntry(l[j], U)
      BY <1>1, <1>2, <1>3
    <2> HIDE DEF l
    <2>2. DOMAIN l = 1..Len(l)
      BY <2>1
    <2>3. IsTar(l, U)
      BY <2>1, <2>2 DEF IsTar
    <2> QED BY <2>3 DEF l
  <1> QED BY <1>2, <1>4

(* find_image's test finds the records a reference names. *)
HasRef(r, ref) ==
  \/ r.id = ref
  \/ {ref, normalize_image_ref(ref)} \cap r.repo_tags # {}
  \/ ref \in r.repo_digests
  \/ r.name = ref

LEMMA HasIsNamed ==
  ASSUME NEW images, NEW ref, IsRef(ref), NEW i \in DOMAIN images, IsImage(images[i])
  PROVE  HasRef(images[i], ref) <=> i \in Named(images, ref)
  <1> DEFINE r == images[i]
             nref == normalize_image_ref(ref)
             Latest(t) == t.tag = "latest" /\ repo_name(t) = ref
  <1>1. i \in Named(images, ref) <=>
          r.id = ref \/ (\E t \in r.repo_tags : t = ref \/ Latest(t)) \/ ref \in r.repo_digests
    BY DEF Named
  <1>2. (\A t \in r.repo_tags : IsRef(t) /\ t.digest = None) /\ r.name \in r.repo_tags \cup r.repo_digests
    BY DEF IsImage, is_digest_ref
  <1>3. ref = [repo |-> ref.repo, tag |-> ref.tag, digest |-> ref.digest]
    BY DEF IsRef
  <1>4. repo_name(ref) = [repo |-> ref.repo, tag |-> None, digest |-> ref.digest]
    BY <1>3 DEF repo_name
  <1>5. nref # ref => nref = [repo |-> ref.repo, tag |-> "latest", digest |-> ref.digest] /\ ref.tag = None
    <2> SUFFICES ASSUME nref # ref
                 PROVE  nref = [repo |-> ref.repo, tag |-> "latest", digest |-> ref.digest] /\ ref.tag = None
      OBVIOUS
    <2>1. repo_name(ref) = ref /\ nref = [ref EXCEPT !.tag = "latest"]
      BY DEF normalize_image_ref
    <2>2. ref.tag = None
      <3>1. repo_name(ref).tag = None
        BY <1>4
      <3> QED BY <2>1, <3>1
    <2>3. [ref EXCEPT !.tag = "latest"] = [repo |-> ref.repo, tag |-> "latest", digest |-> ref.digest]
      BY <1>3
    <2> QED BY <2>1, <2>2, <2>3
  <1>6. ASSUME nref # ref PROVE Latest(nref)
    <2> DEFINE x == [repo |-> ref.repo, tag |-> "latest", digest |-> ref.digest]
    <2>1. x.tag = "latest" /\ repo_name(x) = [repo |-> ref.repo, tag |-> None, digest |-> ref.digest]
      BY DEF repo_name
    <2>2. repo_name(x) = ref
      BY <1>3, <1>5, <1>6, <2>1
    <2> QED BY <1>5, <1>6, <2>1, <2>2
  <1>7. ASSUME NEW t \in r.repo_tags, Latest(t) PROVE t = nref
    <2>1. t = [repo |-> t.repo, tag |-> "latest", digest |-> None]
      BY <1>2, <1>7 DEF IsRef
    <2> DEFINE x == [repo |-> t.repo, tag |-> "latest", digest |-> None]
    <2>2. repo_name(x) = [repo |-> t.repo, tag |-> None, digest |-> None]
      BY DEF repo_name
    <2>3. ref = [repo |-> t.repo, tag |-> None, digest |-> None]
      BY <1>7, <2>1, <2>2
    <2>4. ref.digest = None /\ ref.tag = None /\ ref.repo = t.repo
      BY <2>3
    <2>5. repo_name(ref) = ref
      BY <1>4, <2>3, <2>4
    <2>6. nref = [ref EXCEPT !.tag = "latest"]
      BY <2>4, <2>5 DEF normalize_image_ref, is_digest_ref
    <2>7. [ref EXCEPT !.tag = "latest"] = x
      BY <2>3
    <2> QED BY <2>1, <2>6, <2>7
  <1> HIDE DEF r, nref, Latest
  <1>8. HasRef(r, ref) <=> r.id = ref \/ ref \in r.repo_tags \/ nref \in r.repo_tags \/ ref \in r.repo_digests
                           \/ r.name = ref
    BY DEF HasRef, nref
  <1> QED BY <1>1, <1>2, <1>6, <1>7, <1>8 DEF r

LEMMA ImageFound ==
  ASSUME NEW a, IsRequest(a)
  PROVE  LET named == Named(a.images, a.config.image)
         IN /\ named = {} => ImageOf(a) = NoImage
            /\ named # {} => \E i \in named : ImageOf(a) = a.images[i]
  <1> DEFINE s == a.images
             ref == a.config.image
             T == Range(s)
             keep == {i \in DOMAIN s : HasRef(s[i], ref)}
             ss == [i \in DOMAIN s |-> IF i \in keep THEN <<s[i]>> ELSE <<>>]
             x == FlattenSeq(ss)
             named == Named(s, ref)
  <1>1. s \in Seq(T) /\ IsRef(ref) /\ \A i \in DOMAIN s : IsImage(s[i])
    BY DEF IsRequest, IsVec
  <1>2. ImageOf(a) = IF x = <<>> THEN NoImage ELSE Head(x)
    <2> DEFINE Test(r) == \/ r.id = ref
                          \/ {ref, normalize_image_ref(ref)} \cap r.repo_tags # {}
                          \/ ref \in r.repo_digests
                          \/ r.name = ref
               y == Retain(s, Test)
    <2>1. ImageOf(a) = IF y = <<>> THEN NoImage ELSE Head(y)
      BY Zenon DEF ImageOf, find_image
    <2>2. y = FlattenSeq([i \in DOMAIN s |-> IF HasRef(s[i], ref) THEN <<s[i]>> ELSE <<>>])
      BY Zenon DEF Retain, HasRef
    <2>3. ss = [i \in DOMAIN s |-> IF HasRef(s[i], ref) THEN <<s[i]>> ELSE <<>>]
      OBVIOUS
    <2>4. y = x
      BY <2>2, <2>3
    <2> HIDE DEF y, x
    <2> QED BY <2>1, <2>4
  <1>3. keep = named
    <2>1. named \subseteq DOMAIN s
      BY DEF Named
    <2>2. \A i \in DOMAIN s : HasRef(s[i], ref) <=> i \in named
      <3> HIDE DEF s, ref
      <3> QED BY <1>1, HasIsNamed
    <2> HIDE DEF named
    <2> QED BY <2>1, <2>2
  <1>4. x \in Seq(T) /\ \E e : Embeds(e, x, s, keep \cap (1..Len(s)))
    <2> HIDE DEF keep, T, s
    <2> QED BY <1>1, KeptEmbeds
  <1>5. DOMAIN s = 1..Len(s) /\ Len(x) \in Nat /\ keep \cap (1..Len(s)) = keep
    BY <1>1, <1>4
  <1> HIDE DEF x, ss, T, s, ref, named, keep
  <1>6. PICK e : Embeds(e, x, s, keep)
    BY <1>4, <1>5
  <1>7. /\ e \in [1..Len(x) -> keep]
        /\ \A j \in 1..Len(x) : x[j] = s[e[j]]
        /\ \A i \in keep : \E j \in 1..Len(x) : e[j] = i
    BY <1>6 DEF Embeds
  <1>8. ASSUME keep = {} PROVE x = <<>>
    <2>1. Len(x) = 0
      <3> SUFFICES ASSUME Len(x) # 0 PROVE FALSE
        OBVIOUS
      <3>1. 1 \in 1..Len(x)
        BY <1>5
      <3>2. e[1] \in keep
        BY <1>7, <3>1
      <3> QED BY <1>8, <3>2
    <2> QED BY <1>4, <2>1
  <1>9. ASSUME keep # {} PROVE x # <<>> /\ \E i \in keep : Head(x) = s[i]
    <2>1. PICK i \in keep : TRUE
      BY <1>9
    <2>2. PICK j \in 1..Len(x) : e[j] = i
      BY <1>7
    <2>3. 1 \in 1..Len(x) /\ x # <<>>
      BY <1>4, <1>5
    <2>4. Head(x) = x[1]
      BY <1>4, <2>3
    <2> QED BY <1>7, <2>3, <2>4
  <1> QED BY <1>2, <1>3, <1>8, <1>9 DEF s, ref, named

LEMMA BundledRootfs == Bundled => RootfsIsMerged
  <1> SUFFICES ASSUME Bundled, Done PROVE RootfsIsMerged
    BY DEF RootfsIsMerged
  <1> DEFINE c == create_container(asked)
             im == ImageOf(asked)
             sb == SandboxOf(asked)
             named == Named(asked.images, asked.config.image)
             remap == asked.pod.options /\ asked.pod.userns.mode = "POD"
             owner == IF remap THEN made.spec.uid_mappings[1].host ELSE 0
             Merges(layers) == (\A i \in DOMAIN layers : MarksFirst(layers[i])) =>
                                 made.rootfs = chown_tree(Stacked(layers), owner)
  <1>1. asked # None /\ IsAsked(asked) /\ c.error = None
    BY DEF Done, Bundled
  <1>2. IsRequest(asked)
    BY <1>1, AskedIsRequest
  <1>3. made.rootfs = c.rootfs /\ made.record.image_id = im.id
    <2>1. /\ made = [error |-> None, rootfs |-> c.rootfs, record |-> made.record, spec |-> c.spec,
                     cgroup |-> made.cgroup]
          /\ made.record = [image_id |-> im.id, mounts |-> asked.config.mounts,
                            resources |-> made.record.resources, devices |-> made.record.devices]
      BY <1>1 DEF Bundled
    <2> HIDE DEF c, im
    <2>2. made.rootfs = c.rootfs
      BY <2>1
    <2>3. made.record.image_id = im.id
      BY <2>1
    <2> QED BY <2>2, <2>3
  <1>4. ~ UsernsRejected(asked.pod) /\ c.rootfs = Rootfs(im.layers, sb) /\ c.rootfs # Failed
    BY <1>1, CreateFields
  <1>5. Shown.image_ref = im.id
    BY <1>3 DEF Shown, container_status
  <1>6. sb.userns_uid_mappings = IF remap THEN asked.pod.userns.uids ELSE <<>>
    <2>1. sb.userns_uid_mappings = NamespaceModes(asked.pod).userns_uid_mappings
      BY SandboxFields
    <2> QED BY <2>1 DEF NamespaceModes
  <1>7. remap => /\ made.spec.uid_mappings = asked.pod.userns.uids
                 /\ asked.pod.userns.uids # <<>>
    <2>1. remap => made.spec.uid_mappings = asked.pod.userns.uids
      BY BundledNamespaces DEF NamespacesAsAsked
    <2>2. remap => Len(asked.pod.userns.uids) = 1
      BY <1>4 DEF UsernsRejected, validate_userns_map
    <2>3. ASSUME remap, asked.pod.userns.uids = <<>> PROVE FALSE
      <3> DEFINE u == asked.pod.userns.uids
      <3>1. Len(u) = 1 /\ u = <<>>
        BY <2>2, <2>3
      <3> HIDE DEF u
      <3> QED BY <3>1
    <2> HIDE DEF remap
    <2> QED BY <2>1, <2>3
  <1>8. ASSUME NEW U, NEW layers, layers = im.layers, Len(layers) \in Nat, DOMAIN layers = 1..Len(layers),
               \A i \in 1..Len(layers) : IsTar(layers[i], U)
        PROVE  Merges(layers)
    <2> SUFFICES ASSUME \A i \in DOMAIN layers : MarksFirst(layers[i])
                 PROVE  made.rootfs = chown_tree(Stacked(layers), owner)
      OBVIOUS
    <2> DEFINE tree == unpack_rootfs(layers)
               uids == sb.userns_uid_mappings
    <2>1. made.rootfs = IF tree = Failed \/ uids = <<>> THEN tree ELSE chown_tree(tree, uids[1].host)
      BY <1>3, <1>4, <1>8 DEF Rootfs
    <2>2. tree # Failed
      BY <1>3, <1>4, <2>1
    <2>3. tree = Stacked(layers) /\ Sound(tree, U)
      <3>1. unpack_rootfs(layers) = Stacked(layers) /\ Sound(Stacked(layers), U)
        BY <1>8, <2>2, RootfsMerges
      <3> QED BY <3>1
    <2> HIDE DEF tree, uids, sb, remap
    <2>4. CASE remap
      BY <1>6, <1>7, <2>1, <2>2, <2>3, <2>4 DEF uids
    <2>5. CASE ~ remap
      <3>1. made.rootfs = tree
        BY <1>6, <2>1, <2>5 DEF uids
      <3>2. chown_tree(tree, 0) = tree
        BY <2>3, RootOwned
      <3> QED BY <2>3, <2>5, <3>1, <3>2
    <2> QED BY <2>4, <2>5
  <1>9. /\ named = {} => im = NoImage
        /\ named # {} => \E i \in named : im = asked.images[i]
    BY <1>2, ImageFound
  <1> HIDE DEF Merges
  <1>10. CASE named = {}
    <2>1. im = NoImage
      BY <1>9, <1>10
    <2>2. im.id = None /\ im.layers = <<>>
      BY <2>1 DEF NoImage
    <2>3. Merges(<<>>)
      <3> DEFINE e == <<>>
      <3>1. Len(e) = 0 /\ DOMAIN e = 1..Len(e) /\ Len(e) \in Nat /\ 1..0 = {}
        OBVIOUS
      <3>2. e = im.layers /\ \A i \in 1..Len(e) : IsTar(e[i], {})
        BY <2>2, <3>1
      <3> HIDE DEF e, im
      <3>3. Merges(e)
        BY <1>8, <3>1, <3>2
      <3> QED BY <3>3 DEF e
    <2> QED BY <1>5, <1>10, <2>2, <2>3, Zenon DEF RootfsIsMerged, Merges
  <1>11. CASE named # {}
    <2>1. PICK i \in named : im = asked.images[i]
      BY <1>9, <1>11
    <2>2. i \in DOMAIN asked.images
      BY DEF Named
    <2>3. IsImage(im)
      BY <1>2, <2>1, <2>2 DEF IsRequest
    <2> DEFINE layers == im.layers
    <2>4. Len(layers) \in Nat /\ DOMAIN layers = 1..Len(layers)
          /\ \E U : \A j \in 1..Len(layers) : IsTar(layers[j], U)
      BY <2>3, ImageTars
    <2> HIDE DEF layers
    <2>5. PICK U : \A j \in 1..Len(layers) : IsTar(layers[j], U)
      BY <2>4
    <2>6. Merges(layers)
      BY <1>8, <2>4, <2>5 DEF layers
    <2>7. Merges(asked.images[i].layers) /\ Shown.image_ref = asked.images[i].id
      BY <1>5, <2>1, <2>6 DEF layers
    <2> QED BY <1>11, <2>7, Zenon DEF RootfsIsMerged, Merges
  <1> QED BY <1>10, <1>11

(* find_image, unpack_rootfs, apply_layer and chown_tree: for any records and
   any reference, and for layers of any number, length and contents whose
   markers precede their files, the root file system is that of an image the
   reference names, the change sets of its layers one over the other, owned
   by the container's root. *)
THEOREM ContainerGetsItsRootfs == Spec => []RootfsIsMerged
  BY BundledStays, NextBundles, BundledRootfs, PTL DEF Spec
=============================================================================

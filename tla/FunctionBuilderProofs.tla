----------------------- MODULE FunctionBuilderProofs -----------------------
(***************************************************************************)
(* Proofs about the builder, for functions of any size, and what the       *)
(* proofs about the passes use of graphs and folds.  In this order:        *)
(*   - what ReachAvoid and Onward compute, in any graph, and the folds;    *)
(*   - the types, no code after a terminator, the visitors on the stack    *)
(*     apart and no block lost, as one inductive invariant (IInv);         *)
(*   - the neighbour lists say what the branches say (EInv);               *)
(*   - the graph of a finished function is reducible (RInv), and what      *)
(*     follows for the graph that the passes are given.                    *)
(***************************************************************************)
EXTENDS FunctionBuilder, FiniteSetTheorems, SequenceTheorems, WellFoundedInduction, TLAPS
----------------------------------------------------------------------------
(***************************************************************************)
(* GRAPHS.  What ReachAvoid and Onward compute, in any graph: the least    *)
(* set of blocks that holds the first ones and that the edges do not leave. *)
(* The library's induction theorems cannot be used (see README.md), so the *)
(* induction is here, from the well-foundedness of < on Nat and on sets of *)
(* numbers in place of predicates.                                         *)
(***************************************************************************)

\* A set of numbers that is not empty has a least one.
LEMMA LeastNumber ==
  ASSUME NEW T \in SUBSET Nat, T # {}
  PROVE  \E x \in T : \A y \in T : x <= y
<1>. DEFINE R == {e \in Nat \X Nat : e[1] < e[2]}
<1>1. OpToRel(<, Nat) = R
  BY DEF OpToRel
<1>2. IsWellFoundedOn(R, Nat)
  BY <1>1, NatLessThanWellFounded
<1>3. \A x, y \in Nat : <<y, x>> \in R \/ x <= y
  OBVIOUS
<1>. HIDE DEF R
<1>4. \E x \in T : \A y \in T : ~ (<<y, x>> \in R)
  BY <1>2, WFMin
<1>. QED
  BY <1>3, <1>4

\* Induction: a set that holds 0 and each successor holds every number.
LEMMA Induction ==
  ASSUME NEW S \in SUBSET Nat, 0 \in S, \A n \in S : n + 1 \in S
  PROVE  S = Nat
<1>. SUFFICES ASSUME Nat \ S # {} PROVE FALSE
  OBVIOUS
<1>1. PICK x \in Nat \ S : \A y \in Nat \ S : x <= y
  BY LeastNumber
<1>2. x - 1 \in Nat /\ x - 1 \in S
  BY <1>1
<1>. QED
  BY <1>1, <1>2

\* The sets A, step[A], step[step[A]], ... exist.
Stepwise(f, A, step) == f[0] = A /\ \A n \in Nat : f[n + 1] = step[f[n]]

UpTo(g, n, A, step) == g[0] = A /\ \A i \in 0..n - 1 : g[i + 1] = step[g[i]]

\* The sets of the steps are determined by the first.
LEMMA StepsAgree ==
  ASSUME NEW A, NEW step, NEW n \in Nat, NEW m \in Nat, n <= m,
         NEW g, UpTo(g, n, A, step), NEW h, UpTo(h, m, A, step)
  PROVE  \A i \in 0..n : g[i] = h[i]
<1>. DEFINE S == {i \in Nat : i <= n => g[i] = h[i]}
<1>1. 0 \in S
  BY DEF UpTo
<1>2. ASSUME NEW i \in S
      PROVE  i + 1 \in S
  BY DEF UpTo
<1>3. S = Nat
  <2>. HIDE DEF S
  <2>1. S \in SUBSET Nat
    BY DEF S
  <2>. QED
    BY <1>1, <1>2, <2>1, Induction
<1>. QED
  BY <1>3

\* The steps can be taken without end.
LEMMA StepsExist ==
  ASSUME NEW U, NEW A \in SUBSET U, NEW step \in [SUBSET U -> SUBSET U]
  PROVE  \E f \in [Nat -> SUBSET U] : Stepwise(f, A, step)
<1>. DEFINE Start(n) == {g \in [0..n -> SUBSET U] : UpTo(g, n, A, step)}
            S == {n \in Nat : Start(n) # {}}
<1>1. 0 \in S
  <2>1. [i \in 0..0 |-> A] \in Start(0)
    BY DEF UpTo
  <2>. QED
    BY <2>1
<1>2. ASSUME NEW n \in S
      PROVE  n + 1 \in S
  <2>1. PICK g \in [0..n -> SUBSET U] : UpTo(g, n, A, step)
    OBVIOUS
  <2>. DEFINE h == [i \in 0..n + 1 |-> IF i = n + 1 THEN step[g[n]] ELSE g[i]]
  <2>2. h \in [0..n + 1 -> SUBSET U]
    OBVIOUS
  <2>3. UpTo(h, n + 1, A, step)
    <3>1. h[n + 1] = step[g[n]] /\ \A i \in 0..n : h[i] = g[i]
      OBVIOUS
    <3>2. g[0] = A /\ \A i \in 0..n - 1 : g[i + 1] = step[g[i]]
      BY <2>1 DEF UpTo
    <3>. HIDE DEF h
    <3>3. ASSUME NEW i \in 0..n, i # n
          PROVE  h[i + 1] = step[h[i]]
      <4>1. i \in 0..n - 1 /\ i + 1 \in 0..n
        BY <3>3
      <4>. QED
        BY <3>1, <3>2, <4>1
    <3>4. h[0] = A /\ h[n + 1] = step[h[n]] /\ (n + 1) - 1 = n
      BY <3>1, <3>2
    <3>. QED
      BY <3>3, <3>4 DEF UpTo
  <2>4. h \in Start(n + 1)
    BY <2>2, <2>3
  <2>. QED
    BY <2>4
<1>3. S = Nat
  <2>. HIDE DEF S
  <2>1. S \in SUBSET Nat
    BY DEF S
  <2>. QED
    BY <1>1, <1>2, <2>1, Induction
<1>. DEFINE pick == [n \in Nat |-> CHOOSE g : g \in Start(n)]
            f    == [n \in Nat |-> pick[n][n]]
<1>4. \A n \in Nat : pick[n] \in [0..n -> SUBSET U] /\ UpTo(pick[n], n, A, step)
  BY <1>3
<1>. HIDE DEF S, Start, pick
<1>5. \A n \in Nat : pick[n][n] \in SUBSET U
  BY <1>4
<1>6. f \in [Nat -> SUBSET U]
  BY <1>5
<1>7. f[0] = A
  BY <1>4 DEF UpTo
<1>8. ASSUME NEW n \in Nat
      PROVE  f[n + 1] = step[f[n]]
  <2>1. n + 1 \in Nat /\ n <= n + 1 /\ n \in 0..n
    OBVIOUS
  <2>2. UpTo(pick[n], n, A, step) /\ UpTo(pick[n + 1], n + 1, A, step)
    BY <1>4, <2>1
  <2>3. \A i \in 0..n : pick[n][i] = pick[n + 1][i]
    <3>. DEFINE g == pick[n]
                h == pick[n + 1]
                m == n + 1
    <3>1. n \in Nat /\ m \in Nat /\ n <= m /\ UpTo(g, n, A, step) /\ UpTo(h, m, A, step)
      BY <2>1, <2>2
    <3>. HIDE DEF g, h, m
    <3>2. \A i \in 0..n : g[i] = h[i]
      BY <3>1, StepsAgree
    <3>. QED
      BY <3>2 DEF g, h, m
  <2>4. pick[n + 1][n + 1] = step[pick[n + 1][n]]
    BY <2>2 DEF UpTo
  <2>. QED
    BY <2>1, <2>3, <2>4
<1>. QED
  BY <1>6, <1>7, <1>8 DEF Stepwise

\* No step leaves S.
InStep(S, U, A, step) ==
  S \in SUBSET U /\ A \subseteq S /\ \A X \in SUBSET U : X \subseteq S => step[X] \subseteq S

\* The steps do not leave a set that no step leaves.
LEMMA StepsStay ==
  ASSUME NEW U, NEW A, NEW step, NEW f \in [Nat -> SUBSET U], Stepwise(f, A, step),
         NEW S, InStep(S, U, A, step)
  PROVE  \A n \in Nat : f[n] \subseteq S
<1>. DEFINE T == {n \in Nat : f[n] \subseteq S}
<1>1. 0 \in T
  BY DEF Stepwise, InStep
<1>2. ASSUME NEW n \in T
      PROVE  n + 1 \in T
  BY DEF Stepwise, InStep
<1>3. T = Nat
  <2>. HIDE DEF T
  <2>1. T \in SUBSET Nat
    BY DEF T
  <2>. QED
    BY <1>1, <1>2, <2>1, Induction
<1>. QED
  BY <1>3

\* When the steps only add elements, as many of them as U has elements are enough.
LEMMA StepsEnd ==
  ASSUME NEW U, IsFiniteSet(U), NEW A \in SUBSET U, NEW step \in [SUBSET U -> SUBSET U],
         \A X \in SUBSET U : X \subseteq step[X],
         NEW f \in [Nat -> SUBSET U], Stepwise(f, A, step),
         NEW N \in Nat, Cardinality(U) <= N
  PROVE  step[f[N]] = f[N]
<1>1. \A X \in SUBSET U : IsFiniteSet(X) /\ Cardinality(X) \in Nat
  BY FS_Subset, FS_CardinalityType
<1>2. ASSUME NEW X \in SUBSET U, NEW Y \in SUBSET U, X \subseteq Y, X # Y
      PROVE  Cardinality(X) < Cardinality(Y)
  BY <1>1, <1>2, FS_Subset
<1>. DEFINE T == {n \in Nat : f[n + 1] = f[n] \/ Cardinality(f[n]) >= n}
<1>3. 0 \in T
  BY <1>1
<1>4. ASSUME NEW n \in T
      PROVE  n + 1 \in T
  <2>1. f[n + 1] = step[f[n]] /\ f[(n + 1) + 1] = step[f[n + 1]] /\ f[n] \in SUBSET U /\ f[n + 1] \in SUBSET U
    BY DEF Stepwise
  <2>2. CASE f[n + 1] = f[n]
    <3>1. f[(n + 1) + 1] = f[n + 1]
      BY <2>1, <2>2
    <3>. QED
      BY <3>1
  <2>3. CASE f[n + 1] # f[n] /\ Cardinality(f[n]) >= n
    <3>1. Cardinality(f[n]) < Cardinality(f[n + 1])
      BY <1>2, <2>1, <2>3
    <3>. QED
      BY <1>1, <2>1, <2>3, <3>1
  <2>. QED
    BY <2>2, <2>3
<1>5. T = Nat
  <2>. HIDE DEF T
  <2>1. T \in SUBSET Nat
    BY DEF T
  <2>. QED
    BY <1>3, <1>4, <2>1, Induction
<1>7. f[N + 1] = step[f[N]] /\ f[N] \in SUBSET U /\ f[N + 1] \in SUBSET U /\ f[N] \subseteq f[N + 1]
  BY DEF Stepwise
<1>8. CASE Cardinality(f[N]) >= N
  <2>1. f[N] = U
    <3>1. SUFFICES ASSUME f[N] # U PROVE FALSE
      OBVIOUS
    <3>2. Cardinality(f[N]) < Cardinality(U)
      BY <1>2, <1>7, <3>1
    <3>. QED
      BY <1>1, <1>7, <1>8, <3>2
  <2>. QED
    BY <1>7, <2>1
<1>. QED
  BY <1>5, <1>7, <1>8
----------------------------------------------------------------------------
\* There are as many blocks as steps.
LEMMA BlocksAreFinite == IsFiniteSet(Block) /\ Cardinality(Block) = MaxBlocks /\ MaxBlocks \in Nat
BY FS_Interval, BoundsAssumption DEF Block

\* Adding, step by step, the blocks that edges lead to.
Growing(w, A, edges) == w[0] = A /\ \A n \in Nat : w[n + 1] = UNION {{b} \cup edges[b] : b \in w[n]}

\* A are blocks of U, between which edges lead.
Graph(U, A, edges) == A \in SUBSET U /\ edges \in [U -> SUBSET U]

\* The recursive functions of FlowGraph do that.
Within(w, A, edges) ==
  [n \in Nat |-> IF n = 0 THEN A ELSE UNION {{b} \cup edges[b] : b \in w[n - 1]}]

\* A function that is its own Within is one that grows step by step.
LEMMA WithinGrows ==
  ASSUME NEW U, NEW A, NEW edges, Graph(U, A, edges), NEW w, w = Within(w, A, edges)
  PROVE  w \in [Nat -> SUBSET U] /\ Growing(w, A, edges)
<1>1. w[0] = A /\ \A n \in Nat : w[n + 1] = UNION {{b} \cup edges[b] : b \in w[n]}
  <2>1. \A v : /\ Within(v, A, edges)[0] = A
               /\ \A n \in Nat : Within(v, A, edges)[n + 1] = UNION {{b} \cup edges[b] : b \in v[n]}
    BY DEF Within
  <2>2. PICK v : v = w
    OBVIOUS
  <2>3. w = Within(v, A, edges)
    BY <2>2
  <2>4. w[0] = A /\ \A n \in Nat : w[n + 1] = UNION {{b} \cup edges[b] : b \in v[n]}
    BY <2>1, <2>3
  <2>. QED
    BY <2>2, <2>4
<1>2. \A n \in Nat : w[n] \in SUBSET U
  <2>. DEFINE T == {n \in Nat : w[n] \in SUBSET U}
  <2>1. 0 \in T
    BY <1>1 DEF Graph
  <2>2. ASSUME NEW n \in T
        PROVE  n + 1 \in T
    BY <1>1 DEF Graph
  <2>3. T = Nat
    <3>. HIDE DEF T
    <3>1. T \in SUBSET Nat
      BY DEF T
    <3>. QED
      BY <2>1, <2>2, <3>1, Induction
  <2>. QED
    BY <2>3
<1>3. w = [n \in Nat |-> w[n]]
  <2>1. w = [n \in Nat |-> IF n = 0 THEN A ELSE UNION {{b} \cup edges[b] : b \in w[n - 1]}]
    BY Zenon DEF Within
  <2>. QED
    BY <2>1
<1>. QED
  BY <1>1, <1>2, <1>3 DEF Growing

\* They exist: a recursive definition is the choice of a function like this.
LEMMA WithinExists ==
  ASSUME NEW U, NEW A, NEW edges, Graph(U, A, edges)
  PROVE  \E w \in [Nat -> SUBSET U] : w = Within(w, A, edges)
<1>. DEFINE step == [X \in SUBSET U |-> UNION {{b} \cup edges[b] : b \in X}]
<1>1. step \in [SUBSET U -> SUBSET U] /\ A \in SUBSET U
  BY DEF Graph
<1>2. PICK f \in [Nat -> SUBSET U] : Stepwise(f, A, step)
  <2>. HIDE DEF step
  <2>. QED
    BY <1>1, StepsExist
<1>3. \A n \in Nat : f[n] = IF n = 0 THEN A ELSE UNION {{b} \cup edges[b] : b \in f[n - 1]}
  <2>. TAKE n \in Nat
  <2>1. CASE n = 0
    BY <2>1, <1>2 DEF Stepwise
  <2>2. CASE n # 0
    <3>1. n - 1 \in Nat /\ n = (n - 1) + 1 /\ f[n - 1] \in SUBSET U
      BY <2>2
    <3>2. f[(n - 1) + 1] = step[f[n - 1]]
      BY <3>1, <1>2 DEF Stepwise
    <3>. QED
      BY <2>2, <3>1, <3>2
  <2>. QED
    BY <2>1, <2>2
<1>. QED
  BY <1>3 DEF Within

\* X is the least set that holds A and that the edges do not leave.
LeastClosed(X, U, A, edges) ==
  /\ X \subseteq U /\ A \subseteq X
  /\ \A b \in X : edges[b] \subseteq X
  /\ \A S \in SUBSET U : A \subseteq S /\ (\A b \in S : edges[b] \subseteq S) => X \subseteq S

\* After MaxBlocks steps nothing changes any more: they reach the least set
\* that holds A and that the edges do not leave.
LEMMA GrowingEnds ==
  ASSUME NEW U \in SUBSET Block, NEW A, NEW edges, Graph(U, A, edges),
         NEW w \in [Nat -> SUBSET U], Growing(w, A, edges)
  PROVE  LeastClosed(w[MaxBlocks], U, A, edges)
<1>. DEFINE step == [X \in SUBSET U |-> UNION {{b} \cup edges[b] : b \in X}]
<1>1. step \in [SUBSET U -> SUBSET U] /\ A \in SUBSET U
  BY DEF Graph
<1>2. \A X \in SUBSET U : X \subseteq step[X]
  OBVIOUS
<1>3. Stepwise(w, A, step)
  BY DEF Stepwise, Growing
<1>. HIDE DEF step
<1>4. IsFiniteSet(U) /\ Cardinality(U) <= MaxBlocks /\ MaxBlocks \in Nat
  BY BlocksAreFinite, FS_Subset, FS_CardinalityType
<1>5. step[w[MaxBlocks]] = w[MaxBlocks]
  BY <1>1, <1>2, <1>3, <1>4, StepsEnd, Zenon
<1>6. w[MaxBlocks] \in SUBSET U /\ MaxBlocks \in Nat
  BY BlocksAreFinite
<1>7. \A b \in w[MaxBlocks] : edges[b] \subseteq w[MaxBlocks]
  BY <1>5, <1>6 DEF step
<1>8. ASSUME NEW S \in SUBSET U, A \subseteq S, \A b \in S : edges[b] \subseteq S
      PROVE  w[MaxBlocks] \subseteq S
  <2>1. InStep(S, U, A, step)
    BY <1>8 DEF step, InStep
  <2>2. \A n \in Nat : w[n] \subseteq S
    BY <1>3, <2>1, StepsStay
  <2>. QED
    BY <1>6, <2>2
<1>9. A \subseteq w[MaxBlocks]
  <2>. DEFINE T == {n \in Nat : A \subseteq w[n]}
  <2>1. 0 \in T
    BY DEF Growing
  <2>2. ASSUME NEW n \in T
        PROVE  n + 1 \in T
    BY DEF Growing
  <2>3. T = Nat
    <3>. HIDE DEF T
    <3>1. T \in SUBSET Nat
      BY DEF T
    <3>. QED
      BY <2>1, <2>2, <3>1, Induction
  <2>. QED
    BY <1>6, <2>3
<1>. QED
  BY <1>6, <1>7, <1>8, <1>9 DEF LeastClosed
----------------------------------------------------------------------------
\* ReachAvoid(r, a) is the least set that holds r and that only edges to a leave.
LEMMA ReachAvoidFacts ==
  ASSUME succ \in [Block -> Seq(Block)], NEW r \in Block, NEW a
  PROVE  /\ ReachAvoid(r, a) \subseteq Block
         /\ r # a => r \in ReachAvoid(r, a)
         /\ a \notin ReachAvoid(r, a)
         /\ \A b \in ReachAvoid(r, a) : \A c \in Succs(b) : c # a => c \in ReachAvoid(r, a)
         /\ \A S \in SUBSET Block : (r # a => r \in S) /\ (\A b \in S : \A c \in Succs(b) : c # a => c \in S)
                => ReachAvoid(r, a) \subseteq S
<1>. DEFINE A     == {r} \ {a}
            edges == [b \in Block |-> Succs(b) \ {a}]
            V(w)  == [n \in Nat |-> IF n = 0 THEN {r} \ {a}
                                     ELSE UNION {{b} \cup (Succs(b) \ {a}) : b \in w[n - 1]}]
<1>1. \A b \in Block : Succs(b) \subseteq Block
  BY DEF Succs, Range
<1>2. Graph(Block, A, edges)
  BY <1>1 DEF Graph
<1>3. ASSUME NEW w \in [Nat -> SUBSET Block]
      PROVE  Within(w, A, edges) = V(w)
  <2>1. ASSUME NEW n \in Nat, n # 0
        PROVE  UNION {{b} \cup edges[b] : b \in w[n - 1]} = UNION {{b} \cup (Succs(b) \ {a}) : b \in w[n - 1]}
    <3>1. w[n - 1] \in SUBSET Block
      BY <2>1
    <3>. QED
      BY <3>1
  <2>. QED
    BY <2>1 DEF Within
<1>4. \E w : w = V(w)
  <2>1. \E w \in [Nat -> SUBSET Block] : w = Within(w, A, edges)
    <3>. HIDE DEF A, edges
    <3>. QED
      BY <1>2, WithinExists
  <2>. QED
    BY <2>1, <1>3
<1>5. PICK w : w = V(w) /\ ReachAvoid(r, a) = w[MaxBlocks]
  BY <1>4 DEF ReachAvoid
<1>v. w = V(w)
  BY <1>5
<1>w. ReachAvoid(r, a) = w[MaxBlocks]
  BY <1>5
<1>. HIDE DEF A, edges
<1>6. w \in [Nat -> SUBSET Block] /\ Growing(w, A, edges)
  <2>1. w[0] = {r} \ {a} /\ \A n \in Nat : w[n + 1] = UNION {{b} \cup (Succs(b) \ {a}) : b \in w[n]}
    <3>1. \A v : /\ V(v)[0] = {r} \ {a}
                 /\ \A n \in Nat : V(v)[n + 1] = UNION {{b} \cup (Succs(b) \ {a}) : b \in v[n]}
      <4>. TAKE v
      <4>1. V(v)[0] = {r} \ {a}
        OBVIOUS
      <4>2. ASSUME NEW n \in Nat
            PROVE  V(v)[n + 1] = UNION {{b} \cup (Succs(b) \ {a}) : b \in v[n]}
        <5>1. n + 1 \in Nat /\ n + 1 # 0 /\ (n + 1) - 1 = n
          OBVIOUS
        <5>. QED
          BY <5>1
      <4>. QED
        BY <4>1, <4>2
    <3>2. PICK v : v = w
      OBVIOUS
    <3>. HIDE DEF V
    <3>3. w = V(v)
      BY <1>v, <3>2
    <3>4. w[0] = {r} \ {a} /\ \A n \in Nat : w[n + 1] = UNION {{b} \cup (Succs(b) \ {a}) : b \in v[n]}
      BY <3>1, <3>3
    <3>. QED
      BY <3>2, <3>4
  <2>. DEFINE T == {n \in Nat : w[n] \in SUBSET Block}
  <2>2. 0 \in T
    BY <2>1
  <2>3. ASSUME NEW n \in T
        PROVE  n + 1 \in T
    BY <1>1, <2>1
  <2>4. T = Nat
    <3>. HIDE DEF T
    <3>1. T \in SUBSET Nat
      BY DEF T
    <3>. QED
      BY <2>2, <2>3, <3>1, Induction
  <2>5. \A n \in Nat : w[n] \in SUBSET Block
    BY <2>4
  <2>6. w = [n \in Nat |-> w[n]]
    BY <1>v
  <2>7. \A n \in Nat : w[n + 1] = UNION {{b} \cup edges[b] : b \in w[n]}
    <3>1. \A n \in Nat : UNION {{b} \cup edges[b] : b \in w[n]} = UNION {{b} \cup (Succs(b) \ {a}) : b \in w[n]}
      BY <2>5 DEF edges
    <3>. QED
      BY <2>1, <3>1
  <2>. QED
    BY <2>1, <2>5, <2>6, <2>7 DEF Growing, A
<1>7. /\ w[MaxBlocks] \subseteq Block
      /\ A \subseteq w[MaxBlocks]
      /\ \A b \in w[MaxBlocks] : edges[b] \subseteq w[MaxBlocks]
      /\ \A S \in SUBSET Block : A \subseteq S /\ (\A b \in S : edges[b] \subseteq S) => w[MaxBlocks] \subseteq S
  <2>1. LeastClosed(w[MaxBlocks], Block, A, edges)
    BY <1>2, <1>6, GrowingEnds
  <2>. QED
    BY <2>1 DEF LeastClosed
<1>8. a \notin ReachAvoid(r, a)
  <2>. DEFINE S == Block \ {a}
  <2>1. A \subseteq S /\ \A b \in S : edges[b] \subseteq S
    BY <1>1 DEF A, edges
  <2>. QED
    BY <1>w, <1>7, <2>1
<1>9. \A b \in ReachAvoid(r, a) : \A c \in Succs(b) : c # a => c \in ReachAvoid(r, a)
  <2>1. \A b \in Block : edges[b] = Succs(b) \ {a}
    BY DEF edges
  <2>. QED
    BY <1>w, <1>7, <2>1
<1>10. ASSUME NEW S \in SUBSET Block, r # a => r \in S, \A b \in S : \A c \in Succs(b) : c # a => c \in S
       PROVE  ReachAvoid(r, a) \subseteq S
  <2>1. A \subseteq S /\ \A b \in S : edges[b] \subseteq S
    BY <1>10 DEF A, edges
  <2>. QED
    BY <1>w, <1>7, <2>1
<1>11. r # a => r \in ReachAvoid(r, a)
  BY <1>w, <1>7 DEF A
<1>. QED
  BY <1>w, <1>7, <1>8, <1>9, <1>10, <1>11

\* Onward(next, b) is the least set that holds next[b] and that next does not leave.
LEMMA OnwardFacts ==
  ASSUME NEW U \in SUBSET Block, NEW next \in [U -> SUBSET U], NEW b \in U
  PROVE  /\ Onward(next, b) \subseteq U
         /\ next[b] \subseteq Onward(next, b)
         /\ \A c \in Onward(next, b) : next[c] \subseteq Onward(next, b)
         /\ \A S \in SUBSET U : next[b] \subseteq S /\ (\A c \in S : next[c] \subseteq S)
                => Onward(next, b) \subseteq S
<1>1. Graph(U, next[b], next)
  BY DEF Graph
<1>2. \E w : w = Within(w, next[b], next)
  BY <1>1, WithinExists
<1>3. PICK w : w = Within(w, next[b], next) /\ Onward(next, b) = w[MaxBlocks]
  BY <1>2 DEF Onward, Within
<1>4. w \in [Nat -> SUBSET U] /\ Growing(w, next[b], next)
  BY <1>1, <1>3, WithinGrows
<1>5. Onward(next, b) = w[MaxBlocks]
  BY <1>3
<1>6. /\ w[MaxBlocks] \subseteq U
      /\ next[b] \subseteq w[MaxBlocks]
      /\ \A c \in w[MaxBlocks] : next[c] \subseteq w[MaxBlocks]
      /\ \A S \in SUBSET U : next[b] \subseteq S /\ (\A c \in S : next[c] \subseteq S) => w[MaxBlocks] \subseteq S
  <2>. DEFINE A == next[b]
  <2>1. Graph(U, A, next) /\ Growing(w, A, next) /\ w \in [Nat -> SUBSET U]
    BY <1>1, <1>4
  <2>. HIDE DEF A
  <2>2. LeastClosed(w[MaxBlocks], U, A, next)
    BY <2>1, GrowingEnds
  <2>. QED
    BY <2>2 DEF A, LeastClosed
<1>. QED
  BY <1>5, <1>6
----------------------------------------------------------------------------
(***************************************************************************)
(* Dominance, in any graph.                                                *)
(***************************************************************************)
Avoiding(a) == ReachAvoid(Entry, a)

\* What execution reaches without a.
LEMMA AvoidFacts ==
  ASSUME succ \in [Block -> Seq(Block)], NEW a
  PROVE  /\ Entry \in Block /\ NoBlock \notin Block
         /\ Avoiding(a) \subseteq Reachable /\ Reachable \subseteq Block
         /\ Entry # a => Entry \in Avoiding(a)
         /\ a \notin Avoiding(a)
         /\ \A b \in Avoiding(a) : \A c \in Succs(b) : c # a => c \in Avoiding(a)
         /\ \A S \in SUBSET Block :
              (Entry # a => Entry \in S) /\ (\A b \in S : \A c \in Succs(b) : c # a => c \in S)
                => Avoiding(a) \subseteq S
<1>1. Entry \in Block /\ NoBlock \notin Block /\ \A b \in Block : Succs(b) \subseteq Block
  BY BoundsAssumption DEF Entry, Block, NoBlock, Succs, Range
<1>2. /\ ReachAvoid(Entry, a) \subseteq Block
      /\ Entry # a => Entry \in ReachAvoid(Entry, a)
      /\ a \notin ReachAvoid(Entry, a)
      /\ \A b \in ReachAvoid(Entry, a) : \A c \in Succs(b) : c # a => c \in ReachAvoid(Entry, a)
      /\ \A S \in SUBSET Block :
           (Entry # a => Entry \in S) /\ (\A b \in S : \A c \in Succs(b) : c # a => c \in S)
             => ReachAvoid(Entry, a) \subseteq S
  BY <1>1, ReachAvoidFacts
<1>3. /\ Reachable \subseteq Block /\ Entry \in Reachable
      /\ \A b \in Reachable : \A c \in Succs(b) : c # NoBlock => c \in Reachable
  BY <1>1, ReachAvoidFacts DEF Reachable
<1>4. \A b \in Reachable : \A c \in Succs(b) : c \in Reachable
  BY <1>1, <1>3
<1>5. ReachAvoid(Entry, a) \subseteq Reachable
  BY <1>2, <1>3, <1>4
<1>. QED
  BY <1>1, <1>2, <1>3, <1>5 DEF Avoiding

\* What execution reaches at all.
LEMMA ReachableFacts ==
  ASSUME succ \in [Block -> Seq(Block)]
  PROVE  /\ Entry \in Reachable /\ Reachable \subseteq Block
         /\ \A b \in Reachable : Succs(b) \subseteq Reachable
         /\ \A S \in SUBSET Block :
              Entry \in S /\ (\A b \in S : Succs(b) \subseteq S) => Reachable \subseteq S
         /\ \A b \in Block : Succs(b) \subseteq Block
<1>1. \A b \in Block : Succs(b) \subseteq Block
  BY DEF Succs, Range
<1>2. /\ Entry # NoBlock /\ NoBlock \notin Block /\ Avoiding(NoBlock) = Reachable
      /\ Reachable \subseteq Block
  BY AvoidFacts DEF Avoiding, Reachable
<1>3. Entry \in Reachable /\ \A b \in Reachable : \A c \in Succs(b) : c # NoBlock => c \in Reachable
  BY <1>2, AvoidFacts
<1>4. \A S \in SUBSET Block :
        (Entry # NoBlock => Entry \in S)
          /\ (\A b \in S : \A c \in Succs(b) : c # NoBlock => c \in S) => Avoiding(NoBlock) \subseteq S
  BY AvoidFacts
<1>. QED
  BY <1>1, <1>2, <1>3, <1>4

\* A dominator that is not the block itself, in terms of Avoiding.
LEMMA StrictlyDominates ==
  \A a, b : Dominates(a, b) <=> a = b \/ b \notin Avoiding(a)
BY DEF Dominates, Avoiding

\* What is reached without a is reached without what a dominates.
LEMMA AvoidMore ==
  ASSUME succ \in [Block -> Seq(Block)], NEW a, NEW b \in Block, Dominates(a, b)
  PROVE  Avoiding(a) \subseteq Avoiding(b) \cup {b}
<1>1. CASE a = b
  BY <1>1
<1>2. CASE a # b
  <2>. DEFINE S == Avoiding(a) \cap Avoiding(b)
  <2>1. b \notin Avoiding(a)
    BY <1>2, StrictlyDominates
  <2>2. Entry # a => Entry \in S
    BY <2>1, AvoidFacts
  <2>3. \A x \in S : \A d \in Succs(x) : d # a => d \in S
    BY <2>1, AvoidFacts
  <2>4. S \in SUBSET Block
    BY AvoidFacts
  <2>. HIDE DEF S
  <2>5. Avoiding(a) \subseteq S
    BY <2>2, <2>3, <2>4, AvoidFacts
  <2>. QED
    BY <2>5 DEF S
<1>. QED
  BY <1>1, <1>2

\* A dominator of a dominator is a dominator.
LEMMA DominatesTransitive ==
  ASSUME succ \in [Block -> Seq(Block)], NEW a, NEW b \in Block, NEW c,
         Dominates(a, b), Dominates(b, c)
  PROVE  Dominates(a, c)
<1>. SUFFICES ASSUME a # b, b # c PROVE Dominates(a, c)
  OBVIOUS
<1>1. b \notin Avoiding(a) /\ c \notin Avoiding(b)
  BY StrictlyDominates
<1>2. Avoiding(a) \subseteq Avoiding(b) \cup {b}
  BY AvoidMore
<1>. QED
  BY <1>1, <1>2, StrictlyDominates

\* Two blocks do not dominate each other.
LEMMA DominatesOneWay ==
  ASSUME succ \in [Block -> Seq(Block)], NEW a \in Reachable, NEW b \in Reachable,
         Dominates(a, b), Dominates(b, a)
  PROVE  a = b
<1>. SUFFICES ASSUME a # b PROVE FALSE
  OBVIOUS
<1>1. b \notin Avoiding(a) /\ a \notin Avoiding(b) /\ a \in Block /\ b \in Block
  BY StrictlyDominates, AvoidFacts
<1>2. Avoiding(a) = Avoiding(b)
  <2>1. Avoiding(a) \subseteq Avoiding(b) \cup {b} /\ Avoiding(b) \subseteq Avoiding(a) \cup {a}
    BY <1>1, AvoidMore
  <2>2. a \notin Avoiding(a) /\ b \notin Avoiding(b)
    BY AvoidFacts
  <2>. QED
    BY <1>1, <2>1, <2>2
<1>3. Entry \in Avoiding(a)
  BY <1>2, AvoidFacts
<1>4. \A x \in Avoiding(a) : \A d \in Succs(x) : d # a => d \in Avoiding(a)
  BY AvoidFacts
<1>5. \A x \in Avoiding(a) : \A d \in Succs(x) : d # b => d \in Avoiding(a)
  BY <1>2, AvoidFacts
<1>6. \A x \in Avoiding(a) : Succs(x) \subseteq Avoiding(a)
  BY <1>4, <1>5
<1>7. Avoiding(a) \in SUBSET Block
  BY AvoidFacts
<1>8. Reachable \subseteq Avoiding(a)
  BY <1>3, <1>6, <1>7, ReachableFacts
<1>. QED
  BY <1>8, AvoidFacts

\* The dominators of a block dominate each other.
LEMMA DominatorsAreChained ==
  ASSUME succ \in [Block -> Seq(Block)], NEW a \in Block, NEW b \in Block, NEW c \in Reachable,
         Dominates(a, c), Dominates(b, c)
  PROVE  Dominates(a, b) \/ Dominates(b, a)
<1>. SUFFICES ASSUME ~Dominates(a, b), ~Dominates(b, a) PROVE FALSE
  OBVIOUS
<1>. DEFINE S == Avoiding(a) \cup Avoiding(b)
<1>1. a # b /\ b \in Avoiding(a) /\ a \in Avoiding(b)
  BY StrictlyDominates
<1>2. /\ Entry # a => Entry \in Avoiding(a)
      /\ \A x \in Avoiding(a) : \A d \in Succs(x) : d # a => d \in Avoiding(a)
      /\ Avoiding(a) \subseteq Block
  BY AvoidFacts
<1>3. /\ Entry # b => Entry \in Avoiding(b)
      /\ \A x \in Avoiding(b) : \A d \in Succs(x) : d # b => d \in Avoiding(b)
      /\ Avoiding(b) \subseteq Block
  BY AvoidFacts
<1>4. Entry \in S /\ S \in SUBSET Block /\ \A x \in S : Succs(x) \subseteq S
  BY <1>1, <1>2, <1>3
<1>. HIDE DEF S
<1>5. c \in S
  BY <1>4, ReachableFacts
<1>. QED
  BY <1>1, <1>5, StrictlyDominates DEF S

\* The dominators of a block dominate its predecessors ...
LEMMA DominatesBefore ==
  ASSUME succ \in [Block -> Seq(Block)], NEW a, NEW b, NEW p, b \in Succs(p),
         a # b, Dominates(a, b)
  PROVE  Dominates(a, p)
<1>. SUFFICES ASSUME a # p, p \in Avoiding(a) PROVE FALSE
  BY StrictlyDominates
<1>1. b \in Avoiding(a)
  BY AvoidFacts
<1>. QED
  BY <1>1, StrictlyDominates

(* ... and what dominates its predecessors dominates a block, those left    *)
(* out that the block dominates itself.                                     *)
LEMMA DominatesAfter ==
  ASSUME succ \in [Block -> Seq(Block)], NEW a, NEW b \in Block, b # Entry,
         \A p \in Reachable : b \in Succs(p) => Dominates(a, p) \/ Dominates(b, p)
  PROVE  Dominates(a, b)
<1>. DEFINE S == Avoiding(a) \cap Avoiding(b)
<1>1. /\ Entry # a => Entry \in Avoiding(a)
      /\ \A x \in Avoiding(a) : \A d \in Succs(x) : d # a => d \in Avoiding(a)
      /\ Avoiding(a) \subseteq Reachable /\ a \notin Avoiding(a)
  BY AvoidFacts
<1>2. /\ Entry # b => Entry \in Avoiding(b)
      /\ \A x \in Avoiding(b) : \A d \in Succs(x) : d # b => d \in Avoiding(b)
      /\ Avoiding(b) \subseteq Block /\ b \notin Avoiding(b)
  BY AvoidFacts
<1>3. \A x \in S : b \notin Succs(x)
  BY <1>1, <1>2, StrictlyDominates
<1>4. S \in SUBSET Block /\ (Entry # a => Entry \in S)
      /\ \A x \in S : \A d \in Succs(x) : d # a => d \in S
  BY <1>1, <1>2, <1>3
<1>. HIDE DEF S
<1>5. Avoiding(a) \subseteq S
  BY <1>4, AvoidFacts
<1>. QED
  BY <1>2, <1>5, StrictlyDominates DEF S

\* The entry dominates all blocks, and only itself dominates it.
LEMMA EntryDominates ==
  ASSUME succ \in [Block -> Seq(Block)]
  PROVE  \A b : /\ Dominates(Entry, b)
                /\ Dominates(b, Entry) => b = Entry
<1>1. {} \in SUBSET Block /\ \A x \in {} : \A d \in Succs(x) : d # Entry => d \in {}
  OBVIOUS
<1>2. Avoiding(Entry) \subseteq {}
  BY <1>1, AvoidFacts
<1>3. \A b : Dominates(b, Entry) => b = Entry
  BY AvoidFacts, StrictlyDominates
<1>. QED
  BY <1>2, <1>3, StrictlyDominates
----------------------------------------------------------------------------
(***************************************************************************)
(* Blocks that lead to each other, along any edges.                        *)
(***************************************************************************)
Edging == [Block -> SUBSET Block]

\* Onward, of all blocks.
LEMMA Along ==
  ASSUME NEW N \in Edging, NEW b \in Block
  PROVE  /\ Onward(N, b) \subseteq Block
         /\ N[b] \subseteq Onward(N, b)
         /\ \A c \in Onward(N, b) : N[c] \subseteq Onward(N, b)
         /\ \A S \in SUBSET Block : N[b] \subseteq S /\ (\A c \in S : N[c] \subseteq S)
                => Onward(N, b) \subseteq S
<1>1. Block \in SUBSET Block /\ N \in [Block -> SUBSET Block]
  BY DEF Edging
<1>. QED
  BY <1>1, OnwardFacts

\* What is ahead of a block ahead is ahead.
LEMMA AlongFurther ==
  ASSUME NEW N \in Edging, NEW b \in Block, NEW c \in Onward(N, b)
  PROVE  Onward(N, c) \subseteq Onward(N, b)
<1>1. Onward(N, b) \in SUBSET Block /\ \A d \in Onward(N, b) : N[d] \subseteq Onward(N, b)
  BY Along
<1>2. c \in Block /\ N[c] \subseteq Onward(N, b)
  BY <1>1
<1>. QED
  BY <1>1, <1>2, Along

\* With fewer edges, fewer blocks are ahead.
LEMMA AlongFewer ==
  ASSUME NEW N \in Edging, NEW M \in Edging, \A b \in Block : M[b] \subseteq N[b],
         NEW b \in Block
  PROVE  Onward(M, b) \subseteq Onward(N, b)
<1>1. Onward(N, b) \in SUBSET Block /\ N[b] \subseteq Onward(N, b)
      /\ \A d \in Onward(N, b) : N[d] \subseteq Onward(N, b)
  BY Along
<1>2. M[b] \subseteq Onward(N, b) /\ \A d \in Onward(N, b) : M[d] \subseteq Onward(N, b)
  BY <1>1
<1>. QED
  BY <1>1, <1>2, Along

\* x and y lead to each other.
Together(N, x, y) == y \in Onward(N, x) /\ x \in Onward(N, y)

\* A block on a cycle has a predecessor on it.
LEMMA Cycle ==
  ASSUME NEW N \in Edging, NEW b \in Block, NEW c \in Block, Together(N, b, c)
  PROVE  /\ Together(N, c, c) /\ N[c] # {}
         /\ \E p \in Block : Together(N, b, p) /\ c \in N[p]
<1>1. Onward(N, c) \subseteq Onward(N, b) /\ Onward(N, b) \subseteq Onward(N, c)
  BY AlongFurther DEF Together
<1>2. c \in Onward(N, c)
  BY <1>1 DEF Together
<1>3. N[c] # {}
  <2>. SUFFICES ASSUME N[c] = {} PROVE FALSE
    OBVIOUS
  <2>1. {} \in SUBSET Block /\ N[c] \subseteq {} /\ \A d \in {} : N[d] \subseteq {}
    OBVIOUS
  <2>2. Onward(N, c) \subseteq {}
    BY <2>1, Along
  <2>. QED
    BY <1>2, <2>2
<1>4. \E p \in Onward(N, c) : c \in N[p]
  <2>. SUFFICES ASSUME \A p \in Onward(N, c) : c \notin N[p] PROVE FALSE
    OBVIOUS
  <2>. DEFINE S == Onward(N, c) \ {c}
  <2>1. /\ Onward(N, c) \subseteq Block /\ N[c] \subseteq Onward(N, c)
        /\ \A d \in Onward(N, c) : N[d] \subseteq Onward(N, c)
    BY Along
  <2>2. N[c] \subseteq S /\ \A d \in S : N[d] \subseteq S
    BY <1>2, <2>1
  <2>3. S \in SUBSET Block
    BY <2>1
  <2>4. c \notin S
    OBVIOUS
  <2>. HIDE DEF S
  <2>5. Onward(N, c) \subseteq S
    BY <2>2, <2>3, Along
  <2>. QED
    BY <1>2, <2>4, <2>5
<1>5. PICK p \in Onward(N, c) : c \in N[p]
  BY <1>4
<1>6. p \in Block /\ N[p] \subseteq Onward(N, p)
  <2>1. Onward(N, c) \subseteq Block
    BY Along
  <2>2. p \in Block
    BY <2>1
  <2>. QED
    BY <2>2, Along
<1>7. Onward(N, c) \subseteq Onward(N, p)
  BY <1>5, <1>6, AlongFurther
<1>8. Together(N, b, p)
  BY <1>1, <1>7 DEF Together
<1>. QED
  BY <1>2, <1>3, <1>5, <1>6, <1>8 DEF Together
----------------------------------------------------------------------------
(***************************************************************************)
(* Folds.  step says what a fold makes of a value and the element at a     *)
(* place; the values are in U.                                             *)
(***************************************************************************)
\* The values of a fold, from the first to the last.
FoldSteps(g, n, U, base, step) ==
  g \in [0..n -> U] /\ g[0] = base /\ \A k \in 1..n : g[k] = step[<<g[k - 1], k>>]

\* They exist.
LEMMA FoldStepsExist ==
  ASSUME NEW n \in Nat, NEW U, NEW base \in U, NEW step \in [U \X (1..n) -> U]
  PROVE  \E g : FoldSteps(g, n, U, base, step)
<1>. DEFINE Steps(g, m) == g \in [0..m -> U] /\ g[0] = base /\ \A k \in 1..m : g[k] = step[<<g[k - 1], k>>]
            S == {m \in Nat : m <= n => \E g : Steps(g, m)}
<1>1. 0 \in S
  <2>1. Steps([k \in 0..0 |-> base], 0)
    OBVIOUS
  <2>. QED
    BY <2>1
<1>2. ASSUME NEW m \in S
      PROVE  m + 1 \in S
  <2>. SUFFICES ASSUME m + 1 <= n PROVE \E g : Steps(g, m + 1)
    OBVIOUS
  <2>1. PICK g : Steps(g, m)
    OBVIOUS
  <2>. DEFINE h == [k \in 0..m + 1 |-> IF k = m + 1 THEN step[<<g[m], m + 1>>] ELSE g[k]]
  <2>2. g[m] \in U /\ m + 1 \in 1..n
    BY <2>1
  <2>3. step[<<g[m], m + 1>>] \in U
    BY <2>2
  <2>4. h \in [0..m + 1 -> U]
    BY <2>1, <2>3
  <2>5. h[0] = base /\ h[m + 1] = step[<<g[m], m + 1>>] /\ \A k \in 0..m : h[k] = g[k]
    BY <2>1
  <2>. HIDE DEF h
  <2>6. ASSUME NEW k \in 1..m + 1
        PROVE  h[k] = step[<<h[k - 1], k>>]
    <3>1. CASE k = m + 1
      <4>1. k - 1 = m /\ m \in 0..m
        BY <3>1
      <4>2. h[k - 1] = g[m]
        BY <2>5, <4>1
      <4>. QED
        BY <2>5, <3>1, <4>2
    <3>2. CASE k # m + 1
      <4>1. k \in 1..m /\ k \in 0..m /\ k - 1 \in 0..m
        BY <3>2
      <4>2. h[k] = g[k] /\ h[k - 1] = g[k - 1]
        BY <2>5, <4>1
      <4>. QED
        BY <2>1, <4>1, <4>2
    <3>. QED
      BY <3>1, <3>2
  <2>. QED
    BY <2>4, <2>5, <2>6
<1>. HIDE DEF Steps
<1>3. S = Nat
  <2>. HIDE DEF S
  <2>1. S \in SUBSET Nat
    BY DEF S
  <2>. QED
    BY <1>1, <1>2, <2>1, Induction
<1>4. \E g : Steps(g, n)
  BY <1>3
<1>. QED
  BY <1>4 DEF FoldSteps, Steps

Greatest(t) == CHOOSE x \in t : \A y \in t : x >= y

LEMMA GreatestFacts ==
  ASSUME NEW n \in Nat, NEW t \in SUBSET (1..n), t # {}
  PROVE  /\ Greatest(t) \in 1..n /\ Greatest(t) \in t /\ \A y \in t : Greatest(t) >= y
         /\ t \ {Greatest(t)} \in SUBSET (1..n)
<1>. DEFINE S == {k \in Nat : n - k \in t}
<1>1. \E k \in Nat : k \in S
  <2>1. PICK y \in t : TRUE
    OBVIOUS
  <2>2. y \in 1..n /\ n - y \in Nat /\ n - (n - y) = y
    OBVIOUS
  <2>. QED
    BY <2>1, <2>2
<1>2. PICK k \in Nat : k \in S /\ \A m \in S : k <= m
  <2>. HIDE DEF S
  <2>1. S \in SUBSET Nat /\ S # {}
    BY <1>1 DEF S
  <2>. QED
    BY <2>1, LeastNumber
<1>3. n - k \in t /\ \A y \in t : n - k >= y
  <2>1. ASSUME NEW y \in t
        PROVE  n - k >= y
    <3>1. y \in 1..n /\ n - y \in Nat /\ n - (n - y) = y
      OBVIOUS
    <3>2. n - y \in S
      BY <3>1
    <3>3. k <= n - y
      BY <1>2, <3>2
    <3>. QED
      BY <3>1, <3>3
  <2>. QED
    BY <1>2, <2>1
<1>4. Greatest(t) \in t /\ \A y \in t : Greatest(t) >= y
  BY <1>3 DEF Greatest
<1>. QED
  BY <1>4

\* The function MapThenFoldSet is defined with, on sets of places.
IsFold(it, n, U, base, step) ==
  \A t \in SUBSET (1..n) :
    /\ t = {} => it[t] = base
    /\ t # {} /\ it[t \ {Greatest(t)}] \in U => it[t] = step[<<it[t \ {Greatest(t)}], Greatest(t)>>]

FoldOn(it, n, U, base, step) ==
  /\ it \in [SUBSET (1..n) -> U]
  /\ \A t \in SUBSET (1..n) :
       it[t] = IF t = {} THEN base ELSE step[<<it[t \ {Greatest(t)}], Greatest(t)>>]

LEMMA FoldExists ==
  ASSUME NEW n \in Nat, NEW U, NEW base \in U, NEW step \in [U \X (1..n) -> U]
  PROVE  \E it : FoldOn(it, n, U, base, step)
<1>. DEFINE Good(it, m) == FoldOn(it, m, U, base, step)
            S == {m \in Nat : m <= n => \E it : FoldOn(it, m, U, base, step)}
<1>1. 0 \in S
  <2>1. 1..0 = {}
    OBVIOUS
  <2>2. \A t \in SUBSET (1..0) : t = {}
    BY <2>1
  <2>3. PICK it : it = [t \in SUBSET (1..0) |-> base]
    OBVIOUS
  <2>4. it \in [SUBSET (1..0) -> U]
    BY <2>3
  <2>5. \A t \in SUBSET (1..0) : it[t] = base
    BY <2>3
  <2>6. Good(it, 0)
    BY <2>2, <2>4, <2>5 DEF FoldOn
  <2>. QED
    BY <2>6
<1>2. ASSUME NEW m \in S
      PROVE  m + 1 \in S
  <2>. SUFFICES ASSUME m + 1 <= n PROVE \E it : Good(it, m + 1)
    OBVIOUS
  <2>1. PICK it : Good(it, m)
    OBVIOUS
  <2>2. m + 1 \in 1..n /\ 1..m + 1 = (1..m) \cup {m + 1} /\ m + 1 \notin 1..m
    OBVIOUS
  <2>. DEFINE jt == [t \in SUBSET (1..m + 1) |->
                       IF m + 1 \in t THEN step[<<it[t \ {m + 1}], m + 1>>] ELSE it[t]]
  <2>3. ASSUME NEW t \in SUBSET (1..m + 1), m + 1 \in t
        PROVE  /\ t \ {m + 1} \in SUBSET (1..m) /\ it[t \ {m + 1}] \in U
               /\ step[<<it[t \ {m + 1}], m + 1>>] \in U
    <3>1. t \ {m + 1} \in SUBSET (1..m)
      BY <2>2
    <3>2. it[t \ {m + 1}] \in U
      BY <2>1, <3>1 DEF FoldOn
    <3>. QED
      BY <2>2, <3>1, <3>2
  <2>4. ASSUME NEW t \in SUBSET (1..m + 1), m + 1 \notin t
        PROVE  t \in SUBSET (1..m) /\ it[t] \in U
    <3>1. t \in SUBSET (1..m)
      BY <2>2, <2>4
    <3>. QED
      BY <2>1, <3>1 DEF FoldOn
  <2>5. jt \in [SUBSET (1..m + 1) -> U]
    BY <2>3, <2>4
  <2>6. \A t \in SUBSET (1..m + 1) :
          jt[t] = IF m + 1 \in t THEN step[<<it[t \ {m + 1}], m + 1>>] ELSE it[t]
    OBVIOUS
  <2>. HIDE DEF jt
  <2>7. ASSUME NEW t \in SUBSET (1..m + 1)
        PROVE  jt[t] = IF t = {} THEN base ELSE step[<<jt[t \ {Greatest(t)}], Greatest(t)>>]
    <3>1. CASE m + 1 \in t
      <4>1. Greatest(t) = m + 1
        <5>1. \A y \in t : m + 1 >= y
          OBVIOUS
        <5>2. ASSUME NEW x \in t, \A y \in t : x >= y
              PROVE  x = m + 1
          BY <3>1, <5>1, <5>2
        <5>. QED
          BY <3>1, <5>1, <5>2 DEF Greatest
      <4>2. t \ {m + 1} \in SUBSET (1..m) /\ t \ {m + 1} \in SUBSET (1..m + 1)
            /\ m + 1 \notin t \ {m + 1}
        BY <2>3, <3>1
      <4>3. jt[t \ {m + 1}] = it[t \ {m + 1}]
        BY <2>6, <4>2
      <4>4. jt[t] = step[<<it[t \ {m + 1}], m + 1>>]
        BY <2>6, <3>1
      <4>. QED
        BY <3>1, <4>1, <4>3, <4>4
    <3>2. CASE m + 1 \notin t
      <4>1. t \in SUBSET (1..m)
        BY <2>4, <3>2
      <4>. DEFINE r == t \ {Greatest(t)}
      <4>2. r \in SUBSET (1..m) /\ r \in SUBSET (1..m + 1) /\ m + 1 \notin r
        BY <3>2, <4>1, <2>2
      <4>3. jt[r] = it[r] /\ jt[t] = it[t]
        BY <2>6, <3>2, <4>2
      <4>4. it[t] = IF t = {} THEN base ELSE step[<<it[r], Greatest(t)>>]
        BY <2>1, <4>1 DEF FoldOn
      <4>. QED
        BY <4>3, <4>4
    <3>. QED
      BY <3>1, <3>2
  <2>. QED
    BY <2>5, <2>7 DEF FoldOn
<1>3. S = Nat
  <2>. HIDE DEF S
  <2>1. S \in SUBSET Nat
    BY DEF S
  <2>. QED
    BY <1>1, <1>2, <2>1, Induction
<1>. QED
  BY <1>3

\* x is the last value.
FoldsTo(x, n, U, base, step) == \E g : FoldSteps(g, n, U, base, step) /\ g[n] = x

\* The value of such a fold on all places.
LEMMA FoldIs ==
  ASSUME NEW n \in Nat, NEW U, NEW base \in U, NEW step \in [U \X (1..n) -> U],
         NEW it, IsFold(it, n, U, base, step)
  PROVE  FoldsTo(it[1..n], n, U, base, step)
<1>1. PICK g : FoldSteps(g, n, U, base, step)
  BY FoldStepsExist
<1>. DEFINE S == {k \in Nat : k <= n => g[k] = it[1..k]}
<1>2. 0 \in S
  <2>1. 1..0 = {} /\ {} \in SUBSET (1..n)
    OBVIOUS
  <2>. QED
    BY <1>1, <2>1 DEF FoldSteps, IsFold
<1>3. ASSUME NEW k \in S
      PROVE  k + 1 \in S
  <2>. SUFFICES ASSUME k + 1 <= n PROVE g[k + 1] = it[1..k + 1]
    OBVIOUS
  <2>. DEFINE t == 1..k + 1
  <2>1. t \in SUBSET (1..n) /\ t # {} /\ k + 1 \in t /\ \A y \in t : k + 1 >= y
    <3>1. k \in Nat /\ k + 1 <= n
      OBVIOUS
    <3>2. k + 1 \in t /\ \A y \in t : y \in 1..n /\ k + 1 >= y
      BY <3>1
    <3>. QED
      BY <3>2
  <2>2. Greatest(t) = k + 1
    <3>1. ASSUME NEW x \in t, \A y \in t : x >= y
          PROVE  x = k + 1
      BY <2>1, <3>1
    <3>. QED
      BY <2>1, <3>1 DEF Greatest
  <2>3. t \ {k + 1} = 1..k
    OBVIOUS
  <2>4. g[k] = it[1..k] /\ g[k] \in U /\ g[k + 1] = step[<<g[k], k + 1>>]
    <3>1. k \in 0..n /\ k + 1 \in 1..n /\ (k + 1) - 1 = k
      OBVIOUS
    <3>. QED
      BY <1>1, <3>1 DEF FoldSteps
  <2>. HIDE DEF t
  <2>5. it[t] = step[<<it[1..k], k + 1>>]
    BY <2>1, <2>2, <2>3, <2>4 DEF IsFold
  <2>. QED
    BY <2>4, <2>5 DEF t
<1>4. S = Nat
  <2>. HIDE DEF S
  <2>1. S \in SUBSET Nat
    BY DEF S
  <2>. QED
    BY <1>2, <1>3, <2>1, Induction
<1>. QED
  BY <1>1, <1>4 DEF FoldsTo
----------------------------------------------------------------------------
(***************************************************************************)
(* Keep.                                                                   *)
(***************************************************************************)
\* The elements at the places D of s are put in a list, one after the other.
Collects(g, s, D) ==
  /\ g[0] = << >>
  /\ \A k \in 1..Len(s) : g[k] = IF k \in D THEN Append(g[k - 1], s[k]) ELSE g[k - 1]

\* h says where the elements of r are in s.
PlacesIn(h, r, n, s, D) ==
  /\ \A k \in 1..Len(r) : h[k] \in D /\ h[k] <= n /\ r[k] = s[h[k]]
  /\ \A j, k \in 1..Len(r) : j < k => h[j] < h[k]
  /\ \A d \in D : d <= n => \E k \in 1..Len(r) : h[k] = d

\* The list has these elements and no other, in the order of s.
LEMMA CollectsInOrder ==
  ASSUME NEW S, NEW s \in Seq(S), NEW D \in SUBSET (1..Len(s)), NEW g, Collects(g, s, D),
         NEW n \in 0..Len(s)
  PROVE  g[n] \in Seq(S) /\ \E h \in Seq(D) : Len(h) = Len(g[n]) /\ PlacesIn(h, g[n], n, s, D)
<1>. DEFINE Ok(k) == g[k] \in Seq(S) /\ \E h \in Seq(D) : Len(h) = Len(g[k]) /\ PlacesIn(h, g[k], k, s, D)
            T == {k \in Nat : k <= Len(s) => Ok(k)}
<1>1. 0 \in T
  <2>1. \A d \in D : d \in Nat /\ d > 0
    OBVIOUS
  <2>2. PICK h : h = << >>
    OBVIOUS
  <2>3. h \in Seq(D) /\ h = g[0] /\ g[0] \in Seq(S) /\ Len(h) = 0
    BY <2>2 DEF Collects
  <2>4. PlacesIn(h, h, 0, s, D)
    BY <2>1, <2>3 DEF PlacesIn
  <2>5. Len(h) = Len(g[0]) /\ PlacesIn(h, g[0], 0, s, D)
    BY <2>3, <2>4
  <2>6. Ok(0)
    BY <2>3, <2>5
  <2>. QED
    BY <2>6
<1>2. ASSUME NEW k \in T
      PROVE  k + 1 \in T
  <2>. SUFFICES ASSUME k + 1 <= Len(s) PROVE Ok(k + 1)
    OBVIOUS
  <2>1. PICK h \in Seq(D) : g[k] \in Seq(S) /\ Len(h) = Len(g[k]) /\ PlacesIn(h, g[k], k, s, D)
    OBVIOUS
  <2>2. k \in Nat /\ k + 1 \in 1..Len(s) /\ s[k + 1] \in S /\ (k + 1) - 1 = k
        /\ \A d \in D : d \in Nat
    OBVIOUS
  <2>3. g[k + 1] = IF k + 1 \in D THEN Append(g[k], s[k + 1]) ELSE g[k]
    BY <2>2 DEF Collects
  <2>4. CASE k + 1 \notin D
    <3>1. \A d \in D : d <= k + 1 <=> d <= k
      BY <2>2, <2>4
    <3>2. PlacesIn(h, g[k], k + 1, s, D)
      BY <2>1, <3>1 DEF PlacesIn
    <3>. QED
      BY <2>1, <2>3, <2>4, <3>2
  <2>5. CASE k + 1 \in D
    <3>. DEFINE r == Append(g[k], s[k + 1])
                q == Append(h, k + 1)
                m == Len(g[k])
    <3>1. /\ m \in Nat /\ r \in Seq(S) /\ Len(r) = m + 1 /\ r[m + 1] = s[k + 1]
          /\ \A j \in 1..m : r[j] = g[k][j]
      BY <2>1, <2>2
    <3>2. /\ q \in Seq(D) /\ Len(q) = m + 1 /\ q[m + 1] = k + 1
          /\ \A j \in 1..m : q[j] = h[j]
      BY <2>1, <2>2, <2>5
    <3>. HIDE DEF r, q
    <3>3. \A j \in 1..m : h[j] \in D /\ h[j] <= k /\ g[k][j] = s[h[j]]
      BY <2>1 DEF PlacesIn
    <3>4. \A i, j \in 1..m : i < j => h[i] < h[j]
      BY <2>1 DEF PlacesIn
    <3>5. \A d \in D : d <= k => \E j \in 1..m : h[j] = d
      BY <2>1 DEF PlacesIn
    <3>. HIDE DEF m
    <3>6. ASSUME NEW j \in 1..m + 1
          PROVE  q[j] \in D /\ q[j] <= k + 1 /\ r[j] = s[q[j]]
      <4>1. CASE j = m + 1
        BY <2>5, <3>1, <3>2, <4>1
      <4>2. CASE j # m + 1
        <5>1. j \in 1..m
          BY <3>1, <4>2
        <5>2. h[j] \in D /\ h[j] <= k /\ h[j] \in Nat
          BY <2>2, <3>3, <5>1
        <5>. QED
          BY <2>2, <3>1, <3>2, <3>3, <5>1, <5>2
      <4>. QED
        BY <4>1, <4>2
    <3>7. ASSUME NEW i \in 1..m + 1, NEW j \in 1..m + 1, i < j
          PROVE  q[i] < q[j]
      <4>1. i \in 1..m
        BY <3>1, <3>7
      <4>2. h[i] \in Nat /\ h[i] <= k /\ q[i] = h[i]
        BY <2>2, <3>2, <3>3, <4>1
      <4>3. CASE j = m + 1
        BY <2>2, <3>2, <4>2, <4>3
      <4>4. CASE j # m + 1
        <5>1. j \in 1..m
          BY <3>1, <4>4
        <5>. QED
          BY <3>2, <3>4, <3>7, <4>1, <5>1
      <4>. QED
        BY <4>3, <4>4
    <3>8. ASSUME NEW d \in D, d <= k + 1
          PROVE  \E j \in 1..m + 1 : q[j] = d
      <4>1. CASE d = k + 1
        <5>1. m + 1 \in 1..m + 1
          BY <3>1
        <5>. QED
          BY <3>2, <4>1, <5>1
      <4>2. CASE d # k + 1
        <5>1. PICK j \in 1..m : h[j] = d
          BY <2>2, <3>5, <3>8, <4>2
        <5>2. j \in 1..m + 1
          BY <3>1
        <5>. QED
          BY <3>2, <5>1, <5>2
      <4>. QED
        BY <4>1, <4>2
    <3>9. PlacesIn(q, r, k + 1, s, D)
      BY <3>1, <3>6, <3>7, <3>8 DEF PlacesIn
    <3>10. g[k + 1] = r
      BY <2>3, <2>5 DEF r
    <3>. QED
      BY <3>1, <3>2, <3>9, <3>10
  <2>. QED
    BY <2>4, <2>5
<1>. HIDE DEF Ok
<1>3. T = Nat
  <2>. HIDE DEF T
  <2>1. T \in SUBSET Nat
    BY DEF T
  <2>. QED
    BY <1>1, <1>2, <2>1, Induction
<1>4. Ok(n)
  BY <1>3
<1>. QED
  BY <1>4 DEF Ok

\* What is used of Keep: the elements, and that the last one stays last.
CanCollect(g, s, D, S) == s \in Seq(S) /\ D \in SUBSET (1..Len(s)) /\ Collects(g, s, D)

Collected(r, s, D, S) ==
  /\ r \in Seq(S)
  /\ \A y : y \in Range(r) <=> \E d \in D : y = s[d]
  /\ Len(s) \in D => r # << >> /\ r[Len(r)] = s[Len(s)]
  /\ \A k \in 1..Len(r) - 1 : \E j \in 1..Len(s) - 1 : r[k] = s[j]

LEMMA CollectsFacts ==
  ASSUME NEW g, NEW s, NEW D, NEW S, CanCollect(g, s, D, S)
  PROVE  Collected(g[Len(s)], s, D, S)
<1>. DEFINE r == g[Len(s)]
<1>0. s \in Seq(S) /\ D \in SUBSET (1..Len(s)) /\ Collects(g, s, D)
  BY DEF CanCollect
<1>1. Len(s) \in 0..Len(s) /\ Len(s) \in Nat /\ \A d \in D : d \in Nat /\ d <= Len(s)
  BY <1>0
<1>8. \A d \in D : d > 0
  BY <1>0
<1>2. r \in Seq(S)
  BY <1>0, <1>1, CollectsInOrder
<1>3. PICK h \in Seq(D) : Len(h) = Len(r) /\ PlacesIn(h, r, Len(s), s, D)
  BY <1>0, <1>1, CollectsInOrder
<1>. HIDE DEF r
<1>4. /\ Len(r) \in Nat
      /\ \A k \in 1..Len(r) : h[k] \in D /\ h[k] <= Len(s) /\ r[k] = s[h[k]]
      /\ \A j, k \in 1..Len(r) : j < k => h[j] < h[k]
      /\ \A d \in D : \E k \in 1..Len(r) : h[k] = d
  BY <1>1, <1>2, <1>3 DEF PlacesIn
<1>5. \A y : y \in Range(r) <=> \E d \in D : y = s[d]
  <2>1. DOMAIN r = 1..Len(r)
    BY <1>2
  <2>2. \A y : y \in Range(r) <=> \E k \in DOMAIN r : y = r[k]
    BY DEF Range
  <2>. HIDE DEF PlacesIn
  <2>3. ASSUME NEW y, NEW k \in 1..Len(r), y = r[k]
        PROVE  \E d \in D : y = s[d]
    BY <1>4, <2>3
  <2>4. ASSUME NEW d \in D
        PROVE  \E k \in 1..Len(r) : s[d] = r[k]
    BY <1>4, <2>4
  <2>5. ASSUME NEW y, y \in Range(r)
        PROVE  \E d \in D : y = s[d]
    <3>1. PICK k \in 1..Len(r) : y = r[k]
      BY <2>1, <2>2, <2>5
    <3>. QED
      BY <2>3, <3>1
  <2>6. ASSUME NEW y, NEW d \in D, y = s[d]
        PROVE  y \in Range(r)
    <3>1. PICK k \in 1..Len(r) : s[d] = r[k]
      BY <2>4
    <3>. QED
      BY <2>1, <2>2, <2>6, <3>1
  <2>. QED
    BY <2>5, <2>6
<1>6. ASSUME Len(s) \in D
      PROVE  r # << >> /\ r[Len(r)] = s[Len(s)]
  <2>1. PICK k \in 1..Len(r) : h[k] = Len(s)
    BY <1>4, <1>6
  <2>2. k = Len(r)
    <3>. SUFFICES ASSUME k # Len(r) PROVE FALSE
      OBVIOUS
    <3>1. k < Len(r) /\ Len(r) \in 1..Len(r)
      BY <1>4
    <3>2. h[k] < h[Len(r)] /\ h[Len(r)] \in D /\ h[Len(r)] <= Len(s)
      BY <1>4, <3>1
    <3>3. h[Len(r)] \in Nat
      BY <1>1, <3>2
    <3>. QED
      BY <1>1, <2>1, <3>2, <3>3
  <2>. QED
    BY <1>2, <1>4, <2>1, <2>2
<1>7. ASSUME NEW k \in 1..Len(r) - 1
      PROVE  \E j \in 1..Len(s) - 1 : r[k] = s[j]
  <2>1. k \in 1..Len(r) /\ Len(r) \in 1..Len(r) /\ k < Len(r)
    BY <1>4
  <2>2. h[k] \in D /\ h[k] < h[Len(r)] /\ h[Len(r)] \in D /\ r[k] = s[h[k]]
    BY <1>4, <2>1
  <2>3. h[k] \in Nat /\ h[k] > 0 /\ h[Len(r)] \in Nat /\ h[Len(r)] <= Len(s)
    BY <1>1, <1>8, <2>2
  <2>4. h[k] \in 1..Len(s) - 1
    BY <1>1, <2>2, <2>3
  <2>. QED
    BY <2>2, <2>4
<1>. QED
  BY <1>2, <1>5, <1>6, <1>7 DEF Collected, r

\* The lists exist.
LEMMA CollectsExist ==
  ASSUME NEW S, NEW s \in Seq(S), NEW D \in SUBSET (1..Len(s))
  PROVE  \E g \in [0..Len(s) -> Seq(S)] : Collects(g, s, D)
<1>. DEFINE U == Seq(S)
            n == Len(s)
            step == [e \in U \X (1..n) |-> IF e[2] \in D THEN Append(e[1], s[e[2]]) ELSE e[1]]
<1>1. n \in Nat /\ << >> \in U
  OBVIOUS
<1>2. \A u \in U, k \in 1..n : Append(u, s[k]) \in U
  OBVIOUS
<1>3. step \in [U \X (1..n) -> U]
  BY <1>2
<1>4. \A u \in U, k \in 1..n : step[<<u, k>>] = IF k \in D THEN Append(u, s[k]) ELSE u
  OBVIOUS
<1>. HIDE DEF U, n, step
<1>5. PICK g : FoldSteps(g, n, U, << >>, step)
  BY <1>1, <1>3, FoldStepsExist
<1>6. g \in [0..n -> U] /\ g[0] = << >> /\ \A k \in 1..n : g[k] = step[<<g[k - 1], k>>]
  BY <1>5 DEF FoldSteps
<1>7. ASSUME NEW k \in 1..n
      PROVE  g[k] = IF k \in D THEN Append(g[k - 1], s[k]) ELSE g[k - 1]
  <2>1. k - 1 \in 0..n
    BY <1>1
  <2>. QED
    BY <1>4, <1>6, <2>1
<1>. QED
  BY <1>6, <1>7 DEF Collects, U, n

\* now are the lists with x taken out of the lists of the owners.
TakenOut(now, lists, owners, x) ==
  /\ now \in [Block -> Seq(Block)]
  /\ \A b \in Block : \A y : y \in Range(now[b]) <=> y \in Range(lists[b]) /\ ~(b \in owners /\ y = x)

LEMMA UnlinkFacts ==
  ASSUME NEW lists \in [Block -> Seq(Block)], NEW owners, NEW x
  PROVE  TakenOut(Unlink(lists, owners, x), lists, owners, x)
<1>1. ASSUME NEW s \in Seq(Block)
      PROVE  LET r == Keep(s, LAMBDA y : y # x)
             IN  r \in Seq(Block) /\ \A y : y \in Range(r) <=> y \in Range(s) /\ y # x
  <2>. DEFINE D == {k \in 1..Len(s) : s[k] # x}
              F(g) == [n \in 0..Len(s) |->
                         IF n = 0 THEN << >>
                         ELSE IF s[n] # x THEN Append(g[n - 1], s[n]) ELSE g[n - 1]]
              c == CHOOSE g : g = F(g)
              r == Keep(s, LAMBDA y : y # x)
  <2>1. r = c[Len(s)]
    BY DEF Keep
  <2>2. PICK g \in [0..Len(s) -> Seq(Block)] : Collects(g, s, D)
    BY CollectsExist
  <2>3. g = F(g)
    <3>1. ASSUME NEW n \in 0..Len(s)
          PROVE  g[n] = F(g)[n]
      <4>1. CASE n = 0
        BY <2>2, <4>1 DEF Collects
      <4>2. CASE n # 0
        <5>1. n \in 1..Len(s) /\ (n \in D <=> s[n] # x)
          BY <4>2
        <5>. QED
          BY <2>2, <4>2, <5>1 DEF Collects
      <4>. QED
        BY <4>1, <4>2
    <3>. QED
      BY <2>2, <3>1
  <2>. HIDE DEF F
  <2>4. c = F(c)
    BY <2>3
  <2>. HIDE DEF c
  <2>5. Collects(c, s, D)
    <3>1. \A n \in 0..Len(s) :
            c[n] = IF n = 0 THEN << >>
                   ELSE IF s[n] # x THEN Append(c[n - 1], s[n]) ELSE c[n - 1]
      BY <2>4 DEF F
    <3>2. 0 \in 0..Len(s) /\ \A n \in 1..Len(s) : n \in 0..Len(s) /\ n # 0 /\ (n \in D <=> s[n] # x)
      OBVIOUS
    <3>. QED
      BY <3>1, <3>2 DEF Collects
  <2>. HIDE DEF r
  <2>6. D \in SUBSET (1..Len(s)) /\ \A k : k \in D <=> k \in 1..Len(s) /\ s[k] # x
    OBVIOUS
  <2>. HIDE DEF D, r
  <2>7. r \in Seq(Block) /\ \A y : y \in Range(r) <=> \E d \in D : y = s[d]
    <3>1. CanCollect(c, s, D, Block)
      BY <2>5, <2>6 DEF CanCollect
    <3>2. Collected(c[Len(s)], s, D, Block)
      BY <3>1, CollectsFacts
    <3>. QED
      BY <2>1, <3>2 DEF Collected
  <2>8. \A y : y \in Range(s) <=> \E d \in 1..Len(s) : y = s[d]
    <3>1. DOMAIN s = 1..Len(s)
      OBVIOUS
    <3>. QED
      BY <3>1 DEF Range
  <2>9. \A y : y \in Range(r) <=> y \in Range(s) /\ y # x
    BY <2>6, <2>7, <2>8
  <2>. QED
    BY <2>7, <2>9 DEF r
<1>. QED
  BY <1>1 DEF Unlink, TakenOut
----------------------------------------------------------------------------
(***************************************************************************)
(* THE BUILDER.  The types, no code after a terminator, the visitors on    *)
(* the stack apart, no block lost.  The properties are proved together, as *)
(* one inductive invariant.                                                *)
(***************************************************************************)

(***************************************************************************)
(* What the properties need besides themselves.                            *)
(***************************************************************************)

\* The blocks not created yet are blank, the insert point is created.
RestBlank ==
  /\ insert < nextBlock
  /\ \A b \in bbs : b < nextBlock
  /\ \A b \in Block : b >= nextBlock => code[b] = << >> /\ succ[b] = << >> /\ pre[b] = << >>

\* A loop condition does not return, and its two blocks are reserved.
ConditionOpen ==
  InFrame("cond") => ~Terminated(insert) /\ nextBlock < MaxBlocks

DoneTerminated == Done => Terminated(insert)

IInv ==
  /\ BuilderTypeOK /\ RestBlank
  /\ FrameShape /\ FramesApart /\ AwaitedBlank
  /\ ConditionOpen /\ DoneTerminated
  /\ NoCodeAfterTerminator
  /\ OpenBlocksAwaited

\* Terminated, of a list of instructions
Closed(s) == s # << >> /\ IsTerminator(s[Len(s)])
----------------------------------------------------------------------------
\* What add_instruction, add_pre_basic_block, add_succ_basic_block change.
LEMMA PushCode ==
  ASSUME NEW lists \in [Block -> Seq(Instr)], NEW b \in Block, NEW x \in Instr
  PROVE  /\ PushBack(lists, b, x) \in [Block -> Seq(Instr)]
         /\ PushBack(lists, b, x)[b] = Append(lists[b], x)
         /\ \A c \in Block \ {b} : PushBack(lists, b, x)[c] = lists[c]
BY DEF PushBack

\* The same, of the neighbour lists.
LEMMA PushLink ==
  ASSUME NEW lists \in [Block -> Seq(Block)], NEW b \in Block, NEW x \in Block
  PROVE  /\ PushBack(lists, b, x) \in [Block -> Seq(Block)]
         /\ PushBack(lists, b, x)[b] = Append(lists[b], x)
         /\ \A c \in Block \ {b} : PushBack(lists, b, x)[c] = lists[c]
BY DEF PushBack

\* The results of instructions and the literals are operands.
LEMMA OperandTypes ==
  /\ Opaque \in Operand
  /\ \A i \in 1..MaxInstrs : Result(i) \in Operand /\ Literal(i) \in Operand
<1>. DEFINE top == NumVars * MaxBlocks
<1>1. top \in Nat
  BY BoundsAssumption
<1>2. Operand = 0..(2 * MaxInstrs + top) /\ MaxInstrs \in Nat
  BY BoundsAssumption DEF Operand
<1>. HIDE DEF top
<1>. QED
  BY <1>1, <1>2 DEF Opaque, Result, Literal

\* The instructions CminusfBuilder creates, and which of them end a block.
LEMMA InstrTypes ==
  /\ \A v \in Vars, i \in 1..MaxInstrs, a \in Operand :
       /\ Load(i, v) \in Instr /\ ~IsTerminator(Load(i, v))
       /\ Store(i, v, a) \in Instr /\ ~IsTerminator(Store(i, v, a))
  /\ \A i \in 1..MaxInstrs, a \in Operand : Call(i, a) \in Instr /\ ~IsTerminator(Call(i, a))
  /\ \A i \in 1..MaxInstrs : ArrayAlloca(i) \in Instr /\ ~IsTerminator(ArrayAlloca(i))
  /\ \A a \in Operand :
       /\ Call(Opaque, a) \in Instr /\ ~IsTerminator(Call(Opaque, a))
       /\ Elem(a) \in Instr /\ ~IsTerminator(Elem(a))
       /\ Ret(a) \in Instr /\ IsTerminator(Ret(a))
  /\ \A t \in Block : Br(t) \in Instr /\ IsTerminator(Br(t))
  /\ \A a \in Operand, t, f \in Block :
       t # f => CondBr(a, t, f) \in Instr /\ IsTerminator(CondBr(a, t, f))
<1>. Opaque \in 0..MaxInstrs /\ 1..MaxInstrs \subseteq 0..MaxInstrs /\ Opaque \in Operand
  BY BoundsAssumption, OperandTypes DEF Opaque
<1>1. \A t, f \in Block : t # f => <<t, f>> \in {u \in Block \X Block : u[1] # u[2]}
  OBVIOUS
<1>2. \A a \in Operand, t, f \in Block :
        t # f => CondBr(a, t, f) \in Instr /\ IsTerminator(CondBr(a, t, f))
  <2>. SUFFICES ASSUME NEW a \in Operand, NEW t \in Block, NEW f \in Block, t # f
                PROVE  CondBr(a, t, f) \in Instr /\ IsTerminator(CondBr(a, t, f))
    OBVIOUS
  <2>1. <<t, f>> \in {u \in Block \X Block : u[1] # u[2]}
    BY <1>1
  <2>. QED
    BY <2>1 DEF CondBr, Ins, Instr, Branch, IsTerminator
<1>3. \A t \in Block : Br(t) \in Instr /\ IsTerminator(Br(t))
  BY DEF Br, Ins, Instr, Branch, IsTerminator
<1>. QED
  BY <1>2, <1>3
     DEF Load, Store, Call, ArrayAlloca, Elem, Ret, Ins, Instr, Access, Other, IsTerminator, NoVar

\* An instruction at the end of a block without terminator.
LEMMA AppendCode ==
  ASSUME NEW s \in Seq(Instr), NEW i \in Instr, ~Closed(s),
         \A k \in 1..Len(s) - 1 : ~IsTerminator(s[k])
  PROVE  /\ Closed(Append(s, i)) <=> IsTerminator(i)
         /\ \A k \in 1..Len(Append(s, i)) - 1 : ~IsTerminator(Append(s, i)[k])
BY DEF Closed

\* Block numbers are numbers, and none of them is nullptr.
LEMMA BlockFacts ==
  /\ MaxBlocks \in Nat \ {0} /\ MaxInstrs \in Nat
  /\ \A b \in Block : b \in Nat /\ b # NoBlock
  /\ \A n \in Nat : n # 0 /\ n <= MaxBlocks => n \in Block
BY BoundsAssumption DEF Block, NoBlock

\* What the type of the stack says of a frame.
LEMMA FrameFacts ==
  ASSUME BuilderTypeOK
  PROVE  /\ frames \in Seq(Frame) /\ Len(frames) \in Nat
         /\ \A i \in DOMAIN frames :
              /\ i \in 1..Len(frames)
              /\ frames[i] \in Frame
              /\ frames[i].kind \in {"fun", "cond", "body", "if", "then", "else"}
              /\ frames[i].other \in Block \cup {NoBlock}
              /\ frames[i].cont \in Block \cup {NoBlock}
<1>1. /\ frames \in Seq(Frame) /\ Len(frames) \in Nat /\ DOMAIN frames = 1..Len(frames)
      /\ \A i \in DOMAIN frames : frames[i] \in Frame
  BY DEF BuilderTypeOK
<1>. QED
  BY <1>1 DEF Frame

\* The awaited blocks have been created.
LEMMA AwaitedFacts ==
  ASSUME BuilderTypeOK, FrameShape
  PROVE  \A b \in Awaited \ {NoBlock} : b \in Block /\ b < nextBlock
BY FrameFacts DEF Awaited, AwaitedBy, FrameShape

(* An instruction that is not a branch, at the end of the insert block,      *)
(* which has no terminator.                                                  *)
LEMMA EmitStep ==
  ASSUME IInv, NEW i \in Instr, ~Done, ~Terminated(insert), Emit(i),
         tmp' \in Operand, nextInstr' \in 1..MaxInstrs + 1,
         IsTerminator(i) => ~InFrame("cond")
  PROVE  IInv'
<1>. USE DEF IInv
<1>1. /\ code' = PushBack(code, insert, i)
      /\ UNCHANGED <<bbs, pre, succ, insert, frames, nextBlock>>
  BY DEF Emit
<1>2. /\ code' \in [Block -> Seq(Instr)]
      /\ code'[insert] = Append(code[insert], i)
      /\ \A c \in Block \ {insert} : code'[c] = code[c]
  <2>1. code \in [Block -> Seq(Instr)] /\ insert \in Block
    BY DEF BuilderTypeOK
  <2>2. /\ PushBack(code, insert, i) \in [Block -> Seq(Instr)]
        /\ PushBack(code, insert, i)[insert] = Append(code[insert], i)
        /\ \A c \in Block \ {insert} : PushBack(code, insert, i)[c] = code[c]
    BY <2>1, PushCode
  <2>. QED
    BY <1>1, <2>2
<1>3. /\ Closed(code'[insert]) <=> IsTerminator(i)
      /\ \A k \in 1..Len(code'[insert]) - 1 : ~IsTerminator(code'[insert][k])
  <2>1. /\ code[insert] \in Seq(Instr) /\ ~Closed(code[insert])
        /\ \A k \in 1..Len(code[insert]) - 1 : ~IsTerminator(code[insert][k])
    BY DEF NoCodeAfterTerminator, Terminated, Closed, BuilderTypeOK
  <2>2. /\ Closed(Append(code[insert], i)) <=> IsTerminator(i)
        /\ \A k \in 1..Len(Append(code[insert], i)) - 1 : ~IsTerminator(Append(code[insert], i)[k])
    BY <2>1, AppendCode
  <2>. QED
    BY <1>2, <2>2
<1>4. BuilderTypeOK'
  BY <1>1, <1>2 DEF BuilderTypeOK
<1>5. RestBlank'
  BY <1>1, <1>2, BlockFacts DEF RestBlank, BuilderTypeOK
<1>6. FrameShape' /\ FramesApart'
  BY <1>1 DEF FrameShape, FramesApart
<1>7. AwaitedBlank'
  <2>1. Awaited' = Awaited
    BY <1>1 DEF Awaited
  <2>. QED
    BY <1>1, <1>2, <2>1, AwaitedFacts DEF AwaitedBlank
<1>8. ConditionOpen'
  BY <1>1, <1>3 DEF ConditionOpen, InFrame, Top, Terminated, Closed
<1>9. DoneTerminated'
  BY <1>1 DEF DoneTerminated, Done
<1>10. NoCodeAfterTerminator'
  BY <1>2, <1>3 DEF NoCodeAfterTerminator
<1>11. OpenBlocksAwaited'
  BY <1>1, <1>2 DEF OpenBlocksAwaited, Awaited, Done, Terminated, BuilderTypeOK
<1>. QED
  BY <1>4, <1>5, <1>6, <1>7, <1>8, <1>9, <1>10, <1>11
----------------------------------------------------------------------------
(***************************************************************************)
(* The stack of visitors: what popping, replacing and pushing a frame do   *)
(* to the properties of the stack and to the awaited blocks.               *)
(***************************************************************************)

\* The stack without its top.
LEMMA BelowFacts ==
  ASSUME BuilderTypeOK, frames # << >>
  PROVE  /\ Below \in Seq(Frame) /\ Len(Below) = Len(frames) - 1
         /\ \A i \in 1..Len(frames) - 1 : Below[i] = frames[i]
         /\ Top \in Frame /\ Top = frames[Len(frames)] /\ Len(frames) \in DOMAIN frames
         /\ Len(frames) \in Nat \ {0}
<1>1. frames \in Seq(Frame) /\ Len(frames) \in Nat \ {0}
  BY DEF BuilderTypeOK
<1>2. \A i \in 1..Len(frames) : frames[i] \in Frame
  BY <1>1
<1>3. /\ Below \in Seq(Frame) /\ Len(Below) = Len(frames) - 1
      /\ \A i \in 1..Len(frames) - 1 : Below[i] = frames[1 + i - 1]
  <2>. DEFINE n == Len(frames) - 1
  <2>1. 1 \in Int /\ n \in Int /\ \A i \in 1..n : frames[i] \in Frame
    BY <1>1, <1>2
  <2>. HIDE DEF n
  <2>2. /\ SubSeq(frames, 1, n) \in Seq(Frame)
        /\ Len(SubSeq(frames, 1, n)) = IF 1 <= n THEN n - 1 + 1 ELSE 0
        /\ \A i \in 1..n - 1 + 1 : SubSeq(frames, 1, n)[i] = frames[1 + i - 1]
    BY <2>1, SubSeqProperties
  <2>3. n \in Nat
    BY <1>1 DEF n
  <2>4. /\ SubSeq(frames, 1, n) \in Seq(Frame) /\ Len(SubSeq(frames, 1, n)) = n
        /\ \A i \in 1..n : SubSeq(frames, 1, n)[i] = frames[1 + i - 1]
    BY <2>2, <2>3
  <2>5. SubSeq(frames, 1, n) = Below
    BY DEF Below, n
  <2>. QED
    BY <2>4, <2>5 DEF n
<1>. QED
  BY <1>1, <1>2, <1>3 DEF Top

\* A visitor returns: the blocks it awaited are awaited by nobody any more.
LEMMA PopStep ==
  ASSUME BuilderTypeOK, FrameShape, FramesApart, frames # << >>, Top.kind # "fun",
         frames' = Below, nextBlock' = nextBlock
  PROVE  /\ frames' \in Seq(Frame) /\ frames' # << >>
         /\ FrameShape' /\ FramesApart' /\ ~InFrame("cond")'
         /\ Awaited = Awaited' \cup AwaitedBy(Top)
         /\ AwaitedBy(Top) \cap Awaited' \subseteq {NoBlock}
         /\ \A i \in DOMAIN frames' :
              /\ i \in DOMAIN frames /\ frames'[i] = frames[i]
              /\ Top.other # NoBlock => frames'[i].other # Top.other
              /\ Top.cont # NoBlock => frames'[i].other # Top.cont
<1>1. /\ frames' \in Seq(Frame) /\ Len(frames') = Len(frames) - 1
      /\ \A i \in 1..Len(frames) - 1 : frames'[i] = frames[i]
      /\ Top = frames[Len(frames)] /\ Len(frames) \in DOMAIN frames
      /\ DOMAIN frames = 1..Len(frames) /\ DOMAIN frames' = 1..Len(frames) - 1
  BY BelowFacts, FrameFacts
<1>2. Len(frames) \in Nat /\ Len(frames) >= 2
  BY <1>1, FrameFacts DEF FrameShape
<1>3. frames' # << >>
  BY <1>1, <1>2
<1>4. FrameShape'
  BY <1>1, <1>2 DEF FrameShape
<1>5. FramesApart'
  BY <1>1, <1>2 DEF FramesApart
<1>6. ~InFrame("cond")'
  BY <1>1, <1>2 DEF FrameShape, InFrame, Top
<1>7. Awaited = Awaited' \cup AwaitedBy(Top)
  <2>1. DOMAIN frames = DOMAIN frames' \cup {Len(frames)}
    BY <1>1, <1>2
  <2>2. \A i \in DOMAIN frames' : frames'[i] = frames[i]
    BY <1>1, <1>2
  <2>. QED
    BY <1>1, <2>1, <2>2 DEF Awaited
<1>8. \A i \in DOMAIN frames' :
        /\ i \in DOMAIN frames /\ frames'[i] = frames[i]
        /\ AwaitedBy(Top) \cap AwaitedBy(frames'[i]) \subseteq {NoBlock}
        /\ Top.other # NoBlock => frames'[i].other # Top.other
        /\ Top.cont # NoBlock => frames'[i].other # Top.cont
  BY <1>1, <1>2 DEF FramesApart, AwaitedBy
<1>9. AwaitedBy(Top) \cap Awaited' \subseteq {NoBlock}
  BY <1>8 DEF Awaited
<1>. QED
  BY <1>1, <1>3, <1>4, <1>5, <1>6, <1>7, <1>8, <1>9

\* The frames of a stack whose top is replaced, and of one that is pushed on.
Replaced(f) ==
  /\ frames' \in Seq(Frame) /\ Len(frames') = Len(frames)
  /\ DOMAIN frames' = 1..Len(frames)
  /\ \A i \in 1..Len(frames) - 1 : frames'[i] = frames[i]
  /\ frames'[Len(frames)] = f

Pushed(f) ==
  /\ frames' \in Seq(Frame) /\ Len(frames') = Len(frames) + 1
  /\ DOMAIN frames' = 1..Len(frames) + 1
  /\ \A i \in 1..Len(frames) : frames'[i] = frames[i]
  /\ frames'[Len(frames) + 1] = f

\* How the two arise from Append.
LEMMA AppendIsReplaced ==
  ASSUME BuilderTypeOK, frames # << >>, NEW f \in Frame, frames' = Append(Below, f)
  PROVE  Replaced(f)
BY BelowFacts, FrameFacts DEF Replaced

\* How the two arise from Append, the second.
LEMMA AppendIsPushed ==
  ASSUME BuilderTypeOK, NEW f \in Frame, frames' = Append(frames, f)
  PROVE  Pushed(f)
BY FrameFacts DEF Pushed

(* A visitor goes on to its second child ("then" to "else", "cond" to       *)
(* "body"): it still awaits its cont block, and no longer its other one.    *)
LEMMA ReplaceStep ==
  ASSUME BuilderTypeOK, FrameShape, FramesApart, frames # << >>, Top.kind # "fun",
         NEW f \in Frame, Replaced(f),
         nextBlock' \in Nat, nextBlock <= nextBlock',
         f.kind \in {"else", "body"},
         f.other = IF f.kind = "else" THEN NoBlock ELSE Top.other,
         f.kind = "body" => Top.other # NoBlock,
         f.cont \in Block, f.cont < nextBlock', f.other # f.cont,
         f.cont = Top.cont \/ f.cont >= nextBlock
  PROVE  /\ frames' \in Seq(Frame) /\ frames' # << >>
         /\ FrameShape' /\ FramesApart' /\ ~InFrame("cond")'
         /\ Awaited \subseteq Awaited' \cup AwaitedBy(Top)
         /\ Awaited' \subseteq Awaited \cup {f.cont}
         /\ AwaitedBy(Top) \cap Awaited' \subseteq {NoBlock, f.cont}
         /\ f.cont \in Awaited'
         /\ \A i \in DOMAIN frames' : frames'[i].kind = "if" =>
              /\ i \in DOMAIN frames /\ frames'[i] = frames[i]
              /\ Top.cont # NoBlock => frames'[i].other # Top.cont
<1>1. /\ frames' \in Seq(Frame) /\ Len(frames') = Len(frames)
      /\ \A i \in 1..Len(frames) - 1 : frames'[i] = frames[i]
      /\ frames'[Len(frames)] = f
      /\ Top = frames[Len(frames)] /\ Len(frames) \in DOMAIN frames
      /\ DOMAIN frames = 1..Len(frames) /\ DOMAIN frames' = 1..Len(frames)
  BY BelowFacts, FrameFacts DEF Replaced
<1>2. Len(frames) \in Nat /\ Len(frames) >= 2
  BY <1>1, FrameFacts DEF FrameShape
<1>3. frames' # << >> /\ Top' = f
  BY <1>1, <1>2 DEF Top
<1>4. ~InFrame("cond")'
  BY <1>3 DEF InFrame
<1>5. \A i \in 1..Len(frames) :
        /\ frames[i].other \in Block \cup {NoBlock} /\ frames[i].cont \in Block \cup {NoBlock}
        /\ frames[i].other < nextBlock /\ frames[i].cont < nextBlock
  BY <1>1, FrameFacts DEF FrameShape
<1>6. nextBlock \in Nat /\ \A b \in Block \cup {NoBlock} : b \in Nat
  BY BlockFacts DEF BuilderTypeOK, NoBlock
<1>16. \A i \in 1..Len(frames) - 1 : i \in 1..Len(frames) /\ i # Len(frames)
  <2>1. \A n \in Nat : \A i \in 1..n - 1 : i \in 1..n /\ i # n
    OBVIOUS
  <2>. QED
    BY <1>2, <2>1
<1>7. FrameShape'
  <2>1. WellFormed(f) /\ f.other < nextBlock' /\ f.cont < nextBlock'
    <3>1. Top.other < nextBlock /\ Top.other \in Block \cup {NoBlock}
      BY <1>1, <1>2, <1>5
    <3>2. f.other \in Block \cup {NoBlock} /\ f.other < nextBlock'
      BY <1>6, <3>1 DEF NoBlock
    <3>. QED
      BY <3>1, <3>2, BlockFacts DEF WellFormed, NoBlock
  <2>2. ASSUME NEW i \in 1..Len(frames)
        PROVE  /\ frames'[i].kind = "fun" <=> i = 1
               /\ frames'[i].kind = "cond" => i = Len(frames)
               /\ WellFormed(frames'[i])
               /\ frames'[i].other < nextBlock' /\ frames'[i].cont < nextBlock'
    <3>1. CASE i = Len(frames)
      BY <1>1, <1>2, <2>1, <3>1
    <3>2. CASE i \in 1..Len(frames) - 1
      <4>1. /\ i \in DOMAIN frames /\ frames'[i] = frames[i] /\ i # Len(frames)
            /\ frames[i].other \in Nat /\ frames[i].cont \in Nat
        BY <1>1, <1>5, <1>6, <1>16, <3>2
      <4>2. /\ frames[i].kind = "fun" <=> i = 1
            /\ frames[i].kind = "cond" => i = Len(frames)
            /\ WellFormed(frames[i])
            /\ frames[i].other < nextBlock /\ frames[i].cont < nextBlock
        BY <4>1 DEF FrameShape
      <4>. QED
        BY <1>6, <4>1, <4>2
    <3>. QED
      BY <1>2, <3>1, <3>2
  <2>. QED
    BY <1>1, <2>2 DEF FrameShape
<1>8. FramesApart'
  <2>1. ASSUME NEW i \in 1..Len(frames) - 1
        PROVE  /\ f.other # NoBlock => f.other \notin {frames[i].other, frames[i].cont}
               /\ f.cont # frames[i].cont
               /\ frames[i].other # NoBlock => frames[i].other \notin {f.other, f.cont}
               /\ frames[i].cont # NoBlock => frames[i].cont # f.cont
               /\ f.cont # NoBlock
    <3>1. /\ Top.other # NoBlock => Top.other \notin {frames[i].other, frames[i].cont}
          /\ Top.cont # NoBlock => Top.cont # frames[i].cont
          /\ frames[i].other # NoBlock => frames[i].other \notin {Top.other, Top.cont}
      BY <1>1, <1>2, SMTT(20) DEF FramesApart
    <3>2. f.cont # NoBlock /\ f.cont # frames[i].cont /\ frames[i].other # f.cont
      <4>1. CASE f.cont = Top.cont
        BY <3>1, <4>1, <1>6, BlockFacts
      <4>2. CASE f.cont >= nextBlock
        BY <1>5, <1>6, <4>2, BlockFacts
      <4>. QED
        BY <4>1, <4>2
    <3>. QED
      BY <3>1, <3>2
  <2>2. ASSUME NEW i \in 1..Len(frames), NEW j \in 1..Len(frames), i # j
        PROVE  /\ frames'[i].other # NoBlock => frames'[i].other \notin {frames'[j].other, frames'[j].cont}
               /\ frames'[i].cont # NoBlock => frames'[i].cont # frames'[j].cont
    <3>1. CASE i \in 1..Len(frames) - 1 /\ j \in 1..Len(frames) - 1
      BY <1>1, <2>2, <3>1 DEF FramesApart
    <3>2. CASE i = Len(frames) /\ j \in 1..Len(frames) - 1
      BY <1>1, <2>1, <3>2
    <3>3. CASE i \in 1..Len(frames) - 1 /\ j = Len(frames)
      BY <1>1, <2>1, <3>3
    <3>. QED
      BY <1>2, <2>2, <3>1, <3>2, <3>3
  <2>. QED
    BY <1>1, <2>2 DEF FramesApart
<1>9. DOMAIN frames = 1..Len(frames) - 1 \cup {Len(frames)}
  BY <1>1, <1>2
<1>10. Awaited \subseteq Awaited' \cup AwaitedBy(Top) /\ f.cont \in Awaited'
  BY <1>1, <1>9 DEF Awaited, AwaitedBy
<1>11. AwaitedBy(f) = {f.cont}
  BY DEF AwaitedBy
<1>12. Awaited' \subseteq Awaited \cup {f.cont}
  BY <1>1, <1>9, <1>11 DEF Awaited
<1>13. \A i \in 1..Len(frames) - 1 : AwaitedBy(Top) \cap AwaitedBy(frames[i]) \subseteq {NoBlock}
  <2>1. ASSUME NEW i \in 1..Len(frames) - 1
        PROVE  /\ i \in DOMAIN frames /\ Len(frames) \in DOMAIN frames /\ i # Len(frames)
               /\ Top.other # NoBlock => Top.other \notin {frames[i].other, frames[i].cont}
               /\ Top.cont # NoBlock => Top.cont # frames[i].cont
               /\ frames[i].other # NoBlock => frames[i].other # Top.cont
    <3>1. i \in DOMAIN frames /\ Len(frames) \in DOMAIN frames /\ i # Len(frames)
      BY <1>1, <1>11
    <3>. QED
      BY <1>1, <3>1 DEF FramesApart
  <2>. QED
    BY <2>1 DEF AwaitedBy
<1>14. AwaitedBy(Top) \cap Awaited' \subseteq {NoBlock, f.cont}
  BY <1>1, <1>9, <1>11, <1>13 DEF Awaited
<1>15. \A i \in DOMAIN frames' : frames'[i].kind = "if" =>
         /\ i \in DOMAIN frames /\ frames'[i] = frames[i]
         /\ Top.cont # NoBlock => frames'[i].other # Top.cont
  BY <1>1, <1>2 DEF FramesApart
<1>. QED
  BY <1>1, <1>3, <1>4, <1>7, <1>8, <1>10, <1>12, <1>14, <1>15

\* A visitor is entered: it awaits new blocks.
LEMMA PushStep ==
  ASSUME BuilderTypeOK, FrameShape, FramesApart, frames # << >>, ~InFrame("cond"),
         NEW f \in Frame, Pushed(f),
         nextBlock' \in Nat, nextBlock <= nextBlock',
         f.kind \in {"if", "then", "cond"},
         f.other >= nextBlock, f.other < nextBlock', f.other # f.cont,
         f.cont = NoBlock <=> f.kind = "cond",
         f.cont # NoBlock => f.cont >= nextBlock, f.cont < nextBlock'
  PROVE  /\ frames' \in Seq(Frame) /\ frames' # << >>
         /\ FrameShape' /\ FramesApart' /\ (InFrame("cond")' <=> f.kind = "cond")
         /\ Awaited' = Awaited \cup AwaitedBy(f)
         /\ \A i \in DOMAIN frames' :
              \/ frames'[i] = f
              \/ i \in DOMAIN frames /\ frames'[i] = frames[i]
<1>1. /\ frames' \in Seq(Frame) /\ Len(frames') = Len(frames) + 1
      /\ \A i \in 1..Len(frames) : frames'[i] = frames[i]
      /\ frames'[Len(frames) + 1] = f
      /\ DOMAIN frames = 1..Len(frames) /\ DOMAIN frames' = 1..Len(frames) + 1
      /\ Len(frames) \in Nat \ {0}
      /\ Top = frames[Len(frames)]
  BY FrameFacts DEF Top, Pushed
<1>2. frames' # << >> /\ Top' = f
  BY <1>1 DEF Top
<1>3. InFrame("cond")' <=> f.kind = "cond"
  BY <1>2 DEF InFrame
<1>4. \A i \in 1..Len(frames) :
        /\ frames[i].other \in Block \cup {NoBlock} /\ frames[i].cont \in Block \cup {NoBlock}
        /\ frames[i].other < nextBlock /\ frames[i].cont < nextBlock
  BY <1>1, FrameFacts DEF FrameShape
<1>5. /\ nextBlock \in Nat /\ nextBlock > 0 /\ \A b \in Block \cup {NoBlock} : b \in Nat
      /\ f.other \in Block \cup {NoBlock} /\ f.cont \in Block \cup {NoBlock}
  BY BlockFacts DEF BuilderTypeOK, NoBlock, Frame
<1>6. f.other # NoBlock
  BY <1>5 DEF NoBlock
<1>7. FrameShape'
  <2>1. WellFormed(f)
    BY <1>5, <1>6 DEF WellFormed
  <2>2. \A i \in 1..Len(frames) : frames[i].kind # "cond"
    BY <1>1 DEF FrameShape, InFrame
  <2>3. ASSUME NEW i \in 1..Len(frames) + 1
        PROVE  /\ frames'[i].kind = "fun" <=> i = 1
               /\ frames'[i].kind = "cond" => i = Len(frames) + 1
               /\ WellFormed(frames'[i])
               /\ frames'[i].other < nextBlock' /\ frames'[i].cont < nextBlock'
    <3>1. CASE i = Len(frames) + 1
      BY <1>1, <2>1, <3>1
    <3>2. CASE i \in 1..Len(frames)
      <4>1. /\ frames[i].kind = "fun" <=> i = 1
            /\ WellFormed(frames[i])
            /\ frames[i].other < nextBlock /\ frames[i].cont < nextBlock
            /\ frames[i].other \in Nat /\ frames[i].cont \in Nat
        BY <1>1, <1>4, <1>5, <3>2 DEF FrameShape
      <4>2. frames'[i] = frames[i] /\ frames[i].kind # "cond"
        BY <1>1, <2>2, <3>2
      <4>. QED
        BY <1>5, <4>1, <4>2
    <3>. QED
      BY <1>1, <3>1, <3>2
  <2>. QED
    BY <1>1, <2>3 DEF FrameShape
<1>8. FramesApart'
  <2>1. ASSUME NEW i \in 1..Len(frames)
        PROVE  /\ f.other \notin {frames[i].other, frames[i].cont}
               /\ f.cont # NoBlock => f.cont \notin {frames[i].other, frames[i].cont}
    <3>1. /\ frames[i].other \in Nat /\ frames[i].other < nextBlock
          /\ frames[i].cont \in Nat /\ frames[i].cont < nextBlock
      BY <1>4, <1>5
    <3>2. f.other \in Nat /\ f.cont \in Nat /\ nextBlock \in Nat
      BY <1>5
    <3>. QED
      BY <3>1, <3>2
  <2>2. \A i \in 1..Len(frames) + 1 : i \in 1..Len(frames) \/ i = Len(frames) + 1
    BY <1>1
  <2>3. ASSUME NEW i \in 1..Len(frames) + 1, NEW j \in 1..Len(frames) + 1, i # j
        PROVE  /\ frames'[i].other # NoBlock =>
                    frames'[i].other \notin {frames'[j].other, frames'[j].cont}
               /\ frames'[i].cont # NoBlock => frames'[i].cont # frames'[j].cont
    <3>1. CASE i \in 1..Len(frames) /\ j \in 1..Len(frames)
      BY <1>1, <2>3, <3>1 DEF FramesApart
    <3>2. CASE i = Len(frames) + 1 /\ j \in 1..Len(frames)
      BY <1>1, <2>1, <3>2
    <3>3. CASE i \in 1..Len(frames) /\ j = Len(frames) + 1
      BY <1>1, <2>1, <3>3
    <3>. QED
      BY <2>2, <2>3, <3>1, <3>2, <3>3
  <2>. QED
    BY <1>1, <2>3 DEF FramesApart
<1>9. DOMAIN frames' = DOMAIN frames \cup {Len(frames) + 1}
  BY <1>1
<1>10. Awaited' = Awaited \cup AwaitedBy(f)
  BY <1>1, <1>9 DEF Awaited
<1>. QED
  BY <1>1, <1>2, <1>3, <1>7, <1>8, <1>9, <1>10
----------------------------------------------------------------------------
(***************************************************************************)
(* create_br(target), guarded by the test for a terminator.                *)
(***************************************************************************)
LEMMA BranchStep ==
  ASSUME BuilderTypeOK, NoCodeAfterTerminator, NEW target \in Block
  PROVE  /\ BrCode(target) \in [Block -> Seq(Instr)]
         /\ BrSucc(target) \in [Block -> Seq(Block)]
         /\ BrPre(target) \in [Block -> Seq(Block)]
         /\ \A b \in Block \ {insert} :
              BrCode(target)[b] = code[b] /\ BrSucc(target)[b] = succ[b]
         /\ \A b \in Block \ {target} : BrPre(target)[b] = pre[b]
         /\ Closed(BrCode(target)[insert])
         /\ \A b \in Block : \A k \in 1..Len(BrCode(target)[b]) - 1 :
              ~IsTerminator(BrCode(target)[b][k])
<1>1. /\ code \in [Block -> Seq(Instr)] /\ succ \in [Block -> Seq(Block)]
      /\ pre \in [Block -> Seq(Block)] /\ insert \in Block
  BY DEF BuilderTypeOK
<1>2. Br(target) \in Instr /\ IsTerminator(Br(target))
  BY InstrTypes
<1>3. CASE Terminated(insert)
  <2>1. BrCode(target) = code /\ BrSucc(target) = succ /\ BrPre(target) = pre
    BY <1>3 DEF BrCode, BrSucc, BrPre
  <2>. QED
    BY <1>1, <1>3, <2>1 DEF NoCodeAfterTerminator, Terminated, Closed
<1>4. CASE ~Terminated(insert)
  <2>1. /\ BrCode(target) = PushBack(code, insert, Br(target))
        /\ BrSucc(target) = PushBack(succ, insert, target)
        /\ BrPre(target) = PushBack(pre, target, insert)
    BY <1>4 DEF BrCode, BrSucc, BrPre
  <2>2. /\ BrCode(target) \in [Block -> Seq(Instr)]
        /\ BrCode(target)[insert] = Append(code[insert], Br(target))
        /\ \A b \in Block \ {insert} : BrCode(target)[b] = code[b]
    <3>1. /\ PushBack(code, insert, Br(target)) \in [Block -> Seq(Instr)]
          /\ PushBack(code, insert, Br(target))[insert] = Append(code[insert], Br(target))
          /\ \A b \in Block \ {insert} : PushBack(code, insert, Br(target))[b] = code[b]
      BY <1>1, <1>2, PushCode
    <3>. QED
      BY <2>1, <3>1
  <2>3. /\ BrSucc(target) \in [Block -> Seq(Block)]
        /\ \A b \in Block \ {insert} : BrSucc(target)[b] = succ[b]
    <3>1. /\ PushBack(succ, insert, target) \in [Block -> Seq(Block)]
          /\ \A b \in Block \ {insert} : PushBack(succ, insert, target)[b] = succ[b]
      BY <1>1, PushLink, ZenonT(40)
    <3>. QED
      BY <2>1, <3>1
  <2>4. /\ BrPre(target) \in [Block -> Seq(Block)]
        /\ \A b \in Block \ {target} : BrPre(target)[b] = pre[b]
    <3>1. /\ PushBack(pre, target, insert) \in [Block -> Seq(Block)]
          /\ \A b \in Block \ {target} : PushBack(pre, target, insert)[b] = pre[b]
      BY <1>1, PushLink, ZenonT(40)
    <3>. QED
      BY <2>1, <3>1
  <2>5. /\ code[insert] \in Seq(Instr) /\ ~Closed(code[insert])
        /\ \A k \in 1..Len(code[insert]) - 1 : ~IsTerminator(code[insert][k])
    BY <1>1, <1>4 DEF NoCodeAfterTerminator, Terminated, Closed
  <2>6. /\ Closed(Append(code[insert], Br(target)))
        /\ \A k \in 1..Len(Append(code[insert], Br(target))) - 1 :
             ~IsTerminator(Append(code[insert], Br(target))[k])
    BY <1>2, <2>5, AppendCode
  <2>7. \A b \in Block : \A k \in 1..Len(BrCode(target)[b]) - 1 :
          ~IsTerminator(BrCode(target)[b][k])
    BY <2>2, <2>6 DEF NoCodeAfterTerminator
  <2>. QED
    BY <2>2, <2>3, <2>4, <2>6, <2>7
<1>. QED
  BY <1>3, <1>4

(* The end of a branch of a statement: create_br, and the insert point goes *)
(* to a block that was awaited.                                             *)
LEMMA LeaveStep ==
  ASSUME IInv, NEW target \in Block, NEW next \in Block,
         code' = BrCode(target), succ' = BrSucc(target), pre' = BrPre(target),
         insert' = next, tmp' = Opaque, UNCHANGED <<nextBlock, nextInstr>>,
         bbs' \subseteq bbs, target < nextBlock,
         frames' \in Seq(Frame), frames' # << >>,
         FrameShape', FramesApart', ~InFrame("cond")',
         next \in Awaited, next \notin Awaited',
         Awaited' \subseteq Awaited \cup {NoBlock},
         \A b \in Awaited : b \in Awaited' \/ b = next \/ b \notin bbs',
         \A i \in DOMAIN frames' : frames'[i].kind = "if" =>
           /\ i \in DOMAIN frames /\ frames'[i] = frames[i]
           /\ frames[i].other # target
  PROVE  IInv'
<1>. BuilderTypeOK /\ NoCodeAfterTerminator /\ FrameShape /\ RestBlank
  BY DEF IInv
<1>1. /\ code' \in [Block -> Seq(Instr)]
      /\ succ' \in [Block -> Seq(Block)] /\ pre' \in [Block -> Seq(Block)]
      /\ \A b \in Block \ {insert} : code'[b] = code[b] /\ succ'[b] = succ[b]
      /\ \A b \in Block \ {target} : pre'[b] = pre[b]
      /\ Closed(code'[insert])
      /\ \A b \in Block : \A k \in 1..Len(code'[b]) - 1 : ~IsTerminator(code'[b][k])
  BY BranchStep
<1>2. /\ next # NoBlock /\ next < nextBlock /\ next # insert
      /\ code[next] = << >> /\ succ[next] = << >>
  BY AwaitedFacts, BlockFacts DEF IInv, AwaitedBlank
<1>3. BuilderTypeOK'
  BY <1>1, OperandTypes DEF BuilderTypeOK
<1>4. RestBlank'
  <2>1. insert \in Block /\ insert < nextBlock /\ nextBlock \in Nat
    BY DEF RestBlank, BuilderTypeOK
  <2>2. \A b \in Block : b >= nextBlock => b # insert /\ b # target
    BY <2>1, BlockFacts
  <2>. QED
    BY <1>1, <1>2, <2>2 DEF RestBlank
<1>5. AwaitedBlank'
  <2>1. \A b \in Awaited' \ {NoBlock} : b \in Block /\ b # insert /\ b # next
                                        /\ code[b] = << >> /\ succ[b] = << >>
    BY AwaitedFacts DEF IInv, AwaitedBlank
  <2>2. \A i \in DOMAIN frames' : frames'[i].kind = "if" => pre'[frames'[i].other] = << >>
    <3>1. ASSUME NEW i \in DOMAIN frames', frames'[i].kind = "if"
          PROVE  pre'[frames'[i].other] = << >>
      <4>1. i \in DOMAIN frames /\ frames'[i] = frames[i] /\ frames[i].other # target
        BY <3>1
      <4>2. frames[i].other \in Block /\ pre[frames[i].other] = << >>
        BY <3>1, <4>1, FrameFacts DEF IInv, AwaitedBlank, FrameShape, WellFormed
      <4>. QED
        BY <1>1, <4>1, <4>2
    <3>. QED
      BY <3>1
  <2>. QED
    BY <1>1, <2>1, <2>2 DEF AwaitedBlank
<1>6. ConditionOpen'
  BY DEF ConditionOpen
<1>7. DoneTerminated'
  BY DEF DoneTerminated, Done
<1>8. NoCodeAfterTerminator'
  BY <1>1 DEF NoCodeAfterTerminator
<1>9. OpenBlocksAwaited'
  <2>1. ASSUME NEW b \in bbs'
        PROVE  Terminated(b)' \/ b = insert' \/ b \in Awaited'
    <3>1. b \in Block /\ (Terminated(b) \/ b = insert \/ b \in Awaited)
      BY <2>1 DEF BuilderTypeOK, IInv, OpenBlocksAwaited
    <3>2. CASE b = insert
      BY <1>1, <3>2 DEF Terminated, Closed
    <3>3. CASE b # insert /\ Terminated(b)
      BY <1>1, <3>1, <3>3 DEF Terminated
    <3>4. CASE b \in Awaited
      BY <2>1, <3>4
    <3>. QED
      BY <3>1, <3>2, <3>3, <3>4
  <2>. QED
    BY <2>1 DEF OpenBlocksAwaited, Done
<1>. QED
  BY <1>3, <1>4, <1>5, <1>6, <1>7, <1>8, <1>9 DEF IInv

\* What the frame on top of the stack holds.
LEMMA TopFacts ==
  ASSUME IInv, frames # << >>, Top.kind # "fun"
  PROVE  /\ Top \in Frame /\ Top = frames[Len(frames)] /\ Len(frames) \in DOMAIN frames
         /\ Top.cont \in Block \cup {NoBlock} /\ Top.other \in Block \cup {NoBlock}
         /\ Top.other # NoBlock <=> Top.kind \in {"if", "then", "cond", "body"}
         /\ Top.cont # NoBlock <=> Top.kind \in {"if", "then", "else", "body"}
         /\ Top.other < nextBlock /\ Top.cont < nextBlock /\ Top.other # Top.cont
         /\ Top.cont \in Awaited
         /\ AwaitedBy(Top) \subseteq Awaited
<1>. BuilderTypeOK /\ FrameShape
  BY DEF IInv
<1>1. Top \in Frame /\ Top = frames[Len(frames)] /\ Len(frames) \in DOMAIN frames
  BY BelowFacts
<1>2. Top.cont \in Block \cup {NoBlock} /\ Top.other \in Block \cup {NoBlock}
  BY <1>1, FrameFacts
<1>3. WellFormed(Top) /\ Top.other < nextBlock /\ Top.cont < nextBlock
  BY <1>1 DEF FrameShape
<1>4. AwaitedBy(Top) \subseteq Awaited
  BY <1>1 DEF Awaited
<1>5. Top.cont \in AwaitedBy(Top)
  BY DEF AwaitedBy
<1>. QED
  BY <1>1, <1>2, <1>3, <1>4, <1>5 DEF WellFormed

\* The visitors that leave a statement keep the invariant.
LEMMA LeaveElseKeeps == IInv /\ LeaveElse => IInv'
<1>. SUFFICES ASSUME IInv, LeaveElse PROVE IInv'
  OBVIOUS
<1>1. /\ frames # << >> /\ Top.kind = "else" /\ frames' = Below /\ nextBlock' = nextBlock
      /\ pre' = BrPre(Top.cont) /\ succ' = BrSucc(Top.cont) /\ code' = BrCode(Top.cont)
      /\ insert' = Top.cont /\ tmp' = Opaque /\ bbs' = bbs /\ nextInstr' = nextInstr
  BY DEF LeaveElse, InFrame
<1>2. Top.cont \in Block /\ Top.cont \in Awaited /\ AwaitedBy(Top) = {Top.cont}
      /\ Top.cont < nextBlock /\ Top.cont # NoBlock
  BY <1>1, TopFacts DEF AwaitedBy
<1>3. /\ frames' \in Seq(Frame) /\ frames' # << >>
      /\ FrameShape' /\ FramesApart' /\ ~InFrame("cond")'
      /\ Awaited = Awaited' \cup AwaitedBy(Top)
      /\ AwaitedBy(Top) \cap Awaited' \subseteq {NoBlock}
      /\ \A i \in DOMAIN frames' :
           /\ i \in DOMAIN frames /\ frames'[i] = frames[i]
           /\ Top.cont # NoBlock => frames'[i].other # Top.cont
  BY <1>1, PopStep DEF IInv
<1>. QED
  <2>1. /\ Top.cont \notin Awaited' /\ Awaited' \subseteq Awaited \cup {NoBlock}
        /\ \A b \in Awaited : b \in Awaited' \/ b = Top.cont \/ b \notin bbs'
        /\ \A i \in DOMAIN frames' : frames'[i].kind = "if" =>
             /\ i \in DOMAIN frames /\ frames'[i] = frames[i]
             /\ frames[i].other # Top.cont
    BY <1>2, <1>3
  <2>. QED
    BY <1>1, <1>2, <1>3, <2>1, LeaveStep

\* The end of a loop body branches back to the header, and keeps it.
LEMMA LeaveBodyKeeps == IInv /\ LeaveBody => IInv'
<1>. SUFFICES ASSUME IInv, LeaveBody PROVE IInv'
  OBVIOUS
<1>1. /\ frames # << >> /\ Top.kind = "body" /\ frames' = Below /\ nextBlock' = nextBlock
      /\ pre' = BrPre(Top.other) /\ succ' = BrSucc(Top.other) /\ code' = BrCode(Top.other)
      /\ insert' = Top.cont /\ tmp' = Opaque /\ bbs' = bbs /\ nextInstr' = nextInstr
  BY DEF LeaveBody, InFrame
<1>2. /\ Top.cont \in Block /\ Top.cont \in Awaited /\ AwaitedBy(Top) = {Top.cont}
      /\ Top.other \in Block /\ Top.other # NoBlock /\ Top.other < nextBlock /\ Top.cont # NoBlock
  BY <1>1, TopFacts DEF AwaitedBy
<1>3. /\ frames' \in Seq(Frame) /\ frames' # << >>
      /\ FrameShape' /\ FramesApart' /\ ~InFrame("cond")'
      /\ Awaited = Awaited' \cup AwaitedBy(Top)
      /\ AwaitedBy(Top) \cap Awaited' \subseteq {NoBlock}
      /\ \A i \in DOMAIN frames' :
           /\ i \in DOMAIN frames /\ frames'[i] = frames[i]
           /\ Top.other # NoBlock => frames'[i].other # Top.other
  BY <1>1, PopStep DEF IInv
<1>. QED
  <2>1. /\ Top.cont \notin Awaited' /\ Awaited' \subseteq Awaited \cup {NoBlock}
        /\ \A b \in Awaited : b \in Awaited' \/ b = Top.cont \/ b \notin bbs'
        /\ \A i \in DOMAIN frames' : frames'[i].kind = "if" =>
             /\ i \in DOMAIN frames /\ frames'[i] = frames[i]
             /\ frames[i].other # Top.other
    BY <1>2, <1>3
  <2>. QED
    BY <1>1, <1>2, <1>3, <2>1, LeaveStep

\* The end of a selection without else erases a block that nobody uses.
LEMMA LeaveIfKeeps == IInv /\ LeaveIf => IInv'
<1>. SUFFICES ASSUME IInv, LeaveIf PROVE IInv'
  OBVIOUS
<1>1. /\ frames # << >> /\ Top.kind = "if" /\ frames' = Below /\ nextBlock' = nextBlock
      /\ bbs' = bbs \ {Top.other}
      /\ pre' = Unlink(BrPre(Top.cont), Succs(Top.other), Top.other)
      /\ succ' = Unlink(BrSucc(Top.cont), Preds(Top.other), Top.other)
      /\ code' = BrCode(Top.cont)
      /\ insert' = Top.cont /\ tmp' = Opaque /\ nextInstr' = nextInstr
  BY DEF LeaveIf, InFrame
<1>2. /\ Top.cont \in Block /\ Top.cont \in Awaited /\ AwaitedBy(Top) = {Top.cont, Top.other}
      /\ Top.other \in Block /\ Top.other # NoBlock /\ Top.cont < nextBlock
      /\ Top.cont # NoBlock /\ Top.other \in Awaited
      /\ Top = frames[Len(frames)] /\ Len(frames) \in DOMAIN frames
  BY <1>1, TopFacts DEF AwaitedBy
<1>3. /\ frames' \in Seq(Frame) /\ frames' # << >>
      /\ FrameShape' /\ FramesApart' /\ ~InFrame("cond")'
      /\ Awaited = Awaited' \cup AwaitedBy(Top)
      /\ AwaitedBy(Top) \cap Awaited' \subseteq {NoBlock}
      /\ \A i \in DOMAIN frames' :
           /\ i \in DOMAIN frames /\ frames'[i] = frames[i]
           /\ Top.cont # NoBlock => frames'[i].other # Top.cont
  BY <1>1, PopStep DEF IInv
<1>4. pre[Top.other] = << >> /\ succ[Top.other] = << >>
  BY <1>1, <1>2 DEF IInv, AwaitedBlank
<1>5. Succs(Top.other) = {} /\ Preds(Top.other) = {}
  BY <1>4 DEF Succs, Preds, Range
<1>6. \A lists \in [Block -> Seq(Block)] : Unlink(lists, {}, Top.other) = lists
  BY DEF Unlink
<1>7. pre' = BrPre(Top.cont) /\ succ' = BrSucc(Top.cont)
  <2>1. BrPre(Top.cont) \in [Block -> Seq(Block)] /\ BrSucc(Top.cont) \in [Block -> Seq(Block)]
    BY <1>2, BranchStep DEF IInv
  <2>. QED
    BY <1>1, <1>5, <1>6, <2>1
<1>. QED
  <2>1. /\ Top.cont \notin Awaited' /\ Awaited' \subseteq Awaited \cup {NoBlock}
        /\ \A b \in Awaited : b \in Awaited' \/ b = Top.cont \/ b \notin bbs'
        /\ \A i \in DOMAIN frames' : frames'[i].kind = "if" =>
             /\ i \in DOMAIN frames /\ frames'[i] = frames[i]
             /\ frames[i].other # Top.cont
    BY <1>1, <1>2, <1>3
  <2>2. bbs' \subseteq bbs
    BY <1>1
  <2>. QED
    BY <1>1, <1>2, <1>3, <1>7, <2>1, <2>2, LeaveStep

\* The end of a first branch makes the awaited falseBB the insert point.
LEMMA LeaveThenKeeps == IInv /\ LeaveThen => IInv'
<1>. SUFFICES ASSUME IInv, LeaveThen PROVE IInv'
  OBVIOUS
<1>. DEFINE f == Frm("else", NoBlock, Top.cont)
<1>1. /\ frames # << >> /\ Top.kind = "then" /\ frames' = Append(Below, f)
      /\ nextBlock' = nextBlock /\ bbs' = bbs
      /\ pre' = BrPre(Top.cont) /\ succ' = BrSucc(Top.cont) /\ code' = BrCode(Top.cont)
      /\ insert' = Top.other /\ tmp' = Opaque /\ nextInstr' = nextInstr
  BY DEF LeaveThen, InFrame
<1>2. /\ Top.cont \in Block /\ AwaitedBy(Top) = {Top.cont, Top.other}
      /\ Top.other \in Block /\ Top.other # NoBlock /\ Top.other \in Awaited
      /\ Top.cont < nextBlock /\ Top.cont # NoBlock /\ Top.other # Top.cont
      /\ nextBlock \in Nat
      /\ Top.cont \in Awaited
  <2>1. /\ Top.cont \in Block \cup {NoBlock} /\ Top.other \in Block \cup {NoBlock}
        /\ Top.other # NoBlock /\ Top.cont # NoBlock
        /\ Top.cont < nextBlock /\ Top.other # Top.cont
        /\ Top.cont \in Awaited /\ AwaitedBy(Top) \subseteq Awaited
    BY <1>1, TopFacts
  <2>2. AwaitedBy(Top) = {Top.cont, Top.other}
    BY <1>1, <2>1 DEF AwaitedBy
  <2>3. nextBlock \in Nat
    BY DEF IInv, BuilderTypeOK
  <2>. QED
    BY <2>1, <2>2, <2>3
<1>3. /\ f \in Frame /\ f.kind = "else" /\ f.other = NoBlock /\ f.cont = Top.cont
  BY <1>2 DEF Frm, Frame
<1>. HIDE DEF f
<1>4. /\ frames' \in Seq(Frame) /\ frames' # << >>
      /\ FrameShape' /\ FramesApart' /\ ~InFrame("cond")'
      /\ Awaited \subseteq Awaited' \cup AwaitedBy(Top)
      /\ Awaited' \subseteq Awaited \cup {f.cont}
      /\ AwaitedBy(Top) \cap Awaited' \subseteq {NoBlock, f.cont}
      /\ f.cont \in Awaited'
      /\ \A i \in DOMAIN frames' : frames'[i].kind = "if" =>
           /\ i \in DOMAIN frames /\ frames'[i] = frames[i]
           /\ Top.cont # NoBlock => frames'[i].other # Top.cont
  <2>1. Replaced(f)
    BY <1>1, <1>3, AppendIsReplaced DEF IInv
  <2>2. BuilderTypeOK /\ FrameShape /\ FramesApart
    BY DEF IInv
  <2>3. nextBlock' \in Nat /\ nextBlock <= nextBlock' /\ f.cont \in Block
        /\ f.cont < nextBlock' /\ f.other # f.cont
    BY <1>1, <1>2, <1>3
  <2>. QED
    BY <1>1, <1>3, <2>1, <2>2, <2>3, ReplaceStep
<1>. QED
  <2>1. /\ Top.other \notin Awaited' /\ Awaited' \subseteq Awaited \cup {NoBlock}
        /\ \A b \in Awaited : b \in Awaited' \/ b = Top.other \/ b \notin bbs'
        /\ \A i \in DOMAIN frames' : frames'[i].kind = "if" =>
             /\ i \in DOMAIN frames /\ frames'[i] = frames[i]
             /\ frames[i].other # Top.cont
    BY <1>2, <1>3, <1>4
  <2>2. bbs' \subseteq bbs
    BY <1>1
  <2>. QED
    BY <1>1, <1>2, <1>4, <2>1, <2>2, LeaveStep
----------------------------------------------------------------------------
(* The steps that create blocks: the insert block gets its branch and the   *)
(* insert point goes to a new block.                                        *)
EntersBlocks ==
  /\ nextBlock' \in 2..MaxBlocks + 1 /\ nextBlock <= nextBlock'
  /\ insert' \in Block /\ nextBlock <= insert' /\ insert' < nextBlock'
  /\ \A b \in bbs' : b \in bbs \/ (b \in Block /\ b >= nextBlock /\ b < nextBlock')
  /\ nextInstr' = nextInstr /\ tmp' = Opaque

EntersCode ==
  /\ code' \in [Block -> Seq(Instr)]
  /\ succ' \in [Block -> Seq(Block)] /\ pre' \in [Block -> Seq(Block)]
  /\ \A b \in Block : \A k \in 1..Len(code'[b]) - 1 : ~IsTerminator(code'[b][k])
  /\ Closed(code'[insert]) /\ ~Closed(code'[insert'])
  /\ \A b \in Block \ {insert} : b < nextBlock => code'[b] = code[b]
  /\ \A b \in Block \ {insert} : succ'[b] = succ[b]
  /\ \A b \in Block : b < nextBlock => pre'[b] = pre[b]
  /\ \A b \in Block : b >= nextBlock' => code'[b] = code[b] /\ pre'[b] = pre[b]

EntersFrames ==
  /\ \A b \in bbs' : b >= nextBlock => b = insert' \/ Closed(code'[b]) \/ b \in Awaited'
  /\ \A b \in Awaited' \ {NoBlock} :
       b \in Awaited \/ (b \in Block /\ b >= nextBlock /\ b # insert' /\ code'[b] = << >>)
  /\ Awaited \ {NoBlock} \subseteq Awaited'
  /\ frames' \in Seq(Frame) /\ frames' # << >> /\ FrameShape' /\ FramesApart'
  /\ InFrame("cond")' => nextBlock' < MaxBlocks
  /\ \A i \in DOMAIN frames' : frames'[i].kind = "if" =>
       \/ i \in DOMAIN frames /\ frames'[i] = frames[i]
       \/ pre'[frames'[i].other] = << >>

\* A visitor that creates blocks and closes the insert block keeps the invariant.
LEMMA EnterStep ==
  ASSUME IInv, EntersBlocks, EntersCode, EntersFrames
  PROVE  IInv'
<1>. BuilderTypeOK /\ NoCodeAfterTerminator /\ FrameShape /\ RestBlank
  BY DEF IInv
<1>1. /\ insert \in Block /\ insert < nextBlock /\ nextBlock \in Nat /\ nextBlock' \in Nat
      /\ \A b \in Block : b \in Nat /\ b # NoBlock
      /\ bbs \subseteq Block
  BY BlockFacts DEF RestBlank, BuilderTypeOK, EntersBlocks
<1>2. \A b \in Block : b >= nextBlock =>
        b # insert /\ code[b] = << >> /\ succ[b] = << >> /\ pre[b] = << >> /\ succ'[b] = << >>
  <2>1. \A b \in Block : b >= nextBlock => b # insert
    BY <1>1
  <2>. QED
    BY <2>1 DEF RestBlank, EntersCode
<1>3. BuilderTypeOK'
  BY <1>1, OperandTypes DEF BuilderTypeOK, EntersBlocks, EntersCode, EntersFrames
<1>4. RestBlank'
  <2>1. \A b \in Block : b >= nextBlock' => b >= nextBlock
    BY <1>1 DEF EntersBlocks
  <2>2. insert' < nextBlock' /\ \A b \in bbs' : b < nextBlock'
    BY <1>1 DEF RestBlank, EntersBlocks
  <2>. QED
    BY <1>2, <2>1, <2>2 DEF RestBlank, EntersCode
<1>5. AwaitedBlank'
  <2>1. ASSUME NEW b \in Awaited' \ {NoBlock}
        PROVE  b # insert' /\ code'[b] = << >> /\ succ'[b] = << >>
    <3>1. CASE b \in Awaited
      <4>1. b \in Block /\ b < nextBlock /\ b # insert /\ code[b] = << >> /\ succ[b] = << >>
        BY <2>1, <3>1, AwaitedFacts DEF IInv, AwaitedBlank
      <4>2. nextBlock <= insert' /\ insert' \in Block
        BY DEF EntersBlocks
      <4>3. code'[b] = code[b] /\ succ'[b] = succ[b]
        BY <4>1 DEF EntersCode
      <4>. QED
        BY <1>1, <4>1, <4>2, <4>3
    <3>2. CASE b \in Block /\ b >= nextBlock /\ b # insert' /\ code'[b] = << >>
      BY <1>2, <3>2
    <3>. QED
      BY <2>1, <3>1, <3>2 DEF EntersFrames
  <2>2. ASSUME NEW i \in DOMAIN frames', frames'[i].kind = "if"
        PROVE  pre'[frames'[i].other] = << >>
    <3>1. CASE i \in DOMAIN frames /\ frames'[i] = frames[i]
      <4>1. /\ frames[i].other \in Block /\ frames[i].other < nextBlock
            /\ pre[frames[i].other] = << >>
        BY <2>2, <3>1, FrameFacts DEF IInv, AwaitedBlank, FrameShape, WellFormed
      <4>. QED
        BY <3>1, <4>1 DEF EntersCode
    <3>. QED
      BY <2>2, <3>1 DEF EntersFrames
  <2>. QED
    BY <2>1, <2>2 DEF AwaitedBlank
<1>6. ConditionOpen'
  BY DEF ConditionOpen, Terminated, Closed, EntersCode, EntersFrames
<1>7. DoneTerminated'
  BY DEF DoneTerminated, Done, EntersFrames
<1>8. NoCodeAfterTerminator'
  BY DEF NoCodeAfterTerminator, EntersCode
<1>9. OpenBlocksAwaited'
  <2>1. ASSUME NEW b \in bbs'
        PROVE  Terminated(b)' \/ b = insert' \/ b \in Awaited'
    <3>1. CASE b >= nextBlock
      BY <2>1, <3>1 DEF Terminated, Closed, EntersFrames
    <3>2. CASE b \in bbs /\ b < nextBlock
      <4>1. b \in Block /\ b # NoBlock /\ (Terminated(b) \/ b = insert \/ b \in Awaited)
        BY <1>1, <3>2 DEF IInv, OpenBlocksAwaited
      <4>2. CASE b = insert
        BY <4>2 DEF Terminated, Closed, EntersCode
      <4>3. CASE b # insert /\ Terminated(b)
        BY <3>2, <4>1, <4>3 DEF Terminated, EntersCode
      <4>4. CASE b \in Awaited
        BY <4>1, <4>4 DEF EntersFrames
      <4>. QED
        BY <4>1, <4>2, <4>3, <4>4
    <3>. QED
      BY <1>1, <2>1, <3>1, <3>2 DEF EntersBlocks, RestBlank
  <2>. QED
    BY <2>1 DEF OpenBlocksAwaited, Done, EntersFrames
<1>10. FrameShape' /\ FramesApart'
  BY DEF EntersFrames
<1>. QED
  BY <1>3, <1>4, <1>5, <1>6, <1>7, <1>8, <1>9, <1>10 DEF IInv

\* The blocks not created yet, and the room there is for them.
LEMMA FreshFacts ==
  ASSUME IInv
  PROVE  /\ nextBlock \in Nat /\ nextBlock >= 2 /\ insert \in Block /\ insert < nextBlock
         /\ code \in [Block -> Seq(Instr)]
         /\ succ \in [Block -> Seq(Block)] /\ pre \in [Block -> Seq(Block)]
         /\ tmp \in Operand
         /\ \A b \in Block : b >= nextBlock =>
              b # insert /\ code[b] = << >> /\ succ[b] = << >> /\ pre[b] = << >>
<1>1. nextBlock \in Nat /\ nextBlock >= 2 /\ insert \in Block /\ insert < nextBlock
  BY BlockFacts DEF IInv, RestBlank, BuilderTypeOK
<1>2. \A b \in Block : b >= nextBlock => b # insert
  BY <1>1, BlockFacts
<1>. QED
  BY <1>1, <1>2 DEF IInv, RestBlank, BuilderTypeOK

\* What the bounds leave room for.
LEMMA FitsFacts ==
  ASSUME IInv, NEW n \in Nat, Fits(n, 0)
  PROVE  /\ nextBlock + n <= MaxBlocks + 1
         /\ InFrame("cond") => nextBlock + n + 2 <= MaxBlocks + 1
         /\ \A k \in Nat : k < n => nextBlock + k \in Block
<1>1. /\ nextBlock + n <= MaxBlocks + 1
      /\ InFrame("cond") => nextBlock + n + 2 <= MaxBlocks + 1
  <2>1. nextBlock \in Nat /\ MaxBlocks \in Nat
    BY FreshFacts, BlockFacts
  <2>2. nextBlock + n + (IF InFrame("cond") THEN 2 ELSE 0) <= MaxBlocks + 1
    BY DEF Fits
  <2>3. CASE InFrame("cond")
    BY <2>1, <2>2, <2>3
  <2>4. CASE ~InFrame("cond")
    BY <2>1, <2>2, <2>4
  <2>. QED
    BY <2>3, <2>4
<1>2. \A k \in Nat : k < n => nextBlock + k \in Block
  BY <1>1, FreshFacts, BlockFacts
<1>. QED
  BY <1>1, <1>2

\* A loop starts: its header is the insert point and nothing is awaited for it.
LEMMA EnterIterationKeeps == IInv /\ EnterIteration => IInv'
<1>. SUFFICES ASSUME IInv, EnterIteration PROVE IInv'
  OBVIOUS
<1>. DEFINE f == Frm("cond", nextBlock, NoBlock)
<1>1. /\ frames # << >> /\ ~InFrame("cond") /\ Fits(3, 0)
      /\ bbs' = bbs \cup {nextBlock}
      /\ pre' = BrPre(nextBlock) /\ succ' = BrSucc(nextBlock) /\ code' = BrCode(nextBlock)
      /\ insert' = nextBlock /\ frames' = Append(frames, f) /\ tmp' = Opaque
      /\ nextBlock' = nextBlock + 1 /\ nextInstr' = nextInstr
  BY DEF EnterIteration, Statement, Visiting, Done
<1>2. /\ nextBlock \in Nat /\ nextBlock >= 2 /\ MaxBlocks \in Nat
      /\ nextBlock + 3 <= MaxBlocks + 1 /\ nextBlock \in Block
      /\ insert \in Block /\ insert < nextBlock
      /\ \A b \in Block : b \in Nat /\ b # NoBlock
  <2>1. \A k \in Nat : k < 3 => nextBlock + k \in Block
    BY <1>1, FitsFacts
  <2>2. nextBlock + 0 \in Block
    BY <2>1
  <2>. QED
    BY <1>1, <2>2, FitsFacts, FreshFacts, BlockFacts
<1>3. EntersBlocks
  <2>1. nextBlock' \in 2..MaxBlocks + 1 /\ nextBlock < nextBlock'
    BY <1>1, <1>2
  <2>. QED
    BY <1>1, <1>2, <2>1 DEF EntersBlocks
<1>4. EntersCode
  <2>1. BuilderTypeOK /\ NoCodeAfterTerminator
    BY DEF IInv
  <2>2. /\ code' \in [Block -> Seq(Instr)]
        /\ succ' \in [Block -> Seq(Block)] /\ pre' \in [Block -> Seq(Block)]
        /\ \A b \in Block \ {insert} : code'[b] = code[b] /\ succ'[b] = succ[b]
        /\ \A b \in Block \ {nextBlock} : pre'[b] = pre[b]
        /\ Closed(code'[insert])
        /\ \A b \in Block : \A k \in 1..Len(code'[b]) - 1 : ~IsTerminator(code'[b][k])
    BY <1>1, <1>2, <2>1, BranchStep
  <2>3. ~Closed(code'[insert'])
    <3>1. code'[nextBlock] = code[nextBlock] /\ code[nextBlock] = << >>
      BY <1>2, <2>2, FreshFacts
    <3>. QED
      BY <1>1, <3>1 DEF Closed
  <2>4. \A b \in Block : b >= nextBlock' => b # nextBlock /\ b # insert
    <3>1. \A b \in Block : b >= nextBlock + 1 => b # nextBlock /\ b # insert
      BY <1>2
    <3>. QED
      BY <1>1, <3>1
  <2>5. \A b \in Block : b < nextBlock => b # nextBlock
    BY <1>2
  <2>. QED
    BY <2>2, <2>3, <2>4, <2>5 DEF EntersCode
<1>5. EntersFrames
  <2>1. f \in Frame /\ f.kind = "cond" /\ f.other = nextBlock /\ f.cont = NoBlock
    BY <1>2 DEF Frm, Frame
  <2>. HIDE DEF f
  <2>2. Pushed(f)
    BY <1>1, <2>1, AppendIsPushed DEF IInv
  <2>3. /\ BuilderTypeOK /\ FrameShape /\ FramesApart
        /\ nextBlock \in Nat /\ nextBlock' \in Nat /\ nextBlock <= nextBlock'
        /\ f.other >= nextBlock /\ f.other < nextBlock' /\ f.other # f.cont
        /\ f.cont < nextBlock' /\ nextBlock' < MaxBlocks
    <3>1. nextBlock' = nextBlock + 1
      BY <1>1
    <3>2. BuilderTypeOK /\ FrameShape /\ FramesApart
      BY DEF IInv
    <3>. QED
      BY <1>2, <2>1, <3>1, <3>2 DEF NoBlock
  <2>4. /\ frames' \in Seq(Frame) /\ frames' # << >>
        /\ FrameShape' /\ FramesApart' /\ (InFrame("cond")' <=> f.kind = "cond")
        /\ Awaited' = Awaited \cup AwaitedBy(f)
        /\ \A i \in DOMAIN frames' :
             \/ frames'[i] = f
             \/ i \in DOMAIN frames /\ frames'[i] = frames[i]
    BY <1>1, <2>1, <2>2, <2>3, PushStep
  <2>5. AwaitedBy(f) = {NoBlock}
    BY <2>1 DEF AwaitedBy
  <2>6. \A b \in bbs' : b >= nextBlock => b = insert'
    BY <1>1, FreshFacts, BlockFacts DEF IInv, RestBlank, BuilderTypeOK
  <2>. QED
    BY <2>1, <2>3, <2>4, <2>5, <2>6 DEF EntersFrames
<1>. QED
  BY <1>3, <1>4, <1>5, EnterStep

\* A conditional branch from the insert block to t and e: the lists of edges.
LEMMA LinkTwo ==
  ASSUME IInv, NEW t \in Block, NEW e \in Block,
         pre' = PushBack(PushBack(pre, t, insert), e, insert),
         succ' = PushBack(PushBack(succ, insert, e), insert, t)
  PROVE  /\ pre' \in [Block -> Seq(Block)] /\ succ' \in [Block -> Seq(Block)]
         /\ \A b \in Block \ {t, e} : pre'[b] = pre[b]
         /\ \A b \in Block \ {insert} : succ'[b] = succ[b]
<1>. DEFINE once == PushBack(pre, t, insert)
            back == PushBack(succ, insert, e)
<1>1. pre \in [Block -> Seq(Block)] /\ succ \in [Block -> Seq(Block)] /\ insert \in Block
  BY FreshFacts
<1>2. once \in [Block -> Seq(Block)] /\ \A b \in Block \ {t} : once[b] = pre[b]
  <2>1. PushBack(pre, t, insert) \in [Block -> Seq(Block)]
    BY <1>1, PushLink, ZenonT(40)
  <2>2. \A b \in Block \ {t} : PushBack(pre, t, insert)[b] = pre[b]
    BY <1>1, PushLink, ZenonT(40)
  <2>. QED
    BY <2>1, <2>2
<1>5. back \in [Block -> Seq(Block)] /\ \A b \in Block \ {insert} : back[b] = succ[b]
  BY <1>1, PushLink, ZenonT(40)
<1>3. pre' = PushBack(once, e, insert) /\ succ' = PushBack(back, insert, t)
  OBVIOUS
<1>. HIDE DEF once, back
<1>4. /\ PushBack(once, e, insert) \in [Block -> Seq(Block)]
      /\ PushBack(back, insert, t) \in [Block -> Seq(Block)]
      /\ \A b \in Block \ {e} : PushBack(once, e, insert)[b] = once[b]
      /\ \A b \in Block \ {insert} : PushBack(back, insert, t)[b] = back[b]
  <2>1. /\ PushBack(once, e, insert) \in [Block -> Seq(Block)]
        /\ \A b \in Block \ {e} : PushBack(once, e, insert)[b] = once[b]
    BY <1>1, <1>2, PushLink, ZenonT(40)
  <2>2. /\ PushBack(back, insert, t) \in [Block -> Seq(Block)]
        /\ \A b \in Block \ {insert} : PushBack(back, insert, t)[b] = back[b]
    BY <1>1, <1>5, PushLink, ZenonT(40)
  <2>. QED
    BY <2>1, <2>2
<1>. QED
  BY <1>2, <1>3, <1>4, <1>5

\* The insert block gets its terminator.
LEMMA CloseBlock ==
  ASSUME IInv, ~Terminated(insert), NEW i \in Instr, IsTerminator(i)
  PROVE  /\ PushBack(code, insert, i) \in [Block -> Seq(Instr)]
         /\ \A b \in Block \ {insert} : PushBack(code, insert, i)[b] = code[b]
         /\ Closed(PushBack(code, insert, i)[insert])
         /\ \A b \in Block : \A k \in 1..Len(PushBack(code, insert, i)[b]) - 1 :
              ~IsTerminator(PushBack(code, insert, i)[b][k])
<1>1. code \in [Block -> Seq(Instr)] /\ insert \in Block
  BY FreshFacts
<1>2. /\ PushBack(code, insert, i) \in [Block -> Seq(Instr)]
      /\ PushBack(code, insert, i)[insert] = Append(code[insert], i)
      /\ \A c \in Block \ {insert} : PushBack(code, insert, i)[c] = code[c]
  BY <1>1, PushCode
<1>3. /\ code[insert] \in Seq(Instr) /\ ~Closed(code[insert])
      /\ \A b \in Block : \A k \in 1..Len(code[b]) - 1 : ~IsTerminator(code[b][k])
  BY <1>1 DEF IInv, NoCodeAfterTerminator, Terminated, Closed
<1>4. /\ Closed(Append(code[insert], i))
      /\ \A k \in 1..Len(Append(code[insert], i)) - 1 : ~IsTerminator(Append(code[insert], i)[k])
  BY <1>1, <1>3, AppendCode
<1>. QED
  BY <1>2, <1>3, <1>4

\* A selection starts: the insert block is closed and two blocks are awaited.
LEMMA EnterSelectionKeeps ==
  ASSUME IInv, NEW hasElse \in BOOLEAN, EnterSelection(hasElse)
  PROVE  IInv'
<1>. DEFINE trueBB  == nextBlock
            falseBB == nextBlock + 1
            contBB  == nextBlock + 2
            other   == IF hasElse THEN falseBB ELSE contBB
            f       == Frm(IF hasElse THEN "then" ELSE "if", falseBB, contBB)
<1>1. /\ frames # << >> /\ ~InFrame("cond") /\ ~Terminated(insert) /\ Fits(3, 0)
      /\ bbs' = bbs \cup {trueBB, falseBB, contBB}
      /\ pre' = PushBack(PushBack(pre, trueBB, insert), other, insert)
      /\ succ' = PushBack(PushBack(succ, insert, other), insert, trueBB)
      /\ code' = PushBack(code, insert, CondBr(tmp, trueBB, other))
      /\ insert' = trueBB /\ frames' = Append(frames, f) /\ tmp' = Opaque
      /\ nextBlock' = nextBlock + 3 /\ nextInstr' = nextInstr
  BY DEF EnterSelection, Statement, Visiting, Done
<1>2. /\ nextBlock \in Nat /\ nextBlock >= 2 /\ MaxBlocks \in Nat
      /\ nextBlock + 3 <= MaxBlocks + 1
      /\ trueBB \in Block /\ falseBB \in Block /\ contBB \in Block
      /\ insert \in Block /\ insert < nextBlock
      /\ \A b \in Block : b \in Nat /\ b # NoBlock
  <2>1. \A k \in Nat : k < 3 => nextBlock + k \in Block
    BY <1>1, FitsFacts
  <2>2. nextBlock + 0 \in Block /\ nextBlock + 1 \in Block /\ nextBlock + 2 \in Block
    BY <2>1
  <2>. QED
    BY <1>1, <2>2, FitsFacts, FreshFacts, BlockFacts
<1>3. other \in Block /\ other >= nextBlock /\ other < nextBlock + 3 /\ other # trueBB
  BY <1>2
<1>. HIDE DEF other
<1>4. /\ \A b \in Block : b >= nextBlock + 3 => b \notin {trueBB, falseBB, contBB, other, insert}
      /\ \A b \in Block : b < nextBlock => b \notin {trueBB, falseBB, contBB, other}
  BY <1>2, <1>3
<1>8. /\ pre' \in [Block -> Seq(Block)] /\ succ' \in [Block -> Seq(Block)]
      /\ \A b \in Block \ {trueBB, other} : pre'[b] = pre[b]
      /\ \A b \in Block \ {insert} : succ'[b] = succ[b]
  BY <1>1, <1>2, <1>3, LinkTwo
<1>5. EntersBlocks
  <2>1. nextBlock' \in 2..MaxBlocks + 1 /\ nextBlock < nextBlock'
    BY <1>1, <1>2
  <2>2. \A b \in bbs' : b \in bbs \/ (b \in Block /\ b >= nextBlock /\ b < nextBlock + 3)
    BY <1>1, <1>2
  <2>. QED
    BY <1>1, <1>2, <2>1, <2>2 DEF EntersBlocks
<1>6. EntersCode
  <2>1. CondBr(tmp, trueBB, other) \in Instr /\ IsTerminator(CondBr(tmp, trueBB, other))
    BY <1>2, <1>3, InstrTypes, FreshFacts
  <2>2. /\ code' \in [Block -> Seq(Instr)]
        /\ \A b \in Block \ {insert} : code'[b] = code[b]
        /\ Closed(code'[insert])
        /\ \A b \in Block : \A k \in 1..Len(code'[b]) - 1 : ~IsTerminator(code'[b][k])
    BY <1>1, <2>1, CloseBlock
  <2>3. ~Closed(code'[insert'])
    <3>1. code'[trueBB] = code[trueBB] /\ code[trueBB] = << >>
      BY <1>2, <2>2, FreshFacts
    <3>. QED
      BY <1>1, <3>1 DEF Closed
  <2>. QED
    BY <1>1, <1>4, <1>8, <2>2, <2>3 DEF EntersCode
<1>7. EntersFrames
  <2>1. /\ f \in Frame /\ f.kind \in {"if", "then"} /\ (f.kind = "if" <=> ~hasElse)
        /\ f.other = falseBB /\ f.cont = contBB
    BY <1>2 DEF Frm, Frame
  <2>. HIDE DEF f
  <2>2. Pushed(f)
    BY <1>1, <2>1, AppendIsPushed DEF IInv
  <2>3. /\ BuilderTypeOK /\ FrameShape /\ FramesApart
        /\ nextBlock \in Nat /\ nextBlock' \in Nat /\ nextBlock <= nextBlock'
        /\ f.other >= nextBlock /\ f.other < nextBlock' /\ f.other # f.cont
        /\ f.cont >= nextBlock /\ f.cont < nextBlock' /\ f.cont # NoBlock
    <3>1. nextBlock' = nextBlock + 3
      BY <1>1
    <3>2. BuilderTypeOK /\ FrameShape /\ FramesApart
      BY DEF IInv
    <3>. QED
      BY <1>2, <2>1, <3>1, <3>2
  <2>4. /\ frames' \in Seq(Frame) /\ frames' # << >>
        /\ FrameShape' /\ FramesApart' /\ (InFrame("cond")' <=> f.kind = "cond")
        /\ Awaited' = Awaited \cup AwaitedBy(f)
        /\ \A i \in DOMAIN frames' :
             \/ frames'[i] = f
             \/ i \in DOMAIN frames /\ frames'[i] = frames[i]
    BY <1>1, <2>1, <2>2, <2>3, PushStep
  <2>5. AwaitedBy(f) = {contBB, falseBB}
    BY <2>1 DEF AwaitedBy
  <2>6. \A b \in bbs' : b >= nextBlock => b = insert' \/ b \in Awaited'
    <3>1. \A b \in bbs : b < nextBlock /\ b \in Nat
      BY <1>2 DEF IInv, RestBlank, BuilderTypeOK
    <3>. QED
      BY <1>1, <1>2, <2>4, <2>5, <3>1
  <2>7. code'[contBB] = << >> /\ code'[falseBB] = << >>
    <3>1. \A b \in Block \ {insert} : code'[b] = code[b]
      <4>1. CondBr(tmp, trueBB, other) \in Instr /\ IsTerminator(CondBr(tmp, trueBB, other))
        BY <1>2, <1>3, InstrTypes, FreshFacts
      <4>. QED
        BY <1>1, <4>1, CloseBlock
    <3>. QED
      BY <1>2, <3>1, FreshFacts
  <2>8. ~hasElse => pre'[falseBB] = << >>
    <3>1. ~hasElse => falseBB # trueBB /\ falseBB # other
      BY <1>2 DEF other
    <3>. QED
      BY <1>2, <1>8, <3>1, FreshFacts
  <2>9. \A b \in {contBB, falseBB} : b \in Block /\ b >= nextBlock /\ b # insert'
    BY <1>1, <1>2
  <2>. QED
    BY <2>1, <2>4, <2>5, <2>6, <2>7, <2>8, <2>9 DEF EntersFrames
<1>. QED
  BY <1>5, <1>6, <1>7, EnterStep

\* A loop condition ends: the insert block is closed and contBB is awaited.
LEMMA EnterBodyKeeps == IInv /\ EnterBody => IInv'
<1>. SUFFICES ASSUME IInv, EnterBody PROVE IInv'
  OBVIOUS
<1>. DEFINE trueBB == nextBlock
            contBB == nextBlock + 1
            f      == Frm("body", Top.other, contBB)
<1>1. /\ frames # << >> /\ InFrame("cond") /\ Top.kind = "cond"
      /\ bbs' = bbs \cup {trueBB, contBB}
      /\ pre' = PushBack(PushBack(pre, trueBB, insert), contBB, insert)
      /\ succ' = PushBack(PushBack(succ, insert, contBB), insert, trueBB)
      /\ code' = PushBack(code, insert, CondBr(tmp, trueBB, contBB))
      /\ insert' = trueBB /\ frames' = Append(Below, f) /\ tmp' = Opaque
      /\ nextBlock' = nextBlock + 2 /\ nextInstr' = nextInstr
  BY DEF EnterBody, InFrame
<1>2. /\ nextBlock \in Nat /\ nextBlock >= 2 /\ MaxBlocks \in Nat
      /\ nextBlock < MaxBlocks /\ ~Terminated(insert)
      /\ trueBB \in Block /\ contBB \in Block
      /\ insert \in Block /\ insert < nextBlock
      /\ \A b \in Block : b \in Nat /\ b # NoBlock
  <2>1. nextBlock < MaxBlocks /\ ~Terminated(insert)
    BY <1>1 DEF IInv, ConditionOpen
  <2>2. /\ nextBlock \in Nat /\ nextBlock >= 2 /\ MaxBlocks \in Nat
        /\ insert \in Block /\ insert < nextBlock
        /\ \A b \in Block : b \in Nat /\ b # NoBlock
    BY FreshFacts, BlockFacts
  <2>3. nextBlock \in Block /\ nextBlock + 1 \in Block
    BY <2>1, <2>2, BlockFacts
  <2>. QED
    BY <2>1, <2>2, <2>3
<1>3. /\ \A b \in Block : b >= nextBlock + 2 => b \notin {trueBB, contBB, insert}
      /\ \A b \in Block : b < nextBlock => b \notin {trueBB, contBB}
  BY <1>2
<1>4. /\ pre' \in [Block -> Seq(Block)] /\ succ' \in [Block -> Seq(Block)]
      /\ \A b \in Block \ {trueBB, contBB} : pre'[b] = pre[b]
      /\ \A b \in Block \ {insert} : succ'[b] = succ[b]
  BY <1>1, <1>2, LinkTwo
<1>5. /\ code' \in [Block -> Seq(Instr)]
      /\ \A b \in Block \ {insert} : code'[b] = code[b]
      /\ Closed(code'[insert])
      /\ \A b \in Block : \A k \in 1..Len(code'[b]) - 1 : ~IsTerminator(code'[b][k])
  <2>1. CondBr(tmp, trueBB, contBB) \in Instr /\ IsTerminator(CondBr(tmp, trueBB, contBB))
    BY <1>2, InstrTypes, FreshFacts
  <2>. QED
    BY <1>1, <1>2, <2>1, CloseBlock
<1>6. EntersBlocks
  <2>1. nextBlock' \in 2..MaxBlocks + 1 /\ nextBlock < nextBlock'
    BY <1>1, <1>2
  <2>2. \A b \in bbs' : b \in bbs \/ (b \in Block /\ b >= nextBlock /\ b < nextBlock + 2)
    BY <1>1, <1>2
  <2>. QED
    BY <1>1, <1>2, <2>1, <2>2 DEF EntersBlocks
<1>7. EntersCode
  <2>1. ~Closed(code'[insert'])
    <3>1. code'[trueBB] = code[trueBB] /\ code[trueBB] = << >>
      BY <1>2, <1>5, FreshFacts
    <3>. QED
      BY <1>1, <3>1 DEF Closed
  <2>. QED
    BY <1>1, <1>3, <1>4, <1>5, <2>1 DEF EntersCode
<1>8. EntersFrames
  <2>1. /\ Top.other \in Block /\ Top.other < nextBlock /\ Top.cont = NoBlock
        /\ Top.cont \in Awaited
    BY <1>1, TopFacts
  <2>2. /\ f \in Frame /\ f.kind = "body" /\ f.other = Top.other /\ f.cont = contBB
        /\ f.other # f.cont
    BY <1>2, <2>1 DEF Frm, Frame
  <2>. HIDE DEF f
  <2>3. Replaced(f)
    BY <1>1, <2>2, AppendIsReplaced DEF IInv
  <2>4. /\ BuilderTypeOK /\ FrameShape /\ FramesApart
        /\ nextBlock' \in Nat /\ nextBlock <= nextBlock'
        /\ f.cont \in Block /\ f.cont < nextBlock' /\ f.cont >= nextBlock
        /\ Top.other # NoBlock
    <3>1. nextBlock' = nextBlock + 2
      BY <1>1
    <3>2. BuilderTypeOK /\ FrameShape /\ FramesApart
      BY DEF IInv
    <3>3. f.cont = nextBlock + 1 /\ contBB \in Block
      BY <1>2, <2>2
    <3>4. nextBlock + 1 < nextBlock + 2 /\ nextBlock + 1 >= nextBlock
          /\ nextBlock + 2 \in Nat /\ nextBlock <= nextBlock + 2
      BY <1>2
    <3>5. Top.other # NoBlock
      BY <1>2, <2>1
    <3>. QED
      BY <3>1, <3>2, <3>3, <3>4, <3>5
  <2>5. /\ frames' \in Seq(Frame) /\ frames' # << >>
        /\ FrameShape' /\ FramesApart' /\ ~InFrame("cond")'
        /\ Awaited \subseteq Awaited' \cup AwaitedBy(Top)
        /\ Awaited' \subseteq Awaited \cup {f.cont}
        /\ f.cont \in Awaited'
        /\ \A i \in DOMAIN frames' : frames'[i].kind = "if" =>
             i \in DOMAIN frames /\ frames'[i] = frames[i]
    BY <1>1, <2>2, <2>3, <2>4, ReplaceStep
  <2>6. AwaitedBy(Top) = {NoBlock}
    BY <1>1, <2>1 DEF AwaitedBy
  <2>7. \A b \in bbs' : b >= nextBlock => b = insert' \/ b \in Awaited'
    <3>1. \A b \in bbs : b < nextBlock /\ b \in Nat
      BY <1>2 DEF IInv, RestBlank, BuilderTypeOK
    <3>. QED
      BY <1>1, <1>2, <2>2, <2>5, <3>1
  <2>8. contBB \in Block /\ contBB >= nextBlock /\ contBB # insert' /\ code'[contBB] = << >>
    <3>1. contBB # insert /\ contBB >= nextBlock /\ contBB # trueBB
      BY <1>2
    <3>. QED
      BY <1>1, <1>2, <1>5, <3>1, FreshFacts
  <2>. QED
    BY <2>2, <2>5, <2>6, <2>7, <2>8 DEF EntersFrames
<1>. QED
  BY <1>6, <1>7, <1>8, EnterStep

\* The array of an element is an operand, as its index is.
LEMMA ElementOperand ==
  ASSUME IInv, NEW base \in {Opaque} \cup ArraysOf(insert)
  PROVE  (IF base = Opaque THEN tmp ELSE base) \in Operand
<1>1. code[insert] \in Seq(Instr) /\ tmp \in Operand
  BY FreshFacts
<1>2. 0..MaxInstrs \subseteq Operand
  BY BoundsAssumption, OperandTypes DEF Result, Opaque
<1>3. ASSUME NEW i \in Range(code[insert]), i.op = "alloca"
      PROVE  Result(i.id) \in Operand
  <2>1. i \in Instr
    BY <1>1 DEF Range
  <2>2. i.id \in 0..MaxInstrs
    BY <1>3, <2>1 DEF Instr, Access, Branch, Other
  <2>. QED
    BY <1>2, <2>2 DEF Result
<1>. QED
  BY <1>1, <1>3 DEF ArraysOf

\* An index check splits the insert block; the block that reports the error
\* is complete at once.
LEMMA VisitIndexedVarKeeps ==
  ASSUME IInv, NEW base \in {Opaque} \cup ArraysOf(insert), VisitIndexedVar(base)
  PROVE  IInv'
<1>. DEFINE exceptBB == nextBlock
            contBB   == nextBlock + 1
            branch   == CondBr(tmp, exceptBB, contBB)
            error    == <<Call(Opaque, Opaque), Ret(Opaque)>>
            arg      == IF base = Opaque THEN tmp ELSE base
<1>1. /\ frames # << >> /\ ~Terminated(insert) /\ Fits(2, 0)
      /\ bbs' = bbs \cup {exceptBB, contBB}
      /\ pre' = PushBack(PushBack(pre, exceptBB, insert), contBB, insert)
      /\ succ' = PushBack(PushBack(succ, insert, contBB), insert, exceptBB)
      /\ code' = [code EXCEPT ![insert]   = Append(@, branch),
                              ![exceptBB] = error,
                              ![contBB]   = <<Elem(arg)>>]
      /\ insert' = contBB /\ frames' = frames /\ tmp' = Opaque
      /\ nextBlock' = nextBlock + 2 /\ nextInstr' = nextInstr
  BY DEF VisitIndexedVar, Visiting, Done
<1>2. /\ nextBlock \in Nat /\ nextBlock >= 2 /\ MaxBlocks \in Nat
      /\ nextBlock + 2 <= MaxBlocks + 1
      /\ InFrame("cond") => nextBlock + 4 <= MaxBlocks + 1
      /\ exceptBB \in Block /\ contBB \in Block
      /\ insert \in Block /\ insert < nextBlock
      /\ \A b \in Block : b \in Nat /\ b # NoBlock
  <2>1. /\ nextBlock + 2 <= MaxBlocks + 1
        /\ InFrame("cond") => nextBlock + 2 + 2 <= MaxBlocks + 1
        /\ \A k \in Nat : k < 2 => nextBlock + k \in Block
    BY <1>1, FitsFacts
  <2>2. nextBlock + 0 \in Block /\ nextBlock + 1 \in Block
    BY <2>1
  <2>3. nextBlock \in Nat /\ nextBlock >= 2 /\ insert \in Block /\ insert < nextBlock
    BY FreshFacts
  <2>4. MaxBlocks \in Nat /\ \A b \in Block : b \in Nat /\ b # NoBlock
    BY BlockFacts
  <2>. QED
    BY <2>1, <2>2, <2>3, <2>4
<1>3. /\ \A b \in Block : b >= nextBlock + 2 => b \notin {exceptBB, contBB, insert}
      /\ \A b \in Block : b < nextBlock => b \notin {exceptBB, contBB}
      /\ insert # exceptBB /\ insert # contBB /\ exceptBB # contBB
  BY <1>2
<1>4. /\ pre' \in [Block -> Seq(Block)] /\ succ' \in [Block -> Seq(Block)]
      /\ \A b \in Block \ {exceptBB, contBB} : pre'[b] = pre[b]
      /\ \A b \in Block \ {insert} : succ'[b] = succ[b]
  BY <1>1, <1>2, LinkTwo
<1>5. /\ branch \in Instr /\ IsTerminator(branch)
      /\ Elem(arg) \in Instr /\ ~IsTerminator(Elem(arg))
      /\ Call(Opaque, Opaque) \in Instr /\ ~IsTerminator(Call(Opaque, Opaque))
      /\ Ret(Opaque) \in Instr /\ IsTerminator(Ret(Opaque))
  <2>1. tmp \in Operand /\ Opaque \in Operand /\ arg \in Operand
    BY FreshFacts, OperandTypes, ElementOperand
  <2>. QED
    BY <1>2, <2>1, InstrTypes
<1>. HIDE DEF branch, arg
<1>6. /\ code' \in [Block -> Seq(Instr)]
      /\ code'[insert] = Append(code[insert], branch)
      /\ code'[exceptBB] = error /\ code'[contBB] = <<Elem(arg)>>
      /\ \A b \in Block \ {insert, exceptBB, contBB} : code'[b] = code[b]
  <2>1. code \in [Block -> Seq(Instr)] /\ code[insert] \in Seq(Instr)
    BY <1>2, FreshFacts
  <2>2. /\ Append(code[insert], branch) \in Seq(Instr)
        /\ error \in Seq(Instr) /\ <<Elem(arg)>> \in Seq(Instr)
    BY <1>5, <2>1
  <2>. HIDE DEF error, exceptBB, contBB
  <2>. QED
    BY <1>1, <1>2, <1>3, <2>1, <2>2
<1>7. /\ Closed(code'[insert]) /\ Closed(code'[exceptBB]) /\ ~Closed(code'[contBB])
      /\ \A b \in Block : \A k \in 1..Len(code'[b]) - 1 : ~IsTerminator(code'[b][k])
  <2>1. /\ code[insert] \in Seq(Instr) /\ ~Closed(code[insert])
        /\ \A b \in Block : \A k \in 1..Len(code[b]) - 1 : ~IsTerminator(code[b][k])
    BY <1>1, <1>2, FreshFacts DEF IInv, NoCodeAfterTerminator, Terminated, Closed
  <2>2. /\ Closed(Append(code[insert], branch))
        /\ \A k \in 1..Len(Append(code[insert], branch)) - 1 :
             ~IsTerminator(Append(code[insert], branch)[k])
    BY <1>2, <1>5, <2>1, AppendCode
  <2>3. Closed(error) /\ \A k \in 1..Len(error) - 1 : ~IsTerminator(error[k])
    <3>1. Len(error) = 2 /\ error[1] = Call(Opaque, Opaque) /\ error[2] = Ret(Opaque)
      OBVIOUS
    <3>. QED
      BY <1>5, <3>1 DEF Closed
  <2>4. /\ ~Closed(<<Elem(arg)>>)
        /\ \A k \in 1..Len(<<Elem(arg)>>) - 1 : ~IsTerminator(<<Elem(arg)>>[k])
    BY <1>5 DEF Closed
  <2>. HIDE DEF error, exceptBB, contBB
  <2>. QED
    BY <1>6, <2>1, <2>2, <2>3, <2>4
<1>8. EntersBlocks
  <2>1. nextBlock' \in 2..MaxBlocks + 1 /\ nextBlock < nextBlock'
    BY <1>1, <1>2
  <2>2. \A b \in bbs' : b \in bbs \/ (b \in Block /\ b >= nextBlock /\ b < nextBlock + 2)
    BY <1>1, <1>2
  <2>. QED
    BY <1>1, <1>2, <2>1, <2>2 DEF EntersBlocks
<1>9. EntersCode
  BY <1>1, <1>3, <1>4, <1>6, <1>7 DEF EntersCode
<1>10. EntersFrames
  <2>1. BuilderTypeOK /\ FrameShape /\ FramesApart /\ RestBlank
    BY DEF IInv
  <2>2. FrameShape'
    <3>1. \A i \in DOMAIN frames : frames[i].other \in Nat /\ frames[i].cont \in Nat
      <4>1. \A i \in DOMAIN frames : /\ frames[i].other \in Block \cup {NoBlock}
                                    /\ frames[i].cont \in Block \cup {NoBlock}
        BY <2>1, FrameFacts
      <4>2. Block \cup {NoBlock} \subseteq Nat
        BY <1>2 DEF NoBlock
      <4>. QED
        BY <4>1, <4>2
    <3>2. nextBlock' = nextBlock + 2 /\ frames' = frames
      BY <1>1
    <3>. QED
      BY <1>2, <2>1, <3>1, <3>2 DEF FrameShape
  <2>3. FramesApart' /\ Awaited' = Awaited
    BY <1>1, <2>1 DEF FramesApart, Awaited
  <2>4. InFrame("cond")' => nextBlock' < MaxBlocks
    BY <1>1, <1>2 DEF InFrame, Top
  <2>5. \A b \in bbs' : b >= nextBlock => b = insert' \/ Closed(code'[b])
    <3>1. \A b \in bbs : b < nextBlock /\ b \in Nat
      BY <1>2, <2>1 DEF RestBlank, BuilderTypeOK
    <3>. QED
      BY <1>1, <1>2, <1>7, <3>1
  <2>6. frames' \in Seq(Frame) /\ frames' # << >>
    BY <1>1, <2>1 DEF BuilderTypeOK
  <2>7. \A i \in DOMAIN frames' : i \in DOMAIN frames /\ frames'[i] = frames[i]
    BY <1>1
  <2>. QED
    BY <2>2, <2>3, <2>4, <2>5, <2>6, <2>7 DEF EntersFrames
<1>. QED
  BY <1>8, <1>9, <1>10, EnterStep

\* The function ends: only the insert block may lack a terminator, and gets it.
LEMMA LeaveFunctionKeeps == IInv /\ LeaveFunction => IInv'
<1>. SUFFICES ASSUME IInv, LeaveFunction PROVE IInv'
  OBVIOUS
<1>. USE DEF IInv
<1>1. /\ frames # << >> /\ Top.kind = "fun" /\ frames' = Below /\ tmp' = Opaque
      /\ code' = IF Terminated(insert) THEN code ELSE PushBack(code, insert, Ret(Opaque))
      /\ UNCHANGED <<bbs, pre, succ, insert, nextBlock, nextInstr>>
  BY DEF LeaveFunction, InFrame
<1>2. frames' = << >> /\ DOMAIN frames = {1} /\ frames[1] = Top
  <2>1. /\ Below \in Seq(Frame) /\ Len(Below) = Len(frames) - 1
        /\ Top = frames[Len(frames)] /\ Len(frames) \in DOMAIN frames
        /\ DOMAIN frames = 1..Len(frames)
    BY <1>1, BelowFacts, FrameFacts
  <2>2. Len(frames) = 1
    BY <1>1, <2>1 DEF FrameShape
  <2>. QED
    BY <1>1, <2>1, <2>2
<1>3. Awaited = {NoBlock} /\ Awaited' = {}
  <2>1. Top.cont = NoBlock
    BY <1>1, <1>2 DEF FrameShape, WellFormed
  <2>2. AwaitedBy(Top) = {NoBlock}
    BY <1>1, <2>1 DEF AwaitedBy
  <2>. QED
    BY <1>2, <2>2 DEF Awaited
<1>4. /\ code' \in [Block -> Seq(Instr)] /\ Closed(code'[insert])
      /\ \A b \in Block \ {insert} : code'[b] = code[b]
      /\ \A b \in Block : \A k \in 1..Len(code'[b]) - 1 : ~IsTerminator(code'[b][k])
  <2>1. CASE Terminated(insert)
    BY <1>1, <2>1 DEF BuilderTypeOK, NoCodeAfterTerminator, Terminated, Closed
  <2>2. CASE ~Terminated(insert)
    <3>1. Ret(Opaque) \in Instr /\ IsTerminator(Ret(Opaque))
      BY InstrTypes, OperandTypes
    <3>2. code' = PushBack(code, insert, Ret(Opaque))
      BY <1>1, <2>2
    <3>. QED
      BY <2>2, <3>1, <3>2, CloseBlock
  <2>. QED
    BY <2>1, <2>2
<1>5. BuilderTypeOK'
  BY <1>1, <1>2, <1>4, OperandTypes DEF BuilderTypeOK
<1>6. RestBlank'
  <2>1. \A b \in Block : b >= nextBlock => b # insert
    BY FreshFacts
  <2>. QED
    BY <1>1, <1>4, <2>1 DEF RestBlank
<1>7. FrameShape' /\ FramesApart' /\ AwaitedBlank' /\ ConditionOpen'
  BY <1>2, <1>3 DEF FrameShape, FramesApart, AwaitedBlank, ConditionOpen, InFrame
<1>8. DoneTerminated' /\ NoCodeAfterTerminator'
  BY <1>1, <1>4 DEF DoneTerminated, NoCodeAfterTerminator, Terminated, Closed
<1>9. OpenBlocksAwaited'
  <2>1. ASSUME NEW b \in bbs
        PROVE  Closed(code'[b])
    <3>1. b \in Block /\ b # NoBlock
      BY BlockFacts DEF BuilderTypeOK
    <3>2. b = insert \/ Closed(code[b])
      BY <1>3, <3>1 DEF OpenBlocksAwaited, Terminated, Closed
    <3>. QED
      BY <1>4, <3>1, <3>2
  <2>. QED
    BY <1>1, <2>1 DEF OpenBlocksAwaited, Terminated, Closed
<1>. QED
  BY <1>5, <1>6, <1>7, <1>8, <1>9
----------------------------------------------------------------------------
(***************************************************************************)
(* The visitors of expressions and of a return, then the whole builder.    *)
(***************************************************************************)

\* Room for one more instruction.
LEMMA InstrFacts ==
  ASSUME IInv, Fits(0, 1)
  PROVE  /\ nextInstr \in 1..MaxInstrs /\ nextInstr + 1 \in 1..MaxInstrs + 1
         /\ tmp \in Operand /\ Opaque \in Operand
         /\ Result(nextInstr) \in Operand /\ Literal(nextInstr) \in Operand
<1>1. nextInstr \in 1..MaxInstrs + 1 /\ MaxInstrs \in Nat
  BY BlockFacts DEF IInv, BuilderTypeOK
<1>2. nextInstr + 1 <= MaxInstrs + 1
  BY DEF Fits
<1>. QED
  BY <1>1, <1>2, FreshFacts, OperandTypes

\* A literal changes the operand only.
LEMMA VisitNumKeeps == IInv /\ VisitNum => IInv'
<1>. SUFFICES ASSUME IInv, VisitNum PROVE IInv'
  OBVIOUS
<1>1. /\ UNCHANGED <<graphVars, insert, frames, nextBlock, nextInstr>>
      /\ tmp' \in Operand
  BY InstrFacts DEF VisitNum
<1>2. UNCHANGED <<bbs, pre, succ, code, insert, frames, nextBlock, nextInstr>>
  BY <1>1 DEF graphVars
<1>3. BuilderTypeOK'
  BY <1>1, <1>2 DEF IInv, BuilderTypeOK
<1>4. RestBlank' /\ FrameShape' /\ FramesApart' /\ AwaitedBlank'
  BY <1>2 DEF IInv, RestBlank, FrameShape, FramesApart, AwaitedBlank, Awaited
<1>5. ConditionOpen' /\ DoneTerminated' /\ NoCodeAfterTerminator' /\ OpenBlocksAwaited'
  BY <1>2 DEF IInv, ConditionOpen, InFrame, Top, DoneTerminated, NoCodeAfterTerminator,
              OpenBlocksAwaited, Terminated, Done, Awaited
<1>. QED
  BY <1>3, <1>4, <1>5 DEF IInv

\* A load, a call, a store and a return are put into the open insert block.
LEMMA VisitVarKeeps == ASSUME IInv, NEW v \in Vars, VisitVar(v) PROVE IInv'
<1>1. /\ ~Done /\ ~Terminated(insert) /\ Fits(0, 1) /\ Emit(Load(nextInstr, v))
      /\ tmp' = Result(nextInstr) /\ nextInstr' = nextInstr + 1
  BY DEF VisitVar, Visiting
<1>2. Load(nextInstr, v) \in Instr /\ ~IsTerminator(Load(nextInstr, v))
  BY <1>1, InstrFacts, InstrTypes
<1>. QED
  BY <1>1, <1>2, InstrFacts, EmitStep

\* The same of a call, whose value may be dropped.
LEMMA VisitCallKeeps == ASSUME IInv, NEW dropped \in BOOLEAN, VisitCall(dropped) PROVE IInv'
<1>1. /\ ~Done /\ ~Terminated(insert) /\ Fits(0, 1) /\ Emit(Call(nextInstr, tmp))
      /\ tmp' \in {Opaque, Result(nextInstr)} /\ nextInstr' = nextInstr + 1
  BY DEF VisitCall, Visiting
<1>2. Call(nextInstr, tmp) \in Instr /\ ~IsTerminator(Call(nextInstr, tmp))
  <2>1. nextInstr \in 1..MaxInstrs /\ tmp \in Operand
    BY <1>1, InstrFacts
  <2>. QED
    BY <2>1, InstrTypes
<1>. QED
  BY <1>1, <1>2, InstrFacts, EmitStep

\* The same of the alloca of an array, which is not in a loop condition.
LEMMA VisitArrayDeclKeeps == IInv /\ VisitArrayDecl => IInv'
<1>. SUFFICES ASSUME IInv, VisitArrayDecl PROVE IInv'
  OBVIOUS
<1>1. /\ ~Done /\ ~Terminated(insert) /\ Fits(0, 1) /\ Emit(ArrayAlloca(nextInstr))
      /\ tmp' = Opaque /\ nextInstr' = nextInstr + 1
  BY DEF VisitArrayDecl, Statement, Visiting
<1>2. ArrayAlloca(nextInstr) \in Instr /\ ~IsTerminator(ArrayAlloca(nextInstr))
  BY <1>1, InstrFacts, InstrTypes
<1>. QED
  BY <1>1, <1>2, InstrFacts, EmitStep

\* The same of a store.
LEMMA VisitAssignKeeps ==
  ASSUME IInv, NEW v \in Vars, NEW dropped \in BOOLEAN, VisitAssign(v, dropped)
  PROVE  IInv'
<1>1. /\ ~Done /\ ~Terminated(insert) /\ Fits(0, 1) /\ Emit(Store(nextInstr, v, tmp))
      /\ tmp' \in {Opaque, tmp} /\ nextInstr' = nextInstr + 1
  BY DEF VisitAssign, Visiting
<1>2. Store(nextInstr, v, tmp) \in Instr /\ ~IsTerminator(Store(nextInstr, v, tmp))
  BY <1>1, InstrFacts, InstrTypes
<1>. QED
  BY <1>1, <1>2, InstrFacts, EmitStep

\* The same of a return, which is not in a loop condition.
LEMMA VisitReturnKeeps == IInv /\ VisitReturn => IInv'
<1>. SUFFICES ASSUME IInv, VisitReturn PROVE IInv'
  OBVIOUS
<1>1. /\ ~Done /\ ~Terminated(insert) /\ ~InFrame("cond") /\ Emit(Ret(tmp))
      /\ tmp' = Opaque /\ nextInstr' = nextInstr
  BY DEF VisitReturn, Statement, Visiting
<1>2. Ret(tmp) \in Instr /\ tmp' \in Operand /\ nextInstr' \in 1..MaxInstrs + 1
  BY <1>1, FreshFacts, OperandTypes, InstrTypes DEF IInv, BuilderTypeOK
<1>. QED
  BY <1>1, <1>2, EmitStep

\* The visitor of the function starts in the invariant.
LEMMA InitEstablishes == BuilderInit => IInv
<1>. SUFFICES ASSUME BuilderInit PROVE IInv
  OBVIOUS
<1>. DEFINE f == Frm("fun", NoBlock, NoBlock)
<1>1. /\ bbs = {1} /\ insert = 1 /\ tmp = Opaque /\ nextBlock = 2 /\ nextInstr = 1
      /\ pre = [b \in Block |-> << >>] /\ succ = [b \in Block |-> << >>]
      /\ code = [b \in Block |-> << >>] /\ frames = <<f>>
  BY DEF BuilderInit, Entry
<1>2. f \in Frame /\ f.kind = "fun" /\ f.other = NoBlock /\ f.cont = NoBlock
  BY DEF Frm, Frame
<1>. HIDE DEF f
<1>3. /\ frames \in Seq(Frame) /\ DOMAIN frames = {1} /\ frames[1] = f
      /\ Len(frames) = 1 /\ frames # << >>
  BY <1>1, <1>2
<1>4. 1 \in Block /\ MaxBlocks \in Nat \ {0} /\ MaxInstrs \in Nat
  BY BoundsAssumption DEF Block
<1>5. Awaited = {NoBlock}
  BY <1>2, <1>3 DEF Awaited, AwaitedBy
<1>6. BuilderTypeOK
  <2>1. << >> \in Seq(Block) /\ << >> \in Seq(Instr) /\ Opaque \in Operand
    BY OperandTypes
  <2>. QED
    BY <1>1, <1>3, <1>4, <2>1 DEF BuilderTypeOK
<1>7. RestBlank
  BY <1>1 DEF RestBlank
<1>8. FrameShape /\ FramesApart
  BY <1>1, <1>2, <1>3 DEF FrameShape, FramesApart, WellFormed, NoBlock
<1>9. AwaitedBlank
  BY <1>2, <1>3, <1>5 DEF AwaitedBlank
<1>10. ConditionOpen /\ DoneTerminated
  BY <1>2, <1>3 DEF ConditionOpen, DoneTerminated, InFrame, Top, Done
<1>11. NoCodeAfterTerminator
  BY <1>1 DEF NoCodeAfterTerminator
<1>12. OpenBlocksAwaited
  BY <1>1, <1>3 DEF OpenBlocksAwaited, Done
<1>. QED
  BY <1>6, <1>7, <1>8, <1>9, <1>10, <1>11, <1>12 DEF IInv

\* A step that changes nothing keeps the invariant.
LEMMA StutterKeeps == IInv /\ UNCHANGED builderAndGraph => IInv'
<1>. SUFFICES ASSUME IInv, UNCHANGED builderAndGraph PROVE IInv'
  OBVIOUS
<1>1. UNCHANGED <<bbs, pre, succ, code, insert, frames, tmp, nextBlock, nextInstr>>
  BY DEF builderAndGraph, graphVars, builderVars
<1>2. BuilderTypeOK'
  BY <1>1 DEF IInv, BuilderTypeOK
<1>3. RestBlank' /\ FrameShape' /\ FramesApart' /\ AwaitedBlank'
  BY <1>1 DEF IInv, RestBlank, FrameShape, FramesApart, AwaitedBlank, Awaited
<1>4. ConditionOpen' /\ DoneTerminated' /\ NoCodeAfterTerminator' /\ OpenBlocksAwaited'
  BY <1>1 DEF IInv, ConditionOpen, InFrame, Top, DoneTerminated, NoCodeAfterTerminator,
              OpenBlocksAwaited, Terminated, Done, Awaited
<1>. QED
  BY <1>2, <1>3, <1>4 DEF IInv

\* Every step of the builder keeps the invariant.
LEMMA NextKeeps == IInv /\ BuilderNext => IInv'
<1>. SUFFICES ASSUME IInv, BuilderNext PROVE IInv'
  OBVIOUS
<1>1. CASE VisitNum
  BY <1>1, VisitNumKeeps
<1>2. CASE \E v \in Vars : VisitVar(v)
  BY <1>2, VisitVarKeeps
<1>3. CASE \E v \in Vars, dropped \in BOOLEAN : VisitAssign(v, dropped)
  BY <1>3, VisitAssignKeeps
<1>4. CASE \E dropped \in BOOLEAN : VisitCall(dropped)
  BY <1>4, VisitCallKeeps
<1>5. CASE \E base \in {Opaque} \cup ArraysOf(insert) : VisitIndexedVar(base)
  BY <1>5, VisitIndexedVarKeeps
<1>6. CASE VisitReturn
  BY <1>6, VisitReturnKeeps
<1>7. CASE \E hasElse \in BOOLEAN : EnterSelection(hasElse)
  BY <1>7, EnterSelectionKeeps
<1>8. CASE LeaveIf \/ LeaveThen \/ LeaveElse
  BY <1>8, LeaveIfKeeps, LeaveThenKeeps, LeaveElseKeeps
<1>9. CASE EnterIteration \/ EnterBody \/ LeaveBody
  BY <1>9, EnterIterationKeeps, EnterBodyKeeps, LeaveBodyKeeps
<1>10. CASE LeaveFunction
  BY <1>10, LeaveFunctionKeeps
<1>11. CASE VisitArrayDecl
  BY <1>11, VisitArrayDeclKeeps
<1>. QED
  BY <1>1, <1>2, <1>3, <1>4, <1>5, <1>6, <1>7, <1>8, <1>9, <1>10, <1>11 DEF BuilderNext
----------------------------------------------------------------------------
\* The inductive invariant, for functions of any size and any nesting of
\* their statements (CminusfBuilder's visitors of statements).
THEOREM BuilderInvariant == BuilderSpec => []IInv
<1>1. IInv /\ [BuilderNext]_builderAndGraph => IInv'
  BY NextKeeps, StutterKeeps
<1>. QED
  BY InitEstablishes, <1>1, PTL DEF BuilderSpec

\* The builder's lists hold blocks and instructions only, and it never runs
\* past its bounds (the blocks and edges CminusfBuilder creates).
THEOREM BuilderTypeCorrect == BuilderSpec => []BuilderTypeOK
<1>1. IInv => BuilderTypeOK
  BY DEF IInv
<1>. QED
  BY BuilderInvariant, <1>1, PTL

\* No instruction is ever put after a branch or a return (the break of
\* CompoundStmt and the get_terminator checks of the enclosing statements).
THEOREM NeverCodeAfterTerminator == BuilderSpec => []NoCodeAfterTerminator
<1>1. IInv => NoCodeAfterTerminator
  BY DEF IInv
<1>. QED
  BY BuilderInvariant, <1>1, PTL

\* The blocks a visitor on the stack will come back to are blank and its own:
\* the falseBB that SelectionStmt erases has no users.
THEOREM VisitorsStayApart == BuilderSpec => []OpenStatementsApart
<1>1. IInv => OpenStatementsApart
  BY DEF IInv, OpenStatementsApart
<1>. QED
  BY BuilderInvariant, <1>1, PTL

\* Every block is terminated, being filled, or awaited by a visitor; all are
\* terminated when ASTFunDeclaration returns.
THEOREM NoBlockIsLost == BuilderSpec => []OpenBlocksAwaited
<1>1. IInv => OpenBlocksAwaited
  BY DEF IInv
<1>. QED
  BY BuilderInvariant, <1>1, PTL
----------------------------------------------------------------------------
(***************************************************************************)
(* THE NEIGHBOUR LISTS.  They say what the branches say                    *)
(* (EdgesMatchBranches).  This adds the edges to the inductive invariant.  *)
(***************************************************************************)

\* Successors and predecessors are inverse, and no edge is listed twice.
Mutual(p, s) ==
  /\ \A b, c \in Block : c \in Range(s[b]) <=> b \in Range(p[c])
  /\ \A b \in Block : IsInjective(s[b]) /\ IsInjective(p[b])

TargetsOf(is) == IF Closed(is) THEN Range(is[Len(is)].tgt) ELSE {}

\* The blocks that will be branched to, or from, are in the function's list.
FramesInList ==
  /\ insert \in bbs
  /\ \A i \in DOMAIN frames :
       /\ frames[i].other # NoBlock => frames[i].other \in bbs
       /\ frames[i].cont # NoBlock => frames[i].cont \in bbs

Edges ==
  /\ Mutual(pre, succ)
  /\ \A b, c \in Block : c \in Range(succ[b]) => b \in bbs /\ c \in bbs
  /\ \A b \in Block : Range(succ[b]) = TargetsOf(code[b])

EInv == IInv /\ FramesInList /\ Edges
----------------------------------------------------------------------------
\* An element at the end of a list.
LEMMA AppendRange ==
  ASSUME NEW S, NEW s \in Seq(S), NEW x \in S
  PROVE  /\ Range(Append(s, x)) = Range(s) \cup {x}
         /\ IsInjective(s) /\ x \notin Range(s) => IsInjective(Append(s, x))
<1>1. /\ Len(s) \in Nat /\ DOMAIN s = 1..Len(s)
      /\ DOMAIN Append(s, x) = 1..Len(s) + 1
      /\ \A i \in 1..Len(s) : Append(s, x)[i] = s[i]
      /\ Append(s, x)[Len(s) + 1] = x
  OBVIOUS
<1>2. \A i : i \in 1..Len(s) + 1 <=> i \in 1..Len(s) \/ i = Len(s) + 1
  BY <1>1
<1>3. Range(Append(s, x)) = Range(s) \cup {x}
  BY <1>1, <1>2 DEF Range
<1>4. ASSUME IsInjective(s), x \notin Range(s)
      PROVE  IsInjective(Append(s, x))
  BY <1>1, <1>2, <1>4 DEF Range, IsInjective
<1>. QED
  BY <1>3, <1>4

\* One more neighbour, t, of b.
LEMMA LinkRange ==
  ASSUME NEW s \in [Block -> Seq(Block)], NEW b \in Block, NEW t \in Block
  PROVE  \A x : x \in Range(PushBack(s, b, t)[b]) <=> x \in Range(s[b]) \/ x = t
<1>1. PushBack(s, b, t)[b] = Append(s[b], t)
  BY PushLink
<1>2. s[b] \in Seq(Block)
  OBVIOUS
<1>3. Range(Append(s[b], t)) = Range(s[b]) \cup {t}
  BY <1>2, AppendRange
<1>. QED
  BY <1>1, <1>3

\* One more edge, from b to t, in both lists.
LEMMA AddEdge ==
  ASSUME NEW p \in [Block -> Seq(Block)], NEW s \in [Block -> Seq(Block)], Mutual(p, s),
         NEW b \in Block, NEW t \in Block, t \notin Range(s[b])
  PROVE  /\ PushBack(p, t, b) \in [Block -> Seq(Block)]
         /\ PushBack(s, b, t) \in [Block -> Seq(Block)]
         /\ Mutual(PushBack(p, t, b), PushBack(s, b, t))
<1>. DEFINE q == PushBack(p, t, b)
            r == PushBack(s, b, t)
<1>1. /\ q \in [Block -> Seq(Block)] /\ q[t] = Append(p[t], b)
      /\ \A c \in Block \ {t} : q[c] = p[c]
  BY DEF PushBack
<1>2. /\ r \in [Block -> Seq(Block)] /\ r[b] = Append(s[b], t)
      /\ \A c \in Block \ {b} : r[c] = s[c]
  BY DEF PushBack
<1>3. b \notin Range(p[t])
  BY DEF Mutual
<1>4. p[t] \in Seq(Block) /\ s[b] \in Seq(Block)
  OBVIOUS
<1>5. /\ Range(q[t]) = Range(p[t]) \cup {b}
      /\ IsInjective(p[t]) => IsInjective(q[t])
  BY <1>1, <1>3, <1>4, AppendRange
<1>6. /\ Range(r[b]) = Range(s[b]) \cup {t}
      /\ IsInjective(s[b]) => IsInjective(r[b])
  BY <1>2, <1>4, AppendRange
<1>. HIDE DEF q, r
<1>7. \A c, d \in Block : d \in Range(r[c]) <=> d \in Range(s[c]) \/ (c = b /\ d = t)
  BY <1>2, <1>6
<1>8. \A c, d \in Block : c \in Range(q[d]) <=> c \in Range(p[d]) \/ (c = b /\ d = t)
  BY <1>1, <1>5
<1>9. \A c, d \in Block : d \in Range(r[c]) <=> c \in Range(q[d])
  BY <1>7, <1>8 DEF Mutual
<1>10. \A c \in Block : IsInjective(r[c]) /\ IsInjective(q[c])
  BY <1>1, <1>2, <1>5, <1>6 DEF Mutual
<1>11. Mutual(q, r)
  BY <1>9, <1>10 DEF Mutual
<1>. QED
  BY <1>1, <1>2, <1>6, <1>11 DEF q, r

\* The two neighbours a conditional branch gives b.
LEMMA LinkTwoRange ==
  ASSUME NEW s \in [Block -> Seq(Block)], NEW b \in Block, NEW t \in Block, NEW e \in Block
  PROVE  \A x : x \in Range(PushBack(PushBack(s, b, e), b, t)[b])
                  <=> x \in Range(s[b]) \/ x = t \/ x = e
<1>. DEFINE r == PushBack(s, b, e)
<1>1. r \in [Block -> Seq(Block)]
  BY PushLink
<1>2. \A x : x \in Range(r[b]) <=> x \in Range(s[b]) \/ x = e
  BY LinkRange
<1>. HIDE DEF r
<1>3. \A x : x \in Range(PushBack(r, b, t)[b]) <=> x \in Range(r[b]) \/ x = t
  BY <1>1, LinkRange
<1>. QED
  BY <1>2, <1>3 DEF r

\* The two edges of a conditional branch, in the order the visitors make them.
LEMMA AddTwoEdges ==
  ASSUME NEW p \in [Block -> Seq(Block)], NEW s \in [Block -> Seq(Block)], Mutual(p, s),
         NEW b \in Block, NEW t \in Block, NEW e \in Block, t # e, Range(s[b]) = {}
  PROVE  Mutual(PushBack(PushBack(p, t, b), e, b), PushBack(PushBack(s, b, e), b, t))
<1>. DEFINE q == PushBack(p, e, b)
            r == PushBack(s, b, e)
<1>1. e \notin Range(s[b])
  OBVIOUS
<1>2. q \in [Block -> Seq(Block)] /\ r \in [Block -> Seq(Block)] /\ Mutual(q, r)
  BY <1>1, AddEdge
<1>3. \A x : x \in Range(r[b]) <=> x \in Range(s[b]) \/ x = e
  BY LinkRange
<1>4. t \notin Range(r[b])
  BY <1>3
<1>5. PushBack(PushBack(p, t, b), e, b) = PushBack(q, t, b)
  BY DEF PushBack
<1>. HIDE DEF q, r
<1>6. Mutual(PushBack(q, t, b), PushBack(r, b, t))
  BY <1>2, <1>4, AddEdge
<1>. QED
  BY <1>5, <1>6 DEF r

\* EdgesMatchBranches is Edges, in the words of this module.
LEMMA EdgesAreEdges == BuilderTypeOK => (EdgesMatchBranches <=> Edges)
<1>. SUFFICES ASSUME BuilderTypeOK PROVE EdgesMatchBranches <=> Edges
  OBVIOUS
<1>1. \A b \in Block : Targets(b) = TargetsOf(code[b])
  BY DEF Targets, TargetsOf, Terminated, Closed
<1>2. \A b \in Block : Succs(b) \subseteq Block
  BY DEF BuilderTypeOK, Succs, Range
<1>. QED
  BY <1>1, <1>2 DEF EdgesMatchBranches, Edges, Mutual, Succs, Preds
----------------------------------------------------------------------------
(***************************************************************************)
(* The steps.  Only the insert block gets edges, and only when it has no   *)
(* terminator, hence no edges yet.                                         *)
(***************************************************************************)
\* A step that changes no other block's branch.
LEMMA EdgesStep ==
  ASSUME Edges, BuilderTypeOK, Mutual(pre', succ'),
         insert \in bbs', Range(succ'[insert]) = TargetsOf(code'[insert]),
         Range(succ'[insert]) \subseteq bbs',
         \A b, c \in Block : c \in Range(succ[b]) => b \in bbs' /\ c \in bbs',
         \A b \in Block \ {insert} :
           succ'[b] = succ[b] /\ TargetsOf(code'[b]) = TargetsOf(code[b])
  PROVE  Edges'
<1>1. \A b, c \in Block : c \in Range(succ'[b]) => b \in bbs' /\ c \in bbs'
  <2>. TAKE b \in Block, c \in Block
  <2>1. CASE b = insert
    BY <2>1
  <2>2. CASE b # insert
    BY <2>2
  <2>. QED
    BY <2>1, <2>2
<1>2. \A b \in Block : Range(succ'[b]) = TargetsOf(code'[b])
  <2>. TAKE b \in Block
  <2>1. CASE b = insert
    BY <2>1
  <2>2. CASE b # insert
    BY <2>2 DEF Edges
  <2>. QED
    BY <2>1, <2>2
<1>. QED
  BY <1>1, <1>2 DEF Edges

\* The targets of an instruction at the end of an open block.
LEMMA AppendTargets ==
  ASSUME NEW s \in Seq(Instr), NEW i \in Instr
  PROVE  TargetsOf(Append(s, i)) = IF IsTerminator(i) THEN Range(i.tgt) ELSE {}
<1>1. /\ Append(s, i) # << >> /\ Len(Append(s, i)) = Len(s) + 1
      /\ Append(s, i)[Len(s) + 1] = i
  OBVIOUS
<1>. QED
  BY <1>1 DEF TargetsOf, Closed

\* What the branches and returns that are created lead to.
LEMMA TargetFacts ==
  /\ TargetsOf(<< >>) = {}
  /\ \A t \in Block : Range(Br(t).tgt) = {t}
  /\ \A a \in Operand, t, f \in Block : Range(CondBr(a, t, f).tgt) = {t, f}
  /\ \A a \in Operand : Range(Ret(a).tgt) = {}
<1>1. \A t, f \in Block : Range(<<t>>) = {t} /\ Range(<<t, f>>) = {t, f}
  <2>. TAKE t \in Block, f \in Block
  <2>1. DOMAIN <<t>> = {1} /\ <<t>>[1] = t
    OBVIOUS
  <2>2. DOMAIN <<t, f>> = {1, 2} /\ <<t, f>>[1] = t /\ <<t, f>>[2] = f
    OBVIOUS
  <2>. QED
    BY <2>1, <2>2 DEF Range
<1>2. Range(<< >>) = {}
  BY DEF Range
<1>. QED
  BY <1>1, <1>2 DEF TargetsOf, Closed, Br, CondBr, Ret, Ins

\* A block without terminator has no edges.
LEMMA OpenBlock ==
  ASSUME EInv, ~Terminated(insert)
  PROVE  /\ Range(succ[insert]) = {} /\ ~Closed(code[insert]) /\ insert \in bbs
         /\ TargetsOf(code[insert]) = {}
<1>1. ~Closed(code[insert]) /\ insert \in Block
  BY FreshFacts DEF Terminated, Closed, EInv
<1>. QED
  BY <1>1 DEF EInv, Edges, FramesInList, TargetsOf

\* create_br(target) unless the insert block has a terminator.
LEMMA BranchEdges ==
  ASSUME EInv, NEW target \in Block, target \in bbs', insert \in bbs',
         code' = BrCode(target), succ' = BrSucc(target), pre' = BrPre(target),
         \A b, c \in Block : c \in Range(succ[b]) => b \in bbs' /\ c \in bbs'
  PROVE  Edges'
<1>1. /\ code \in [Block -> Seq(Instr)] /\ succ \in [Block -> Seq(Block)]
      /\ pre \in [Block -> Seq(Block)] /\ insert \in Block /\ BuilderTypeOK /\ Edges
  BY FreshFacts DEF EInv, IInv
<1>2. CASE Terminated(insert)
  <2>1. code' = code /\ succ' = succ /\ pre' = pre
    BY <1>2 DEF BrCode, BrSucc, BrPre
  <2>. QED
    BY <1>1, <2>1 DEF Edges
<1>3. CASE ~Terminated(insert)
  <2>1. /\ code' = PushBack(code, insert, Br(target))
        /\ succ' = PushBack(succ, insert, target)
        /\ pre' = PushBack(pre, target, insert)
    BY <1>3 DEF BrCode, BrSucc, BrPre
  <2>2. Range(succ[insert]) = {} /\ ~Closed(code[insert])
    BY <1>3, OpenBlock
  <2>3. Mutual(pre', succ')
    <3>1. target \notin Range(succ[insert]) /\ Mutual(pre, succ)
      BY <1>1, <2>2 DEF Edges
    <3>2. Mutual(PushBack(pre, target, insert), PushBack(succ, insert, target))
      BY <1>1, <3>1, AddEdge
    <3>. QED
      BY <2>1, <3>2
  <2>4. /\ Range(succ'[insert]) = {target}
        /\ \A c \in Block \ {insert} : succ'[c] = succ[c]
    <3>1. \A x : x \in Range(PushBack(succ, insert, target)[insert])
                   <=> x \in Range(succ[insert]) \/ x = target
      BY <1>1, LinkRange
    <3>2. \A c \in Block \ {insert} : PushBack(succ, insert, target)[c] = succ[c]
      <4>1. succ \in [Block -> Seq(Block)] /\ insert \in Block
        BY <1>1
      <4>. QED
        BY <4>1, PushLink
    <3>. QED
      BY <2>1, <2>2, <3>1, <3>2
  <2>5. Br(target) \in Instr /\ IsTerminator(Br(target))
    BY InstrTypes
  <2>6. /\ code'[insert] = Append(code[insert], Br(target))
        /\ \A c \in Block \ {insert} : code'[c] = code[c]
    <3>1. /\ PushBack(code, insert, Br(target))[insert] = Append(code[insert], Br(target))
          /\ \A c \in Block \ {insert} : PushBack(code, insert, Br(target))[c] = code[c]
      BY <1>1, <2>5, PushCode
    <3>. QED
      BY <2>1, <3>1
  <2>7. TargetsOf(code'[insert]) = {target}
    <3>1. code[insert] \in Seq(Instr)
      BY <1>1
    <3>2. TargetsOf(Append(code[insert], Br(target))) = Range(Br(target).tgt)
      BY <2>5, <3>1, AppendTargets
    <3>. QED
      BY <2>6, <3>2, TargetFacts
  <2>. QED
    BY <1>1, <2>3, <2>4, <2>6, <2>7, EdgesStep
<1>. QED
  BY <1>2, <1>3

\* A conditional branch at the end of the open insert block.
LEMMA CondBranchEdges ==
  ASSUME EInv, ~Terminated(insert), NEW t \in Block, NEW e \in Block, t # e,
         t \in bbs', e \in bbs', bbs \subseteq bbs',
         code' \in [Block -> Seq(Instr)],
         pre' = PushBack(PushBack(pre, t, insert), e, insert),
         succ' = PushBack(PushBack(succ, insert, e), insert, t),
         code'[insert] = Append(code[insert], CondBr(tmp, t, e)),
         \A b \in Block \ {insert} : TargetsOf(code'[b]) = TargetsOf(code[b])
  PROVE  Edges'
<1>1. /\ code \in [Block -> Seq(Instr)] /\ succ \in [Block -> Seq(Block)]
      /\ pre \in [Block -> Seq(Block)] /\ insert \in Block /\ tmp \in Operand
      /\ BuilderTypeOK /\ Edges /\ Mutual(pre, succ)
  BY FreshFacts DEF EInv, IInv, Edges
<1>2. Range(succ[insert]) = {} /\ insert \in bbs
  BY OpenBlock
<1>3. Mutual(pre', succ') /\ Range(succ'[insert]) = {t, e}
      /\ \A c \in Block \ {insert} : succ'[c] = succ[c]
  <2>1. Mutual(PushBack(PushBack(pre, t, insert), e, insert),
               PushBack(PushBack(succ, insert, e), insert, t))
    BY <1>1, <1>2, AddTwoEdges
  <2>2. \A x : x \in Range(PushBack(PushBack(succ, insert, e), insert, t)[insert])
                 <=> x \in Range(succ[insert]) \/ x = t \/ x = e
    BY <1>1, LinkTwoRange
  <2>3. \A c \in Block \ {insert} :
          PushBack(PushBack(succ, insert, e), insert, t)[c] = succ[c]
    BY <1>1 DEF PushBack
  <2>. QED
    BY <1>2, <2>1, <2>2, <2>3
<1>4. TargetsOf(code'[insert]) = {t, e}
  <2>1. CondBr(tmp, t, e) \in Instr /\ IsTerminator(CondBr(tmp, t, e))
    BY <1>1, InstrTypes
  <2>2. code[insert] \in Seq(Instr)
    BY <1>1
  <2>3. TargetsOf(Append(code[insert], CondBr(tmp, t, e))) = Range(CondBr(tmp, t, e).tgt)
    BY <2>1, <2>2, AppendTargets
  <2>4. \A a \in Operand, x, y \in Block : Range(CondBr(a, x, y).tgt) = {x, y}
    BY TargetFacts
  <2>5. Range(CondBr(tmp, t, e).tgt) = {t, e}
    BY <1>1, <2>4, ZenonT(20)
  <2>. QED
    BY <2>3, <2>5
<1>5. \A b, c \in Block : c \in Range(succ[b]) => b \in bbs' /\ c \in bbs'
  BY <1>1 DEF Edges
<1>. QED
  BY <1>1, <1>2, <1>3, <1>4, <1>5, EdgesStep
----------------------------------------------------------------------------
(***************************************************************************)
(* One lemma for each action.                                              *)
(***************************************************************************)
\* An instruction that is not a branch adds no edge.
LEMMA EmitEdges ==
  ASSUME EInv, ~Terminated(insert), NEW i \in Instr, Emit(i), IInv',
         IsTerminator(i) => Range(i.tgt) = {}
  PROVE  EInv'
<1>1. /\ code' = PushBack(code, insert, i)
      /\ bbs' = bbs /\ pre' = pre /\ succ' = succ /\ insert' = insert /\ frames' = frames
  BY DEF Emit
<1>2. FramesInList'
  BY <1>1 DEF EInv, FramesInList
<1>3. /\ code \in [Block -> Seq(Instr)] /\ insert \in Block /\ code[insert] \in Seq(Instr)
      /\ BuilderTypeOK /\ Edges
  BY FreshFacts DEF EInv, IInv
<1>4. /\ code'[insert] = Append(code[insert], i)
      /\ \A c \in Block \ {insert} : code'[c] = code[c]
  BY <1>1, <1>3 DEF PushBack
<1>5. TargetsOf(code'[insert]) = {}
  <2>1. TargetsOf(Append(code[insert], i)) = IF IsTerminator(i) THEN Range(i.tgt) ELSE {}
    BY <1>3, AppendTargets
  <2>. QED
    BY <1>4, <2>1
<1>6. Range(succ[insert]) = {} /\ insert \in bbs
  BY OpenBlock
<1>7. Edges'
  BY <1>1, <1>3, <1>4, <1>5, <1>6, EdgesStep DEF Edges
<1>. QED
  BY <1>2, <1>7 DEF EInv

\* A literal.
LEMMA VisitNumEdges == EInv /\ VisitNum => EInv'
<1>. SUFFICES ASSUME EInv, VisitNum PROVE EInv'
  OBVIOUS
<1>1. IInv'
  BY VisitNumKeeps DEF EInv
<1>2. UNCHANGED <<bbs, pre, succ, code, insert, frames>>
  BY DEF VisitNum, graphVars
<1>3. FramesInList' /\ Edges'
  BY <1>2 DEF EInv, FramesInList, Edges
<1>. QED
  BY <1>1, <1>3 DEF EInv

\* A load, a call and a store.
LEMMA VisitVarEdges == ASSUME EInv, NEW v \in Vars, VisitVar(v) PROVE EInv'
<1>1. IInv'
  BY VisitVarKeeps DEF EInv
<1>2. ~Terminated(insert) /\ Fits(0, 1) /\ Emit(Load(nextInstr, v))
  BY DEF VisitVar, Visiting
<1>3. Load(nextInstr, v) \in Instr /\ ~IsTerminator(Load(nextInstr, v))
  BY <1>2, InstrFacts, InstrTypes DEF EInv
<1>. QED
  BY <1>1, <1>2, <1>3, EmitEdges

\* The same of a call.
LEMMA VisitCallEdges == ASSUME EInv, NEW dropped \in BOOLEAN, VisitCall(dropped) PROVE EInv'
<1>1. IInv'
  BY VisitCallKeeps DEF EInv
<1>2. ~Terminated(insert) /\ Fits(0, 1) /\ Emit(Call(nextInstr, tmp))
  BY DEF VisitCall, Visiting
<1>3. Call(nextInstr, tmp) \in Instr /\ ~IsTerminator(Call(nextInstr, tmp))
  <2>1. nextInstr \in 1..MaxInstrs /\ tmp \in Operand
    BY <1>2, InstrFacts DEF EInv
  <2>. QED
    BY <2>1, InstrTypes
<1>. QED
  BY <1>1, <1>2, <1>3, EmitEdges

\* The same of the alloca of an array.
LEMMA VisitArrayDeclEdges == EInv /\ VisitArrayDecl => EInv'
<1>. SUFFICES ASSUME EInv, VisitArrayDecl PROVE EInv'
  OBVIOUS
<1>1. IInv'
  BY VisitArrayDeclKeeps DEF EInv
<1>2. ~Terminated(insert) /\ Fits(0, 1) /\ Emit(ArrayAlloca(nextInstr))
  BY DEF VisitArrayDecl, Statement, Visiting
<1>3. ArrayAlloca(nextInstr) \in Instr /\ ~IsTerminator(ArrayAlloca(nextInstr))
  BY <1>2, InstrFacts, InstrTypes DEF EInv
<1>. QED
  BY <1>1, <1>2, <1>3, EmitEdges

\* The same of a store.
LEMMA VisitAssignEdges ==
  ASSUME EInv, NEW v \in Vars, NEW dropped \in BOOLEAN, VisitAssign(v, dropped)
  PROVE  EInv'
<1>1. IInv'
  BY VisitAssignKeeps DEF EInv
<1>2. ~Terminated(insert) /\ Fits(0, 1) /\ Emit(Store(nextInstr, v, tmp))
  BY DEF VisitAssign, Visiting
<1>3. Store(nextInstr, v, tmp) \in Instr /\ ~IsTerminator(Store(nextInstr, v, tmp))
  BY <1>2, InstrFacts, InstrTypes DEF EInv
<1>. QED
  BY <1>1, <1>2, <1>3, EmitEdges

\* A return leads nowhere.
LEMMA VisitReturnEdges == EInv /\ VisitReturn => EInv'
<1>. SUFFICES ASSUME EInv, VisitReturn PROVE EInv'
  OBVIOUS
<1>1. IInv'
  BY VisitReturnKeeps DEF EInv
<1>2. ~Terminated(insert) /\ Emit(Ret(tmp))
  BY DEF VisitReturn, Statement, Visiting
<1>3. tmp \in Operand
  BY FreshFacts DEF EInv
<1>4. Ret(tmp) \in Instr /\ Range(Ret(tmp).tgt) = {}
  BY <1>3, InstrTypes, TargetFacts
<1>. QED
  BY <1>1, <1>2, <1>4, EmitEdges

\* The return that a function lacks.
LEMMA LeaveFunctionEdges == EInv /\ LeaveFunction => EInv'
<1>. SUFFICES ASSUME EInv, LeaveFunction PROVE EInv'
  OBVIOUS
<1>1. IInv'
  BY LeaveFunctionKeeps DEF EInv
<1>2. /\ frames # << >> /\ frames' = Below
      /\ code' = IF Terminated(insert) THEN code ELSE PushBack(code, insert, Ret(Opaque))
      /\ bbs' = bbs /\ pre' = pre /\ succ' = succ /\ insert' = insert
  BY DEF LeaveFunction, InFrame
<1>3. FramesInList'
  <2>1. \A i \in DOMAIN frames' : i \in DOMAIN frames /\ frames'[i] = frames[i]
    BY <1>2, BelowFacts, FrameFacts DEF EInv, IInv
  <2>. QED
    BY <1>2, <2>1 DEF EInv, FramesInList
<1>4. /\ code \in [Block -> Seq(Instr)] /\ insert \in Block /\ code[insert] \in Seq(Instr)
      /\ BuilderTypeOK /\ Edges
  BY FreshFacts DEF EInv, IInv
<1>5. Edges'
  <2>1. CASE Terminated(insert)
    BY <1>2, <2>1 DEF EInv, Edges
  <2>2. CASE ~Terminated(insert)
    <3>1. Ret(Opaque) \in Instr /\ Range(Ret(Opaque).tgt) = {}
      BY OperandTypes, InstrTypes, TargetFacts
    <3>2. /\ code'[insert] = Append(code[insert], Ret(Opaque))
          /\ \A c \in Block \ {insert} : code'[c] = code[c]
      BY <1>2, <1>4, <2>2 DEF PushBack
    <3>3. TargetsOf(code'[insert]) = {}
      <4>1. TargetsOf(Append(code[insert], Ret(Opaque)))
              = IF IsTerminator(Ret(Opaque)) THEN Range(Ret(Opaque).tgt) ELSE {}
        BY <1>4, <3>1, AppendTargets
      <4>. QED
        BY <3>1, <3>2, <4>1
    <3>4. Range(succ[insert]) = {} /\ insert \in bbs
      BY <2>2, OpenBlock
    <3>. QED
      BY <1>2, <1>4, <3>2, <3>3, <3>4, EdgesStep DEF Edges
  <2>. QED
    BY <2>1, <2>2
<1>. QED
  BY <1>1, <1>3, <1>5 DEF EInv

\* The visitors that leave a statement go to a block of the list.
LEMMA TopInList ==
  ASSUME EInv, frames # << >>, Top.kind # "fun"
  PROVE  /\ Top.cont # NoBlock => Top.cont \in bbs
         /\ Top.other # NoBlock => Top.other \in bbs
BY TopFacts DEF EInv, FramesInList

\* A visitor that returns, no block being erased.
LEMMA PopInList ==
  ASSUME EInv, frames # << >>, Top.kind # "fun", frames' = Below,
         insert' \in bbs, bbs' = bbs
  PROVE  FramesInList'
<1>1. \A i \in DOMAIN frames' : i \in DOMAIN frames /\ frames'[i] = frames[i]
  BY BelowFacts, FrameFacts DEF EInv, IInv
<1>. QED
  BY <1>1 DEF EInv, FramesInList

\* The end of a second branch.
LEMMA LeaveElseEdges == EInv /\ LeaveElse => EInv'
<1>. SUFFICES ASSUME EInv, LeaveElse PROVE EInv'
  OBVIOUS
<1>1. /\ frames # << >> /\ Top.kind = "else" /\ frames' = Below /\ bbs' = bbs
      /\ pre' = BrPre(Top.cont) /\ succ' = BrSucc(Top.cont) /\ code' = BrCode(Top.cont)
      /\ insert' = Top.cont
  BY DEF LeaveElse, InFrame
<1>2. IInv'
  BY LeaveElseKeeps DEF EInv
<1>3. Top.cont \in Block /\ Top.cont \in bbs
  BY <1>1, TopFacts, TopInList DEF EInv
<1>4. FramesInList'
  BY <1>1, <1>3, PopInList
<1>5. Edges'
  BY <1>1, <1>3, BranchEdges DEF EInv, Edges, FramesInList
<1>. QED
  BY <1>2, <1>4, <1>5 DEF EInv

\* The end of a loop body.
LEMMA LeaveBodyEdges == EInv /\ LeaveBody => EInv'
<1>. SUFFICES ASSUME EInv, LeaveBody PROVE EInv'
  OBVIOUS
<1>1. /\ frames # << >> /\ Top.kind = "body" /\ frames' = Below /\ bbs' = bbs
      /\ pre' = BrPre(Top.other) /\ succ' = BrSucc(Top.other) /\ code' = BrCode(Top.other)
      /\ insert' = Top.cont
  BY DEF LeaveBody, InFrame
<1>2. IInv'
  BY LeaveBodyKeeps DEF EInv
<1>3. Top.cont \in bbs /\ Top.other \in Block /\ Top.other \in bbs
  BY <1>1, TopFacts, TopInList DEF EInv
<1>4. FramesInList'
  BY <1>1, <1>3, PopInList
<1>5. Edges'
  BY <1>1, <1>3, BranchEdges DEF EInv, Edges, FramesInList
<1>. QED
  BY <1>2, <1>4, <1>5 DEF EInv

\* The end of a first branch, with an else.
LEMMA LeaveThenEdges == EInv /\ LeaveThen => EInv'
<1>. SUFFICES ASSUME EInv, LeaveThen PROVE EInv'
  OBVIOUS
<1>. DEFINE f == Frm("else", NoBlock, Top.cont)
<1>1. /\ frames # << >> /\ Top.kind = "then" /\ frames' = Append(Below, f) /\ bbs' = bbs
      /\ pre' = BrPre(Top.cont) /\ succ' = BrSucc(Top.cont) /\ code' = BrCode(Top.cont)
      /\ insert' = Top.other
  BY DEF LeaveThen, InFrame
<1>2. IInv'
  BY LeaveThenKeeps DEF EInv
<1>3. Top.cont \in Block /\ Top.cont \in bbs /\ Top.other \in bbs
  BY <1>1, TopFacts, TopInList DEF EInv
<1>4. f \in Frame /\ f.other = NoBlock /\ f.cont = Top.cont
  BY <1>3 DEF Frm, Frame
<1>. HIDE DEF f
<1>5. FramesInList'
  <2>1. Replaced(f)
    BY <1>1, <1>4, AppendIsReplaced DEF EInv, IInv
  <2>2. \A i \in DOMAIN frames' :
          frames'[i] = f \/ (i \in DOMAIN frames /\ frames'[i] = frames[i])
    BY <2>1, FrameFacts DEF Replaced, EInv, IInv
  <2>. QED
    BY <1>1, <1>3, <1>4, <2>2 DEF EInv, FramesInList
<1>6. Edges'
  BY <1>1, <1>3, BranchEdges DEF EInv, Edges, FramesInList
<1>. QED
  BY <1>2, <1>5, <1>6 DEF EInv

\* The end of a first branch, without else: the erased block has no edge.
LEMMA LeaveIfEdges == EInv /\ LeaveIf => EInv'
<1>. SUFFICES ASSUME EInv, LeaveIf PROVE EInv'
  OBVIOUS
<1>1. /\ frames # << >> /\ Top.kind = "if" /\ frames' = Below /\ nextBlock' = nextBlock
      /\ bbs' = bbs \ {Top.other}
      /\ pre' = Unlink(BrPre(Top.cont), Succs(Top.other), Top.other)
      /\ succ' = Unlink(BrSucc(Top.cont), Preds(Top.other), Top.other)
      /\ code' = BrCode(Top.cont) /\ insert' = Top.cont
  BY DEF LeaveIf, InFrame
<1>2. IInv'
  BY LeaveIfKeeps DEF EInv
<1>3. /\ Top.cont \in Block /\ Top.cont \in bbs /\ Top.other \in bbs /\ Top.other \in Block
      /\ Top.cont # NoBlock /\ Top.other # NoBlock /\ Top.other # Top.cont
      /\ Top.other \in Awaited /\ AwaitedBy(Top) = {Top.cont, Top.other}
      /\ Top = frames[Len(frames)] /\ Len(frames) \in DOMAIN frames
  BY <1>1, TopFacts, TopInList DEF AwaitedBy, EInv
<1>4. pre[Top.other] = << >> /\ succ[Top.other] = << >> /\ Top.other # insert
  BY <1>1, <1>3 DEF EInv, IInv, AwaitedBlank
<1>5. Succs(Top.other) = {} /\ Preds(Top.other) = {}
  BY <1>4 DEF Succs, Preds, Range
<1>6. pre' = BrPre(Top.cont) /\ succ' = BrSucc(Top.cont)
  <2>1. \A lists \in [Block -> Seq(Block)] : Unlink(lists, {}, Top.other) = lists
    BY DEF Unlink
  <2>2. BrPre(Top.cont) \in [Block -> Seq(Block)] /\ BrSucc(Top.cont) \in [Block -> Seq(Block)]
    BY <1>3, BranchStep DEF EInv, IInv
  <2>. QED
    BY <1>1, <1>5, <2>1, <2>2
<1>7. FramesInList'
  <2>1. /\ AwaitedBy(Top) \cap Awaited' \subseteq {NoBlock}
        /\ \A i \in DOMAIN frames' :
             /\ i \in DOMAIN frames /\ frames'[i] = frames[i]
             /\ Top.other # NoBlock => frames'[i].other # Top.other
    BY <1>1, PopStep DEF EInv, IInv
  <2>2. \A i \in DOMAIN frames' : frames'[i].cont \in Awaited'
    BY DEF Awaited, AwaitedBy
  <2>3. \A i \in DOMAIN frames' : frames'[i].cont # Top.other /\ frames'[i].other # Top.other
    BY <1>3, <2>1, <2>2
  <2>. QED
    BY <1>1, <1>3, <2>1, <2>3 DEF EInv, FramesInList
<1>8. \A b, c \in Block : c \in Range(succ[b]) => b \in bbs' /\ c \in bbs'
  <2>. SUFFICES ASSUME NEW b \in Block, NEW c \in Block, c \in Range(succ[b])
                PROVE  b \in bbs' /\ c \in bbs'
    OBVIOUS
  <2>1. b \in bbs /\ c \in bbs /\ b \in Range(pre[c])
    BY DEF EInv, Edges, Mutual
  <2>2. b # Top.other /\ c # Top.other
    BY <1>5, <2>1 DEF Succs, Preds
  <2>. QED
    BY <1>1, <2>1, <2>2
<1>9. insert \in bbs' /\ Top.cont \in bbs'
  BY <1>1, <1>3, <1>4 DEF EInv, FramesInList
<1>10. Edges'
  BY <1>1, <1>3, <1>6, <1>8, <1>9, BranchEdges
<1>. QED
  BY <1>2, <1>7, <1>10 DEF EInv

\* A visitor that is entered awaits blocks it has put into the list.
LEMMA PushInList ==
  ASSUME EInv, NEW f \in Frame, Pushed(f) \/ (frames # << >> /\ Replaced(f)),
         bbs \subseteq bbs', insert' \in bbs',
         f.other # NoBlock => f.other \in bbs', f.cont # NoBlock => f.cont \in bbs'
  PROVE  FramesInList'
<1>1. \A i \in DOMAIN frames' :
        frames'[i] = f \/ (i \in DOMAIN frames /\ frames'[i] = frames[i])
  BY FrameFacts DEF Pushed, Replaced, EInv, IInv
<1>. QED
  BY <1>1 DEF EInv, FramesInList

\* A loop starts.
LEMMA EnterIterationEdges == EInv /\ EnterIteration => EInv'
<1>. SUFFICES ASSUME EInv, EnterIteration PROVE EInv'
  OBVIOUS
<1>. DEFINE f == Frm("cond", nextBlock, NoBlock)
<1>1. /\ Fits(3, 0) /\ bbs' = bbs \cup {nextBlock}
      /\ pre' = BrPre(nextBlock) /\ succ' = BrSucc(nextBlock) /\ code' = BrCode(nextBlock)
      /\ insert' = nextBlock /\ frames' = Append(frames, f)
  BY DEF EnterIteration
<1>2. IInv'
  BY EnterIterationKeeps DEF EInv
<1>3. nextBlock \in Block
  <2>1. \A k \in Nat : k < 3 => nextBlock + k \in Block
    BY <1>1, FitsFacts DEF EInv
  <2>2. nextBlock + 0 \in Block
    BY <2>1
  <2>. QED
    BY <2>2, FreshFacts DEF EInv
<1>4. f \in Frame /\ f.other = nextBlock /\ f.cont = NoBlock
  BY <1>3 DEF Frm, Frame
<1>. HIDE DEF f
<1>5. FramesInList'
  <2>1. Pushed(f)
    BY <1>1, <1>4, AppendIsPushed DEF EInv, IInv
  <2>. QED
    BY <1>1, <1>4, <2>1, PushInList
<1>6. Edges'
  BY <1>1, <1>3, BranchEdges DEF EInv, Edges, FramesInList
<1>. QED
  BY <1>2, <1>5, <1>6 DEF EInv

\* A selection starts.
LEMMA EnterSelectionEdges ==
  ASSUME EInv, NEW hasElse \in BOOLEAN, EnterSelection(hasElse)
  PROVE  EInv'
<1>. DEFINE trueBB  == nextBlock
            falseBB == nextBlock + 1
            contBB  == nextBlock + 2
            other   == IF hasElse THEN falseBB ELSE contBB
            f       == Frm(IF hasElse THEN "then" ELSE "if", falseBB, contBB)
<1>1. /\ ~Terminated(insert) /\ Fits(3, 0)
      /\ bbs' = bbs \cup {trueBB, falseBB, contBB}
      /\ pre' = PushBack(PushBack(pre, trueBB, insert), other, insert)
      /\ succ' = PushBack(PushBack(succ, insert, other), insert, trueBB)
      /\ code' = PushBack(code, insert, CondBr(tmp, trueBB, other))
      /\ insert' = trueBB /\ frames' = Append(frames, f)
  BY DEF EnterSelection, Statement, Visiting
<1>2. IInv'
  BY EnterSelectionKeeps DEF EInv
<1>3. /\ trueBB \in Block /\ falseBB \in Block /\ contBB \in Block
      /\ insert \in Block /\ nextBlock \in Nat /\ code \in [Block -> Seq(Instr)]
  <2>1. \A k \in Nat : k < 3 => nextBlock + k \in Block
    BY <1>1, FitsFacts DEF EInv
  <2>2. nextBlock + 0 \in Block /\ nextBlock + 1 \in Block /\ nextBlock + 2 \in Block
    BY <2>1
  <2>3. insert \in Block /\ nextBlock \in Nat /\ code \in [Block -> Seq(Instr)]
    BY FreshFacts DEF EInv
  <2>. QED
    BY <2>2, <2>3
<1>4. other \in Block /\ trueBB # other /\ other \in {falseBB, contBB}
  BY <1>3
<1>5. f \in Frame /\ f.other = falseBB /\ f.cont = contBB
  BY <1>3 DEF Frm, Frame
<1>. HIDE DEF f, other
<1>6. FramesInList'
  <2>1. Pushed(f)
    BY <1>1, <1>5, AppendIsPushed DEF EInv, IInv
  <2>. QED
    BY <1>1, <1>5, <2>1, PushInList
<1>7. Edges'
  <2>1. trueBB \in bbs' /\ other \in bbs' /\ bbs \subseteq bbs'
    BY <1>1, <1>4
  <2>2. /\ code'[insert] = Append(code[insert], CondBr(tmp, trueBB, other))
        /\ \A b \in Block \ {insert} : TargetsOf(code'[b]) = TargetsOf(code[b])
    BY <1>1, <1>3 DEF PushBack
  <2>3. code' \in [Block -> Seq(Instr)]
    BY <1>2, FreshFacts DEF IInv, BuilderTypeOK
  <2>. HIDE DEF trueBB
  <2>. QED
    BY <1>1, <1>3, <1>4, <2>1, <2>2, <2>3, CondBranchEdges
<1>. QED
  BY <1>2, <1>6, <1>7 DEF EInv

\* A loop condition ends.
LEMMA EnterBodyEdges == EInv /\ EnterBody => EInv'
<1>. SUFFICES ASSUME EInv, EnterBody PROVE EInv'
  OBVIOUS
<1>. DEFINE trueBB == nextBlock
            contBB == nextBlock + 1
            f      == Frm("body", Top.other, contBB)
<1>1. /\ frames # << >> /\ InFrame("cond") /\ Top.kind = "cond"
      /\ bbs' = bbs \cup {trueBB, contBB}
      /\ pre' = PushBack(PushBack(pre, trueBB, insert), contBB, insert)
      /\ succ' = PushBack(PushBack(succ, insert, contBB), insert, trueBB)
      /\ code' = PushBack(code, insert, CondBr(tmp, trueBB, contBB))
      /\ insert' = trueBB /\ frames' = Append(Below, f)
  BY DEF EnterBody, InFrame
<1>2. IInv'
  BY EnterBodyKeeps DEF EInv
<1>3. /\ trueBB \in Block /\ contBB \in Block /\ trueBB # contBB
      /\ insert \in Block /\ code \in [Block -> Seq(Instr)] /\ ~Terminated(insert)
  <2>1. nextBlock < MaxBlocks /\ ~Terminated(insert)
    BY <1>1 DEF EInv, IInv, ConditionOpen
  <2>2. /\ nextBlock \in Nat /\ nextBlock >= 2 /\ MaxBlocks \in Nat
        /\ insert \in Block /\ code \in [Block -> Seq(Instr)]
    BY FreshFacts, BlockFacts DEF EInv
  <2>3. nextBlock \in Block /\ nextBlock + 1 \in Block
    BY <2>1, <2>2, BlockFacts
  <2>. QED
    BY <2>1, <2>2, <2>3
<1>4. Top.other \in Block /\ Top.other \in bbs
  BY <1>1, TopFacts, TopInList DEF EInv
<1>5. f \in Frame /\ f.other = Top.other /\ f.cont = contBB
  BY <1>3, <1>4 DEF Frm, Frame
<1>. HIDE DEF f
<1>6. FramesInList'
  <2>1. Replaced(f)
    BY <1>1, <1>5, AppendIsReplaced DEF EInv, IInv
  <2>. QED
    BY <1>1, <1>4, <1>5, <2>1, PushInList
<1>7. Edges'
  <2>1. trueBB \in bbs' /\ contBB \in bbs' /\ bbs \subseteq bbs'
    BY <1>1
  <2>2. /\ code'[insert] = Append(code[insert], CondBr(tmp, trueBB, contBB))
        /\ \A b \in Block \ {insert} : TargetsOf(code'[b]) = TargetsOf(code[b])
    BY <1>1, <1>3 DEF PushBack
  <2>3. code' \in [Block -> Seq(Instr)]
    BY <1>2, FreshFacts DEF IInv, BuilderTypeOK
  <2>. HIDE DEF trueBB, contBB
  <2>. QED
    BY <1>1, <1>3, <2>1, <2>2, <2>3, CondBranchEdges
<1>. QED
  BY <1>2, <1>6, <1>7 DEF EInv

\* An index check: the block that reports the error returns.
LEMMA VisitIndexedVarEdges ==
  ASSUME EInv, NEW base \in {Opaque} \cup ArraysOf(insert), VisitIndexedVar(base)
  PROVE  EInv'
<1>. DEFINE exceptBB == nextBlock
            contBB   == nextBlock + 1
            branch   == CondBr(tmp, exceptBB, contBB)
            error    == <<Call(Opaque, Opaque), Ret(Opaque)>>
            arg      == IF base = Opaque THEN tmp ELSE base
<1>1. /\ ~Terminated(insert) /\ Fits(2, 0)
      /\ bbs' = bbs \cup {exceptBB, contBB}
      /\ pre' = PushBack(PushBack(pre, exceptBB, insert), contBB, insert)
      /\ succ' = PushBack(PushBack(succ, insert, contBB), insert, exceptBB)
      /\ code' = [code EXCEPT ![insert]   = Append(@, branch),
                              ![exceptBB] = error,
                              ![contBB]   = <<Elem(arg)>>]
      /\ insert' = contBB /\ frames' = frames
  BY DEF VisitIndexedVar, Visiting
<1>2. IInv'
  BY VisitIndexedVarKeeps DEF EInv
<1>3. /\ exceptBB \in Block /\ contBB \in Block /\ exceptBB # contBB
      /\ insert \in Block /\ insert # exceptBB /\ insert # contBB
      /\ code \in [Block -> Seq(Instr)] /\ tmp \in Operand /\ arg \in Operand
      /\ code[exceptBB] = << >> /\ code[contBB] = << >>
  <2>1. \A k \in Nat : k < 2 => nextBlock + k \in Block
    BY <1>1, FitsFacts DEF EInv
  <2>2. nextBlock + 0 \in Block /\ nextBlock + 1 \in Block
    BY <2>1
  <2>3. nextBlock + 1 >= nextBlock /\ nextBlock \in Block /\ nextBlock \in Nat
    BY <2>2, FreshFacts DEF EInv
  <2>. QED
    BY <2>2, <2>3, FreshFacts, ElementOperand DEF EInv
<1>. HIDE DEF arg
<1>4. FramesInList'
  BY <1>1 DEF EInv, FramesInList
<1>5. Edges'
  <2>1. exceptBB \in bbs' /\ contBB \in bbs' /\ bbs \subseteq bbs'
    BY <1>1
  <2>2. TargetsOf(error) = {} /\ TargetsOf(<<Elem(arg)>>) = {}
    <3>1. Ret(Opaque) \in Instr /\ Range(Ret(Opaque).tgt) = {}
      BY OperandTypes, InstrTypes, TargetFacts
    <3>2. Elem(arg) \in Instr /\ ~IsTerminator(Elem(arg))
      BY <1>3, InstrTypes
    <3>3. Len(error) = 2 /\ error[2] = Ret(Opaque)
      OBVIOUS
    <3>. QED
      BY <3>1, <3>2, <3>3 DEF TargetsOf, Closed
  <2>. HIDE DEF error, branch, exceptBB, contBB
  <2>3. /\ code'[insert] = Append(code[insert], branch)
        /\ code'[exceptBB] = error /\ code'[contBB] = <<Elem(arg)>>
        /\ \A b \in Block \ {insert, exceptBB, contBB} : code'[b] = code[b]
    BY <1>1, <1>3
  <2>4. ASSUME NEW b \in Block \ {insert}
        PROVE  TargetsOf(code'[b]) = TargetsOf(code[b])
    <3>1. CASE b \in {exceptBB, contBB}
      BY <1>3, <2>2, <2>3, <3>1, TargetFacts
    <3>2. CASE b \notin {exceptBB, contBB}
      BY <2>3, <3>2
    <3>. QED
      BY <3>1, <3>2
  <2>5. code' \in [Block -> Seq(Instr)]
    BY <1>2, FreshFacts DEF IInv, BuilderTypeOK
  <2>6. code'[insert] = Append(code[insert], CondBr(tmp, exceptBB, contBB))
    BY <2>3 DEF branch
  <2>. QED
    BY <1>1, <1>3, <2>1, <2>4, <2>5, <2>6, CondBranchEdges
<1>. QED
  BY <1>2, <1>4, <1>5 DEF EInv
----------------------------------------------------------------------------
\* The function starts with one block and no edge.
LEMMA InitEdges == BuilderInit => EInv
<1>. SUFFICES ASSUME BuilderInit PROVE EInv
  OBVIOUS
<1>1. IInv
  BY InitEstablishes
<1>2. /\ bbs = {1} /\ insert = 1 /\ frames = <<Frm("fun", NoBlock, NoBlock)>>
      /\ pre = [b \in Block |-> << >>] /\ succ = [b \in Block |-> << >>]
      /\ code = [b \in Block |-> << >>]
  BY DEF BuilderInit, Entry
<1>3. FramesInList
  BY <1>2 DEF FramesInList, Frm
<1>4. Range(<< >>) = {} /\ IsInjective(<< >>)
  BY DEF Range, IsInjective
<1>5. Edges
  BY <1>2, <1>4, TargetFacts DEF Edges, Mutual
<1>. QED
  BY <1>1, <1>3, <1>5 DEF EInv

\* Every step keeps the edges.
LEMMA NextEdges == EInv /\ [BuilderNext]_builderAndGraph => EInv'
<1>. SUFFICES ASSUME EInv, [BuilderNext]_builderAndGraph PROVE EInv'
  OBVIOUS
<1>1. CASE VisitNum
  BY <1>1, VisitNumEdges
<1>2. CASE \E v \in Vars : VisitVar(v)
  BY <1>2, VisitVarEdges
<1>3. CASE \E v \in Vars, dropped \in BOOLEAN : VisitAssign(v, dropped)
  BY <1>3, VisitAssignEdges
<1>4. CASE \E dropped \in BOOLEAN : VisitCall(dropped)
  BY <1>4, VisitCallEdges
<1>5. CASE \E base \in {Opaque} \cup ArraysOf(insert) : VisitIndexedVar(base)
  BY <1>5, VisitIndexedVarEdges
<1>6. CASE VisitReturn
  BY <1>6, VisitReturnEdges
<1>7. CASE \E hasElse \in BOOLEAN : EnterSelection(hasElse)
  BY <1>7, EnterSelectionEdges
<1>8. CASE LeaveIf \/ LeaveThen \/ LeaveElse
  BY <1>8, LeaveIfEdges, LeaveThenEdges, LeaveElseEdges
<1>9. CASE EnterIteration \/ EnterBody \/ LeaveBody
  BY <1>9, EnterIterationEdges, EnterBodyEdges, LeaveBodyEdges
<1>10. CASE LeaveFunction
  BY <1>10, LeaveFunctionEdges
<1>11. CASE UNCHANGED builderAndGraph
  <2>1. IInv'
    BY <1>11, StutterKeeps DEF EInv
  <2>2. UNCHANGED <<bbs, pre, succ, code, insert, frames>>
    BY <1>11 DEF builderAndGraph, graphVars, builderVars
  <2>. QED
    BY <2>1, <2>2 DEF EInv, FramesInList, Edges
<1>12. CASE VisitArrayDecl
  BY <1>12, VisitArrayDeclEdges
<1>. QED
  BY <1>1, <1>2, <1>3, <1>4, <1>5, <1>6, <1>7, <1>8, <1>9, <1>10, <1>11, <1>12 DEF BuilderNext

\* The invariant with the edges, for functions of any size.
THEOREM EdgeInvariant == BuilderSpec => []EInv
BY InitEdges, NextEdges, PTL DEF BuilderSpec

\* Successors, predecessors and branches agree at every step of the builder,
\* although CminusfBuilder, Instruction::create and erase_from_parent each keep
\* their part of them by hand; no list names a block that was erased.
THEOREM NeighboursMatchBranches == BuilderSpec => []EdgesMatchBranches
<1>1. EInv => EdgesMatchBranches
  BY EdgesAreEdges DEF EInv, IInv
<1>. QED
  BY EdgeInvariant, <1>1, PTL
----------------------------------------------------------------------------
(***************************************************************************)
(* REDUCIBILITY.  The graph of a finished function is reducible            *)
(* (ReducibleWhenDone).                                                    *)
(*                                                                         *)
(* The blocks are not numbered in the order they are filled, so the proof  *)
(* gives each block the time at which it became the insert point (rank, 0  *)
(* for never).  An edge goes to a block filled later or never, or goes     *)
(* back to the header of a loop it is in.  A loop that has been left is a  *)
(* range of numbers, from its header to fin[header] - 1, and only its      *)
(* header is entered from outside: the header dominates the range.         *)
(***************************************************************************)

Loop(f) == f.kind \in {"cond", "body"}

\* A frame with the blocks of a visitor that loop header h is around, or is
\* inside of.
InLoop(h, f) ==
  /\ f.other # NoBlock => f.other > h
  /\ f.cont # NoBlock => f.cont > h
OutOfLoop(h, f) == f.other < h /\ f.cont < h

\* The header of a loop is older than all that is created in the loop, and
\* younger than all that the visitors around it hold.
Nested ==
  \A i \in DOMAIN frames : Loop(frames[i]) =>
    /\ frames[i].other <= insert
    /\ frames[i].kind = "body" => frames[i].other < insert
    /\ frames[i].cont # NoBlock => frames[i].cont > frames[i].other
    /\ \A j \in DOMAIN frames :
         /\ j > i => InLoop(frames[i].other, frames[j])
         /\ j < i => OutOfLoop(frames[i].other, frames[j])

\* No edge enters a loop that is being visited, but to its header.
OpenLoops ==
  \A i \in DOMAIN frames : Loop(frames[i]) =>
    \A b, c \in Block :
      c \in Range(succ[b]) /\ c > frames[i].other => b >= frames[i].other

Times(rank, clock) ==
  /\ rank \in [Block -> Nat] /\ clock \in Nat \ {0}
  /\ rank[insert] = clock
  /\ \A b \in Block : rank[b] <= clock
  /\ \A b, c \in Block : c \in Range(succ[b]) => rank[b] > 0
  /\ \A b \in Block : b \in Awaited \/ b >= nextBlock => rank[b] = 0

\* fin[h] is nextBlock when the loop of header h was left, 0 before.
Inside(fin, h, b) == h <= b /\ b < fin[h]

Ordered(rank, fin) ==
  \A b, c \in Block :
    c \in Range(succ[b]) => rank[c] = 0 \/ rank[b] < rank[c] \/ Inside(fin, c, b)

ClosedLoops(fin) ==
  /\ fin \in [Block -> Nat]
  /\ \A h \in Block :
       /\ fin[h] <= nextBlock
       /\ \A b, c \in Block :
            c \in Range(succ[b]) /\ c # h /\ Inside(fin, h, c) => Inside(fin, h, b)
       /\ \A i \in DOMAIN frames :
            ~Inside(fin, h, frames[i].other) /\ ~Inside(fin, h, frames[i].cont)

\* The header of a loop, left or not, has one predecessor that was filled before it.
Headers(fin) ==
  {h \in Block : fin[h] > 0 \/ \E i \in DOMAIN frames : Loop(frames[i]) /\ h = frames[i].other}

Entered(rank, fin) ==
  \A h \in Headers(fin) : \E q \in Block :
    /\ h \in Range(succ[q]) /\ rank[q] < rank[h]
    /\ \A p \in Block : h \in Range(succ[p]) /\ rank[p] < rank[h] => p = q

\* A block that branches to the header of a loop branches nowhere else.
Single(fin) ==
  \A h \in Headers(fin), b \in Block : h \in Range(succ[b]) => Range(succ[b]) = {h}

NoSelfLoop == \A b \in Block : b \notin Range(succ[b])

\* No visitor branches to the entry block.
EntryFirst ==
  /\ \A i \in DOMAIN frames : frames[i].other # Entry /\ frames[i].cont # Entry
  /\ \A b \in Block : Entry \notin Range(succ[b])

RInv ==
  /\ EInv /\ Nested /\ OpenLoops /\ EntryFirst /\ NoSelfLoop
  /\ \E rank, clock, fin :
       /\ Times(rank, clock) /\ Ordered(rank, fin) /\ ClosedLoops(fin)
       /\ Entered(rank, fin) /\ Single(fin)
----------------------------------------------------------------------------
(***************************************************************************)
(* What a step may do.                                                     *)
(***************************************************************************)
\* The blocks that the visitor goes to next, or branches to: new ones, and
\* those that the visitor on top of the stack awaits.
Ahead ==
  {b \in Block : b >= nextBlock \/ (frames # << >> /\ b \in AwaitedBy(Top))}

\* The stack after a step: some of the frames, and possibly f on top of them.
KeptBelow(m, f) ==
  \A i \in DOMAIN frames' :
    \/ i < m /\ i \in DOMAIN frames /\ frames'[i] = frames[i]
    \/ i = m /\ frames'[i] = f

NewFrame(m, f) ==
  /\ f.cont \in Ahead \cup {NoBlock}
  /\ \/ f.other \in Ahead \cup {NoBlock}
     \/ f.other = Top.other /\ Loop(f)
  /\ Loop(f) =>
       \/ /\ f.other = nextBlock /\ insert' = nextBlock /\ f.cont = NoBlock
          /\ f.kind = "cond" /\ nextBlock' = nextBlock + 1
          /\ Range(succ'[insert]) = {nextBlock}
       \/ /\ f.other = Top.other /\ frames # << >> /\ Loop(Top) /\ m = Len(frames)
          /\ f.cont >= nextBlock

\* The new edges, h being the header of the loop that is left, if one is.
NewEdges(h) ==
  /\ \A b, c \in Block :
       /\ c \in Range(succ[b]) => c \in Range(succ'[b])
       /\ c \in Range(succ'[b]) => c \in Range(succ[b]) \/ (b = insert /\ (c \in Ahead \/ c = h))
  /\ \/ succ' = succ
     \/ /\ Range(succ[insert]) = {}
        /\ h \in Range(succ'[insert]) => Range(succ'[insert]) = {h}

Leaves(h) ==
  h # NoBlock =>
    /\ frames # << >> /\ Top.kind = "body" /\ h = Top.other
    /\ \A i \in DOMAIN frames' : i < Len(frames) /\ i \in DOMAIN frames /\ frames'[i] = frames[i]

Moves(m, f, h) ==
  /\ insert' \in Ahead /\ nextBlock' >= nextBlock
  /\ KeptBelow(m, f) /\ NewFrame(m, f) /\ NewEdges(h) /\ Leaves(h)
----------------------------------------------------------------------------
\* The types that the arithmetic of the steps needs.
LEMMA StateFacts ==
  ASSUME EInv
  PROVE  /\ insert \in Block /\ insert \in Nat /\ nextBlock \in Nat /\ insert < nextBlock
         /\ \A b \in Block : b \in Nat /\ b > 0
         /\ \A i \in DOMAIN frames :
              /\ i \in Nat /\ i <= Len(frames) /\ frames[i].other \in Nat /\ frames[i].cont \in Nat
              /\ frames[i].other < nextBlock /\ frames[i].cont < nextBlock
              /\ Loop(frames[i]) => frames[i].other \in Block
         /\ frames # << >> => Len(frames) \in DOMAIN frames /\ Top = frames[Len(frames)]
         /\ NoBlock = 0
<1>1. /\ insert \in Block /\ insert < nextBlock /\ nextBlock \in Nat
  BY FreshFacts DEF EInv, IInv, RestBlank
<1>2. /\ \A b \in Block : b \in Nat /\ b > 0
      /\ NoBlock = 0
  BY BlockFacts DEF NoBlock
<1>3. ASSUME NEW i \in DOMAIN frames
      PROVE  /\ i \in Nat /\ i <= Len(frames) /\ frames[i].other \in Nat /\ frames[i].cont \in Nat
             /\ frames[i].other < nextBlock /\ frames[i].cont < nextBlock
             /\ Loop(frames[i]) => frames[i].other \in Block
  <2>1. /\ i \in 1..Len(frames) /\ Len(frames) \in Nat
        /\ frames[i].other \in Block \cup {NoBlock} /\ frames[i].cont \in Block \cup {NoBlock}
    BY FrameFacts DEF EInv, IInv
  <2>2. /\ frames[i].other < nextBlock /\ frames[i].cont < nextBlock
        /\ Loop(frames[i]) => frames[i].other # NoBlock
    BY DEF EInv, IInv, FrameShape, WellFormed, Loop
  <2>. QED
    BY <1>2, <2>1, <2>2
<1>4. frames # << >> => Len(frames) \in DOMAIN frames /\ Top = frames[Len(frames)]
  BY BelowFacts DEF EInv, IInv
<1>. QED
  BY <1>1, <1>2, <1>3, <1>4

\* Edges lie between blocks that have been created, and start at none that is
\* awaited.
LEMMA EdgeFacts ==
  ASSUME EInv
  PROVE  \A b, c \in Block : c \in Range(succ[b]) => b < nextBlock /\ c < nextBlock
<1>1. \A b \in bbs : b < nextBlock
  BY DEF EInv, IInv, RestBlank
<1>. QED
  BY <1>1 DEF EInv, Edges

\* The blocks ahead are awaited or new, and lie in every loop that is being
\* visited.
LEMMA AheadFacts ==
  ASSUME EInv, Nested, NEW b \in Ahead
  PROVE  /\ b \in Block /\ (b \in Awaited \/ b >= nextBlock)
         /\ \A i \in DOMAIN frames : Loop(frames[i]) => b > frames[i].other
<1>1. CASE b >= nextBlock
  BY <1>1, StateFacts DEF Ahead
<1>2. CASE frames # << >> /\ b \in AwaitedBy(Top)
  <2>1. b \in Block /\ b # NoBlock /\ b \in Nat
    BY StateFacts DEF Ahead
  <2>2. Len(frames) \in DOMAIN frames /\ Top = frames[Len(frames)]
    BY <1>2, StateFacts
  <2>3. b \in Awaited
    BY <1>2, <2>2 DEF Awaited
  <2>4. b = Top.cont \/ (b = Top.other /\ ~Loop(Top))
    BY <1>2 DEF AwaitedBy, Loop
  <2>5. ASSUME NEW i \in DOMAIN frames, Loop(frames[i])
        PROVE  b > frames[i].other
    <3>1. CASE i = Len(frames)
      BY <2>1, <2>2, <2>4, <2>5, <3>1 DEF Nested
    <3>2. CASE i # Len(frames)
      <4>1. Len(frames) > i
        <5>1. i \in Nat /\ i <= Len(frames) /\ Len(frames) \in Nat
          BY <2>2, StateFacts
        <5>. QED
          BY <3>2, <5>1
      <4>2. InLoop(frames[i].other, Top)
        BY <2>2, <2>5, <4>1 DEF Nested
      <4>. QED
        BY <2>1, <2>4, <4>2 DEF InLoop
    <3>. QED
      BY <3>1, <3>2
  <2>. QED
    BY <2>1, <2>3, <2>5
<1>. QED
  BY <1>1, <1>2 DEF Ahead

\* A step keeps the order of the loops on the stack.
LEMMA NestedStep ==
  ASSUME EInv, Nested, NEW m \in Nat, NEW f \in Frame, NEW h \in Block \cup {NoBlock},
         Moves(m, f, h)
  PROVE  Nested'
<1>. PICK n : n = insert'
  OBVIOUS
<1>1. n \in Ahead /\ n \in Block /\ n \in Nat /\ insert' = n
  BY AheadFacts, StateFacts DEF Moves
<1>2. \A i \in DOMAIN frames : Loop(frames[i]) => frames[i].other < n
  BY <1>1, AheadFacts, StateFacts
<1>3. \A i \in DOMAIN frames' :
        \/ i < m /\ i \in DOMAIN frames /\ frames'[i] = frames[i]
        \/ i = m /\ frames'[i] = f
  BY DEF Moves, KeptBelow
<1>4. ASSUME NEW i \in DOMAIN frames, Loop(frames[i]), i < m
      PROVE  InLoop(frames[i].other, f)
  <2>1. f.cont # NoBlock => f.cont > frames[i].other
    BY <1>4, AheadFacts DEF Moves, NewFrame
  <2>2. f.other \in Ahead => f.other > frames[i].other
    BY <1>4, AheadFacts
  <2>3. ASSUME f.other \notin Ahead, f.other # NoBlock
        PROVE  f.other > frames[i].other
    <3>1. Loop(f) /\ f.other = Top.other
      BY <2>3 DEF Moves, NewFrame
    <3>2. CASE f.other = nextBlock
      BY <1>4, <3>2, StateFacts
    <3>3. CASE f.other # nextBlock
      <4>1. frames # << >> /\ m = Len(frames)
        BY <3>1, <3>3 DEF Moves, NewFrame
      <4>2. Len(frames) \in DOMAIN frames /\ Top = frames[Len(frames)]
        BY <4>1, StateFacts
      <4>3. InLoop(frames[i].other, Top)
        BY <1>4, <4>1, <4>2, StateFacts DEF Nested
      <4>. QED
        BY <2>3, <3>1, <4>3 DEF InLoop
    <3>. QED
      BY <3>2, <3>3
  <2>. QED
    BY <2>1, <2>2, <2>3 DEF InLoop
<1>5. ASSUME Loop(f)
      PROVE  /\ f.other <= n
             /\ f.kind = "body" => f.other < n
             /\ f.cont # NoBlock => f.cont > f.other
             /\ \A j \in DOMAIN frames : j < m => OutOfLoop(f.other, frames[j])
  <2>1. CASE f.other = nextBlock /\ n = nextBlock /\ f.cont = NoBlock /\ f.kind = "cond"
    BY <1>1, <2>1, StateFacts DEF OutOfLoop
  <2>2. CASE /\ f.other = Top.other /\ frames # << >> /\ Loop(Top) /\ m = Len(frames)
             /\ f.cont >= nextBlock
    <3>1. Len(frames) \in DOMAIN frames /\ Top = frames[Len(frames)]
      BY <2>2, StateFacts
    <3>2. f.other < n /\ f.other < nextBlock /\ f.other \in Nat
      BY <1>2, <2>2, <3>1, StateFacts
    <3>3. \A j \in DOMAIN frames : j < m => OutOfLoop(f.other, frames[j])
      BY <2>2, <3>1 DEF Nested
    <3>4. f.cont \in Block \cup {NoBlock}
      BY DEF Frame
    <3>. QED
      BY <1>1, <2>2, <3>2, <3>3, <3>4, StateFacts
  <2>. QED
    BY <1>1, <1>5, <2>1, <2>2 DEF Moves, NewFrame
<1>6. ASSUME NEW i \in DOMAIN frames', Loop(frames'[i])
      PROVE  /\ frames'[i].other <= n
             /\ frames'[i].kind = "body" => frames'[i].other < n
             /\ frames'[i].cont # NoBlock => frames'[i].cont > frames'[i].other
             /\ \A j \in DOMAIN frames' :
                  /\ j > i => InLoop(frames'[i].other, frames'[j])
                  /\ j < i => OutOfLoop(frames'[i].other, frames'[j])
  <2>1. CASE i < m /\ i \in DOMAIN frames /\ frames'[i] = frames[i]
    <3>1. frames[i].other <= n /\ frames[i].other < n
      BY <1>1, <1>2, <1>6, <2>1, StateFacts
    <3>2. frames[i].cont # NoBlock => frames[i].cont > frames[i].other
      BY <1>6, <2>1 DEF Nested
    <3>3. ASSUME NEW j \in DOMAIN frames'
          PROVE  /\ j > i => InLoop(frames[i].other, frames'[j])
                 /\ j < i => OutOfLoop(frames[i].other, frames'[j])
      <4>1. CASE j \in DOMAIN frames /\ frames'[j] = frames[j]
        BY <1>6, <2>1, <4>1 DEF Nested
      <4>2. CASE j = m /\ frames'[j] = f
        <5>1. i \in Nat
          BY <2>1, StateFacts
        <5>2. ~(m < i)
          BY <2>1, <5>1
        <5>. QED
          BY <1>4, <1>6, <2>1, <4>2, <5>2
      <4>. QED
        BY <1>3, <4>1, <4>2
    <3>. QED
      BY <2>1, <3>1, <3>2, <3>3
  <2>2. CASE i = m /\ frames'[i] = f
    <3>1. \A j \in DOMAIN frames' :
            ~(j > i) /\ (j < i => OutOfLoop(f.other, frames'[j]))
      <4>. TAKE j \in DOMAIN frames'
      <4>1. CASE j < m /\ j \in DOMAIN frames /\ frames'[j] = frames[j]
        BY <1>5, <1>6, <2>2, <4>1, StateFacts
      <4>2. CASE j = m
        BY <2>2, <4>2
      <4>. QED
        BY <1>3, <4>1, <4>2
    <3>. QED
      BY <1>5, <1>6, <2>2, <3>1
  <2>. QED
    BY <1>3, <2>1, <2>2
<1>. QED
  BY <1>1, <1>6 DEF Nested

\* An edge that enters an open loop comes from the loop.
LEMMA OpenStep ==
  ASSUME EInv, EInv', Nested, OpenLoops, NEW m \in Nat, NEW f \in Frame,
         NEW h \in Block \cup {NoBlock}, Moves(m, f, h)
  PROVE  OpenLoops'
<1>1. ASSUME NEW i \in DOMAIN frames, Loop(frames[i]),
             NEW b \in Block, NEW c \in Block, c \in Range(succ'[b]), c > frames[i].other
      PROVE  b >= frames[i].other
  <2>1. CASE c \in Range(succ[b])
    BY <1>1, <2>1 DEF OpenLoops
  <2>2. CASE b = insert
    BY <1>1, <2>2, StateFacts DEF Nested
  <2>. QED
    BY <1>1, <2>1, <2>2 DEF Moves, NewEdges
<1>2. ASSUME nextBlock' = nextBlock + 1, NEW b \in Block, NEW c \in Block, c \in Range(succ'[b])
      PROVE  ~(c > nextBlock)
  <2>. PICK k : k = nextBlock'
    OBVIOUS
  <2>1. c \in bbs' /\ \A x \in bbs' : x < nextBlock'
    BY <1>2 DEF EInv, IInv, RestBlank, Edges
  <2>2. c < k
    BY <2>1
  <2>. QED
    BY <1>2, <2>2, StateFacts
<1>3. ASSUME NEW i \in DOMAIN frames', Loop(frames'[i])
      PROVE  \/ \E j \in DOMAIN frames : Loop(frames[j]) /\ frames'[i].other = frames[j].other
             \/ frames'[i].other = nextBlock /\ nextBlock' = nextBlock + 1
  <2>1. CASE i \in DOMAIN frames /\ frames'[i] = frames[i]
    BY <1>3, <2>1
  <2>2. CASE frames'[i] = f
    <3>1. CASE f.other = Top.other /\ frames # << >> /\ Loop(Top)
      BY <2>2, <3>1, StateFacts
    <3>. QED
      BY <1>3, <2>2, <3>1 DEF Moves, NewFrame
  <2>. QED
    BY <2>1, <2>2 DEF Moves, KeptBelow
<1>. QED
  BY <1>1, <1>2, <1>3 DEF OpenLoops

\* The times after a step: insert' gets the next one.
LEMMA TimesStep ==
  ASSUME EInv, EInv', Nested, NEW m \in Nat, NEW f \in Frame,
         NEW h \in Block \cup {NoBlock}, Moves(m, f, h),
         NEW rank, NEW clock, Times(rank, clock),
         NEW n, n = insert', NEW later, later = [rank EXCEPT ![n] = clock + 1]
  PROVE  Times(later, clock + 1)'
<1>1. n \in Ahead /\ n \in Block /\ clock \in Nat \ {0} /\ clock + 1 \in Nat \ {0}
  BY AheadFacts DEF Moves, Times
<1>2. /\ later \in [Block -> Nat] /\ later[n] = clock + 1
      /\ \A b \in Block \ {n} : later[b] = rank[b]
      /\ \A b \in Block : rank[b] \in Nat
  BY <1>1 DEF Times
<1>3. \A b \in Block : later[b] <= clock + 1
  BY <1>1, <1>2 DEF Times
<1>4. ASSUME NEW b \in Block, NEW c \in Block, c \in Range(succ'[b])
      PROVE  later[b] > 0
  <2>1. rank[b] > 0
    <3>1. CASE c \in Range(succ[b])
      BY <3>1 DEF Times
    <3>2. CASE b = insert
      BY <1>1, <3>2 DEF Times
    <3>. QED
      BY <1>4, <3>1, <3>2 DEF Moves, NewEdges
  <2>. QED
    BY <1>1, <1>2, <2>1
<1>5. ASSUME NEW b \in Block, b \in Awaited' \/ b >= nextBlock'
      PROVE  later[b] = 0
  <2>1. b # n
    <3>1. CASE b \in Awaited'
      <4>1. \A c \in Awaited' \ {NoBlock} : c # n
        BY DEF EInv, IInv, AwaitedBlank
      <4>. QED
        BY <3>1, <4>1, StateFacts
    <3>2. CASE b >= nextBlock'
      <4>. PICK k : k = nextBlock'
        OBVIOUS
      <4>1. n < k /\ k \in Nat
        BY BlockFacts DEF EInv, IInv, RestBlank, BuilderTypeOK
      <4>. QED
        BY <1>1, <3>2, <4>1, StateFacts
    <3>. QED
      BY <1>5, <3>1, <3>2
  <2>2. b \in Awaited \/ b >= nextBlock
    <3>1. CASE b >= nextBlock'
      <4>. PICK k : k = nextBlock'
        OBVIOUS
      <4>1. k \in Nat
        BY BlockFacts DEF EInv, IInv, BuilderTypeOK
      <4>. QED
        BY <3>1, <4>1, StateFacts DEF Moves
    <3>2. CASE b \in Awaited'
      <4>1. PICK i \in DOMAIN frames' : b \in AwaitedBy(frames'[i])
        BY <3>2 DEF Awaited
      <4>2. CASE i \in DOMAIN frames /\ frames'[i] = frames[i]
        BY <4>1, <4>2 DEF Awaited
      <4>3. CASE frames'[i] = f
        <5>1. b = f.cont \/ (b = f.other /\ ~Loop(f))
          BY <4>1, <4>3 DEF AwaitedBy, Loop
        <5>2. b \in Ahead
          BY <5>1, StateFacts DEF Moves, NewFrame
        <5>. QED
          BY <5>2, AheadFacts
      <4>. QED
        BY <4>2, <4>3 DEF Moves, KeptBelow
    <3>. QED
      BY <1>5, <3>1, <3>2
  <2>3. rank[b] = 0
    BY <2>2 DEF Times
  <2>. QED
    BY <1>2, <2>1, <2>3
<1>. QED
  BY <1>1, <1>2, <1>3, <1>4, <1>5 DEF Times

\* The edges after a step: a new one goes to a block that is filled next or
\* later, or back to the header of the loop that is left.
LEMMA OrderedStep ==
  ASSUME EInv, EInv', Nested, NEW m \in Nat, NEW f \in Frame,
         NEW h \in Block \cup {NoBlock}, Moves(m, f, h),
         NEW rank, NEW clock, Times(rank, clock), NEW fin \in [Block -> Nat], Ordered(rank, fin),
         NEW n, n = insert', NEW later, later = [rank EXCEPT ![n] = clock + 1],
         NEW closed \in [Block -> Nat],
         \A b \in Block : fin[b] <= closed[b],
         h # NoBlock => closed[h] = nextBlock
  PROVE  Ordered(later, closed)'
<1>1. n \in Ahead /\ n \in Block /\ clock \in Nat \ {0} /\ clock + 1 \in Nat \ {0} /\ rank[n] = 0
  BY AheadFacts DEF Moves, Times
<1>2. /\ later[n] = clock + 1
      /\ \A b \in Block \ {n} : later[b] = rank[b]
      /\ \A b \in Block : rank[b] \in Nat /\ rank[b] <= clock
      /\ rank[insert] = clock /\ insert \in Block
  BY <1>1, StateFacts DEF Times
<1>3. \A b \in Block \ {n} : later[b] < clock + 1
  BY <1>1, <1>2
<1>4. ASSUME NEW b \in Block, NEW c \in Block, c \in Range(succ'[b])
      PROVE  later[c] = 0 \/ later[b] < later[c] \/ Inside(closed, c, b)
  <2>1. CASE c \in Range(succ[b])
    <3>1. rank[b] > 0 /\ b # n
      BY <1>1, <2>1 DEF Times
    <3>2. CASE c = n
      BY <1>2, <1>3, <3>1, <3>2
    <3>3. CASE c # n
      <4>1. rank[c] = 0 \/ rank[b] < rank[c] \/ Inside(fin, c, b)
        BY <2>1 DEF Ordered
      <4>2. Inside(fin, c, b) => Inside(closed, c, b)
        BY StateFacts DEF Inside
      <4>. QED
        BY <1>2, <3>1, <3>3, <4>1, <4>2
    <3>. QED
      BY <3>2, <3>3
  <2>2. CASE b = insert /\ c \in Ahead
    <3>1. b # n /\ rank[c] = 0
      BY <1>1, <1>2, <2>2, AheadFacts DEF Times
    <3>. QED
      BY <1>2, <1>3, <3>1
  <2>3. CASE b = insert /\ c = h
    <3>1. h # NoBlock /\ frames # << >> /\ Loop(Top) /\ h = Top.other
      BY <2>3, StateFacts DEF Moves, Leaves, Loop
    <3>2. h <= insert
      BY <3>1, StateFacts DEF Nested
    <3>. QED
      BY <2>3, <3>1, <3>2, StateFacts DEF Inside
  <2>. QED
    BY <1>4, <2>1, <2>2, <2>3 DEF Moves, NewEdges
<1>. QED
  BY <1>4 DEF Ordered

\* The loops that have been left after a step, and the one it leaves.
LEMMA ClosedStep ==
  ASSUME EInv, EInv', Nested, OpenLoops, NEW m \in Nat, NEW f \in Frame,
         NEW h \in Block \cup {NoBlock}, Moves(m, f, h),
         NEW fin, ClosedLoops(fin),
         NEW closed, closed = [b \in Block |-> IF b = h THEN nextBlock ELSE fin[b]]
  PROVE  ClosedLoops(closed)'
<1>. PICK k : k = nextBlock'
  OBVIOUS
<1>1. /\ closed \in [Block -> Nat]
      /\ \A b \in Block : closed[b] = IF b = h THEN nextBlock ELSE fin[b]
      /\ \A b \in Block : fin[b] \in Nat /\ fin[b] <= nextBlock
  BY StateFacts DEF ClosedLoops
<1>2. k \in Nat /\ nextBlock <= k /\ nextBlock \in Nat
  BY BlockFacts, StateFacts DEF EInv, IInv, BuilderTypeOK, Moves
<1>3. ASSUME NEW g \in Block
      PROVE  closed[g] <= k
  BY <1>1, <1>2
<1>4. ASSUME NEW g \in Block, g # h
      PROVE  /\ \A b : Inside(closed, g, b) <=> Inside(fin, g, b)
             /\ \A b \in Ahead : ~Inside(fin, g, b)
  <2>1. \A b : Inside(closed, g, b) <=> Inside(fin, g, b)
    BY <1>1, <1>4 DEF Inside
  <2>2. ASSUME NEW b \in Ahead
        PROVE  ~Inside(fin, g, b)
    <3>1. CASE b >= nextBlock
      BY <1>1, <3>1, StateFacts DEF Inside, Ahead
    <3>2. CASE frames # << >> /\ b \in AwaitedBy(Top)
      BY <3>2, StateFacts DEF AwaitedBy, ClosedLoops
    <3>. QED
      BY <3>1, <3>2 DEF Ahead
  <2>. QED
    BY <2>1, <2>2
<1>5. ASSUME h # NoBlock
      PROVE  /\ h \in Block /\ frames # << >> /\ Loop(Top) /\ h = Top.other /\ h <= insert
             /\ Len(frames) \in DOMAIN frames /\ Top = frames[Len(frames)]
             /\ \A b : Inside(closed, h, b) <=> h <= b /\ b < nextBlock
  <2>1. h \in Block /\ frames # << >> /\ Loop(Top) /\ h = Top.other
    BY <1>5 DEF Moves, Leaves, Loop
  <2>. QED
    BY <1>1, <2>1, StateFacts DEF Inside, Nested
<1>6. ASSUME NEW g \in Block, NEW b \in Block, NEW c \in Block,
             c \in Range(succ'[b]), c # g, Inside(closed, g, c)
      PROVE  Inside(closed, g, b)
  <2>1. CASE g = h
    <3>1. h # NoBlock /\ c > h
      BY <1>5, <1>6, <2>1, StateFacts
    <3>2. CASE c \in Range(succ[b])
      <4>1. b >= h
        BY <1>5, <3>1, <3>2 DEF OpenLoops
      <4>2. b < nextBlock
        BY <3>2, EdgeFacts
      <4>. QED
        BY <1>5, <2>1, <3>1, <4>1, <4>2
    <3>3. CASE b = insert
      BY <1>5, <2>1, <3>1, <3>3, StateFacts
    <3>. QED
      BY <1>6, <3>2, <3>3 DEF Moves, NewEdges
  <2>2. CASE g # h
    <3>1. Inside(fin, g, c)
      BY <1>4, <1>6, <2>2
    <3>2. CASE c \in Range(succ[b])
      <4>1. Inside(fin, g, b)
        BY <1>6, <3>1, <3>2 DEF ClosedLoops
      <4>. QED
        BY <1>4, <2>2, <4>1
    <3>3. c \notin Ahead
      BY <1>4, <2>2, <3>1
    <3>4. c # h
      <4>. SUFFICES ASSUME c = h PROVE FALSE
        OBVIOUS
      <4>1. h # NoBlock
        BY StateFacts
      <4>2. ~Inside(fin, g, h)
        BY <1>5, <4>1 DEF ClosedLoops
      <4>. QED
        BY <3>1, <4>2
    <3>. QED
      BY <1>6, <3>2, <3>3, <3>4 DEF Moves, NewEdges
  <2>. QED
    BY <2>1, <2>2
<1>7. ASSUME NEW g \in Block, NEW i \in DOMAIN frames'
      PROVE  ~Inside(closed, g, frames'[i].other) /\ ~Inside(closed, g, frames'[i].cont)
  <2>1. CASE i \in DOMAIN frames /\ frames'[i] = frames[i]
    <3>1. CASE g # h
      BY <1>4, <2>1, <3>1 DEF ClosedLoops
    <3>2. CASE g = h
      <4>1. h # NoBlock /\ i < Len(frames)
        BY <3>2, StateFacts DEF Moves, Leaves
      <4>2. OutOfLoop(h, frames[i])
        BY <1>5, <2>1, <4>1 DEF Nested
      <4>3. h \in Nat /\ frames[i].other \in Nat /\ frames[i].cont \in Nat
        BY <1>5, <2>1, <4>1, StateFacts
      <4>4. ~(h <= frames[i].other) /\ ~(h <= frames[i].cont)
        BY <4>2, <4>3 DEF OutOfLoop
      <4>5. ~Inside(closed, h, frames[i].other) /\ ~Inside(closed, h, frames[i].cont)
        BY <4>4 DEF Inside
      <4>. QED
        BY <2>1, <3>2, <4>5
    <3>. QED
      BY <3>1, <3>2
  <2>2. CASE i = m /\ frames'[i] = f /\ ~(i \in DOMAIN frames /\ frames'[i] = frames[i])
    <3>1. ~Inside(closed, g, NoBlock)
      BY StateFacts DEF Inside
    <3>2. CASE g # h
      <4>1. \A b \in Ahead : ~Inside(closed, g, b)
        BY <1>4, <3>2
      <4>2. frames # << >> => ~Inside(closed, g, Top.other)
        BY <1>4, <3>2, StateFacts DEF ClosedLoops
      <4>3. f.other = nextBlock => ~Inside(closed, g, f.other)
        BY <1>1, <3>2, StateFacts DEF Inside
      <4>. QED
        BY <2>2, <3>1, <4>1, <4>2, <4>3 DEF Moves, NewFrame
    <3>3. CASE g = h
      <4>1. h # NoBlock
        BY <3>3, StateFacts
      <4>. QED
        BY <2>2, <4>1 DEF Moves, Leaves
    <3>. QED
      BY <3>2, <3>3
  <2>. QED
    BY <2>1, <2>2 DEF Moves, KeptBelow
<1>. QED
  BY <1>1, <1>3, <1>6, <1>7 DEF ClosedLoops

\* closed is fin once the loop of header h is left.
Leaving(h, fin, closed) ==
  closed \in [Block -> Nat] /\ \A b \in Block : b # h => closed[b] = fin[b]

\* No header is ahead: it has been filled.
LEMMA HeadersFilled ==
  ASSUME EInv, Nested, NEW rank, NEW clock, Times(rank, clock), NEW fin, Entered(rank, fin),
         NEW g \in Headers(fin)
  PROVE  g \in Block /\ g \notin Ahead
<1>1. g \in Block
  BY DEF Headers
<1>2. PICK q \in Block : rank[q] < rank[g]
  BY DEF Entered
<1>3. rank[g] # 0
  BY <1>1, <1>2 DEF Times
<1>. QED
  BY <1>1, <1>3, AheadFacts DEF Times

\* The headers after a step: a new one is branched to from the old insert block.
LEMMA EnteredStep ==
  ASSUME EInv, Nested, NEW m \in Nat, NEW f \in Frame,
         NEW h \in Block \cup {NoBlock}, Moves(m, f, h),
         NEW rank, NEW clock, Times(rank, clock), NEW fin, Entered(rank, fin),
         NEW n, n = insert', NEW later, later = [rank EXCEPT ![n] = clock + 1],
         NEW closed, Leaving(h, fin, closed)
  PROVE  Entered(later, closed)'
<1>1. n \in Ahead /\ n \in Block /\ clock \in Nat \ {0} /\ rank[n] = 0
  BY AheadFacts DEF Moves, Times
<1>2. /\ later[n] = clock + 1
      /\ \A b \in Block \ {n} : later[b] = rank[b]
      /\ \A b \in Block : rank[b] \in Nat
      /\ rank[insert] = clock /\ insert \in Block
  BY <1>1, StateFacts DEF Times
<1>3. ASSUME NEW g \in Headers(fin)
      PROVE  \E q \in Block : /\ g \in Range(succ'[q]) /\ later[q] < later[g]
                             /\ \A p \in Block :
                                  g \in Range(succ'[p]) /\ later[p] < later[g] => p = q
  <2>1. g \in Block /\ g \notin Ahead
    BY HeadersFilled
  <2>2. PICK q \in Block : /\ g \in Range(succ[q]) /\ rank[q] < rank[g]
                          /\ \A p \in Block :
                               g \in Range(succ[p]) /\ rank[p] < rank[g] => p = q
    BY DEF Entered
  <2>3. g \in Range(succ'[q])
    BY <2>1, <2>2 DEF Moves, NewEdges
  <2>4. q # n
    BY <1>1, <2>1, <2>2 DEF Times
  <2>5. g # n
    BY <1>1, <1>2, <2>2
  <2>6. ASSUME NEW p \in Block, g \in Range(succ'[p]), later[p] < later[g]
        PROVE  p = q
    <3>1. CASE g \in Range(succ[p])
      <4>1. p # n
        BY <1>1, <2>1, <3>1 DEF Times
      <4>. QED
        BY <1>2, <2>1, <2>2, <2>5, <2>6, <3>1, <4>1
    <3>2. CASE g \notin Range(succ[p])
      <4>1. p = insert
        BY <2>1, <2>6, <3>2 DEF Moves, NewEdges
      <4>2. insert # n /\ rank[g] <= clock /\ rank[g] \in Nat
        BY <1>1, <1>2, <2>1 DEF Times
      <4>. QED
        BY <1>1, <1>2, <2>1, <2>5, <2>6, <4>1, <4>2
    <3>. QED
      BY <3>1, <3>2
  <2>. QED
    BY <1>2, <2>1, <2>2, <2>3, <2>4, <2>5, <2>6
<1>4. ASSUME nextBlock = n, Range(succ'[insert]) = {nextBlock}
      PROVE  \E q \in Block : /\ n \in Range(succ'[q]) /\ later[q] < later[n]
                             /\ \A p \in Block :
                                  n \in Range(succ'[p]) /\ later[p] < later[n] => p = q
  <2>1. n \in Range(succ'[insert]) /\ later[insert] < later[n]
    BY <1>1, <1>2, <1>4
  <2>2. ASSUME NEW p \in Block, n \in Range(succ'[p]), p # insert
        PROVE  FALSE
    <3>1. n \in Range(succ[p])
      BY <1>1, <2>2 DEF Moves, NewEdges
    <3>. QED
      BY <1>1, <1>4, <3>1, EdgeFacts, StateFacts
  <2>. QED
    BY <1>2, <2>1, <2>2
<1>5. ASSUME NEW g \in Block, closed[g] > 0
      PROVE  g \in Headers(fin)
  <2>1. CASE g = h
    <3>1. h # NoBlock /\ frames # << >> /\ Loop(Top) /\ h = Top.other
      BY <2>1, StateFacts DEF Moves, Leaves, Loop
    <3>. QED
      BY <2>1, <3>1, StateFacts DEF Headers
  <2>2. CASE g # h
    BY <1>5, <2>2 DEF Headers, Leaving
  <2>. QED
    BY <2>1, <2>2
<1>6. ASSUME NEW g \in Block, NEW i \in DOMAIN frames', Loop(frames'[i]), g = frames'[i].other
      PROVE  g \in Headers(fin) \/ (g = n /\ nextBlock = n /\ Range(succ'[insert]) = {nextBlock})
  <2>1. CASE i \in DOMAIN frames /\ frames'[i] = frames[i]
    BY <1>6, <2>1 DEF Headers
  <2>2. CASE frames'[i] = f
    <3>1. CASE f.other = Top.other /\ frames # << >> /\ Loop(Top)
      BY <1>6, <2>2, <3>1, StateFacts DEF Headers
    <3>. QED
      BY <1>6, <2>2, <3>1 DEF Moves, NewFrame
  <2>. QED
    BY <2>1, <2>2 DEF Moves, KeptBelow
<1>. QED
  BY <1>3, <1>4, <1>5, <1>6 DEF Entered, Headers

\* The branch to a header stays alone: a step adds none to a block that has one.
LEMMA SingleStep ==
  ASSUME EInv, Nested, NEW m \in Nat, NEW f \in Frame,
         NEW h \in Block \cup {NoBlock}, Moves(m, f, h),
         NEW rank, NEW clock, Times(rank, clock), NEW fin, Entered(rank, fin), Single(fin),
         succ' \in [Block -> Seq(Block)], NEW closed, Leaving(h, fin, closed)
  PROVE  Single(closed)'
<1>1. /\ insert \in Block
      /\ succ \in [Block -> Seq(Block)]
      /\ \A b \in Block : Range(succ[b]) \subseteq Block /\ Range(succ'[b]) \subseteq Block
  <2>1. insert \in Block /\ succ \in [Block -> Seq(Block)]
    BY StateFacts, FreshFacts DEF EInv
  <2>2. ASSUME NEW s \in Seq(Block)
        PROVE  Range(s) \subseteq Block
    BY <2>2 DEF Range
  <2>. QED
    BY <2>1, <2>2
<1>2. ASSUME NEW b \in Block, b # insert
      PROVE  Range(succ'[b]) = Range(succ[b])
  BY <1>1, <1>2 DEF Moves, NewEdges
<1>3. ASSUME NEW g \in Headers(fin), NEW b \in Block, g \in Range(succ'[b])
      PROVE  Range(succ'[b]) = {g}
  <2>1. CASE b # insert
    BY <1>2, <1>3, <2>1 DEF Single
  <2>2. CASE succ' = succ
    BY <1>3, <2>2 DEF Single
  <2>3. CASE b = insert /\ Range(succ[insert]) = {} /\ succ' # succ
    <3>1. g \in Block /\ g \notin Ahead
      BY HeadersFilled
    <3>2. g = h
      BY <1>3, <2>3, <3>1 DEF Moves, NewEdges
    <3>. QED
      BY <1>3, <2>3, <3>2 DEF Moves, NewEdges
  <2>. QED
    BY <2>1, <2>2, <2>3 DEF Moves, NewEdges
<1>4. ASSUME Range(succ'[insert]) = {nextBlock}, NEW b \in Block, nextBlock \in Range(succ'[b])
      PROVE  Range(succ'[b]) = {nextBlock}
  <2>1. CASE b # insert
    <3>1. nextBlock \in Block /\ nextBlock \in Range(succ[b])
      BY <1>1, <1>2, <1>4, <2>1
    <3>. QED
      BY <3>1, EdgeFacts, StateFacts
  <2>. QED
    BY <1>4, <2>1
<1>5. ASSUME NEW g \in Block, closed[g] > 0
      PROVE  g \in Headers(fin)
  <2>1. CASE g = h
    <3>1. h # NoBlock /\ frames # << >> /\ Loop(Top) /\ h = Top.other
      BY <2>1, StateFacts DEF Moves, Leaves, Loop
    <3>. QED
      BY <2>1, <3>1, StateFacts DEF Headers
  <2>2. CASE g # h
    BY <1>5, <2>2 DEF Headers, Leaving
  <2>. QED
    BY <2>1, <2>2
<1>6. ASSUME NEW g \in Block, NEW i \in DOMAIN frames', Loop(frames'[i]), g = frames'[i].other
      PROVE  g \in Headers(fin) \/ (g = nextBlock /\ Range(succ'[insert]) = {nextBlock})
  <2>1. CASE i \in DOMAIN frames /\ frames'[i] = frames[i]
    BY <1>6, <2>1 DEF Headers
  <2>2. CASE frames'[i] = f
    <3>1. CASE f.other = Top.other /\ frames # << >> /\ Loop(Top)
      BY <1>6, <2>2, <3>1, StateFacts DEF Headers
    <3>. QED
      BY <1>6, <2>2, <3>1 DEF Moves, NewFrame
  <2>. QED
    BY <2>1, <2>2 DEF Moves, KeptBelow
<1>. QED
  BY <1>3, <1>4, <1>5, <1>6 DEF Single, Headers

\* No block branches to itself.
LEMMA SelfStep ==
  ASSUME EInv, Nested, NoSelfLoop, NEW m \in Nat, NEW f \in Frame,
         NEW h \in Block \cup {NoBlock}, Moves(m, f, h)
  PROVE  NoSelfLoop'
<1>1. insert \in Block /\ insert \in Nat /\ nextBlock \in Nat /\ insert < nextBlock
  BY StateFacts
<1>2. insert \notin Ahead
  <2>1. insert \notin Awaited
    BY <1>1, StateFacts DEF EInv, IInv, AwaitedBlank
  <2>. QED
    BY <1>1, <2>1, AheadFacts
<1>3. insert # h
  <2>. SUFFICES ASSUME insert = h PROVE FALSE
    OBVIOUS
  <2>1. h # NoBlock
    BY <1>1, StateFacts
  <2>2. frames # << >> /\ Top.kind = "body" /\ h = Top.other
    BY <2>1 DEF Moves, Leaves
  <2>3. Top.other < insert
    BY <2>2, StateFacts DEF Nested, Loop
  <2>. QED
    BY <1>1, <2>2, <2>3
<1>. QED
  BY <1>2, <1>3 DEF NoSelfLoop, Moves, NewEdges

\* No step branches to the entry block.
LEMMA EntryStep ==
  ASSUME EInv, Nested, EntryFirst, NEW m \in Nat, NEW f \in Frame,
         NEW h \in Block \cup {NoBlock}, Moves(m, f, h)
  PROVE  EntryFirst'
<1>1. insert \in Block /\ nextBlock \in Nat /\ insert < nextBlock /\ NoBlock # Entry
      /\ \A b \in Block : b \in Nat /\ b > 0
  BY StateFacts DEF Entry
<1>2. nextBlock # Entry
  BY <1>1 DEF Entry
<1>3. frames # << >> => Top.other # Entry /\ Top.cont # Entry
  BY StateFacts DEF EntryFirst
<1>4. Entry \notin Ahead
  <2>1. ~(Entry >= nextBlock)
    BY <1>1 DEF Entry
  <2>2. frames # << >> => Entry \notin AwaitedBy(Top)
    BY <1>1, <1>3 DEF AwaitedBy
  <2>. QED
    BY <2>1, <2>2 DEF Ahead
<1>5. f.other # Entry /\ f.cont # Entry
  BY <1>1, <1>2, <1>3, <1>4 DEF Moves, NewFrame
<1>6. \A i \in DOMAIN frames' : frames'[i].other # Entry /\ frames'[i].cont # Entry
  BY <1>5 DEF Moves, KeptBelow, EntryFirst
<1>7. h # Entry
  BY <1>1, <1>3 DEF Moves, Leaves
<1>8. \A b \in Block : Entry \notin Range(succ'[b])
  <2>1. Entry \in Block
    BY <1>1, BlockFacts DEF Entry
  <2>. QED
    BY <1>4, <1>7, <2>1 DEF Moves, NewEdges, EntryFirst
<1>. QED
  BY <1>6, <1>8 DEF EntryFirst

\* A step to another block keeps the invariant.
LEMMA MoveKeeps ==
  ASSUME RInv, EInv', NEW m \in Nat, NEW f \in Frame, NEW h \in Block \cup {NoBlock},
         Moves(m, f, h)
  PROVE  RInv'
<1>1. EInv /\ Nested /\ OpenLoops /\ EntryFirst /\ NoSelfLoop
  BY DEF RInv
<1>2. PICK rank, clock, fin :
        /\ Times(rank, clock) /\ Ordered(rank, fin) /\ ClosedLoops(fin)
        /\ Entered(rank, fin) /\ Single(fin)
  BY DEF RInv
<1>. PICK n : n = insert'
  OBVIOUS
<1>. PICK later : later = [rank EXCEPT ![n] = clock + 1]
  OBVIOUS
<1>. PICK closed : closed = [b \in Block |-> IF b = h THEN nextBlock ELSE fin[b]]
  OBVIOUS
<1>3. Nested' /\ OpenLoops' /\ EntryFirst' /\ NoSelfLoop'
  BY <1>1, NestedStep, OpenStep, EntryStep, SelfStep
<1>4. Times(later, clock + 1)'
  BY <1>1, <1>2, TimesStep
<1>5. Ordered(later, closed)'
  <2>1. fin \in [Block -> Nat] /\ \A b \in Block : fin[b] <= nextBlock
    BY <1>2 DEF ClosedLoops
  <2>2. closed \in [Block -> Nat] /\ \A b \in Block : fin[b] <= closed[b]
    BY <1>1, <2>1, StateFacts
  <2>3. h # NoBlock => closed[h] = nextBlock
    OBVIOUS
  <2>. QED
    BY <1>1, <1>2, <2>1, <2>2, <2>3, OrderedStep
<1>6. ClosedLoops(closed)'
  BY <1>1, <1>2, ClosedStep
<1>7. Leaving(h, fin, closed)
  BY <1>1, <1>2, StateFacts DEF ClosedLoops, Leaving
<1>8. Entered(later, closed)'
  BY <1>1, <1>2, <1>7, EnteredStep
<1>9. Single(closed)'
  <2>1. succ' \in [Block -> Seq(Block)]
    BY DEF EInv, IInv, BuilderTypeOK
  <2>. QED
    BY <1>1, <1>2, <1>7, <2>1, SingleStep
<1>. QED
  BY <1>3, <1>4, <1>5, <1>6, <1>8, <1>9 DEF RInv

\* A step that stays in its block and adds no edge.
LEMMA StayKeeps ==
  ASSUME RInv, EInv', UNCHANGED <<succ, insert, nextBlock>>,
         \A i \in DOMAIN frames' : i \in DOMAIN frames /\ frames'[i] = frames[i]
  PROVE  RInv'
<1>1. EInv /\ Nested /\ OpenLoops /\ EntryFirst /\ NoSelfLoop
  BY DEF RInv
<1>2. PICK rank, clock, fin :
        /\ Times(rank, clock) /\ Ordered(rank, fin) /\ ClosedLoops(fin)
        /\ Entered(rank, fin) /\ Single(fin)
  BY DEF RInv
<1>3. Nested' /\ OpenLoops' /\ EntryFirst' /\ NoSelfLoop'
  BY <1>1 DEF Nested, OpenLoops, EntryFirst, NoSelfLoop
<1>4. Awaited' \subseteq Awaited
  BY DEF Awaited
<1>5. Times(rank, clock)'
  BY <1>2, <1>4 DEF Times
<1>6. Ordered(rank, fin)' /\ ClosedLoops(fin)'
  BY <1>2 DEF Ordered, ClosedLoops
<1>7. Entered(rank, fin)' /\ Single(fin)'
  BY <1>2 DEF Entered, Single, Headers
<1>. QED
  BY <1>3, <1>5, <1>6, <1>7 DEF RInv
----------------------------------------------------------------------------
(***************************************************************************)
(* One lemma for each action that moves.                                   *)
(***************************************************************************)
\* The frame that stands for none, where a step pushes none.
LEMMA NoFrame ==
  LET f == Frm("fun", NoBlock, NoBlock)
  IN  f \in Frame /\ f.other = NoBlock /\ f.cont = NoBlock /\ ~Loop(f)
BY DEF Frm, Frame, Loop

\* The edges create_br makes.
LEMMA BranchMoves ==
  ASSUME EInv, NEW t \in Block, succ' = BrSucc(t), NEW h, t \in Ahead \/ t = h
  PROVE  NewEdges(h) /\ (~Terminated(insert) => Range(succ'[insert]) = {t})
<1>1. succ \in [Block -> Seq(Block)] /\ insert \in Block
  BY FreshFacts DEF EInv
<1>2. CASE Terminated(insert)
  BY <1>2 DEF BrSucc, NewEdges
<1>3. CASE ~Terminated(insert)
  <2>1. succ' = PushBack(succ, insert, t)
    BY <1>3 DEF BrSucc
  <2>2. \A x : x \in Range(PushBack(succ, insert, t)[insert])
                 <=> x \in Range(succ[insert]) \/ x = t
    BY <1>1, LinkRange
  <2>3. \A b \in Block \ {insert} : PushBack(succ, insert, t)[b] = succ[b]
    BY <1>1, PushLink
  <2>4. Range(succ[insert]) = {}
    BY <1>3, OpenBlock
  <2>5. Range(succ'[insert]) = {t}
    BY <2>1, <2>2, <2>4
  <2>. QED
    BY <2>1, <2>2, <2>3, <2>4, <2>5 DEF NewEdges
<1>. QED
  BY <1>2, <1>3

\* The edges a conditional branch makes.
LEMMA CondBranchMoves ==
  ASSUME EInv, NEW t \in Block, NEW e \in Block,
         succ' = PushBack(PushBack(succ, insert, e), insert, t), t \in Ahead, e \in Ahead,
         ~Terminated(insert)
  PROVE  NewEdges(NoBlock)
<1>1. succ \in [Block -> Seq(Block)] /\ insert \in Block
  BY FreshFacts DEF EInv
<1>2. \A x : x \in Range(PushBack(PushBack(succ, insert, e), insert, t)[insert])
               <=> x \in Range(succ[insert]) \/ x = t \/ x = e
  BY <1>1, LinkTwoRange
<1>3. \A b \in Block \ {insert} : PushBack(PushBack(succ, insert, e), insert, t)[b] = succ[b]
  BY <1>1 DEF PushBack
<1>4. Range(succ[insert]) = {}
  BY OpenBlock
<1>5. NoBlock # t /\ NoBlock # e
  BY StateFacts
<1>. QED
  BY <1>2, <1>3, <1>4, <1>5 DEF NewEdges

\* A visitor that returns to a block it awaits.
LEMMA PopMoves ==
  ASSUME RInv, EInv', frames # << >>, frames' = Below, nextBlock' = nextBlock,
         insert' \in Block, insert' \in AwaitedBy(Top),
         NEW h \in Block \cup {NoBlock}, NewEdges(h),
         h # NoBlock => Top.kind = "body" /\ h = Top.other
  PROVE  RInv'
<1>1. EInv /\ nextBlock \in Nat
  BY StateFacts DEF RInv
<1>2. /\ Len(Below) = Len(frames) - 1 /\ Below \in Seq(Frame) /\ Len(frames) \in Nat \ {0}
      /\ \A i \in 1..Len(frames) - 1 : Below[i] = frames[i]
  BY <1>1, BelowFacts DEF EInv, IInv
<1>3. \A i \in DOMAIN frames' : i < Len(frames) /\ i \in DOMAIN frames /\ frames'[i] = frames[i]
  <2>1. DOMAIN frames' = 1..Len(frames) - 1 /\ DOMAIN frames = 1..Len(frames)
    BY <1>1, <1>2, FrameFacts DEF EInv, IInv
  <2>. QED
    BY <1>2, <2>1
<1>. DEFINE f == Frm("fun", NoBlock, NoBlock)
<1>4. f \in Frame /\ f.other = NoBlock /\ f.cont = NoBlock /\ ~Loop(f)
  BY NoFrame
<1>. HIDE DEF f
<1>5. insert' \in Ahead
  BY DEF Ahead
<1>6. Moves(Len(frames), f, h)
  BY <1>1, <1>3, <1>4, <1>5 DEF Moves, KeptBelow, NewFrame, Leaves
<1>. QED
  BY <1>2, <1>4, <1>6, MoveKeeps

\* f is on top of the stack next, above the old top or in its place.
NewTop(f) ==
  \/ Pushed(f) /\ NewFrame(Len(frames) + 1, f)
  \/ frames # << >> /\ Replaced(f) /\ NewFrame(Len(frames), f)

\* A visitor that goes on to its next child, or a new one.
LEMMA PushMoves ==
  ASSUME RInv, EInv', NEW f \in Frame, NewTop(f),
         nextBlock' >= nextBlock, insert' \in Ahead, NewEdges(NoBlock)
  PROVE  RInv'
<1>1. EInv /\ frames \in Seq(Frame) /\ Len(frames) \in Nat /\ DOMAIN frames = 1..Len(frames)
  BY FrameFacts DEF RInv, EInv, IInv
<1>2. Leaves(NoBlock)
  BY DEF Leaves
<1>3. CASE Pushed(f) /\ NewFrame(Len(frames) + 1, f)
  <2>1. KeptBelow(Len(frames) + 1, f)
    BY <1>1, <1>3 DEF KeptBelow, Pushed
  <2>2. Moves(Len(frames) + 1, f, NoBlock) /\ Len(frames) + 1 \in Nat
    BY <1>1, <1>2, <1>3, <2>1 DEF Moves
  <2>. QED
    BY <2>2, MoveKeeps
<1>4. CASE frames # << >> /\ Replaced(f) /\ NewFrame(Len(frames), f)
  <2>1. KeptBelow(Len(frames), f)
    BY <1>1, <1>4 DEF KeptBelow, Replaced
  <2>2. Moves(Len(frames), f, NoBlock) /\ Len(frames) \in Nat
    BY <1>1, <1>2, <1>4, <2>1 DEF Moves
  <2>. QED
    BY <2>2, MoveKeeps
<1>. QED
  BY <1>3, <1>4 DEF NewTop

\* The end of a second branch.
LEMMA LeaveElseReducible == RInv /\ LeaveElse => RInv'
<1>. SUFFICES ASSUME RInv, LeaveElse PROVE RInv'
  OBVIOUS
<1>1. /\ frames # << >> /\ Top.kind = "else" /\ frames' = Below /\ nextBlock' = nextBlock
      /\ succ' = BrSucc(Top.cont) /\ insert' = Top.cont
  BY DEF LeaveElse, InFrame
<1>2. EInv /\ EInv'
  BY LeaveElseEdges DEF RInv
<1>3. Top.cont \in Block /\ Top.cont \in AwaitedBy(Top)
  BY <1>1, <1>2, TopFacts DEF EInv, AwaitedBy
<1>4. NewEdges(NoBlock)
  BY <1>1, <1>2, <1>3, BranchMoves DEF Ahead
<1>. QED
  BY <1>1, <1>2, <1>3, <1>4, PopMoves

\* The end of a loop: the branch back to the header.
LEMMA LeaveBodyReducible == RInv /\ LeaveBody => RInv'
<1>. SUFFICES ASSUME RInv, LeaveBody PROVE RInv'
  OBVIOUS
<1>1. /\ frames # << >> /\ Top.kind = "body" /\ frames' = Below /\ nextBlock' = nextBlock
      /\ succ' = BrSucc(Top.other) /\ insert' = Top.cont
  BY DEF LeaveBody, InFrame
<1>2. EInv /\ EInv'
  BY LeaveBodyEdges DEF RInv
<1>3. Top.other \in Block /\ Top.cont \in Block /\ Top.cont \in AwaitedBy(Top)
  BY <1>1, <1>2, TopFacts DEF EInv, AwaitedBy
<1>4. NewEdges(Top.other)
  BY <1>1, <1>2, <1>3, BranchMoves
<1>. QED
  BY <1>1, <1>2, <1>3, <1>4, PopMoves

\* The end of a first branch without else: no edge is lost with the block
\* that is erased.
LEMMA LeaveIfReducible == RInv /\ LeaveIf => RInv'
<1>. SUFFICES ASSUME RInv, LeaveIf PROVE RInv'
  OBVIOUS
<1>1. /\ frames # << >> /\ Top.kind = "if" /\ frames' = Below /\ nextBlock' = nextBlock
      /\ succ' = Unlink(BrSucc(Top.cont), Preds(Top.other), Top.other) /\ insert' = Top.cont
  BY DEF LeaveIf, InFrame
<1>2. EInv /\ EInv'
  BY LeaveIfEdges DEF RInv
<1>3. /\ Top.other \in Block /\ Top.cont \in Block /\ Top.cont \in AwaitedBy(Top)
      /\ Len(frames) \in DOMAIN frames /\ Top = frames[Len(frames)]
  BY <1>1, <1>2, TopFacts DEF EInv, AwaitedBy
<1>4. succ' = BrSucc(Top.cont)
  <2>1. pre[Top.other] = << >>
    BY <1>1, <1>2, <1>3 DEF EInv, IInv, AwaitedBlank
  <2>2. Preds(Top.other) = {}
    BY <2>1 DEF Preds, Range
  <2>3. \A lists \in [Block -> Seq(Block)] : Unlink(lists, {}, Top.other) = lists
    BY DEF Unlink
  <2>4. BrSucc(Top.cont) \in [Block -> Seq(Block)]
    BY <1>2, <1>3, BranchStep DEF EInv, IInv
  <2>. QED
    BY <1>1, <2>2, <2>3, <2>4
<1>5. NewEdges(NoBlock)
  BY <1>1, <1>2, <1>3, <1>4, BranchMoves DEF Ahead
<1>. QED
  BY <1>1, <1>2, <1>3, <1>5, PopMoves

\* The end of a first branch, with an else.
LEMMA LeaveThenReducible == RInv /\ LeaveThen => RInv'
<1>. SUFFICES ASSUME RInv, LeaveThen PROVE RInv'
  OBVIOUS
<1>. DEFINE f == Frm("else", NoBlock, Top.cont)
<1>1. /\ frames # << >> /\ Top.kind = "then" /\ frames' = Append(Below, f)
      /\ nextBlock' = nextBlock /\ succ' = BrSucc(Top.cont) /\ insert' = Top.other
  BY DEF LeaveThen, InFrame
<1>2. EInv /\ EInv' /\ nextBlock \in Nat
  BY LeaveThenEdges, StateFacts DEF RInv
<1>3. /\ Top.other \in Block /\ Top.cont \in Block
      /\ Top.cont \in AwaitedBy(Top) /\ Top.other \in AwaitedBy(Top)
  BY <1>1, <1>2, TopFacts DEF EInv, AwaitedBy
<1>4. f \in Frame /\ f.other = NoBlock /\ f.cont = Top.cont /\ ~Loop(f)
  BY <1>3 DEF Frm, Frame, Loop
<1>. HIDE DEF f
<1>5. Top.other \in Ahead /\ Top.cont \in Ahead
  BY <1>1, <1>3 DEF Ahead
<1>6. NewEdges(NoBlock)
  BY <1>1, <1>2, <1>3, <1>5, BranchMoves
<1>7. Replaced(f)
  BY <1>1, <1>2, <1>4, AppendIsReplaced DEF EInv, IInv
<1>8. NewFrame(Len(frames), f)
  BY <1>4, <1>5 DEF NewFrame
<1>. QED
  BY <1>1, <1>2, <1>4, <1>5, <1>6, <1>7, <1>8, PushMoves DEF NewTop

\* A loop starts.
LEMMA EnterIterationReducible == RInv /\ EnterIteration => RInv'
<1>. SUFFICES ASSUME RInv, EnterIteration PROVE RInv'
  OBVIOUS
<1>. DEFINE f == Frm("cond", nextBlock, NoBlock)
<1>1. /\ Fits(3, 0) /\ ~Terminated(insert) /\ succ' = BrSucc(nextBlock)
      /\ insert' = nextBlock /\ frames' = Append(frames, f) /\ nextBlock' = nextBlock + 1
  BY DEF EnterIteration, Statement, Visiting
<1>2. EInv /\ EInv' /\ nextBlock \in Nat
  BY EnterIterationEdges, StateFacts DEF RInv
<1>3. nextBlock \in Block /\ nextBlock \in Ahead
  <2>1. \A k \in Nat : k < 3 => nextBlock + k \in Block
    BY <1>1, <1>2, FitsFacts DEF EInv
  <2>2. nextBlock + 0 \in Block
    BY <2>1
  <2>. QED
    BY <1>2, <2>2 DEF Ahead
<1>4. f \in Frame /\ f.kind = "cond" /\ f.other = nextBlock /\ f.cont = NoBlock
  BY <1>3 DEF Frm, Frame
<1>. HIDE DEF f
<1>5. NewEdges(NoBlock) /\ Range(succ'[insert]) = {nextBlock}
  BY <1>1, <1>2, <1>3, BranchMoves
<1>6. Pushed(f)
  BY <1>1, <1>2, <1>4, AppendIsPushed DEF EInv, IInv
<1>7. NewFrame(Len(frames) + 1, f)
  BY <1>1, <1>3, <1>4, <1>5 DEF NewFrame
<1>8. nextBlock' >= nextBlock /\ insert' \in Ahead
  BY <1>1, <1>2, <1>3
<1>9. NewTop(f)
  BY <1>6, <1>7 DEF NewTop
<1>. QED
  BY <1>2, <1>4, <1>5, <1>8, <1>9, PushMoves

\* A selection starts.
LEMMA EnterSelectionReducible ==
  ASSUME RInv, NEW hasElse \in BOOLEAN, EnterSelection(hasElse)
  PROVE  RInv'
<1>. DEFINE trueBB  == nextBlock
            falseBB == nextBlock + 1
            contBB  == nextBlock + 2
            other   == IF hasElse THEN falseBB ELSE contBB
            f       == Frm(IF hasElse THEN "then" ELSE "if", falseBB, contBB)
<1>1. /\ Fits(3, 0) /\ ~Terminated(insert)
      /\ succ' = PushBack(PushBack(succ, insert, other), insert, trueBB)
      /\ insert' = trueBB /\ frames' = Append(frames, f) /\ nextBlock' = nextBlock + 3
  BY DEF EnterSelection, Statement, Visiting
<1>2. EInv /\ EInv' /\ nextBlock \in Nat
  BY EnterSelectionEdges, StateFacts DEF RInv
<1>3. trueBB \in Ahead /\ falseBB \in Ahead /\ contBB \in Ahead
  <2>1. \A k \in Nat : k < 3 => nextBlock + k \in Block
    BY <1>1, <1>2, FitsFacts DEF EInv
  <2>2. nextBlock + 0 \in Block /\ nextBlock + 1 \in Block /\ nextBlock + 2 \in Block
    BY <2>1
  <2>. QED
    BY <1>2, <2>2 DEF Ahead
<1>4. other \in Ahead /\ Ahead \subseteq Block
  BY <1>3 DEF Ahead
<1>5. f \in Frame /\ f.other = falseBB /\ f.cont = contBB /\ ~Loop(f)
  BY <1>3, <1>4 DEF Frm, Frame, Loop
<1>6. nextBlock' >= nextBlock
  BY <1>1, <1>2
<1>. HIDE DEF f, other, trueBB, falseBB, contBB
<1>7. NewEdges(NoBlock)
  BY <1>1, <1>2, <1>3, <1>4, CondBranchMoves
<1>8. Pushed(f)
  BY <1>1, <1>2, <1>5, AppendIsPushed DEF EInv, IInv
<1>9. NewFrame(Len(frames) + 1, f)
  BY <1>3, <1>5 DEF NewFrame
<1>10. insert' \in Ahead
  BY <1>1, <1>3
<1>11. NewTop(f)
  BY <1>8, <1>9 DEF NewTop
<1>. QED
  BY <1>2, <1>5, <1>6, <1>7, <1>10, <1>11, PushMoves

\* A loop condition ends.
LEMMA EnterBodyReducible == RInv /\ EnterBody => RInv'
<1>. SUFFICES ASSUME RInv, EnterBody PROVE RInv'
  OBVIOUS
<1>. DEFINE trueBB == nextBlock
            contBB == nextBlock + 1
            f      == Frm("body", Top.other, contBB)
<1>1. /\ frames # << >> /\ Top.kind = "cond"
      /\ succ' = PushBack(PushBack(succ, insert, contBB), insert, trueBB)
      /\ insert' = trueBB /\ frames' = Append(Below, f) /\ nextBlock' = nextBlock + 2
  BY DEF EnterBody, InFrame
<1>2. EInv /\ EInv' /\ nextBlock \in Nat /\ ~Terminated(insert)
  <2>1. EInv /\ EInv' /\ nextBlock \in Nat
    BY EnterBodyEdges, StateFacts DEF RInv
  <2>. QED
    BY <1>1, <2>1 DEF EInv, IInv, ConditionOpen, InFrame
<1>3. trueBB \in Ahead /\ contBB \in Ahead /\ Ahead \subseteq Block
  <2>1. nextBlock < MaxBlocks
    BY <1>1, <1>2 DEF EInv, IInv, ConditionOpen, InFrame
  <2>2. nextBlock >= 2 /\ MaxBlocks \in Nat
    BY <1>2, FreshFacts, BlockFacts DEF EInv
  <2>3. nextBlock \in Block /\ nextBlock + 1 \in Block
    BY <1>2, <2>1, <2>2, BlockFacts
  <2>. QED
    BY <1>2, <2>3 DEF Ahead
<1>4. Top.other \in Block
  BY <1>1, <1>2, TopFacts DEF EInv
<1>5. /\ f \in Frame /\ f.other = Top.other /\ f.cont = contBB /\ f.cont >= nextBlock
      /\ Loop(Top)
  BY <1>1, <1>2, <1>3, <1>4 DEF Frm, Frame, Loop
<1>6. nextBlock' >= nextBlock
  BY <1>1, <1>2
<1>. HIDE DEF trueBB, contBB
<1>7. NewEdges(NoBlock)
  BY <1>1, <1>2, <1>3, CondBranchMoves
<1>8. Loop(f)
  BY DEF Frm, Loop
<1>. HIDE DEF f
<1>9. Replaced(f)
  BY <1>1, <1>2, <1>5, AppendIsReplaced DEF EInv, IInv
<1>10. NewFrame(Len(frames), f)
  BY <1>1, <1>3, <1>5, <1>8 DEF NewFrame
<1>. QED
  BY <1>1, <1>2, <1>3, <1>5, <1>6, <1>7, <1>9, <1>10, PushMoves DEF NewTop

\* An index check.
LEMMA VisitIndexedVarReducible ==
  ASSUME RInv, NEW base \in {Opaque} \cup ArraysOf(insert), VisitIndexedVar(base)
  PROVE  RInv'
<1>. DEFINE exceptBB == nextBlock
            contBB   == nextBlock + 1
            f        == Frm("fun", NoBlock, NoBlock)
            m        == Len(frames) + 1
<1>1. /\ Fits(2, 0) /\ ~Terminated(insert)
      /\ succ' = PushBack(PushBack(succ, insert, contBB), insert, exceptBB)
      /\ insert' = contBB /\ frames' = frames /\ nextBlock' = nextBlock + 2
  BY DEF VisitIndexedVar, Visiting
<1>2. EInv /\ EInv' /\ nextBlock \in Nat
  BY VisitIndexedVarEdges, StateFacts DEF RInv
<1>3. exceptBB \in Ahead /\ contBB \in Ahead /\ Ahead \subseteq Block
  <2>1. \A k \in Nat : k < 2 => nextBlock + k \in Block
    BY <1>1, <1>2, FitsFacts DEF EInv
  <2>2. nextBlock + 0 \in Block /\ nextBlock + 1 \in Block
    BY <2>1
  <2>. QED
    BY <1>2, <2>2 DEF Ahead
<1>4. nextBlock' >= nextBlock
  BY <1>1, <1>2
<1>5. f \in Frame /\ f.other = NoBlock /\ f.cont = NoBlock /\ ~Loop(f)
  BY NoFrame
<1>6. m \in Nat /\ \A i \in DOMAIN frames : i < m
  BY <1>2, FrameFacts DEF EInv, IInv
<1>. HIDE DEF f, m, exceptBB, contBB
<1>7. NewEdges(NoBlock)
  BY <1>1, <1>2, <1>3, CondBranchMoves
<1>8. Moves(m, f, NoBlock)
  BY <1>1, <1>3, <1>4, <1>5, <1>6, <1>7 DEF Moves, KeptBelow, NewFrame, Leaves
<1>. QED
  BY <1>2, <1>5, <1>6, <1>8, MoveKeeps
----------------------------------------------------------------------------
\* The steps that stay in their block.
LEMMA EmitReducible ==
  ASSUME RInv, EInv', NEW i, Emit(i)
  PROVE  RInv'
<1>1. UNCHANGED <<succ, insert, nextBlock>> /\ frames' = frames
  BY DEF Emit
<1>. QED
  BY <1>1, StayKeeps

\* The function is left.
LEMMA LeaveFunctionReducible == RInv /\ LeaveFunction => RInv'
<1>. SUFFICES ASSUME RInv, LeaveFunction PROVE RInv'
  OBVIOUS
<1>1. /\ frames # << >> /\ frames' = Below
      /\ UNCHANGED <<succ, insert, nextBlock>>
  BY DEF LeaveFunction, InFrame
<1>2. EInv /\ EInv'
  BY LeaveFunctionEdges DEF RInv
<1>3. \A i \in DOMAIN frames' : i \in DOMAIN frames /\ frames'[i] = frames[i]
  BY <1>1, <1>2, BelowFacts, FrameFacts DEF EInv, IInv
<1>. QED
  BY <1>1, <1>2, <1>3, StayKeeps

\* The function starts with one block, at time 1.
LEMMA InitReducible == BuilderInit => RInv
<1>. SUFFICES ASSUME BuilderInit PROVE RInv
  OBVIOUS
<1>1. EInv
  BY InitEdges
<1>2. /\ insert = 1 /\ frames = <<Frm("fun", NoBlock, NoBlock)>> /\ nextBlock = 2
      /\ succ = [b \in Block |-> << >>] /\ Range(<< >>) = {}
  BY DEF BuilderInit, Entry, Range
<1>3. \A i \in DOMAIN frames :
        ~Loop(frames[i]) /\ frames[i].other = NoBlock /\ frames[i].cont = NoBlock
        /\ frames[i].kind = "fun"
  BY <1>2 DEF Frm, Loop
<1>4. Nested /\ OpenLoops /\ EntryFirst
  BY <1>2, <1>3 DEF Nested, OpenLoops, EntryFirst, Entry, NoBlock
<1>. DEFINE rank == [b \in Block |-> IF b = 1 THEN 1 ELSE 0]
            fin  == [b \in Block |-> 0]
<1>5. Times(rank, 1)
  <2>1. Awaited \subseteq {NoBlock}
    BY <1>3 DEF Awaited, AwaitedBy
  <2>2. 1 \in Block /\ \A b \in Block : b \in Nat /\ b # NoBlock
    BY <1>1, <1>2, StateFacts
  <2>3. rank \in [Block -> Nat] /\ rank[1] = 1 /\ \A b \in Block : rank[b] <= 1
    BY <2>2
  <2>4. \A b \in Block : b \in Awaited \/ b >= 2 => b # 1
    BY <1>1, <1>2, <2>1, <2>2, StateFacts
  <2>. QED
    BY <1>2, <2>2, <2>3, <2>4 DEF Times
<1>6. Ordered(rank, fin)
  BY <1>2 DEF Ordered
<1>7. ClosedLoops(fin)
  BY <1>1, <1>2, StateFacts DEF ClosedLoops, Inside
<1>8. Entered(rank, fin) /\ Single(fin) /\ NoSelfLoop
  BY <1>2, <1>3 DEF Entered, Single, Headers, NoSelfLoop
<1>. QED
  BY <1>1, <1>4, <1>5, <1>6, <1>7, <1>8 DEF RInv

\* Every step keeps the order of the blocks.
LEMMA NextReducible == RInv /\ [BuilderNext]_builderAndGraph => RInv'
<1>. SUFFICES ASSUME RInv, [BuilderNext]_builderAndGraph PROVE RInv'
  OBVIOUS
<1>1. EInv'
  BY NextEdges DEF RInv
<1>2. CASE VisitNum
  <2>1. UNCHANGED <<succ, insert, nextBlock>> /\ frames' = frames
    BY <1>2 DEF VisitNum, graphVars
  <2>. QED
    BY <1>1, <2>1, StayKeeps
<1>3. CASE \E v \in Vars : VisitVar(v)
  BY <1>1, <1>3, EmitReducible DEF VisitVar
<1>4. CASE \E v \in Vars, dropped \in BOOLEAN : VisitAssign(v, dropped)
  BY <1>1, <1>4, EmitReducible DEF VisitAssign
<1>5. CASE \E dropped \in BOOLEAN : VisitCall(dropped)
  BY <1>1, <1>5, EmitReducible DEF VisitCall
<1>6. CASE \E base \in {Opaque} \cup ArraysOf(insert) : VisitIndexedVar(base)
  BY <1>6, VisitIndexedVarReducible
<1>7. CASE VisitReturn
  BY <1>1, <1>7, EmitReducible DEF VisitReturn
<1>8. CASE \E hasElse \in BOOLEAN : EnterSelection(hasElse)
  BY <1>8, EnterSelectionReducible
<1>9. CASE LeaveIf \/ LeaveThen \/ LeaveElse
  BY <1>9, LeaveIfReducible, LeaveThenReducible, LeaveElseReducible
<1>10. CASE EnterIteration \/ EnterBody \/ LeaveBody
  BY <1>10, EnterIterationReducible, EnterBodyReducible, LeaveBodyReducible
<1>11. CASE LeaveFunction
  BY <1>11, LeaveFunctionReducible
<1>12. CASE UNCHANGED builderAndGraph
  <2>1. UNCHANGED <<succ, insert, nextBlock>> /\ frames' = frames
    BY <1>12 DEF builderAndGraph, graphVars, builderVars
  <2>. QED
    BY <1>1, <2>1, StayKeeps
<1>13. CASE VisitArrayDecl
  BY <1>1, <1>13, EmitReducible DEF VisitArrayDecl
<1>14. CASE BuilderNext
  BY <1>2, <1>3, <1>4, <1>5, <1>6, <1>7, <1>8, <1>9, <1>10, <1>11, <1>13, <1>14, ZenonT(30)
     DEF BuilderNext
<1>. QED
  BY <1>12, <1>14

\* The header of a loop that has been left dominates the blocks of the loop.
LEMMA HeaderDominates ==
  ASSUME EInv, NEW fin, ClosedLoops(fin), NEW b \in Block, NEW h \in Block, Inside(fin, h, b)
  PROVE  Dominates(h, b)
<1>. DEFINE S == {c \in Block : ~Inside(fin, h, c)}
<1>1. /\ succ \in [Block -> Seq(Block)] /\ Entry \in Block
      /\ \A c \in Block : c \in Nat /\ c > 0
  <2>1. succ \in [Block -> Seq(Block)]
    BY FreshFacts DEF EInv
  <2>2. 1 <= MaxBlocks /\ MaxBlocks \in Nat
    BY BlockFacts
  <2>3. Entry \in Block /\ \A c \in Block : c \in Nat /\ c > 0
    BY <2>2 DEF Entry, Block
  <2>. QED
    BY <2>1, <2>3
<1>2. Entry # h => Entry \in S
  BY <1>1 DEF Entry, Inside
<1>3. ASSUME NEW c \in S, NEW d \in Succs(c), d # h
      PROVE  d \in S
  <2>1. d \in Block /\ c \in Block /\ d \in Range(succ[c])
    BY <1>1 DEF Succs, Range
  <2>2. Inside(fin, h, d) => Inside(fin, h, c)
    BY <1>3, <2>1 DEF ClosedLoops
  <2>. QED
    BY <2>1, <2>2
<1>. HIDE DEF S
<1>4. S \in SUBSET Block
  BY DEF S
<1>5. ReachAvoid(Entry, h) \subseteq S
  BY <1>1, <1>2, <1>3, <1>4, ReachAvoidFacts
<1>6. b \notin S
  BY DEF S
<1>. QED
  BY <1>5, <1>6 DEF Dominates

\* Edges go forward in time, but those to a dominator.
Forward(lvl) ==
  /\ lvl \in [Block -> Nat]
  /\ \A b, c \in Block : c \in Succs(b) => lvl[b] < lvl[c] \/ Dominates(c, b)

\* The time at which a block was filled, those never filled last.
Level(rank, clock) == [b \in Block |-> IF rank[b] = 0 THEN clock + 1 ELSE rank[b]]

\* The times of the invariant are such an order.
LEMMA LevelIsForward ==
  ASSUME EInv, NEW rank, NEW clock, NEW fin,
         Times(rank, clock), Ordered(rank, fin), ClosedLoops(fin)
  PROVE  Forward(Level(rank, clock))
<1>. DEFINE lvl == Level(rank, clock)
<1>1. \A b \in Block : lvl[b] = IF rank[b] = 0 THEN clock + 1 ELSE rank[b]
  BY DEF Level
<1>2. lvl \in [Block -> Nat]
  BY DEF Times, Level
<1>. HIDE DEF lvl
<1>3. ASSUME NEW b \in Block, NEW c \in Block, c \in Succs(b), ~Dominates(c, b)
      PROVE  lvl[b] < lvl[c]
  <2>1. c \in Range(succ[b])
    BY <1>3 DEF Succs
  <2>2. /\ rank[b] \in Nat /\ rank[c] \in Nat /\ clock \in Nat
        /\ rank[b] > 0 /\ rank[b] <= clock
    BY <2>1 DEF Times
  <2>3. rank[c] = 0 \/ rank[b] < rank[c]
    BY <1>3, <2>1, HeaderDominates DEF Ordered
  <2>. QED
    BY <1>1, <2>2, <2>3
<1>4. Forward(lvl)
  BY <1>2, <1>3 DEF Forward
<1>. QED
  BY <1>4 DEF lvl

LEMMA TimeIsForward == RInv => \E lvl : Forward(lvl)
BY LevelIsForward DEF RInv

\* Without the edges to a dominator there is no cycle.
LEMMA NoForwardCycle ==
  ASSUME RInv
  PROVE  LET forward == [b \in Reachable |-> {c \in Succs(b) : ~Dominates(c, b)}]
         IN  \A b \in Reachable : b \notin Onward(forward, b)
<1>. DEFINE R       == Reachable
            forward == [b \in R |-> {c \in Succs(b) : ~Dominates(c, b)}]
<1>1. PICK lvl : Forward(lvl)
  BY TimeIsForward
<1>2. succ \in [Block -> Seq(Block)]
  BY FreshFacts DEF RInv, EInv
<1>3. R \in SUBSET Block /\ \A b \in R : Succs(b) \subseteq R
  BY <1>2, ReachableFacts
<1>4. forward \in [R -> SUBSET R] /\ \A b \in R : lvl[b] \in Nat
  BY <1>1, <1>3 DEF Forward
<1>5. \A b \in R : \A c \in forward[b] : lvl[b] < lvl[c]
  BY <1>1, <1>3 DEF Forward
<1>. HIDE DEF R, forward
<1>6. ASSUME NEW b \in R
      PROVE  b \notin Onward(forward, b)
  <2>. DEFINE S == {c \in R : lvl[b] < lvl[c]}
  <2>1. forward[b] \subseteq S
    BY <1>4, <1>5
  <2>2. \A c \in S : forward[c] \subseteq S
    BY <1>4, <1>5
  <2>3. b \notin S
    BY <1>4
  <2>. HIDE DEF S
  <2>4. S \in SUBSET R
    BY DEF S
  <2>5. Onward(forward, b) \subseteq S
    BY <1>3, <1>4, <2>1, <2>2, <2>4, OnwardFacts
  <2>. QED
    BY <2>3, <2>5
<1>. QED
  BY <1>6 DEF forward, R

----------------------------------------------------------------------------
(***************************************************************************)
(* What the passes are given.                                              *)
(***************************************************************************)
\* The two lists of neighbours are inverse and name blocks of the function; the
\* entry block is one, without predecessors.
GraphOK ==
  /\ bbs \subseteq Block
  /\ succ \in [Block -> Seq(Block)] /\ pre \in [Block -> Seq(Block)]
  /\ \A b, c \in Block : c \in Succs(b) <=> b \in Preds(c)
  /\ \A b, c \in Block : c \in Succs(b) => b \in bbs /\ c \in bbs
  /\ \A b \in Block : Entry \notin Succs(b)

\* The graph of the builder is one, at any time.
LEMMA GraphFacts == RInv => GraphOK
BY DEF GraphOK, RInv, EntryFirst, EInv, IInv, BuilderTypeOK, Edges, Mutual, Succs, Preds

\* A block has a predecessor that it does not dominate.
LEMMA ForwardPred ==
  ASSUME GraphOK, NEW b \in Reachable, b # Entry
  PROVE  \E p \in Reachable : b \in Succs(p) /\ ~Dominates(b, p)
<1>. SUFFICES ASSUME \A p \in Reachable : b \in Succs(p) => Dominates(b, p) PROVE FALSE
  OBVIOUS
<1>1. succ \in [Block -> Seq(Block)] /\ b \in Block /\ NoBlock \notin Block
  BY AvoidFacts DEF GraphOK
<1>2. Dominates(NoBlock, b)
  BY <1>1, DominatesAfter
<1>3. Avoiding(NoBlock) = Reachable
  BY DEF Avoiding, Reachable
<1>. QED
  BY <1>1, <1>2, <1>3, StrictlyDominates

\* A dominator is earlier in such an order.
LEMMA DominatorsAreEarlier ==
  ASSUME GraphOK, NEW lvl, Forward(lvl), NEW a \in Reachable, NEW b \in Reachable,
         a # b, Dominates(a, b)
  PROVE  lvl[a] < lvl[b]
<1>. DEFINE Late(c) == c \in Reachable /\ c # a /\ Dominates(a, c) /\ ~(lvl[a] < lvl[c])
            T == {lvl[c] : c \in {d \in Reachable : Late(d)}}
<1>1. /\ succ \in [Block -> Seq(Block)] /\ Reachable \subseteq Block
      /\ \A c \in Reachable : lvl[c] \in Nat
  BY ReachableFacts DEF GraphOK, Forward
<1>2. ASSUME NEW c \in Reachable, Late(c)
      PROVE  \E p \in Reachable : Late(p) /\ lvl[p] < lvl[c]
  <2>1. c # Entry
    BY <1>1, <1>2, EntryDominates
  <2>2. PICK p \in Reachable : c \in Succs(p) /\ ~Dominates(c, p)
    BY <2>1, ForwardPred
  <2>3. lvl[p] < lvl[c]
    BY <1>1, <2>2 DEF Forward
  <2>4. Dominates(a, p)
    BY <1>1, <1>2, <2>2, DominatesBefore
  <2>5. lvl[a] \in Nat /\ lvl[p] \in Nat /\ lvl[c] \in Nat
    BY <1>1
  <2>6. p # a /\ ~(lvl[a] < lvl[p])
    BY <1>2, <2>3, <2>5
  <2>. QED
    BY <2>3, <2>4, <2>6
<1>. SUFFICES ASSUME Late(b) PROVE FALSE
  OBVIOUS
<1>3. T \in SUBSET Nat /\ T # {}
  BY <1>1
<1>. HIDE DEF Late
<1>4. PICK c \in Reachable : Late(c) /\ \A d \in Reachable : Late(d) => lvl[c] <= lvl[d]
  <2>1. \A y \in T : \E d \in Reachable : Late(d) /\ y = lvl[d]
    OBVIOUS
  <2>2. \A d \in Reachable : Late(d) => lvl[d] \in T
    OBVIOUS
  <2>. HIDE DEF T
  <2>3. PICK x \in T : \A y \in T : x <= y
    BY <1>3, LeastNumber
  <2>. QED
    BY <2>1, <2>2, <2>3
<1>5. PICK p \in Reachable : Late(p) /\ lvl[p] < lvl[c]
  BY <1>2, <1>4
<1>6. lvl[c] \in Nat /\ lvl[p] \in Nat /\ lvl[c] <= lvl[p]
  BY <1>1, <1>4, <1>5
<1>. QED
  BY <1>5, <1>6

\* An edge of a loop: it goes back to a block that dominates its source.
Latch(h, t) == t \in Reachable /\ h \in Succs(t) /\ Dominates(h, t)

\* The graph as the searches for loops need it: in time but for the back
\* edges, no block branches to itself, a block that branches to a header
\* branches nowhere else, and one block enters the loop.
LoopsFormed ==
  /\ \E lvl : Forward(lvl)
  /\ \A b \in Block : b \notin Succs(b)
  /\ \A h, t \in Block : Latch(h, t) =>
       /\ \A p \in Block : h \in Succs(p) => Succs(p) = {h}
       /\ \A p, q \in Reachable : /\ h \in Succs(p) /\ ~Dominates(h, p)
                                 /\ h \in Succs(q) /\ ~Dominates(h, q) => p = q

\* d is the immediate dominator of b.
IsIdom(d, b) ==
  /\ d \in Reachable /\ d # b /\ Dominates(d, b)
  /\ \A a \in Reachable : Dominates(a, b) /\ a # b => Dominates(a, d)

\* There is one immediate dominator.
LEMMA OneIdom ==
  ASSUME GraphOK, NEW b, NEW c, NEW d, IsIdom(c, b), IsIdom(d, b)
  PROVE  c = d
<1>1. c \in Reachable /\ d \in Reachable /\ Dominates(c, d) /\ Dominates(d, c)
  BY DEF IsIdom
<1>. QED
  BY <1>1, DominatesOneWay DEF GraphOK

\* The relation of the reference notions is dominance of reachable blocks.
LEMMA DominanceFacts ==
  ASSUME GraphOK
  PROVE  /\ \A a, b : <<a, b>> \in Dominance <=>
                        a \in Reachable /\ b \in Reachable /\ Dominates(a, b)
         /\ \A e \in Dominance : e = <<e[1], e[2]>>
<1>. DEFINE R     == Reachable
            pairs == R \X R
            apart == UNION {{a} \X ReachAvoid(Entry, a) : a \in R}
<1>1. Dominance = pairs \ apart
  BY DEF Dominance
<1>2. \A a, b : <<a, b>> \in apart <=> a \in R /\ b \in Avoiding(a)
  BY DEF Avoiding
<1>3. \A a, b : <<a, b>> \in pairs <=> a \in R /\ b \in R
  OBVIOUS
<1>4. \A e \in pairs : e = <<e[1], e[2]>>
  OBVIOUS
<1>5. \A a : a \notin Avoiding(a)
  BY AvoidFacts DEF GraphOK
<1>. HIDE DEF R, pairs, apart
<1>6. ASSUME NEW a, NEW b
      PROVE  <<a, b>> \in Dominance <=> a \in R /\ b \in R /\ Dominates(a, b)
  <2>1. <<a, b>> \in Dominance <=> a \in R /\ b \in R /\ ~(a \in R /\ b \in Avoiding(a))
    BY <1>1, <1>2, <1>3
  <2>2. Dominates(a, b) <=> b \notin Avoiding(a)
    BY <1>5, StrictlyDominates
  <2>. QED
    BY <2>1, <2>2
<1>. QED
  BY <1>1, <1>4, <1>6 DEF R

\* So are its immediate dominators.
LEMMA RefIdomsFacts ==
  ASSUME GraphOK
  PROVE  /\ \A a, b : <<a, b>> \in RefIdoms(Dominance) <=> b \in Reachable /\ IsIdom(a, b)
         /\ \A e \in RefIdoms(Dominance) : e = <<e[1], e[2]>>
<1>. DEFINE dom == Dominance
<1>1. /\ \A a, b : <<a, b>> \in dom <=> a \in Reachable /\ b \in Reachable /\ Dominates(a, b)
      /\ \A e \in dom : e = <<e[1], e[2]>>
  BY DominanceFacts
<1>2. \A e : e \in RefIdoms(dom) <=>
        /\ e \in dom /\ e[1] # e[2]
        /\ \A c \in dom : c[2] = e[2] /\ c[1] # e[2] => <<c[1], e[1]>> \in dom
  BY DEF RefIdoms
<1>. HIDE DEF dom
<1>3. ASSUME NEW a, NEW b, <<a, b>> \in RefIdoms(dom)
      PROVE  b \in Reachable /\ IsIdom(a, b)
  <2>1. /\ <<a, b>> \in dom /\ a # b
        /\ \A c \in dom : c[2] = b /\ c[1] # b => <<c[1], a>> \in dom
    BY <1>2, <1>3
  <2>2. ASSUME NEW c \in Reachable, Dominates(c, b), c # b
        PROVE  Dominates(c, a)
    <3>1. <<c, b>> \in dom
      BY <1>1, <2>1, <2>2
    <3>2. <<c, a>> \in dom
      BY <2>1, <2>2, <3>1
    <3>. QED
      BY <1>1, <3>2
  <2>. QED
    BY <1>1, <2>1, <2>2 DEF IsIdom
<1>4. ASSUME NEW a, NEW b \in Reachable, IsIdom(a, b)
      PROVE  <<a, b>> \in RefIdoms(dom)
  <2>1. a \in Reachable /\ a # b /\ Dominates(a, b) /\ <<a, b>> \in dom
    BY <1>1, <1>4 DEF IsIdom
  <2>2. ASSUME NEW c \in dom, c[2] = b, c[1] # b
        PROVE  <<c[1], a>> \in dom
    <3>1. <<c[1], b>> \in dom
      BY <1>1, <2>2
    <3>. QED
      BY <1>1, <1>4, <2>1, <2>2, <3>1 DEF IsIdom
  <2>3. <<a, b>>[1] = a /\ <<a, b>>[2] = b
    OBVIOUS
  <2>. QED
    BY <1>2, <2>1, <2>2, <2>3
<1>. QED
  BY <1>1, <1>2, <1>3, <1>4 DEF dom

\* A reachable block other than the entry has one.
LEMMA IdomExists ==
  ASSUME GraphOK, NEW lvl, Forward(lvl), NEW b \in Reachable, b # Entry
  PROVE  \E d : IsIdom(d, b)
<1>. DEFINE S == {n \in Nat : \E d \in Reachable : d # b /\ Dominates(d, b) /\ n = lvl[b] - lvl[d]}
<1>1. /\ succ \in [Block -> Seq(Block)] /\ Reachable \subseteq Block /\ Entry \in Reachable
      /\ \A c \in Reachable : lvl[c] \in Nat
  BY ReachableFacts DEF GraphOK, Forward
<1>2. \A d \in Reachable : d # b /\ Dominates(d, b) => lvl[d] < lvl[b]
  BY DominatorsAreEarlier
<1>3. \A d \in Reachable : d # b /\ Dominates(d, b) => lvl[b] - lvl[d] \in S
  BY <1>1, <1>2
<1>4. Dominates(Entry, b)
  BY <1>1, EntryDominates
<1>5. PICK n \in S : \A m \in S : n <= m
  <2>. HIDE DEF S
  <2>1. S \in SUBSET Nat
    BY DEF S
  <2>2. S # {}
    BY <1>1, <1>3, <1>4
  <2>. QED
    BY <2>1, <2>2, LeastNumber
<1>6. PICK d \in Reachable : d # b /\ Dominates(d, b) /\ n = lvl[b] - lvl[d]
  BY <1>5
<1>7. ASSUME NEW a \in Reachable, Dominates(a, b), a # b
      PROVE  Dominates(a, d)
  <2>1. CASE Dominates(a, d)
    BY <2>1
  <2>2. CASE Dominates(d, a) /\ a # d
    <3>1. lvl[d] < lvl[a]
      BY <2>2, DominatorsAreEarlier
    <3>2. lvl[b] - lvl[a] \in S
      BY <1>3, <1>7
    <3>3. lvl[b] - lvl[d] <= lvl[b] - lvl[a]
      BY <1>5, <1>6, <3>2
    <3>. QED
      BY <1>1, <3>1, <3>3
  <2>3. Dominates(a, d) \/ Dominates(d, a)
    BY <1>1, <1>6, <1>7, DominatorsAreChained
  <2>4. a = d => Dominates(a, d)
    BY StrictlyDominates
  <2>. QED
    BY <2>1, <2>2, <2>3, <2>4
<1>. QED
  BY <1>6, <1>7 DEF IsIdom

\* While the edges stay, so does all that is said of paths.
LEMMA EdgesStay ==
  ASSUME bbs' = bbs, pre' = pre, succ' = succ
  PROVE  /\ succ' = succ /\ pre' = pre /\ bbs' = bbs
         /\ Reachable' = Reachable
         /\ \A a : Avoiding(a)' = Avoiding(a)
         /\ \A a, b : Dominates(a, b)' <=> Dominates(a, b)
         /\ \A b : Succs(b)' = Succs(b) /\ Preds(b)' = Preds(b)
         /\ GraphOK => GraphOK'
         /\ \A lvl : Forward(lvl) => Forward(lvl)'
<1>1. succ' = succ /\ pre' = pre /\ bbs' = bbs
  OBVIOUS
<1>2. \A r, a : ReachAvoid(r, a)' = ReachAvoid(r, a)
  BY <1>1 DEF ReachAvoid, Succs
<1>3. \A b : Succs(b)' = Succs(b) /\ Preds(b)' = Preds(b)
  BY <1>1 DEF Succs, Preds
<1>4. Reachable' = Reachable
  BY <1>2 DEF Reachable
<1>5. \A a : Avoiding(a)' = Avoiding(a)
  BY <1>2 DEF Avoiding
<1>6. \A a, b : Dominates(a, b)' <=> Dominates(a, b)
  BY <1>2 DEF Dominates
<1>7. GraphOK => GraphOK'
  BY <1>1, <1>3 DEF GraphOK
<1>8. \A lvl : Forward(lvl) => Forward(lvl)'
  BY <1>3, <1>6 DEF Forward
<1>. QED
  BY <1>1, <1>3, <1>4, <1>5, <1>6, <1>7, <1>8

\* No handler of the builder runs when the function is done.
LEMMA BuilderIsOver == Done => ~BuilderNext
<1>. SUFFICES ASSUME Done, BuilderNext PROVE FALSE
  OBVIOUS
<1>. QED
  BY DEF BuilderNext, Done, VisitNum, VisitVar, VisitAssign, VisitCall, VisitIndexedVar, VisitArrayDecl,
         VisitReturn, EnterSelection, EnterIteration, EnterBody, LeaveBody, LeaveIf, LeaveThen,
         LeaveElse, LeaveFunction, Statement, Visiting, InFrame

\* The graph of the builder is so.
LEMMA BuiltLoopsFormed == RInv => LoopsFormed
<1>. SUFFICES ASSUME RInv PROVE LoopsFormed
  OBVIOUS
<1>1. EInv /\ GraphOK /\ NoSelfLoop
  BY GraphFacts DEF RInv
<1>2. PICK rank, clock, fin :
        /\ Times(rank, clock) /\ Ordered(rank, fin) /\ ClosedLoops(fin)
        /\ Entered(rank, fin) /\ Single(fin)
  BY DEF RInv
<1>. DEFINE lvl == Level(rank, clock)
<1>3. Forward(lvl)
  BY <1>1, <1>2, LevelIsForward
<1>4. \A b \in Block : lvl[b] = IF rank[b] = 0 THEN clock + 1 ELSE rank[b]
  BY DEF Level
<1>. HIDE DEF lvl
<1>5. \A b \in Block : b \notin Succs(b)
  BY <1>1 DEF NoSelfLoop, Succs
<1>6. ASSUME NEW h \in Block, NEW t \in Block, Latch(h, t)
      PROVE  /\ \A p \in Block : h \in Succs(p) => Succs(p) = {h}
             /\ \A p, q \in Reachable : /\ h \in Succs(p) /\ ~Dominates(h, p)
                                       /\ h \in Succs(q) /\ ~Dominates(h, q) => p = q
  <2>1. h \in Reachable /\ t \in Reachable /\ h # t /\ Dominates(h, t)
    BY <1>1, <1>5, <1>6, ReachableFacts DEF Latch, GraphOK
  <2>2. lvl[h] < lvl[t]
    BY <1>1, <1>3, <2>1, DominatorsAreEarlier
  <2>3. h \in Range(succ[t])
    BY <1>6 DEF Latch, Succs
  <2>4. /\ rank[h] \in Nat /\ rank[t] \in Nat /\ clock \in Nat
        /\ rank[t] > 0 /\ rank[t] <= clock
    BY <1>2, <2>3 DEF Times
  <2>5. rank[h] # 0 /\ ~(rank[t] < rank[h])
    BY <1>4, <2>2, <2>4
  <2>6. Inside(fin, h, t)
    BY <1>2, <2>3, <2>5 DEF Ordered
  <2>7. fin[h] > 0
    <3>1. h \in Nat /\ t \in Nat /\ h > 0 /\ fin[h] \in Nat
      BY <1>1, <1>2, StateFacts DEF ClosedLoops
    <3>. QED
      BY <2>6, <3>1 DEF Inside
  <2>8. h \in Headers(fin)
    BY <2>7 DEF Headers
  <2>9. \A p \in Block : h \in Succs(p) => Succs(p) = {h}
    BY <1>2, <2>8 DEF Single, Succs
  <2>10. PICK e \in Block : \A p \in Block : h \in Range(succ[p]) /\ rank[p] < rank[h] => p = e
    BY <1>2, <2>8 DEF Entered
  <2>11. ASSUME NEW p \in Reachable, h \in Succs(p), ~Dominates(h, p)
         PROVE  p = e
    <3>1. p \in Block /\ h \in Range(succ[p]) /\ rank[p] > 0
      BY <1>1, <1>2, <2>11, ReachableFacts DEF GraphOK, Succs, Times
    <3>2. lvl[p] < lvl[h]
      BY <1>3, <2>11, <3>1 DEF Forward
    <3>3. rank[p] \in Nat /\ rank[p] < rank[h]
      BY <1>2, <1>4, <2>4, <2>5, <3>1, <3>2 DEF Times
    <3>. QED
      BY <2>10, <3>1, <3>3
  <2>. QED
    BY <2>9, <2>11
<1>. QED
  BY <1>3, <1>5, <1>6 DEF LoopsFormed

\* The order of the blocks in time, for functions of any size.
THEOREM OrderInvariant == BuilderSpec => []RInv
BY InitReducible, NextReducible, PTL DEF BuilderSpec

\* The control-flow graph of every function CminusfBuilder emits is reducible,
\* however selections, loops, returns and index checks nest: LoopSearch and
\* LoopInvHoist assume it of their input, and neither checks it.
THEOREM BuiltIsReducible == BuilderSpec => []ReducibleWhenDone
<1>1. RInv => ReducibleWhenDone
  BY NoForwardCycle DEF ReducibleWhenDone
<1>. QED
  BY OrderInvariant, <1>1, PTL
=============================================================================

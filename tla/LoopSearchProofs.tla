--------------------------- MODULE LoopSearchProofs ---------------------------
(***************************************************************************)
(* Proofs about LoopSearch and LoopInvHoist on the functions the builder   *)
(* makes, of any size and with or without Mem2Reg before.  LoopSearch:     *)
(* every component has a base, the copy of the graph stays consistent, and *)
(* get_inner_loop answers the innermost loop.  That a component has a base *)
(* is a fact of the builder: every loop it makes is entered from outside,  *)
(* reachable or not.  LoopInvHoist: no instruction is lost or doubled, and *)
(* what moves goes up, to the one block the builder enters the loop from.  *)
(***************************************************************************)
EXTENDS LoopSearchOfBuilt, Mem2RegProofs, FunctionTheorems

\* Blocks that lead to each other are entered from another block.
IsEntered(C) == \E c \in C : \E q \in bbs \ C : c \in Succs(q)
CyclesEntered ==
  \A C \in SUBSET Block :
    C # {} /\ (\A c \in C : Succs(c) # {} /\ \E p \in C : c \in Succs(p)) => IsEntered(C)

\* The block of a set that was filled first.
LEMMA First ==
  ASSUME NEW C, C # {}, NEW rank, \A c \in C : rank[c] \in Nat
  PROVE  \E c \in C : \A d \in C : rank[c] <= rank[d]
<1>. DEFINE T == {rank[c] : c \in C}
<1>1. T \in SUBSET Nat /\ T # {}
  OBVIOUS
<1>. HIDE DEF T
<1>2. PICK x \in T : \A y \in T : x <= y
  BY <1>1, LeastNumber
<1>. QED
  BY <1>2 DEF T

\* The graphs of finished functions are such graphs.
LEMMA BuiltGraph == RInv => GraphOK /\ CyclesEntered
<1>. SUFFICES ASSUME RInv PROVE GraphOK /\ CyclesEntered
  OBVIOUS
<1>1. EInv /\ bbs \subseteq Block /\ succ \in [Block -> Seq(Block)] /\ pre \in [Block -> Seq(Block)]
  BY DEF RInv, EInv, IInv, BuilderTypeOK
<1>2. GraphOK
  BY GraphFacts
<1>3. PICK rank, clock, fin :
        /\ Times(rank, clock) /\ Ordered(rank, fin) /\ ClosedLoops(fin)
        /\ Entered(rank, fin)
  BY DEF RInv
<1>4. ASSUME NEW C \in SUBSET Block, C # {},
             \A c \in C : Succs(c) # {} /\ \E p \in C : c \in Succs(p)
      PROVE  IsEntered(C)
  <2>1. PICK c \in C : \A d \in C : rank[c] <= rank[d]
    <3>1. \A d \in C : rank[d] \in Nat
      BY <1>3 DEF Times
    <3>. QED
      BY <1>4, <3>1, First
  <2>2. PICK p \in C : c \in Succs(p)
    BY <1>4
  <2>3. PICK d : d \in Succs(c)
    BY <1>4
  <2>4. d \in Block /\ c \in Block /\ p \in Block
    BY <1>1, <2>3 DEF Succs, Range
  <2>5. rank[c] > 0 /\ rank[c] \in Nat /\ rank[p] \in Nat /\ rank[c] <= rank[p]
    BY <1>3, <2>1, <2>3, <2>4 DEF Times, Succs
  <2>6. Inside(fin, c, p)
    BY <1>3, <2>2, <2>4, <2>5 DEF Ordered, Succs
  <2>7. fin[c] > 0
    <3>1. c \in Nat /\ p \in Nat /\ fin[c] \in Nat
      BY <1>3, <2>4, BlockFacts DEF ClosedLoops
    <3>. QED
      BY <2>6, <3>1 DEF Inside
  <2>8. PICK q \in Block : c \in Range(succ[q]) /\ rank[q] < rank[c]
    BY <1>3, <2>4, <2>7 DEF Entered, Headers
  <2>9. q \notin C
    <3>1. rank[q] \in Nat
      BY <1>3 DEF Times
    <3>. QED
      BY <2>1, <2>5, <2>8, <3>1
  <2>10. c \in Succs(q) /\ q \in bbs
    BY <1>2, <2>4, <2>8 DEF GraphOK, Succs
  <2>. QED
    BY <2>9, <2>10 DEF IsEntered
<1>. QED
  BY <1>2, <1>4 DEF CyclesEntered
----------------------------------------------------------------------------
(***************************************************************************)
(* The natural loops of a graph.                                           *)
(***************************************************************************)
\* A header, and the blocks that reach an edge back to it, without it.
Header(h) == \E t \in Block : Latch(h, t)
Body(h) == {h} \cup {b \in Reachable : \E t \in ReachAvoid(b, h) : Latch(h, t)}

\* The header and another block of the loop are blocks that can be reached.
LEMMA BodyFacts ==
  ASSUME GraphOK, LoopsFormed, NEW h, Header(h)
  PROVE  /\ h \in Body(h) /\ h \in Block /\ h \in Reachable
         /\ Body(h) \subseteq Reachable /\ Body(h) \subseteq bbs /\ Body(h) \subseteq Block
         /\ \A t \in Block : Latch(h, t) => t \in Body(h) /\ t # h /\ t \in ReachAvoid(t, h)
<1>1. PICK u \in Block : Latch(h, u)
  BY DEF Header
<1>2. succ \in [Block -> Seq(Block)] /\ Reachable \subseteq Block
  BY ReachableFacts DEF GraphOK
<1>3. h \in Reachable /\ h \in Block
  BY <1>1, <1>2, ReachableFacts DEF Latch
<1>4. h \in Body(h) /\ Body(h) \subseteq Reachable
  BY <1>3 DEF Body
<1>5. ASSUME NEW t \in Block, Latch(h, t)
      PROVE  t \in Body(h) /\ t # h /\ t \in ReachAvoid(t, h)
  <2>1. t # h
    BY <1>5 DEF Latch, LoopsFormed
  <2>2. t \in ReachAvoid(t, h)
    BY <1>2, <2>1, ReachAvoidFacts
  <2>. QED
    BY <1>5, <2>1, <2>2 DEF Body, Latch
<1>6. ASSUME NEW b \in Body(h)
      PROVE  b \in bbs
  <2>1. CASE b = h
    BY <1>1, <1>3, <2>1 DEF Latch, GraphOK
  <2>2. CASE b # h
    <3>1. PICK t \in ReachAvoid(b, h) : Latch(h, t)
      BY <2>2 DEF Body
    <3>2. b \in Block /\ b \in Reachable
      BY <1>2, <1>4
    <3>3. b # Entry
      <4>. SUFFICES ASSUME b = Entry PROVE FALSE
        OBVIOUS
      <4>1. t \notin Avoiding(h) \/ t = h
        BY <3>1, StrictlyDominates DEF Latch
      <4>2. t \in Avoiding(h)
        BY <3>1 DEF Avoiding
      <4>3. h \notin Avoiding(h)
        BY <1>2, AvoidFacts
      <4>. QED
        BY <4>1, <4>2, <4>3
    <3>4. PICK p \in Reachable : b \in Succs(p)
      BY <3>2, <3>3, ForwardPred
    <3>. QED
      BY <1>2, <3>2, <3>4 DEF GraphOK
  <2>. QED
    BY <2>1, <2>2
<1>. QED
  BY <1>2, <1>3, <1>4, <1>5, <1>6

\* What is reached from there, without a, was reached.
LEMMA AvoidFurther ==
  ASSUME succ \in [Block -> Seq(Block)], NEW r \in Block, NEW a, NEW c \in ReachAvoid(r, a)
  PROVE  ReachAvoid(c, a) \subseteq ReachAvoid(r, a)
<1>1. PICK S : S = ReachAvoid(r, a)
  OBVIOUS
<1>2. S \in SUBSET Block /\ \A x \in S : \A d \in Succs(x) : d # a => d \in S
  BY <1>1, ReachAvoidFacts
<1>3. c \in S /\ c \in Block
  BY <1>1, <1>2
<1>4. ReachAvoid(c, a) \subseteq S
  BY <1>2, <1>3, ReachAvoidFacts
<1>. QED
  BY <1>1, <1>4

\* The header dominates its loop, which is entered at the header only.
LEMMA HeaderFirst ==
  ASSUME GraphOK, LoopsFormed, NEW h, Header(h)
  PROVE  /\ \A b \in Body(h) : Dominates(h, b)
         /\ \A c \in Body(h) : \A p \in Reachable : c \in Succs(p) /\ c # h => p \in Body(h)
<1>1. /\ succ \in [Block -> Seq(Block)] /\ Reachable \subseteq Block /\ h \in Block
      /\ Body(h) \subseteq Block /\ Body(h) \subseteq Reachable /\ h \in Body(h)
  BY BodyFacts, ReachableFacts DEF GraphOK
<1>2. ASSUME NEW b \in Body(h), ~Dominates(h, b)
      PROVE  FALSE
  <2>1. b # h /\ b \in Avoiding(h) /\ b \in Block
    BY <1>1, <1>2, StrictlyDominates
  <2>2. PICK t \in ReachAvoid(b, h) : Latch(h, t)
    BY <2>1 DEF Body
  <2>3. ReachAvoid(b, h) \subseteq Avoiding(h)
    BY <1>1, <2>1, AvoidFacts, AvoidFurther DEF Avoiding
  <2>4. t # h /\ Dominates(h, t)
    BY <1>1, <2>2, <2>1, ReachAvoidFacts DEF Latch
  <2>. QED
    BY <2>2, <2>3, <2>4, StrictlyDominates
<1>3. ASSUME NEW c \in Body(h), NEW p \in Reachable, c \in Succs(p), c # h, p # h
      PROVE  p \in Body(h)
  <2>1. PICK t \in ReachAvoid(c, h) : Latch(h, t)
    BY <1>3 DEF Body
  <2>2. p \in Block /\ c \in Block
    BY <1>1
  <2>3. ReachAvoid(c, h) \subseteq ReachAvoid(p, h)
    <3>1. p \in ReachAvoid(p, h)
      BY <1>1, <1>3, <2>2, ReachAvoidFacts
    <3>2. c \in ReachAvoid(p, h)
      BY <1>1, <1>3, <2>2, <3>1, ReachAvoidFacts
    <3>. QED
      BY <1>1, <2>2, <3>2, AvoidFurther
  <2>. QED
    BY <2>1, <2>3 DEF Body
<1>. QED
  BY <1>1, <1>2, <1>3

\* Two loops in each other are one.
LEMMA OneHeader ==
  ASSUME GraphOK, LoopsFormed, NEW g, NEW h, Header(g), Header(h), g \in Body(h), h \in Body(g)
  PROVE  g = h
BY HeaderFirst, BodyFacts, DominatesOneWay DEF GraphOK

\* Along edges that have those of the loop, its blocks lead to each other.
LEMMA BodyTogether ==
  ASSUME GraphOK, LoopsFormed, NEW h, Header(h), NEW N \in Edging,
         \A x, y \in Body(h) : y \in Succs(x) => y \in N[x]
  PROVE  \A b \in Body(h) : Together(N, h, b)
<1>. DEFINE B == Body(h)
<1>1. /\ succ \in [Block -> Seq(Block)] /\ Reachable \subseteq Block /\ h \in Block
      /\ B \subseteq Block /\ B \subseteq Reachable /\ h \in B
  BY BodyFacts, ReachableFacts DEF GraphOK
<1>2. \A b \in Reachable : Succs(b) \subseteq Reachable
  BY <1>1, ReachableFacts
<1>3. PICK lvl : Forward(lvl)
  BY DEF LoopsFormed
<1>4. ASSUME NEW b \in B, b # h
      PROVE  h \in Onward(N, b)
  <2>1. PICK t \in ReachAvoid(b, h) : Latch(h, t)
    BY <1>4 DEF Body
  <2>2. b \in Block /\ t \in Block /\ t \in Reachable /\ h \in Succs(t)
    BY <1>1, <2>1 DEF Latch
  <2>3. t # h /\ t \in ReachAvoid(t, h) /\ t \in B
    BY <2>1, <2>2, BodyFacts
  <2>. DEFINE S == {x \in Block : /\ x # h
                                  /\ \/ x \in B /\ (x = b \/ x \in Onward(N, b))
                                     \/ t \notin ReachAvoid(x, h)}
  <2>4. b \in S
    BY <1>4, <2>2
  <2>5. ASSUME NEW x \in S, NEW c \in Succs(x), c # h
        PROVE  c \in S
    <3>1. x \in Block /\ c \in Block /\ x # h
      BY <1>1, ReachableFacts
    <3>2. ReachAvoid(c, h) \subseteq ReachAvoid(x, h)
      <4>1. x \in ReachAvoid(x, h)
        BY <1>1, <3>1, ReachAvoidFacts
      <4>2. c \in ReachAvoid(x, h)
        BY <1>1, <2>5, <3>1, <4>1, ReachAvoidFacts
      <4>. QED
        BY <1>1, <3>1, <4>2, AvoidFurther
    <3>3. CASE t \notin ReachAvoid(c, h)
      BY <2>5, <3>1, <3>3
    <3>4. CASE t \in ReachAvoid(c, h)
      <4>1. x \in B /\ (x = b \/ x \in Onward(N, b))
        BY <3>2, <3>4
      <4>2. c \in Reachable
        BY <1>1, <1>2, <4>1
      <4>3. c \in B
        BY <2>1, <3>4, <4>2 DEF Body
      <4>4. c \in N[x]
        BY <4>1, <4>3
      <4>5. c \in Onward(N, b)
        BY <2>2, <4>1, <4>4, Along
      <4>. QED
        BY <2>5, <3>1, <4>3, <4>5
    <3>. QED
      BY <3>3, <3>4
  <2>6. S \in SUBSET Block
    OBVIOUS
  <2>7. t \in S => t = b \/ t \in Onward(N, b)
    BY <2>3
  <2>. HIDE DEF S
  <2>8. t \in S
    BY <1>1, <2>1, <2>2, <2>4, <2>5, <2>6, ReachAvoidFacts
  <2>9. h \in N[t]
    BY <1>1, <2>2, <2>3
  <2>. QED
    BY <2>2, <2>7, <2>8, <2>9, Along
<1>5. ASSUME NEW b \in B, b # h
      PROVE  b \in Onward(N, h)
  <2>. DEFINE Missed(c) == c # h /\ c \notin Onward(N, h)
              T == {lvl[c] : c \in {d \in B : Missed(d)}}
  <2>1. \A c \in B : lvl[c] \in Nat
    BY <1>1, <1>3 DEF Forward
  <2>2. ASSUME NEW c \in B, Missed(c)
        PROVE  \E p \in B : Missed(p) /\ lvl[p] < lvl[c]
    <3>1. Dominates(h, c) /\ c # Entry
      BY <1>1, <2>2, HeaderFirst, EntryDominates
    <3>2. PICK p \in Reachable : c \in Succs(p) /\ ~Dominates(c, p)
      BY <1>1, <3>1, ForwardPred
    <3>3. lvl[p] < lvl[c]
      BY <1>1, <1>3, <3>2 DEF Forward
    <3>4. p \in B
      BY <2>2, <3>2, HeaderFirst
    <3>5. c \in N[p]
      BY <3>2, <3>4
    <3>6. p # h
      BY <1>1, <2>2, <3>5, Along
    <3>7. p \notin Onward(N, h)
      BY <1>1, <2>2, <3>5, Along
    <3>. QED
      BY <3>3, <3>4, <3>6, <3>7
  <2>. SUFFICES ASSUME Missed(b) PROVE FALSE
    BY <1>5
  <2>3. T \in SUBSET Nat /\ T # {}
    BY <2>1
  <2>. HIDE DEF Missed
  <2>4. PICK c \in B : Missed(c) /\ \A d \in B : Missed(d) => lvl[c] <= lvl[d]
    <3>1. \A y \in T : \E d \in B : Missed(d) /\ y = lvl[d]
      OBVIOUS
    <3>2. \A d \in B : Missed(d) => lvl[d] \in T
      OBVIOUS
    <3>. HIDE DEF T
    <3>3. PICK x \in T : \A y \in T : x <= y
      BY <2>3, LeastNumber
    <3>. QED
      BY <3>1, <3>2, <3>3
  <2>5. PICK p \in B : Missed(p) /\ lvl[p] < lvl[c]
    BY <2>2, <2>4
  <2>6. lvl[c] \in Nat /\ lvl[p] \in Nat /\ lvl[c] <= lvl[p]
    BY <2>1, <2>4, <2>5
  <2>. QED
    BY <2>5, <2>6
<1>6. h \in Onward(N, h)
  <2>1. PICK t \in Block : Latch(h, t)
    BY DEF Header
  <2>2. t \in B /\ t # h
    BY <2>1, BodyFacts
  <2>3. t \in Onward(N, h) /\ h \in N[t]
    BY <1>1, <1>5, <2>1, <2>2 DEF Latch
  <2>. QED
    BY <1>1, <2>3, Along
<1>. QED
  BY <1>4, <1>5, <1>6 DEF Together
----------------------------------------------------------------------------
(***************************************************************************)
(* The invariant of the search.                                            *)
(***************************************************************************)
\* The copy is the graph without the bases.
Copied ==
  /\ reserved \subseteq bbs /\ nodes = bbs \ reserved
  /\ \A n \in nodes :
       nodeSuccs[n] = Succs(n) \ reserved /\ nodePrevs[n] = Preds(n) \ reserved
  /\ \A r \in reserved :
       Succs(r) \ reserved \subseteq nodeSuccs[r] /\ nodeSuccs[r] \subseteq Succs(r)

\* No node outside S leads to a node of S and back.
Whole(S) ==
  \A x \in S \cap nodes : \A y \in nodes : Together(nodeSuccs, x, y) => y \in S

Apart(S, T) == \A b \in S : b \notin T

\* The components of this round that are left.
ComponentsOK ==
  /\ lpc # "loops" => sccs = {}
  /\ \A scc \in sccs : scc \subseteq nodes /\ IsEntered(scc) /\ Whole(scc)
  /\ \A s, t \in sccs : s = t \/ Apart(s, t)

\* The loops found: a component is in a loop or apart from it.
LoopsOK ==
  /\ \A l \in loops : l.base \in reserved /\ l.base \in l.body /\ Whole(l.body)
  /\ \A k, l \in loops : k.base = l.base => k = l
  /\ \A scc \in sccs, l \in loops : Apart(scc, l.body) \/ scc \subseteq l.body

\* bb2base has the base of the innermost loop.
Innermost(b, l) ==
  /\ l \in loops /\ b \in l.body /\ bb2base[b] = l.base
  /\ \A k \in loops : b \in k.body => l.body \subseteq k.body

BasesOK ==
  \A b \in Block :
    \/ bb2base[b] = NoBlock /\ \A l \in loops : b \notin l.body
    \/ \E l \in loops : Innermost(b, l)

Untouched == nodes = {} /\ reserved = {} /\ sccs = {} /\ loops = {}

LInv ==
  /\ LoopTypeOK /\ ComponentsOK /\ LoopsOK /\ BasesOK
  /\ IF lpc = "idle" THEN Untouched ELSE Copied
\* No block that execution can reach has a predecessor that it cannot.
Live == \A b \in Reachable : \A p \in Block : b \in Succs(p) => p \in Reachable

Dead(S) == \A b \in S : b \notin Reachable

\* What the search takes for a loop is natural or dead, and a base is taken
\* out after those of the loops around it; in the end none is left.
NaturalInv ==
  /\ \A r \in reserved : \E l \in loops : l.base = r
  /\ Live =>
       /\ \A g \in Block, r \in reserved : Header(g) /\ r \in Body(g) => g \in reserved
       /\ \A l \in loops : Dead(l.body) \/ (Header(l.base) /\ l.body = Body(l.base))
       /\ \A scc \in sccs : Dead(scc) \/ \E h \in Block : Header(h) /\ scc = Body(h)
       /\ lpc = "end" => \A h \in Block : Header(h) => h \in reserved
----------------------------------------------------------------------------
(***************************************************************************)
(* What the invariant says, in the words of module LoopSearch.             *)
(***************************************************************************)
\* No node that is left is linked to a base that was taken out.
LEMMA CopyIsClosed ==
  ASSUME GraphOK, LInv
  PROVE  /\ BasesAreGone
         /\ nodeSuccs \in Edging
         /\ \A n \in nodes : Onward(nodeSuccs, n) \subseteq nodes
<1>1. nodeSuccs \in Edging /\ nodes \in SUBSET Block
  BY DEF LInv, LoopTypeOK, Edging
<1>2. ASSUME lpc # "idle", NEW n \in nodes
      PROVE  nodeSuccs[n] \subseteq nodes /\ nodePrevs[n] \subseteq nodes
  <2>1. n \in Block /\ Copied
    BY <1>1, <1>2 DEF LInv
  <2>2. Succs(n) \subseteq Block /\ Preds(n) \subseteq Block
    BY <2>1 DEF GraphOK, Succs, Preds, Range
  <2>3. Succs(n) \subseteq bbs /\ Preds(n) \subseteq bbs
    BY <2>1, <2>2 DEF GraphOK
  <2>. QED
    BY <2>1, <2>3 DEF Copied
<1>3. BasesAreGone
  BY <1>2 DEF BasesAreGone, LInv, Untouched
<1>4. ASSUME NEW n \in nodes
      PROVE  Onward(nodeSuccs, n) \subseteq nodes
  <2>1. nodeSuccs[n] \subseteq nodes /\ \A c \in nodes : nodeSuccs[c] \subseteq nodes
    BY <1>3 DEF BasesAreGone
  <2>2. n \in Block
    BY <1>1
  <2>. QED
    BY <1>1, <2>1, <2>2, Along
<1>. QED
  BY <1>1, <1>3, <1>4

\* A set of nodes that is entered has a base, whichever bases are gone.
LEMMA EnteredHasBase ==
  ASSUME GraphOK, LInv, lpc # "idle", NEW scc \in SUBSET nodes, IsEntered(scc)
  PROVE  Bases(scc) # {}
<1>1. Copied /\ nodes \in SUBSET Block
  BY DEF LInv, LoopTypeOK
<1>2. PICK c \in scc, q \in bbs \ scc : c \in Succs(q)
  BY DEF IsEntered
<1>3. c \in nodes /\ c \in Block /\ q \in Block
  BY <1>1 DEF GraphOK
<1>4. q \in Preds(c)
  BY <1>2, <1>3 DEF GraphOK
<1>5. CASE q \in nodes
  <2>1. q \in nodePrevs[c]
    BY <1>1, <1>3, <1>4, <1>5 DEF Copied
  <2>. QED
    BY <1>2, <2>1 DEF Bases
<1>6. CASE q \notin nodes
  <2>1. q \in reserved /\ c \notin reserved
    BY <1>1, <1>2, <1>3, <1>6 DEF Copied
  <2>2. c \in nodeSuccs[q]
    BY <1>1, <1>2, <2>1 DEF Copied
  <2>. QED
    BY <1>2, <2>1, <2>2 DEF Bases
<1>. QED
  BY <1>5, <1>6

\* find_loop_base finds a base.
LEMMA BasesFound == GraphOK /\ LInv => EveryLoopHasBase
<1>. SUFFICES ASSUME GraphOK, LInv, lpc = "loops", NEW scc \in sccs
              PROVE  Bases(scc) # {} /\ scc \subseteq nodes
  BY DEF EveryLoopHasBase
<1>1. scc \subseteq nodes /\ IsEntered(scc)
  BY DEF LInv, ComponentsOK
<1>. QED
  BY <1>1, EnteredHasBase

\* get_inner_loop answers the innermost loop.
LEMMA InnerFound == LInv => InnerLoopIsInnermost
<1>. SUFFICES ASSUME LInv, NEW b \in Block
              PROVE  LET around == {l \in loops : b \in l.body}
                     IN  IF around = {} THEN InnerLoop(b) = NoLoop
                         ELSE InnerLoop(b) \in around
                              /\ \A l \in around : InnerLoop(b).body \subseteq l.body
  BY DEF InnerLoopIsInnermost
<1>1. CASE bb2base[b] = NoBlock /\ \A l \in loops : b \notin l.body
  BY <1>1 DEF InnerLoop
<1>2. CASE \E l \in loops : Innermost(b, l)
  <2>1. PICK l \in loops : Innermost(b, l)
    BY <1>2
  <2>2. l.base \in Block /\ l.base # NoBlock
    BY BlockFacts DEF LInv, LoopTypeOK
  <2>3. {k \in loops : k.base = l.base} = {l}
    BY DEF LInv, LoopsOK
  <2>4. InnerLoop(b) = l
    BY <2>1, <2>2, <2>3 DEF InnerLoop, LoopOfBase, Innermost
  <2>. QED
    BY <2>1, <2>4 DEF Innermost
<1>. QED
  BY <1>1, <1>2 DEF LInv, BasesOK
----------------------------------------------------------------------------
(***************************************************************************)
(* The steps of the search.                                                *)
(***************************************************************************)
\* The graph is copied.
LEMMA BuildCfgKeeps ==
  ASSUME GraphOK, LInv, BuildCfg
  PROVE  LInv'
<1>1. /\ lpc = "idle" /\ lpc' = "components" /\ nodes' = bbs
      /\ nodeSuccs' = [b \in Block |-> Succs(b)] /\ nodePrevs' = [b \in Block |-> Preds(b)]
      /\ reserved' = reserved /\ sccs' = sccs /\ loops' = loops /\ bb2base' = bb2base
      /\ bbs' = bbs /\ pre' = pre /\ succ' = succ
  BY DEF BuildCfg, graphVars
<1>2. Untouched
  BY <1>1 DEF LInv
<1>3. /\ bbs \subseteq Block
      /\ \A b \in Block : Succs(b) \subseteq Block /\ Preds(b) \subseteq Block
  BY DEF GraphOK, Succs, Preds, Range
<1>4. LoopTypeOK'
  BY <1>1, <1>3 DEF LInv, LoopTypeOK
<1>5. ComponentsOK' /\ LoopsOK' /\ BasesOK'
  BY <1>1, <1>2 DEF LInv, Untouched, ComponentsOK, LoopsOK, BasesOK
<1>6. Copied'
  <2>1. \A b \in Block : nodeSuccs'[b] = Succs(b) /\ nodePrevs'[b] = Preds(b)
    BY <1>1
  <2>2. \A b \in Block : Succs(b)' = Succs(b) /\ Preds(b)' = Preds(b)
    BY <1>1 DEF Succs, Preds
  <2>. QED
    BY <1>1, <1>2, <1>3, <2>1, <2>2 DEF Copied, Untouched
<1>. QED
  BY <1>1, <1>4, <1>5, <1>6 DEF LInv

\* The components are the sets of nodes that lead to each other.
LEMMA ComponentFacts ==
  ASSUME GraphOK, LInv
  PROVE  /\ \A scc \in Components :
              /\ scc # {} /\ scc \subseteq nodes /\ Whole(scc)
              /\ \A x, y \in scc : Together(nodeSuccs, x, y)
         /\ \A b, c \in nodes : b # c /\ Together(nodeSuccs, b, c)
              => \E scc \in Components : b \in scc
<1>1. PICK N : N = nodeSuccs
  OBVIOUS
<1>. DEFINE Of(b) == {c \in Onward(N, b) : b \in Onward(N, c)}
<1>2. nodes \in SUBSET Block /\ N \in Edging /\ \A n \in nodes : Onward(N, n) \subseteq nodes
  BY <1>1, CopyIsClosed DEF LInv, LoopTypeOK
<1>3. Components = {c \in {Of(b) : b \in nodes} : Cardinality(c) > 1}
  BY <1>1 DEF Components
<1>4. \A b, c \in nodes : c \in Of(b) <=> Together(N, b, c)
  BY DEF Together
<1>5. \A b \in nodes : Of(b) \subseteq nodes
  BY <1>2
<1>6. \A a, b, c \in nodes : Together(N, a, b) /\ Together(N, b, c) => Together(N, a, c)
  <2>. SUFFICES ASSUME NEW a \in nodes, NEW b \in nodes, NEW c \in nodes,
                       Together(N, a, b), Together(N, b, c)
                PROVE  Together(N, a, c)
    OBVIOUS
  <2>1. a \in Block /\ b \in Block /\ c \in Block
    BY <1>2
  <2>2. Onward(N, b) \subseteq Onward(N, a) /\ Onward(N, b) \subseteq Onward(N, c)
    BY <1>2, <2>1, AlongFurther DEF Together
  <2>. QED
    BY <2>2 DEF Together
<1>7. \A a, b \in nodes : Together(N, a, b) => Together(N, b, a)
  BY DEF Together
<1>. HIDE DEF Of
<1>8. ASSUME NEW scc \in Components
      PROVE  scc # {} /\ scc \subseteq nodes /\ Whole(scc) /\ \A x, y \in scc : Together(N, x, y)
  <2>1. PICK b \in nodes : scc = Of(b) /\ Cardinality(scc) > 1
    BY <1>3
  <2>2. scc # {} /\ scc \subseteq nodes
    BY <1>5, <2>1, FS_EmptySet
  <2>3. \A x, y \in scc : Together(N, x, y)
    BY <1>4, <1>6, <1>7, <2>1, <2>2
  <2>4. Whole(scc)
    BY <1>1, <1>4, <1>6, <2>1, <2>2 DEF Whole
  <2>. QED
    BY <2>2, <2>3, <2>4
<1>9. ASSUME NEW b \in nodes, NEW c \in nodes, b # c, Together(N, b, c)
      PROVE  \E scc \in Components : b \in scc
  <2>1. b \in Of(b) /\ c \in Of(b)
    BY <1>4, <1>6, <1>7, <1>9
  <2>2. IsFiniteSet(Of(b)) /\ Cardinality(Of(b)) \in Nat
    BY <1>2, <1>5, BlocksAreFinite, FS_Subset, FS_CardinalityType
  <2>3. Cardinality(Of(b)) # 0 /\ Cardinality(Of(b)) # 1
    BY <1>9, <2>1, <2>2, FS_EmptySet, FS_Singleton
  <2>4. Cardinality(Of(b)) > 1
    BY <2>2, <2>3
  <2>. QED
    BY <1>3, <2>1, <2>4
<1>. QED
  BY <1>1, <1>8, <1>9

\* The components are those of the contract.
LEMMA FindComponentsKeeps ==
  ASSUME GraphOK, CyclesEntered, LInv, FindComponents
  PROVE  LInv'
<1>1. /\ lpc = "components" /\ lpc' \in {"loops", "end"} /\ (sccs' # {} => lpc' = "loops")
      /\ sccs' = Components
      /\ nodes' = nodes /\ nodeSuccs' = nodeSuccs /\ nodePrevs' = nodePrevs
      /\ reserved' = reserved /\ loops' = loops /\ bb2base' = bb2base
      /\ bbs' = bbs /\ pre' = pre /\ succ' = succ
  BY DEF FindComponents, graphVars
<1>2. PICK N : N = nodeSuccs
  OBVIOUS
<1>3. /\ Copied /\ nodes \in SUBSET Block /\ N \in Edging
      /\ \A n \in nodes : Onward(N, n) \subseteq nodes
  BY <1>1, <1>2, CopyIsClosed DEF LInv, LoopTypeOK
<1>4. PICK K : K = Components
  OBVIOUS
<1>5. \A scc \in K : /\ scc # {} /\ scc \subseteq nodes /\ Whole(scc)
                      /\ \A x, y \in scc : Together(N, x, y)
  BY <1>2, <1>4, ComponentFacts
<1>6. \A scc \in K : \A x \in scc, y \in nodes : Together(N, x, y) => y \in scc
  BY <1>2, <1>5 DEF Whole
<1>7. ASSUME NEW scc \in K
      PROVE  IsEntered(scc)
  <2>1. ASSUME NEW c \in scc
        PROVE  Succs(c) # {} /\ \E p \in scc : c \in Succs(p)
    <3>1. c \in nodes /\ c \in Block /\ Together(N, c, c)
      BY <1>3, <1>5
    <3>2. N[c] # {}
      BY <1>3, <3>1, Cycle
    <3>3. PICK p \in Block : Together(N, c, p) /\ c \in N[p]
      BY <1>3, <3>1, Cycle
    <3>4. p \in nodes /\ p \in scc
      BY <1>3, <1>6, <3>1, <3>3 DEF Together
    <3>5. \A n \in nodes : N[n] \subseteq Succs(n)
      BY <1>2, <1>3 DEF Copied
    <3>. QED
      BY <3>1, <3>2, <3>3, <3>4, <3>5
  <2>2. scc \in SUBSET Block /\ scc # {}
    BY <1>3, <1>5
  <2>. QED
    BY <2>1, <2>2 DEF CyclesEntered
<1>8. ASSUME NEW s \in K, NEW t \in K, NEW x \in s, x \in t
      PROVE  s \subseteq t
  BY <1>5, <1>6, <1>8
<1>9. ASSUME NEW scc \in K, NEW l \in loops
      PROVE  Apart(scc, l.body) \/ scc \subseteq l.body
  <2>. SUFFICES ASSUME NEW x \in scc, x \in l.body, NEW y \in scc
                PROVE  y \in l.body
    BY DEF Apart
  <2>1. x \in nodes /\ y \in nodes /\ Together(N, x, y)
    BY <1>5
  <2>2. Whole(l.body)
    BY DEF LInv, LoopsOK
  <2>. QED
    BY <1>2, <2>1, <2>2 DEF Whole
<1>10. LoopTypeOK'
  <2>1. \A scc \in K : scc \subseteq Block
    BY <1>3, <1>5
  <2>. QED
    BY <1>1, <1>4, <2>1 DEF LInv, LoopTypeOK
<1>11. ComponentsOK'
  <2>1. \A scc \in K : IsEntered(scc)'
    BY <1>1, <1>7 DEF IsEntered, Succs
  <2>2. \A scc \in K : Whole(scc)'
    BY <1>1, <1>5 DEF Whole
  <2>3. \A s, t \in K : s = t \/ Apart(s, t)
    BY <1>8 DEF Apart
  <2>. QED
    BY <1>1, <1>4, <1>5, <2>1, <2>2, <2>3 DEF ComponentsOK
<1>12. LoopsOK'
  BY <1>1, <1>4, <1>9 DEF LInv, LoopsOK, Whole
<1>13. BasesOK'
  BY <1>1 DEF LInv, BasesOK, Innermost
<1>14. Copied'
  BY <1>1, <1>3 DEF Copied, Succs, Preds
<1>. QED
  BY <1>1, <1>10, <1>11, <1>12, <1>13, <1>14 DEF LInv

\* A set that no other node leads to and back stays one with fewer edges.
LEMMA FewerIsWhole ==
  ASSUME NEW M \in Edging, nodeSuccs \in Edging, M = nodeSuccs', nodes \subseteq Block,
         \A b \in Block : M[b] \subseteq nodeSuccs[b], nodes' \subseteq nodes,
         NEW S, Whole(S)
  PROVE  Whole(S)'
<1>. SUFFICES ASSUME NEW x \in S \cap nodes', NEW y \in nodes', Together(M, x, y)
              PROVE  y \in S
  BY DEF Whole
<1>1. x \in Block /\ y \in Block /\ x \in S \cap nodes /\ y \in nodes
  OBVIOUS
<1>2. Onward(M, x) \subseteq Onward(nodeSuccs, x) /\ Onward(M, y) \subseteq Onward(nodeSuccs, y)
  BY <1>1, AlongFewer
<1>3. Together(nodeSuccs, x, y)
  BY <1>2 DEF Together
<1>. QED
  BY <1>1, <1>3 DEF Whole

\* The maps are written for a component, and its base is taken out.
LEMMA NextLoopKeeps ==
  ASSUME GraphOK, LInv, NextLoop
  PROVE  LInv'
<1>0. PICK scc \in sccs :
        /\ \E base \in Bases(scc) : EnterLoop(scc, base)
        /\ sccs' = sccs \ {scc}
        /\ lpc' = IF sccs = {scc} THEN "components" ELSE "loops"
  BY DEF NextLoop
<1>1. PICK base \in Bases(scc) :
        /\ EnterLoop(scc, base) /\ sccs' = sccs \ {scc}
        /\ lpc' = IF sccs = {scc} THEN "components" ELSE "loops"
  BY <1>0
<1>. DEFINE new == [base |-> base, body |-> scc]
<1>2. /\ lpc = "loops" /\ bbs' = bbs /\ pre' = pre /\ succ' = succ
      /\ loops' = loops \cup {new}
      /\ bb2base' = [b \in Block |-> IF b \in scc THEN base ELSE bb2base[b]]
      /\ reserved' = reserved \cup {base} /\ nodes' = nodes \ {base}
      /\ nodePrevs' = [b \in Block |-> IF b \in nodeSuccs[base] THEN nodePrevs[b] \ {base}
                                                                ELSE nodePrevs[b]]
      /\ nodeSuccs' = [b \in Block |-> IF b \in nodePrevs[base] THEN nodeSuccs[b] \ {base}
                                                                ELSE nodeSuccs[b]]
  BY <1>1 DEF NextLoop, EnterLoop, graphVars
<1>3. new.base = base /\ new.body = scc
  OBVIOUS
<1>. HIDE DEF new
<1>4. LoopTypeOK /\ ComponentsOK /\ LoopsOK /\ BasesOK /\ Copied
  BY <1>2 DEF LInv
<1>5. /\ nodes \subseteq Block /\ scc \subseteq nodes /\ base \in scc
      /\ base \in nodes /\ base \in Block /\ base \notin reserved /\ base \in bbs
      /\ scc \subseteq Block
  BY <1>1, <1>4 DEF LoopTypeOK, ComponentsOK, Bases, Copied
<1>6. \A b \in Block :
        /\ nodeSuccs'[b] \subseteq nodeSuccs[b] /\ nodeSuccs[b] \ {base} \subseteq nodeSuccs'[b]
        /\ nodePrevs'[b] \subseteq nodePrevs[b] /\ nodePrevs[b] \ {base} \subseteq nodePrevs'[b]
  BY <1>2
<1>7. ASSUME NEW n \in nodes, n # base
      PROVE  nodeSuccs'[n] = nodeSuccs[n] \ {base} /\ nodePrevs'[n] = nodePrevs[n] \ {base}
  <2>1. n \in Block /\ n \notin reserved
    BY <1>4, <1>5 DEF Copied
  <2>2. base \in nodeSuccs[n] => n \in nodePrevs[base]
    BY <1>4, <1>5, <2>1 DEF Copied, GraphOK
  <2>3. base \in nodePrevs[n] => n \in nodeSuccs[base]
    BY <1>4, <1>5, <2>1 DEF Copied, GraphOK
  <2>4. nodeSuccs'[n] = IF n \in nodePrevs[base] THEN nodeSuccs[n] \ {base} ELSE nodeSuccs[n]
    BY <1>2, <2>1
  <2>5. nodePrevs'[n] = IF n \in nodeSuccs[base] THEN nodePrevs[n] \ {base} ELSE nodePrevs[n]
    BY <1>2, <2>1
  <2>6. nodeSuccs'[n] = nodeSuccs[n] \ {base}
    BY <2>2, <2>4
  <2>. QED
    BY <2>3, <2>5, <2>6
<1>8. \A b \in Block : Succs(b)' = Succs(b) /\ Preds(b)' = Preds(b)
  BY <1>2 DEF Succs, Preds
<1>9. LoopTypeOK'
  <2>1. new \in [base : Block, body : SUBSET Block]
    BY <1>5 DEF new
  <2>2. loops' \subseteq [base : Block, body : SUBSET Block]
    BY <1>2, <1>4, <2>1 DEF LoopTypeOK
  <2>3. nodeSuccs' \in [Block -> SUBSET Block] /\ nodePrevs' \in [Block -> SUBSET Block]
    BY <1>2, <1>4 DEF LoopTypeOK
  <2>4. bb2base' \in [Block -> Block \cup {NoBlock}]
    BY <1>2, <1>4, <1>5 DEF LoopTypeOK
  <2>5. nodes' \subseteq Block /\ reserved' \subseteq Block /\ sccs' \subseteq SUBSET Block
    BY <1>1, <1>2, <1>4, <1>5 DEF LoopTypeOK
  <2>6. lpc' \in {"idle", "components", "loops", "end"}
    BY <1>1
  <2>. QED
    BY <2>2, <2>3, <2>4, <2>5, <2>6 DEF LoopTypeOK
<1>10. Copied'
  <2>1. reserved' \subseteq bbs' /\ nodes' = bbs' \ reserved'
    BY <1>2, <1>4, <1>5 DEF Copied
  <2>2. ASSUME NEW n \in nodes'
        PROVE  nodeSuccs'[n] = Succs(n)' \ reserved' /\ nodePrevs'[n] = Preds(n)' \ reserved'
    <3>1. n \in nodes /\ n # base /\ n \in Block
      BY <1>2, <1>5
    <3>2. nodeSuccs[n] = Succs(n) \ reserved /\ nodePrevs[n] = Preds(n) \ reserved
      BY <1>4, <3>1 DEF Copied
    <3>. QED
      BY <1>2, <1>7, <1>8, <3>1, <3>2
  <2>3. ASSUME NEW r \in reserved'
        PROVE  Succs(r)' \ reserved' \subseteq nodeSuccs'[r] /\ nodeSuccs'[r] \subseteq Succs(r)'
    <3>1. /\ r \in Block /\ Succs(r) \ reserved \subseteq nodeSuccs[r]
          /\ nodeSuccs[r] \subseteq Succs(r)
      BY <1>2, <1>4, <1>5 DEF Copied, LoopTypeOK
    <3>. QED
      BY <1>2, <1>6, <1>8, <3>1
  <2>. QED
    BY <2>1, <2>2, <2>3 DEF Copied
<1>11. \A S : Whole(S) => Whole(S)'
  <2>1. PICK M : M = nodeSuccs'
    OBVIOUS
  <2>2. nodeSuccs \in Edging
    BY <1>4 DEF LoopTypeOK, Edging
  <2>3. M \in Edging
    BY <1>9, <2>1 DEF LoopTypeOK, Edging
  <2>4. \A b \in Block : M[b] \subseteq nodeSuccs[b]
    BY <1>6, <2>1
  <2>5. nodes' \subseteq nodes
    BY <1>2
  <2>. QED
    BY <1>5, <2>1, <2>2, <2>3, <2>4, <2>5, FewerIsWhole
<1>12. \A C : IsEntered(C) => IsEntered(C)'
  BY <1>2, <1>8 DEF IsEntered, GraphOK, Succs
<1>13. ComponentsOK'
  <2>1. lpc' # "loops" => sccs' = {}
    BY <1>1
  <2>2. ASSUME NEW t \in sccs'
        PROVE  t \subseteq nodes' /\ IsEntered(t)' /\ Whole(t)'
    <3>1. t \in sccs /\ t # scc
      BY <1>1
    <3>2. t \subseteq nodes /\ IsEntered(t) /\ Whole(t) /\ base \notin t
      BY <1>1, <1>4, <1>5, <3>1 DEF ComponentsOK, Apart
    <3>. QED
      BY <1>2, <1>11, <1>12, <3>2
  <2>3. \A s, t \in sccs' : s = t \/ Apart(s, t)
    BY <1>1, <1>4 DEF ComponentsOK
  <2>. QED
    BY <2>1, <2>2, <2>3 DEF ComponentsOK
<1>14. LoopsOK'
  <2>1. ASSUME NEW l \in loops'
        PROVE  l.base \in reserved' /\ l.base \in l.body /\ Whole(l.body)'
    BY <1>1, <1>2, <1>3, <1>4, <1>5, <1>11, <2>1 DEF LoopsOK, ComponentsOK
  <2>2. \A k, l \in loops' : k.base = l.base => k = l
    BY <1>2, <1>3, <1>4, <1>5 DEF LoopsOK
  <2>3. ASSUME NEW t \in sccs', NEW l \in loops'
        PROVE  Apart(t, l.body) \/ t \subseteq l.body
    <3>1. t \in sccs /\ Apart(t, scc)
      BY <1>1, <1>4 DEF ComponentsOK
    <3>. QED
      BY <1>2, <1>3, <1>4, <3>1 DEF LoopsOK
  <2>. QED
    BY <2>1, <2>2, <2>3 DEF LoopsOK
<1>15. BasesOK'
  <2>. SUFFICES ASSUME NEW b \in Block
                PROVE  \/ bb2base'[b] = NoBlock /\ \A l \in loops' : b \notin l.body
                       \/ \E l \in loops' : Innermost(b, l)'
    BY DEF BasesOK
  <2>1. CASE b \in scc
    <3>1. bb2base'[b] = base
      BY <1>2, <2>1
    <3>2. \A k \in loops' : b \in k.body => scc \subseteq k.body
      BY <1>1, <1>2, <1>3, <1>4, <2>1 DEF LoopsOK, Apart
    <3>3. Innermost(b, new)'
      BY <1>2, <1>3, <2>1, <3>1, <3>2 DEF Innermost
    <3>. QED
      BY <1>2, <3>3
  <2>2. CASE b \notin scc
    <3>1. bb2base'[b] = bb2base[b]
      BY <1>2, <2>2
    <3>2. CASE bb2base[b] = NoBlock /\ \A l \in loops : b \notin l.body
      BY <1>2, <1>3, <2>2, <3>1, <3>2
    <3>3. CASE \E l \in loops : Innermost(b, l)
      <4>1. PICK l \in loops : Innermost(b, l)
        BY <3>3
      <4>2. Innermost(b, l)'
        BY <1>2, <1>3, <2>2, <3>1, <4>1 DEF Innermost
      <4>. QED
        BY <1>2, <4>2
    <3>. QED
      BY <1>4, <3>2, <3>3 DEF BasesOK
  <2>. QED
    BY <2>1, <2>2
<1>. QED
  BY <1>1, <1>9, <1>10, <1>13, <1>14, <1>15 DEF LInv
----------------------------------------------------------------------------
(***************************************************************************)
(* The loops found are the natural ones.                                   *)
(***************************************************************************)
\* A predecessor that is dead makes a join half dead.
LEMMA LiveJoins == GraphOK /\ ~HalfDeadJoin => Live
<1>. SUFFICES ASSUME GraphOK, ~HalfDeadJoin, NEW b \in Reachable, NEW p \in Block,
                     b \in Succs(p), p \notin Reachable
              PROVE  FALSE
  BY DEF Live
<1>1. b \in Block /\ b # Entry
  BY ReachableFacts DEF GraphOK
<1>2. PICK q \in Reachable : b \in Succs(q)
  BY <1>1, ForwardPred
<1>3. q \in Block /\ p # q
  BY <1>2, ReachableFacts DEF GraphOK
<1>4. p \in Preds(b) /\ q \in Preds(b) /\ pre[b] \in Seq(Block)
  BY <1>1, <1>2, <1>3 DEF GraphOK
<1>5. PICK i \in 1..Len(pre[b]), j \in 1..Len(pre[b]) : pre[b][i] = p /\ pre[b][j] = q
  BY <1>4 DEF Preds, Range
<1>6. Len(pre[b]) >= 2
  BY <1>3, <1>4, <1>5
<1>7. ~(Preds(b) \subseteq Reachable)
  BY <1>4
<1>. QED
  BY <1>6, <1>7 DEF HalfDeadJoin

\* The loop of a header that was not taken out is still there.
LEMMA LoopIsLeft ==
  ASSUME GraphOK, LoopsFormed, LInv, lpc # "idle", NaturalInv, Live,
         NEW g \in Block, Header(g), g \notin reserved
  PROVE  Body(g) \subseteq nodes /\ \A b \in Body(g) : Together(nodeSuccs, g, b)
<1>1. Copied /\ nodeSuccs \in Edging
  BY CopyIsClosed DEF LInv
<1>2. Body(g) \subseteq nodes
  <2>1. \A r \in reserved : r \notin Body(g)
    BY DEF NaturalInv
  <2>2. Body(g) \subseteq bbs
    BY BodyFacts
  <2>. QED
    BY <1>1, <2>1, <2>2 DEF Copied
<1>3. \A x, y \in Body(g) : y \in Succs(x) => y \in nodeSuccs[x]
  BY <1>1, <1>2 DEF Copied
<1>. QED
  BY <1>1, <1>2, <1>3, BodyTogether

\* Nodes that lead to each other, and that execution can reach, are the loop
\* of the first of them.
LEMMA ComponentIsLoop ==
  ASSUME GraphOK, LoopsFormed, LInv, lpc # "idle", NaturalInv, Live,
         NEW C \in SUBSET nodes, Whole(C), \A x, y \in C : Together(nodeSuccs, x, y),
         NEW b \in C, b \in Reachable
  PROVE  \E h \in Block : Header(h) /\ C = Body(h)
<1>1. PICK N : N = nodeSuccs
  OBVIOUS
<1>2. PICK lvl : Forward(lvl)
  BY DEF LoopsFormed
<1>3. /\ Copied /\ nodes \in SUBSET Block /\ N \in Edging
      /\ \A n \in nodes : Onward(N, n) \subseteq nodes
      /\ \A n \in nodes : N[n] \subseteq Succs(n) /\ N[n] \subseteq nodes
  BY <1>1, CopyIsClosed DEF LInv, LoopTypeOK, Copied, BasesAreGone
<1>4. \A x \in C, y \in nodes : Together(N, x, y) => y \in C
  BY <1>1 DEF Whole
<1>5. \A x, y \in C : Together(N, x, y)
  BY <1>1
<1>6. C \subseteq Reachable
  <2>. DEFINE S == Reachable \cap nodes
  <2>1. S \in SUBSET Block /\ N[b] \subseteq S /\ \A c \in S : N[c] \subseteq S
    BY <1>3, ReachableFacts DEF GraphOK
  <2>2. b \in Block
    BY <1>3
  <2>. HIDE DEF S
  <2>3. Onward(N, b) \subseteq S
    BY <1>3, <2>1, <2>2, Along
  <2>4. S \subseteq Reachable
    BY DEF S
  <2>. QED
    BY <1>5, <2>3, <2>4 DEF Together
<1>7. PICK h \in C : \A d \in C : lvl[h] <= lvl[d]
  <2>1. \A c \in C : lvl[c] \in Nat
    BY <1>2, <1>3 DEF Forward
  <2>. QED
    BY <2>1, First
<1>8. h \in nodes /\ h \in Block /\ C \subseteq Block
  BY <1>3
<1>9. ASSUME NEW x \in C, h \in Succs(x)
      PROVE  Latch(h, x) /\ x # h
  <2>1. ~(lvl[x] < lvl[h])
    BY <1>2, <1>7, <1>8 DEF Forward
  <2>2. Dominates(h, x)
    BY <1>2, <1>8, <1>9, <2>1 DEF Forward
  <2>3. x # h
    BY <1>8, <1>9 DEF LoopsFormed
  <2>. QED
    BY <1>6, <1>9, <2>2, <2>3 DEF Latch
<1>10. Header(h)
  <2>1. PICK p \in Block : Together(N, h, p) /\ h \in N[p]
    BY <1>3, <1>5, <1>8, Cycle
  <2>2. p \in nodes /\ p \in C
    BY <1>3, <1>4, <1>8, <2>1 DEF Together
  <2>3. h \in Succs(p)
    BY <1>3, <2>1, <2>2
  <2>. QED
    BY <1>9, <2>1, <2>2, <2>3 DEF Header
<1>11. ASSUME NEW c \in C, c \notin Body(h)
       PROVE  FALSE
  <2>. DEFINE S == {x \in Onward(N, c) \cup {c} : x \notin C \/ x \notin Body(h)}
  <2>1. c \in nodes /\ c \in Block
    BY <1>8
  <2>2. ASSUME NEW x \in S, NEW y \in N[x]
        PROVE  y \in S
    <3>1. x \in nodes /\ y \in nodes /\ y \in Succs(x)
      BY <1>3, <2>1
    <3>2. y \in Onward(N, c) /\ x \in Block /\ y \in Block
      BY <1>3, <2>1, <3>1, Along
    <3>. SUFFICES ASSUME y \in C, y \in Body(h) PROVE FALSE
      BY <3>2
    <3>3. x \in C
      <4>1. CASE x = c
        BY <4>1
      <4>2. CASE x # c
        <5>1. x \in Onward(N, c) /\ y \in Onward(N, x) /\ c \in Onward(N, y)
          BY <1>3, <1>5, <3>2, <4>2, Along DEF Together
        <5>2. c \in Onward(N, x)
          BY <1>3, <3>2, <5>1, AlongFurther
        <5>. QED
          BY <1>4, <3>1, <5>1, <5>2 DEF Together
      <4>. QED
        BY <4>1, <4>2
    <3>4. x \in Reachable /\ x \notin Body(h)
      BY <1>6, <3>3
    <3>5. CASE y = h
      <4>1. Latch(h, x)
        BY <1>9, <3>1, <3>3, <3>5
      <4>. QED
        BY <1>10, <3>2, <3>4, <4>1, BodyFacts
    <3>6. CASE y # h
      BY <1>10, <3>1, <3>4, <3>6, HeaderFirst
    <3>. QED
      BY <3>5, <3>6
  <2>3. c \in S /\ S \in SUBSET Block
    BY <1>3, <1>11, <2>1, Along
  <2>4. h \notin S
    BY <1>10, BodyFacts
  <2>. HIDE DEF S
  <2>5. Onward(N, c) \subseteq S
    BY <1>3, <2>1, <2>2, <2>3, Along
  <2>. QED
    BY <1>5, <2>4, <2>5 DEF Together
<1>12. Body(h) \subseteq C
  <2>1. h \notin reserved
    BY <1>3, <1>8 DEF Copied
  <2>2. Body(h) \subseteq nodes /\ \A c \in Body(h) : Together(N, h, c)
    BY <1>1, <1>8, <1>10, <2>1, LoopIsLeft
  <2>. QED
    BY <1>4, <2>2
<1>. QED
  BY <1>8, <1>10, <1>11, <1>12

\* The loops of a graph stay while the graph does.
LEMMA LoopsStay ==
  ASSUME bbs' = bbs, pre' = pre, succ' = succ
  PROVE  /\ Reachable' = Reachable
         /\ Live' <=> Live
         /\ \A h : (Header(h)' <=> Header(h)) /\ Body(h)' = Body(h)
         /\ LoopsFormed => LoopsFormed'
<1>1. \A b : Succs(b)' = Succs(b)
  BY DEF Succs
<1>2. \A r, a : ReachAvoid(r, a)' = ReachAvoid(r, a)
  BY DEF ReachAvoid, Succs
<1>3. Reachable' = Reachable /\ \A a, b : Dominates(a, b)' <=> Dominates(a, b)
  BY <1>2 DEF Reachable, Dominates
<1>4. \A h, t : Latch(h, t)' <=> Latch(h, t)
  BY <1>1, <1>3 DEF Latch
<1>5. \A h : Header(h)' <=> Header(h)
  BY <1>4 DEF Header
<1>6. \A h : Body(h)' = Body(h)
  BY <1>2, <1>3, <1>4 DEF Body
<1>7. Live' <=> Live
  BY <1>1, <1>3 DEF Live
<1>8. \A lvl : Forward(lvl) => Forward(lvl)'
  BY <1>1, <1>3 DEF Forward
<1>9. LoopsFormed => LoopsFormed'
  <2>. SUFFICES ASSUME LoopsFormed PROVE LoopsFormed'
    OBVIOUS
  <2>1. (\E lvl : Forward(lvl))'
    BY <1>8 DEF LoopsFormed
  <2>2. ASSUME NEW h \in Block, NEW t \in Block, Latch(h, t)
        PROVE  /\ \A p \in Block : h \in Succs(p) => Succs(p) = {h}
               /\ \A p, q \in Reachable : /\ h \in Succs(p) /\ ~Dominates(h, p)
                                         /\ h \in Succs(q) /\ ~Dominates(h, q) => p = q
    BY <2>2 DEF LoopsFormed
  <2>. QED
    BY <1>1, <1>3, <1>4, <2>1, <2>2 DEF LoopsFormed
<1>. QED
  BY <1>3, <1>5, <1>6, <1>7, <1>9

\* The graph is copied, before anything is found.
LEMMA BuildCfgNatural == LInv /\ NaturalInv /\ BuildCfg => NaturalInv'
BY DEF LInv, BuildCfg, Untouched, NaturalInv

\* The components found are loops; when there is none no header is left.
LEMMA FindComponentsNatural ==
  ASSUME GraphOK, LoopsFormed, LInv, NaturalInv, FindComponents
  PROVE  NaturalInv'
<1>1. /\ lpc = "components" /\ sccs' = Components /\ (lpc' = "end" => sccs' = {})
      /\ reserved' = reserved /\ loops' = loops
      /\ bbs' = bbs /\ pre' = pre /\ succ' = succ
  BY DEF FindComponents, graphVars
<1>2. PICK K : K = Components
  OBVIOUS
<1>3. ASSUME Live, NEW scc \in K
      PROVE  Dead(scc) \/ \E h \in Block : Header(h) /\ scc = Body(h)
  <2>. SUFFICES ASSUME NEW b \in scc, b \in Reachable
                PROVE  \E h \in Block : Header(h) /\ scc = Body(h)
    BY DEF Dead
  <2>1. scc \in SUBSET nodes /\ Whole(scc) /\ \A x, y \in scc : Together(nodeSuccs, x, y)
    BY <1>2, ComponentFacts
  <2>. QED
    BY <1>1, <1>3, <2>1, ComponentIsLoop
<1>4. ASSUME Live, NEW h \in Block, Header(h), h \notin reserved
      PROVE  K # {}
  <2>1. Body(h) \subseteq nodes /\ \A b \in Body(h) : Together(nodeSuccs, h, b)
    BY <1>1, <1>4, LoopIsLeft
  <2>2. PICK t \in Block : Latch(h, t)
    BY <1>4 DEF Header
  <2>3. h \in nodes /\ t \in nodes /\ h # t /\ Together(nodeSuccs, h, t)
    BY <1>4, <2>1, <2>2, BodyFacts
  <2>. QED
    BY <1>2, <2>3, ComponentFacts
<1>5. /\ Reachable' = Reachable /\ (Live' <=> Live)
      /\ \A h : (Header(h)' <=> Header(h)) /\ Body(h)' = Body(h)
  BY <1>1, LoopsStay
<1>. QED
  BY <1>1, <1>2, <1>3, <1>4, <1>5 DEF NaturalInv, Dead

\* A loop is entered at its header only, which is the base that is taken out.
LEMMA BaseIsHeader ==
  ASSUME GraphOK, LoopsFormed, LInv, lpc # "idle", Live,
         NEW scc \in SUBSET nodes, NEW h, Header(h), scc = Body(h), NEW base \in Bases(scc)
  PROVE  base = h
<1>1. Copied /\ base \in scc /\ nodes \in SUBSET Block /\ reserved \subseteq Block
  BY DEF LInv, Bases, LoopTypeOK
<1>2. base \in nodes /\ base \in Block /\ base \in Reachable
  BY <1>1, BodyFacts
<1>3. \A p \in Block : base \in Succs(p) /\ base # h => p \in scc
  <2>. SUFFICES ASSUME NEW p \in Block, base \in Succs(p), base # h PROVE p \in scc
    OBVIOUS
  <2>1. p \in Reachable
    BY <1>2 DEF Live
  <2>. QED
    BY <1>1, <2>1, HeaderFirst
<1>4. CASE nodePrevs[base] \ scc # {}
  <2>1. PICK q \in nodePrevs[base] : q \notin scc
    BY <1>4
  <2>2. q \in Preds(base)
    BY <1>1, <1>2, <2>1 DEF Copied
  <2>3. q \in Block /\ base \in Succs(q)
    BY <1>2, <2>2 DEF GraphOK, Preds, Range
  <2>. QED
    BY <1>3, <2>1, <2>3
<1>5. CASE \E r \in reserved : base \in nodeSuccs[r]
  <2>1. PICK r \in reserved : base \in nodeSuccs[r]
    BY <1>5
  <2>2. r \in Block /\ base \in Succs(r) /\ r \notin scc
    BY <1>1, <2>1 DEF Copied
  <2>. QED
    BY <1>3, <2>2
<1>. QED
  BY <1>4, <1>5 DEF Bases

\* A base is taken out when no loop that is left has it and another header.
LEMMA NextLoopNatural ==
  ASSUME GraphOK, LoopsFormed, LInv, NaturalInv, NextLoop
  PROVE  NaturalInv'
<1>1. PICK scc \in sccs : /\ \E base \in Bases(scc) : EnterLoop(scc, base)
                          /\ sccs' = sccs \ {scc} /\ lpc' # "end"
  BY DEF NextLoop
<1>2. PICK base \in Bases(scc) : EnterLoop(scc, base)
  BY <1>1
<1>. DEFINE new == [base |-> base, body |-> scc]
<1>3. /\ lpc = "loops" /\ bbs' = bbs /\ pre' = pre /\ succ' = succ
      /\ loops' = loops \cup {new} /\ reserved' = reserved \cup {base}
  BY <1>2 DEF NextLoop, EnterLoop, graphVars
<1>4. new.base = base /\ new.body = scc
  OBVIOUS
<1>. HIDE DEF new
<1>5. scc \in SUBSET nodes /\ Whole(scc) /\ base \in scc /\ base \in Block /\ nodes \subseteq Block
  BY <1>1, <1>2 DEF LInv, ComponentsOK, LoopTypeOK, Bases
<1>6. /\ Reachable' = Reachable /\ (Live' <=> Live)
      /\ \A h : (Header(h)' <=> Header(h)) /\ Body(h)' = Body(h)
  BY <1>3, LoopsStay
<1>7. ASSUME Live
      PROVE  Dead(scc) \/ (Header(base) /\ scc = Body(base))
  <2>. SUFFICES ASSUME ~Dead(scc) PROVE Header(base) /\ scc = Body(base)
    OBVIOUS
  <2>1. PICK h \in Block : Header(h) /\ scc = Body(h)
    BY <1>1, <1>7 DEF NaturalInv
  <2>2. base = h
    BY <1>3, <1>5, <1>7, <2>1, <1>2, BaseIsHeader
  <2>. QED
    BY <2>1, <2>2
<1>8. ASSUME Live, NEW g \in Block, Header(g), base \in Body(g), g \notin reserved
      PROVE  g = base
  <2>1. Body(g) \subseteq nodes /\ Together(nodeSuccs, g, base) /\ g \in nodes
    BY <1>3, <1>8, LoopIsLeft, BodyFacts
  <2>2. g \in scc
    BY <1>5, <2>1 DEF Whole, Together
  <2>3. base \in Reachable
    BY <1>8, BodyFacts
  <2>4. Header(base) /\ scc = Body(base)
    BY <1>5, <1>7, <1>8, <2>3 DEF Dead
  <2>. QED
    BY <1>8, <2>2, <2>4, OneHeader
<1>9. ASSUME NEW r \in reserved'
      PROVE  \E l \in loops' : l.base = r
  BY <1>3, <1>4 DEF NaturalInv
<1>10. ASSUME Live, NEW g \in Block, NEW r \in reserved', Header(g), r \in Body(g)
       PROVE  g \in reserved'
  BY <1>3, <1>8, <1>10 DEF NaturalInv
<1>11. ASSUME Live, NEW l \in loops'
       PROVE  Dead(l.body) \/ (Header(l.base) /\ l.body = Body(l.base))
  BY <1>3, <1>4, <1>7, <1>11 DEF NaturalInv
<1>12. ASSUME Live, NEW s \in sccs'
       PROVE  Dead(s) \/ \E h \in Block : Header(h) /\ s = Body(h)
  BY <1>1, <1>12 DEF NaturalInv
<1>. QED
  BY <1>1, <1>6, <1>9, <1>10, <1>11, <1>12 DEF NaturalInv, Dead
----------------------------------------------------------------------------
(***************************************************************************)
(* What the pass has found when it ends.                                   *)
(***************************************************************************)
\* The natural loops of module LoopSearch, loop by loop.
LEMMA NaturalLoopsFacts ==
  ASSUME GraphOK
  PROVE  \A l : l \in NaturalLoops
                  <=> \E h \in Block : Header(h) /\ l = [base |-> h, body |-> Body(h)]
<1>. DEFINE reach   == Reachable
            backs   == {e \in reach \X reach : e[2] \in Succs(e[1]) /\ Dominates(e[2], e[1])}
            body(h) == {h} \cup {b \in reach : \E t \in ReachAvoid(b, h) : <<t, h>> \in backs}
<1>1. NaturalLoops = {[base |-> h, body |-> body(h)] : h \in {e[2] : e \in backs}}
  BY DEF NaturalLoops
<1>2. reach \subseteq Block /\ \A b \in reach : Succs(b) \subseteq reach
  BY ReachableFacts DEF GraphOK
<1>3. \A h, t : <<t, h>> \in backs <=> Latch(h, t)
  BY <1>2 DEF Latch
<1>4. \A h : body(h) = Body(h)
  BY <1>3 DEF Body
<1>5. \A h : h \in {e[2] : e \in backs} <=> h \in Block /\ Header(h)
  <2>1. \A h : h \in {e[2] : e \in backs} <=> \E t : <<t, h>> \in backs
    <3>1. \A e \in backs : e = <<e[1], e[2]>>
      OBVIOUS
    <3>2. \A t, h : <<t, h>>[2] = h
      OBVIOUS
    <3>. HIDE DEF backs
    <3>. QED
      BY <3>1, <3>2
  <2>2. \A h, t : Latch(h, t) => h \in Block /\ t \in Block
    BY <1>2 DEF Latch
  <2>. QED
    BY <1>3, <2>1, <2>2 DEF Header
<1>6. PICK H : H = {e[2] : e \in backs}
  OBVIOUS
<1>. HIDE DEF backs, body, reach
<1>. QED
  BY <1>1, <1>4, <1>5, <1>6

\* They are what the search has found.
LEMMA LoopsFound ==
  ASSUME GraphOK, LoopsFormed, LInv, NaturalInv, Live, lpc = "end"
  PROVE  {l \in loops : l.base \in Reachable} = NaturalLoops
<1>1. \A l \in loops : l = [base |-> l.base, body |-> l.body] /\ l.base \in Block
  BY DEF LInv, LoopTypeOK
<1>2. ASSUME NEW l \in loops, l.base \in Reachable
      PROVE  l \in NaturalLoops
  <2>1. l.base \in l.body
    BY DEF LInv, LoopsOK
  <2>2. Header(l.base) /\ l.body = Body(l.base)
    BY <1>2, <2>1 DEF NaturalInv, Dead
  <2>. QED
    BY <1>1, <2>2, NaturalLoopsFacts
<1>3. ASSUME NEW n \in NaturalLoops
      PROVE  n \in loops /\ n.base \in Reachable
  <2>1. PICK h \in Block : Header(h) /\ n = [base |-> h, body |-> Body(h)]
    BY NaturalLoopsFacts
  <2>2. PICK l \in loops : l.base = h
    BY <2>1 DEF NaturalInv
  <2>3. h \in Reachable /\ h \in l.body
    BY <2>1, <2>2, BodyFacts DEF LInv, LoopsOK
  <2>4. l.body = Body(h)
    BY <2>2, <2>3 DEF NaturalInv, Dead
  <2>5. n.base = h
    BY <2>1
  <2>. QED
    BY <1>1, <2>1, <2>2, <2>3, <2>4, <2>5
<1>. QED
  BY <1>2, <1>3

\* get_inner_loop, block by block.
LEMMA InnerFacts ==
  ASSUME LInv, NEW b \in Block
  PROVE  \/ InnerLoop(b) = NoLoop /\ \A l \in loops : b \notin l.body
         \/ /\ InnerLoop(b) \in loops /\ b \in InnerLoop(b).body
            /\ \A l \in loops : b \in l.body => InnerLoop(b).body \subseteq l.body
<1>. DEFINE around == {l \in loops : b \in l.body}
<1>1. IF around = {} THEN InnerLoop(b) = NoLoop
      ELSE InnerLoop(b) \in around /\ \A l \in around : InnerLoop(b).body \subseteq l.body
  BY InnerFound DEF InnerLoopIsInnermost
<1>. QED
  BY <1>1

\* The blocks of a loop that branch to one block only have it in the loop.
LEMMA OnlySuccIsInside ==
  ASSUME GraphOK, LoopsFormed, NEW g, Header(g), NEW p \in Body(g), NEW h, Succs(p) = {h}
  PROVE  h \in Body(g)
<1>1. /\ succ \in [Block -> Seq(Block)] /\ g \in Block /\ p \in Block /\ p \in Reachable
      /\ Reachable \subseteq Block
  BY BodyFacts, ReachableFacts DEF GraphOK
<1>2. h \in Block /\ h \in Reachable /\ h # p
  BY <1>1, ReachableFacts DEF LoopsFormed
<1>. SUFFICES ASSUME h # g PROVE h \in Body(g)
  BY BodyFacts
<1>3. PICK A : A = ReachAvoid(h, g)
  OBVIOUS
<1>4. A \in SUBSET Block /\ h \in A /\ \A x \in A : \A d \in Succs(x) : d # g => d \in A
  BY <1>2, <1>1, <1>3, ReachAvoidFacts
<1>5. CASE p # g
  <2>1. PICK t \in ReachAvoid(p, g) : Latch(g, t)
    BY <1>5 DEF Body
  <2>2. ReachAvoid(p, g) \subseteq A \cup {p}
    <3>1. PICK S : S = A \cup {p}
      OBVIOUS
    <3>2. S \in SUBSET Block /\ p \in S /\ \A x \in S : \A d \in Succs(x) : d # g => d \in S
      BY <1>1, <1>4, <3>1
    <3>3. ReachAvoid(p, g) \subseteq S
      BY <1>1, <3>2, ReachAvoidFacts
    <3>. QED
      BY <3>1, <3>3
  <2>3. t # p
    BY <2>1 DEF Latch
  <2>. QED
    BY <1>2, <1>3, <2>1, <2>2, <2>3 DEF Body
<1>6. CASE p = g
  <2>1. PICK t \in Block : Latch(g, t)
    BY DEF Header
  <2>2. t # g /\ t \in Reachable /\ t \notin Avoiding(g)
    BY <1>1, <2>1, StrictlyDominates, BodyFacts DEF Latch
  <2>3. PICK V : V = Avoiding(g)
    OBVIOUS
  <2>4. /\ V \in SUBSET Block /\ (Entry # g => Entry \in V)
        /\ \A x \in V : \A d \in Succs(x) : d # g => d \in V
    BY <1>1, <2>3, AvoidFacts
  <2>5. PICK S : S = A \cup {g} \cup V
    OBVIOUS
  <2>6. S \in SUBSET Block /\ Entry \in S /\ \A x \in S : Succs(x) \subseteq S
    BY <1>1, <1>4, <1>6, <2>4, <2>5
  <2>7. Reachable \subseteq S
    BY <1>1, <2>6, ReachableFacts
  <2>8. t \in A
    BY <2>2, <2>3, <2>5, <2>7
  <2>. QED
    BY <1>2, <1>3, <2>1, <2>8 DEF Body
<1>. QED
  BY <1>5, <1>6

\* The loops around a loop are those that have its header.
LEMMA AroundHeader ==
  ASSUME GraphOK, LoopsFormed, LInv, NaturalInv, Live,
         NEW l \in loops, l.base \in Reachable, NEW k \in loops
  PROVE  /\ l.body \subseteq k.body <=> l.base \in k.body
         /\ l.base \in k.body => Header(k.base) /\ k.body = Body(k.base)
<1>1. \A m \in loops : m.base \in m.body /\ m.base \in Block
  BY DEF LInv, LoopsOK, LoopTypeOK
<1>2. ASSUME NEW m \in loops, l.base \in m.body
      PROVE  Header(m.base) /\ m.body = Body(m.base)
  BY <1>2 DEF NaturalInv, Dead
<1>3. ASSUME l.base \in k.body
      PROVE  l.body \subseteq k.body
  <2>1. PICK m : m = InnerLoop(l.base)
    OBVIOUS
  <2>2. m \in loops /\ l.base \in m.body /\ m.body \subseteq l.body /\ m.body \subseteq k.body
    BY <1>1, <1>3, <2>1, InnerFacts
  <2>3. m.base \in l.body
    BY <1>1, <2>2
  <2>4. m.base = l.base
    BY <1>1, <1>2, <2>2, <2>3, OneHeader
  <2>5. m = l
    BY <2>2, <2>4 DEF LInv, LoopsOK
  <2>. QED
    BY <2>2, <2>5
<1>. QED
  BY <1>1, <1>2, <1>3

\* The first predecessor outside a loop is in every loop around it, and in no
\* loop without it.
LEMMA ParentFound ==
  ASSUME GraphOK, LoopsFormed, LInv, NaturalInv, Live, NEW l \in loops, l.base \in Reachable
  PROVE  LET around == {k \in loops : k # l /\ l.body \subseteq k.body}
         IN  IF around = {} THEN ParentLoop(l) = NoLoop
             ELSE ParentLoop(l) \in around /\ \A k \in around : ParentLoop(l).body \subseteq k.body
<1>. DEFINE around  == {k \in loops : k # l /\ l.body \subseteq k.body}
            preds   == pre[l.base]
            outside == {i \in DOMAIN preds : preds[i] \notin l.body}
            first   == CHOOSE i \in outside : \A j \in outside : i <= j
<1>1. PICK h : h = l.base
  OBVIOUS
<1>2. /\ h \in Block /\ h \in l.body /\ pre[h] \in Seq(Block) /\ DOMAIN pre[h] \subseteq Nat
      /\ h \in Reachable
  BY <1>1 DEF LInv, LoopsOK, LoopTypeOK, GraphOK
<1>3. Header(h) /\ l.body = Body(h)
  BY <1>1, <1>2 DEF NaturalInv, Dead
<1>4. ASSUME NEW i \in outside
      PROVE  preds[i] \in Reachable /\ preds[i] \in Block /\ h \in Succs(preds[i])
             /\ Succs(preds[i]) = {h} /\ preds[i] \notin l.body
  <2>1. preds[i] \in Preds(h) /\ preds[i] \in Block
    BY <1>1, <1>2 DEF Preds, Range
  <2>2. h \in Succs(preds[i])
    BY <1>2, <2>1 DEF GraphOK
  <2>3. preds[i] \in Reachable
    BY <1>2, <2>1, <2>2 DEF Live
  <2>4. Succs(preds[i]) = {h}
    BY <1>2, <1>3, <2>1, <2>2 DEF LoopsFormed, Header
  <2>. QED
    BY <2>1, <2>2, <2>3, <2>4
<1>5. \A k \in loops : (l.body \subseteq k.body <=> h \in k.body)
                       /\ (h \in k.body => Header(k.base) /\ k.body = Body(k.base))
  BY <1>1, AroundHeader
<1>6. outside # {} => first \in outside
  <2>1. outside \in SUBSET Nat
    BY <1>1, <1>2
  <2>. HIDE DEF outside
  <2>2. outside # {} => \E i \in outside : \A j \in outside : i <= j
    BY <2>1, LeastNumber
  <2>. QED
    BY <2>2
<1>7. ASSUME around # {}
      PROVE  outside # {}
  <2>1. PICK k \in loops : k # l /\ h \in k.body
    BY <1>5, <1>7
  <2>2. h # Entry
    <3>1. Header(k.base) /\ k.body = Body(k.base) /\ k.base # h
      BY <1>1, <1>5, <2>1 DEF LInv, LoopsOK
    <3>2. Dominates(k.base, h)
      BY <2>1, <3>1, HeaderFirst
    <3>. QED
      BY <3>1, <3>2, EntryDominates DEF GraphOK
  <2>3. PICK p \in Reachable : h \in Succs(p) /\ ~Dominates(h, p)
    BY <1>2, <2>2, ForwardPred
  <2>4. p \in Block /\ p \in Preds(h) /\ p \notin l.body
    BY <1>2, <1>3, <2>3, HeaderFirst, ReachableFacts DEF GraphOK
  <2>. QED
    BY <1>1, <2>4 DEF Preds, Range
<1>8. ASSUME NEW k \in around, NEW i \in outside
      PROVE  preds[i] \in k.body
  <2>1. k \in loops /\ h \in k.body /\ Header(k.base) /\ k.body = Body(k.base)
    BY <1>5
  <2>2. k.base # h
    BY <1>1, <2>1 DEF LInv, LoopsOK
  <2>3. preds[i] \in Reachable /\ h \in Succs(preds[i])
    BY <1>4
  <2>. QED
    BY <2>1, <2>2, <2>3, HeaderFirst
<1>9. ASSUME NEW m \in loops, NEW i \in outside, preds[i] \in m.body
      PROVE  m \in around
  <2>1. preds[i] \in Reachable /\ Succs(preds[i]) = {h} /\ preds[i] \notin l.body
    BY <1>4
  <2>2. Header(m.base) /\ m.body = Body(m.base)
    BY <1>9, <2>1 DEF NaturalInv, Dead
  <2>3. h \in m.body
    BY <1>9, <2>1, <2>2, OnlySuccIsInside
  <2>. QED
    BY <1>5, <1>9, <2>1, <2>3
<1>10. PICK p : p = InnerLoop(preds[first])
  OBVIOUS
<1>11. ParentLoop(l) = IF outside # {} /\ h \in p.body THEN p ELSE NoLoop
  BY <1>1, <1>10 DEF ParentLoop
<1>12. ASSUME outside # {}
       PROVE  \/ p = NoLoop /\ \A k \in loops : preds[first] \notin k.body
              \/ p \in loops /\ preds[first] \in p.body
                 /\ \A k \in loops : preds[first] \in k.body => p.body \subseteq k.body
  BY <1>4, <1>6, <1>10, <1>12, InnerFacts
<1>13. h \notin NoLoop.body
  BY DEF NoLoop
<1>14. around \subseteq loops /\ \A k \in around : h \in k.body
  BY <1>5
<1>. HIDE DEF outside, around, first, preds
<1>15. CASE around = {}
  <2>1. outside # {} => p = NoLoop
    BY <1>6, <1>9, <1>12, <1>15
  <2>2. ParentLoop(l) = NoLoop
    BY <1>11, <2>1
  <2>. QED
    BY <1>15, <2>2 DEF around
<1>16. CASE around # {}
  <2>1. outside # {} /\ first \in outside
    BY <1>6, <1>7, <1>16
  <2>2. \A k \in around : preds[first] \in k.body
    BY <1>8, <2>1
  <2>3. p \in loops /\ preds[first] \in p.body /\ \A k \in around : p.body \subseteq k.body
    BY <1>12, <1>14, <1>16, <2>1, <2>2
  <2>4. p \in around
    BY <1>9, <2>1, <2>3
  <2>5. ParentLoop(l) = p
    BY <1>11, <1>14, <2>1, <2>4
  <2>. QED
    BY <1>16, <2>3, <2>4, <2>5 DEF around
<1>. QED
  BY <1>15, <1>16
----------------------------------------------------------------------------
(***************************************************************************)
(* The passes in turn: the function is built, then its graph stays as it   *)
(* is, whatever Mem2Reg and LoopInvHoist do to the instructions.           *)
(***************************************************************************)
SearchInv ==
  /\ LInv /\ NaturalInv
  /\ IF mpc = "idle" /\ lpc = "idle" /\ hpc = "idle"
       THEN RInv
       ELSE Done /\ GraphOK /\ CyclesEntered /\ LoopsFormed

\* A step that changes neither the graph nor the search.
LEMMA GraphStays ==
  ASSUME bbs' = bbs, pre' = pre, succ' = succ
  PROVE  GraphOK => GraphOK' /\ (CyclesEntered => CyclesEntered')
<1>1. \A b \in Block : Succs(b)' = Succs(b) /\ Preds(b)' = Preds(b)
  BY DEF Succs, Preds
<1>2. GraphOK => GraphOK'
  BY <1>1 DEF GraphOK
<1>3. \A C \in SUBSET Block : GraphOK /\ IsEntered(C) => IsEntered(C)'
  BY <1>1 DEF IsEntered, GraphOK
<1>4. GraphOK /\ CyclesEntered => CyclesEntered'
  <2>. SUFFICES ASSUME GraphOK, CyclesEntered, NEW C \in SUBSET Block, C # {},
                       \A c \in C : Succs(c)' # {} /\ \E p \in C : c \in Succs(p)'
                PROVE  IsEntered(C)'
    BY DEF CyclesEntered
  <2>1. \A c \in C : Succs(c) # {} /\ \E p \in C : c \in Succs(p)
    BY <1>1
  <2>. QED
    BY <1>3, <2>1 DEF CyclesEntered
<1>. QED
  BY <1>2, <1>4

\* The invariant depends on the edges and the search alone.
LEMMA SearchStays ==
  LInv /\ NaturalInv /\ UNCHANGED <<bbs, pre, succ, loopVars>> => LInv' /\ NaturalInv'
<1>. SUFFICES ASSUME LInv, NaturalInv, UNCHANGED <<bbs, pre, succ, loopVars>>
              PROVE  LInv' /\ NaturalInv'
  OBVIOUS
<1>1. /\ lpc' = lpc /\ nodes' = nodes /\ nodeSuccs' = nodeSuccs /\ nodePrevs' = nodePrevs
      /\ reserved' = reserved /\ sccs' = sccs /\ loops' = loops /\ bb2base' = bb2base
      /\ bbs' = bbs /\ succ' = succ /\ pre' = pre
  BY DEF loopVars
<1>2. LoopTypeOK' /\ LoopsOK' /\ BasesOK'
  BY <1>1 DEF LInv, LoopTypeOK, LoopsOK, BasesOK, Whole, Innermost
<1>3. ComponentsOK'
  BY <1>1 DEF LInv, ComponentsOK, IsEntered, Whole, Succs
<1>4. IF lpc' = "idle" THEN Untouched' ELSE Copied'
  BY <1>1 DEF LInv, Untouched, Copied, Succs, Preds
<1>5. NaturalInv'
  BY <1>1, LoopsStay DEF NaturalInv, Dead
<1>. QED
  BY <1>2, <1>3, <1>4, <1>5 DEF LInv

\* While the function is built the search has nothing.
LEMMA SearchWaits == LInv /\ lpc = "idle" /\ UNCHANGED loopVars => LInv' /\ NaturalInv'
<1>. SUFFICES ASSUME LInv, lpc = "idle", UNCHANGED loopVars PROVE LInv' /\ NaturalInv'
  OBVIOUS
<1>1. /\ lpc' = lpc /\ nodes' = nodes /\ nodeSuccs' = nodeSuccs /\ nodePrevs' = nodePrevs
      /\ reserved' = reserved /\ sccs' = sccs /\ loops' = loops /\ bb2base' = bb2base
  BY DEF loopVars
<1>2. Untouched /\ Untouched'
  BY <1>1 DEF LInv, Untouched
<1>3. LoopTypeOK' /\ LoopsOK' /\ BasesOK' /\ ComponentsOK'
  BY <1>1, <1>2 DEF LInv, LoopTypeOK, LoopsOK, BasesOK, Innermost, ComponentsOK, Untouched
<1>4. NaturalInv'
  BY <1>1, <1>2 DEF NaturalInv, Untouched
<1>. QED
  BY <1>1, <1>2, <1>3, <1>4 DEF LInv

\* The search starts with nothing.
LEMMA LoopInitKeeps == LoopInit => LInv /\ NaturalInv
<1>. SUFFICES ASSUME LoopInit PROVE LInv /\ NaturalInv
  OBVIOUS
<1>1. LoopTypeOK
  BY DEF LoopInit, LoopTypeOK
<1>2. Untouched /\ ComponentsOK /\ LoopsOK /\ BasesOK
  BY DEF LoopInit, Untouched, ComponentsOK, LoopsOK, BasesOK
<1>3. NaturalInv
  BY DEF LoopInit, NaturalInv
<1>. QED
  BY <1>1, <1>2, <1>3 DEF LInv, LoopInit

\* The handlers that Build takes are handlers of the builder, and none of
\* them runs when the function is done.
LEMMA BuildIsBuilder == Build => BuilderNext /\ ~Done
<1>. SUFFICES ASSUME Build PROVE BuilderNext /\ ~Done
  OBVIOUS
<1>1. CASE \E v \in Vars : VisitVar(v)
  BY <1>1 DEF BuilderNext, VisitVar, Visiting
<1>2. CASE \E dropped \in BOOLEAN : VisitCall(dropped)
  BY <1>2 DEF BuilderNext, VisitCall, Visiting
<1>3. CASE \E v \in Vars : VisitAssign(v, TRUE)
  BY <1>3 DEF BuilderNext, VisitAssign, Visiting
<1>4. CASE VisitReturn \/ VisitArrayDecl
  BY <1>4 DEF BuilderNext, VisitReturn, VisitArrayDecl, Statement, Visiting
<1>5. CASE \E hasElse \in BOOLEAN : EnterSelection(hasElse)
  BY <1>5 DEF BuilderNext, EnterSelection, Statement, Visiting
<1>6. CASE EnterIteration \/ EnterBody \/ LeaveBody
  BY <1>6 DEF BuilderNext, EnterIteration, EnterBody, LeaveBody, Statement, Visiting, InFrame, Done
<1>7. CASE LeaveIf \/ LeaveThen \/ LeaveElse \/ LeaveFunction
  BY <1>7 DEF BuilderNext, LeaveIf, LeaveThen, LeaveElse, LeaveFunction, InFrame, Done
<1>8. CASE \E base \in {Opaque} \cup ArraysOf(insert) : VisitIndexedVar(base)
  BY <1>8 DEF BuilderNext, VisitIndexedVar, Visiting
<1>. QED
  BY <1>1, <1>2, <1>3, <1>4, <1>5, <1>6, <1>7, <1>8 DEF Build

\* Mem2Reg leaves the edges alone.
LEMMA Mem2RegKeepsGraph == Mem2RegNext => UNCHANGED <<bbs, pre, succ>> /\ mpc' # "idle"
<1>1. ASSUME NEW b, NEW rest, mpc = "re_name", EnterRename(b, rest)
      PROVE  UNCHANGED <<bbs, pre, succ>> /\ mpc' # "idle"
  <2>1. UNCHANGED <<bbs, pre, succ>> /\ mpc' \in {"undefined", "abort", mpc}
    BY <1>1 DEF EnterRename
  <2>. QED
    BY <1>1, <2>1
<1>2. RenameEntry => UNCHANGED <<bbs, pre, succ>> /\ mpc' # "idle"
  BY <1>1 DEF RenameEntry
<1>3. RenameChild => UNCHANGED <<bbs, pre, succ>> /\ mpc' # "idle"
  BY <1>1 DEF RenameChild
<1>4. LeaveRename => UNCHANGED <<bbs, pre, succ>> /\ mpc' # "idle"
  BY DEF LeaveRename
<1>5. StartMem2Reg \/ GeneratePhi \/ RemoveAlloca
        => UNCHANGED <<bbs, pre, succ>> /\ mpc' # "idle"
  BY DEF StartMem2Reg, GeneratePhi, RemoveAlloca, graphVars
<1>. QED
  BY <1>2, <1>3, <1>4, <1>5 DEF Mem2RegNext

\* LoopInvHoist comes after the search, and leaves the edges and loops alone.
LEMMA HoistKeepsGraph ==
  HoistNext => UNCHANGED <<bbs, pre, succ, loopVars>> /\ (hpc = "idle" => lpc = "end")
<1>1. HoistLoop => UNCHANGED <<bbs, pre, succ, loopVars>> /\ hpc = "hoist"
  BY DEF HoistLoop
<1>2. StartHoist \/ HoistDone => UNCHANGED <<bbs, pre, succ, loopVars>>
                                 /\ (hpc = "idle" => lpc = "end")
  BY DEF StartHoist, HoistDone, graphVars
<1>. QED
  BY <1>1, <1>2 DEF HoistNext

\* The invariant holds in the beginning.
LEMMA SearchInitial == Init => SearchInv
<1>. SUFFICES ASSUME Init PROVE SearchInv
  OBVIOUS
<1>1. BuilderInit /\ LoopInit /\ mpc = "idle" /\ lpc = "idle" /\ hpc = "idle"
  BY DEF Init, Mem2RegInit, LoopInit, HoistInit
<1>. QED
  BY <1>1, InitReducible, LoopInitKeeps DEF SearchInv

\* Every step keeps it.
LEMMA SearchStep == SearchInv /\ [Next]_vars => SearchInv'
<1>. SUFFICES ASSUME SearchInv, [Next]_vars PROVE SearchInv'
  OBVIOUS
<1>. DEFINE idle  == mpc = "idle" /\ lpc = "idle" /\ hpc = "idle"
            Built == GraphOK /\ CyclesEntered /\ LoopsFormed
<1>1. LInv /\ NaturalInv /\ (idle => RInv) /\ (~idle => Done /\ Built)
  BY DEF SearchInv
<1>2. Done => Built
  BY <1>1, BuiltGraph, BuiltLoopsFormed
<1>3. ASSUME Done, UNCHANGED <<bbs, pre, succ, frames>>
      PROVE  Done' /\ Built'
  BY <1>2, <1>3, GraphStays, LoopsStay DEF Done
<1>4. CASE Build
  <2>1. idle /\ UNCHANGED <<mem2regVars, loopVars, hoistVars>> /\ BuilderNext
    BY <1>1, <1>4, BuildIsBuilder DEF Build
  <2>2. mpc' = mpc /\ lpc' = lpc /\ hpc' = hpc
    BY <2>1 DEF mem2regVars, loopVars, hoistVars
  <2>3. LInv' /\ NaturalInv'
    BY <1>1, <2>1, SearchWaits
  <2>4. RInv'
    BY <1>1, <2>1, NextReducible
  <2>. QED
    BY <2>1, <2>2, <2>3, <2>4 DEF SearchInv
<1>5. CASE Mem2RegFirst
  <2>1. Done /\ Mem2RegNext /\ UNCHANGED <<builderVars, loopVars, hoistVars>>
    BY <1>5 DEF Mem2RegFirst
  <2>2. UNCHANGED <<bbs, pre, succ, frames>> /\ lpc' = lpc /\ hpc' = hpc
    BY <2>1, Mem2RegKeepsGraph DEF builderVars, loopVars, hoistVars
  <2>3. ~idle'
    BY <2>1, Mem2RegKeepsGraph
  <2>4. LInv' /\ NaturalInv'
    BY <1>1, <2>1, <2>2, SearchStays
  <2>. QED
    BY <1>3, <2>1, <2>2, <2>3, <2>4 DEF SearchInv
<1>6. CASE Search
  <2>1. Done /\ LoopNext /\ UNCHANGED <<builderVars, mem2regVars, hoistVars>>
    BY <1>6 DEF Search
  <2>2. UNCHANGED <<bbs, pre, succ, frames>>
    BY <2>1 DEF LoopNext, BuildCfg, FindComponents, NextLoop, graphVars, builderVars
  <2>3. LInv' /\ NaturalInv'
    BY <1>1, <1>2, <2>1, BuildCfgKeeps, FindComponentsKeeps, NextLoopKeeps,
       BuildCfgNatural, FindComponentsNatural, NextLoopNatural DEF LoopNext
  <2>4. lpc' # "idle"
    BY <2>1 DEF LoopNext, BuildCfg, FindComponents, NextLoop
  <2>. QED
    BY <1>3, <2>1, <2>2, <2>3, <2>4 DEF SearchInv
<1>7. CASE Hoist
  <2>1. HoistNext /\ UNCHANGED builderVars /\ UNCHANGED <<bbs, pre, succ, loopVars>>
    BY <1>7, HoistKeepsGraph DEF Hoist
  <2>2. UNCHANGED <<bbs, pre, succ, frames>>
    BY <2>1 DEF builderVars
  <2>3. ~idle /\ Done
    BY <1>1, <2>1, HoistKeepsGraph
  <2>4. ~idle'
    BY <2>1, <2>3 DEF HoistNext, StartHoist, HoistLoop, HoistDone
  <2>5. LInv' /\ NaturalInv'
    BY <1>1, <2>1, SearchStays
  <2>. QED
    BY <1>3, <2>2, <2>3, <2>4, <2>5 DEF SearchInv
<1>8. CASE UNCHANGED vars
  <2>1. /\ UNCHANGED <<graphVars, builderVars>> /\ UNCHANGED <<bbs, pre, succ, loopVars>>
        /\ UNCHANGED <<bbs, pre, succ, frames>>
        /\ mpc' = mpc /\ lpc' = lpc /\ hpc' = hpc
    BY <1>8 DEF vars, graphVars, builderVars, mem2regVars, loopVars, hoistVars
  <2>2. RInv => RInv'
    BY <2>1, NextReducible DEF builderAndGraph
  <2>3. LInv' /\ NaturalInv'
    BY <1>1, <2>1, SearchStays
  <2>. QED
    BY <1>1, <1>3, <2>1, <2>2, <2>3 DEF SearchInv
<1>. QED
  BY <1>4, <1>5, <1>6, <1>7, <1>8 DEF Next

(* The invariant holds throughout: of the function while it is built, of    *)
(* its graph and the copy while LoopSearch takes the copy apart.            *)
THEOREM LoopSearchInvariant == Spec => []SearchInv
BY SearchInitial, SearchStep, PTL DEF Spec

\* In every invariant state the graph is one the search can be proved about.
LEMMA GraphOfSearch ==
  SearchInv => LInv /\ NaturalInv /\ (lpc # "idle" => GraphOK /\ LoopsFormed)
BY DEF SearchInv

\* The variables of LoopSearch have their types.
THEOREM LoopSearchTypeCorrect == Spec => []LoopTypeOK
<1>1. SearchInv => LoopTypeOK
  BY DEF SearchInv, LInv
<1>. QED
  BY LoopSearchInvariant, <1>1, PTL

(* However many bases have been taken out of the copy, no node left in it   *)
(* is linked to one: traverse and find_loop_base stay among the nodes left. *)
THEOREM BasesStayGone == Spec => []BasesAreGone
<1>1. SearchInv => BasesAreGone
  BY CopyIsClosed, GraphOfSearch DEF LInv, Untouched, BasesAreGone
<1>. QED
  BY LoopSearchInvariant, <1>1, PTL

(* find_loop_base never answers nullptr, which run would dereference: the   *)
(* components of a function the builder made are entered from outside, in   *)
(* dead code too, and stay so when bases are taken out.                     *)
THEOREM BaseIsAlwaysFound == Spec => []EveryLoopHasBase
<1>1. SearchInv => EveryLoopHasBase
  BY BasesFound, GraphOfSearch DEF EveryLoopHasBase
<1>. QED
  BY LoopSearchInvariant, <1>1, PTL

(* get_inner_loop answers the innermost of the loops found so far, in       *)
(* whatever order the components are entered.                               *)
THEOREM InnermostIsAnswered == Spec => []InnerLoopIsInnermost
<1>1. SearchInv => InnerLoopIsInnermost
  BY InnerFound, GraphOfSearch
<1>. QED
  BY LoopSearchInvariant, <1>1, PTL

(* The loops found are the natural loops of the graph, each with its header *)
(* as its base, however loops nest and in whatever order the components are *)
(* entered, provided that no join that execution reaches has a dead         *)
(* predecessor.                                                             *)
THEOREM LoopsFoundAreNatural == Spec => []LoopsAreNatural
<1>1. SearchInv => LoopsAreNatural
  BY LoopsFound, LiveJoins, GraphOfSearch DEF LoopsAreNatural
<1>. QED
  BY LoopSearchInvariant, <1>1, PTL

(* get_parent_loop answers the innermost loop around a loop, although it    *)
(* looks at the first predecessor outside only: that one branches nowhere   *)
(* but to the header, so it is in the same loops around.                    *)
THEOREM ParentIsAround == Spec => []ParentLoopIsAround
<1>1. SearchInv => ParentLoopIsAround
  BY ParentFound, LiveJoins, GraphOfSearch DEF ParentLoopIsAround
<1>. QED
  BY LoopSearchInvariant, <1>1, PTL
----------------------------------------------------------------------------
(***************************************************************************)
(* LoopInvHoist: move_instr_set.                                           *)
(***************************************************************************)
\* Lists of places, each at most once, of instructions that may move.
Queues(body) ==
  {q \in Seq(Places(code, body)) :
     /\ \A j, k \in 1..Len(q) : q[j] = q[k] => j = k
     /\ \A k \in 1..Len(q) : MayMove(code[q[k][1]][q[k][2]])}

SweepState(body) == [queue : Queues(body), defVal : SUBSET DefVal(body)]

LEMMA PlacesFacts ==
  ASSUME NEW lists, NEW blocks
  PROVE  \A p : p \in Places(lists, blocks) <=>
                  \E b \in blocks : \E n \in DOMAIN lists[b] : p = <<b, n>>
BY DEF Places

\* The turn of one instruction.
LEMMA FindKeeps ==
  ASSUME NEW body, NEW st \in SweepState(body), NEW b \in body, NEW n \in DOMAIN code[b]
  PROVE  Find(st, b, n) \in SweepState(body)
<1>. DEFINE i  == code[b][n]
            q  == st.queue
            q2 == Append(q, <<b, n>>)
            P  == Places(code, body)
<1>1. /\ q \in Seq(P) /\ st.defVal \in SUBSET DefVal(body)
      /\ \A j, k \in 1..Len(q) : q[j] = q[k] => j = k
      /\ \A k \in 1..Len(q) : MayMove(code[q[k][1]][q[k][2]])
  BY DEF SweepState, Queues
<1>2. <<b, n>> \in P
  BY PlacesFacts
<1>3. CASE <<b, n>> \notin Range(q) /\ MayMove(i) /\ i.arg \notin st.defVal
  <2>1. Find(st, b, n) = [queue |-> q2, defVal |-> st.defVal \ {Result(i.id)}]
    BY <1>3 DEF Find
  <2>2. PICK p \in P : p = <<b, n>>
    BY <1>2
  <2>3. MayMove(code[p[1]][p[2]])
    BY <1>3, <2>2
  <2>4. \A k \in 1..Len(q) : q[k] # p
    BY <1>1, <1>3, <2>2 DEF Range
  <2>. DEFINE r == Append(q, p)
  <2>5. r \in Seq(P) /\ Len(r) = Len(q) + 1 /\ r[Len(q) + 1] = p
        /\ \A k \in 1..Len(q) : r[k] = q[k]
    BY <1>1
  <2>6. Len(q) \in Nat /\ \A k \in 1..Len(q) + 1 : k \in 1..Len(q) \/ k = Len(q) + 1
    BY <1>1
  <2>. HIDE DEF r, q, P
  <2>7. \A k \in 1..Len(r) : MayMove(code[r[k][1]][r[k][2]])
    BY <1>1, <2>3, <2>5, <2>6
  <2>8. \A j, k \in 1..Len(r) : r[j] = r[k] => j = k
    BY <1>1, <2>4, <2>5, <2>6
  <2>9. r \in Queues(body)
    BY <2>5, <2>7, <2>8 DEF Queues, P
  <2>10. q2 = r
    BY <2>2 DEF r
  <2>11. st.defVal \ {Result(i.id)} \in SUBSET DefVal(body)
    BY <1>1
  <2>12. q2 \in Queues(body)
    BY <2>9, <2>10
  <2>. HIDE DEF q2
  <2>. QED
    BY ONLY <2>1, <2>11, <2>12 DEF SweepState
<1>4. CASE ~(<<b, n>> \notin Range(q) /\ MayMove(i) /\ i.arg \notin st.defVal)
  BY <1>4 DEF Find
<1>. QED
  BY <1>3, <1>4

\* The instructions of a block, in a sweep.
LEMMA SweepBlockKeeps ==
  ASSUME code \in [Block -> Seq(Instr)], NEW body \in SUBSET Block,
         NEW base \in SweepState(body), NEW b \in body
  PROVE  SweepBlock(base, b) \in SweepState(body)
<1>. DEFINE U == SweepState(body)
            s == [m \in DOMAIN code[b] |-> m]
            n == Len(code[b])
            step == [e \in U \X (1..n) |-> Find(e[1], b, e[2])]
            F(it) == [t \in SUBSET DOMAIN s |->
                        IF t = {} THEN base ELSE Find(it[t \ {Max(t)}], b, s[Max(t)])]
            c == CHOOSE it : it = F(it)
<1>1. SweepBlock(base, b) = c[DOMAIN s]
  BY DEF SweepBlock, FoldLeft, MapThenFoldSet
<1>2. n \in Nat /\ DOMAIN code[b] = 1..n /\ DOMAIN s = 1..n /\ \A k \in 1..n : s[k] = k
  OBVIOUS
<1>3. \A t : Max(t) = Greatest(t)
  BY DEF Max, Greatest
<1>4. \A u \in U, k \in 1..n : Find(u, b, k) \in U
  BY <1>2, FindKeeps
<1>5. base \in U /\ step \in [U \X (1..n) -> U]
  BY <1>4
<1>6. \A u \in U, k \in 1..n : step[<<u, k>>] = Find(u, b, k)
  OBVIOUS
<1>. HIDE DEF U, n, step
<1>7. \A t \in SUBSET (1..n) : t # {} => Greatest(t) \in 1..n /\ t \ {Greatest(t)} \in SUBSET (1..n)
  BY <1>2, GreatestFacts
<1>8. PICK it : FoldOn(it, n, U, base, step)
  BY <1>2, <1>5, FoldExists
<1>9. it = F(it)
  <2>1. it \in [SUBSET (1..n) -> U]
    BY <1>8 DEF FoldOn
  <2>2. ASSUME NEW t \in SUBSET (1..n)
        PROVE  it[t] = IF t = {} THEN base ELSE Find(it[t \ {Max(t)}], b, s[Max(t)])
    <3>1. CASE t = {}
      BY <1>8, <3>1 DEF FoldOn
    <3>2. CASE t # {}
      <4>1. it[t] = step[<<it[t \ {Greatest(t)}], Greatest(t)>>] /\ it[t \ {Greatest(t)}] \in U
        BY <1>7, <1>8, <3>2 DEF FoldOn
      <4>2. Max(t) = Greatest(t) /\ s[Greatest(t)] = Greatest(t) /\ Greatest(t) \in 1..n
        BY <1>2, <1>3, <1>7, <3>2
      <4>. HIDE DEF s
      <4>. QED
        BY <1>6, <3>2, <4>1, <4>2
    <3>. QED
      BY <3>1, <3>2
  <2>. QED
    BY <1>2, <2>1, <2>2
<1>. HIDE DEF F
<1>10. c = F(c)
  BY <1>9
<1>. HIDE DEF c
<1>11. IsFold(c, n, U, base, step)
  <2>1. ASSUME NEW t \in SUBSET (1..n)
        PROVE  c[t] = IF t = {} THEN base ELSE Find(c[t \ {Max(t)}], b, s[Max(t)])
    BY <1>2, <1>10 DEF F
  <2>2. ASSUME NEW t \in SUBSET (1..n), t # {}, c[t \ {Greatest(t)}] \in U
        PROVE  c[t] = step[<<c[t \ {Greatest(t)}], Greatest(t)>>]
    <3>1. Max(t) = Greatest(t) /\ s[Greatest(t)] = Greatest(t) /\ Greatest(t) \in 1..n
      BY <1>2, <1>3, <1>7, <2>2
    <3>. HIDE DEF s
    <3>2. c[t] = Find(c[t \ {Greatest(t)}], b, Greatest(t))
      BY <2>1, <2>2, <3>1
    <3>. QED
      BY <1>6, <2>2, <3>1, <3>2
  <2>. QED
    BY <2>1, <2>2 DEF IsFold
<1>12. PICK g : FoldSteps(g, n, U, base, step) /\ g[n] = c[1..n]
  <2>1. FoldsTo(c[1..n], n, U, base, step)
    BY <1>2, <1>5, <1>11, FoldIs
  <2>. QED
    BY <2>1 DEF FoldsTo
<1>13. n \in 0..n /\ g[n] \in U
  BY <1>2, <1>12 DEF FoldSteps
<1>. QED
  BY <1>1, <1>2, <1>12, <1>13 DEF U

\* One sweep of the blocks.
LEMMA SweepKeeps ==
  ASSUME code \in [Block -> Seq(Instr)], NEW body \in SUBSET Block,
         NEW base \in SweepState(body), NEW s \in Seq(body)
  PROVE  Sweep(base, s) \in SweepState(body)
<1>. DEFINE U == SweepState(body)
            n == Len(s)
            step == [e \in U \X (1..n) |-> SweepBlock(e[1], s[e[2]])]
            F(it) == [t \in SUBSET DOMAIN s |->
                        IF t = {} THEN base ELSE SweepBlock(it[t \ {Max(t)}], s[Max(t)])]
            c == CHOOSE it : it = F(it)
<1>1. Sweep(base, s) = c[DOMAIN s]
  BY DEF Sweep, FoldLeft, MapThenFoldSet
<1>2. n \in Nat /\ DOMAIN s = 1..n /\ \A k \in 1..n : s[k] \in body
  OBVIOUS
<1>3. \A t : Max(t) = Greatest(t)
  BY DEF Max, Greatest
<1>4. \A u \in U, k \in 1..n : SweepBlock(u, s[k]) \in U
  BY <1>2, SweepBlockKeeps
<1>5. base \in U /\ step \in [U \X (1..n) -> U]
  BY <1>4
<1>6. \A u \in U, k \in 1..n : step[<<u, k>>] = SweepBlock(u, s[k])
  OBVIOUS
<1>. HIDE DEF U, n, step
<1>7. \A t \in SUBSET (1..n) : t # {} => Greatest(t) \in 1..n /\ t \ {Greatest(t)} \in SUBSET (1..n)
  BY <1>2, GreatestFacts
<1>8. PICK it : FoldOn(it, n, U, base, step)
  BY <1>2, <1>5, FoldExists
<1>9. it = F(it)
  <2>1. it \in [SUBSET (1..n) -> U]
    BY <1>8 DEF FoldOn
  <2>2. ASSUME NEW t \in SUBSET (1..n)
        PROVE  it[t] = IF t = {} THEN base ELSE SweepBlock(it[t \ {Max(t)}], s[Max(t)])
    <3>1. CASE t = {}
      BY <1>8, <3>1 DEF FoldOn
    <3>2. CASE t # {}
      <4>1. it[t] = step[<<it[t \ {Greatest(t)}], Greatest(t)>>] /\ it[t \ {Greatest(t)}] \in U
        BY <1>7, <1>8, <3>2 DEF FoldOn
      <4>. QED
        BY <1>3, <1>6, <1>7, <3>2, <4>1
    <3>. QED
      BY <3>1, <3>2
  <2>. QED
    BY <1>2, <2>1, <2>2
<1>. HIDE DEF F
<1>10. c = F(c)
  BY <1>9
<1>. HIDE DEF c
<1>11. IsFold(c, n, U, base, step)
  <2>1. ASSUME NEW t \in SUBSET (1..n)
        PROVE  c[t] = IF t = {} THEN base ELSE SweepBlock(c[t \ {Max(t)}], s[Max(t)])
    BY <1>2, <1>10 DEF F
  <2>2. ASSUME NEW t \in SUBSET (1..n), t # {}, c[t \ {Greatest(t)}] \in U
        PROVE  c[t] = step[<<c[t \ {Greatest(t)}], Greatest(t)>>]
    BY <1>3, <1>6, <1>7, <2>1, <2>2
  <2>. QED
    BY <2>1, <2>2 DEF IsFold
<1>12. PICK g : FoldSteps(g, n, U, base, step) /\ g[n] = c[1..n]
  <2>1. FoldsTo(c[1..n], n, U, base, step)
    BY <1>2, <1>5, <1>11, FoldIs
  <2>. QED
    BY <2>1 DEF FoldsTo
<1>13. n \in 0..n /\ g[n] \in U
  BY <1>2, <1>12 DEF FoldSteps
<1>. QED
  BY <1>1, <1>2, <1>12, <1>13 DEF U

\* There are finitely many places.
LEMMA PlacesAreFinite ==
  ASSUME NEW lists \in [Block -> Seq(Instr)], NEW blocks \in SUBSET Block
  PROVE  IsFiniteSet(Places(lists, blocks))
<1>. DEFINE of(b) == {b} \X DOMAIN lists[b]
            S == {of(b) : b \in blocks}
<1>1. IsFiniteSet(blocks)
  BY BlocksAreFinite, FS_Subset
<1>2. ASSUME NEW b \in blocks
      PROVE  IsFiniteSet(of(b))
  <2>1. DOMAIN lists[b] = 1..Len(lists[b]) /\ Len(lists[b]) \in Nat
    OBVIOUS
  <2>2. IsFiniteSet({b})
    BY FS_Singleton
  <2>3. IsFiniteSet(1..Len(lists[b]))
    BY <2>1, FS_Interval
  <2>. QED
    BY <2>1, <2>2, <2>3, FS_Product
<1>3. IsFiniteSet(S)
  <2>1. [b \in blocks |-> of(b)] \in Surjection(blocks, S)
    BY DEF Surjection
  <2>. QED
    BY <1>1, <2>1, FS_Surjection
<1>4. \A T \in S : IsFiniteSet(T)
  BY <1>2
<1>. HIDE DEF of
<1>5. Places(lists, blocks) = UNION S
  BY DEF Places, of
<1>. HIDE DEF S
<1>. QED
  BY <1>3, <1>4, <1>5, FS_UNION

\* The blocks of a loop in an order.
LEMMA OrderIsList ==
  ASSUME NEW body \in SUBSET Block, NEW S \in SUBSET body, NEW order \in SetToSeqs(S)
  PROVE  order \in Seq(body)
<1>1. Cardinality(S) \in Nat
  BY BlocksAreFinite, FS_Subset, FS_CardinalityType
<1>2. order \in [1..Cardinality(S) -> S]
  BY DEF SetToSeqs
<1>. QED
  BY <1>1, <1>2

\* What is moved, of a loop.
LEMMA MoveSetFacts ==
  ASSUME code \in [Block -> Seq(Instr)], NEW body \in SUBSET Block, NEW order \in Seq(body)
  PROVE  MoveSet(body, order) \in Queues(body)
<1>. DEFINE U     == SweepState(body)
            count == Cardinality(Places(code, body))
            base  == [queue |-> << >>, defVal |-> DefVal(body)]
            F(it) == [k \in 0..count |-> IF k = 0 THEN base ELSE Sweep(it[k - 1], order)]
            c     == CHOOSE it : it = F(it)
            step  == [e \in U \X (1..count) |-> Sweep(e[1], order)]
<1>1. MoveSet(body, order) = c[count].queue
  BY DEF MoveSet
<1>2. count \in Nat
  BY PlacesAreFinite, FS_CardinalityType
<1>3. base \in U
  <2>1. << >> \in Queues(body)
    BY DEF Queues
  <2>. QED
    BY <2>1 DEF SweepState
<1>4. \A u \in U : Sweep(u, order) \in U
  BY SweepKeeps
<1>5. /\ step \in [U \X (1..count) -> U]
      /\ \A u \in U, k \in 1..count : step[<<u, k>>] = Sweep(u, order)
  BY <1>4
<1>. HIDE DEF U, count, base, step
<1>6. PICK g : FoldSteps(g, count, U, base, step)
  BY <1>2, <1>3, <1>5, FoldStepsExist
<1>7. /\ g \in [0..count -> U] /\ g[0] = base
      /\ \A k \in 1..count : g[k] = step[<<g[k - 1], k>>]
  BY <1>6 DEF FoldSteps
<1>8. \A k \in 1..count : k - 1 \in 0..count /\ g[k - 1] \in U /\ g[k] = Sweep(g[k - 1], order)
  <2>1. \A k \in 1..count : k - 1 \in 0..count
    BY <1>2
  <2>. QED
    BY <1>5, <1>7, <2>1
<1>9. g = F(g)
  <2>1. \A k \in 0..count : k = 0 \/ k \in 1..count
    BY <1>2
  <2>2. ASSUME NEW k \in 0..count
        PROVE  g[k] = IF k = 0 THEN base ELSE Sweep(g[k - 1], order)
    BY <1>7, <1>8, <2>1
  <2>. QED
    BY <1>7, <2>2
<1>. HIDE DEF F
<1>10. c = F(c)
  BY <1>9
<1>. HIDE DEF c
<1>11. \A k \in 0..count : c[k] = IF k = 0 THEN base ELSE Sweep(c[k - 1], order)
  BY <1>10 DEF F
<1>. DEFINE S == {k \in Nat : k <= count => c[k] \in U}
<1>12. 0 \in S
  BY <1>2, <1>3, <1>11
<1>13. ASSUME NEW k \in S
       PROVE  k + 1 \in S
  <2>. SUFFICES ASSUME k + 1 <= count PROVE c[k + 1] \in U
    OBVIOUS
  <2>1. k + 1 \in 0..count /\ k + 1 # 0 /\ (k + 1) - 1 = k /\ c[k] \in U
    BY <1>2
  <2>2. c[k + 1] = Sweep(c[k], order)
    BY <1>11, <2>1
  <2>. QED
    BY <1>4, <2>1, <2>2
<1>14. S = Nat
  <2>. HIDE DEF S
  <2>1. S \in SUBSET Nat
    BY DEF S
  <2>. QED
    BY <1>12, <1>13, <2>1, Induction
<1>15. c[count] \in U
  BY <1>2, <1>14
<1>. QED
  BY <1>1, <1>15 DEF U, SweepState
----------------------------------------------------------------------------
(***************************************************************************)
(* The moves.                                                              *)
(***************************************************************************)
\* The places of s that a test leaves.
LEMMA OutsideFacts ==
  ASSUME NEW l, pre[l.base] \in Seq(Block)
  PROVE  /\ Outside(l) \in Seq(Block)
         /\ \A p : p \in Range(Outside(l)) <=> p \in Preds(l.base) /\ p \notin l.body
<1>. DEFINE s == pre[l.base]
            D == {n \in 1..Len(s) : s[n] \notin l.body}
            F(g) == [n \in 0..Len(s) |->
                       IF n = 0 THEN << >>
                       ELSE IF s[n] \notin l.body THEN Append(g[n - 1], s[n]) ELSE g[n - 1]]
            c == CHOOSE g : g = F(g)
<1>1. Outside(l) = c[Len(s)]
  BY DEF Outside, Keep
<1>2. D \in SUBSET (1..Len(s)) /\ \A n \in 1..Len(s) : n \in D <=> s[n] \notin l.body
  OBVIOUS
<1>. HIDE DEF D
<1>3. PICK g \in [0..Len(s) -> Seq(Block)] : Collects(g, s, D)
  BY <1>2, CollectsExist
<1>4. g = F(g)
  <2>1. ASSUME NEW n \in 0..Len(s)
        PROVE  g[n] = F(g)[n]
    <3>1. CASE n = 0
      BY <1>3, <3>1 DEF Collects
    <3>2. CASE n # 0
      <4>1. n \in 1..Len(s)
        BY <3>2
      <4>. QED
        BY <1>2, <1>3, <3>2, <4>1 DEF Collects
    <3>. QED
      BY <3>1, <3>2
  <2>. QED
    BY <1>3, <2>1
<1>. HIDE DEF F
<1>5. c = F(c)
  BY <1>4
<1>. HIDE DEF c
<1>6. Collects(c, s, D)
  <2>1. \A n \in 0..Len(s) :
          c[n] = IF n = 0 THEN << >>
                 ELSE IF s[n] \notin l.body THEN Append(c[n - 1], s[n]) ELSE c[n - 1]
    BY <1>5 DEF F
  <2>2. 0 \in 0..Len(s) /\ \A n \in 1..Len(s) : n \in 0..Len(s) /\ n # 0
    OBVIOUS
  <2>3. ASSUME NEW n \in 1..Len(s)
        PROVE  c[n] = IF n \in D THEN Append(c[n - 1], s[n]) ELSE c[n - 1]
    BY <1>2, <2>1, <2>2
  <2>. QED
    BY <2>1, <2>2, <2>3 DEF Collects
<1>7. CanCollect(c, s, D, Block)
  BY <1>2, <1>6 DEF CanCollect
<1>8. Collected(c[Len(s)], s, D, Block)
  BY <1>7, CollectsFacts
<1>9. \A p : p \in Preds(l.base) <=> \E n \in 1..Len(s) : p = s[n]
  BY DEF Preds, Range
<1>10. c[Len(s)] \in Seq(Block) /\ \A p : p \in Range(c[Len(s)]) <=> \E d \in D : p = s[d]
  BY <1>8 DEF Collected
<1>. QED
  BY <1>1, <1>2, <1>9, <1>10

\* The numbers of the instructions of b that stay.
Stays(queue, b) == {n \in 1..Len(code[b]) : <<b, n>> \notin Range(queue)}

LEMMA StayingFacts ==
  ASSUME code \in [Block -> Seq(Instr)], NEW b \in Block, NEW queue
  PROVE  /\ Staying(queue, b) \in Seq(Stays(queue, b))
         /\ \A j, k \in 1..Len(Staying(queue, b)) :
              j < k => Staying(queue, b)[j] < Staying(queue, b)[k]
         /\ \A d \in Stays(queue, b) : \E k \in 1..Len(Staying(queue, b)) : Staying(queue, b)[k] = d
<1>. DEFINE D == Stays(queue, b)
            m == Len(code[b])
            s == [n \in DOMAIN code[b] |-> n]
            F(g) == [n \in 0..Len(s) |->
                       IF n = 0 THEN << >>
                       ELSE IF <<b, s[n]>> \notin Range(queue)
                            THEN Append(g[n - 1], s[n]) ELSE g[n - 1]]
            c == CHOOSE g : g = F(g)
<1>1. Staying(queue, b) = c[Len(s)]
  BY DEF Staying, Keep
<1>2. m \in Nat /\ s \in Seq(1..m) /\ Len(s) = m /\ \A n \in 1..m : s[n] = n
  OBVIOUS
<1>3. D \in SUBSET (1..Len(s)) /\ \A n \in 1..Len(s) : n \in D <=> <<b, s[n]>> \notin Range(queue)
  BY <1>2 DEF Stays
<1>. HIDE DEF D, s, m
<1>4. PICK g \in [0..Len(s) -> Seq(1..m)] : Collects(g, s, D)
  BY <1>2, <1>3, CollectsExist
<1>5. g = F(g)
  <2>1. ASSUME NEW n \in 0..Len(s)
        PROVE  g[n] = F(g)[n]
    <3>1. CASE n = 0
      BY <1>4, <3>1 DEF Collects
    <3>2. CASE n # 0
      <4>1. n \in 1..Len(s)
        BY <1>2, <3>2
      <4>. QED
        BY <1>3, <1>4, <3>2, <4>1 DEF Collects
    <3>. QED
      BY <3>1, <3>2
  <2>. QED
    BY <1>4, <2>1
<1>. HIDE DEF F
<1>6. c = F(c)
  BY <1>5
<1>. HIDE DEF c
<1>7. Collects(c, s, D)
  <2>1. \A n \in 0..Len(s) :
          c[n] = IF n = 0 THEN << >>
                 ELSE IF <<b, s[n]>> \notin Range(queue) THEN Append(c[n - 1], s[n]) ELSE c[n - 1]
    BY <1>6 DEF F
  <2>2. 0 \in 0..Len(s) /\ \A n \in 1..Len(s) : n \in 0..Len(s) /\ n # 0
    BY <1>2
  <2>3. ASSUME NEW n \in 1..Len(s)
        PROVE  c[n] = IF n \in D THEN Append(c[n - 1], s[n]) ELSE c[n - 1]
    BY <1>3, <2>1, <2>2
  <2>. QED
    BY <2>1, <2>2, <2>3 DEF Collects
<1>. DEFINE r == c[Len(s)]
<1>8. Len(s) \in 0..Len(s)
  BY <1>2
<1>9. r \in Seq(1..m) /\ \E h \in Seq(D) : Len(h) = Len(r) /\ PlacesIn(h, r, Len(s), s, D)
  BY <1>2, <1>3, <1>7, <1>8, CollectsInOrder
<1>10. PICK h \in Seq(D) : Len(h) = Len(r) /\ PlacesIn(h, r, Len(s), s, D)
  BY <1>9
<1>. HIDE DEF r
<1>11. /\ \A k \in 1..Len(r) : h[k] \in D /\ r[k] = s[h[k]]
       /\ \A j, k \in 1..Len(r) : j < k => h[j] < h[k]
       /\ \A d \in D : d <= Len(s) => \E k \in 1..Len(r) : h[k] = d
  BY <1>10 DEF PlacesIn
<1>12. \A d \in D : d \in 1..m /\ d <= Len(s) /\ s[d] = d
  BY <1>2, <1>3
<1>13. \A k \in 1..Len(r) : r[k] = h[k] /\ r[k] \in D
  BY <1>11, <1>12
<1>14. r \in Seq(D)
  <2>1. PICK n \in Nat : n = Len(r) /\ r = [k \in 1..n |-> r[k]]
    BY <1>9
  <2>2. r \in [1..n -> D]
    BY <1>13, <2>1
  <2>. QED
    BY ONLY <2>2
<1>15. /\ \A j, k \in 1..Len(r) : j < k => r[j] < r[k]
       /\ \A d \in D : \E k \in 1..Len(r) : r[k] = d
  BY <1>11, <1>12, <1>13
<1>16. Staying(queue, b) = r
  BY <1>1 DEF r
<1>. QED
  BY <1>14, <1>15, <1>16 DEF D

\* How the lists look after the moves.
LEMMA MovedShape ==
  ASSUME code \in [Block -> Seq(Instr)], NEW body \in SUBSET Block, NEW to \in Block \ body,
         code[to] # << >>, NEW queue \in Queues(body)
  PROVE  LET new == Moved(queue, to)
             m   == Len(code[to])
             k   == Len(queue)
         IN  /\ new \in [Block -> Seq(Instr)]
             /\ m \in Nat \ {0} /\ k \in Nat /\ Len(new[to]) = m + k
             /\ \A n \in 1..m - 1 : new[to][n] = code[to][n]
             /\ \A j \in 1..k : new[to][m - 1 + j] = code[queue[j][1]][queue[j][2]]
             /\ new[to][m + k] = code[to][m]
             /\ \A b \in Block \ {to} :
                  /\ Len(new[b]) = Len(Staying(queue, b))
                  /\ \A n \in 1..Len(new[b]) : new[b][n] = code[b][Staying(queue, b)[n]]
<1>. DEFINE new    == Moved(queue, to)
            m      == Len(code[to])
            k      == Len(queue)
            queued == [j \in DOMAIN queue |-> code[queue[j][1]][queue[j][2]]]
<1>1. /\ queue \in Seq(Places(code, body)) /\ k \in Nat /\ DOMAIN queue = 1..k
      /\ \A j \in 1..k : queue[j] \in Places(code, body)
  BY DEF Queues
<1>2. ASSUME NEW j \in 1..k
      PROVE  queued[j] = code[queue[j][1]][queue[j][2]] /\ queued[j] \in Instr
  <2>1. PICK b \in body : \E n \in DOMAIN code[b] : queue[j] = <<b, n>>
    BY <1>1, PlacesFacts
  <2>2. PICK n \in DOMAIN code[b] : queue[j] = <<b, n>>
    BY <2>1
  <2>3. code[b] \in Seq(Instr) /\ code[b][n] \in Instr
    OBVIOUS
  <2>4. queued[j] = code[queue[j][1]][queue[j][2]]
    BY <1>1
  <2>. QED
    BY <2>2, <2>3, <2>4
<1>3. queued \in Seq(Instr) /\ Len(queued) = k
  <2>1. queued = [j \in 1..k |-> queued[j]]
    BY <1>1
  <2>. HIDE DEF queued
  <2>2. queued \in [1..k -> Instr]
    BY <1>2, <2>1
  <2>. QED
    BY <1>1, <2>2
<1>4. PICK s \in Seq(Instr) : s = code[to]
  OBVIOUS
<1>5. m \in Nat \ {0} /\ m = Len(s)
  <2>1. s # << >>
    BY <1>4
  <2>2. Len(s) # 0
    BY <2>1
  <2>. QED
    BY <1>4, <2>2
<1>6. /\ Front(s) \in Seq(Instr) /\ Len(Front(s)) = m - 1 /\ Last(s) = s[m] /\ s[m] \in Instr
      /\ \A n \in 1..m - 1 : Front(s)[n] = s[n]
  BY <1>5 DEF Front, Last
<1>7. new[to] = Front(s) \o queued \o <<Last(s)>>
  BY <1>4 DEF Moved
<1>. HIDE DEF queued, m, k
<1>8. PICK f \in Seq(Instr), q \in Seq(Instr) : f = Front(s) /\ q = queued
  BY <1>3, <1>6
<1>15. PICK u : u = f \o q
  OBVIOUS
<1>16. /\ u \in Seq(Instr) /\ Len(u) = Len(f) + Len(q)
       /\ \A n \in 1..Len(f) + Len(q) : u[n] = IF n <= Len(f) THEN f[n] ELSE q[n - Len(f)]
  BY <1>15, ConcatProperties
<1>9. /\ Len(u) = m - 1 + k /\ \A n \in 1..m - 1 : u[n] = s[n]
      /\ \A j \in 1..k : u[m - 1 + j] = queued[j]
  <2>1. Len(f) = m - 1 /\ Len(q) = k /\ m - 1 \in Nat
    BY <1>3, <1>5, <1>6, <1>8
  <2>2. ASSUME NEW n \in 1..m - 1
        PROVE  u[n] = s[n]
    <3>1. n \in 1..Len(f) + Len(q) /\ n <= Len(f)
      BY <1>1, <2>1
    <3>. QED
      BY <1>6, <1>8, <1>16, <3>1
  <2>3. ASSUME NEW j \in 1..k
        PROVE  u[m - 1 + j] = queued[j]
    <3>1. PICK n \in Nat : n = m - 1 + j
      BY <1>1, <2>1
    <3>2. n \in 1..Len(f) + Len(q) /\ ~(n <= Len(f)) /\ n - Len(f) = j
      BY <1>1, <2>1, <3>1
    <3>. QED
      BY <1>8, <1>16, <3>1, <3>2
  <2>. QED
    BY <1>16, <2>1, <2>2, <2>3
<1>10. /\ new[to] \in Seq(Instr) /\ Len(new[to]) = m + k /\ new[to][m + k] = s[m]
       /\ \A n \in 1..m - 1 + k : new[to][n] = u[n]
  <2>1. new[to] = Append(u, s[m])
    BY <1>6, <1>7, <1>8, <1>15
  <2>2. Len(u) + 1 = m + k
    BY <1>1, <1>5, <1>9
  <2>. QED
    BY <1>1, <1>5, <1>6, <1>9, <1>16, <2>1, <2>2
<1>11. /\ \A n \in 1..m - 1 : new[to][n] = s[n]
       /\ \A j \in 1..k : new[to][m - 1 + j] = queued[j]
  BY <1>1, <1>5, <1>9, <1>10
<1>12. ASSUME NEW b \in Block \ {to}
       PROVE  /\ new[b] \in Seq(Instr) /\ Len(new[b]) = Len(Staying(queue, b))
              /\ \A n \in 1..Len(new[b]) : new[b][n] = code[b][Staying(queue, b)[n]]
  <2>1. PICK r \in Seq(Stays(queue, b)) : r = Staying(queue, b)
    BY StayingFacts
  <2>2. PICK t \in Seq(Instr) : t = code[b]
    OBVIOUS
  <2>3. new[b] = [n \in DOMAIN r |-> t[r[n]]]
    BY <2>1, <2>2 DEF Moved
  <2>8. Stays(queue, b) \subseteq 1..Len(t)
    BY <2>2 DEF Stays
  <2>9. \A n \in 1..Len(r) : r[n] \in Stays(queue, b)
    OBVIOUS
  <2>4. \A n \in 1..Len(r) : r[n] \in 1..Len(t)
    BY <2>8, <2>9
  <2>5. Len(r) \in Nat /\ DOMAIN r = 1..Len(r)
    OBVIOUS
  <2>. HIDE DEF new
  <2>6. new[b] \in [1..Len(r) -> Instr]
    BY <2>3, <2>4, <2>5
  <2>10. PICK n \in Nat : n = Len(r)
    BY <2>5
  <2>11. PICK v \in [1..n -> Instr] : v = new[b]
    BY <2>6, <2>10
  <2>12. v \in Seq(Instr) /\ Len(v) = n
    OBVIOUS
  <2>7. new[b] \in Seq(Instr) /\ Len(new[b]) = Len(r)
    BY <2>10, <2>11, <2>12
  <2>. QED
    BY <2>1, <2>2, <2>3, <2>5, <2>7
<1>13. new = [b \in Block |-> new[b]]
  BY DEF Moved
<1>. HIDE DEF new
<1>14. new \in [Block -> Seq(Instr)]
  BY <1>10, <1>12, <1>13
<1>. QED
  BY <1>1, <1>2, <1>4, <1>5, <1>10, <1>11, <1>12, <1>14 DEF new, m, k

(* The instructions of one state are those of another, at other places, as  *)
(* R allows it of the blocks.                                               *)
Tracked(lists, old, R) ==
  \E f \in Bijection(Places(lists, Block), Places(old, Block)) :
    \A p \in Places(lists, Block) :
      lists[p[1]][p[2]] = old[f[p][1]][f[p][2]] /\ <<p[1], f[p][1]>> \in R

\* The moves of one loop keep track of the instructions.
LEMMA MovedTracks ==
  ASSUME code \in [Block -> Seq(Instr)], NEW body \in SUBSET Block, NEW to \in Block \ body,
         code[to] # << >>, NEW queue \in Queues(body),
         NEW R, \A b \in Block : <<b, b>> \in R, \A b \in body : <<to, b>> \in R
  PROVE  Tracked(Moved(queue, to), code, R)
<1>1. PICK new : new = Moved(queue, to)
  OBVIOUS
<1>2. PICK m \in Nat, k \in Nat : m = Len(code[to]) /\ k = Len(queue) /\ m # 0
  BY MovedShape
<1>3. /\ new \in [Block -> Seq(Instr)] /\ Len(new[to]) = m + k
      /\ \A n \in 1..m - 1 : new[to][n] = code[to][n]
      /\ \A j \in 1..k : new[to][m - 1 + j] = code[queue[j][1]][queue[j][2]]
      /\ new[to][m + k] = code[to][m]
      /\ \A b \in Block \ {to} :
           /\ Len(new[b]) = Len(Staying(queue, b))
           /\ \A n \in 1..Len(new[b]) : new[b][n] = code[b][Staying(queue, b)[n]]
  BY SMTT(30), <1>1, <1>2, MovedShape
<1>4. /\ queue \in Seq(Places(code, body))
      /\ \A i, j \in 1..k : queue[i] = queue[j] => i = j
  BY <1>2 DEF Queues
<1>5. \A j \in 1..k : \E b \in body : \E n \in 1..Len(code[b]) : queue[j] = <<b, n>>
  <2>1. ASSUME NEW j \in 1..k
        PROVE  \E b \in body : \E n \in 1..Len(code[b]) : queue[j] = <<b, n>>
    <3>1. queue[j] \in Places(code, body)
      BY <1>2, <1>4
    <3>2. PICK b \in body : \E n \in DOMAIN code[b] : queue[j] = <<b, n>>
      BY <3>1, PlacesFacts
    <3>3. DOMAIN code[b] = 1..Len(code[b])
      OBVIOUS
    <3>. QED
      BY <3>2, <3>3
  <2>. QED
    BY <2>1
<1>6. PICK st : st = [b \in Block |-> Staying(queue, b)]
  OBVIOUS
<1>7. ASSUME NEW b \in Block \ {to}
      PROVE  /\ Len(new[b]) = Len(st[b]) /\ Len(st[b]) \in Nat
             /\ \A n \in 1..Len(st[b]) :
                  /\ st[b][n] \in 1..Len(code[b]) /\ <<b, st[b][n]>> \notin Range(queue)
                                         /\ new[b][n] = code[b][st[b][n]]
             /\ \A i, j \in 1..Len(st[b]) : st[b][i] = st[b][j] => i = j
             /\ \A d \in 1..Len(code[b]) :
                  <<b, d>> \notin Range(queue) => \E n \in 1..Len(st[b]) : st[b][n] = d
  <2>1. PICK r \in Seq(Stays(queue, b)) : r = st[b]
    BY <1>6, StayingFacts
  <2>2. /\ \A i, j \in 1..Len(r) : i < j => r[i] < r[j]
        /\ \A d \in Stays(queue, b) : \E n \in 1..Len(r) : r[n] = d
        /\ Len(new[b]) = Len(r)
        /\ \A n \in 1..Len(r) : new[b][n] = code[b][r[n]]
    BY SMTT(30), <1>3, <1>6, <2>1, StayingFacts
  <2>3. /\ Len(r) \in Nat
        /\ \A n \in 1..Len(r) : r[n] \in Stays(queue, b)
    OBVIOUS
  <2>4. \A d : d \in Stays(queue, b) <=> d \in 1..Len(code[b]) /\ <<b, d>> \notin Range(queue)
    BY DEF Stays
  <2>5. \A n \in 1..Len(r) :
          r[n] \in 1..Len(code[b]) /\ <<b, r[n]>> \notin Range(queue) /\ r[n] \in Nat
    BY <2>3, <2>4
  <2>6. ASSUME NEW i \in 1..Len(r), NEW j \in 1..Len(r), r[i] = r[j]
        PROVE  i = j
    <3>1. i < j \/ j < i \/ i = j
      BY <2>3
    <3>2. PICK v \in Nat : v = r[i] /\ v = r[j]
      BY <2>5, <2>6
    <3>5. ASSUME i < j PROVE v < v
      <4>1. r[i] < r[j]
        BY <2>2, <3>5
      <4>. QED
        BY <3>2, <4>1
    <3>6. ASSUME j < i PROVE v < v
      <4>1. r[j] < r[i]
        BY <2>2, <3>6
      <4>. QED
        BY <3>2, <4>1
    <3>3. (i < j => v < v) /\ (j < i => v < v)
      BY <3>5, <3>6
    <3>4. ~(v < v)
      OBVIOUS
    <3>. QED
      BY <3>1, <3>3, <3>4
  <2>. QED
    BY <2>1, <2>2, <2>3, <2>4, <2>5, <2>6
<1>. DEFINE P == Places(new, Block)
            Q == Places(code, Block)
            g == [p \in P |-> IF p[1] # to THEN <<p[1], st[p[1]][p[2]]>>
                              ELSE IF p[2] < m THEN p
                              ELSE IF p[2] = m + k THEN <<to, m>> ELSE queue[p[2] - m + 1]]
<1>8. \A b \in Block : /\ DOMAIN new[b] = 1..Len(new[b]) /\ Len(new[b]) \in Nat
                       /\ DOMAIN code[b] = 1..Len(code[b]) /\ Len(code[b]) \in Nat
  BY <1>3
<1>9. /\ \A p : p \in P <=> \E b \in Block : \E n \in 1..Len(new[b]) : p = <<b, n>>
      /\ \A p : p \in Q <=> \E b \in Block : \E n \in 1..Len(code[b]) : p = <<b, n>>
  BY SMTT(30), <1>8, PlacesFacts
<1>10. PICK f : f = g
  OBVIOUS
<1>11. /\ DOMAIN f = P
       /\ \A p \in P : f[p] = IF p[1] # to THEN <<p[1], st[p[1]][p[2]]>>
                              ELSE IF p[2] < m THEN p
                              ELSE IF p[2] = m + k THEN <<to, m>> ELSE queue[p[2] - m + 1]
       /\ f = [p \in P |-> f[p]]
  BY <1>10
<1>. HIDE DEF g, P, Q
<1>12. ASSUME NEW n \in 1..m - 1
       PROVE  /\ <<to, n>> \in P /\ f[<<to, n>>] = <<to, n>> /\ <<to, n>> \in Q
              /\ new[to][n] = code[to][n]
  <2>1. n \in 1..m + k /\ n < m /\ n \in 1..m
    BY <1>2
  <2>2. <<to, n>> \in P /\ <<to, n>> \in Q
    BY <1>2, <1>3, <1>9, <2>1
  <2>. QED
    BY <1>3, <1>11, <2>1, <2>2
<1>13. /\ <<to, m + k>> \in P /\ f[<<to, m + k>>] = <<to, m>> /\ <<to, m>> \in Q
       /\ new[to][m + k] = code[to][m]
  <2>1. m + k \in 1..m + k /\ ~(m + k < m) /\ m \in 1..m
    BY <1>2
  <2>2. <<to, m + k>> \in P /\ <<to, m>> \in Q
    BY <1>2, <1>3, <1>9, <2>1
  <2>. QED
    BY <1>3, <1>11, <2>1, <2>2
<1>14. ASSUME NEW j \in 1..k
       PROVE  /\ <<to, m - 1 + j>> \in P /\ f[<<to, m - 1 + j>>] = queue[j] /\ queue[j] \in Q
              /\ new[to][m - 1 + j] = code[queue[j][1]][queue[j][2]]
              /\ queue[j][1] \in body /\ queue[j][1] # to /\ queue[j] \in Range(queue)
  <2>9. m - 1 + j \in 1..m + k
    BY <1>2
  <2>1. PICK n \in 1..m + k : n = m - 1 + j
    BY <2>9
  <2>2. ~(n < m) /\ n # m + k /\ n - m + 1 = j
    BY <1>2, <2>1
  <2>8. PICK b \in body : \E d \in 1..Len(code[b]) : queue[j] = <<b, d>>
    BY <1>5
  <2>3. PICK d \in 1..Len(code[b]) : queue[j] = <<b, d>>
    BY <2>8
  <2>4. b # to /\ b \in Block
    OBVIOUS
  <2>5. <<to, n>> \in P /\ queue[j] \in Q
    BY <1>3, <1>9, <2>3, <2>4
  <2>6. f[<<to, n>>] = queue[n - m + 1]
    BY <1>11, <2>2, <2>5
  <2>7. queue[j] \in Range(queue)
    BY <1>2, <1>4 DEF Range
  <2>. QED
    BY <1>3, <2>1, <2>2, <2>3, <2>4, <2>5, <2>6, <2>7
<1>15. ASSUME NEW b \in Block \ {to}, NEW n \in 1..Len(st[b])
       PROVE  /\ <<b, n>> \in P /\ f[<<b, n>>] = <<b, st[b][n]>> /\ <<b, st[b][n]>> \in Q
              /\ new[b][n] = code[b][st[b][n]] /\ <<b, st[b][n]>> \notin Range(queue)
  <2>1. <<b, n>> \in P /\ <<b, st[b][n]>> \in Q
    BY <1>7, <1>9
  <2>. QED
    BY <1>7, <1>11, <2>1
<1>. DEFINE Kept(p)   == \E n \in 1..m - 1 : p = <<to, n>>
            End(p)    == p = <<to, m + k>>
            Queued(p) == \E j \in 1..k : p = <<to, m - 1 + j>>
            Stayed(p) == \E b \in Block \ {to} : \E n \in 1..Len(st[b]) : p = <<b, n>>
<1>16. ASSUME NEW p \in P
       PROVE  Kept(p) \/ End(p) \/ Queued(p) \/ Stayed(p)
  <2>4. PICK b \in Block : \E n \in 1..Len(new[b]) : p = <<b, n>>
    BY <1>9
  <2>1. PICK n \in 1..Len(new[b]) : p = <<b, n>>
    BY <2>4
  <2>2. CASE b # to
    BY <1>7, <2>1, <2>2
  <2>3. CASE b = to
    <3>1. n \in 1..m + k
      BY <1>3, <2>3
    <3>2. n \in 1..m - 1 \/ n = m + k \/ (n \in Nat /\ m <= n /\ n < m + k)
      BY <1>2, <3>1
    <3>3. ASSUME m <= n, n < m + k
          PROVE  \E j \in 1..k : n = m - 1 + j
      <4>1. n - m + 1 \in 1..k /\ n = m - 1 + (n - m + 1)
        BY <1>2, <3>1, <3>3
      <4>. QED
        BY <4>1
    <3>. QED
      BY <2>1, <2>3, <3>2, <3>3
  <2>. QED
    BY <2>2, <2>3
<1>22. ASSUME NEW p \in P, Kept(p)
       PROVE  /\ f[p] = p /\ f[p][1] = to /\ f[p][2] < m /\ p[1] = to
              /\ f[p] \in Q /\ new[p[1]][p[2]] = code[f[p][1]][f[p][2]]
  <2>1. PICK n \in 1..m - 1 : p = <<to, n>>
    BY <1>22
  <2>2. n < m
    BY <1>2
  <2>3. p[1] = to /\ p[2] = n /\ f[p] = p
    BY <1>12, <2>1
  <2>. QED
    BY <1>12, <2>1, <2>2, <2>3
<1>23. ASSUME NEW p \in P, End(p)
       PROVE  /\ f[p][1] = to /\ f[p][2] = m /\ p[1] = to
              /\ f[p] \in Q /\ new[p[1]][p[2]] = code[f[p][1]][f[p][2]]
  <2>1. p[1] = to /\ p[2] = m + k /\ f[p] = <<to, m>>
    BY <1>13, <1>23
  <2>2. f[p][1] = to /\ f[p][2] = m
    BY <2>1
  <2>. QED
    BY <1>13, <2>1, <2>2
<1>24. ASSUME NEW p \in P, Queued(p)
       PROVE  /\ f[p] \in Range(queue) /\ f[p][1] # to /\ p[1] = to /\ f[p][1] \in body
              /\ f[p] \in Q /\ new[p[1]][p[2]] = code[f[p][1]][f[p][2]]
  <2>1. PICK j \in 1..k : p = <<to, m - 1 + j>>
    BY <1>24
  <2>2. p[1] = to /\ p[2] = m - 1 + j /\ f[p] = queue[j]
    BY <1>14, <2>1
  <2>. QED
    BY ZenonT(40), <1>14, <2>2
<1>25. ASSUME NEW p \in P, Stayed(p)
       PROVE  /\ f[p] \notin Range(queue) /\ f[p][1] # to /\ p[1] = f[p][1] /\ p[1] \in Block
              /\ f[p] \in Q /\ new[p[1]][p[2]] = code[f[p][1]][f[p][2]]
  <2>1. PICK b \in Block \ {to} : \E n \in 1..Len(st[b]) : p = <<b, n>>
    BY <1>25
  <2>2. PICK n \in 1..Len(st[b]) : p = <<b, n>>
    BY <2>1
  <2>3. p[1] = b /\ p[2] = n /\ f[p] = <<b, st[b][n]>>
    BY <1>15, <2>2
  <2>4. f[p][1] = b /\ f[p][2] = st[b][n]
    BY <2>3
  <2>5. f[p] \in Q /\ f[p] \notin Range(queue) /\ new[b][n] = code[b][st[b][n]]
    BY ZenonT(40), <1>15, <2>3
  <2>. QED
    BY <2>3, <2>4, <2>5
<1>. HIDE DEF Kept, End, Queued, Stayed
<1>17. ASSUME NEW p \in P
       PROVE  /\ f[p] \in Q /\ new[p[1]][p[2]] = code[f[p][1]][f[p][2]] /\ <<p[1], f[p][1]>> \in R
  BY <1>16, <1>22, <1>23, <1>24, <1>25
<1>18. f \in [P -> Q]
  BY <1>11, <1>17
<1>19. ASSUME NEW p \in P, NEW q \in P, f[p] = f[q]
       PROVE  p = q
  <2>1. /\ Kept(p) => f[p] = p /\ f[p][1] = to /\ f[p][2] < m
        /\ End(p) => f[p][1] = to /\ f[p][2] = m
        /\ Queued(p) => f[p] \in Range(queue) /\ f[p][1] # to
        /\ Stayed(p) => f[p] \notin Range(queue) /\ f[p][1] # to
    BY <1>22, <1>23, <1>24, <1>25
  <2>2. /\ Kept(q) => f[q] = q /\ f[q][1] = to /\ f[q][2] < m
        /\ End(q) => f[q][1] = to /\ f[q][2] = m
        /\ Queued(q) => f[q] \in Range(queue) /\ f[q][1] # to
        /\ Stayed(q) => f[q] \notin Range(queue) /\ f[q][1] # to
    BY <1>22, <1>23, <1>24, <1>25
  <2>3. CASE Queued(p) /\ Queued(q)
    <3>1. PICK i \in 1..k : p = <<to, m - 1 + i>>
      BY <2>3 DEF Queued
    <3>2. PICK j \in 1..k : q = <<to, m - 1 + j>>
      BY <2>3 DEF Queued
    <3>. QED
      BY <1>4, <1>14, <1>19, <3>1, <3>2
  <2>4. CASE Stayed(p) /\ Stayed(q)
    <3>1. PICK b \in Block \ {to} : \E n \in 1..Len(st[b]) : p = <<b, n>>
      BY <2>4 DEF Stayed
    <3>2. PICK i \in 1..Len(st[b]) : p = <<b, i>>
      BY <3>1
    <3>3. PICK c \in Block \ {to} : \E n \in 1..Len(st[c]) : q = <<c, n>>
      BY <2>4 DEF Stayed
    <3>4. PICK j \in 1..Len(st[c]) : q = <<c, j>>
      BY <3>3
    <3>5. f[p] = <<b, st[b][i]>> /\ f[q] = <<c, st[c][j]>>
      BY <1>15, <3>2, <3>4
    <3>7. PICK x, y : x = st[b][i] /\ y = st[c][j]
      OBVIOUS
    <3>8. <<b, x>> = <<c, y>>
      BY <1>19, <3>5, <3>7
    <3>6. b = c /\ st[b][i] = st[c][j]
      BY <3>7, <3>8
    <3>. QED
      BY <1>7, <3>2, <3>4, <3>6
  <2>5. CASE (Kept(p) /\ Kept(q)) \/ (End(p) /\ End(q))
    BY <1>19, <2>1, <2>2, <2>5 DEF End
  <2>6. m \in Nat /\ ~(m < m)
    BY <1>2
  <2>. QED
    BY <1>16, <1>19, <2>1, <2>2, <2>3, <2>4, <2>5, <2>6
<1>20. ASSUME NEW q \in Q
       PROVE  \E p \in P : f[p] = q
  <2>6. PICK b \in Block : \E n \in 1..Len(code[b]) : q = <<b, n>>
    BY <1>9
  <2>1. PICK n \in 1..Len(code[b]) : q = <<b, n>>
    BY <2>6
  <2>2. CASE b = to /\ n < m
    <3>1. n \in 1..m - 1
      BY <1>2, <2>1, <2>2
    <3>. QED
      BY <1>12, <2>1, <2>2, <3>1
  <2>3. CASE b = to /\ ~(n < m)
    <3>1. n = m
      BY <1>2, <2>1, <2>3
    <3>. QED
      BY <1>13, <2>1, <2>3, <3>1
  <2>4. CASE b # to /\ q \in Range(queue)
    <3>1. PICK j \in 1..k : q = queue[j]
      BY <1>2, <1>4, <2>4 DEF Range
    <3>. QED
      BY <1>14, <3>1
  <2>5. CASE b # to /\ q \notin Range(queue)
    <3>1. PICK i \in 1..Len(st[b]) : st[b][i] = n
      BY <1>7, <2>1, <2>5
    <3>. QED
      BY <1>15, <2>1, <2>5, <3>1
  <2>. QED
    BY <2>2, <2>3, <2>4, <2>5
<1>21. f \in Bijection(P, Q)
  BY <1>18, <1>19, <1>20 DEF Bijection, Injection, Surjection, IsInjective
<1>. QED
  BY <1>1, <1>17, <1>21 DEF Tracked, P, Q

LEMMA TrackedFacts ==
  ASSUME NEW R, \A b \in Block : <<b, b>> \in R,
         \A a, b, c \in Block : <<a, b>> \in R /\ <<b, c>> \in R => <<a, c>> \in R
  PROVE  /\ \A lists : Tracked(lists, lists, R)
         /\ \A r, s, t : Tracked(r, s, R) /\ Tracked(s, t, R) => Tracked(r, t, R)
<1>1. \A lists : \A p \in Places(lists, Block) : p[1] \in Block
  BY PlacesFacts
<1>2. ASSUME NEW lists
      PROVE  Tracked(lists, lists, R)
  <2>. DEFINE P == Places(lists, Block)
              f == [p \in P |-> p]
  <2>1. f \in Bijection(P, P)
    BY DEF Bijection, Injection, Surjection, IsInjective
  <2>2. \A p \in P : f[p] = p
    OBVIOUS
  <2>. HIDE DEF f
  <2>. QED
    BY <1>1, <2>1, <2>2 DEF Tracked
<1>3. ASSUME NEW r, NEW s, NEW t, Tracked(r, s, R), Tracked(s, t, R)
      PROVE  Tracked(r, t, R)
  <2>. DEFINE P == Places(r, Block)
              Q == Places(s, Block)
              O == Places(t, Block)
  <2>1. PICK f \in Bijection(P, Q) :
          \A p \in P : r[p[1]][p[2]] = s[f[p][1]][f[p][2]] /\ <<p[1], f[p][1]>> \in R
    BY <1>3 DEF Tracked
  <2>2. PICK g \in Bijection(Q, O) :
          \A p \in Q : s[p[1]][p[2]] = t[g[p][1]][g[p][2]] /\ <<p[1], g[p][1]>> \in R
    BY <1>3 DEF Tracked
  <2>3. PICK h : h = [p \in P |-> g[f[p]]]
    OBVIOUS
  <2>4. /\ f \in [P -> Q] /\ g \in [Q -> O]
        /\ \A p \in P : p[1] \in Block
        /\ \A p \in Q : p[1] \in Block
        /\ \A p \in O : p[1] \in Block
    BY <1>1, Fun_BijectionProperties
  <2>5. h \in Bijection(P, O) /\ \A p \in P : h[p] = g[f[p]]
    BY <2>3, Fun_BijTransitive
  <2>. HIDE DEF P, Q, O
  <2>6. ASSUME NEW p \in P
        PROVE  r[p[1]][p[2]] = t[h[p][1]][h[p][2]] /\ <<p[1], h[p][1]>> \in R
    <3>1. PICK q \in Q : q = f[p]
      BY <2>4
    <3>2. PICK o \in O : o = g[q] /\ h[p] = o
      BY <2>4, <2>5, <3>1
    <3>3. r[p[1]][p[2]] = s[q[1]][q[2]] /\ <<p[1], q[1]>> \in R
      BY <2>1, <3>1
    <3>4. s[q[1]][q[2]] = t[o[1]][o[2]] /\ <<q[1], o[1]>> \in R
      BY <2>2, <3>2
    <3>5. <<p[1], o[1]>> \in R
      BY <2>4, <3>3, <3>4
    <3>. QED
      BY <3>2, <3>3, <3>4, <3>5
  <2>. QED
    BY <2>5, <2>6 DEF Tracked, P, O
<1>. QED
  BY <1>2, <1>3

\* The same instructions, each as often.
LEMMA TrackedCounts ==
  ASSUME NEW lists \in [Block -> Seq(Instr)], NEW old \in [Block -> Seq(Instr)],
         NEW R, Tracked(lists, old, R), NEW i
  PROVE  CountIn(lists, i) = CountIn(old, i)
<1>. DEFINE P == Places(lists, Block)
            Q == Places(old, Block)
            S == {p \in P : lists[p[1]][p[2]] = i}
            T == {q \in Q : old[q[1]][q[2]] = i}
<1>1. PICK f \in Bijection(P, Q) : \A p \in P : lists[p[1]][p[2]] = old[f[p][1]][f[p][2]]
  BY DEF Tracked
<1>2. /\ f \in [P -> Q] /\ \A p, q \in P : f[p] = f[q] => p = q
      /\ \A q \in Q : \E p \in P : f[p] = q
  BY Fun_BijectionProperties
<1>3. IsFiniteSet(S)
  <2>1. IsFiniteSet(P) /\ S \subseteq P
    BY PlacesAreFinite
  <2>. QED
    BY <2>1, FS_Subset
<1>4. PICK g : g = [p \in S |-> f[p]]
  OBVIOUS
<1>5. g \in Bijection(S, T)
  <2>4. ASSUME NEW p \in S
        PROVE  g[p] = f[p] /\ g[p] \in T
    <3>1. f[p] \in Q /\ old[f[p][1]][f[p][2]] = i
      BY <1>1, <1>2
    <3>. QED
      BY <1>4, <3>1
  <2>1. g \in [S -> T]
    BY <1>4, <2>4
  <2>2. \A p, q \in S : g[p] = g[q] => p = q
    BY <1>2, <2>4
  <2>3. ASSUME NEW q \in T
        PROVE  \E p \in S : g[p] = q
    <3>1. PICK p \in P : f[p] = q
      BY <1>2
    <3>2. p \in S
      BY <1>1, <3>1
    <3>. QED
      BY <2>4, <3>1, <3>2
  <2>. HIDE DEF S, T
  <2>. QED
    BY <2>1, <2>2, <2>3 DEF Bijection, Injection, Surjection, IsInjective
<1>6. Cardinality(S) = Cardinality(T)
  <2>. HIDE DEF S, T
  <2>. QED
    BY <1>3, <1>5, FS_Bijection DEF ExistsBijection
<1>. QED
  BY <1>6 DEF CountIn

\* Every block ends with its terminator, and has one.
BlocksEnd(lists) ==
  \A b \in bbs : /\ lists[b] # << >>
                 /\ \A n \in 1..Len(lists[b]) : IsTerminator(lists[b][n]) <=> n = Len(lists[b])

\* No move takes a terminator, or puts anything after one.
LEMMA MovedEnds ==
  ASSUME code \in [Block -> Seq(Instr)], NEW body \in SUBSET Block, NEW to \in Block \ body,
         to \in bbs, bbs \subseteq Block, NEW queue \in Queues(body), BlocksEnd(code)
  PROVE  BlocksEnd(Moved(queue, to))
<1>1. code[to] # << >>
  BY DEF BlocksEnd
<1>2. PICK new : new = Moved(queue, to)
  OBVIOUS
<1>3. PICK m \in Nat, k \in Nat : m = Len(code[to]) /\ k = Len(queue) /\ m # 0
  BY <1>1, MovedShape
<1>4. /\ new \in [Block -> Seq(Instr)] /\ Len(new[to]) = m + k
      /\ \A n \in 1..m - 1 : new[to][n] = code[to][n]
      /\ \A j \in 1..k : new[to][m - 1 + j] = code[queue[j][1]][queue[j][2]]
      /\ new[to][m + k] = code[to][m]
      /\ \A b \in Block \ {to} :
           /\ Len(new[b]) = Len(Staying(queue, b))
           /\ \A n \in 1..Len(new[b]) : new[b][n] = code[b][Staying(queue, b)[n]]
  <2>. HIDE DEF BlocksEnd
  <2>1. /\ code \in [Block -> Seq(Instr)] /\ body \in SUBSET Block
        /\ code[to] # << >> /\ to \in Block \ body /\ queue \in Queues(body)
    BY <1>1
  <2>2. PICK ln, lq : ln = Len(code[to]) /\ lq = Len(queue)
    OBVIOUS
  <2>3. /\ new \in [Block -> Seq(Instr)] /\ Len(new[to]) = ln + lq
        /\ \A n \in 1..ln - 1 : new[to][n] = code[to][n]
        /\ \A j \in 1..lq : new[to][ln - 1 + j] = code[queue[j][1]][queue[j][2]]
        /\ new[to][ln + lq] = code[to][ln]
        /\ \A b \in Block \ {to} :
             /\ Len(new[b]) = Len(Staying(queue, b))
             /\ \A n \in 1..Len(new[b]) : new[b][n] = code[b][Staying(queue, b)[n]]
    BY ONLY SMTT(30), <1>2, <2>1, <2>2, MovedShape
  <2>. QED
    BY <1>3, <2>2, <2>3
<1>5. \A j \in 1..k : ~IsTerminator(code[queue[j][1]][queue[j][2]])
  BY <1>3 DEF Queues, MayMove, IsTerminator
<1>7. \A b \in bbs : \A n \in 1..Len(code[b]) : IsTerminator(code[b][n]) <=> n = Len(code[b])
  BY DEF BlocksEnd
<1>8. ASSUME NEW b \in bbs
      PROVE  new[b] # << >> <=> Len(new[b]) # 0
  BY <1>4
<1>9. /\ new[to] # << >>
      /\ \A n \in 1..Len(new[to]) : IsTerminator(new[to][n]) <=> n = Len(new[to])
  <2>1. m + k # 0
    BY <1>3
  <2>2. ASSUME NEW n \in 1..m + k
        PROVE  IsTerminator(new[to][n]) <=> n = m + k
    <3>1. CASE n < m
      <4>1. n \in 1..m - 1 /\ n \in 1..m /\ n # m /\ n # m + k
        BY <1>3, <3>1
      <4>. QED
        BY <1>3, <1>4, <1>7, <4>1
    <3>2. CASE n = m + k
      <4>1. m \in 1..m
        BY <1>3
      <4>. QED
        BY <1>3, <1>4, <1>7, <3>2, <4>1
    <3>3. CASE ~(n < m) /\ n # m + k
      <4>1. PICK j \in 1..k : j = n - m + 1
        <5>1. n - m + 1 \in 1..k
          BY <1>3, <3>3
        <5>. QED
          BY <5>1
      <4>2. n = m - 1 + j
        BY <1>3, <4>1
      <4>. QED
        BY <1>4, <1>5, <3>3, <4>2
    <3>. QED
      BY <3>1, <3>2, <3>3
  <2>. QED
    BY <1>4, <1>8, <2>1, <2>2
<1>10. ASSUME NEW b \in bbs, b # to
       PROVE  /\ new[b] # << >>
              /\ \A n \in 1..Len(new[b]) : IsTerminator(new[b][n]) <=> n = Len(new[b])
  <2>1. PICK r \in Seq(Stays(queue, b)) : r = Staying(queue, b)
    BY StayingFacts
  <2>2. /\ \A i, j \in 1..Len(r) : i < j => r[i] < r[j]
        /\ \A d \in Stays(queue, b) : \E n \in 1..Len(r) : r[n] = d
        /\ Len(new[b]) = Len(r)
        /\ \A n \in 1..Len(r) : new[b][n] = code[b][r[n]]
    <3>1. b \in Block \ {to} /\ b \in Block /\ code \in [Block -> Seq(Instr)]
      BY <1>10
    <3>2. /\ \A i, j \in 1..Len(r) : i < j => r[i] < r[j]
          /\ \A d \in Stays(queue, b) : \E n \in 1..Len(r) : r[n] = d
      <4>1. /\ \A i, j \in 1..Len(Staying(queue, b)) :
                   i < j => Staying(queue, b)[i] < Staying(queue, b)[j]
            /\ \A d \in Stays(queue, b) :
                 \E n \in 1..Len(Staying(queue, b)) : Staying(queue, b)[n] = d
        BY ONLY <3>1, StayingFacts
      <4>. QED
        BY ONLY <2>1, <4>1
    <3>3. Len(new[b]) = Len(r) /\ \A n \in 1..Len(r) : new[b][n] = code[b][r[n]]
      BY <1>4, <2>1, <3>1
    <3>. QED
      BY <3>2, <3>3
  <2>3. PICK len \in Nat : len = Len(code[b]) /\ len # 0
    <3>1. Len(code[b]) \in Nat /\ code[b] # << >> /\ code[b] \in Seq(Instr)
      BY DEF BlocksEnd
    <3>2. Len(code[b]) # 0
      BY <3>1
    <3>. QED
      BY <3>1, <3>2
  <2>4. PICK size \in Nat : size = Len(r)
    OBVIOUS
  <2>5. \A n \in 1..size : r[n] \in 1..len
    <3>1. \A n \in 1..size : r[n] \in Stays(queue, b)
      BY <2>4
    <3>. QED
      BY <2>3, <3>1 DEF Stays
  <2>6. len \in Stays(queue, b)
    <3>1. len \in 1..len
      BY <2>3
    <3>2. IsTerminator(code[b][len])
      BY <1>7, <2>3, <3>1
    <3>3. ASSUME NEW j \in 1..k, queue[j] = <<b, len>>
          PROVE  FALSE
      BY <1>5, <3>2, <3>3
    <3>4. DOMAIN queue = 1..k
      BY <1>3 DEF Queues
    <3>. QED
      BY <2>3, <3>1, <3>3, <3>4 DEF Stays, Range
  <2>7. PICK e \in 1..size : r[e] = len
    BY <2>2, <2>4, <2>6
  <2>8. ASSUME NEW n \in 1..size
        PROVE  r[n] = len <=> n = size
    <3>1. ASSUME NEW i \in 1..size, i # size
          PROVE  r[i] # len
      <4>1. size \in 1..size /\ i < size
        BY <3>1
      <4>2. r[i] < r[size]
        BY <2>2, <2>4, <4>1
      <4>3. PICK x \in 1..len, y \in 1..len : x = r[i] /\ y = r[size]
        BY <2>5, <4>1
      <4>4. x < y
        BY <4>2, <4>3
      <4>5. x # len
        BY <4>4
      <4>. QED
        BY <4>3, <4>5
    <3>2. e = size
      BY <2>7, <3>1
    <3>. QED
      BY <2>7, <3>1, <3>2
  <2>9. \A n \in 1..size : IsTerminator(new[b][n]) <=> n = size
    BY SMTT(30), <1>7, <2>2, <2>3, <2>4, <2>5, <2>8
  <2>10. size # 0
    BY <2>7
  <2>. QED
    BY <1>8, <2>2, <2>4, <2>9, <2>10
<1>. QED
  BY <1>2, <1>9, <1>10 DEF BlocksEnd

\* One loop's turn.  R holds what its blocks and the block before the base
\* have in common.
LEMMA HoistLoopMoves ==
  ASSUME GraphOK, LoopTypeOK, loopsLeft \subseteq loops, code \in [Block -> Seq(Instr)],
         BlocksEnd(code), HoistLoop,
         NEW R, \A b \in Block : <<b, b>> \in R,
         \A a, b, c \in Block : <<a, b>> \in R /\ <<b, c>> \in R => <<a, c>> \in R,
         \A l \in loopsLeft : Outside(l) # << >> => \A b \in l.body : <<Outside(l)[1], b>> \in R
  PROVE  code' \in [Block -> Seq(Instr)] /\ BlocksEnd(code)' /\ Tracked(code', code, R)
<1>1. PICK l \in loopsLeft :
            \E order \in SetToSeqs({b \in l.body : \E i \in Range(code[b]) : MayMove(i)}) :
              code' = IF Outside(l) = << >> THEN code
                      ELSE Moved(MoveSet(l.body, order), Outside(l)[1])
  BY DEF HoistLoop
<1>2. bbs' = bbs
  BY DEF HoistLoop
<1>3. PICK body : body = l.body
  OBVIOUS
<1>4. PICK S : S = {b \in body : \E i \in Range(code[b]) : MayMove(i)}
  OBVIOUS
<1>5. PICK order \in SetToSeqs(S) :
              code' = IF Outside(l) = << >> THEN code
                      ELSE Moved(MoveSet(body, order), Outside(l)[1])
  BY <1>1, <1>3, <1>4
<1>6. l.base \in Block /\ body \in SUBSET Block /\ S \subseteq body
  BY <1>3, <1>4 DEF LoopTypeOK
<1>7. CASE Outside(l) = << >>
  <2>1. code' = code /\ Tracked(code, code, R)
    BY <1>5, <1>7, TrackedFacts
  <2>. QED
    BY <1>2, <2>1 DEF BlocksEnd
<1>8. CASE Outside(l) # << >>
  <2>1. pre[l.base] \in Seq(Block)
    BY <1>6 DEF GraphOK
  <2>2. PICK s \in Seq(Block) : s = Outside(l)
    BY <2>1, OutsideFacts
  <2>3. s # << >> /\ 1 \in DOMAIN s
    BY <1>8, <2>2
  <2>4. PICK to \in Block : to = s[1]
    BY <2>3
  <2>5. to \in Preds(l.base) /\ to \notin body
    <3>1. to \in Range(Outside(l))
      BY <2>2, <2>3, <2>4 DEF Range
    <3>. QED
      BY <1>3, <2>1, <3>1, OutsideFacts
  <2>6. to \in bbs
    BY <1>6, <2>5 DEF GraphOK
  <2>7. code[to] # << >>
    BY <2>6 DEF BlocksEnd
  <2>8. order \in Seq(body)
    BY <1>6, OrderIsList
  <2>9. PICK queue \in Queues(body) : queue = MoveSet(body, order)
    BY <1>6, <2>8, MoveSetFacts
  <2>10. code' = Moved(queue, to)
    BY <1>5, <1>8, <2>2, <2>4, <2>9
  <2>11. to \in Block \ body /\ \A b \in body : <<to, b>> \in R
    BY <1>3, <1>8, <2>2, <2>4, <2>5
  <2>12. code' \in [Block -> Seq(Instr)]
    BY <1>6, <2>7, <2>10, <2>11, MovedShape
  <2>13. Tracked(code', code, R)
    BY <1>6, <2>7, <2>10, <2>11, MovedTracks
  <2>14. BlocksEnd(code')
    BY <1>6, <2>6, <2>10, <2>11, MovedEnds DEF GraphOK
  <2>. QED
    BY <1>2, <2>12, <2>13, <2>14 DEF BlocksEnd
<1>. QED
  BY <1>7, <1>8

\* Of the invariant of Mem2Reg, what the search does not touch.
LEMMA OptStays == OptInv /\ UNCHANGED <<mem2regVars, graphVars>> => OptInv'
<1>. SUFFICES ASSUME OptInv, UNCHANGED <<mem2regVars, graphVars>> PROVE OptInv'
  OBVIOUS
<1>1. bbs' = bbs /\ pre' = pre /\ succ' = succ /\ code' = code
  BY DEF graphVars
<1>2. PassInv'
  BY PassStays DEF OptInv
<1>3. \A b : Succs(b)' = Succs(b) /\ Preds(b)' = Preds(b)
  BY <1>1, EdgesStay
<1>4. LinksOK' /\ NoCodeAfterTerminator'
  BY <1>1, <1>3 DEF OptInv, LinksOK, Terminated, NoCodeAfterTerminator
<1>5. GraphOK' /\ \A lvl : Forward(lvl) => Forward(lvl)'
  BY <1>1, EdgesStay DEF OptInv
<1>6. (\E lvl : Forward(lvl))'
  BY <1>5 DEF OptInv
<1>. QED
  BY <1>2, <1>4, <1>5, <1>6 DEF OptInv

\* Before the pass every block ends with its terminator.
LEMMA OptEnds == OptInv => BlocksEnd(code)
<1>. SUFFICES ASSUME OptInv, NEW b \in bbs
              PROVE  /\ code[b] # << >>
                     /\ \A n \in 1..Len(code[b]) : IsTerminator(code[b][n]) <=> n = Len(code[b])
  BY DEF BlocksEnd
<1>1. /\ b \in Block /\ code[b] \in Seq(Instr) /\ Terminated(b)
      /\ \A i \in 1..Len(code[b]) - 1 : ~IsTerminator(code[b][i])
  BY DEF OptInv, LinksOK, NoCodeAfterTerminator
<1>2. code[b] # << >> /\ IsTerminator(code[b][Len(code[b])])
  BY <1>1 DEF Terminated, Last
<1>3. PICK len \in Nat : len = Len(code[b])
  BY <1>1
<1>4. ASSUME NEW n \in 1..len, n # len
      PROVE  n \in 1..len - 1
  BY <1>4
<1>. QED
  BY <1>1, <1>2, <1>3, <1>4

\* The block before the base of a loop is above the blocks of the loop: it
\* dominates them, and is in the loops around the loop only.
LEMMA OutsideAbove ==
  ASSUME GraphOK, LoopsFormed, LInv, NaturalInv, Live, NEW l \in loops,
         NEW to \in Preds(l.base), to \notin l.body, NEW b \in l.body, b \in Reachable
  PROVE  /\ to \in Reachable /\ Dominates(to, b)
         /\ LoopsAround(to) \subseteq LoopsAround(b) /\ LoopsAround(to) # LoopsAround(b)
<1>1. PICK h : h = l.base
  OBVIOUS
<1>2. /\ succ \in [Block -> Seq(Block)] /\ pre \in [Block -> Seq(Block)] /\ h \in Block
      /\ Reachable \subseteq Block /\ \A x \in Reachable : Succs(x) \subseteq Reachable
  BY <1>1, ReachableFacts DEF LInv, LoopTypeOK, GraphOK
<1>3. Header(h) /\ l.body = Body(h)
  BY <1>1 DEF NaturalInv, Dead
<1>4. h \in Reachable /\ Dominates(h, b)
  BY <1>3, BodyFacts, HeaderFirst
<1>5. to \in Block /\ h \in Succs(to)
  <2>1. to \in Preds(h) /\ to \in Block
    BY <1>1, <1>2 DEF Preds, Range
  <2>. QED
    BY <1>2, <2>1 DEF GraphOK
<1>6. to \in Reachable
  BY <1>4, <1>5 DEF Live
<1>7. ~Dominates(h, to)
  BY <1>3, <1>5, <1>6, BodyFacts DEF Latch
<1>8. PICK t \in Block : Latch(h, t)
  BY <1>3 DEF Header
<1>9. /\ Succs(to) = {h}
      /\ \A p \in Reachable : h \in Succs(p) /\ ~Dominates(h, p) => p = to
  BY <1>2, <1>5, <1>6, <1>7, <1>8 DEF LoopsFormed
<1>10. Dominates(to, h)
  <2>1. h # Entry
    BY <1>5 DEF GraphOK
  <2>2. Dominates(to, to)
    BY StrictlyDominates
  <2>3. \A p \in Reachable : h \in Succs(p) => Dominates(to, p) \/ Dominates(h, p)
    BY <1>9, <2>2
  <2>. QED
    BY <1>2, <2>1, <2>3, DominatesAfter
<1>11. Dominates(to, b)
  <2>1. Avoiding(to) \subseteq Avoiding(h) \cup {h}
    BY <1>2, <1>10, AvoidMore
  <2>2. h \notin Avoiding(to) \/ h = to
    BY <1>10, StrictlyDominates
  <2>3. b \notin Avoiding(h)
    BY <1>2, <1>4, AvoidFacts, StrictlyDominates
  <2>4. h # to
    BY <1>2, <1>5, <1>7, StrictlyDominates
  <2>. QED
    BY <2>1, <2>2, <2>3, <2>4, StrictlyDominates
<1>12. ASSUME NEW k \in loops, to \in k.body
       PROVE  b \in k.body
  <2>1. Header(k.base) /\ k.body = Body(k.base)
    BY <1>6, <1>12 DEF NaturalInv, Dead
  <2>2. h \in k.body
    BY <1>9, <1>12, <2>1, OnlySuccIsInside
  <2>3. l.body \subseteq k.body
    BY <1>1, <1>4, <2>2, AroundHeader
  <2>. QED
    BY <2>3
<1>13. l \in LoopsAround(b) /\ l \notin LoopsAround(to)
  BY DEF LoopsAround
<1>14. LoopsAround(to) \subseteq LoopsAround(b)
  BY <1>12 DEF LoopsAround
<1>. QED
  BY <1>6, <1>11, <1>13, <1>14

\* The pairs of a block and one above it, or itself.
Upwards ==
  {e \in Block \X Block :
     \/ e[1] = e[2]
     \/ Live /\ e[2] \in Reachable =>
          /\ e[1] \in Reachable /\ Dominates(e[1], e[2])
          /\ LoopsAround(e[1]) \subseteq LoopsAround(e[2]) /\ LoopsAround(e[1]) # LoopsAround(e[2])}

LEMMA UpwardsFacts ==
  ASSUME succ \in [Block -> Seq(Block)]
  PROVE  /\ \A a, b \in Block : <<a, b>> \in Upwards <=>
              \/ a = b
              \/ Live /\ b \in Reachable =>
                   /\ a \in Reachable /\ Dominates(a, b)
                   /\ LoopsAround(a) \subseteq LoopsAround(b) /\ LoopsAround(a) # LoopsAround(b)
         /\ \A b \in Block : <<b, b>> \in Upwards
         /\ \A a, b, c \in Block :
              <<a, b>> \in Upwards /\ <<b, c>> \in Upwards => <<a, c>> \in Upwards
<1>1. ASSUME NEW a \in Block, NEW b \in Block
      PROVE  <<a, b>> \in Upwards <=>
               \/ a = b
               \/ Live /\ b \in Reachable =>
                    /\ a \in Reachable /\ Dominates(a, b)
                    /\ LoopsAround(a) \subseteq LoopsAround(b) /\ LoopsAround(a) # LoopsAround(b)
  BY DEF Upwards
<1>2. ASSUME NEW a \in Block, NEW b \in Block, NEW c \in Block,
             Dominates(a, b), Dominates(b, c), a # b, c \in Reachable, b \in Reachable
      PROVE  Dominates(a, c)
  <2>1. Avoiding(a) \subseteq Avoiding(b) \cup {b}
    BY <1>2, AvoidMore
  <2>2. b \notin Avoiding(a)
    BY <1>2, StrictlyDominates
  <2>3. b = c \/ c \notin Avoiding(b)
    BY <1>2, StrictlyDominates
  <2>. QED
    BY <2>1, <2>2, <2>3, StrictlyDominates
<1>3. ASSUME NEW a \in Block, NEW b \in Block, NEW c \in Block,
             <<a, b>> \in Upwards, <<b, c>> \in Upwards, a # b, b # c, Live, c \in Reachable
      PROVE  /\ a \in Reachable /\ Dominates(a, c)
             /\ LoopsAround(a) \subseteq LoopsAround(c) /\ LoopsAround(a) # LoopsAround(c)
  <2>1. /\ b \in Reachable /\ Dominates(b, c)
        /\ LoopsAround(b) \subseteq LoopsAround(c) /\ LoopsAround(b) # LoopsAround(c)
    BY <1>1, <1>3
  <2>2. /\ a \in Reachable /\ Dominates(a, b)
        /\ LoopsAround(a) \subseteq LoopsAround(b) /\ LoopsAround(a) # LoopsAround(b)
    BY <1>1, <1>3, <2>1
  <2>3. Dominates(a, c)
    BY <1>2, <1>3, <2>1, <2>2
  <2>. QED
    BY <2>1, <2>2, <2>3
<1>4. \A b \in Block : <<b, b>> \in Upwards
  BY <1>1
<1>5. ASSUME NEW a \in Block, NEW b \in Block, NEW c \in Block,
             <<a, b>> \in Upwards, <<b, c>> \in Upwards
      PROVE  <<a, c>> \in Upwards
  <2>. HIDE DEF Upwards
  <2>. QED
    BY <1>1, <1>3, <1>5
<1>. QED
  BY <1>1, <1>4, <1>5
----------------------------------------------------------------------------
(***************************************************************************)
(* The numbers of the instructions: no two blocks have the same.           *)
(***************************************************************************)
IdsIn(s) == {i \in 1..MaxInstrs : \E n \in 1..Len(s) : s[n].id = i}

IdsApart(lists) == \A b \in Block : \A c \in Block \ {b} : IdsIn(lists[b]) \cap IdsIn(lists[c]) = {}

Numbered ==
  /\ IdsApart(code)
  /\ \A b \in Block : \A i \in IdsIn(code[b]) : i < nextInstr

NoNewIds == \A b \in Block : IdsIn(code'[b]) \subseteq IdsIn(code[b])

LEMMA NumbersStay == Numbered /\ NoNewIds /\ nextInstr' = nextInstr => Numbered'
<1>. SUFFICES ASSUME Numbered, NoNewIds, nextInstr' = nextInstr PROVE Numbered'
  OBVIOUS
<1>1. \A b \in Block : IdsIn(code[b])' \subseteq IdsIn(code[b])
  BY DEF NoNewIds, IdsIn
<1>2. IdsApart(code)'
  BY <1>1 DEF Numbered, IdsApart
<1>. QED
  BY <1>1, <1>2 DEF Numbered

LEMMA NumberAdded ==
  ASSUME Numbered, insert \in Block, nextInstr \in Nat, nextInstr' = nextInstr + 1,
         \A b \in Block \ {insert} : code'[b] = code[b],
         IdsIn(code'[insert]) \subseteq IdsIn(code[insert]) \cup {nextInstr}
  PROVE  Numbered'
<1>1. \A b \in Block : IdsIn(code[b])' = IdsIn(code'[b])
  BY DEF IdsIn
<1>2. \A b \in Block : \A i \in IdsIn(code'[b]) :
        i \in IdsIn(code[b]) \/ (b = insert /\ i = nextInstr)
  OBVIOUS
<1>3. \A b \in Block : \A i \in IdsIn(code[b]) : i \in Nat /\ i < nextInstr
  BY DEF Numbered, IdsIn
<1>4. ASSUME NEW b \in Block, NEW c \in Block \ {b},
             NEW i \in IdsIn(code'[b]), i \in IdsIn(code'[c])
      PROVE  FALSE
  <2>1. i \in IdsIn(code[b]) \/ (b = insert /\ i = nextInstr)
    BY <1>2
  <2>2. i \in IdsIn(code[c]) \/ (c = insert /\ i = nextInstr)
    BY <1>2, <1>4
  <2>3. ~(i \in IdsIn(code[b]) /\ i \in IdsIn(code[c]))
    BY DEF Numbered, IdsApart
  <2>. QED
    BY <1>3, <2>1, <2>2, <2>3
<1>5. IdsApart(code)'
  BY <1>1, <1>4 DEF IdsApart
<1>6. \A b \in Block : \A i \in IdsIn(code'[b]) : i < nextInstr + 1
  BY <1>2, <1>3
<1>. QED
  BY <1>1, <1>5, <1>6 DEF Numbered

LEMMA IdsOfAppend ==
  ASSUME NEW s \in Seq(Instr), NEW x
  PROVE  IdsIn(Append(s, x)) \subseteq IdsIn(s) \cup {x.id}
<1>1. PICK n \in Nat : n = Len(s)
  OBVIOUS
<1>2. Len(Append(s, x)) = n + 1 /\ \A k \in 1..n : Append(s, x)[k] = s[k]
  BY <1>1
<1>3. Append(s, x)[n + 1] = x
  BY <1>1
<1>4. \A k \in 1..n + 1 : k \in 1..n \/ k = n + 1
  BY <1>1
<1>. QED
  BY <1>1, <1>2, <1>3, <1>4 DEF IdsIn

\* A step of the builder gives its instruction the next number, or none.
LEMMA BuilderNumbers ==
  ASSUME BuilderTypeOK, Numbered, BuilderNext
  PROVE  Numbered'
<1>1. /\ code \in [Block -> Seq(Instr)] /\ insert \in Block /\ nextInstr \in Nat
      /\ MaxInstrs \in Nat
  BY BoundsAssumption DEF BuilderTypeOK
<1>2. ASSUME NEW x, Emit(x)
      PROVE  /\ \A b \in Block \ {insert} : code'[b] = code[b]
             /\ IdsIn(code'[insert]) \subseteq IdsIn(code[insert]) \cup {x.id}
  <2>1. code' = [code EXCEPT ![insert] = Append(@, x)]
    BY <1>2 DEF Emit, PushBack
  <2>2. code'[insert] = Append(code[insert], x) /\ \A b \in Block \ {insert} : code'[b] = code[b]
    BY <1>1, <2>1
  <2>. QED
    BY <1>1, <2>2, IdsOfAppend
<1>3. ASSUME NEW x, Emit(x), x.id = nextInstr, nextInstr' = nextInstr + 1
      PROVE  Numbered'
  BY <1>1, <1>2, <1>3, NumberAdded
<1>4. 0 \notin 1..MaxInstrs /\ \A s : 0 \notin IdsIn(s)
  BY <1>1 DEF IdsIn
<1>5. ASSUME NEW x, code' = code \/ code' = PushBack(code, insert, x), x.id = Opaque,
             nextInstr' = nextInstr
      PROVE  Numbered'
  <2>1. ASSUME code' = PushBack(code, insert, x)
        PROVE  NoNewIds
    <3>1. code'[insert] = Append(code[insert], x) /\ \A b \in Block \ {insert} : code'[b] = code[b]
      BY <1>1, <2>1 DEF PushBack
    <3>2. IdsIn(code'[insert]) \subseteq IdsIn(code[insert]) \cup {0}
      BY <1>1, <1>5, <3>1, IdsOfAppend DEF Opaque
    <3>. QED
      BY <1>4, <3>1, <3>2 DEF NoNewIds
  <2>2. code' = code => NoNewIds
    BY DEF NoNewIds
  <2>. QED
    BY <1>5, <2>1, <2>2, NumbersStay
<1>6. CASE VisitNum
  <2>1. code' = code /\ nextInstr' = nextInstr /\ Ret(Opaque).id = Opaque
    BY <1>6 DEF VisitNum, graphVars, Ret, Ins
  <2>. QED
    BY <1>5, <2>1
<1>7. CASE \E v \in Vars : VisitVar(v)
  <2>1. PICK v \in Vars : VisitVar(v)
    BY <1>7
  <2>2. Emit(Load(nextInstr, v)) /\ nextInstr' = nextInstr + 1 /\ Load(nextInstr, v).id = nextInstr
    BY <2>1 DEF VisitVar, Load, Ins
  <2>. QED
    BY <1>3, <2>2
<1>8. CASE \E v \in Vars, dropped \in BOOLEAN : VisitAssign(v, dropped)
  <2>1. PICK v \in Vars, dropped \in BOOLEAN : VisitAssign(v, dropped)
    BY <1>8
  <2>2. /\ Emit(Store(nextInstr, v, tmp)) /\ nextInstr' = nextInstr + 1
        /\ Store(nextInstr, v, tmp).id = nextInstr
    BY <2>1 DEF VisitAssign, Store, Ins
  <2>. QED
    BY <1>3, <2>2
<1>9. CASE \E dropped \in BOOLEAN : VisitCall(dropped)
  <2>1. PICK dropped \in BOOLEAN : VisitCall(dropped)
    BY <1>9
  <2>2. /\ Emit(Call(nextInstr, tmp)) /\ nextInstr' = nextInstr + 1
        /\ Call(nextInstr, tmp).id = nextInstr
    BY <2>1 DEF VisitCall, Call, Ins
  <2>. QED
    BY <1>3, <2>2
<1>10. CASE \E base \in {Opaque} \cup ArraysOf(insert) : VisitIndexedVar(base)
  <2>0. PICK base \in {Opaque} \cup ArraysOf(insert) : VisitIndexedVar(base)
    BY <1>10
  <2>1. PICK x, c1, c2 : /\ x = CondBr(tmp, nextBlock, nextBlock + 1)
                         /\ c1 = <<Call(Opaque, Opaque), Ret(Opaque)>>
                         /\ c2 = <<Elem(IF base = Opaque THEN tmp ELSE base)>>
    OBVIOUS
  <2>2. /\ code' = [code EXCEPT ![insert] = Append(@, x), ![nextBlock] = c1, ![nextBlock + 1] = c2]
        /\ nextInstr' = nextInstr
    BY <2>0, <2>1 DEF VisitIndexedVar
  <2>3. \A b \in Block : \/ code'[b] \in {code[b], c1, c2}
                         \/ b = insert /\ code'[b] = Append(code[b], x)
    BY <1>1, <2>2
  <2>4. IdsIn(c1) = {} /\ IdsIn(c2) = {}
    <3>1. /\ Len(c1) = 2 /\ c1[1].id = 0 /\ c1[2].id = 0
          /\ Len(c2) = 1 /\ c2[1].id = 0
      BY <2>1 DEF Call, Ret, Elem, Ins, Opaque
    <3>2. 1..2 = {1, 2} /\ 1..1 = {1}
      OBVIOUS
    <3>3. (\A n \in 1..Len(c1) : c1[n].id = 0) /\ (\A n \in 1..Len(c2) : c2[n].id = 0)
      BY <3>1, <3>2
    <3>. QED
      BY <1>4, <3>3 DEF IdsIn
  <2>5. IdsIn(Append(code[insert], x)) \subseteq IdsIn(code[insert]) \cup {0}
    <3>1. x.id = 0
      BY <2>1 DEF CondBr, Ins, Opaque
    <3>. QED
      BY <1>1, <3>1, IdsOfAppend
  <2>6. NoNewIds
    BY <1>4, <2>3, <2>4, <2>5 DEF NoNewIds
  <2>. QED
    BY <2>2, <2>6, NumbersStay
<1>11. CASE VisitReturn
  <2>1. code' = PushBack(code, insert, Ret(tmp)) /\ nextInstr' = nextInstr /\ Ret(tmp).id = Opaque
    BY <1>11 DEF VisitReturn, Emit, Ret, Ins
  <2>. QED
    BY <1>5, <2>1
<1>12. CASE (\E hasElse \in BOOLEAN : EnterSelection(hasElse)) \/ EnterBody
  <2>1. PICK t, f : code' = PushBack(code, insert, CondBr(tmp, t, f)) /\ nextInstr' = nextInstr
    BY <1>12 DEF EnterSelection, EnterBody
  <2>2. CondBr(tmp, t, f).id = Opaque
    BY DEF CondBr, Ins
  <2>. QED
    BY <1>5, <2>1, <2>2
<1>13. CASE LeaveIf \/ LeaveThen \/ LeaveElse \/ EnterIteration \/ LeaveBody
  <2>1. PICK t : code' = BrCode(t) /\ nextInstr' = nextInstr
    BY <1>13 DEF LeaveIf, LeaveThen, LeaveElse, EnterIteration, LeaveBody
  <2>2. Br(t).id = Opaque
    BY DEF Br, Ins
  <2>3. code' = code \/ code' = PushBack(code, insert, Br(t))
    BY <2>1 DEF BrCode
  <2>. QED
    BY <1>5, <2>1, <2>2, <2>3
<1>14. CASE LeaveFunction
  <2>1. /\ code' = code \/ code' = PushBack(code, insert, Ret(Opaque))
        /\ nextInstr' = nextInstr /\ Ret(Opaque).id = Opaque
    BY <1>14 DEF LeaveFunction, Ret, Ins
  <2>. QED
    BY <1>5, <2>1
<1>15. CASE VisitArrayDecl
  <2>1. /\ Emit(ArrayAlloca(nextInstr)) /\ nextInstr' = nextInstr + 1
        /\ ArrayAlloca(nextInstr).id = nextInstr
    BY <1>15 DEF VisitArrayDecl, ArrayAlloca, Ins
  <2>. QED
    BY <1>3, <2>1
<1>. QED
  BY <1>6, <1>7, <1>8, <1>9, <1>10, <1>11, <1>12, <1>13, <1>14, <1>15 DEF BuilderNext

\* Mem2Reg takes instructions away and changes operands.
LEMMA PassAddsNoIds ==
  ASSUME PassInv, GraphOK, Mem2RegNext
  PROVE  NoNewIds
<1>1. code \in [Block -> Seq(Instr)] /\ StacksTyped /\ calls \in Seq(CallRecord)
  BY DEF PassInv, PassTypes
<1>2. CASE code' = code
  BY <1>2 DEF NoNewIds
<1>3. ASSUME NEW c \in Block, NEW rest, EnterRename(c, rest)
      PROVE  NoNewIds
  <2>1. Renamed(c) \in RenameState
    BY <1>1, RenamedFacts
  <2>2. Renamed(c).with \in [Operand -> Operand]
    BY <2>1 DEF RenameState
  <2>3. code' = UsesReplaced(Renamed(c).with)
    BY <1>3 DEF EnterRename
  <2>4. \A b \in Block : Alike(code'[b], code[b])
    BY <1>1, <2>2, <2>3, UsesReplacedFacts
  <2>. QED
    BY <2>4 DEF Alike, NoNewIds, IdsIn
<1>4. CASE RenameEntry
  BY <1>3, <1>4, ReachableFacts DEF RenameEntry, GraphOK
<1>5. CASE RenameChild
  <2>1. PICK c \in Last(calls).todo : EnterRename(c, [calls EXCEPT ![Len(calls)].todo = @ \ {c}])
    BY <1>5 DEF RenameChild
  <2>2. Last(calls) \in CallRecord
    BY <1>1, <1>5 DEF RenameChild, Last
  <2>3. c \in Block
    BY <2>2 DEF CallRecord
  <2>. QED
    BY <1>3, <2>1, <2>3
<1>6. CASE LeaveRename
  <2>1. PICK call : call = Last(calls)
    OBVIOUS
  <2>2. code' = [code EXCEPT ![call.bb] = Without(@, call.dead)]
    BY <1>6, <2>1 DEF LeaveRename
  <2>3. \A b \in Block : code'[b] = code[b] \/ code'[b] = Without(code[b], call.dead)
    BY <1>1, <2>2
  <2>4. ASSUME NEW s \in Seq(Instr)
        PROVE  IdsIn(Without(s, call.dead)) \subseteq IdsIn(s)
    <3>1. PICK r \in Seq(Instr) : r = Without(s, call.dead)
      BY <2>4, WithoutFacts DEF Collected
    <3>2. \A y \in Range(r) : \E d \in 1..Len(s) : y = s[d]
      BY <3>1, WithoutFacts DEF Collected, LeftOf
    <3>3. \A n \in 1..Len(r) : r[n] \in Range(r)
      BY <3>1 DEF Range
    <3>. QED
      BY <3>1, <3>2, <3>3 DEF IdsIn
  <2>. QED
    BY <1>1, <2>3, <2>4 DEF NoNewIds
<1>7. CASE StartMem2Reg \/ GeneratePhi \/ RemoveAlloca
  BY <1>2, <1>7 DEF StartMem2Reg, GeneratePhi, RemoveAlloca, graphVars
<1>. QED
  BY <1>4, <1>5, <1>6, <1>7 DEF Mem2RegNext
----------------------------------------------------------------------------
(***************************************************************************)
(* The passes in turn, and the instructions: those of the function when    *)
(* LoopInvHoist starts are all there afterwards, each in its block or in   *)
(* one above it.                                                           *)
(***************************************************************************)
HoistInv ==
  /\ hpc = "idle" =>
       /\ Numbered
       /\ IF mpc = "idle" /\ lpc = "idle" THEN Mem2RegInit ELSE OptInv
  /\ hpc # "idle" =>
       /\ lpc = "end" /\ loopsLeft \subseteq loops
       /\ code \in [Block -> Seq(Instr)] /\ unhoisted \in [Block -> Seq(Instr)]
       /\ BlocksEnd(code) /\ Tracked(code, unhoisted, Upwards)
       /\ IdsApart(unhoisted) /\ phis \subseteq Block \X Vars

LEMMA HoistInitial == Init => HoistInv
<1>. SUFFICES ASSUME Init PROVE HoistInv
  OBVIOUS
<1>1. \A b \in Block : code[b] = << >>
  BY DEF Init, BuilderInit
<1>2. \A b \in Block : IdsIn(code[b]) = {}
  BY <1>1 DEF IdsIn
<1>3. Numbered
  BY <1>2 DEF Numbered, IdsApart
<1>. QED
  BY <1>3 DEF Init, HoistInv, HoistInit, Mem2RegInit, LoopInit

\* Steps before LoopInvHoist.
LEMMA BeforeHoist ==
  ASSUME SearchInv, HoistInv, hpc = "idle", Build \/ Mem2RegFirst \/ Search
  PROVE  HoistInv'
<1>1. IF mpc = "idle" /\ lpc = "idle" THEN RInv /\ Mem2RegInit ELSE OptInv
  BY DEF SearchInv, HoistInv
<1>2. Numbered /\ (Done => OptInv)
  BY <1>1, BuiltIsReady DEF HoistInv
<1>3. CASE Build
  <2>1. ~Done /\ UNCHANGED <<mem2regVars, loopVars, hoistVars>>
    BY <1>3, BuildIsBuilder DEF Build
  <2>2. mpc = "idle" /\ lpc = "idle"
    BY <2>1 DEF SearchInv
  <2>3. Mem2RegInit'
    <3>1. Mem2RegInit
      BY <1>1, <2>2
    <3>. QED
      BY <2>1, <3>1 DEF Mem2RegInit, mem2regVars
  <2>4. hpc' = hpc /\ mpc' = mpc /\ lpc' = lpc
    BY <2>1 DEF mem2regVars, loopVars, hoistVars
  <2>5. Numbered'
    <3>1. RInv /\ BuilderNext
      BY <1>1, <1>3, <2>2, BuildIsBuilder
    <3>. QED
      BY <1>2, <3>1, BuilderNumbers DEF RInv, EInv, IInv
  <2>. QED
    BY <2>2, <2>3, <2>4, <2>5 DEF HoistInv
<1>4. CASE Mem2RegFirst
  <2>1. Done /\ Mem2RegNext /\ UNCHANGED <<builderVars, loopVars, hoistVars>>
    BY <1>4 DEF Mem2RegFirst
  <2>2. OptInv'
    BY <1>2, <2>1, PassKeepsOptInv
  <2>3. hpc' = hpc /\ mpc' # "idle" /\ nextInstr' = nextInstr
    BY <2>1, Mem2RegKeepsGraph DEF hoistVars, builderVars
  <2>4. Numbered'
    BY <1>2, <2>1, <2>3, PassAddsNoIds, NumbersStay DEF OptInv
  <2>. QED
    BY <2>2, <2>3, <2>4 DEF HoistInv
<1>5. CASE Search
  <2>1. Done /\ LoopNext /\ UNCHANGED <<builderVars, mem2regVars, hoistVars>>
    BY <1>5 DEF Search
  <2>2. UNCHANGED graphVars /\ lpc' # "idle"
    BY <2>1 DEF LoopNext, BuildCfg, FindComponents, NextLoop, graphVars
  <2>3. OptInv'
    BY <1>2, <2>1, <2>2, OptStays
  <2>4. hpc' = hpc /\ nextInstr' = nextInstr /\ code' = code
    BY <2>1, <2>2 DEF hoistVars, builderVars, graphVars
  <2>5. Numbered'
    BY <1>2, <2>4, NumbersStay DEF NoNewIds
  <2>. QED
    BY <2>2, <2>3, <2>4, <2>5 DEF HoistInv
<1>. QED
  BY <1>3, <1>4, <1>5

\* Upwards while the graph and the loops stay.
LEMMA UpwardsStays ==
  ASSUME bbs' = bbs, pre' = pre, succ' = succ, loops' = loops
  PROVE  Upwards' = Upwards
<1>1. Reachable' = Reachable /\ (Live' <=> Live)
  BY LoopsStay
<1>2. \A a, b : Dominates(a, b)' <=> Dominates(a, b)
  BY EdgesStay
<1>3. \A b : LoopsAround(b)' = LoopsAround(b)
  BY DEF LoopsAround
<1>. QED
  BY <1>1, <1>2, <1>3 DEF Upwards

\* Steps of LoopInvHoist.
LEMMA InHoist ==
  ASSUME SearchInv, HoistInv, HoistNext
  PROVE  HoistInv'
<1>1. UNCHANGED loopVars /\ bbs' = bbs /\ pre' = pre /\ succ' = succ
  BY HoistKeepsGraph
<1>2. lpc' = lpc /\ loops' = loops
  BY <1>1 DEF loopVars
<1>6. Upwards' = Upwards
  BY <1>1, <1>2, UpwardsStays
<1>7. lpc # "idle" =>
        /\ GraphOK /\ LoopTypeOK /\ LoopsFormed /\ LInv /\ NaturalInv
        /\ \A b \in Block : <<b, b>> \in Upwards
        /\ \A a, b, c \in Block :
             <<a, b>> \in Upwards /\ <<b, c>> \in Upwards => <<a, c>> \in Upwards
  BY GraphOfSearch, UpwardsFacts DEF LInv, GraphOK
<1>3. CASE StartHoist
  <2>1. /\ hpc = "idle" /\ lpc = "end" /\ hpc' = "hoist" /\ loopsLeft' = loops
        /\ unhoisted' = code /\ code' = code /\ phis' = phis
    BY <1>3 DEF StartHoist, graphVars, mem2regVars
  <2>2. OptInv /\ Numbered
    BY <2>1 DEF HoistInv
  <2>3. code \in [Block -> Seq(Instr)] /\ BlocksEnd(code)
    BY <2>2, OptEnds DEF OptInv, LinksOK
  <2>4. Tracked(code, code, Upwards)
    BY <1>7, <2>1, TrackedFacts
  <2>5. phis \subseteq Block \X Vars /\ IdsApart(code)
    BY <2>2, PassIsTyped DEF OptInv, Mem2RegTypeOK, Numbered
  <2>6. IdsApart(unhoisted)'
    BY <2>1, <2>5 DEF IdsApart
  <2>7. Tracked(code, unhoisted, Upwards)'
    BY <1>6, <2>1, <2>4
  <2>8. BlocksEnd(code)'
    BY <1>1, <2>1, <2>3 DEF BlocksEnd
  <2>. QED
    BY <1>2, <2>1, <2>3, <2>5, <2>6, <2>7, <2>8 DEF HoistInv
<1>4. CASE HoistLoop
  <2>1. /\ hpc = "hoist" /\ hpc' = hpc /\ unhoisted' = unhoisted
        /\ loopsLeft' \subseteq loopsLeft /\ phis' = phis
    BY <1>4 DEF HoistLoop, mem2regVars
  <2>2. /\ lpc = "end" /\ loopsLeft \subseteq loops
        /\ code \in [Block -> Seq(Instr)] /\ unhoisted \in [Block -> Seq(Instr)]
        /\ BlocksEnd(code) /\ Tracked(code, unhoisted, Upwards)
        /\ IdsApart(unhoisted) /\ phis \subseteq Block \X Vars
    BY <2>1 DEF HoistInv
  <2>3. ASSUME NEW l \in loopsLeft, Outside(l) # << >>, NEW b \in l.body
        PROVE  <<Outside(l)[1], b>> \in Upwards
    <3>1. l \in loops /\ l.base \in Block /\ b \in Block /\ succ \in [Block -> Seq(Block)]
      BY <1>7, <2>2, <2>3 DEF LoopTypeOK, GraphOK
    <3>2. pre[l.base] \in Seq(Block)
      BY <1>7, <2>2, <3>1 DEF GraphOK
    <3>3. PICK s \in Seq(Block) : s = Outside(l)
      BY <3>2, OutsideFacts
    <3>4. PICK to \in Block : to = s[1] /\ to \in Range(s)
      BY <2>3, <3>3 DEF Range
    <3>5. to \in Preds(l.base) /\ to \notin l.body
      BY <3>2, <3>3, <3>4, OutsideFacts
    <3>6. Live /\ b \in Reachable =>
            /\ to \in Reachable /\ Dominates(to, b)
            /\ LoopsAround(to) \subseteq LoopsAround(b) /\ LoopsAround(to) # LoopsAround(b)
      BY <1>7, <2>2, <2>3, <3>1, <3>5, OutsideAbove
    <3>7. <<to, b>> \in Upwards
      BY <3>1, <3>6, UpwardsFacts
    <3>. QED
      BY <3>3, <3>4, <3>7
  <2>4. code' \in [Block -> Seq(Instr)] /\ BlocksEnd(code)' /\ Tracked(code', code, Upwards)
    <3>1. GraphOK /\ LoopTypeOK
      BY <1>7, <2>2
    <3>2. PICK R : R = Upwards
      OBVIOUS
    <3>3. /\ \A b \in Block : <<b, b>> \in R
          /\ \A a, b, c \in Block : <<a, b>> \in R /\ <<b, c>> \in R => <<a, c>> \in R
      BY <1>7, <2>2, <3>2
    <3>4. \A l \in loopsLeft : Outside(l) # << >> => \A b \in l.body : <<Outside(l)[1], b>> \in R
      BY <2>3, <3>2
    <3>5. code' \in [Block -> Seq(Instr)] /\ BlocksEnd(code)' /\ Tracked(code', code, R)
      BY <1>4, <2>2, <3>1, <3>3, <3>4, HoistLoopMoves
    <3>. QED
      BY <3>2, <3>5
  <2>5. Tracked(code', unhoisted, Upwards)
    BY <1>7, <2>2, <2>4, TrackedFacts
  <2>6. Tracked(code, unhoisted, Upwards)' /\ IdsApart(unhoisted)'
    BY <1>6, <2>1, <2>2, <2>5 DEF IdsApart
  <2>. QED
    BY <1>2, <2>1, <2>2, <2>4, <2>6 DEF HoistInv
<1>5. CASE HoistDone
  <2>1. /\ hpc # "idle" /\ hpc' # "idle" /\ loopsLeft' = loopsLeft
        /\ unhoisted' = unhoisted /\ code' = code /\ phis' = phis
    BY <1>5 DEF HoistDone, graphVars, mem2regVars
  <2>2. /\ Tracked(code, unhoisted, Upwards) => Tracked(code, unhoisted, Upwards)'
        /\ IdsApart(unhoisted) => IdsApart(unhoisted)'
        /\ BlocksEnd(code) => BlocksEnd(code)'
    BY <1>1, <1>6, <2>1 DEF IdsApart, BlocksEnd
  <2>. QED
    BY <1>2, <2>1, <2>2 DEF HoistInv
<1>. QED
  BY <1>3, <1>4, <1>5 DEF HoistNext

LEMMA HoistStep == SearchInv /\ HoistInv /\ [Next]_vars => HoistInv'
<1>. SUFFICES ASSUME SearchInv, HoistInv, [Next]_vars PROVE HoistInv'
  OBVIOUS
<1>1. ASSUME Build \/ Mem2RegFirst \/ Search
      PROVE  hpc = "idle"
  <2>1. ASSUME hpc # "idle"
        PROVE  lpc = "end"
    BY <2>1 DEF HoistInv
  <2>2. Build => hpc = "idle"
    BY BuildIsBuilder DEF SearchInv
  <2>3. Mem2RegFirst => lpc = "idle"
    BY DEF Mem2RegFirst
  <2>4. Search => lpc # "end"
    BY DEF Search, LoopNext, BuildCfg, FindComponents, NextLoop
  <2>. QED
    BY <1>1, <2>1, <2>2, <2>3, <2>4
<1>2. CASE Build \/ Mem2RegFirst \/ Search
  BY <1>1, <1>2, BeforeHoist
<1>3. CASE Hoist
  BY <1>3, InHoist DEF Hoist
<1>4. CASE UNCHANGED vars
  <2>1. /\ UNCHANGED <<mem2regVars, graphVars>>
        /\ hpc' = hpc /\ loopsLeft' = loopsLeft /\ unhoisted' = unhoisted
        /\ lpc' = lpc /\ loops' = loops /\ bbs' = bbs /\ code' = code
        /\ pre' = pre /\ succ' = succ /\ nextInstr' = nextInstr /\ phis' = phis
    BY <1>4 DEF vars, graphVars, builderVars, mem2regVars, loopVars, hoistVars
  <2>2. mpc' = mpc /\ (Mem2RegInit => Mem2RegInit')
    BY <2>1 DEF mem2regVars, Mem2RegInit
  <2>3. OptInv => OptInv'
    BY <2>1, OptStays
  <2>4. /\ BlocksEnd(code) => BlocksEnd(code)'
        /\ IdsApart(unhoisted) => IdsApart(unhoisted)'
    BY <2>1 DEF BlocksEnd, IdsApart
  <2>5. Numbered => Numbered'
    BY <2>1, NumbersStay DEF NoNewIds
  <2>6. Upwards' = Upwards
    BY <2>1, UpwardsStays
  <2>7. Tracked(code, unhoisted, Upwards) => Tracked(code, unhoisted, Upwards)'
    BY <2>1, <2>6
  <2>. QED
    BY <2>1, <2>2, <2>3, <2>4, <2>5, <2>7 DEF HoistInv
<1>. QED
  BY <1>2, <1>3, <1>4 DEF Next

(* What the passes before leave, and what LoopInvHoist has made of it so    *)
(* far: every instruction of the function it started with has one place.    *)
THEOREM HoistInvariant == Spec => [](SearchInv /\ HoistInv)
BY SearchInitial, SearchStep, HoistInitial, HoistStep, PTL DEF Spec

(* LoopInvHoist loses no instruction and doubles none, and leaves every     *)
(* block with its terminator as its end, whatever order the loops, their    *)
(* blocks and the sweeps come in, with or without Mem2Reg before.           *)
THEOREM NothingIsLost == Spec => []HoistKeepsInstructions
<1>1. ASSUME SearchInv, HoistInv, hpc # "idle"
      PROVE  HoistKeepsInstructions
  <2>1. /\ code \in [Block -> Seq(Instr)] /\ unhoisted \in [Block -> Seq(Instr)]
        /\ BlocksEnd(code) /\ Tracked(code, unhoisted, Upwards) /\ lpc = "end"
    BY <1>1 DEF HoistInv
  <2>2. \A i : CountIn(code, i) = CountIn(unhoisted, i)
    BY <2>1, TrackedCounts
  <2>3. bbs \subseteq Block
    BY <1>1, <2>1, GraphOfSearch DEF GraphOK
  <2>4. \A b \in bbs : DOMAIN code[b] = 1..Len(code[b])
    BY <2>1, <2>3
  <2>. QED
    BY <2>1, <2>2, <2>4 DEF HoistKeepsInstructions, BlocksEnd
<1>2. SearchInv /\ HoistInv => HoistKeepsInstructions
  BY <1>1 DEF HoistKeepsInstructions
<1>. QED
  BY HoistInvariant, <1>2, PTL

(* What LoopInvHoist moves goes up: a call, or the alloca of an array, that *)
(* has left its block is in a block that dominates it, in fewer loops than  *)
(* it was and in none besides, whatever order the loops come in, in         *)
(* functions without half-dead joins.                                       *)
THEOREM MovesGoUp == Spec => []HoistedUpwards
<1>1. ASSUME SearchInv, HoistInv, hpc # "idle", ~HalfDeadJoin,
             NEW i \in 1..MaxInstrs,
             NEW from \in PlacedIn(unhoisted, i) \cap Reachable,
             NEW to \in PlacedIn(code, i), to # from
      PROVE  /\ Dominates(to, from)
             /\ LoopsAround(to) \subseteq LoopsAround(from)
             /\ LoopsAround(to) # LoopsAround(from)
  <2>1. /\ code \in [Block -> Seq(Instr)] /\ unhoisted \in [Block -> Seq(Instr)]
        /\ Tracked(code, unhoisted, Upwards) /\ IdsApart(unhoisted) /\ lpc = "end"
    BY <1>1 DEF HoistInv
  <2>2. GraphOK /\ Live
    BY <1>1, <2>1, GraphOfSearch, LiveJoins
  <2>3. bbs \subseteq Block /\ succ \in [Block -> Seq(Block)]
    BY <2>2 DEF GraphOK
  <2>4. ASSUME NEW lists \in [Block -> Seq(Instr)], NEW b \in PlacedIn(lists, i)
        PROVE  b \in Block /\ \E n \in 1..Len(lists[b]) : lists[b][n].id = i
    <3>1. b \in bbs /\ \E x \in Range(lists[b]) : x.id = i
      BY DEF PlacedIn
    <3>2. b \in Block /\ DOMAIN lists[b] = 1..Len(lists[b])
      BY <2>3, <3>1
    <3>. QED
      BY <3>1, <3>2 DEF Range
  <2>5. PICK n \in 1..Len(code[to]) : code[to][n].id = i
    BY <2>1, <2>4
  <2>6. to \in Block /\ from \in Block /\ i \in IdsIn(unhoisted[from])
    BY <2>1, <2>4 DEF IdsIn
  <2>7. PICK p \in Places(code, Block) : p = <<to, n>>
    <3>1. n \in DOMAIN code[to]
      BY <2>1, <2>5, <2>6
    <3>. QED
      BY <2>6, <3>1, PlacesFacts
  <2>8. PICK q \in Places(unhoisted, Block) :
          code[p[1]][p[2]] = unhoisted[q[1]][q[2]] /\ <<p[1], q[1]>> \in Upwards
    <3>1. PICK f \in Bijection(Places(code, Block), Places(unhoisted, Block)) :
            \A r \in Places(code, Block) :
              code[r[1]][r[2]] = unhoisted[f[r][1]][f[r][2]] /\ <<r[1], f[r][1]>> \in Upwards
      BY <2>1 DEF Tracked
    <3>2. f[p] \in Places(unhoisted, Block)
      BY Fun_BijectionProperties
    <3>. QED
      BY <3>1, <3>2
  <2>9. PICK c \in Block : \E m \in DOMAIN unhoisted[c] : q = <<c, m>>
    BY PlacesFacts
  <2>10. PICK m \in DOMAIN unhoisted[c] : q = <<c, m>>
    BY <2>9
  <2>11. m \in 1..Len(unhoisted[c]) /\ unhoisted[c][m].id = i /\ <<to, c>> \in Upwards
    BY <2>1, <2>5, <2>7, <2>8, <2>10
  <2>12. c = from
    BY <2>1, <2>6, <2>11 DEF IdsApart, IdsIn
  <2>. QED
    BY <1>1, <2>2, <2>3, <2>6, <2>11, <2>12, UpwardsFacts
<1>2. SearchInv /\ HoistInv => HoistedUpwards
  BY <1>1 DEF HoistedUpwards
<1>. QED
  BY HoistInvariant, <1>2, PTL
=============================================================================

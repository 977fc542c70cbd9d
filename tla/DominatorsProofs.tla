--------------------------- MODULE DominatorsProofs ---------------------------
(***************************************************************************)
(* Proofs about the Dominators pass on the functions the builder makes, of *)
(* any size: the idoms it computes are the immediate dominators.           *)
(*                                                                         *)
(* The argument is not that of Cooper, Harvey and Kennedy for any graph:   *)
(* the graph is reducible (module FunctionBuilderProofs), so an edge goes  *)
(* down in post order or goes to a dominator of its source, and every      *)
(* idom is right the first time it is set, half of the predecessors        *)
(* having none yet; the later passes over the blocks change nothing.       *)
(***************************************************************************)
EXTENDS DominatorsOfBuilt, FunctionBuilderProofs

(***************************************************************************)
(* The traversal.  lvl is the time at which a block was filled: an edge    *)
(* goes forward in time or to a dominator of its source.                   *)
(***************************************************************************)
\* The blocks of the first n calls of post_order_visit, and those it has left.
Calling(n) == {dfs[i].bb : i \in 1..n}
Finished == Range(rpo)

\* post_order_id_ numbers the blocks that are finished; the list has them
\* the other way round.
Numbered == \A i \in 1..Len(rpo) : postId[rpo[i]] = Len(rpo) - i

\* Call i of the stack: it was reached through the calls before it alone, they
\* are of older blocks, and the younger successors looked at are finished, or
\* are in the call that follows.
CallOK(lvl, i) ==
  LET b == dfs[i].bb
  IN  /\ dfs[i].at \in Nat \ {0} /\ b \in Block \ Finished
      /\ \A j \in 1..i - 1 : lvl[dfs[j].bb] < lvl[b]
      /\ \A c \in Block \ Calling(i) : b \in Avoiding(c)
      /\ \A k \in 1..Len(succ[b]) : k < dfs[i].at =>
           /\ succ[b][k] \in visited
           /\ lvl[b] < lvl[succ[b][k]] =>
                succ[b][k] \in Finished \/ (i < Len(dfs) /\ succ[b][k] = dfs[i + 1].bb)

Traversal(lvl) ==
  /\ Entry \in visited /\ visited \subseteq Reachable
  /\ visited = Finished \cup Calling(Len(dfs))
  /\ Cardinality(visited) = Len(rpo) + Len(dfs)
  /\ Numbered
  /\ \A i \in 1..Len(dfs) : CallOK(lvl, i)
  /\ \A b \in Finished : \A c \in Succs(b) :
       c \in visited /\ (lvl[b] < lvl[c] => c \in Finished /\ postId[c] < postId[b])
----------------------------------------------------------------------------
(***************************************************************************)
(* The iteration.                                                          *)
(***************************************************************************)
\* Reverse post order: an edge goes down, or to a dominator of its source.
RpoOK ==
  /\ Finished = Reachable /\ Numbered /\ Len(rpo) <= MaxBlocks
  /\ \A p \in Reachable : \A b \in Succs(p) : postId[b] < postId[p] \/ Dominates(b, p)

\* An idom is right from the time it is set, and so are those above it.
IdomOK ==
  /\ idom[Entry] = Entry
  /\ \A b \in Block : idom[b] # NoBlock =>
       b \in Reachable /\ (b # Entry => IsIdom(idom[b], b) /\ idom[idom[b]] # NoBlock)

\* The blocks before pos have one.
Covered ==
  /\ pos \in 1..Len(rpo) + 1
  /\ \A i \in 1..Len(rpo) : i < pos => idom[rpo[i]] # NoBlock

\* All that dominates b, and is not b, dominates d.
Common(d, b) ==
  /\ d \in Reachable /\ idom[d] # NoBlock
  /\ \A a \in Reachable : Dominates(a, b) /\ a # b => Dominates(a, d)

\* d dominates the predecessors before the n-th that have an idom.
Passed(d, b, n) ==
  \A j \in 1..Len(pre[b]) : j < n /\ idom[pre[b][j]] # NoBlock => Dominates(d, pre[b][j])

\* new_idom dominates the predecessors that have been intersected, and b1 of
\* intersect the one that is.
AtPred ==
  LET b == rpo[pos]
  IN  /\ pos <= Len(rpo) /\ b # Entry /\ prd \in Nat \ {0}
      /\ Common(newIdom, b)
      /\ PickPred(b) # NoBlock /\ Dominates(newIdom, PickPred(b))
      /\ Passed(newIdom, b, prd)
      /\ dpc = "intersect" =>
           prd <= Len(pre[b]) /\ Common(walker, b) /\ Dominates(walker, pre[b][prd])

AllHaveIdom == \A b \in Reachable : idom[b] # NoBlock

Iteration ==
  /\ RpoOK /\ IdomOK
  /\ \/ dpc = "create_idom" /\ Covered
     \/ dpc \in {"next_pred", "intersect"} /\ Covered /\ AtPred
     \/ dpc \in {"create_dominance_frontier", "runner", "end"} /\ AllHaveIdom

(***************************************************************************)
(* The frontiers.                                                          *)
(***************************************************************************)
Joins == {j \in bbs : Len(pre[j]) >= 2}

\* The blocks the runner passes from the predecessor p of the join j: up to, and
\* without, the idom of j.  From a block that execution cannot reach: that block.
Walk(p, j) ==
  IF p \in Reachable THEN {a \in Reachable : Dominates(a, p) /\ ~(Dominates(a, j) /\ a # j)}
                     ELSE {p}

\* Where the runner may be, and those it has passed when it is at w.
AtWalk(p, j, w) ==
  IF p \in Reachable THEN w \in Reachable /\ Dominates(w, p) /\ Dominates(idom[j], w)
                     ELSE w \in {p, NoBlock}
Trail(p, j, w) ==
  IF p \in Reachable THEN {a \in Walk(p, j) : ~Dominates(a, w)}
                     ELSE IF w = p THEN {} ELSE {p}

\* A runner has passed b on its way from a predecessor of j, up to the n-th
\* predecessor of block m.
Passes(b, j, m, n) ==
  /\ j \in Joins
  /\ \E k \in 1..Len(pre[j]) : (j < m \/ (j = m /\ k <= n)) /\ b \in Walk(pre[j][k], j)

NoFrontier == frontier = [b \in MaybeBlock |-> {}]

FrontierOK ==
  /\ dpc \in {"create_idom", "next_pred", "intersect"} => NoFrontier
  /\ dpc \in {"create_dominance_frontier", "end"} =>
       /\ pos \in 1..MaxBlocks + 1
       /\ \A b, j \in Block : j \in frontier[b] <=> Passes(b, j, pos, prd)
  /\ dpc = "runner" =>
       /\ pos \in Joins /\ prd \in 1..Len(pre[pos]) /\ AtWalk(pre[pos][prd], pos, walker)
       /\ \A b, j \in Block :
            j \in frontier[b] <=>
              \/ Passes(b, j, pos, prd - 1)
              \/ j = pos /\ b \in Trail(pre[pos][prd], pos, walker)
  /\ dpc = "end" =>
       /\ pos > MaxBlocks
       /\ domSucc = [d \in MaybeBlock |-> {b \in bbs : idom[b] = d /\ idom[b] # b}]

DomInv ==
  \/ dpc = "idle" /\ RInv /\ DomInit
  \/ /\ Done /\ GraphOK /\ DomTypeOK
     /\ \/ dpc = "post_order_visit" /\ NoFrontier /\ \E lvl : Forward(lvl) /\ Traversal(lvl)
        \/ Iteration /\ FrontierOK
----------------------------------------------------------------------------
(***************************************************************************)
(* Facts for the steps.                                                    *)
(***************************************************************************)
\* One call of post_order_visit.
Activation == [bb : Block, at : Nat]

\* The pass only reads the graph.
LEMMA GraphStays ==
  ASSUME UNCHANGED graphVars
  PROVE  /\ succ' = succ /\ pre' = pre /\ bbs' = bbs
         /\ Reachable' = Reachable
         /\ \A a : Avoiding(a)' = Avoiding(a)
         /\ \A a, b : Dominates(a, b)' <=> Dominates(a, b)
         /\ \A b : Succs(b)' = Succs(b) /\ Preds(b)' = Preds(b)
         /\ GraphOK => GraphOK'
         /\ \A lvl : Forward(lvl) => Forward(lvl)'
<1>1. succ' = succ /\ pre' = pre /\ bbs' = bbs
  BY DEF graphVars
<1>. QED
  BY <1>1, EdgesStay

\* There are no more blocks than MaxBlocks.
LEMMA FewBlocks ==
  ASSUME NEW S \in SUBSET Block
  PROVE  IsFiniteSet(S) /\ Cardinality(S) \in Nat /\ Cardinality(S) <= MaxBlocks
<1>1. IsFiniteSet(Block) /\ Cardinality(Block) = MaxBlocks
  BY BlocksAreFinite
<1>2. IsFiniteSet(S) /\ Cardinality(S) <= Cardinality(Block)
  BY <1>1, FS_Subset
<1>. QED
  BY <1>1, <1>2, FS_CardinalityType

\* The stack of calls without its last.
LEMMA DfsFacts ==
  ASSUME DomTypeOK, dfs # << >>
  PROVE  LET n == Len(dfs)
         IN  /\ n \in Nat \ {0} /\ dfs \in Seq(Activation) /\ dfs[n] \in Activation
             /\ SubSeq(dfs, 1, n - 1) \in Seq(Activation) /\ Len(SubSeq(dfs, 1, n - 1)) = n - 1
             /\ \A i \in 1..n - 1 : SubSeq(dfs, 1, n - 1)[i] = dfs[i]
<1>1. dfs \in Seq(Activation) /\ Len(dfs) \in Nat \ {0}
  BY DEF DomTypeOK, Activation
<1>. DEFINE n == Len(dfs) - 1
<1>2. 1 \in Int /\ n \in Int /\ n \in Nat /\ \A i \in 1..n : dfs[i] \in Activation
  BY <1>1
<1>3. dfs[Len(dfs)] \in Activation
  BY <1>1
<1>. HIDE DEF n
<1>4. /\ SubSeq(dfs, 1, n) \in Seq(Activation)
      /\ Len(SubSeq(dfs, 1, n)) = IF 1 <= n THEN n - 1 + 1 ELSE 0
      /\ \A i \in 1..n - 1 + 1 : SubSeq(dfs, 1, n)[i] = dfs[1 + i - 1]
  BY <1>2, SubSeqProperties
<1>5. /\ SubSeq(dfs, 1, n) \in Seq(Activation) /\ Len(SubSeq(dfs, 1, n)) = n
      /\ \A i \in 1..n : SubSeq(dfs, 1, n)[i] = dfs[i]
  BY <1>2, <1>4
<1>. QED
  BY <1>1, <1>3, <1>5 DEF n
----------------------------------------------------------------------------
(***************************************************************************)
(* The steps of post_order_visit.                                          *)
(***************************************************************************)
\* The call for the entry block.
LEMMA StartKeeps ==
  ASSUME GraphOK, DomInit, StartDominators, UNCHANGED graphVars, NEW lvl
  PROVE  DomTypeOK' /\ Traversal(lvl)'
<1>1. /\ dfs' = <<[bb |-> Entry, at |-> 1]>> /\ visited' = {Entry} /\ rpo' = << >>
      /\ dpc' = "post_order_visit"
      /\ postId' = [b \in Block |-> 0] /\ idom' = [b \in Block |-> NoBlock]
      /\ changed' = FALSE /\ pos' = 0 /\ prd' = 0 /\ newIdom' = NoBlock /\ walker' = NoBlock
      /\ frontier' = [b \in MaybeBlock |-> {}] /\ domSucc' = [b \in MaybeBlock |-> {}]
  BY DEF StartDominators, DomInit
<1>2. Entry \in Block /\ MaxBlocks \in Nat \ {0} /\ succ \in [Block -> Seq(Block)]
  BY BlockFacts, AvoidFacts DEF GraphOK
<1>3. /\ Len(dfs') = 1 /\ dfs'[1] = [bb |-> Entry, at |-> 1] /\ dfs' \in Seq(Activation)
      /\ Len(rpo') = 0 /\ Range(rpo') = {} /\ rpo' \in Seq(Block)
  BY <1>1, <1>2 DEF Range, Activation
<1>4. DomTypeOK'
  <2>1. postId' \in [Block -> 0..MaxBlocks] /\ idom' \in [Block -> MaybeBlock]
        /\ visited' \subseteq Block
    BY <1>1, <1>2 DEF MaybeBlock
  <2>2. frontier' \in [MaybeBlock -> SUBSET Block] /\ domSucc' \in [MaybeBlock -> SUBSET Block]
    BY <1>1
  <2>3. newIdom' \in MaybeBlock /\ walker' \in MaybeBlock /\ pos' \in 0..MaxBlocks + 1
        /\ prd' \in Nat /\ changed' \in BOOLEAN
    <3>1. NoBlock \in MaybeBlock /\ 0 \in 0..MaxBlocks + 1 /\ 0 \in Nat /\ FALSE \in BOOLEAN
      BY <1>2 DEF MaybeBlock
    <3>. QED
      BY <1>1, <3>1
  <2>. QED
    BY <1>1, <1>2, <1>3, <2>1, <2>2, <2>3 DEF DomTypeOK, Activation
<1>5. \A i \in 1..Len(dfs') : CallOK(lvl, i)'
  <2>1. \A c \in Block : c # Entry => Entry \in Avoiding(c)'
    BY <1>2, GraphStays, AvoidFacts
  <2>2. \A i : i \in 1..1 <=> i = 1
    OBVIOUS
  <2>3. Calling(1)' = {Entry}
    BY <1>3, <2>2 DEF Calling
  <2>4. CallOK(lvl, 1)'
    BY <1>2, <1>3, <2>1, <2>3 DEF CallOK, Finished
  <2>. QED
    BY <1>3, <2>2, <2>4
<1>6. visited' = Finished' \cup Calling(Len(dfs))'
  <2>1. \A i : i \in 1..1 <=> i = 1
    OBVIOUS
  <2>. QED
    BY <1>1, <1>3, <2>1 DEF Finished, Calling
<1>7. Cardinality(visited') = 1
  BY <1>1, FS_Singleton
<1>8. visited' \subseteq Reachable'
  BY <1>1, <1>2, GraphStays, ReachableFacts
<1>. QED
  BY <1>1, <1>3, <1>4, <1>5, <1>6, <1>7, <1>8 DEF Traversal, Numbered, Finished
\* The next successor.
LEMMA VisitSuccKeeps ==
  ASSUME GraphOK, DomTypeOK, NEW lvl, Forward(lvl), Traversal(lvl), VisitSucc, UNCHANGED graphVars
  PROVE  DomTypeOK' /\ Traversal(lvl)'
<1>0. PICK n : n = Len(dfs)
  OBVIOUS
<1>. DEFINE top == dfs[n]
            t   == top.bb
            b   == succ[t][top.at]
            on  == [dfs EXCEPT ![n].at = @ + 1]
<1>1. /\ dfs # << >> /\ top.at <= Len(succ[t])
      /\ dfs' = (IF b \in visited THEN on ELSE Append(on, [bb |-> b, at |-> 1]))
      /\ visited' = visited \cup {b}
      /\ UNCHANGED <<dpc, postId, rpo, idom, changed, pos, prd, newIdom, walker, frontier, domSucc>>
  BY <1>0 DEF VisitSucc
<1>2. n \in Nat \ {0} /\ dfs \in Seq(Activation) /\ top \in Activation
  BY <1>0, <1>1, DfsFacts
<1>3. /\ succ \in [Block -> Seq(Block)] /\ Entry \in Block /\ MaxBlocks \in Nat \ {0}
      /\ lvl \in [Block -> Nat]
  BY BlockFacts, AvoidFacts DEF GraphOK, Forward
<1>4. CallOK(lvl, n) /\ \A i \in 1..n : CallOK(lvl, i)
  BY <1>0, <1>2 DEF Traversal
<1>5. top.at \in Nat \ {0} /\ t \in Block /\ t \notin Finished /\ t \in visited /\ t \in Calling(n)
  <2>1. t \in Calling(n)
    BY <1>2 DEF Calling
  <2>. QED
    BY <1>0, <1>4, <2>1 DEF CallOK, Traversal
<1>6. b \in Block /\ b \in Succs(t) /\ succ[t] \in Seq(Block) /\ top.at \in 1..Len(succ[t])
  <2>1. succ[t] \in Seq(Block) /\ top.at \in 1..Len(succ[t])
    BY <1>1, <1>3, <1>5
  <2>. QED
    BY <2>1 DEF Succs, Range
<1>7. /\ on \in Seq(Activation) /\ Len(on) = n /\ \A i \in 1..n - 1 : on[i] = dfs[i]
      /\ on[n].bb = t /\ on[n].at = top.at + 1 /\ on[n] \in Activation
  <2>1. [top EXCEPT !.at = @ + 1] \in Activation /\ [top EXCEPT !.at = @ + 1].bb = t
        /\ [top EXCEPT !.at = @ + 1].at = top.at + 1
    BY <1>2 DEF Activation
  <2>2. on = [dfs EXCEPT ![n] = [top EXCEPT !.at = @ + 1]]
    OBVIOUS
  <2>. HIDE DEF top, on
  <2>. QED
    BY <1>0, <1>2, <2>1, <2>2, ExceptSeq
<1>. HIDE DEF top, t, on, b
<1>8. /\ \A i \in 1..n : on[i].bb = dfs[i].bb
      /\ \A i \in 1..n : on[i] \in Activation
  <2>1. \A i \in 1..n : i = n \/ i \in 1..n - 1
    BY <1>2
  <2>. QED
    BY <1>2, <1>7, <2>1 DEF top, t
<1>. DEFINE new == [bb |-> b, at |-> 1]
<1>8a. PICK m : m = Len(dfs')
  OBVIOUS
<1>9. /\ dfs' \in Seq(Activation) /\ m \in {n, n + 1} /\ (m = n <=> b \in visited)
      /\ \A i \in 1..n : dfs'[i] = on[i]
      /\ b \notin visited => dfs'[n + 1] = new
  <2>1. new \in Activation
    BY <1>6 DEF Activation
  <2>. HIDE DEF new
  <2>2. /\ Append(on, new) \in Seq(Activation) /\ Len(Append(on, new)) = n + 1
        /\ \A i \in 1..n : Append(on, new)[i] = on[i]
        /\ Append(on, new)[n + 1] = new
    BY <1>7, <2>1, AppendProperties
  <2>3. n # n + 1
    BY <1>2
  <2>. QED
    BY <1>1, <1>7, <1>8a, <2>2, <2>3 DEF new
<1>10. /\ visited \subseteq Reachable /\ visited = Finished \cup Calling(n)
       /\ Cardinality(visited) = Len(rpo) + n
  BY <1>0 DEF Traversal
<1>11. /\ \A i \in 1..n : Calling(i)' = Calling(i)
       /\ b \notin visited => Calling(n + 1)' = Calling(n) \cup {b}
  <2>1. \A i \in 1..n : \A j \in 1..i : dfs'[j].bb = dfs[j].bb
    BY <1>2, <1>8, <1>9
  <2>2. \A i \in 1..n : Calling(i)' = Calling(i)
    BY <2>1 DEF Calling
  <2>3. ASSUME b \notin visited
        PROVE  Calling(n + 1)' = Calling(n) \cup {b}
    <3>1. \A j : j \in 1..n + 1 <=> j \in 1..n \/ j = n + 1
      BY <1>2
    <3>2. dfs'[n + 1].bb = b /\ \A j \in 1..n : dfs'[j].bb = dfs[j].bb
      BY <1>2, <1>9, <2>1, <2>3
    <3>. QED
      BY <3>1, <3>2 DEF Calling
  <2>. QED
    BY <2>2, <2>3
<1>12. Finished' = Finished /\ Numbered'
  BY <1>1 DEF Finished, Traversal, Numbered
<1>13. visited' \subseteq Reachable' /\ visited' \subseteq Block
  BY <1>1, <1>3, <1>5, <1>6, <1>10, GraphStays, ReachableFacts
<1>14. Cardinality(visited') = Len(rpo') + m
  <2>1. IsFiniteSet(visited)
    BY <1>3, <1>10, FewBlocks, ReachableFacts
  <2>2. Cardinality(visited') = IF b \in visited THEN Cardinality(visited)
                                                ELSE Cardinality(visited) + 1
    BY <1>1, <2>1, FS_AddElement
  <2>3. Len(rpo) \in Nat
    BY DEF DomTypeOK
  <2>. QED
    <3>1. rpo' = rpo
      BY <1>1
    <3>2. CASE b \in visited
      BY <1>9, <1>10, <2>2, <3>1, <3>2
    <3>3. CASE b \notin visited
      <4>1. m = n + 1
        BY <1>9, <3>3
      <4>. QED
        BY <1>2, <1>10, <2>2, <2>3, <3>1, <3>3, <4>1
    <3>. QED
      BY <3>2, <3>3
<1>15. DomTypeOK'
  <2>1. m <= MaxBlocks
    <3>1. Cardinality(visited') \in Nat /\ Cardinality(visited') <= MaxBlocks
      BY <1>13, FewBlocks
    <3>2. Len(rpo') \in Nat /\ MaxBlocks \in Nat
      BY <1>1, <1>3 DEF DomTypeOK
    <3>3. m \in Nat
      BY <1>2, <1>9
    <3>. QED
      BY <1>14, <3>1, <3>2, <3>3
  <2>. QED
    BY <1>1, <1>8a, <1>9, <1>13, <2>1 DEF DomTypeOK, Activation
<1>16. visited' = Finished' \cup Calling(m)'
  BY <1>1, <1>2, <1>9, <1>10, <1>11, <1>12
<1>17. ASSUME NEW i \in 1..n - 1
       PROVE  CallOK(lvl, i)'
  <2>1. /\ i \in 1..n /\ i + 1 \in 1..n /\ i < n /\ i < m
        /\ dfs'[i] = dfs[i] /\ dfs'[i + 1].bb = dfs[i + 1].bb
        /\ \A j \in 1..i - 1 : dfs'[j].bb = dfs[j].bb
    <3>1. i \in 1..n /\ i + 1 \in 1..n /\ i < n /\ i < m /\ \A j \in 1..i - 1 : j \in 1..n
      BY <1>2, <1>9
    <3>2. dfs'[i] = on[i] /\ on[i] = dfs[i] /\ dfs'[i + 1] = on[i + 1]
      BY <1>7, <1>9, <3>1
    <3>. QED
      BY <1>8, <1>9, <3>1, <3>2
  <2>2. CallOK(lvl, i) /\ Calling(i)' = Calling(i)
    BY <1>4, <1>11, <2>1
  <2>3. \A c : Avoiding(c)' = Avoiding(c)
    BY GraphStays
  <2>4. succ' = succ /\ visited \subseteq visited'
    BY <1>1, GraphStays
  <2>. QED
    BY <1>0, <1>8a, <1>12, <2>1, <2>2, <2>3, <2>4 DEF CallOK
<1>18. CallOK(lvl, n)'
  <2>1. dfs'[n].bb = t /\ dfs'[n].at = top.at + 1 /\ dfs[n].bb = t /\ dfs[n].at = top.at
    BY <1>2, <1>7, <1>9 DEF t, top
  <2>2. \A j \in 1..n - 1 : dfs'[j].bb = dfs[j].bb
    BY <1>2, <1>8, <1>9
  <2>3. Calling(n)' = Calling(n) /\ \A c : Avoiding(c)' = Avoiding(c)
    BY <1>2, <1>11, GraphStays
  <2>4. succ' = succ /\ visited \subseteq visited' /\ b \in visited'
    BY <1>1, GraphStays
  <2>5. /\ \A j \in 1..n - 1 : lvl[dfs[j].bb] < lvl[t]
        /\ \A c \in Block \ Calling(n) : t \in Avoiding(c)
        /\ \A k \in 1..Len(succ[t]) : k < top.at =>
             /\ succ[t][k] \in visited
             /\ lvl[t] < lvl[succ[t][k]] => succ[t][k] \in Finished
    BY <1>0, <1>2, <1>4, <2>1 DEF CallOK
  <2>6. ASSUME b \in visited, lvl[t] < lvl[b]
        PROVE  b \in Finished
    <3>1. b \in Finished \/ b \in Calling(n)
      BY <1>10, <2>6
    <3>2. CASE b \in Calling(n)
      <4>1. PICK j \in 1..n : b = dfs[j].bb
        BY <3>2 DEF Calling
      <4>2. j \in 1..n - 1 \/ b = t
        BY <1>2, <2>1, <4>1
      <4>3. lvl[b] \in Nat /\ lvl[t] \in Nat
        BY <1>3, <1>5, <1>6
      <4>. QED
        BY <2>5, <2>6, <4>1, <4>2, <4>3
    <3>. QED
      BY <3>1, <3>2
  <2>7. ASSUME b \notin visited
        PROVE  n < m /\ b = dfs'[n + 1].bb
    BY <1>2, <1>9, <2>7
  <2>8. ASSUME NEW k \in 1..Len(succ[t]), k < top.at + 1
        PROVE  /\ succ[t][k] \in visited'
               /\ lvl[t] < lvl[succ[t][k]] =>
                    succ[t][k] \in Finished \/ (n < m /\ succ[t][k] = dfs'[n + 1].bb)
    <3>1. CASE k < top.at
      BY <2>4, <2>5, <3>1
    <3>2. CASE k = top.at
      <4>1. succ[t][k] = b
        BY <3>2 DEF b
      <4>. QED
        BY <2>4, <2>6, <2>7, <4>1
    <3>. QED
      BY <1>5, <2>8, <3>1, <3>2
  <2>9. \A j \in 1..n - 1 : lvl[dfs'[j].bb] < lvl[dfs'[n].bb]
    BY <2>1, <2>2, <2>5
  <2>10. dfs'[n].at \in Nat \ {0} /\ dfs'[n].bb \in Block \ Finished'
    BY <1>5, <1>12, <2>1
  <2>. QED
    BY <1>8a, <1>12, <2>1, <2>3, <2>4, <2>5, <2>8, <2>9, <2>10 DEF CallOK
<1>19. ASSUME b \notin visited
       PROVE  CallOK(lvl, n + 1)'
  <2>1. /\ dfs'[n + 1].bb = b /\ dfs'[n + 1].at = 1 /\ dfs[n].bb = t
        /\ \A j \in 1..n : dfs'[j].bb = dfs[j].bb
    BY <1>2, <1>8, <1>9, <1>19 DEF t, top
  <2>2. /\ \A j \in 1..n - 1 : lvl[dfs[j].bb] < lvl[t]
        /\ \A c \in Block \ Calling(n) : t \in Avoiding(c)
    BY <1>4, <2>1 DEF CallOK
  <2>3. b \notin Calling(n) /\ b # t /\ b \notin Finished
    BY <1>5, <1>10, <1>19
  <2>4. lvl[t] < lvl[b]
    <3>1. t \in Avoiding(b)
      BY <1>6, <2>2, <2>3
    <3>2. ~Dominates(b, t)
      BY <2>3, <3>1, StrictlyDominates
    <3>. QED
      BY <1>5, <1>6, <3>2 DEF Forward
  <2>5. \A j \in 1..n : lvl[dfs[j].bb] < lvl[b]
    <3>. SUFFICES ASSUME NEW j \in 1..n PROVE lvl[dfs[j].bb] < lvl[b]
      OBVIOUS
    <3>1. j \in 1..n - 1 \/ dfs[j].bb = t
      BY <1>2, <2>1
    <3>2. dfs[j].bb \in Block
      BY <1>4 DEF CallOK
    <3>3. lvl[dfs[j].bb] \in Nat /\ lvl[t] \in Nat /\ lvl[b] \in Nat
      BY <1>3, <1>5, <1>6, <3>2
    <3>. QED
      BY <2>2, <2>4, <3>1, <3>3
  <2>6. \A c \in Block \ (Calling(n) \cup {b}) : b \in Avoiding(c)
    BY <1>3, <1>6, <2>2, AvoidFacts
  <2>7. Calling(n + 1)' = Calling(n) \cup {b} /\ \A c : Avoiding(c)' = Avoiding(c)
    BY <1>11, <1>19, GraphStays
  <2>8. \A j \in 1..(n + 1) - 1 : lvl[dfs'[j].bb] < lvl[b]
    BY <1>2, <2>1, <2>5
  <2>9. \A k \in 1..Len(succ[b]) : ~(k < 1)
    OBVIOUS
  <2>10. succ' = succ
    BY GraphStays
  <2>. QED
    BY <1>6, <1>12, <2>1, <2>3, <2>6, <2>7, <2>8, <2>9, <2>10 DEF CallOK
<1>20. \A i \in 1..m : CallOK(lvl, i)'
  <2>. SUFFICES ASSUME NEW i \in 1..m PROVE CallOK(lvl, i)'
    OBVIOUS
  <2>1. i \in 1..n - 1 \/ i = n \/ (i = n + 1 /\ b \notin visited)
    BY <1>2, <1>9
  <2>. QED
    BY <1>17, <1>18, <1>19, <2>1
<1>21. \A x \in Finished' : \A c \in Succs(x)' :
         c \in visited' /\ (lvl[x] < lvl[c] => c \in Finished' /\ postId'[c] < postId'[x])
  BY <1>1, <1>12, GraphStays DEF Traversal
<1>22. Entry \in visited'
  BY <1>1 DEF Traversal
<1>. QED
  BY <1>8a, <1>12, <1>13, <1>14, <1>15, <1>16, <1>20, <1>21, <1>22 DEF Traversal
\* The end of a call.
LEMMA FinishVisitKeeps ==
  ASSUME GraphOK, DomTypeOK, NEW lvl, Forward(lvl), Traversal(lvl), FinishVisit, UNCHANGED graphVars
  PROVE  DomTypeOK' /\ Traversal(lvl)'
<1>0. PICK n, t, s : n = Len(dfs) /\ t = dfs[n].bb /\ s = Len(rpo)
  OBVIOUS
<1>1. /\ dfs # << >> /\ dfs[n].at > Len(succ[t])
      /\ postId' = [postId EXCEPT ![t] = s]
      /\ rpo' = <<t>> \o rpo
      /\ dfs' = SubSeq(dfs, 1, n - 1)
      /\ UNCHANGED <<dpc, visited, idom, changed, pos, prd, newIdom, walker, frontier, domSucc>>
  BY <1>0 DEF FinishVisit
<1>2. /\ n \in Nat \ {0} /\ dfs' \in Seq(Activation) /\ Len(dfs') = n - 1
      /\ \A i \in 1..n - 1 : dfs'[i] = dfs[i]
  BY <1>0, <1>1, DfsFacts
<1>3. /\ succ \in [Block -> Seq(Block)] /\ Entry \in Block /\ MaxBlocks \in Nat \ {0}
      /\ lvl \in [Block -> Nat]
  BY BlockFacts, AvoidFacts DEF GraphOK, Forward
<1>4. \A i \in 1..n : CallOK(lvl, i)
  BY <1>0 DEF Traversal
<1>5. /\ dfs[n].at \in Nat \ {0} /\ t \in Block \ Finished /\ t \in Calling(n)
      /\ \A j \in 1..n - 1 : lvl[dfs[j].bb] < lvl[t]
      /\ \A k \in 1..Len(succ[t]) : k < dfs[n].at =>
           succ[t][k] \in visited /\ (lvl[t] < lvl[succ[t][k]] => succ[t][k] \in Finished)
  <2>1. CallOK(lvl, n) /\ ~(n < n) /\ n \in 1..n
    BY <1>2, <1>4
  <2>. QED
    BY <1>0, <2>1 DEF CallOK, Calling
<1>6. /\ Entry \in visited /\ visited \subseteq Reachable /\ visited = Finished \cup Calling(n)
      /\ Cardinality(visited) = s + n /\ Numbered
      /\ \A b \in Finished : \A c \in Succs(b) :
           c \in visited /\ (lvl[b] < lvl[c] => c \in Finished /\ postId[c] < postId[b])
  BY <1>0 DEF Traversal
<1>7. s \in Nat /\ rpo \in Seq(Block) /\ postId \in [Block -> 0..MaxBlocks]
  BY <1>0 DEF DomTypeOK
<1>8. /\ rpo' \in Seq(Block) /\ Len(rpo') = s + 1 /\ rpo'[1] = t
      /\ \A i \in 1..s : rpo'[i + 1] = rpo[i]
  <2>1. /\ <<t>> \in Seq(Block) /\ Len(<<t>>) = 1 /\ <<t>>[1] = t
    BY <1>5
  <2>. DEFINE u == <<t>>
  <2>. HIDE DEF u
  <2>2. /\ u \o rpo \in Seq(Block) /\ Len(u \o rpo) = Len(u) + Len(rpo)
        /\ \A i \in 1..Len(u) + Len(rpo) : (u \o rpo)[i] = IF i <= Len(u) THEN u[i] ELSE rpo[i - Len(u)]
    BY <1>7, <2>1, ConcatProperties DEF u
  <2>3. rpo' = u \o rpo /\ Len(u) = 1 /\ u[1] = t
    BY <1>1, <2>1 DEF u
  <2>4. \A i \in 1..s : i + 1 \in 1..1 + s /\ ~(i + 1 <= 1) /\ (i + 1) - 1 = i
    BY <1>7
  <2>5. \A i \in 1..s : (u \o rpo)[i + 1] = rpo[i]
    BY <1>0, <2>2, <2>3, <2>4
  <2>6. 1 \in 1..1 + s /\ (u \o rpo)[1] = u[1]
    BY <1>0, <1>7, <2>2, <2>3
  <2>. QED
    BY <1>0, <1>7, <2>2, <2>3, <2>5, <2>6
<1>9. Finished' = Finished \cup {t}
  <2>1. DOMAIN rpo = 1..s /\ DOMAIN rpo' = 1..s + 1
    BY <1>0, <1>7, <1>8
  <2>2. \A i : i \in 1..s + 1 <=> (i = 1 \/ \E j \in 1..s : i = j + 1)
    <3>. SUFFICES ASSUME NEW i \in 1..s + 1, i # 1 PROVE \E j \in 1..s : i = j + 1
      BY <1>7
    <3>1. i - 1 \in 1..s /\ i = (i - 1) + 1
      BY <1>7
    <3>. QED
      BY <3>1
  <2>. QED
    BY <1>8, <2>1, <2>2 DEF Finished, Range
<1>10. s + n <= MaxBlocks
  <2>1. Cardinality(visited) <= MaxBlocks
    BY <1>3, <1>6, FewBlocks, ReachableFacts
  <2>. QED
    BY <1>6, <2>1
<1>11. /\ postId' \in [Block -> 0..MaxBlocks] /\ postId'[t] = s
       /\ \A b \in Finished : postId'[b] = postId[b] /\ postId[b] < s
  <2>1. s \in 0..MaxBlocks
    BY <1>2, <1>3, <1>7, <1>10
  <2>2. postId' \in [Block -> 0..MaxBlocks] /\ postId'[t] = s
    BY <1>1, <1>5, <1>7, <2>1
  <2>3. ASSUME NEW b \in Finished
        PROVE  postId'[b] = postId[b] /\ postId[b] < s
    <3>1. PICK i \in 1..s : b = rpo[i]
      BY <1>0, <1>7 DEF Finished, Range
    <3>2. postId[b] = s - i /\ b # t
      BY <1>0, <1>5, <1>6, <3>1 DEF Numbered
    <3>. QED
      BY <1>1, <1>7, <3>1, <3>2
  <2>. QED
    BY <2>2, <2>3
<1>12. Numbered'
  <2>. SUFFICES ASSUME NEW i \in 1..s + 1
                PROVE  postId'[rpo'[i]] = (s + 1) - i
    BY <1>8 DEF Numbered
  <2>1. CASE i = 1
    BY <1>7, <1>8, <1>11, <2>1
  <2>2. CASE i # 1
    <3>1. i - 1 \in 1..s /\ (i - 1) + 1 = i
      BY <1>7, <2>2
    <3>2. rpo'[i] = rpo[i - 1] /\ rpo[i - 1] \in Finished /\ postId[rpo[i - 1]] = s - (i - 1)
      <4>1. rpo'[(i - 1) + 1] = rpo[i - 1]
        BY <1>8, <3>1
      <4>2. rpo[i - 1] \in Finished /\ postId[rpo[i - 1]] = s - (i - 1)
        <5>1. DOMAIN rpo = 1..s /\ i - 1 \in 1..Len(rpo) /\ Len(rpo) = s
          BY <1>0, <1>7, <3>1
        <5>2. rpo[i - 1] \in Finished
          BY <5>1 DEF Finished, Range
        <5>. QED
          BY <1>6, <5>1, <5>2 DEF Numbered
      <4>. QED
        BY <3>1, <4>1, <4>2
    <3>. QED
      BY <1>7, <1>11, <3>1, <3>2
  <2>. QED
    BY <2>1, <2>2
<1>13. visited' = Finished' \cup Calling(n - 1)'
  <2>1. Calling(n - 1)' = Calling(n - 1)
    BY <1>2 DEF Calling
  <2>2. Calling(n) = Calling(n - 1) \cup {t}
    <3>1. \A j : j \in 1..n <=> j \in 1..n - 1 \/ j = n
      BY <1>2
    <3>. QED
      BY <1>0, <3>1 DEF Calling
  <2>. QED
    BY <1>1, <1>6, <1>9, <2>1, <2>2
<1>14. ASSUME NEW i \in 1..n - 1
       PROVE  CallOK(lvl, i)'
  <2>1. /\ i \in 1..n /\ i < n /\ dfs'[i] = dfs[i]
        /\ i < n - 1 => dfs'[i + 1] = dfs[i + 1]
        /\ ~(i < n - 1) => dfs[i + 1].bb = t
        /\ \A j \in 1..i - 1 : dfs'[j] = dfs[j]
    <3>1. i \in 1..n /\ i < n /\ \A j \in 1..i - 1 : j \in 1..n - 1
      BY <1>2
    <3>2. i < n - 1 => i + 1 \in 1..n - 1
      BY <1>2
    <3>3. ~(i < n - 1) => i + 1 = n
      BY <1>2
    <3>. QED
      BY <1>0, <1>2, <3>1, <3>2, <3>3
  <2>2. Calling(i)' = Calling(i)
    <3>1. \A j \in 1..i : j \in 1..n - 1
      BY <1>2
    <3>. QED
      BY <1>2, <3>1 DEF Calling
  <2>3. CallOK(lvl, i) /\ \A c : Avoiding(c)' = Avoiding(c)
    BY <1>4, <2>1, GraphStays
  <2>4. succ' = succ /\ visited' = visited
    BY <1>1, GraphStays
  <2>. DEFINE b == dfs[i].bb
  <2>5. /\ dfs[i].at \in Nat \ {0} /\ b \in Block \ Finished
        /\ \A j \in 1..i - 1 : lvl[dfs[j].bb] < lvl[b]
        /\ \A c \in Block \ Calling(i) : b \in Avoiding(c)
        /\ \A k \in 1..Len(succ[b]) : k < dfs[i].at =>
             /\ succ[b][k] \in visited
             /\ lvl[b] < lvl[succ[b][k]] =>
                  succ[b][k] \in Finished \/ (i < n /\ succ[b][k] = dfs[i + 1].bb)
    BY <1>0, <2>3 DEF CallOK
  <2>6. b # t
    <3>1. lvl[b] < lvl[t] /\ lvl[t] \in Nat
      BY <1>3, <1>5
    <3>. QED
      BY <3>1
  <2>7. b = dfs'[i].bb /\ dfs'[i].at = dfs[i].at
    BY <2>1
  <2>. HIDE DEF b
  <2>8. \A k \in 1..Len(succ[b]) : k < dfs[i].at =>
             /\ succ[b][k] \in visited
             /\ lvl[b] < lvl[succ[b][k]] =>
                  succ[b][k] \in Finished' \/ (i < n - 1 /\ succ[b][k] = dfs'[i + 1].bb)
    BY <1>9, <2>1, <2>5
  <2>9. \A j \in 1..i - 1 : lvl[dfs'[j].bb] < lvl[b]
    BY <2>1, <2>5
  <2>10. b \in Block \ Finished'
    BY <1>9, <2>5, <2>6
  <2>. QED
    BY <1>2, <2>2, <2>3, <2>4, <2>5, <2>7, <2>8, <2>9, <2>10 DEF CallOK
<1>15. ASSUME NEW b \in Finished', NEW c \in Succs(b)'
       PROVE  c \in visited' /\ (lvl[b] < lvl[c] => c \in Finished' /\ postId'[c] < postId'[b])
  <2>1. c \in Succs(b) /\ visited' = visited
    BY <1>1, GraphStays
  <2>2. CASE b \in Finished
    <3>1. c \in visited /\ (lvl[b] < lvl[c] => c \in Finished /\ postId[c] < postId[b])
      BY <1>6, <2>1, <2>2
    <3>. QED
      BY <1>9, <1>11, <2>1, <2>2, <3>1
  <2>3. CASE b = t
    <3>1. succ[t] \in Seq(Block)
      BY <1>3, <1>5
    <3>2. PICK k \in 1..Len(succ[t]) : c = succ[t][k]
      BY <2>1, <2>3, <3>1 DEF Succs, Range
    <3>3. k < dfs[n].at
      BY <1>1, <1>5, <3>1, <3>2
    <3>4. c \in visited /\ (lvl[t] < lvl[c] => c \in Finished)
      BY <1>5, <3>2, <3>3
    <3>. QED
      BY <1>9, <1>11, <2>1, <2>3, <3>4
  <2>. QED
    BY <1>9, <2>2, <2>3
<1>16. DomTypeOK'
  <2>1. n - 1 <= MaxBlocks
    BY <1>2, <1>3, <1>7, <1>10
  <2>. QED
    BY <1>1, <1>2, <1>8, <1>11, <2>1 DEF DomTypeOK, Activation
<1>17. Cardinality(visited') = Len(rpo') + Len(dfs')
  BY <1>1, <1>2, <1>6, <1>7, <1>8
<1>18. visited' \subseteq Reachable' /\ Entry \in visited'
  BY <1>1, <1>6, GraphStays
<1>19. \A i \in 1..Len(dfs') : CallOK(lvl, i)'
  BY <1>2, <1>14
<1>20. visited' = Finished' \cup Calling(Len(dfs))'
  BY <1>2, <1>13
<1>. QED
  BY <1>12, <1>15, <1>16, <1>17, <1>18, <1>19, <1>20 DEF Traversal
----------------------------------------------------------------------------
(***************************************************************************)
(* What reverse post order says.                                           *)
(***************************************************************************)
\* The block at each place of reverse_post_order_, and the place of each block.
LEMMA Places ==
  ASSUME GraphOK, DomTypeOK, RpoOK
  PROVE  /\ Len(rpo) \in Nat /\ Reachable \subseteq Block
         /\ \A b \in Reachable : postId[b] \in Nat
         /\ \A i \in 1..Len(rpo) : rpo[i] \in Reachable /\ postId[rpo[i]] = Len(rpo) - i
         /\ \A b \in Reachable : \E i \in 1..Len(rpo) : b = rpo[i]
<1>1. rpo \in Seq(Block) /\ postId \in [Block -> 0..MaxBlocks]
  BY DEF DomTypeOK
<1>2. Reachable = Range(rpo) /\ DOMAIN rpo = 1..Len(rpo) /\ Len(rpo) \in Nat
  BY <1>1 DEF RpoOK, Finished
<1>3. Reachable \subseteq Block
  BY ReachableFacts DEF GraphOK
<1>4. \A b \in Reachable : postId[b] \in Nat
  BY <1>1, <1>3
<1>. QED
  BY <1>2, <1>3, <1>4 DEF Range, RpoOK, Numbered

\* A dominator comes later in post order.
LEMMA DominatorsAreLater ==
  ASSUME GraphOK, DomTypeOK, RpoOK, NEW a \in Reachable, NEW b \in Reachable,
         a # b, Dominates(a, b)
  PROVE  postId[b] < postId[a]
<1>. DEFINE Bad == {i \in 1..Len(rpo) : /\ rpo[i] # a /\ Dominates(a, rpo[i])
                                        /\ ~(postId[rpo[i]] < postId[a])}
<1>. SUFFICES ASSUME ~(postId[b] < postId[a]) PROVE FALSE
  OBVIOUS
<1>1. Bad \in SUBSET Nat /\ Bad # {}
  BY Places
<1>. HIDE DEF Bad
<1>2. PICK i \in Bad : \A j \in Bad : i <= j
  BY <1>1, LeastNumber
<1>3. /\ i \in 1..Len(rpo) /\ rpo[i] # a /\ Dominates(a, rpo[i])
      /\ ~(postId[rpo[i]] < postId[a])
  BY <1>2 DEF Bad
<1>4. /\ succ \in [Block -> Seq(Block)] /\ rpo[i] \in Reachable /\ postId[rpo[i]] = Len(rpo) - i
      /\ postId[a] \in Nat /\ Len(rpo) \in Nat
  BY <1>3, Places DEF GraphOK
<1>5. rpo[i] # Entry
  BY <1>3, <1>4, EntryDominates
<1>6. PICK p \in Reachable : rpo[i] \in Succs(p) /\ ~Dominates(rpo[i], p)
  BY <1>4, <1>5, ForwardPred
<1>7. postId[rpo[i]] < postId[p] /\ postId[p] \in Nat
  BY <1>6, Places DEF RpoOK
<1>8. Dominates(a, p)
  BY <1>3, <1>4, <1>6, DominatesBefore
<1>9. PICK j \in 1..Len(rpo) : p = rpo[j] /\ postId[p] = Len(rpo) - j
  <2>1. PICK k \in 1..Len(rpo) : p = rpo[k]
    BY <1>6, Places
  <2>2. postId[rpo[k]] = Len(rpo) - k
    BY Places
  <2>. QED
    BY <2>1, <2>2
<1>10. j < i
  BY <1>3, <1>4, <1>7, <1>9
<1>11. j \notin Bad
  BY <1>2, <1>3, <1>9, <1>10, <1>1
<1>12. p = a \/ postId[p] < postId[a]
  BY <1>8, <1>9, <1>11 DEF Bad
<1>. QED
  BY <1>3, <1>4, <1>7, <1>12

----------------------------------------------------------------------------
(***************************************************************************)
(* The steps of create_idom.                                               *)
(***************************************************************************)
LEMMA StartIdomKeeps ==
  ASSUME GraphOK, DomTypeOK, NEW lvl, Forward(lvl), Traversal(lvl), StartIdom, UNCHANGED graphVars
  PROVE  DomTypeOK' /\ Iteration'
<1>1. /\ dfs = << >> /\ dpc' = "create_idom" /\ changed' = FALSE /\ pos' = 1
      /\ idom' = [b \in Block |-> IF b = Entry THEN Entry ELSE NoBlock]
      /\ UNCHANGED <<dfs, visited, postId, rpo, prd, newIdom, walker, frontier, domSucc>>
  BY DEF StartIdom
<1>2. /\ succ \in [Block -> Seq(Block)] /\ Entry \in Block /\ MaxBlocks \in Nat \ {0}
      /\ NoBlock \notin Block
  BY BlockFacts, AvoidFacts DEF GraphOK
<1>3. DomTypeOK'
  <2>1. idom' \in [Block -> MaybeBlock]
    BY <1>1, <1>2 DEF MaybeBlock
  <2>2. pos' \in 0..MaxBlocks + 1
    BY <1>1, <1>2
  <2>. QED
    BY <1>1, <2>1, <2>2 DEF DomTypeOK
<1>4. visited = Finished /\ Cardinality(visited) = Len(rpo) /\ visited \subseteq Reachable
      /\ Entry \in visited
  <2>1. Len(dfs) = 0 /\ Calling(Len(dfs)) = {} /\ Len(rpo) \in Nat
    BY <1>1 DEF Calling, DomTypeOK
  <2>. QED
    BY <2>1 DEF Traversal
<1>5. Finished = Reachable
  <2>1. Finished \in SUBSET Block
    BY <1>2, <1>4, ReachableFacts
  <2>2. \A b \in Finished : Succs(b) \subseteq Finished
    BY <1>4 DEF Traversal
  <2>3. Reachable \subseteq Finished
    BY <1>2, <1>4, <2>1, <2>2, ReachableFacts
  <2>. QED
    BY <1>4, <2>3
<1>6. Len(rpo) <= MaxBlocks /\ Len(rpo) \in Nat
  BY <1>2, <1>4, FewBlocks, ReachableFacts
<1>7. RpoOK'
  <2>1. ASSUME NEW p \in Reachable, NEW b \in Succs(p)
        PROVE  postId[b] < postId[p] \/ Dominates(b, p)
    <3>1. p \in Block /\ b \in Block
      BY <1>2, <2>1, ReachableFacts
    <3>2. lvl[p] < lvl[b] \/ Dominates(b, p)
      BY <2>1, <3>1 DEF Forward
    <3>. QED
      BY <1>5, <2>1, <3>2 DEF Traversal
  <2>2. Finished' = Finished /\ Numbered'
    BY <1>1 DEF Traversal, Numbered, Finished
  <2>. QED
    BY <1>1, <1>5, <1>6, <2>1, <2>2, GraphStays DEF RpoOK
<1>8. IdomOK'
  <2>1. Entry \in Reachable'
    BY <1>2, GraphStays, ReachableFacts
  <2>. QED
    BY <1>1, <1>2, <2>1 DEF IdomOK
<1>9. Covered'
  <2>1. \A i \in 1..Len(rpo) : ~(i < 1)
    OBVIOUS
  <2>2. 1 \in 1..Len(rpo) + 1
    BY <1>6
  <2>. QED
    BY <1>1, <2>1, <2>2 DEF Covered
<1>. QED
  BY <1>1, <1>3, <1>7, <1>8, <1>9 DEF Iteration
\* A step that leaves the order and the idoms alone.
LEMMA IdomStays ==
  ASSUME UNCHANGED graphVars, rpo' = rpo, postId' = postId, idom' = idom
  PROVE  /\ RpoOK => RpoOK'
         /\ IdomOK => IdomOK'
         /\ AllHaveIdom => AllHaveIdom'
         /\ \A d, b : Common(d, b) => Common(d, b)'
         /\ \A b : PickPred(b)' = PickPred(b)
         /\ \A d, b, n : Passed(d, b, n) => Passed(d, b, n)'
<1>1. RpoOK => RpoOK'
  BY GraphStays DEF RpoOK, Finished, Numbered
<1>2. \A d, b : IsIdom(d, b) => IsIdom(d, b)'
  BY GraphStays DEF IsIdom
<1>3. IdomOK => IdomOK'
  BY <1>2, GraphStays DEF IdomOK
<1>4. \A d, b : Common(d, b) => Common(d, b)'
  BY GraphStays DEF Common
<1>5. \A b : PickPred(b)' = PickPred(b)
  BY GraphStays DEF PickPred
<1>6. AllHaveIdom => AllHaveIdom'
  BY GraphStays DEF AllHaveIdom
<1>7. \A d, b, n : Passed(d, b, n) => Passed(d, b, n)'
  <2>. SUFFICES ASSUME NEW d, NEW b, NEW n, Passed(d, b, n),
                       NEW j \in 1..Len(pre[b]), j < n, idom[pre[b][j]] # NoBlock
                PROVE  Dominates(d, pre[b][j])'
    BY GraphStays DEF Passed
  <2>1. PICK x : x = pre[b][j]
    OBVIOUS
  <2>2. Dominates(d, x) /\ Dominates(d, x)'
    BY <2>1, GraphStays DEF Passed
  <2>. QED
    BY <2>1, <2>2, GraphStays
<1>. QED
  BY <1>1, <1>3, <1>4, <1>5, <1>6, <1>7

\* The block at pos, its predecessors and their idoms.
LEMMA AtBlock ==
  ASSUME GraphOK, DomTypeOK, RpoOK, IdomOK, Covered, pos <= Len(rpo)
  PROVE  LET b == rpo[pos]
         IN  /\ b \in Reachable /\ b \in Block /\ pos \in Nat \ {0} /\ pos \in 1..Len(rpo)
             /\ pre[b] \in Seq(Block) /\ Len(pre[b]) \in Nat
             /\ \A j \in 1..Len(pre[b]) : pre[b][j] \in Block /\ b \in Succs(pre[b][j])
             /\ \A j \in 1..Len(pre[b]) : idom[pre[b][j]] # NoBlock => pre[b][j] \in Reachable
             /\ \A p \in Block : b \in Succs(p) => \E j \in 1..Len(pre[b]) : p = pre[b][j]
             /\ \A p \in Reachable : b \in Succs(p) /\ ~Dominates(b, p) => idom[p] # NoBlock
<1>. DEFINE b == rpo[pos]
<1>1. Len(rpo) \in Nat /\ pos \in 1..Len(rpo) /\ b \in Reachable /\ b \in Block
      /\ postId[b] = Len(rpo) - pos
  BY Places DEF Covered
<1>. HIDE DEF b
<1>2. pre[b] \in Seq(Block)
  BY <1>1 DEF GraphOK
<1>3. \A j \in 1..Len(pre[b]) : pre[b][j] \in Block /\ b \in Succs(pre[b][j])
  BY <1>1, <1>2 DEF GraphOK, Preds, Range
<1>4. \A j \in 1..Len(pre[b]) : idom[pre[b][j]] # NoBlock => pre[b][j] \in Reachable
  BY <1>3 DEF IdomOK
<1>5. \A p \in Block : b \in Succs(p) => \E j \in 1..Len(pre[b]) : p = pre[b][j]
  BY <1>1, <1>2 DEF GraphOK, Preds, Range
<1>6. ASSUME NEW p \in Reachable, b \in Succs(p), ~Dominates(b, p)
      PROVE  idom[p] # NoBlock
  <2>1. postId[b] < postId[p]
    BY <1>6 DEF RpoOK
  <2>2. PICK i \in 1..Len(rpo) : p = rpo[i] /\ postId[p] = Len(rpo) - i
    BY Places
  <2>3. i < pos
    BY <1>1, <2>1, <2>2
  <2>. QED
    BY <2>2, <2>3 DEF Covered
<1>. QED
  BY <1>1, <1>2, <1>3, <1>4, <1>5, <1>6 DEF b

\* find one pred which has idom: there is one, the assertion holds.
LEMMA PickPredFinds ==
  ASSUME GraphOK, DomTypeOK, RpoOK, IdomOK, Covered, pos <= Len(rpo), rpo[pos] # Entry
  PROVE  LET b == rpo[pos]
         IN  /\ PickPred(b) \in Reachable /\ b \in Succs(PickPred(b))
             /\ idom[PickPred(b)] # NoBlock /\ PickPred(b) # NoBlock
<1>. DEFINE b    == rpo[pos]
            with == {i \in DOMAIN pre[b] : idom[pre[b][i]] # NoBlock}
<1>1. /\ b \in Reachable /\ pre[b] \in Seq(Block) /\ NoBlock \notin Block
      /\ \A j \in 1..Len(pre[b]) : pre[b][j] \in Block /\ b \in Succs(pre[b][j])
      /\ \A j \in 1..Len(pre[b]) : idom[pre[b][j]] # NoBlock => pre[b][j] \in Reachable
      /\ \A p \in Block : b \in Succs(p) => \E j \in 1..Len(pre[b]) : p = pre[b][j]
      /\ \A p \in Reachable : b \in Succs(p) /\ ~Dominates(b, p) => idom[p] # NoBlock
  BY AtBlock, BlockFacts
<1>2. PickPred(b) = IF with = {} THEN NoBlock
                    ELSE pre[b][CHOOSE i \in with : \A j \in with : i <= j]
  BY DEF PickPred
<1>3. b # Entry
  OBVIOUS
<1>. HIDE DEF b
<1>4. DOMAIN pre[b] = 1..Len(pre[b]) /\ Len(pre[b]) \in Nat
  BY <1>1
<1>5. with # {} /\ with \in SUBSET Nat
  <2>1. PICK p \in Reachable : b \in Succs(p) /\ ~Dominates(b, p)
    BY <1>1, <1>3, ForwardPred
  <2>2. p \in Block
    BY ReachableFacts DEF GraphOK
  <2>3. PICK j \in 1..Len(pre[b]) : p = pre[b][j]
    BY <1>1, <2>1, <2>2
  <2>4. j \in with
    BY <1>1, <1>4, <2>1, <2>3
  <2>. QED
    BY <1>4, <2>4
<1>6. \E i \in with : \A j \in with : i <= j
  BY <1>5, LeastNumber
<1>. DEFINE k == CHOOSE i \in with : \A j \in with : i <= j
<1>7. k \in with
  BY <1>6
<1>. HIDE DEF k
<1>8. PickPred(b) = pre[b][k] /\ k \in 1..Len(pre[b]) /\ idom[pre[b][k]] # NoBlock
  BY <1>2, <1>4, <1>5, <1>7 DEF k
<1>9. PickPred(b) \in Reachable /\ b \in Succs(PickPred(b)) /\ idom[PickPred(b)] # NoBlock
      /\ PickPred(b) # NoBlock
  BY <1>1, <1>8
<1>. QED
  BY <1>9 DEF b

\* What dominates a block dominates its processed predecessors.
LEMMA PredIsCommon ==
  ASSUME GraphOK, NEW b, NEW p \in Reachable, b \in Succs(p), idom[p] # NoBlock
  PROVE  Common(p, b)
BY DominatesBefore DEF Common, GraphOK

\* The body of the for, up to the loop over the predecessors.
LEMMA EnterBlockKeeps ==
  ASSUME GraphOK, DomTypeOK, Iteration, EnterBlock, UNCHANGED graphVars
  PROVE  DomTypeOK' /\ Iteration'
<1>1. /\ dpc = "create_idom" /\ pos <= Len(rpo)
      /\ IF rpo[pos] = Entry
         THEN pos' = pos + 1 /\ UNCHANGED <<dpc, prd, newIdom>>
         ELSE dpc' = "next_pred" /\ newIdom' = PickPred(rpo[pos]) /\ prd' = 1 /\ pos' = pos
      /\ UNCHANGED <<dfs, visited, postId, rpo, idom, changed, walker, frontier, domSucc>>
  BY DEF EnterBlock, ProcessedPred
<1>2. RpoOK /\ IdomOK /\ Covered
  BY <1>1 DEF Iteration
<1>3. /\ rpo[pos] \in Reachable /\ pos \in 1..Len(rpo) /\ Len(rpo) \in Nat /\ Len(rpo) <= MaxBlocks
      /\ Reachable \subseteq Block /\ MaxBlocks \in Nat
  BY <1>1, <1>2, AtBlock, Places, BlockFacts DEF RpoOK
<1>4. RpoOK' /\ IdomOK'
  BY <1>1, <1>2, IdomStays
<1>5. CASE rpo[pos] = Entry
  <2>1. DomTypeOK'
    BY <1>1, <1>3, <1>5 DEF DomTypeOK
  <2>2. Covered'
    <3>1. idom[rpo[pos]] # NoBlock
      BY <1>2, <1>5, AvoidFacts DEF IdomOK, GraphOK
    <3>2. \A i \in 1..Len(rpo) : i < pos + 1 => i < pos \/ i = pos
      BY <1>3
    <3>3. \A i \in 1..Len(rpo) : i < pos => idom[rpo[i]] # NoBlock
      BY <1>2 DEF Covered
    <3>4. pos + 1 \in 1..Len(rpo) + 1
      BY <1>3
    <3>. QED
      BY <1>1, <1>5, <3>1, <3>2, <3>3, <3>4 DEF Covered
  <2>. QED
    BY <1>1, <1>4, <1>5, <2>1, <2>2 DEF Iteration
<1>6. CASE rpo[pos] # Entry
  <2>. DEFINE b == rpo[pos]
  <2>1. PickPred(b) \in Reachable /\ b \in Succs(PickPred(b)) /\ idom[PickPred(b)] # NoBlock
        /\ PickPred(b) # NoBlock
    BY <1>1, <1>2, <1>6, PickPredFinds
  <2>2. Common(PickPred(b), b) /\ Dominates(PickPred(b), PickPred(b))
    BY <2>1, PredIsCommon DEF Dominates
  <2>3. DomTypeOK'
    <3>1. newIdom' \in MaybeBlock /\ prd' \in Nat /\ pos' = pos
      BY <1>1, <1>3, <1>6, <2>1 DEF MaybeBlock
    <3>. QED
      BY <1>1, <1>6, <3>1 DEF DomTypeOK
  <2>4. Covered'
    BY <1>1, <1>2, <1>6 DEF Covered
  <2>5. rpo'[pos'] = b /\ newIdom' = PickPred(b) /\ prd' = 1 /\ dpc' = "next_pred" /\ pos' = pos
    BY <1>1, <1>6
  <2>. HIDE DEF b
  <2>6. PICK c, d : c = b /\ d = PickPred(b)
    OBVIOUS
  <2>7. Common(d, c)' /\ PickPred(c)' = d /\ Dominates(d, d)'
    BY <1>1, <2>2, <2>6, IdomStays, GraphStays
  <2>8. Passed(d, c, 1)'
    <3>1. \A j \in 1..Len(pre'[c]) : ~(j < 1)
      OBVIOUS
    <3>. QED
      BY <3>1 DEF Passed
  <2>9. b # Entry
    BY <1>6 DEF b
  <2>10. AtPred'
    BY <1>1, <1>3, <2>1, <2>5, <2>6, <2>7, <2>8, <2>9 DEF AtPred
  <2>. QED
    BY <1>4, <2>3, <2>4, <2>5, <2>10 DEF Iteration
<1>. QED
  BY <1>5, <1>6
\* intersect moves b to its idom, which is above all that is above both.
LEMMA UpKeepsCommon ==
  ASSUME GraphOK, DomTypeOK, RpoOK, IdomOK, NEW b \in Reachable, b # Entry,
         NEW d, Common(d, b), NEW e, Common(e, b), d # e, ~(postId[e] < postId[d])
  PROVE  /\ idom[d] \in Reachable /\ Common(idom[d], b)
         /\ \A p : Dominates(d, p) => Dominates(idom[d], p)
<1>1. /\ d \in Reachable /\ e \in Reachable /\ d \in Block /\ idom[d] # NoBlock
      /\ succ \in [Block -> Seq(Block)]
  BY ReachableFacts DEF Common, GraphOK
<1>2. CASE d = Entry
  <2>1. idom[d] = d
    BY <1>2 DEF IdomOK
  <2>. QED
    BY <1>1, <2>1
<1>3. CASE d # Entry
  <2>1. IsIdom(idom[d], d) /\ idom[idom[d]] # NoBlock
    BY <1>1, <1>3 DEF IdomOK
  <2>2. idom[d] \in Reachable /\ idom[d] \in Block /\ Dominates(idom[d], d)
    BY <1>1, <2>1, ReachableFacts DEF IsIdom
  <2>3. ASSUME NEW a \in Reachable, Dominates(a, b), a # b
        PROVE  Dominates(a, idom[d])
    <3>1. Dominates(a, d) /\ Dominates(a, e)
      BY <2>3 DEF Common
    <3>2. a # d
      <4>. SUFFICES ASSUME a = d PROVE FALSE
        OBVIOUS
      <4>1. postId[e] < postId[d]
        BY <1>1, <3>1, DominatorsAreLater
      <4>. QED
        BY <4>1
    <3>. QED
      BY <2>1, <2>3, <3>1, <3>2 DEF IsIdom
  <2>4. Common(idom[d], b)
    BY <2>1, <2>2, <2>3 DEF Common
  <2>5. \A p : Dominates(d, p) => Dominates(idom[d], p)
    BY <1>1, <2>2, DominatesTransitive
  <2>. QED
    BY <2>2, <2>4, <2>5
<1>. QED
  BY <1>2, <1>3

\* One predecessor: skipped, or handed to intersect.
LEMMA NextPredKeeps ==
  ASSUME GraphOK, DomTypeOK, Iteration, NextPred, UNCHANGED graphVars
  PROVE  DomTypeOK' /\ Iteration'
<1>. DEFINE b == rpo[pos]
            p == pre[b][prd]
<1>1. /\ dpc = "next_pred" /\ prd <= Len(pre[b])
      /\ IF p = PickPred(b) \/ idom[p] = NoBlock
         THEN prd' = prd + 1 /\ dpc' = dpc /\ walker' = walker
         ELSE walker' = p /\ dpc' = "intersect" /\ prd' = prd
      /\ UNCHANGED <<dfs, visited, postId, rpo, idom, changed, pos, newIdom, frontier, domSucc>>
  BY DEF NextPred, ProcessedPred
<1>2. RpoOK /\ IdomOK /\ Covered /\ AtPred
  BY <1>1 DEF Iteration
<1>3. /\ pos <= Len(rpo) /\ b # Entry /\ prd \in Nat \ {0} /\ Common(newIdom, b)
      /\ PickPred(b) # NoBlock /\ Dominates(newIdom, PickPred(b))
      /\ Passed(newIdom, b, prd)
  BY <1>2 DEF AtPred
<1>4. /\ b \in Reachable /\ Len(pre[b]) \in Nat
      /\ \A j \in 1..Len(pre[b]) : pre[b][j] \in Block /\ b \in Succs(pre[b][j])
      /\ \A j \in 1..Len(pre[b]) : idom[pre[b][j]] # NoBlock => pre[b][j] \in Reachable
  BY <1>2, <1>3, AtBlock
<1>5. prd \in 1..Len(pre[b]) /\ p \in Block /\ b \in Succs(p)
  BY <1>1, <1>3, <1>4
<1>6. RpoOK' /\ IdomOK' /\ Covered' /\ DomTypeOK'
  <2>1. Covered'
    BY <1>1, <1>2 DEF Covered
  <2>2. prd' \in Nat /\ dpc' \in {"next_pred", "intersect"} /\ walker' \in MaybeBlock
    <3>1. walker \in MaybeBlock /\ p \in MaybeBlock /\ prd + 1 \in Nat /\ prd \in Nat
      BY <1>3, <1>5 DEF DomTypeOK, MaybeBlock
    <3>. HIDE DEF b, p
    <3>. QED
      BY <1>1, <3>1
  <2>3. DomTypeOK'
    BY <1>1, <2>2 DEF DomTypeOK
  <2>. QED
    BY <1>1, <1>2, <2>1, <2>3, IdomStays
<1>7. PICK c, d, q, k : c = b /\ d = newIdom /\ q = p /\ k = PickPred(b)
  OBVIOUS
<1>. HIDE DEF b, p
<1>8. /\ rpo'[pos'] = c /\ newIdom' = d /\ pos' <= Len(rpo') /\ c # Entry
      /\ Common(d, c)' /\ PickPred(c)' = k /\ k # NoBlock /\ Dominates(d, k)'
  BY <1>1, <1>3, <1>7, IdomStays, GraphStays DEF b
<1>9. CASE p = PickPred(b) \/ idom[p] = NoBlock
  <2>1. Passed(d, c, prd + 1)
    <3>1. \A j \in 1..Len(pre[c]) : j < prd + 1 => j < prd \/ j = prd
      BY <1>3
    <3>2. idom[pre[c][prd]] # NoBlock => Dominates(d, pre[c][prd])
      BY <1>3, <1>7, <1>9 DEF p
    <3>. QED
      BY <1>3, <1>7, <3>1, <3>2 DEF Passed
  <2>2. PICK n : n = prd + 1
    OBVIOUS
  <2>2a. Passed(d, c, n)' /\ prd' = n
    BY <1>1, <1>9, <2>1, <2>2, IdomStays
  <2>3. prd' \in Nat \ {0} /\ dpc' = "next_pred"
    BY <1>1, <1>3, <1>9
  <2>4. AtPred'
    BY <1>8, <2>2a, <2>3 DEF AtPred
  <2>. QED
    BY <1>6, <2>3, <2>4 DEF Iteration
<1>10. CASE ~(p = PickPred(b) \/ idom[p] = NoBlock)
  <2>1. Common(p, b) /\ Dominates(p, p)
    <3>1. p \in Reachable
      BY <1>4, <1>5, <1>10 DEF p
    <3>. QED
      BY <1>5, <1>10, <3>1, PredIsCommon DEF Dominates
  <2>2. PICK n : n = prd
    OBVIOUS
  <2>2a. Passed(d, c, n)' /\ prd' = n
    BY <1>1, <1>3, <1>7, <1>10, <2>2, IdomStays
  <2>3. prd' \in Nat \ {0} /\ dpc' = "intersect" /\ prd' <= Len(pre'[c]) /\ walker' = q
        /\ pre'[c][prd'] = q
    BY <1>1, <1>3, <1>7, <1>10, GraphStays DEF p
  <2>4. Common(q, c)' /\ Dominates(q, q)'
    BY <1>1, <1>7, <2>1, IdomStays, GraphStays
  <2>5. AtPred'
    BY <1>8, <2>2a, <2>3, <2>4 DEF AtPred
  <2>. QED
    BY <1>6, <2>3, <2>5 DEF Iteration
<1>. QED
  BY <1>9, <1>10
\* One step of intersect: b1 or b2 moves up, and stays below what is above both.
LEMMA IntersectKeeps ==
  ASSUME GraphOK, DomTypeOK, Iteration, Intersect, UNCHANGED graphVars
  PROVE  DomTypeOK' /\ Iteration'
<1>. DEFINE b == rpo[pos]
<1>1. /\ dpc = "intersect" /\ walker # newIdom
      /\ IF postId[walker] < postId[newIdom]
         THEN idom[walker] # NoBlock /\ walker' = idom[walker] /\ newIdom' = newIdom
         ELSE idom[newIdom] # NoBlock /\ newIdom' = idom[newIdom] /\ walker' = walker
      /\ UNCHANGED <<dpc, dfs, visited, postId, rpo, idom, changed, pos, prd, frontier, domSucc>>
  BY DEF Intersect
<1>2. RpoOK /\ IdomOK /\ Covered /\ AtPred
  BY <1>1 DEF Iteration
<1>3. /\ pos <= Len(rpo) /\ b # Entry /\ prd \in Nat \ {0}
      /\ Common(newIdom, b) /\ Common(walker, b)
      /\ PickPred(b) # NoBlock /\ Dominates(newIdom, PickPred(b)) /\ Passed(newIdom, b, prd)
      /\ prd <= Len(pre[b]) /\ Dominates(walker, pre[b][prd])
  BY <1>1, <1>2 DEF AtPred
<1>4. b \in Reachable
  BY <1>2, <1>3, AtBlock
<1>5. walker \in Reachable /\ newIdom \in Reachable
      /\ postId[walker] \in Nat /\ postId[newIdom] \in Nat /\ Reachable \subseteq Block
  BY <1>2, <1>3, Places DEF Common
<1>6. PICK d, e, c, k : d = newIdom' /\ e = walker' /\ c = b /\ k = PickPred(b)
  OBVIOUS
<1>. HIDE DEF b
<1>7. /\ d \in Reachable /\ e \in Reachable /\ Common(d, c) /\ Common(e, c)
      /\ Dominates(d, k) /\ Passed(d, c, prd) /\ Dominates(e, pre[c][prd])
  <2>1. CASE postId[walker] < postId[newIdom]
    <3>1. ~(postId[newIdom] < postId[walker])
      BY <1>5, <2>1
    <3>2. /\ idom[walker] \in Reachable /\ Common(idom[walker], b)
          /\ \A p : Dominates(walker, p) => Dominates(idom[walker], p)
      BY <1>1, <1>2, <1>3, <1>4, <3>1, UpKeepsCommon
    <3>3. walker' = idom[walker] /\ newIdom' = newIdom
      BY <1>1, <2>1
    <3>. QED
      BY <1>3, <1>5, <1>6, <3>2, <3>3
  <2>2. CASE ~(postId[walker] < postId[newIdom])
    <3>1. /\ idom[newIdom] \in Reachable /\ Common(idom[newIdom], b)
          /\ \A p : Dominates(newIdom, p) => Dominates(idom[newIdom], p)
      BY <1>1, <1>2, <1>3, <1>4, <2>2, UpKeepsCommon
    <3>2. newIdom' = idom[newIdom] /\ walker' = walker
      BY <1>1, <2>2
    <3>3. Passed(idom[newIdom], b, prd)
      BY <1>3, <3>1 DEF Passed
    <3>. QED
      BY <1>3, <1>5, <1>6, <3>1, <3>2, <3>3
  <2>. QED
    BY <2>1, <2>2
<1>8. PICK n : n = prd
  OBVIOUS
<1>9. PICK q : q = pre[c][n]
  OBVIOUS
<1>10. /\ Common(d, c)' /\ Common(e, c)' /\ Passed(d, c, n)' /\ PickPred(c)' = k
       /\ Dominates(d, k)' /\ Dominates(e, q)'
  BY <1>1, <1>6, <1>7, <1>8, <1>9, IdomStays, GraphStays
<1>11. /\ rpo'[pos'] = c /\ prd' = n /\ pre'[c][n] = q /\ newIdom' = d /\ walker' = e
       /\ pos' <= Len(rpo') /\ c # Entry /\ n \in Nat \ {0} /\ k # NoBlock /\ n <= Len(pre'[c])
  BY <1>1, <1>3, <1>6, <1>8, <1>9, GraphStays DEF b
<1>12. AtPred'
  BY <1>10, <1>11 DEF AtPred
<1>13. Covered' /\ RpoOK' /\ IdomOK'
  BY <1>1, <1>2, IdomStays DEF Covered
<1>14. DomTypeOK'
  <2>1. newIdom' \in MaybeBlock /\ walker' \in MaybeBlock
    BY <1>5, <1>6, <1>7 DEF MaybeBlock
  <2>. QED
    BY <1>1, <2>1 DEF DomTypeOK
<1>. QED
  BY <1>1, <1>12, <1>13, <1>14 DEF Iteration

\* intersect returns: new_idom dominates this predecessor too.
LEMMA IntersectedKeeps ==
  ASSUME GraphOK, DomTypeOK, Iteration, Intersected, UNCHANGED graphVars
  PROVE  DomTypeOK' /\ Iteration'
<1>. DEFINE b == rpo[pos]
<1>1. /\ dpc = "intersect" /\ walker = newIdom /\ dpc' = "next_pred" /\ prd' = prd + 1
      /\ walker' = NoBlock
      /\ UNCHANGED <<dfs, visited, postId, rpo, idom, changed, pos, newIdom, frontier, domSucc>>
  BY DEF Intersected
<1>2. RpoOK /\ IdomOK /\ Covered /\ AtPred
  BY <1>1 DEF Iteration
<1>3. /\ pos <= Len(rpo) /\ b # Entry /\ prd \in Nat \ {0} /\ Common(newIdom, b)
      /\ PickPred(b) # NoBlock /\ Dominates(newIdom, PickPred(b)) /\ Passed(newIdom, b, prd)
      /\ prd <= Len(pre[b]) /\ Dominates(newIdom, pre[b][prd])
  BY <1>1, <1>2 DEF AtPred
<1>4. PICK d, c, k, n : d = newIdom /\ c = b /\ k = PickPred(b) /\ n = prd + 1
  OBVIOUS
<1>. HIDE DEF b
<1>5. Passed(d, c, n)
  <2>1. \A j \in 1..Len(pre[b]) : j < prd + 1 => j < prd \/ j = prd
    BY <1>3
  <2>. QED
    BY <1>3, <1>4, <2>1 DEF Passed
<1>6. Common(d, c)' /\ PickPred(c)' = k /\ Dominates(d, k)' /\ Passed(d, c, n)'
  BY <1>1, <1>3, <1>4, <1>5, IdomStays, GraphStays
<1>7. rpo'[pos'] = c /\ prd' = n /\ newIdom' = d /\ pos' <= Len(rpo') /\ c # Entry
      /\ n \in Nat \ {0} /\ k # NoBlock
  BY <1>1, <1>3, <1>4 DEF b
<1>8. AtPred'
  BY <1>1, <1>6, <1>7 DEF AtPred
<1>9. Covered' /\ RpoOK' /\ IdomOK'
  BY <1>1, <1>2, IdomStays DEF Covered
<1>10. DomTypeOK'
  <2>1. prd' \in Nat /\ walker' \in MaybeBlock
    BY <1>1, <1>3 DEF MaybeBlock
  <2>. QED
    BY <1>1, <2>1 DEF DomTypeOK
<1>. QED
  BY <1>1, <1>8, <1>9, <1>10 DEF Iteration
\* set_idom: new_idom is the immediate dominator.
LEMMA NewIdomIsIdom ==
  ASSUME GraphOK, DomTypeOK, RpoOK, IdomOK, Covered, AtPred, prd > Len(pre[rpo[pos]])
  PROVE  IsIdom(newIdom, rpo[pos]) /\ idom[newIdom] # NoBlock
<1>. DEFINE b == rpo[pos]
<1>1. /\ pos <= Len(rpo) /\ b # Entry /\ prd \in Nat \ {0} /\ Common(newIdom, b)
      /\ Passed(newIdom, b, prd) /\ prd > Len(pre[b])
  BY DEF AtPred
<1>2. /\ b \in Reachable /\ b \in Block /\ Len(pre[b]) \in Nat
      /\ \A p \in Block : b \in Succs(p) => \E j \in 1..Len(pre[b]) : p = pre[b][j]
      /\ \A p \in Reachable : b \in Succs(p) /\ ~Dominates(b, p) => idom[p] # NoBlock
  BY <1>1, AtBlock
<1>. HIDE DEF b
<1>3. ASSUME NEW p \in Reachable, b \in Succs(p), ~Dominates(b, p)
      PROVE  Dominates(newIdom, p)
  <2>1. idom[p] # NoBlock /\ p \in Block
    BY <1>2, <1>3, ReachableFacts DEF GraphOK
  <2>2. PICK j \in 1..Len(pre[b]) : p = pre[b][j]
    BY <1>2, <1>3, <2>1
  <2>3. j < prd
    BY <1>1, <1>2
  <2>. QED
    BY <1>1, <2>1, <2>2, <2>3 DEF Passed
<1>4. Dominates(newIdom, b)
  BY <1>1, <1>2, <1>3, DominatesAfter DEF GraphOK
<1>5. newIdom # b
  <2>1. PICK p \in Reachable : b \in Succs(p) /\ ~Dominates(b, p)
    BY <1>1, <1>2, ForwardPred
  <2>. QED
    BY <1>3, <2>1
<1>6. IsIdom(newIdom, b) /\ idom[newIdom] # NoBlock
  BY <1>1, <1>4, <1>5 DEF IsIdom, Common
<1>. QED
  BY <1>6 DEF b

\* The block gets its idom, and the next block is entered.
LEMMA SetIdomKeeps ==
  ASSUME GraphOK, DomTypeOK, Iteration, SetIdom, UNCHANGED graphVars
  PROVE  DomTypeOK' /\ Iteration'
<1>. DEFINE b == rpo[pos]
<1>1. /\ dpc = "next_pred" /\ prd > Len(pre[b]) /\ dpc' = "create_idom"
      /\ idom' = [idom EXCEPT ![b] = newIdom] /\ changed' = (changed \/ idom[b] # newIdom)
      /\ pos' = pos + 1 /\ newIdom' = NoBlock /\ prd' = 0
      /\ UNCHANGED <<dfs, visited, postId, rpo, walker, frontier, domSucc>>
  BY DEF SetIdom
<1>2. RpoOK /\ IdomOK /\ Covered /\ AtPred
  BY <1>1 DEF Iteration
<1>3. IsIdom(newIdom, b) /\ idom[newIdom] # NoBlock
  BY <1>1, <1>2, NewIdomIsIdom
<1>4. /\ b \in Reachable /\ b \in Block /\ b # Entry /\ pos \in 1..Len(rpo) /\ Len(rpo) \in Nat
      /\ Len(rpo) <= MaxBlocks /\ MaxBlocks \in Nat /\ Reachable \subseteq Block
  BY <1>2, AtBlock, BlockFacts, Places DEF AtPred, RpoOK
<1>5. newIdom \in Reachable /\ newIdom \in Block /\ newIdom # b /\ newIdom # NoBlock
  BY <1>3, <1>4, BlockFacts DEF IsIdom
<1>5a. idom \in [Block -> MaybeBlock] /\ changed \in BOOLEAN
  BY DEF DomTypeOK
<1>6. DomTypeOK'
  <2>1. idom' \in [Block -> MaybeBlock] /\ changed' \in BOOLEAN /\ pos' \in 0..MaxBlocks + 1
        /\ newIdom' \in MaybeBlock /\ prd' \in Nat
    <3>1. newIdom \in MaybeBlock /\ NoBlock \in MaybeBlock /\ pos + 1 \in 0..MaxBlocks + 1
      BY <1>4, <1>5 DEF MaybeBlock
    <3>. QED
      BY <1>1, <1>5a, <3>1
  <2>. QED
    BY <1>1, <2>1 DEF DomTypeOK
<1>7. /\ idom'[b] = newIdom
      /\ \A c \in Block : c # b => idom'[c] = idom[c]
      /\ \A c \in Block : idom[c] # NoBlock => idom'[c] # NoBlock
  BY <1>1, <1>4, <1>5, <1>5a
<1>8. RpoOK'
  BY <1>1, <1>2, GraphStays DEF RpoOK, Finished, Numbered
<1>9. \A c, d : IsIdom(d, c) => IsIdom(d, c)'
  BY GraphStays DEF IsIdom
<1>. HIDE DEF b
<1>10. IdomOK'
  <2>1. idom'[Entry] = Entry
    BY <1>2, <1>4, <1>7, AvoidFacts DEF IdomOK, GraphOK
  <2>2. ASSUME NEW c \in Block, idom'[c] # NoBlock
        PROVE  c \in Reachable' /\ (c # Entry => IsIdom(idom[c], c)' /\ idom'[idom'[c]] # NoBlock)
    <3>1. PICK d : d = idom'[c]
      OBVIOUS
    <3>2. c \in Reachable /\ (c # Entry => IsIdom(d, c) /\ idom[d] # NoBlock)
      BY <1>2, <1>3, <1>4, <1>7, <2>2, <3>1 DEF IdomOK
    <3>3. c # Entry => d \in Block
      BY <1>4, <3>2 DEF IsIdom
    <3>4. c # Entry => IsIdom(d, c)' /\ idom'[d] # NoBlock
      BY <1>7, <1>9, <3>2, <3>3
    <3>. QED
      BY <3>1, <3>2, <3>4, GraphStays
  <2>. QED
    BY <2>1, <2>2 DEF IdomOK
<1>11. Covered'
  <2>1. pos' \in 1..Len(rpo') + 1
    BY <1>1, <1>4
  <2>2. ASSUME NEW i \in 1..Len(rpo), i < pos + 1
        PROVE  idom'[rpo[i]] # NoBlock
    <3>1. rpo[i] \in Block
      BY <1>2, <1>4, Places
    <3>2. i < pos \/ i = pos
      BY <1>4, <2>2
    <3>. QED
      BY <1>2, <1>5, <1>7, <3>1, <3>2 DEF Covered, b
  <2>. QED
    BY <1>1, <2>1, <2>2 DEF Covered
<1>. QED
  BY <1>1, <1>6, <1>8, <1>10, <1>11 DEF Iteration

\* The end of a pass over the blocks: all have their idom, after the first.
LEMMA EndPassKeeps ==
  ASSUME GraphOK, DomTypeOK, Iteration, EndPass, UNCHANGED graphVars
  PROVE  DomTypeOK' /\ Iteration'
<1>1. /\ dpc = "create_idom" /\ pos > Len(rpo) /\ changed' = FALSE /\ pos' = 1
      /\ dpc' \in {"create_idom", "create_dominance_frontier"} /\ prd' \in {prd, 0}
      /\ UNCHANGED <<dfs, visited, postId, rpo, idom, newIdom, walker, frontier, domSucc>>
  BY DEF EndPass
<1>2. RpoOK /\ IdomOK /\ Covered
  BY <1>1 DEF Iteration
<1>3. AllHaveIdom
  <2>1. ASSUME NEW b \in Reachable PROVE idom[b] # NoBlock
    <3>1. PICK i \in 1..Len(rpo) : b = rpo[i]
      BY <1>2, Places
    <3>2. Len(rpo) \in Nat /\ pos \in 1..Len(rpo) + 1
      BY <1>2, Places DEF Covered
    <3>3. i < pos
      BY <1>1, <3>2
    <3>. QED
      BY <1>2, <3>1, <3>3 DEF Covered
  <2>. QED
    BY <2>1 DEF AllHaveIdom
<1>4. DomTypeOK'
  <2>1. prd' \in Nat /\ pos' \in 0..MaxBlocks + 1 /\ changed' \in BOOLEAN
    <3>1. 0 \in Nat /\ 1 \in 0..MaxBlocks + 1 /\ prd \in Nat /\ FALSE \in BOOLEAN
      BY BlockFacts DEF DomTypeOK
    <3>. QED
      BY <1>1, <3>1
  <2>. QED
    BY <1>1, <2>1 DEF DomTypeOK
<1>5. RpoOK' /\ IdomOK' /\ AllHaveIdom'
  BY <1>1, <1>2, <1>3, IdomStays
<1>6. dpc' = "create_idom" => Covered'
  <2>1. Len(rpo') \in Nat
    BY <1>1, <1>2, Places
  <2>2. 1 \in 1..Len(rpo') + 1 /\ \A i \in 1..Len(rpo') : ~(i < 1)
    BY <2>1
  <2>. QED
    BY <1>1, <2>2 DEF Covered
<1>. QED
  BY <1>1, <1>4, <1>5, <1>6 DEF Iteration
----------------------------------------------------------------------------
(***************************************************************************)
(* The steps of create_dominance_frontier and create_dom_tree_succ.        *)
(***************************************************************************)
\* The idom of a reachable block, and of one that is not.
LEMMA IdomFacts ==
  ASSUME GraphOK, DomTypeOK, IdomOK, AllHaveIdom, NEW b \in Block
  PROVE  /\ b \notin Reachable => idom[b] = NoBlock
         /\ b \in Reachable => idom[b] \in Reachable /\ idom[b] \in Block /\ Dominates(idom[b], b)
         /\ b \in Reachable /\ b # Entry => IsIdom(idom[b], b)
         /\ idom[Entry] = Entry
<1>1. /\ b \in Reachable /\ b # Entry => IsIdom(idom[b], b)
      /\ idom[Entry] = Entry
      /\ b \notin Reachable => idom[b] = NoBlock
  BY DEF IdomOK, AllHaveIdom
<1>2. Entry \in Reachable /\ Reachable \subseteq Block /\ Dominates(Entry, Entry)
  BY ReachableFacts DEF GraphOK, Dominates
<1>. QED
  BY <1>1, <1>2 DEF IsIdom

\* A join that a reachable block branches to.
LEMMA JoinFacts ==
  ASSUME GraphOK, DomTypeOK, IdomOK, AllHaveIdom, NEW p \in Reachable, NEW j \in Succs(p)
  PROVE  /\ j \in Reachable /\ j \in Block /\ j # Entry
         /\ IsIdom(idom[j], j) /\ Dominates(idom[j], p)
<1>1. p \in Block /\ j \in Reachable /\ j \in Block /\ j # Entry
  BY ReachableFacts DEF GraphOK
<1>2. IsIdom(idom[j], j)
  BY <1>1, IdomFacts
<1>3. Dominates(idom[j], p)
  BY <1>1, <1>2, DominatesBefore DEF IsIdom, GraphOK
<1>. QED
  BY <1>1, <1>2, <1>3

\* runner = p.
LEMMA WalkStarts ==
  ASSUME GraphOK, DomTypeOK, IdomOK, AllHaveIdom, NEW p \in Block, NEW j \in Succs(p)
  PROVE  AtWalk(p, j, p) /\ Trail(p, j, p) = {}
<1>1. p \in Reachable => Dominates(idom[j], p) /\ Dominates(p, p)
  BY JoinFacts DEF Dominates
<1>. QED
  BY <1>1 DEF AtWalk, Trail, Walk

\* runner = get_idom(runner): it has passed one block more.
LEMMA WalkGoesOn ==
  ASSUME GraphOK, DomTypeOK, IdomOK, AllHaveIdom, NEW p \in Block, NEW j \in Succs(p),
         NEW w, AtWalk(p, j, w), w # idom[j]
  PROVE  /\ AtWalk(p, j, IdomOf(w))
         /\ \A b \in Block : b \in Trail(p, j, IdomOf(w)) <=> b \in Trail(p, j, w) \/ b = w
<1>1. succ \in [Block -> Seq(Block)] /\ Reachable \subseteq Block /\ NoBlock \notin Block
  BY ReachableFacts, BlockFacts DEF GraphOK
<1>2. CASE p \notin Reachable
  <2>1. w \in {p, NoBlock} /\ IdomOf(w) = NoBlock
    BY <1>2, IdomFacts DEF AtWalk, IdomOf
  <2>. QED
    BY <1>1, <1>2, <2>1 DEF AtWalk, Trail
<1>3. CASE p \in Reachable
  <2>1. w \in Reachable /\ w \in Block /\ Dominates(w, p) /\ Dominates(idom[j], w)
    BY <1>1, <1>3 DEF AtWalk
  <2>2. /\ j \in Reachable /\ j \in Block /\ IsIdom(idom[j], j) /\ idom[j] \in Block
        /\ idom[j] \in Reachable
    BY <1>1, <1>3, JoinFacts DEF IsIdom
  <2>3. w # Entry
    BY <1>1, <2>1, EntryDominates
  <2>4. /\ IsIdom(idom[w], w) /\ idom[w] \in Reachable /\ idom[w] \in Block /\ Dominates(idom[w], w)
        /\ IdomOf(w) = idom[w] /\ idom[w] # w
    BY <1>1, <2>1, <2>3, IdomFacts DEF IdomOf, IsIdom
  <2>5. Dominates(idom[w], p)
    BY <1>1, <2>1, <2>4, DominatesTransitive
  <2>6. Dominates(idom[j], idom[w])
    BY <2>1, <2>2, <2>4 DEF IsIdom
  <2>7. w \in Walk(p, j)
    <3>1. ASSUME Dominates(w, j), w # j
          PROVE  FALSE
      <4>1. Dominates(w, idom[j])
        BY <2>1, <2>2, <3>1 DEF IsIdom
      <4>2. w = idom[j]
        BY <1>1, <2>1, <2>2, <4>1, DominatesOneWay
      <4>. QED
        BY <4>2
    <3>. QED
      BY <1>3, <2>1, <3>1 DEF Walk
  <2>8. ~Dominates(w, idom[w])
    BY <1>1, <2>1, <2>4, DominatesOneWay
  <2>9. ASSUME NEW a \in Walk(p, j), ~Dominates(a, w)
        PROVE  ~Dominates(a, idom[w])
    BY <1>1, <2>4, <2>9, DominatesTransitive
  <2>10. ASSUME NEW a \in Walk(p, j), ~Dominates(a, idom[w]), a # w
         PROVE  ~Dominates(a, w)
    <3>1. a \in Reachable
      BY <1>3 DEF Walk
    <3>. QED
      BY <2>4, <2>10, <3>1 DEF IsIdom
  <2>. QED
    BY <1>3, <2>4, <2>5, <2>6, <2>7, <2>8, <2>9, <2>10 DEF AtWalk, Trail
<1>. QED
  BY <1>2, <1>3

\* while (runner != get_idom(bb)) ends: it has passed all.
LEMMA WalkEnds ==
  ASSUME GraphOK, DomTypeOK, IdomOK, AllHaveIdom, NEW p \in Block, NEW j \in Succs(p),
         AtWalk(p, j, idom[j])
  PROVE  Trail(p, j, idom[j]) = Walk(p, j)
<1>1. succ \in [Block -> Seq(Block)] /\ Reachable \subseteq Block /\ NoBlock \notin Block
  BY ReachableFacts, BlockFacts DEF GraphOK
<1>2. CASE p \notin Reachable
  <2>1. j \in Block
    BY <1>1 DEF Succs, Range
  <2>2. idom[j] # p
    BY <1>1, <1>2, <2>1, IdomFacts
  <2>. QED
    BY <1>2, <2>2 DEF Trail, Walk
<1>3. CASE p \in Reachable
  <2>1. /\ j \in Reachable /\ j \in Block /\ IsIdom(idom[j], j) /\ idom[j] \in Block
        /\ idom[j] \in Reachable /\ Dominates(idom[j], j) /\ idom[j] # j
    BY <1>1, <1>3, JoinFacts DEF IsIdom
  <2>2. ASSUME NEW a \in Walk(p, j), Dominates(a, idom[j])
        PROVE  FALSE
    <3>1. Dominates(a, j)
      BY <1>1, <2>1, <2>2, DominatesTransitive
    <3>2. a = j
      BY <1>3, <3>1 DEF Walk
    <3>3. j = idom[j]
      BY <1>1, <2>1, <2>2, <3>2, DominatesOneWay
    <3>. QED
      BY <2>1, <3>3
  <2>. QED
    BY <1>3, <2>2 DEF Trail
<1>. QED
  BY <1>2, <1>3
\* A step that leaves the idoms alone.
LEMMA WalksStay ==
  ASSUME UNCHANGED graphVars, idom' = idom
  PROVE  /\ Joins' = Joins
         /\ \A p, j : Walk(p, j)' = Walk(p, j)
         /\ \A p, j, w : AtWalk(p, j, w)' <=> AtWalk(p, j, w)
         /\ \A p, j, w : Trail(p, j, w)' = Trail(p, j, w)
         /\ \A b, j, m, n : Passes(b, j, m, n)' <=> Passes(b, j, m, n)
<1>1. Joins' = Joins
  BY GraphStays DEF Joins
<1>2. \A p, j : Walk(p, j)' = Walk(p, j)
  BY GraphStays DEF Walk
<1>3. \A p, j, w : AtWalk(p, j, w)' <=> AtWalk(p, j, w)
  BY GraphStays DEF AtWalk
<1>4. \A p, j, w : Trail(p, j, w)' = Trail(p, j, w)
  BY <1>2, GraphStays DEF Trail
<1>5. \A b, j, m, n : Passes(b, j, m, n)' <=> Passes(b, j, m, n)
  <2>. TAKE b, j, m, n
  <2>1. \A k : b \in Walk(pre[j][k], j)' <=> b \in Walk(pre[j][k], j)
    <3>. TAKE k
    <3>1. PICK p : p = pre[j][k]
      OBVIOUS
    <3>2. Walk(p, j)' = Walk(p, j)
      BY <1>2
    <3>. QED
      BY <3>1, <3>2, GraphStays
  <2>. QED
    BY <1>1, <2>1, GraphStays DEF Passes
<1>. QED
  BY <1>1, <1>2, <1>3, <1>4, <1>5

\* A join and one of its predecessors.
LEMMA JoinPreds ==
  ASSUME GraphOK, NEW j \in Joins
  PROVE  /\ j \in Block /\ j \in Nat /\ Len(pre[j]) \in Nat
         /\ \A k \in 1..Len(pre[j]) : pre[j][k] \in Block /\ j \in Succs(pre[j][k])
         /\ \A p \in Block : j \in Succs(p) => \E k \in 1..Len(pre[j]) : p = pre[j][k]
<1>1. j \in Block /\ j \in Nat
  BY BlockFacts DEF Joins, GraphOK
<1>2. pre[j] \in Seq(Block)
  BY <1>1 DEF GraphOK
<1>3. \A k \in 1..Len(pre[j]) : pre[j][k] \in Block /\ pre[j][k] \in Preds(j)
  BY <1>2 DEF Preds, Range
<1>4. \A p \in Preds(j) : \E k \in 1..Len(pre[j]) : p = pre[j][k]
  BY <1>2 DEF Preds, Range
<1>5. \A p \in Block : j \in Succs(p) <=> p \in Preds(j)
  BY <1>1 DEF GraphOK
<1>6. \A k \in 1..Len(pre[j]) : pre[j][k] \in Block /\ j \in Succs(pre[j][k])
  BY <1>3, <1>5
<1>7. \A p \in Block : j \in Succs(p) => \E k \in 1..Len(pre[j]) : p = pre[j][k]
  BY <1>4, <1>5
<1>8. Len(pre[j]) \in Nat
  BY <1>2
<1>. QED
  BY <1>1, <1>6, <1>7, <1>8

\* The next predecessor of a join, or the next block.
LEMMA NextFrontierPredKeeps ==
  ASSUME GraphOK, DomTypeOK, Iteration, FrontierOK, NextFrontierPred, UNCHANGED graphVars
  PROVE  DomTypeOK' /\ Iteration' /\ FrontierOK'
<1>1. /\ dpc = "create_dominance_frontier" /\ pos <= MaxBlocks
      /\ IF pos \in bbs /\ Len(pre[pos]) >= 2 /\ prd < Len(pre[pos])
         THEN /\ prd' = prd + 1 /\ walker' = pre[pos][prd + 1]
              /\ dpc' = "runner" /\ pos' = pos
         ELSE pos' = pos + 1 /\ prd' = 0 /\ walker' = walker /\ dpc' = dpc
      /\ UNCHANGED <<dfs, visited, postId, rpo, idom, changed, newIdom, frontier, domSucc>>
  BY DEF NextFrontierPred
<1>2. /\ pos \in 1..MaxBlocks + 1 /\ prd \in Nat /\ MaxBlocks \in Nat
      /\ \A b, j \in Block : j \in frontier[b] <=> Passes(b, j, pos, prd)
  BY <1>1, BlockFacts DEF FrontierOK, DomTypeOK
<1>3. RpoOK /\ IdomOK /\ AllHaveIdom
  BY <1>1 DEF Iteration
<1>4. RpoOK' /\ IdomOK' /\ AllHaveIdom'
  BY <1>1, <1>3, IdomStays
<1>5. \A j \in Block : j \in Nat
  BY BlockFacts
<1>6. CASE pos \in Joins /\ prd < Len(pre[pos])
  <2>1. prd' = prd + 1 /\ walker' = pre[pos][prd + 1] /\ dpc' = "runner" /\ pos' = pos
    BY <1>1, <1>6 DEF Joins
  <2>2. PICK m, n, p : m = pos /\ n = prd + 1 /\ p = pre[pos][prd + 1]
    OBVIOUS
  <2>3. n \in 1..Len(pre[m]) /\ n \in Nat /\ n - 1 = prd
    BY <1>2, <1>6, <2>2, JoinPreds
  <2>4. p \in Block /\ m \in Succs(p) /\ m \in Block /\ p = pre[m][n]
    BY <1>6, <2>2, <2>3, JoinPreds
  <2>5. AtWalk(p, m, p) /\ Trail(p, m, p) = {}
    BY <1>3, <2>4, WalkStarts
  <2>6. AtWalk(p, m, p)' /\ Trail(p, m, p)' = {} /\ m \in Joins'
    BY <1>1, <1>6, <2>2, <2>5, WalksStay
  <2>7. \A b, j \in Block : j \in frontier'[b] <=> Passes(b, j, m, n - 1)'
    BY <1>1, <1>2, <2>2, <2>3, WalksStay
  <2>8. pos' = m /\ prd' = n /\ walker' = p /\ pre'[m][n] = p /\ Len(pre'[m]) = Len(pre[m])
    BY <2>1, <2>2, <2>4, GraphStays
  <2>9. FrontierOK'
    BY <2>1, <2>3, <2>6, <2>7, <2>8 DEF FrontierOK
  <2>10. DomTypeOK'
    <3>1. prd' \in Nat /\ walker' \in MaybeBlock /\ pos' = pos
      BY <2>1, <2>2, <2>3, <2>4 DEF MaybeBlock
    <3>. QED
      BY <1>1, <2>1, <3>1 DEF DomTypeOK
  <2>. QED
    BY <1>4, <2>1, <2>9, <2>10 DEF Iteration
<1>7. CASE ~(pos \in Joins /\ prd < Len(pre[pos]))
  <2>1. pos' = pos + 1 /\ prd' = 0 /\ walker' = walker /\ dpc' = dpc
    BY <1>1, <1>7 DEF Joins
  <2>2. PICK m : m = pos + 1
    OBVIOUS
  <2>3. ASSUME NEW b \in Block, NEW j \in Block
        PROVE  Passes(b, j, pos, prd) <=> Passes(b, j, m, 0)
    <3>1. ASSUME j \in Joins, NEW k \in 1..Len(pre[j])
          PROVE  (j < pos \/ (j = pos /\ k <= prd)) <=> (j < m \/ (j = m /\ k <= 0))
      <4>1. Len(pre[j]) \in Nat /\ j \in Nat
        BY <3>1, JoinPreds
      <4>2. j = pos => prd >= Len(pre[j])
        BY <1>2, <1>7, <3>1, <4>1
      <4>. QED
        BY <1>2, <2>2, <4>1, <4>2
    <3>. QED
      BY <3>1 DEF Passes
  <2>4. \A b, j \in Block : j \in frontier'[b] <=> Passes(b, j, m, 0)'
    BY <1>1, <1>2, <2>3, WalksStay
  <2>5. pos' = m /\ m \in 1..MaxBlocks + 1 /\ m \in 0..MaxBlocks + 1
    BY <1>1, <1>2, <2>1, <2>2
  <2>6. FrontierOK'
    BY <1>1, <2>1, <2>4, <2>5 DEF FrontierOK
  <2>7. DomTypeOK'
    BY <1>1, <2>1, <2>5 DEF DomTypeOK
  <2>. QED
    BY <1>1, <1>4, <2>1, <2>6, <2>7 DEF Iteration
<1>. QED
  BY <1>6, <1>7

\* One turn of while (runner != get_idom(bb)), or its end.
LEMMA RunnerKeeps ==
  ASSUME GraphOK, DomTypeOK, Iteration, FrontierOK, Runner, UNCHANGED graphVars
  PROVE  DomTypeOK' /\ Iteration' /\ FrontierOK'
<1>1. /\ dpc = "runner"
      /\ IF walker # IdomOf(pos)
         THEN /\ frontier' = [frontier EXCEPT ![walker] = @ \cup {pos}]
              /\ walker' = IdomOf(walker) /\ dpc' = dpc
         ELSE dpc' = "create_dominance_frontier" /\ walker' = NoBlock /\ frontier' = frontier
      /\ UNCHANGED <<dfs, visited, postId, rpo, idom, changed, pos, prd, newIdom, domSucc>>
  BY DEF Runner, RunnerGoesOn
<1>2. PICK m, n, p, w : m = pos /\ n = prd /\ p = pre[pos][prd] /\ w = walker
  OBVIOUS
<1>3. /\ m \in Joins /\ n \in 1..Len(pre[m]) /\ AtWalk(p, m, w) /\ p = pre[m][n]
      /\ \A b, j \in Block : j \in frontier[b] <=> \/ Passes(b, j, m, n - 1)
                                                   \/ j = m /\ b \in Trail(p, m, w)
  BY <1>1, <1>2 DEF FrontierOK
<1>4. RpoOK /\ IdomOK /\ AllHaveIdom
  BY <1>1 DEF Iteration
<1>5. RpoOK' /\ IdomOK' /\ AllHaveIdom'
  BY <1>1, <1>4, IdomStays
<1>6. m \in Block /\ p \in Block /\ m \in Succs(p) /\ IdomOf(m) = idom[m] /\ n \in Nat
      /\ MaxBlocks \in Nat
  BY <1>3, JoinPreds, BlockFacts DEF IdomOf
<1>7. /\ frontier \in [MaybeBlock -> SUBSET Block] /\ w \in MaybeBlock
      /\ IdomOf(w) \in MaybeBlock /\ Block \subseteq MaybeBlock
  BY <1>2, BlockFacts DEF DomTypeOK, IdomOf, MaybeBlock
<1>8. CASE w # idom[m]
  <2>1. /\ frontier' = [frontier EXCEPT ![w] = @ \cup {m}] /\ walker' = IdomOf(w) /\ dpc' = "runner"
        /\ pos' = m /\ prd' = n /\ pre'[m][n] = p /\ Len(pre'[m]) = Len(pre[m])
    BY <1>1, <1>2, <1>6, <1>8, GraphStays
  <2>2. PICK v : v = IdomOf(w)
    OBVIOUS
  <2>3. AtWalk(p, m, v) /\ \A b \in Block : b \in Trail(p, m, v) <=> b \in Trail(p, m, w) \/ b = w
    BY <1>3, <1>4, <1>6, <1>8, <2>2, WalkGoesOn
  <2>4. \A b, j \in Block : j \in frontier'[b] <=> j \in frontier[b] \/ (b = w /\ j = m)
    BY <1>7, <2>1
  <2>5. \A b, j \in Block : j \in frontier'[b] <=> \/ Passes(b, j, m, n - 1)
                                                   \/ j = m /\ b \in Trail(p, m, v)
    BY <1>3, <2>3, <2>4
  <2>6. \A b, j \in Block : j \in frontier'[b] <=> \/ Passes(b, j, m, n - 1)'
                                                   \/ j = m /\ b \in Trail(p, m, v)'
    BY <1>1, <2>5, WalksStay
  <2>7. AtWalk(p, m, v)' /\ m \in Joins'
    BY <1>1, <1>3, <2>3, WalksStay
  <2>8. FrontierOK'
    BY <1>3, <2>1, <2>2, <2>6, <2>7 DEF FrontierOK
  <2>9. DomTypeOK'
    <3>1. frontier' \in [MaybeBlock -> SUBSET Block] /\ walker' \in MaybeBlock
      BY <1>6, <1>7, <2>1
    <3>. QED
      BY <1>1, <2>1, <3>1 DEF DomTypeOK
  <2>. QED
    BY <1>5, <2>1, <2>8, <2>9 DEF Iteration
<1>9. CASE w = idom[m]
  <2>1. /\ frontier' = frontier /\ walker' = NoBlock /\ dpc' = "create_dominance_frontier"
        /\ pos' = m /\ prd' = n
    BY <1>1, <1>2, <1>6, <1>9
  <2>2. Trail(p, m, w) = Walk(p, m)
    BY <1>3, <1>4, <1>6, <1>9, WalkEnds
  <2>3. ASSUME NEW b \in Block, NEW j \in Block
        PROVE  Passes(b, j, m, n) <=> Passes(b, j, m, n - 1) \/ (j = m /\ b \in Walk(p, m))
    <3>1. ASSUME NEW k \in 1..Len(pre[j])
          PROVE  j = m /\ k <= n <=> (j = m /\ k <= n - 1) \/ (j = m /\ k = n)
      BY <1>6
    <3>. QED
      BY <1>3, <3>1 DEF Passes
  <2>4. \A b, j \in Block : j \in frontier'[b] <=> Passes(b, j, m, n)'
    BY <1>1, <1>3, <2>1, <2>2, <2>3, WalksStay
  <2>5. m \in 1..MaxBlocks + 1
    BY <1>6 DEF Block
  <2>6. FrontierOK'
    BY <2>1, <2>4, <2>5 DEF FrontierOK
  <2>7. DomTypeOK'
    <3>1. walker' \in MaybeBlock
      BY <2>1 DEF MaybeBlock
    <3>. QED
      BY <1>1, <2>1, <3>1 DEF DomTypeOK
  <2>. QED
    BY <1>5, <2>1, <2>6, <2>7 DEF Iteration
<1>. QED
  BY <1>8, <1>9

\* create_dom_tree_succ.
LEMMA BuildDomTreeKeeps ==
  ASSUME GraphOK, DomTypeOK, Iteration, FrontierOK, BuildDomTree, UNCHANGED graphVars
  PROVE  DomTypeOK' /\ Iteration' /\ FrontierOK'
<1>1. /\ dpc = "create_dominance_frontier" /\ pos > MaxBlocks /\ dpc' = "end"
      /\ domSucc' = [d \in MaybeBlock |-> {b \in bbs : idom[b] = d /\ idom[b] # b}]
      /\ UNCHANGED <<dfs, visited, postId, rpo, idom, changed, pos, prd, newIdom, walker, frontier>>
  BY DEF BuildDomTree
<1>2. RpoOK' /\ IdomOK' /\ AllHaveIdom'
  BY <1>1, IdomStays DEF Iteration
<1>3. DomTypeOK'
  <2>1. domSucc' \in [MaybeBlock -> SUBSET Block]
    BY <1>1 DEF GraphOK
  <2>. QED
    BY <1>1, <2>1 DEF DomTypeOK
<1>4. PICK m, n : m = pos /\ n = prd
  OBVIOUS
<1>5. /\ m \in 1..MaxBlocks + 1
      /\ \A b, j \in Block : j \in frontier'[b] <=> Passes(b, j, m, n)'
  BY <1>1, <1>4, WalksStay DEF FrontierOK
<1>6. domSucc' = [d \in MaybeBlock |-> {b \in bbs' : idom'[b] = d /\ idom'[b] # b}]
  BY <1>1, GraphStays
<1>7. pos' = m /\ prd' = n
  BY <1>1, <1>4
<1>8. FrontierOK'
  BY <1>1, <1>5, <1>6, <1>7 DEF FrontierOK
<1>. QED
  BY <1>1, <1>2, <1>3, <1>8 DEF Iteration
\* A step that changes nothing.
LEMMA NothingChanges ==
  ASSUME UNCHANGED graphVars, frames' = frames, dpc' = dpc, dfs' = dfs, visited' = visited,
         postId' = postId, rpo' = rpo, idom' = idom, changed' = changed, pos' = pos, prd' = prd,
         newIdom' = newIdom, walker' = walker, frontier' = frontier, domSucc' = domSucc
  PROVE  /\ (Done => Done') /\ (GraphOK => GraphOK') /\ (DomTypeOK => DomTypeOK')
         /\ NoFrontier => NoFrontier'
         /\ \A lvl : Forward(lvl) /\ Traversal(lvl) => Forward(lvl)' /\ Traversal(lvl)'
         /\ Iteration => Iteration'
         /\ FrontierOK => FrontierOK'
<1>1. (Done => Done') /\ (GraphOK => GraphOK') /\ (DomTypeOK => DomTypeOK')
  <2>1. DomTypeOK => DomTypeOK'
    BY DEF DomTypeOK
  <2>2. Done => Done'
    BY DEF Done
  <2>. QED
    BY <2>1, <2>2, GraphStays
<1>2. NoFrontier => NoFrontier'
  BY DEF NoFrontier
<1>3. ASSUME NEW lvl, Forward(lvl), Traversal(lvl)
      PROVE  Forward(lvl)' /\ Traversal(lvl)'
  <2>1. Finished' = Finished /\ \A n : Calling(n)' = Calling(n)
    BY DEF Finished, Calling
  <2>2. \A i : CallOK(lvl, i) => CallOK(lvl, i)'
    BY <2>1, GraphStays DEF CallOK
  <2>3. Numbered => Numbered'
    BY DEF Numbered
  <2>4. Traversal(lvl)'
    BY <1>3, <2>1, <2>2, <2>3, GraphStays DEF Traversal
  <2>. QED
    BY <1>3, <2>4, GraphStays
<1>4. ASSUME Iteration PROVE Iteration'
  <2>1. RpoOK' /\ IdomOK' /\ (AllHaveIdom => AllHaveIdom') /\ (Covered => Covered')
    BY <1>4, IdomStays DEF Iteration, Covered
  <2>2. ASSUME AtPred PROVE AtPred'
    <3>1. PICK b, d, n, k, w, q :
            b = rpo[pos] /\ d = newIdom /\ n = prd /\ k = PickPred(rpo[pos]) /\ w = walker
            /\ q = pre[rpo[pos]][prd]
      OBVIOUS
    <3>2. Common(d, b)' /\ Dominates(d, k)' /\ Passed(d, b, n)' /\ PickPred(b)' = k
      BY <2>2, <3>1, IdomStays, GraphStays DEF AtPred
    <3>3. dpc = "intersect" => n <= Len(pre[b]) /\ Common(w, b)' /\ Dominates(w, q)'
      BY <2>2, <3>1, IdomStays, GraphStays DEF AtPred
    <3>4. /\ rpo'[pos'] = b /\ newIdom' = d /\ prd' = n /\ walker' = w /\ pre'[b][n] = q
          /\ pos' <= Len(rpo') /\ b # Entry /\ n \in Nat \ {0} /\ k # NoBlock
          /\ Len(pre'[b]) = Len(pre[b])
      BY <2>2, <3>1, GraphStays DEF AtPred
    <3>. QED
      BY <3>2, <3>3, <3>4 DEF AtPred
  <2>. QED
    BY <1>4, <2>1, <2>2 DEF Iteration
<1>5. ASSUME FrontierOK PROVE FrontierOK'
  <2>1. PICK m, n, p, w : m = pos /\ n = prd /\ p = pre[pos][prd] /\ w = walker
    OBVIOUS
  <2>2. dpc' \in {"create_dominance_frontier", "end"} =>
          /\ m \in 1..MaxBlocks + 1
          /\ \A b, j \in Block : j \in frontier'[b] <=> Passes(b, j, m, n)'
    BY <1>5, <2>1, WalksStay DEF FrontierOK
  <2>3. dpc' = "runner" =>
          /\ m \in Joins' /\ n \in 1..Len(pre'[m]) /\ AtWalk(p, m, w)'
          /\ \A b, j \in Block :
               j \in frontier'[b] <=> Passes(b, j, m, n - 1)' \/ (j = m /\ b \in Trail(p, m, w)')
    <3>1. dpc = "runner" =>
            /\ m \in Joins /\ n \in 1..Len(pre[m]) /\ AtWalk(p, m, w)
            /\ \A b, j \in Block :
                 j \in frontier[b] <=> Passes(b, j, m, n - 1) \/ (j = m /\ b \in Trail(p, m, w))
      BY <1>5, <2>1 DEF FrontierOK
    <3>. QED
      BY <3>1, WalksStay, GraphStays
  <2>4. pos' = m /\ prd' = n /\ walker' = w /\ pre'[m][n] = p
    BY <2>1, GraphStays
  <2>5. dpc' = "end" =>
          /\ pos' > MaxBlocks
          /\ domSucc' = [d \in MaybeBlock |-> {b \in bbs' : idom'[b] = d /\ idom'[b] # b}]
    BY <1>5, GraphStays DEF FrontierOK
  <2>6. dpc' \in {"create_idom", "next_pred", "intersect"} => NoFrontier'
    BY <1>2, <1>5 DEF FrontierOK
  <2>. QED
    BY <2>2, <2>3, <2>4, <2>5, <2>6 DEF FrontierOK
<1>. QED
  BY <1>1, <1>2, <1>3, <1>4, <1>5
----------------------------------------------------------------------------
(***************************************************************************)
(* The builder, then the pass.                                             *)
(***************************************************************************)
\* A step of post_order_visit.
LEMMA VisitKeeps ==
  ASSUME GraphOK, DomTypeOK, dpc = "post_order_visit", NoFrontier,
         NEW lvl, Forward(lvl), Traversal(lvl), DomNext, UNCHANGED graphVars
  PROVE  /\ DomTypeOK'
         /\ \/ dpc' = "post_order_visit" /\ NoFrontier' /\ Forward(lvl)' /\ Traversal(lvl)'
            \/ Iteration' /\ FrontierOK'
<1>1. VisitSucc \/ FinishVisit \/ StartIdom
  BY DEF DomNext, StartDominators, EnterBlock, NextPred, Intersect, Intersected, SetIdom, EndPass,
         NextFrontierPred, Runner, BuildDomTree
<1>2. Forward(lvl)'
  BY GraphStays
<1>3. CASE VisitSucc
  <2>1. dpc' = dpc /\ frontier' = frontier
    BY <1>3 DEF VisitSucc
  <2>. QED
    BY <1>2, <1>3, <2>1, VisitSuccKeeps DEF NoFrontier
<1>4. CASE FinishVisit
  <2>1. dpc' = dpc /\ frontier' = frontier
    BY <1>4 DEF FinishVisit
  <2>. QED
    BY <1>2, <1>4, <2>1, FinishVisitKeeps DEF NoFrontier
<1>5. CASE StartIdom
  <2>1. dpc' = "create_idom" /\ frontier' = frontier
    BY <1>5 DEF StartIdom
  <2>. QED
    BY <1>5, <2>1, StartIdomKeeps DEF NoFrontier, FrontierOK
<1>. QED
  BY <1>1, <1>3, <1>4, <1>5

\* A step of the iteration, or of what follows it.
LEMMA IterationKeeps ==
  ASSUME GraphOK, DomTypeOK, Iteration, FrontierOK, DomNext, UNCHANGED graphVars
  PROVE  DomTypeOK' /\ Iteration' /\ FrontierOK'
<1>1. \/ EnterBlock \/ NextPred \/ Intersect \/ Intersected \/ SetIdom \/ EndPass
      \/ NextFrontierPred \/ Runner \/ BuildDomTree
  BY DEF DomNext, Iteration, StartDominators, VisitSucc, FinishVisit, StartIdom
<1>2. CASE EnterBlock \/ NextPred \/ Intersect \/ Intersected \/ SetIdom
  <2>1. DomTypeOK' /\ Iteration'
    BY <1>2, EnterBlockKeeps, NextPredKeeps, IntersectKeeps, IntersectedKeeps, SetIdomKeeps
  <2>2. /\ frontier' = frontier /\ dpc \in {"create_idom", "next_pred", "intersect"}
        /\ dpc' \in {"create_idom", "next_pred", "intersect"}
    BY <1>2 DEF EnterBlock, NextPred, Intersect, Intersected, SetIdom
  <2>3. FrontierOK'
    BY <2>2 DEF FrontierOK, NoFrontier
  <2>. QED
    BY <2>1, <2>3
<1>3. CASE EndPass
  <2>1. DomTypeOK' /\ Iteration'
    BY <1>3, EndPassKeeps
  <2>2. /\ frontier' = frontier /\ dpc = "create_idom"
        /\ \/ dpc' = "create_idom"
           \/ dpc' = "create_dominance_frontier" /\ pos' = 1 /\ prd' = 0
    BY <1>3 DEF EndPass
  <2>3. frontier = [b \in MaybeBlock |-> {}] /\ Block \subseteq MaybeBlock
    BY <2>2 DEF FrontierOK, NoFrontier, MaybeBlock
  <2>4. ASSUME NEW b, NEW j \in Block
        PROVE  ~Passes(b, j, 1, 0)'
    <3>1. \A k \in 1..Len(pre'[j]) : ~(j < 1 \/ (j = 1 /\ k <= 0))
      BY BlockFacts DEF Block
    <3>. QED
      BY <3>1 DEF Passes
  <2>5. 1 \in 1..MaxBlocks + 1
    BY BlockFacts
  <2>6. FrontierOK'
    BY <2>2, <2>3, <2>4, <2>5 DEF FrontierOK, NoFrontier
  <2>. QED
    BY <2>1, <2>6
<1>4. CASE NextFrontierPred \/ Runner \/ BuildDomTree
  BY <1>4, NextFrontierPredKeeps, RunnerKeeps, BuildDomTreeKeeps
<1>. QED
  BY <1>1, <1>2, <1>3, <1>4

\* The pass has not started on the function in the beginning.
LEMMA DomInitial == Init => DomInv
BY InitReducible DEF Init, DomInit, DomInv

\* Every step keeps the invariant.
LEMMA DomStep == DomInv /\ [Next]_vars => DomInv'
<1>. SUFFICES ASSUME DomInv, [Next]_vars PROVE DomInv'
  OBVIOUS
<1>1. CASE Build
  <2>1. ~Done /\ BuilderNext /\ UNCHANGED domVars
    BY <1>1, BuilderIsOver DEF Build
  <2>2. dpc = "idle" /\ RInv /\ DomInit
    BY <2>1 DEF DomInv
  <2>3. RInv'
    BY <2>1, <2>2, NextReducible
  <2>4. dpc' = "idle" /\ DomInit'
    BY <2>1, <2>2 DEF domVars, DomInit
  <2>. QED
    BY <2>3, <2>4 DEF DomInv
<1>2. CASE Analyse
  <2>1. Done /\ DomNext /\ UNCHANGED graphVars /\ UNCHANGED frames
    BY <1>2 DEF Analyse, builderVars
  <2>2. Done'
    BY <2>1 DEF Done
  <2>3. CASE dpc = "idle" /\ RInv /\ DomInit
    <3>1. GraphOK
      BY <2>3, GraphFacts
    <3>2. PICK lvl : Forward(lvl)
      BY <2>3, TimeIsForward
    <3>3. StartDominators
      BY <2>1, <2>3 DEF DomNext, VisitSucc, FinishVisit, StartIdom, EnterBlock, NextPred,
            Intersect, Intersected, SetIdom, EndPass, NextFrontierPred, Runner, BuildDomTree
    <3>4. DomTypeOK' /\ Traversal(lvl)'
      BY <2>1, <2>3, <3>1, <3>3, StartKeeps
    <3>5. dpc' = "post_order_visit" /\ NoFrontier'
      BY <2>3, <3>3 DEF StartDominators, DomInit, NoFrontier
    <3>6. GraphOK' /\ Forward(lvl)'
      BY <2>1, <3>1, <3>2, GraphStays
    <3>. QED
      BY <2>2, <3>4, <3>5, <3>6 DEF DomInv
  <2>4. CASE /\ Done /\ GraphOK /\ DomTypeOK /\ dpc = "post_order_visit" /\ NoFrontier
             /\ \E lvl : Forward(lvl) /\ Traversal(lvl)
    <3>1. PICK lvl : Forward(lvl) /\ Traversal(lvl)
      BY <2>4
    <3>2. GraphOK'
      BY <2>1, <2>4, GraphStays
    <3>. QED
      BY <2>1, <2>2, <2>4, <3>1, <3>2, VisitKeeps DEF DomInv
  <2>5. CASE Done /\ GraphOK /\ DomTypeOK /\ Iteration /\ FrontierOK
    <3>1. GraphOK'
      BY <2>1, <2>5, GraphStays
    <3>. QED
      BY <2>1, <2>2, <2>5, <3>1, IterationKeeps DEF DomInv
  <2>. QED
    BY <2>3, <2>4, <2>5 DEF DomInv
<1>3. CASE UNCHANGED vars
  <2>1. UNCHANGED graphVars /\ UNCHANGED domVars /\ UNCHANGED builderAndGraph /\ frames' = frames
    BY <1>3 DEF vars, builderVars, builderAndGraph
  <2>2. /\ dpc' = dpc /\ dfs' = dfs /\ visited' = visited /\ postId' = postId /\ rpo' = rpo
        /\ idom' = idom /\ changed' = changed /\ pos' = pos /\ prd' = prd /\ newIdom' = newIdom
        /\ walker' = walker /\ frontier' = frontier /\ domSucc' = domSucc
    BY <2>1 DEF domVars
  <2>3. RInv => RInv'
    BY <2>1, NextReducible
  <2>4. DomInit => DomInit'
    BY <2>2 DEF DomInit
  <2>. QED
    BY <2>1, <2>2, <2>3, <2>4, NothingChanges DEF DomInv
<1>. QED
  BY <1>1, <1>2, <1>3 DEF Next
(* The invariant holds throughout: of the function while it is built, then  *)
(* of the order, the idoms and the frontiers as the pass computes them.     *)
THEOREM DominatorsInvariant == Spec => []DomInv
BY DomInitial, DomStep, PTL DEF Spec
----------------------------------------------------------------------------
(***************************************************************************)
(* What the invariant says of the results.                                 *)
(***************************************************************************)
\* The idoms, when all reachable blocks have one.
LEMMA IdomsAreThose ==
  ASSUME GraphOK, DomTypeOK, IdomOK, AllHaveIdom
  PROVE  RefIdoms(Dominance) = {<<idom[b], b>> : b \in Reachable \ {Entry}}
<1>1. succ \in [Block -> Seq(Block)] /\ Reachable \subseteq Block
  BY ReachableFacts DEF GraphOK
<1>2. ASSUME NEW a, NEW b \in Reachable, IsIdom(a, b)
      PROVE  b # Entry /\ a = idom[b]
  <2>1. b # Entry
    BY <1>1, <1>2, EntryDominates DEF IsIdom
  <2>2. IsIdom(idom[b], b)
    BY <1>1, <2>1, IdomFacts
  <2>. QED
    BY <1>2, <2>1, <2>2, OneIdom
<1>3. ASSUME NEW e \in RefIdoms(Dominance)
      PROVE  e \in {<<idom[b], b>> : b \in Reachable \ {Entry}}
  <2>1. PICK a, b : e = <<a, b>>
    BY RefIdomsFacts
  <2>2. b \in Reachable /\ IsIdom(a, b)
    BY <1>3, <2>1, RefIdomsFacts
  <2>. QED
    BY <1>2, <2>1, <2>2
<1>4. ASSUME NEW b \in Reachable \ {Entry}
      PROVE  <<idom[b], b>> \in RefIdoms(Dominance)
  BY <1>1, IdomFacts, RefIdomsFacts
<1>. QED
  BY <1>3, <1>4

\* A block with one predecessor is in no frontier, but of blocks that
\* execution cannot reach.
LEMMA FrontierIsOfJoins ==
  ASSUME GraphOK, NEW p \in Reachable, NEW j \in Succs(p), NEW b \in Reachable,
         Dominates(b, p), b = j \/ ~Dominates(b, j)
  PROVE  j \in Joins
<1>1. /\ succ \in [Block -> Seq(Block)] /\ p \in Block /\ j \in Reachable /\ j \in Block
      /\ j # Entry
  BY ReachableFacts DEF GraphOK
<1>2. pre[j] \in Seq(Block) /\ p \in Preds(j) /\ j \in bbs /\ Len(pre[j]) \in Nat
  BY <1>1 DEF GraphOK
<1>3. PICK q \in Reachable : j \in Succs(q) /\ (Dominates(b, j) \/ ~Dominates(b, q))
                             /\ (b = j => ~Dominates(j, q))
  <2>1. CASE b = j
    <3>1. PICK q \in Reachable : j \in Succs(q) /\ ~Dominates(j, q)
      BY <1>1, ForwardPred
    <3>2. Dominates(b, j)
      BY <2>1 DEF Dominates
    <3>. QED
      BY <3>1, <3>2
  <2>2. CASE b # j
    <3>1. ~Dominates(b, j)
      BY <2>2
    <3>2. PICK q \in Reachable : j \in Succs(q) /\ ~Dominates(b, q)
      BY <1>1, <3>1, DominatesAfter
    <3>. QED
      BY <2>2, <3>1, <3>2
  <2>. QED
    BY <2>1, <2>2
<1>4. q # p
  BY <1>3
<1>5. q \in Block /\ q \in Preds(j)
  BY <1>1, <1>3, ReachableFacts DEF GraphOK
<1>6. PICK i, k \in 1..Len(pre[j]) : p = pre[j][i] /\ q = pre[j][k]
  BY <1>2, <1>5 DEF Preds, Range
<1>7. i # k
  BY <1>4, <1>6
<1>8. Len(pre[j]) >= 2
  BY <1>2, <1>6, <1>7
<1>. QED
  BY <1>2, <1>8 DEF Joins
\* The frontiers of the definition.
LEMMA RefFrontiersFacts ==
  ASSUME GraphOK
  PROVE  /\ \A b, j : <<b, j>> \in RefFrontiers(Dominance) <=>
              /\ j \in Reachable /\ b \in Reachable /\ (b = j \/ ~Dominates(b, j))
              /\ \E p \in Reachable : p \in Preds(j) /\ Dominates(b, p)
         /\ \A e \in RefFrontiers(Dominance) : \E b, j : e = <<b, j>>
<1>. DEFINE dom      == Dominance
            above(p) == {e[1] : e \in {d \in dom : d[2] = p}}
            over(j)  == UNION {above(p) : p \in Preds(j)}
            at(j)    == {<<b, j>> : b \in {a \in over(j) : a = j \/ <<a, j>> \notin dom}}
<1>1. RefFrontiers(dom) = UNION {at(j) : j \in Reachable}
  BY DEF RefFrontiers
<1>2. /\ \A a, b : <<a, b>> \in dom <=> a \in Reachable /\ b \in Reachable /\ Dominates(a, b)
      /\ \A e \in dom : e = <<e[1], e[2]>>
  BY DominanceFacts
<1>. HIDE DEF dom
<1>3. \A b, p : b \in above(p) <=> b \in Reachable /\ p \in Reachable /\ Dominates(b, p)
  <2>. TAKE b, p
  <2>1. b \in above(p) <=> <<b, p>> \in dom
    <3>1. ASSUME b \in above(p) PROVE <<b, p>> \in dom
      <4>1. PICK e \in dom : e[2] = p /\ b = e[1]
        BY <3>1
      <4>. QED
        BY <1>2, <4>1
    <3>2. ASSUME <<b, p>> \in dom PROVE b \in above(p)
      <4>1. <<b, p>>[2] = p /\ <<b, p>>[1] = b
        OBVIOUS
      <4>. QED
        BY <3>2, <4>1
    <3>. QED
      BY <3>1, <3>2
  <2>. QED
    BY <1>2, <2>1
<1>. HIDE DEF above
<1>4. \A b, j : b \in over(j) <=>
        b \in Reachable /\ \E p \in Reachable : p \in Preds(j) /\ Dominates(b, p)
  BY <1>3
<1>. HIDE DEF over
<1>5. \A b, j, i : <<b, j>> \in at(i) <=> i = j /\ b \in over(j) /\ (b = j \/ <<b, j>> \notin dom)
  OBVIOUS
<1>6. \A i : \A e \in at(i) : \E b, j : e = <<b, j>>
  OBVIOUS
<1>. HIDE DEF at
<1>7. ASSUME NEW b, NEW j
      PROVE  <<b, j>> \in RefFrontiers(dom) <=>
               /\ j \in Reachable /\ b \in Reachable /\ (b = j \/ ~Dominates(b, j))
               /\ \E p \in Reachable : p \in Preds(j) /\ Dominates(b, p)
  <2>1. <<b, j>> \in RefFrontiers(dom) <=> j \in Reachable /\ <<b, j>> \in at(j)
    BY <1>1, <1>5
  <2>. QED
    BY <1>2, <1>4, <1>5, <2>1
<1>. QED
  BY <1>1, <1>6, <1>7 DEF dom

\* The frontiers, when the runners have been through all joins.
LEMMA FrontiersAreThose ==
  ASSUME GraphOK, DomTypeOK, IdomOK, AllHaveIdom, FrontierOK, dpc = "end"
  PROVE  RefFrontiers(Dominance) \cup DeadFrontiers = UNION {{b} \X frontier[b] : b \in Block}
<1>. DEFINE found == UNION {{b} \X frontier[b] : b \in Block}
<1>1. /\ succ \in [Block -> Seq(Block)] /\ Reachable \subseteq Block /\ Joins \subseteq Block
      /\ bbs \subseteq Block /\ \A b \in Reachable : Succs(b) \subseteq Reachable
  BY ReachableFacts DEF GraphOK, Joins
<1>2. ASSUME NEW b \in Block, NEW j \in Block
      PROVE  j \in frontier[b] <=> j \in Joins /\ \E k \in 1..Len(pre[j]) : b \in Walk(pre[j][k], j)
  <2>1. pos \in Nat /\ pos > MaxBlocks /\ (j \in frontier[b] <=> Passes(b, j, pos, prd))
    BY DEF FrontierOK
  <2>2. j < pos
    BY <2>1, BlockFacts DEF Block
  <2>. QED
    BY <2>1, <2>2 DEF Passes
<1>3. ASSUME NEW b \in Block, NEW j \in Block
      PROVE  <<b, j>> \in RefFrontiers(Dominance) \cup DeadFrontiers <=> j \in frontier[b]
  <2>1. ASSUME <<b, j>> \in RefFrontiers(Dominance) PROVE j \in frontier[b]
    <3>1. /\ j \in Reachable /\ b \in Reachable /\ (b = j \/ ~Dominates(b, j))
          /\ \E p \in Reachable : p \in Preds(j) /\ Dominates(b, p)
      BY <2>1, RefFrontiersFacts
    <3>2. PICK p \in Reachable : p \in Preds(j) /\ Dominates(b, p)
      BY <3>1
    <3>3. p \in Block /\ j \in Succs(p)
      BY <1>1, <3>2 DEF GraphOK
    <3>4. j \in Joins
      BY <3>1, <3>2, <3>3, FrontierIsOfJoins
    <3>5. PICK k \in 1..Len(pre[j]) : p = pre[j][k]
      BY <3>3, <3>4, JoinPreds
    <3>6. b \in Walk(p, j)
      BY <3>1, <3>2 DEF Walk
    <3>. QED
      BY <1>2, <3>4, <3>5, <3>6
  <2>2. ASSUME <<b, j>> \in DeadFrontiers PROVE j \in frontier[b]
    <3>1. b \in bbs \ Reachable /\ j \in bbs /\ j \in Succs(b) /\ Len(pre[j]) >= 2
      BY <2>2 DEF DeadFrontiers
    <3>2. j \in Joins
      BY <3>1 DEF Joins
    <3>3. PICK k \in 1..Len(pre[j]) : b = pre[j][k]
      BY <3>1, <3>2, JoinPreds
    <3>4. b \in Walk(b, j)
      BY <3>1 DEF Walk
    <3>. QED
      BY <1>2, <3>2, <3>3, <3>4
  <2>3. ASSUME j \in frontier[b]
        PROVE  <<b, j>> \in RefFrontiers(Dominance) \cup DeadFrontiers
    <3>1. PICK k \in 1..Len(pre[j]) : j \in Joins /\ b \in Walk(pre[j][k], j)
      BY <1>2, <2>3
    <3>2. PICK p : p = pre[j][k]
      OBVIOUS
    <3>3. p \in Block /\ j \in Succs(p) /\ p \in Preds(j)
      BY <3>1, <3>2, JoinPreds DEF GraphOK
    <3>4. CASE p \in Reachable
      <4>1. b \in Reachable /\ Dominates(b, p) /\ (b = j \/ ~Dominates(b, j))
        BY <3>1, <3>2, <3>4 DEF Walk
      <4>2. j \in Reachable
        BY <1>1, <3>3, <3>4
      <4>. QED
        BY <3>3, <3>4, <4>1, <4>2, RefFrontiersFacts
    <3>5. CASE p \notin Reachable
      <4>1. b = p
        BY <3>1, <3>2, <3>5 DEF Walk
      <4>2. p \in bbs /\ j \in bbs /\ Len(pre[j]) >= 2
        BY <3>1, <3>3 DEF GraphOK, Joins
      <4>3. <<b, j>>[1] = b /\ <<b, j>>[2] = j
        OBVIOUS
      <4>. QED
        BY <3>3, <3>5, <4>1, <4>2, <4>3 DEF DeadFrontiers
    <3>. QED
      BY <3>4, <3>5
  <2>. QED
    BY <2>1, <2>2, <2>3
<1>4. \A b, j : <<b, j>> \in found <=> b \in Block /\ j \in frontier[b]
  OBVIOUS
<1>5. \A b, j : b \in Block /\ j \in frontier[b] => j \in Block
  BY BlockFacts DEF DomTypeOK, MaybeBlock
<1>6. \A e \in found : \E b, j : e = <<b, j>>
  OBVIOUS
<1>7. \A e \in RefFrontiers(Dominance) \cup DeadFrontiers :
        \E b \in Block, j \in Block : e = <<b, j>>
  <2>1. ASSUME NEW e \in RefFrontiers(Dominance)
        PROVE  \E b \in Block, j \in Block : e = <<b, j>>
    <3>1. PICK b, j : e = <<b, j>>
      BY RefFrontiersFacts
    <3>2. b \in Block /\ j \in Block
      BY <1>1, <2>1, <3>1, RefFrontiersFacts
    <3>. QED
      BY <3>1, <3>2
  <2>2. ASSUME NEW e \in DeadFrontiers
        PROVE  \E b \in Block, j \in Block : e = <<b, j>>
    BY <1>1 DEF DeadFrontiers
  <2>. QED
    BY <2>1, <2>2
<1>. HIDE DEF found
<1>8. \A e \in RefFrontiers(Dominance) \cup DeadFrontiers : e \in found
  <2>. TAKE e \in RefFrontiers(Dominance) \cup DeadFrontiers
  <2>1. PICK b \in Block, j \in Block : e = <<b, j>>
    BY <1>7
  <2>. QED
    BY <1>3, <1>4, <2>1
<1>9. \A e \in found : e \in RefFrontiers(Dominance) \cup DeadFrontiers
  <2>. TAKE e \in found
  <2>1. PICK b, j : e = <<b, j>>
    BY <1>6
  <2>2. b \in Block /\ j \in frontier[b] /\ j \in Block
    BY <1>4, <1>5, <2>1
  <2>. QED
    BY <1>3, <2>1, <2>2
<1>. QED
  BY <1>8, <1>9 DEF found
----------------------------------------------------------------------------
(***************************************************************************)
(* The properties, for functions of any size.                              *)
(***************************************************************************)
\* The variables of the pass have their types.
THEOREM DomTypeCorrect == Spec => []DomTypeOK
<1>1. DomInv => DomTypeOK
  <2>1. DomInit => DomTypeOK
    <3>1. << >> \in Seq(Activation) /\ Len(<< >>) = 0 /\ << >> \in Seq(Block)
      OBVIOUS
    <3>2. 0 \in 0..MaxBlocks /\ 0 \in 0..MaxBlocks + 1 /\ 0 \in Nat /\ 0 <= MaxBlocks
      BY BlockFacts
    <3>. QED
      BY <3>1, <3>2 DEF DomInit, DomTypeOK, MaybeBlock, Activation
  <2>. QED
    BY <2>1 DEF DomInv
<1>. QED
  BY DominatorsInvariant, <1>1, PTL

\* What the assertions say, of an iteration.
LEMMA IterationAsserts ==
  ASSUME GraphOK, DomTypeOK, Iteration
  PROVE  AssertionsHold
<1>1. ASSUME dpc \in {"next_pred", "intersect"}
      PROVE  newIdom # NoBlock /\ idom[newIdom] # NoBlock
  <2>1. Common(newIdom, rpo[pos])
    BY <1>1 DEF Iteration, AtPred
  <2>2. newIdom \in Reachable
    BY <2>1 DEF Common
  <2>. QED
    BY <2>1, <2>2, ReachableFacts, BlockFacts DEF Common, GraphOK
<1>2. ASSUME dpc = "intersect"
      PROVE  idom[walker] # NoBlock
  BY <1>2 DEF Iteration, AtPred, Common
<1>. QED
  BY <1>1, <1>2 DEF AssertionsHold

(* The three assertions of create_idom and intersect never fail: a block of *)
(* the reverse post order has a predecessor that has its idom, and a walk   *)
(* up the partial tree meets no gap, in dead code as elsewhere.             *)
THEOREM AssertionsNeverFail == Spec => []AssertionsHold
<1>1. DomInv => AssertionsHold
  <2>1. dpc \in {"idle", "post_order_visit"} => AssertionsHold
    BY DEF AssertionsHold
  <2>. QED
    BY <2>1, IterationAsserts DEF DomInv
<1>. QED
  BY DominatorsInvariant, <1>1, PTL

(* When the iteration has ended idom_ holds the immediate dominator of each *)
(* block that execution can reach, the entry for the entry, and nullptr for *)
(* the others.                                                              *)
THEOREM IdomsAreImmediateDominators == Spec => []IdomCorrect
<1>1. DomInv => IdomCorrect
  <2>. SUFFICES ASSUME DomInv, dpc = "create_dominance_frontier"
                PROVE  /\ RefIdoms(Dominance) = {<<idom[b], b>> : b \in Reachable \ {Entry}}
                       /\ idom[Entry] = Entry
                       /\ \A b \in bbs \ Reachable : idom[b] = NoBlock
    BY DEF IdomCorrect
  <2>1. GraphOK /\ DomTypeOK /\ IdomOK /\ AllHaveIdom
    BY DEF DomInv, DomInit, Iteration
  <2>2. \A b \in bbs \ Reachable : idom[b] = NoBlock
    BY <2>1, IdomFacts DEF GraphOK
  <2>3. idom[Entry] = Entry
    BY <2>1 DEF IdomOK
  <2>. QED
    BY <2>1, <2>2, <2>3, IdomsAreThose
<1>. QED
  BY DominatorsInvariant, <1>1, PTL

(* The dominance frontiers are those of the definition, where Mem2Reg puts  *)
(* its phis: no runner stops short of the idom of the join, or passes it.   *)
THEOREM FrontiersAreThoseOfTheDefinition == Spec => []FrontierCorrect
<1>1. DomInv => FrontierCorrect
  <2>. SUFFICES ASSUME DomInv, dpc = "end"
                PROVE  RefFrontiers(Dominance) \cup DeadFrontiers =
                         UNION {{b} \X frontier[b] : b \in Block}
    BY DEF FrontierCorrect
  <2>1. GraphOK /\ DomTypeOK /\ IdomOK /\ AllHaveIdom /\ FrontierOK
    BY DEF DomInv, DomInit, Iteration
  <2>. QED
    BY <2>1, FrontiersAreThose
<1>. QED
  BY DominatorsInvariant, <1>1, PTL

(* The walk of Mem2Reg down dom_tree_succ_blocks_ meets each block that     *)
(* execution can reach once, and no other.                                  *)
THEOREM TreeSpansReachable == Spec => []DomTreeSpansReachable
<1>1. DomInv => DomTreeSpansReachable
  <2>. SUFFICES ASSUME DomInv, dpc = "end"
                PROVE  /\ UNION {domSucc[b] : b \in Reachable} = Reachable \ {Entry}
                       /\ \A a, b \in Reachable : a # b => domSucc[a] \cap domSucc[b] = {}
    BY DEF DomTreeSpansReachable
  <2>1. GraphOK /\ DomTypeOK /\ IdomOK /\ AllHaveIdom /\ FrontierOK
    BY DEF DomInv, DomInit, Iteration
  <2>2. Reachable \subseteq Block /\ Block \subseteq MaybeBlock /\ bbs \subseteq Block
        /\ NoBlock \notin Block
    BY <2>1, ReachableFacts, BlockFacts DEF GraphOK, MaybeBlock
  <2>3. \A d \in Reachable : domSucc[d] = {b \in bbs : idom[b] = d /\ idom[b] # b}
    BY <2>1, <2>2 DEF FrontierOK
  <2>4. ASSUME NEW d \in Reachable, NEW b \in domSucc[d]
        PROVE  b \in Reachable \ {Entry}
    <3>1. b \in Block /\ idom[b] = d /\ idom[b] # b
      BY <2>2, <2>3
    <3>2. idom[b] # NoBlock
      BY <2>2, <3>1
    <3>. QED
      BY <2>1, <3>1, <3>2 DEF IdomOK
  <2>5. ASSUME NEW b \in Reachable \ {Entry}
        PROVE  idom[b] \in Reachable /\ b \in domSucc[idom[b]]
    <3>1. b \in Block /\ IsIdom(idom[b], b)
      BY <2>1, <2>2, IdomFacts
    <3>2. idom[b] \in Reachable /\ idom[b] # b
      BY <3>1 DEF IsIdom
    <3>3. b \in bbs
      <4>1. PICK p \in Reachable : b \in Succs(p)
        BY <2>1, ForwardPred
      <4>. QED
        BY <2>1, <2>2, <3>1, <4>1 DEF GraphOK
    <3>. QED
      BY <2>3, <3>2, <3>3
  <2>6. \A a, b \in Reachable : a # b => domSucc[a] \cap domSucc[b] = {}
    BY <2>3
  <2>. QED
    BY <2>4, <2>5, <2>6
<1>. QED
  BY DominatorsInvariant, <1>1, PTL

\* An idom, in the iteration, once set and when it is set.
LEMMA IdomsGoUp ==
  ASSUME DomInv, DomInv', Build \/ Analyse \/ UNCHANGED vars,
         dpc \in {"create_idom", "next_pred", "intersect"}, NEW b \in Block \ {Entry}
  PROVE  /\ idom'[b] # NoBlock => postId[b] < postId[idom'[b]]
         /\ idom[b] # NoBlock => postId[idom[b]] <= postId[idom'[b]]
<1>1. GraphOK /\ DomTypeOK /\ Iteration /\ RpoOK /\ IdomOK
  BY DEF DomInv, DomInit, Iteration
<1>2. \/ idom' = idom
      \/ /\ AtPred /\ Covered /\ prd > Len(pre[rpo[pos]])
         /\ idom' = [idom EXCEPT ![rpo[pos]] = newIdom]
  <2>1. CASE Build \/ UNCHANGED vars
    BY <2>1 DEF Build, vars, domVars
  <2>2. CASE Analyse
    <3>1. DomNext
      BY <2>2 DEF Analyse
    <3>2. CASE SetIdom
      BY <1>1, <3>2 DEF SetIdom, Iteration
    <3>3. CASE ~SetIdom
      BY <3>1, <3>3 DEF DomNext, StartDominators, VisitSucc, FinishVisit, StartIdom, EnterBlock,
            NextPred, Intersect, Intersected, EndPass, NextFrontierPred, Runner, BuildDomTree
    <3>. QED
      BY <3>2, <3>3
  <2>. QED
    BY <2>1, <2>2
<1>3. idom'[b] # NoBlock => IsIdom(idom'[b], b) /\ b \in Reachable
  <2>1. idom[b] # NoBlock => IsIdom(idom[b], b) /\ b \in Reachable
    BY <1>1 DEF IdomOK
  <2>2. CASE idom' = idom
    BY <2>1, <2>2
  <2>3. CASE idom' # idom
    <3>1. /\ AtPred /\ Covered /\ prd > Len(pre[rpo[pos]])
          /\ idom' = [idom EXCEPT ![rpo[pos]] = newIdom]
      BY <1>2, <2>3
    <3>2. rpo[pos] \in Reachable
      BY <1>1, <3>1, AtBlock DEF AtPred
    <3>3. IsIdom(newIdom, rpo[pos])
      BY <1>1, <3>1, NewIdomIsIdom
    <3>4. idom \in [Block -> MaybeBlock]
      BY <1>1 DEF DomTypeOK
    <3>. QED
      BY <2>1, <3>1, <3>2, <3>3, <3>4
  <2>. QED
    BY <2>2, <2>3
<1>4. idom[b] # NoBlock => IsIdom(idom[b], b) /\ idom'[b] # NoBlock
  <2>1. idom[b] # NoBlock => IsIdom(idom[b], b)
    BY <1>1 DEF IdomOK
  <2>2. idom[b] # NoBlock => idom'[b] # NoBlock
    <3>1. CASE idom' = idom
      BY <3>1
    <3>2. CASE idom' # idom
      <4>1. /\ AtPred /\ Covered /\ prd > Len(pre[rpo[pos]])
            /\ idom' = [idom EXCEPT ![rpo[pos]] = newIdom]
        BY <1>2, <3>2
      <4>2. newIdom # NoBlock
        <5>1. newIdom \in Reachable
          BY <4>1 DEF AtPred, Common
        <5>. QED
          BY <1>1, <5>1, ReachableFacts, BlockFacts DEF GraphOK
      <4>3. idom \in [Block -> MaybeBlock]
        BY <1>1 DEF DomTypeOK
      <4>. QED
        BY <4>1, <4>2, <4>3
    <3>. QED
      BY <3>1, <3>2
  <2>. QED
    BY <2>1, <2>2
<1>5. idom'[b] # NoBlock => postId[b] < postId[idom'[b]]
  BY <1>1, <1>3, DominatorsAreLater DEF IsIdom
<1>6. idom[b] # NoBlock => postId[idom[b]] <= postId[idom'[b]]
  <2>. SUFFICES ASSUME idom[b] # NoBlock PROVE postId[idom[b]] <= postId[idom'[b]]
    OBVIOUS
  <2>1. idom[b] = idom'[b]
    BY <1>1, <1>3, <1>4, OneIdom
  <2>2. postId[idom[b]] \in Nat
    BY <1>1, <1>4, Places DEF IsIdom
  <2>. QED
    BY <2>1, <2>2
<1>. QED
  BY <1>5, <1>6

(* An idom is later in post order than its block, and never moves down: it  *)
(* is what makes each walk of intersect, and the iteration, end.            *)
THEOREM IdomsOnlyMoveUp == Spec => IdomOnlyMovesUp
<1>1. DomInv /\ DomInv' /\ [Next]_vars =>
        [(dpc \in {"create_idom", "next_pred", "intersect"}) =>
           \A b \in Block \ {Entry} :
             /\ idom'[b] # NoBlock => postId[b] < postId[idom'[b]]
             /\ idom[b] # NoBlock => postId[idom[b]] <= postId[idom'[b]]]_domVars
  BY IdomsGoUp DEF Next
<1>. QED
  BY DominatorsInvariant, <1>1, PTL DEF Spec, IdomOnlyMovesUp
=============================================================================

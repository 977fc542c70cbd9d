----------------------------- MODULE Dominators -----------------------------
(***************************************************************************)
(* The Dominators pass, src/src/optimization/Dominators.cpp, on the graph  *)
(* of one function: reverse post order by depth-first search, immediate    *)
(* dominators by iteration to a fixpoint (Cooper, Harvey and Kennedy),     *)
(* dominance frontiers, dominator tree.  The graph is only read.           *)
(*                                                                         *)
(* A step is one turn of an innermost loop of the code, so that the loops  *)
(* that need not end (intersect, the runner of create_dominance_frontier)  *)
(* are loops of the model.                                                 *)
(***************************************************************************)
EXTENDS FlowGraph

VARIABLES
  dpc,        \* the function of the pass that runs, "idle" before and "end" after
  dfs,        \* the call stack of post_order_visit: blocks and position in succ
  visited,    \* its argument visited
  postId,     \* post_order_id_
  rpo,        \* reverse_post_order_
  idom,       \* idom_
  changed,    \* changed, in create_idom
  pos,        \* position in reverse_post_order_, or block, of the outer loop
  prd,        \* position in pre_bbs_ of the inner loop
  newIdom,    \* new_idom (b2 of intersect)
  walker,     \* b1 of intersect; runner of create_dominance_frontier
  frontier,   \* dom_frontier_
  domSucc     \* dom_tree_succ_blocks_

domVars == <<dpc, dfs, visited, postId, rpo, idom, changed, pos, prd,
             newIdom, walker, frontier, domSucc>>

MaybeBlock == Block \cup {NoBlock}

\* idom_[p] of a std::map: nullptr for a key that is not there, nullptr itself included
IdomOf(b) == IF b = NoBlock THEN NoBlock ELSE idom[b]

DomInit ==
  /\ dpc = "idle"
  /\ dfs = << >> /\ visited = {} /\ rpo = << >>
  /\ postId = [b \in Block |-> 0]
  /\ idom = [b \in Block |-> NoBlock]
  /\ changed = FALSE
  /\ pos = 0 /\ prd = 0
  /\ newIdom = NoBlock /\ walker = NoBlock
  /\ frontier = [b \in MaybeBlock |-> {}]
  /\ domSucc = [b \in MaybeBlock |-> {}]
----------------------------------------------------------------------------
\* run, create_reverse_post_order: the call for the entry block
StartDominators ==
  /\ dpc = "idle"
  /\ dpc' = "post_order_visit"
  /\ dfs' = <<[bb |-> Entry, at |-> 1]>>
  /\ visited' = {Entry}
  /\ UNCHANGED <<postId, rpo, idom, changed, pos, prd, newIdom, walker,
                 frontier, domSucc>>

\* post_order_visit: the next successor
VisitSucc ==
  /\ dpc = "post_order_visit" /\ dfs # << >>
  /\ LET n   == Len(dfs)
         top == dfs[n]
         b   == succ[top.bb][top.at]
         on  == [dfs EXCEPT ![n].at = @ + 1]
     IN  /\ top.at <= Len(succ[top.bb])
         /\ dfs' = IF b \in visited THEN on ELSE Append(on, [bb |-> b, at |-> 1])
         /\ visited' = visited \cup {b}
  /\ UNCHANGED <<dpc, postId, rpo, idom, changed, pos, prd, newIdom, walker,
                 frontier, domSucc>>

\* post_order_visit: the end of a call.  push_back, and the reversal that
\* follows, put the block in front of reverse_post_order_.
FinishVisit ==
  /\ dpc = "post_order_visit" /\ dfs # << >>
  /\ LET top == dfs[Len(dfs)]
     IN  /\ top.at > Len(succ[top.bb])
         /\ postId' = [postId EXCEPT ![top.bb] = Len(rpo)]
         /\ rpo' = <<top.bb>> \o rpo
         /\ dfs' = SubSeq(dfs, 1, Len(dfs) - 1)
  /\ UNCHANGED <<dpc, visited, idom, changed, pos, prd, newIdom, walker,
                 frontier, domSucc>>

\* create_idom: its initialisation and the first test of while (changed)
StartIdom ==
  /\ dpc = "post_order_visit" /\ dfs = << >>
  /\ dpc' = "create_idom"
  /\ idom' = [b \in Block |-> IF b = Entry THEN Entry ELSE NoBlock]
  /\ changed' = FALSE
  /\ pos' = 1
  /\ UNCHANGED <<dfs, visited, postId, rpo, prd, newIdom, walker, frontier,
                 domSucc>>
----------------------------------------------------------------------------
\* the first predecessor that has an idom, nullptr if none
PickPred(b) ==
  LET with == {i \in DOMAIN pre[b] : idom[pre[b][i]] # NoBlock}
  IN  IF with = {} THEN NoBlock
      ELSE pre[b][CHOOSE i \in with : \A j \in with : i <= j]

\* Faulty variant: the first predecessor is taken, whether processed or not.
FirstPred(b) == IF pre[b] = << >> THEN NoBlock ELSE pre[b][1]

\* find one pred which has idom
ProcessedPred(b) == PickPred(b)

\* create_idom, the body of the for up to the loop over the predecessors
EnterBlock ==
  /\ dpc = "create_idom" /\ pos <= Len(rpo)
  /\ IF rpo[pos] = Entry
     THEN pos' = pos + 1 /\ UNCHANGED <<dpc, prd, newIdom>>
     ELSE /\ dpc' = "next_pred"
          /\ newIdom' = ProcessedPred(rpo[pos])
          /\ prd' = 1
          /\ UNCHANGED pos
  /\ UNCHANGED <<dfs, visited, postId, rpo, idom, changed, walker, frontier,
                 domSucc>>

\* Faulty variant: intersect is not called, the last predecessor wins.
NextPredLastWins ==
  /\ dpc = "next_pred" /\ newIdom # NoBlock
  /\ prd <= Len(pre[rpo[pos]])
  /\ LET p == pre[rpo[pos]][prd]
     IN  newIdom' = IF idom[p] = NoBlock THEN newIdom ELSE p
  /\ prd' = prd + 1
  /\ UNCHANGED <<dpc, dfs, visited, postId, rpo, idom, changed, pos, walker,
                 frontier, domSucc>>

\* one predecessor: skipped, or the arguments of intersect(p, new_idom)
NextPred ==
  /\ dpc = "next_pred" /\ newIdom # NoBlock   \* assert(pred)
  /\ prd <= Len(pre[rpo[pos]])
  /\ LET p == pre[rpo[pos]][prd]
     IN  IF p = ProcessedPred(rpo[pos]) \/ idom[p] = NoBlock
         THEN prd' = prd + 1 /\ UNCHANGED <<dpc, walker>>
         ELSE walker' = p /\ dpc' = "intersect" /\ UNCHANGED prd
  /\ UNCHANGED <<dfs, visited, postId, rpo, idom, changed, pos, newIdom,
                 frontier, domSucc>>

\* Faulty variant: the comparison of intersect is the wrong way round.
IntersectWrongWay ==
  /\ dpc = "intersect" /\ walker # newIdom
  /\ IF postId[walker] > postId[newIdom]
     THEN /\ idom[walker] # NoBlock
          /\ walker' = idom[walker] /\ UNCHANGED newIdom
     ELSE /\ idom[newIdom] # NoBlock
          /\ newIdom' = idom[newIdom] /\ UNCHANGED walker
  /\ UNCHANGED <<dpc, dfs, visited, postId, rpo, idom, changed, pos, prd,
                 frontier, domSucc>>

\* intersect: whichever of b1, b2 has the smaller post order number moves up
Intersect ==
  /\ dpc = "intersect" /\ walker # newIdom
  /\ IF postId[walker] < postId[newIdom]
     THEN /\ idom[walker] # NoBlock           \* assert(get_idom(b1))
          /\ walker' = idom[walker] /\ UNCHANGED newIdom
     ELSE /\ idom[newIdom] # NoBlock          \* assert(get_idom(b2))
          /\ newIdom' = idom[newIdom] /\ UNCHANGED walker
  /\ UNCHANGED <<dpc, dfs, visited, postId, rpo, idom, changed, pos, prd,
                 frontier, domSucc>>

\* intersect returns b1, which becomes new_idom
Intersected ==
  /\ dpc = "intersect" /\ walker = newIdom
  /\ dpc' = "next_pred"
  /\ prd' = prd + 1
  /\ walker' = NoBlock
  /\ UNCHANGED <<dfs, visited, postId, rpo, idom, changed, pos, newIdom,
                 frontier, domSucc>>

\* the predecessors are exhausted: set_idom when it differs
SetIdom ==
  /\ dpc = "next_pred" /\ newIdom # NoBlock
  /\ prd > Len(pre[rpo[pos]])
  /\ idom' = [idom EXCEPT ![rpo[pos]] = newIdom]
  /\ changed' = (changed \/ idom[rpo[pos]] # newIdom)
  /\ dpc' = "create_idom"
  /\ pos' = pos + 1
  /\ newIdom' = NoBlock
  /\ prd' = 0
  /\ UNCHANGED <<dfs, visited, postId, rpo, walker, frontier, domSucc>>

\* the end of a pass over the blocks: while (changed)
EndPass ==
  /\ dpc = "create_idom" /\ pos > Len(rpo)
  /\ changed' = FALSE
  /\ IF changed
     THEN pos' = 1 /\ UNCHANGED <<dpc, prd>>
     ELSE dpc' = "create_dominance_frontier" /\ pos' = 1 /\ prd' = 0
  /\ UNCHANGED <<dfs, visited, postId, rpo, idom, newIdom, walker, frontier,
                 domSucc>>
----------------------------------------------------------------------------
\* Faulty variant: if instead of while, so only the predecessors themselves
\* get the join in their frontier.
RunnerGoesOnce == walker \in Preds(pos) /\ walker # IdomOf(pos)

RunnerGoesOn == walker # IdomOf(pos)

\* create_dominance_frontier: the next block, or the next predecessor of a join
NextFrontierPred ==
  /\ dpc = "create_dominance_frontier" /\ pos <= MaxBlocks
  /\ IF pos \in bbs /\ Len(pre[pos]) >= 2 /\ prd < Len(pre[pos])
     THEN /\ prd' = prd + 1
          /\ walker' = pre[pos][prd + 1]
          /\ dpc' = "runner"
          /\ UNCHANGED pos
     ELSE pos' = pos + 1 /\ prd' = 0 /\ UNCHANGED <<walker, dpc>>
  /\ UNCHANGED <<dfs, visited, postId, rpo, idom, changed, newIdom, frontier,
                 domSucc>>

\* while (runner != get_idom(bb))
Runner ==
  /\ dpc = "runner"
  /\ IF RunnerGoesOn
     THEN /\ frontier' = [frontier EXCEPT ![walker] = @ \cup {pos}]
          /\ walker' = IdomOf(walker)
          /\ UNCHANGED dpc
     ELSE /\ dpc' = "create_dominance_frontier"
          /\ walker' = NoBlock
          /\ UNCHANGED frontier
  /\ UNCHANGED <<dfs, visited, postId, rpo, idom, changed, pos, prd, newIdom,
                 domSucc>>

\* Faulty variant: the entry, its own idom, is entered as its own child.
BuildDomTreeWithRoot ==
  /\ dpc = "create_dominance_frontier" /\ pos > MaxBlocks
  /\ dpc' = "end"
  /\ domSucc' = [d \in MaybeBlock |-> {b \in bbs : idom[b] = d}]
  /\ UNCHANGED <<dfs, visited, postId, rpo, idom, changed, pos, prd, newIdom,
                 walker, frontier>>

\* create_dom_tree_succ: one entry a block whose idom is not itself
BuildDomTree ==
  /\ dpc = "create_dominance_frontier" /\ pos > MaxBlocks
  /\ dpc' = "end"
  /\ domSucc' = [d \in MaybeBlock |-> {b \in bbs : idom[b] = d /\ idom[b] # b}]
  /\ UNCHANGED <<dfs, visited, postId, rpo, idom, changed, pos, prd, newIdom,
                 walker, frontier>>

DomNext ==
  \/ StartDominators \/ VisitSucc \/ FinishVisit \/ StartIdom
  \/ EnterBlock \/ NextPred \/ Intersect \/ Intersected \/ SetIdom \/ EndPass
  \/ NextFrontierPred \/ Runner \/ BuildDomTree
----------------------------------------------------------------------------
(***************************************************************************)
(* Properties                                                              *)
(***************************************************************************)

\* The types of the pass's variables.
DomTypeOK ==
  /\ dpc \in {"idle", "post_order_visit", "create_idom", "next_pred", "intersect",
              "create_dominance_frontier", "runner", "end"}
  /\ dfs \in Seq([bb : Block, at : Nat]) /\ Len(dfs) <= MaxBlocks
  /\ visited \subseteq Block
  /\ postId \in [Block -> 0..MaxBlocks]
  /\ rpo \in Seq(Block)
  /\ idom \in [Block -> MaybeBlock]
  /\ changed \in BOOLEAN
  /\ pos \in 0..MaxBlocks + 1
  /\ prd \in Nat
  /\ newIdom \in MaybeBlock /\ walker \in MaybeBlock
  /\ frontier \in [MaybeBlock -> SUBSET Block]
  /\ domSucc \in [MaybeBlock -> SUBSET Block]

(* The three assertions of create_idom and intersect never fail, although   *)
(* half of the idoms are still nullptr in the first pass and those of       *)
(* unreachable predecessors stay so: every block of the reverse post order  *)
(* has a processed predecessor, and a walk up the partial tree meets no     *)
(* gap.                                                                     *)
AssertionsHold ==
  /\ dpc = "next_pred" => newIdom # NoBlock
  /\ dpc = "intersect" => idom[walker] # NoBlock /\ idom[newIdom] # NoBlock

(* When the iteration has ended, idom is the immediate dominator of every   *)
(* reachable block and nullptr for the others.                              *)
IdomCorrect ==
  dpc = "create_dominance_frontier" /\ pos = 1 =>
    /\ RefIdoms(Dominance) = {<<idom[b], b>> : b \in Reachable \ {Entry}}
    /\ idom[Entry] = Entry
    /\ \A b \in bbs \ Reachable : idom[b] = NoBlock

(* While it iterates, the idom of a block is a block later in post order,   *)
(* and a reassignment only moves it up: this is why intersect and the       *)
(* iteration end.                                                           *)
IdomOnlyMovesUp ==
  [][(dpc \in {"create_idom", "next_pred", "intersect"}) =>
       \A b \in Block \ {Entry} :
         /\ idom'[b] # NoBlock => postId[b] < postId[idom'[b]]
         /\ idom[b] # NoBlock => postId[idom[b]] <= postId[idom'[b]]
    ]_domVars

(* The frontiers are those of the definition: a join, and only it, is in    *)
(* the frontier of every block whose dominance ends there.                  *)
FrontierCorrect ==
  dpc = "end" =>
    RefFrontiers(Dominance) \cup DeadFrontiers =
      UNION {{b} \X frontier[b] : b \in Block}

(* Mem2Reg renames the blocks by walking dom_tree_succ_blocks_ from the     *)
(* entry: the walk meets each reachable block once, and no other block.     *)
DomTreeSpansReachable ==
  dpc = "end" =>
    /\ UNION {domSucc[b] : b \in Reachable} = Reachable \ {Entry}
    /\ \A a, b \in Reachable : a # b => domSucc[a] \cap domSucc[b] = {}
=============================================================================

----------------------------- MODULE LoopSearch -----------------------------
(***************************************************************************)
(* The LoopSearch pass, src/src/optimization/LoopSearch.cpp, on one        *)
(* function: the strongly connected components of a copy of the graph are  *)
(* its loops; the base of each is taken out of the copy, and the           *)
(* components of the rest are the loops nested in them.                    *)
(*                                                                         *)
(* strongly_connected_components is one step here, that of its contract;   *)
(* module Tarjan has its traversal and implements this module.  Sets of    *)
(* pointers are iterated in the order of a hash of addresses: any order.   *)
(***************************************************************************)
EXTENDS FlowGraph

VARIABLES
  lpc,        \* "idle" before the pass, "components" or "loops", "end" after it
  nodes,      \* the CFGNodes that are left
  nodeSuccs,  \* CFGNode::succs
  nodePrevs,  \* CFGNode::prevs
  reserved,   \* the bases taken out so far
  sccs,       \* the components found and not yet entered
  loops,      \* loop_set, func2loop, base2loop and loop2base: bases and blocks
  bb2base     \* bb2base, NoBlock for no entry

loopVars == <<lpc, nodes, nodeSuccs, nodePrevs, reserved, sccs, loops, bb2base>>

LoopInit ==
  /\ lpc = "idle"
  /\ nodes = {} /\ reserved = {} /\ sccs = {} /\ loops = {}
  /\ nodeSuccs = [b \in Block |-> {}] /\ nodePrevs = [b \in Block |-> {}]
  /\ bb2base = [b \in Block |-> NoBlock]
----------------------------------------------------------------------------
\* run: build_cfg, which copies the lists of edges as sets
BuildCfg ==
  /\ lpc = "idle"
  /\ lpc' = "components"
  /\ nodes' = bbs
  /\ nodeSuccs' = [b \in Block |-> Succs(b)]
  /\ nodePrevs' = [b \in Block |-> Preds(b)]
  /\ UNCHANGED <<reserved, sccs, loops, bb2base, graphVars>>

\* The contract of strongly_connected_components: the components of two nodes
\* or more.
Components ==
  LET of(b) == {c \in Onward(nodeSuccs, b) : b \in Onward(nodeSuccs, c)}
  IN  {c \in {of(b) : b \in nodes} : Cardinality(c) > 1}

\* while (strongly_connected_components(nodes, sccs)): the pass ends when
\* there is none
FindComponents ==
  /\ lpc = "components"
  /\ sccs' = Components
  /\ lpc' = IF sccs' = {} THEN "end" ELSE "loops"
  /\ UNCHANGED <<nodes, nodeSuccs, nodePrevs, reserved, loops, bb2base, graphVars>>

\* Faulty variant: any node of the component that has a predecessor in it.
BasesWithLatch(scc) == {n \in scc : nodePrevs[n] \cap scc # {}}

\* Faulty variant: find_loop_base searches the nodes after the bases only.
BasesAfterReserved(scc) == scc \cap UNION {nodeSuccs[r] : r \in reserved}

(* find_loop_base: the node the loops end with, the last one found of       *)
(* several; nullptr if there is none at all.                                *)
Bases(scc) ==
  LET entered == {n \in scc : nodePrevs[n] \ scc # {}}
  IN  IF entered # {} THEN entered ELSE scc \cap UNION {nodeSuccs[r] : r \in reserved}

\* Faulty variant: the base is not taken out of the successors' prevs.
EnterLoopKeepsPrev(scc, base) ==
  /\ loops' = loops \cup {[base |-> base, body |-> scc]}
  /\ bb2base' = [b \in Block |-> IF b \in scc THEN base ELSE bb2base[b]]
  /\ reserved' = reserved \cup {base}
  /\ nodes' = nodes \ {base}
  /\ nodePrevs' = nodePrevs
  /\ nodeSuccs' = [b \in Block |-> IF b \in nodePrevs[base] THEN nodeSuccs[b] \ {base}
                                                            ELSE nodeSuccs[b]]

\* Faulty variant: bb2base is built anew for every loop.
EnterLoopNewMap(scc, base) ==
  /\ loops' = loops \cup {[base |-> base, body |-> scc]}
  /\ bb2base' = [b \in scc |-> base]
  /\ reserved' = reserved \cup {base}
  /\ nodes' = nodes \ {base}
  /\ UNCHANGED <<nodePrevs, nodeSuccs>>

\* Faulty variant: bb2base is entered only where there is no entry yet.
EnterLoopFirstBase(scc, base) ==
  /\ loops' = loops \cup {[base |-> base, body |-> scc]}
  /\ bb2base' = [b \in Block |-> IF b \in scc /\ bb2base[b] = NoBlock THEN base
                                                                      ELSE bb2base[b]]
  /\ reserved' = reserved \cup {base}
  /\ nodes' = nodes \ {base}
  /\ nodePrevs' = [b \in Block |-> IF b \in nodeSuccs[base] THEN nodePrevs[b] \ {base}
                                                            ELSE nodePrevs[b]]
  /\ nodeSuccs' = [b \in Block |-> IF b \in nodePrevs[base] THEN nodeSuccs[b] \ {base}
                                                            ELSE nodeSuccs[b]]

\* Faulty variant: the base stays among the nodes, and linked.
EnterLoopKeepsBase(scc, base) ==
  /\ loops' = loops \cup {[base |-> base, body |-> scc]}
  /\ bb2base' = [b \in Block |-> IF b \in scc THEN base ELSE bb2base[b]]
  /\ reserved' = reserved \cup {base}
  /\ UNCHANGED <<nodes, nodePrevs, nodeSuccs>>

(* The maps that are written for a component, and its base taken out.       *)
EnterLoop(scc, base) ==
  /\ loops' = loops \cup {[base |-> base, body |-> scc]}
  /\ bb2base' = [b \in Block |-> IF b \in scc THEN base ELSE bb2base[b]]
  /\ reserved' = reserved \cup {base}
  /\ nodes' = nodes \ {base}
  /\ nodePrevs' = [b \in Block |-> IF b \in nodeSuccs[base] THEN nodePrevs[b] \ {base}
                                                            ELSE nodePrevs[b]]
  /\ nodeSuccs' = [b \in Block |-> IF b \in nodePrevs[base] THEN nodeSuccs[b] \ {base}
                                                            ELSE nodeSuccs[b]]

\* for (auto scc : sccs), and sccs.clear() after the last
NextLoop ==
  /\ lpc = "loops"
  /\ \E scc \in sccs :
       /\ \E base \in Bases(scc) : EnterLoop(scc, base)
       /\ sccs' = sccs \ {scc}
       /\ lpc' = IF sccs = {scc} THEN "components" ELSE "loops"
  /\ UNCHANGED graphVars

LoopNext == BuildCfg \/ FindComponents \/ NextLoop

LoopSpec == LoopInit /\ [][LoopNext]_loopVars
----------------------------------------------------------------------------
(***************************************************************************)
(* What the pass answers.  A loop is a pointer to its set of blocks;       *)
(* NoLoop is nullptr.                                                      *)
(***************************************************************************)
NoLoop == [base |-> NoBlock, body |-> {}]

\* base2loop[base]; operator[] of a map makes an entry of nullptr
LoopOfBase(base) ==
  LET of == {l \in loops : l.base = base} IN IF of = {} THEN NoLoop ELSE CHOOSE l \in of : TRUE

\* get_inner_loop
InnerLoop(b) == IF bb2base[b] = NoBlock THEN NoLoop ELSE LoopOfBase(bb2base[b])

\* Faulty variant: the base itself is asked for its loop, not its predecessor.
ParentLoopOfBase(l) ==
  LET around == InnerLoop(l.base) IN IF l.base \in around.body THEN around ELSE NoLoop

\* get_parent_loop: decided by the first predecessor outside the loop
ParentLoop(l) ==
  LET preds   == pre[l.base]
      outside == {i \in DOMAIN preds : preds[i] \notin l.body}
      first   == CHOOSE i \in outside : \A j \in outside : i <= j
      around  == InnerLoop(preds[first])
  IN  IF outside # {} /\ l.base \in around.body THEN around ELSE NoLoop
----------------------------------------------------------------------------
(***************************************************************************)
(* Properties                                                              *)
(***************************************************************************)

\* The types of the pass's variables.
LoopTypeOK ==
  /\ lpc \in {"idle", "components", "loops", "end"}
  /\ nodes \subseteq Block /\ reserved \subseteq Block
  /\ nodeSuccs \in [Block -> SUBSET Block] /\ nodePrevs \in [Block -> SUBSET Block]
  /\ sccs \subseteq SUBSET Block
  /\ loops \subseteq [base : Block, body : SUBSET Block]
  /\ bb2base \in [Block -> Block \cup {NoBlock}]

(* The nodes that are left do not lead to a base that was taken out, nor    *)
(* list one as a predecessor: traverse follows succs without asking whether *)
(* a node is still in the set, and find_loop_base takes a node with a       *)
(* predecessor outside for the entry.                                       *)
BasesAreGone ==
  \A n \in nodes : nodeSuccs[n] \cup nodePrevs[n] \subseteq nodes

(* find_loop_base finds a base for every component (run uses the pointer    *)
(* without a test), and every component still has all its nodes when its    *)
(* turn comes.                                                              *)
EveryLoopHasBase ==
  lpc = "loops" => \A scc \in sccs : Bases(scc) # {} /\ scc \subseteq nodes

(* The natural loop of a header h: the blocks that reach, without h, a      *)
(* block that h dominates and that branches back to h.                      *)
NaturalLoops ==
  LET reach == Reachable
      backs == {e \in reach \X reach : e[2] \in Succs(e[1]) /\ Dominates(e[2], e[1])}
      body(h) == {h} \cup {b \in reach : \E t \in ReachAvoid(b, h) : <<t, h>> \in backs}
  IN  {[base |-> h, body |-> body(h)] : h \in {e[2] : e \in backs}}

(* Every loop is found, with its header as the base, and nothing else that  *)
(* execution can reach is taken for a loop, provided no join has a dead     *)
(* predecessor.                                                             *)
LoopsAreNatural ==
  lpc = "end" /\ ~HalfDeadJoin => {l \in loops : l.base \in Reachable} = NaturalLoops

(* get_inner_loop answers the innermost of the loops found so far around a  *)
(* block: the entry of bb2base that an outer loop made is overwritten by    *)
(* every loop inside it, in whatever order the components come.             *)
InnerLoopIsInnermost ==
  \A b \in Block :
    LET around == {l \in loops : b \in l.body}
    IN  IF around = {} THEN InnerLoop(b) = NoLoop
        ELSE InnerLoop(b) \in around /\ \A l \in around : InnerLoop(b).body \subseteq l.body

(* get_parent_loop answers the innermost loop around a loop, although it    *)
(* looks at one predecessor only.  Not so in dead code: a loop there may be *)
(* entered at several blocks, and any of them may be its base.              *)
ParentLoopIsAround ==
  lpc = "end" /\ ~HalfDeadJoin =>
    \A l \in {k \in loops : k.base \in Reachable} :
      LET around == {k \in loops : k # l /\ l.body \subseteq k.body}
      IN  IF around = {} THEN ParentLoop(l) = NoLoop
          ELSE ParentLoop(l) \in around /\ \A k \in around : ParentLoop(l).body \subseteq k.body
=============================================================================

------------------------------- MODULE Tarjan -------------------------------
(***************************************************************************)
(* LoopSearch with the traversal of strongly_connected_components and      *)
(* traverse (src/src/optimization/LoopSearch.cpp) in place of their        *)
(* contract.  The traversal keeps its marks in the nodes themselves, and   *)
(* it is run again on the same nodes after every round: the marks are      *)
(* reset by run, for the nodes that are left.                              *)
(***************************************************************************)
EXTENDS LoopSearch, Integers, SequencesExt

VARIABLES
  index,       \* CFGNode::index
  lowlink,     \* CFGNode::lowlink
  onStack,     \* the nodes whose CFGNode::onStack is true
  indexCount,  \* index_count
  stack,       \* stack
  calls        \* the calls of traverse: node, successors to look at

tarjanVars == <<index, lowlink, onStack, indexCount, stack, calls>>

NotVisited == 0 - 1

TarjanInit ==
  /\ LoopInit
  /\ index = [b \in Block |-> NotVisited] /\ lowlink = [b \in Block |-> NotVisited]
  /\ onStack = {} /\ indexCount = 0 /\ stack = << >> /\ calls = << >>

TarjanBuildCfg == BuildCfg /\ UNCHANGED tarjanVars
----------------------------------------------------------------------------
\* a call of traverse(n), up to its loop; rest are the calls around it
Traverse(n, rest) ==
  /\ index' = [index EXCEPT ![n] = indexCount]
  /\ lowlink' = [lowlink EXCEPT ![n] = indexCount]
  /\ indexCount' = indexCount + 1
  /\ stack' = Append(stack, n)
  /\ onStack' = onStack \cup {n}
  /\ calls' = Append(rest, [node |-> n, todo |-> nodeSuccs[n]])

\* strongly_connected_components: a node that has not been visited
VisitRoot ==
  /\ lpc = "components" /\ calls = << >>
  /\ \E n \in nodes : index[n] = NotVisited /\ Traverse(n, calls)
  /\ UNCHANGED <<loopVars, graphVars>>

\* Faulty variant: a successor that has left the stack lowers lowlink too.
LookAtSuccOffStack ==
  /\ calls # << >>
  /\ LET n == Last(calls).node
     IN  \E su \in Last(calls).todo :
           LET on == [calls EXCEPT ![Len(calls)].todo = @ \ {su}]
           IN  IF index[su] = NotVisited THEN Traverse(su, on)
               ELSE /\ lowlink' = [lowlink EXCEPT ![n] = IF index[su] < @ THEN index[su] ELSE @]
                    /\ calls' = on
                    /\ UNCHANGED <<index, onStack, indexCount, stack>>
  /\ UNCHANGED <<loopVars, graphVars>>

\* traverse: one successor
LookAtSucc ==
  /\ calls # << >>
  /\ LET n == Last(calls).node
     IN  \E su \in Last(calls).todo :
           LET on == [calls EXCEPT ![Len(calls)].todo = @ \ {su}]
           IN  IF index[su] = NotVisited THEN Traverse(su, on)
               ELSE /\ lowlink' = [lowlink EXCEPT
                                     ![n] = IF su \in onStack /\ index[su] < @ THEN index[su] ELSE @]
                    /\ calls' = on
                    /\ UNCHANGED <<index, onStack, indexCount, stack>>
  /\ UNCHANGED <<loopVars, graphVars>>

\* the nodes from n to the top of the stack
FromNode(n) == {stack[i] : i \in {j \in DOMAIN stack : \E k \in 1..j : stack[k] = n}}

\* traverse: the end of a call, a component is popped when n is its first node
Return ==
  /\ calls # << >> /\ Last(calls).todo = {}
  /\ LET n      == Last(calls).node
         rest   == Front(calls)
         popped == IF index[n] = lowlink[n] THEN FromNode(n) ELSE {}
     IN  /\ stack' = SubSeq(stack, 1, Len(stack) - Cardinality(popped))
         /\ onStack' = onStack \ popped
         /\ sccs' = sccs \cup (IF Cardinality(popped) > 1 THEN {popped} ELSE {})
         /\ lowlink' = IF rest = << >> THEN lowlink
                       ELSE [lowlink EXCEPT ![Last(rest).node] =
                               IF lowlink[n] < @ THEN lowlink[n] ELSE @]
         /\ calls' = rest
  /\ UNCHANGED <<index, indexCount, lpc, nodes, nodeSuccs, nodePrevs, reserved, loops,
                 bb2base, graphVars>>

\* strongly_connected_components: all nodes are visited
ReturnComponents ==
  /\ lpc = "components" /\ calls = << >>
  /\ \A n \in nodes : index[n] # NotVisited
  /\ lpc' = IF sccs = {} THEN "end" ELSE "loops"
  /\ UNCHANGED <<nodes, nodeSuccs, nodePrevs, reserved, sccs, loops, bb2base, graphVars,
                 tarjanVars>>

\* Faulty variant: the marks are not reset between the rounds.
NextLoopKeepsMarks == NextLoop /\ UNCHANGED tarjanVars

\* a loop is entered; after the last one the marks of the nodes left are reset
\* (index_count and the stack at the next call)
TarjanNextLoop ==
  /\ NextLoop
  /\ IF lpc' = "loops" THEN UNCHANGED tarjanVars
     ELSE /\ index'   = [b \in Block |-> IF b \in nodes' THEN NotVisited ELSE index[b]]
          /\ lowlink' = [b \in Block |-> IF b \in nodes' THEN NotVisited ELSE lowlink[b]]
          /\ onStack' = onStack \ nodes'
          /\ indexCount' = 0 /\ stack' = << >>
          /\ UNCHANGED calls

TarjanNext ==
  \/ TarjanBuildCfg
  \/ VisitRoot \/ LookAtSucc \/ Return \/ ReturnComponents
  \/ TarjanNextLoop
----------------------------------------------------------------------------
(***************************************************************************)
(* Properties                                                              *)
(***************************************************************************)

(* The flags say what is on the stack, and there each node reaches all the  *)
(* later ones: a node stays on the stack after its call only if it leads    *)
(* back to a call that is still open.                                       *)
StackIsChained ==
  /\ onStack = Range(stack)
  /\ \A i, j \in DOMAIN stack : i < j => stack[j] \in Onward(nodeSuccs, stack[i])

\* The components found so far are in sccs, the contract has them at the end.
Contract == INSTANCE LoopSearch WITH sccs <- IF lpc = "components" THEN {} ELSE sccs

(* The traversal returns the components of the nodes that are left, in      *)
(* every round and in whatever order it goes over the sets.                 *)
FindsTheComponents == Contract!LoopSpec
=============================================================================

----------------------------- MODULE TarjanProofs -----------------------------
(***************************************************************************)
(* Proofs about the traversal of LoopSearch on the functions the builder   *)
(* makes, of any size: strongly_connected_components returns the           *)
(* components of the nodes that are left, in every round, so that module   *)
(* Tarjan implements module LoopSearch.                                    *)
(*                                                                         *)
(* The stack holds the nodes of the components that are not known to be    *)
(* complete.  Each of its nodes leads to those above it, and back to a     *)
(* call that is open and not above it; lowlink of an open call is the      *)
(* lowest index on the stack that the edges looked at lead to, from the    *)
(* nodes between this call and the next.                                   *)
(***************************************************************************)
EXTENDS TarjanOfBuilt, FunctionBuilderProofs

\* From x to y along any number of edges.
Leads(x, y) == x = y \/ y \in Onward(nodeSuccs, x)

Visited  == {n \in nodes : index[n] # NotVisited}
Complete == Visited \ onStack

NodesOK ==
  /\ nodes \subseteq Block
  /\ nodeSuccs \in [Block -> SUBSET Block] /\ nodePrevs \in [Block -> SUBSET Block]
  /\ \A n \in nodes :
       /\ nodeSuccs[n] \subseteq nodes /\ nodePrevs[n] \subseteq nodes
       /\ \A m \in nodes : m \in nodeSuccs[n] <=> n \in nodePrevs[m]

CallRec == [node : Block, todo : SUBSET Block]

MarksTypeOK ==
  /\ index \in [Block -> Int] /\ lowlink \in [Block -> Int] /\ indexCount \in Nat
  /\ stack \in Seq(Block) /\ onStack = Range(stack)
  /\ calls \in Seq(CallRec)

\* The indices count the visits.
IndexOK == \A x \in Visited : index[x] \in Nat /\ index[x] < indexCount

\* The stack is in the order of the visits, and each node leads to the later ones.
StackOK ==
  /\ onStack \subseteq Visited
  /\ \A i, j \in DOMAIN stack : i < j => index[stack[i]] < index[stack[j]]
  /\ \A x, y \in onStack : index[x] < index[y] => y \in Onward(nodeSuccs, x)

\* The open calls are on the stack, and each of its nodes leads back to one.
CallsOK ==
  /\ \A i \in DOMAIN calls : calls[i].node \in onStack
  /\ \A i, j \in DOMAIN calls : i < j => index[calls[i].node] < index[calls[j].node]
  /\ \A x \in onStack : \E i \in DOMAIN calls :
       index[calls[i].node] <= index[x] /\ Leads(x, calls[i].node)
  /\ \A i \in DOMAIN calls : calls[i].todo \subseteq nodeSuccs[calls[i].node]

\* traverse has looked at the edge from x to y.
Looked(x, y) == \A i \in DOMAIN calls : calls[i].node = x => y \notin calls[i].todo

EdgesOK ==
  /\ \A x \in Visited : \A y \in nodeSuccs[x] : Looked(x, y) => y \in Visited
  /\ \A x \in Complete : nodeSuccs[x] \subseteq Complete

\* Open call i is the last that is not above x on the stack.
Owns(i, x) ==
  /\ index[calls[i].node] <= index[x]
  /\ \A j \in DOMAIN calls : i < j => index[x] < index[calls[j].node]

LowOK ==
  \A i \in DOMAIN calls :
    LET p == calls[i].node
    IN  /\ lowlink[p] <= index[p]
        /\ \E y \in onStack : index[y] = lowlink[p] /\ Leads(p, y)
        /\ \A x, y \in onStack :
             Owns(i, x) /\ y \in nodeSuccs[x] /\ Looked(x, y) => lowlink[p] <= index[y]

\* The component of b, of two nodes or more or a loop of one node.
Component(b) == {c \in Onward(nodeSuccs, b) : b \in Onward(nodeSuccs, c)}

SccsOK == sccs = {c \in {Component(b) : b \in Complete} : Cardinality(c) > 1}

Traversing == IndexOK /\ StackOK /\ CallsOK /\ EdgesOK /\ LowOK /\ SccsOK

\* The components that are left to enter are apart, and whole.
ToEnter ==
  /\ \A scc \in sccs : scc \subseteq nodes
  /\ \A s, t \in sccs : s = t \/ s \cap t = {}

TInv ==
  /\ NodesOK /\ MarksTypeOK
  /\ \/ lpc = "idle" /\ RInv /\ TarjanInit
     \/ lpc = "components" /\ Traversing
     \/ lpc = "loops" /\ ToEnter /\ calls = << >> /\ stack = << >>
     \/ lpc = "end" /\ calls = << >> /\ stack = << >>
----------------------------------------------------------------------------
(***************************************************************************)
(* What the invariant says of a state of the traversal.                    *)
(***************************************************************************)
Walking == NodesOK /\ MarksTypeOK /\ Traversing

\* Values as the visits leave them.
LEMMA MarksFacts ==
  ASSUME MarksTypeOK
  PROVE  /\ \A x \in Block : index[x] \in Int /\ lowlink[x] \in Int
         /\ Len(stack) \in Nat /\ DOMAIN stack = 1..Len(stack)
         /\ \A i \in 1..Len(stack) : stack[i] \in Block /\ stack[i] \in onStack
         /\ \A x \in onStack : x \in Block /\ \E i \in 1..Len(stack) : stack[i] = x
         /\ Len(calls) \in Nat /\ DOMAIN calls = 1..Len(calls)
         /\ calls # << >> => Len(calls) \in 1..Len(calls)
         /\ \A i \in 1..Len(calls) :
              calls[i] \in CallRec /\ calls[i].node \in Block /\ calls[i].todo \in SUBSET Block
<1>1. \A x \in Block : index[x] \in Int /\ lowlink[x] \in Int
  BY DEF MarksTypeOK
<1>2. /\ Len(stack) \in Nat /\ DOMAIN stack = 1..Len(stack)
      /\ \A i \in 1..Len(stack) : stack[i] \in Block
  BY DEF MarksTypeOK
<1>3. /\ \A i \in 1..Len(stack) : stack[i] \in onStack
      /\ \A x \in onStack : x \in Block /\ \E i \in 1..Len(stack) : stack[i] = x
  BY <1>2 DEF MarksTypeOK, Range
<1>4. /\ Len(calls) \in Nat /\ DOMAIN calls = 1..Len(calls)
      /\ calls # << >> => Len(calls) \in 1..Len(calls)
      /\ \A i \in 1..Len(calls) : calls[i] \in CallRec
  BY DEF MarksTypeOK
<1>5. \A c \in CallRec : c.node \in Block /\ c.todo \in SUBSET Block
  BY DEF CallRec
<1>. QED
  BY <1>1, <1>2, <1>3, <1>4, <1>5

\* Leading somewhere, and from there further.
LEMMA LeadsOn ==
  ASSUME nodeSuccs \in Edging
  PROVE  /\ \A x \in Block : Onward(nodeSuccs, x) \subseteq Block
         /\ \A x \in Block : \A y \in nodeSuccs[x] : y \in Onward(nodeSuccs, x)
         /\ \A x, y \in Block : \A z \in Onward(nodeSuccs, y) :
              Leads(x, y) => z \in Onward(nodeSuccs, x)
         /\ \A x, y, z \in Block : Leads(x, y) /\ Leads(y, z) => Leads(x, z)
<1>1. \A x \in Block : Onward(nodeSuccs, x) \subseteq Block
                       /\ nodeSuccs[x] \subseteq Onward(nodeSuccs, x)
  BY Along
<1>2. \A x \in Block : \A y \in Onward(nodeSuccs, x) : Onward(nodeSuccs, y) \subseteq Onward(nodeSuccs, x)
  BY AlongFurther
<1>. QED
  BY <1>1, <1>2 DEF Leads

\* The stack: an index is that of one node, a node leads to those above it and
\* to an open call that is not above it, so to the call on top.
LEMMA StackFacts ==
  ASSUME Walking
  PROVE  /\ nodeSuccs \in Edging /\ onStack \subseteq Visited /\ Visited \subseteq Block
         /\ nodes \subseteq Block
         /\ \A x \in Visited : index[x] \in Nat /\ index[x] < indexCount
         /\ \A x, y \in onStack : index[x] <= index[y] => Leads(x, y)
         /\ \A x, y \in onStack : index[x] = index[y] => x = y
         /\ calls # << >> => \A x \in onStack : Leads(x, calls[Len(calls)].node)
         /\ calls = << >> => onStack = {} /\ stack = << >>
<1>1. /\ nodeSuccs \in Edging /\ onStack \subseteq Visited /\ Visited \subseteq Block
      /\ nodes \subseteq Block
      /\ \A x \in Visited : index[x] \in Nat /\ index[x] < indexCount
  BY DEF Walking, NodesOK, Traversing, IndexOK, StackOK, Visited, Edging
<1>2. ASSUME NEW x \in onStack, NEW y \in onStack, index[x] = index[y]
      PROVE  x = y
  <2>1. PICK i, j \in 1..Len(stack) : stack[i] = x /\ stack[j] = y
    BY <1>2, MarksFacts DEF Walking
  <2>2. i < j \/ j < i \/ i = j
    BY <2>1, MarksFacts DEF Walking
  <2>3. /\ \A a, b \in 1..Len(stack) : a < b => index[stack[a]] < index[stack[b]]
        /\ index[x] \in Int /\ index[y] \in Int
    BY MarksFacts DEF Walking, Traversing, StackOK
  <2>. QED
    BY <1>2, <2>1, <2>2, <2>3
<1>3. ASSUME NEW x \in onStack, NEW y \in onStack, index[x] <= index[y]
      PROVE  Leads(x, y)
  <2>1. index[x] < index[y] \/ index[x] = index[y]
    BY <1>1, <1>3
  <2>. QED
    BY <2>1, <1>2 DEF Leads, Walking, Traversing, StackOK
<1>4. ASSUME calls # << >>, NEW x \in onStack
      PROVE  Leads(x, calls[Len(calls)].node)
  <2>1. PICK i \in DOMAIN calls : Leads(x, calls[i].node)
    BY DEF Walking, Traversing, CallsOK
  <2>2. /\ i \in 1..Len(calls) /\ Len(calls) \in 1..Len(calls) /\ DOMAIN calls = 1..Len(calls)
        /\ Len(calls) \in Nat
    BY <1>4, <2>1, MarksFacts DEF Walking
  <2>3. i = Len(calls) \/ i < Len(calls)
    BY <2>2
  <2>4. calls[i].node \in onStack /\ calls[Len(calls)].node \in onStack
    BY <2>2 DEF Walking, Traversing, CallsOK
  <2>5. index[calls[i].node] <= index[calls[Len(calls)].node]
    <3>1. index[calls[i].node] \in Nat /\ index[calls[Len(calls)].node] \in Nat
      BY <1>1, <2>4
    <3>2. i < Len(calls) => index[calls[i].node] < index[calls[Len(calls)].node]
      BY <2>2 DEF Walking, Traversing, CallsOK
    <3>3. i = Len(calls) => index[calls[i].node] = index[calls[Len(calls)].node]
      OBVIOUS
    <3>. QED
      BY <2>3, <3>1, <3>2, <3>3
  <2>6. Leads(calls[i].node, calls[Len(calls)].node)
    BY <1>3, <2>4, <2>5
  <2>. QED
    BY <1>1, <2>1, <2>4, <2>6, LeadsOn
<1>5. ASSUME calls = << >>
      PROVE  onStack = {} /\ stack = << >>
  <2>1. DOMAIN calls = {}
    BY <1>5
  <2>2. onStack = {}
    BY <2>1 DEF Walking, Traversing, CallsOK
  <2>3. Len(stack) = 0
    BY <2>2, MarksFacts DEF Walking
  <2>. QED
    BY <2>2, <2>3 DEF Walking, MarksTypeOK
<1>. QED
  BY <1>1, <1>2, <1>3, <1>4, <1>5
----------------------------------------------------------------------------
(***************************************************************************)
(* The steps of the traversal.                                             *)
(***************************************************************************)
SameNodes == UNCHANGED <<nodes, nodeSuccs, nodePrevs>>

\* The calls, the successor su of the last one looked at.
Lessened(on, su) ==
  /\ on \in Seq(CallRec) /\ Len(on) = Len(calls)
  /\ \A i \in 1..Len(calls) :
       /\ on[i].node = calls[i].node
       /\ on[i].todo = IF i = Len(calls) THEN calls[i].todo \ {su} ELSE calls[i].todo

\* The iterator of the loop goes on.
LEMMA OneLess ==
  ASSUME MarksTypeOK, calls # << >>, NEW su
  PROVE  Lessened([calls EXCEPT ![Len(calls)].todo = @ \ {su}], su)
<1>. DEFINE K == Len(calls)
            on == [calls EXCEPT ![K].todo = @ \ {su}]
<1>1. K \in 1..K /\ calls \in Seq(CallRec) /\ K \in Nat /\ DOMAIN calls = 1..K
      /\ \A i \in 1..K : calls[i] \in CallRec
  BY MarksFacts DEF MarksTypeOK
<1>2. \A c \in CallRec : [c EXCEPT !.todo = @ \ {su}] \in CallRec
                         /\ [c EXCEPT !.todo = @ \ {su}].node = c.node
                         /\ [c EXCEPT !.todo = @ \ {su}].todo = c.todo \ {su}
  BY DEF CallRec
<1>3. on = [calls EXCEPT ![K] = [calls[K] EXCEPT !.todo = @ \ {su}]]
  BY <1>1
<1>4. calls[K] \in CallRec
  BY <1>1
<1>5. on \in Seq(CallRec) /\ Len(on) = K /\ \A i \in 1..K : i # K => on[i] = calls[i]
  <2>. HIDE DEF on
  <2>1. [calls[K] EXCEPT !.todo = @ \ {su}] \in CallRec
    BY <1>2, <1>4
  <2>. QED
    BY <1>1, <1>3, <2>1
<1>6. on[K] = [calls[K] EXCEPT !.todo = @ \ {su}]
  BY <1>1
<1>7. on[K].node = calls[K].node /\ on[K].todo = calls[K].todo \ {su}
  BY <1>2, <1>4, <1>6
<1>. HIDE DEF on
<1>8. Lessened(on, su)
  BY <1>1, <1>5, <1>7 DEF Lessened
<1>. QED
  BY <1>8 DEF on

\* A call of traverse opens: n is a node that was not visited, the root of a
\* search or a successor of the last call.
LEMMA TraverseKeeps ==
  ASSUME Walking, NEW n \in nodes, index[n] = NotVisited,
         calls # << >> => n \in calls[Len(calls)].todo,
         NEW rest, Lessened(rest, n), Traverse(n, rest), SameNodes, sccs' = sccs
  PROVE  Walking'
<1>. DEFINE K == Len(calls)
<1>1. /\ index' = [index EXCEPT ![n] = indexCount] /\ lowlink' = [lowlink EXCEPT ![n] = indexCount]
      /\ indexCount' = indexCount + 1 /\ stack' = Append(stack, n)
      /\ onStack' = onStack \cup {n}
      /\ calls' = Append(rest, [node |-> n, todo |-> nodeSuccs[n]])
      /\ nodes' = nodes /\ nodeSuccs' = nodeSuccs /\ nodePrevs' = nodePrevs
  BY DEF Traverse, SameNodes
<1>2. /\ NodesOK /\ MarksTypeOK /\ IndexOK /\ StackOK /\ CallsOK /\ EdgesOK /\ LowOK /\ SccsOK
  BY DEF Walking, Traversing
<1>3. /\ nodeSuccs \in Edging /\ onStack \subseteq Visited /\ Visited \subseteq Block
      /\ n \in Block /\ n \notin Visited /\ n \notin onStack
      /\ indexCount \in Nat
      /\ nodeSuccs[n] \in SUBSET Block
  BY <1>2, StackFacts DEF Visited, Edging, NodesOK, MarksTypeOK
<1>4. /\ index'[n] = indexCount /\ lowlink'[n] = indexCount
      /\ \A x \in Block \ {n} : index'[x] = index[x] /\ lowlink'[x] = lowlink[x]
      /\ index' \in [Block -> Int] /\ lowlink' \in [Block -> Int]
  BY <1>1, <1>2, <1>3 DEF MarksTypeOK
<1>5. /\ K \in Nat /\ Len(calls') = K + 1 /\ DOMAIN calls' = 1..K + 1 /\ DOMAIN calls = 1..K
      /\ calls' \in Seq(CallRec)
      /\ calls'[K + 1].node = n /\ calls'[K + 1].todo = nodeSuccs[n]
      /\ \A i \in 1..K : calls'[i] = rest[i]
  <2>1. [node |-> n, todo |-> nodeSuccs[n]] \in CallRec
    BY <1>3 DEF CallRec
  <2>2. rest \in Seq(CallRec) /\ Len(rest) = K
    BY DEF Lessened
  <2>3. \A r \in CallRec : /\ Append(rest, r) \in Seq(CallRec) /\ Len(Append(rest, r)) = K + 1
                           /\ \A i \in 1..K : Append(rest, r)[i] = rest[i]
                           /\ Append(rest, r)[K + 1] = r
    BY <2>2
  <2>4. calls'[K + 1] = [node |-> n, todo |-> nodeSuccs[n]]
    BY <1>1, <2>1, <2>3
  <2>5. K \in Nat /\ DOMAIN calls = 1..K
    BY <1>2, MarksFacts
  <2>6. calls' \in Seq(CallRec) /\ Len(calls') = K + 1 /\ \A i \in 1..K : calls'[i] = rest[i]
    BY <1>1, <2>1, <2>3
  <2>. QED
    BY <2>4, <2>5, <2>6
<1>6. \A i \in 1..K : /\ calls'[i].node = calls[i].node
                      /\ calls'[i].todo = IF i = K THEN calls[i].todo \ {n} ELSE calls[i].todo
  BY <1>5 DEF Lessened
<1>7. \A i \in 1..K : calls[i].node \in onStack /\ calls[i].node # n /\ calls[i].node \in Block
  BY <1>2, <1>3, <1>5 DEF CallsOK
<1>. HIDE DEF K
<1>8. \A i \in DOMAIN calls' : i \in 1..K \/ i = K + 1
  BY <1>5
<1>9. /\ \A i \in 1..K : index'[calls'[i].node] = index[calls[i].node]
                         /\ index[calls[i].node] < indexCount /\ index[calls[i].node] \in Nat
      /\ index'[calls'[K + 1].node] = indexCount
  <2>1. \A i \in 1..K : /\ index[calls[i].node] < indexCount /\ index[calls[i].node] \in Nat
    BY <1>3, <1>7, StackFacts
  <2>2. \A i \in 1..K : index'[calls'[i].node] = index[calls[i].node]
    BY <1>4, <1>6, <1>7
  <2>. QED
    BY <1>4, <1>5, <2>1, <2>2
<1>10. Visited' = Visited \cup {n} /\ Complete' = Complete
  <2>1. \A x \in nodes : index'[x] # NotVisited <=> index[x] # NotVisited \/ x = n
    BY <1>2, <1>3, <1>4 DEF NodesOK, NotVisited
  <2>2. Visited' = Visited \cup {n}
    BY <1>1, <2>1 DEF Visited
  <2>. QED
    BY <1>1, <1>3, <2>2 DEF Complete
<1>11. NodesOK'
  BY <1>1, <1>2 DEF NodesOK
<1>12. MarksTypeOK' /\ \A i \in DOMAIN stack' : i \in Nat
       /\ IF i \in DOMAIN stack THEN stack'[i] = stack[i] ELSE stack'[i] = n /\ i = Len(stack) + 1
  <2>1. stack \in Seq(Block) /\ onStack = Range(stack)
    BY <1>2 DEF MarksTypeOK
  <2>2. Range(stack') = onStack \cup {n}
    BY <1>1, <1>3, <2>1, AppendRange
  <2>3. stack' \in Seq(Block) /\ \A i \in DOMAIN stack' : i \in Nat
       /\ IF i \in DOMAIN stack THEN stack'[i] = stack[i] ELSE stack'[i] = n /\ i = Len(stack) + 1
    BY <1>1, <1>3, <2>1
  <2>. QED
    BY <1>1, <1>3, <1>4, <1>5, <2>2, <2>3 DEF MarksTypeOK
<1>13. IndexOK'
  BY <1>1, <1>2, <1>3, <1>4, <1>10 DEF IndexOK
<1>14. \A x \in onStack : n \in Onward(nodeSuccs, x)
  <2>1. CASE calls = << >>
    BY <2>1, StackFacts
  <2>2. CASE calls # << >>
    <3>1. K \in 1..K /\ n \in nodeSuccs[calls[K].node] /\ calls[K].node \in Block
      BY <1>2, <1>5, <1>7, <2>2, MarksFacts DEF CallsOK, K
    <3>2. n \in Onward(nodeSuccs, calls[K].node)
      BY <1>3, <3>1, LeadsOn
    <3>3. \A x \in onStack : Leads(x, calls[K].node) /\ x \in Block
      BY <1>3, <2>2, StackFacts DEF K
    <3>. QED
      BY <1>3, <3>1, <3>2, <3>3, LeadsOn
  <2>. QED
    BY <2>1, <2>2
<1>15. StackOK'
  <2>1. onStack' \subseteq Visited'
    BY <1>1, <1>2, <1>10 DEF StackOK
  <2>2. ASSUME NEW i \in DOMAIN stack', NEW j \in DOMAIN stack', i < j
        PROVE  index'[stack'[i]] < index'[stack'[j]]
    <3>1. i \in DOMAIN stack /\ stack'[i] = stack[i] /\ stack[i] \in onStack
      BY <1>2, <1>12, <2>2, MarksFacts
    <3>2. index'[stack'[i]] = index[stack[i]] /\ index[stack[i]] < indexCount
      BY <1>3, <1>4, <3>1, StackFacts
    <3>3. CASE j \in DOMAIN stack
      <4>1. stack'[j] = stack[j] /\ stack[j] \in onStack
        BY <1>2, <1>12, <3>3, MarksFacts
      <4>2. index'[stack'[j]] = index[stack[j]]
        BY <1>3, <1>4, <4>1
      <4>. QED
        BY <1>2, <2>2, <3>1, <3>2, <3>3, <4>2 DEF StackOK
    <3>4. CASE j \notin DOMAIN stack
      BY <1>4, <1>12, <3>2, <3>4
    <3>. QED
      BY <3>3, <3>4
  <2>3. ASSUME NEW x \in onStack', NEW y \in onStack', index'[x] < index'[y]
        PROVE  y \in Onward(nodeSuccs, x)
    <3>1. x \in onStack
      BY <1>1, <1>3, <1>4, <2>3, StackFacts
    <3>. QED
      BY <1>1, <1>2, <1>3, <1>4, <1>14, <2>3, <3>1 DEF StackOK
  <2>. QED
    BY <1>1, <2>1, <2>2, <2>3 DEF StackOK
<1>16. CallsOK'
  <2>1. \A i \in DOMAIN calls' : calls'[i].node \in onStack'
    BY <1>1, <1>5, <1>6, <1>7, <1>8
  <2>2. ASSUME NEW i \in DOMAIN calls', NEW j \in DOMAIN calls', i < j
        PROVE  index'[calls'[i].node] < index'[calls'[j].node]
    <3>1. i \in 1..K /\ (j \in 1..K \/ j = K + 1)
      BY <1>5, <1>8, <2>2
    <3>. QED
      BY <1>2, <1>5, <1>9, <2>2, <3>1 DEF CallsOK
  <2>3. ASSUME NEW x \in onStack'
        PROVE  \E i \in DOMAIN calls' : index'[calls'[i].node] <= index'[x] /\ Leads(x, calls'[i].node)
    <3>1. CASE x = n
      <4>1. K + 1 \in DOMAIN calls' /\ index'[calls'[K + 1].node] <= index'[x]
        BY <1>3, <1>4, <1>5, <3>1
      <4>. QED
        BY <1>5, <3>1, <4>1 DEF Leads
    <3>2. CASE x # n
      <4>1. x \in onStack /\ index'[x] = index[x]
        BY <1>1, <1>3, <1>4, <3>2
      <4>2. PICK i \in DOMAIN calls : index[calls[i].node] <= index[x] /\ Leads(x, calls[i].node)
        BY <1>2, <4>1 DEF CallsOK
      <4>3. i \in DOMAIN calls' /\ i \in 1..K
        BY <1>5
      <4>. QED
        BY <1>6, <1>9, <4>1, <4>2, <4>3
    <3>. QED
      BY <3>1, <3>2
  <2>4. \A i \in DOMAIN calls' : calls'[i].todo \subseteq nodeSuccs[calls'[i].node]
    BY <1>2, <1>5, <1>6, <1>8 DEF CallsOK
  <2>. QED
    BY <1>1, <2>1, <2>2, <2>3, <2>4 DEF CallsOK, Leads
<1>17. \A x \in Block \ {n}, y \in Block \ {n} : Looked(x, y)' => Looked(x, y)
  <2>. SUFFICES ASSUME NEW x \in Block \ {n}, NEW y \in Block \ {n}, Looked(x, y)',
                       NEW i \in DOMAIN calls, calls[i].node = x, y \in calls[i].todo
                PROVE  FALSE
    BY DEF Looked
  <2>1. i \in 1..K /\ i \in DOMAIN calls'
    BY <1>5
  <2>2. calls'[i].node = x /\ y \in calls'[i].todo
    BY <1>6, <2>1
  <2>. QED
    BY <2>1, <2>2 DEF Looked
<1>18. \A y \in nodeSuccs[n] : ~Looked(n, y)'
  BY <1>5 DEF Looked
<1>19. EdgesOK'
  <2>1. ASSUME NEW x \in Visited', NEW y \in nodeSuccs[x], Looked(x, y)'
        PROVE  y \in Visited'
    <3>1. x \in Visited /\ x # n /\ y \in Block /\ x \in Block
      BY <1>3, <1>10, <1>18, <2>1 DEF Edging
    <3>. QED
      BY <1>2, <1>10, <1>17, <2>1, <3>1 DEF EdgesOK
  <2>. QED
    BY <1>1, <1>2, <1>10, <2>1 DEF EdgesOK
<1>20. LowOK'
  <2>. SUFFICES ASSUME NEW i \in DOMAIN calls', NEW p, p = calls'[i].node
                PROVE  /\ lowlink'[p] <= index'[p]
                       /\ \E y \in onStack' : index'[y] = lowlink'[p] /\ Leads(p, y)
                       /\ \A x, y \in onStack' :
                            Owns(i, x)' /\ y \in nodeSuccs[x] /\ Looked(x, y)' => lowlink'[p] <= index'[y]
    BY <1>1 DEF LowOK, Leads
  <2>1. CASE i = K + 1
    <3>1. p = n /\ lowlink'[p] = indexCount /\ index'[p] = indexCount
      BY <1>4, <1>5, <2>1
    <3>2. n \in onStack' /\ Leads(n, n)
      BY <1>1 DEF Leads
    <3>3. ASSUME NEW x \in onStack', NEW y \in onStack',
                 Owns(i, x)', y \in nodeSuccs[x], Looked(x, y)'
          PROVE  FALSE
      <4>1. indexCount <= index'[x]
        BY <3>1, <3>3 DEF Owns
      <4>2. x = n
        BY <1>1, <1>3, <1>4, <4>1, StackFacts
      <4>. QED
        BY <1>18, <3>3, <4>2
    <3>. QED
      BY <1>3, <3>1, <3>2, <3>3
  <2>2. CASE i \in 1..K
    <3>1. /\ p = calls[i].node /\ p \in onStack /\ p # n /\ p \in Block /\ i \in DOMAIN calls
          /\ lowlink'[p] = lowlink[p] /\ index'[p] = index[p]
          /\ lowlink[p] \in Int /\ index[p] \in Int
      BY <1>2, <1>4, <1>5, <1>6, <1>7, <2>2, MarksFacts
    <3>2. /\ lowlink[p] <= index[p]
          /\ \E y \in onStack : index[y] = lowlink[p] /\ Leads(p, y)
          /\ \A x, y \in onStack :
               Owns(i, x) /\ y \in nodeSuccs[x] /\ Looked(x, y) => lowlink[p] <= index[y]
      BY <1>2, <3>1 DEF LowOK
    <3>3. \E y \in onStack' : index'[y] = lowlink'[p] /\ Leads(p, y)
      <4>1. PICK y \in onStack : index[y] = lowlink[p] /\ Leads(p, y)
        BY <3>2
      <4>2. y \in onStack' /\ index'[y] = index[y]
        BY <1>1, <1>3, <1>4
      <4>. QED
        BY <3>1, <4>1, <4>2
    <3>4. ASSUME NEW x \in onStack', NEW y \in onStack',
                 Owns(i, x)', y \in nodeSuccs[x], Looked(x, y)'
          PROVE  lowlink'[p] <= index'[y]
      <4>1. /\ index'[calls'[i].node] <= index'[x]
            /\ \A j \in DOMAIN calls' : i < j => index'[x] < index'[calls'[j].node]
        BY <3>4 DEF Owns
      <4>2. K + 1 \in DOMAIN calls' /\ i < K + 1
        BY <1>5, <2>2
      <4>3. index'[x] < indexCount
        BY <1>9, <4>1, <4>2
      <4>4. x # n /\ x \in onStack /\ index'[x] = index[x] /\ x \in Block
        BY <1>1, <1>3, <1>4, <4>3
      <4>5. Owns(i, x)
        <5>1. index[calls[i].node] <= index[x]
          BY <1>6, <1>9, <2>2, <4>1, <4>4
        <5>2. ASSUME NEW j \in DOMAIN calls, i < j
              PROVE  index[x] < index[calls[j].node]
          <6>1. j \in 1..K /\ j \in DOMAIN calls'
            BY <1>5, <5>2
          <6>2. index'[x] < index'[calls'[j].node]
            BY <4>1, <5>2, <6>1
          <6>. QED
            BY <1>6, <1>9, <4>4, <6>1, <6>2
        <5>. QED
          BY <5>1, <5>2 DEF Owns
      <4>6. CASE y = n
        <5>1. index[p] < indexCount /\ lowlink[p] <= index[p]
          BY <1>9, <2>2, <3>1, <3>2
        <5>. QED
          BY <1>3, <1>4, <3>1, <4>6, <5>1
      <4>7. CASE y # n
        <5>1. y \in onStack /\ y \in Block /\ index'[y] = index[y]
          BY <1>1, <1>3, <1>4, <4>7
        <5>2. Looked(x, y)
          BY <1>17, <3>4, <4>4, <4>7, <5>1
        <5>. QED
          BY <3>1, <3>2, <3>4, <4>4, <4>5, <5>1, <5>2
      <4>. QED
        BY <4>6, <4>7
    <3>. QED
      BY <3>1, <3>2, <3>3, <3>4
  <2>. QED
    BY <1>8, <2>1, <2>2
<1>21. SccsOK'
  BY <1>1, <1>2, <1>10 DEF SccsOK, Component
<1>. QED
  BY <1>11, <1>12, <1>13, <1>15, <1>16, <1>19, <1>20, <1>21 DEF Walking, Traversing
\* A successor that was visited lowers lowlink, if it is on the stack.
LEMMA VisitedSuccKeeps ==
  ASSUME Walking, calls # << >>, NEW n, n = calls[Len(calls)].node,
         NEW su, su \in calls[Len(calls)].todo, index[su] # NotVisited,
         Lessened(calls', su),
         lowlink' = [lowlink EXCEPT ![n] = IF su \in onStack /\ index[su] < @ THEN index[su] ELSE @],
         UNCHANGED <<index, onStack, indexCount, stack, sccs>>, SameNodes
  PROVE  Walking'
<1>. DEFINE K == Len(calls)
<1>1. /\ index' = index /\ indexCount' = indexCount /\ stack' = stack /\ onStack' = onStack
      /\ nodes' = nodes /\ nodeSuccs' = nodeSuccs /\ nodePrevs' = nodePrevs /\ sccs' = sccs
      /\ NodesOK /\ MarksTypeOK /\ IndexOK /\ StackOK /\ CallsOK /\ EdgesOK /\ LowOK /\ SccsOK
  BY DEF SameNodes, Walking, Traversing
<1>2. /\ K \in Nat /\ K \in 1..K /\ DOMAIN calls = 1..K /\ DOMAIN calls' = 1..K
      /\ calls' \in Seq(CallRec)
      /\ \A i \in 1..K : /\ calls'[i].node = calls[i].node
                         /\ calls'[i].todo = IF i = K THEN calls[i].todo \ {su} ELSE calls[i].todo
  <2>1. K \in Nat /\ K \in 1..K /\ DOMAIN calls = 1..K
    BY <1>1, MarksFacts
  <2>2. calls' \in Seq(CallRec) /\ Len(calls') = K
    BY DEF Lessened
  <2>3. DOMAIN calls' = 1..K
    BY <2>2
  <2>. QED
    BY <2>1, <2>2, <2>3 DEF Lessened
<1>. HIDE DEF K
<1>3. /\ nodeSuccs \in Edging /\ Visited \subseteq Block /\ onStack \subseteq Visited
      /\ \A x \in onStack : index[x] \in Nat
      /\ n = calls[K].node /\ n \in onStack /\ n \in Block
      /\ \A i \in 1..K : calls[i].node \in onStack /\ (calls[i].node = n => i = K)
  <2>1. /\ nodeSuccs \in Edging /\ Visited \subseteq Block /\ onStack \subseteq Visited
        /\ \A x \in onStack : index[x] \in Nat
    BY StackFacts
  <2>2. n = calls[K].node /\ \A i \in 1..K : calls[i].node \in onStack
    BY <1>1, <1>2 DEF CallsOK, K
  <2>3. n \in onStack /\ n \in Block /\ index[n] \in Nat
    BY <1>2, <2>1, <2>2
  <2>4. \A i \in 1..K : i = K \/ (i < K /\ index[calls[i].node] < index[n])
    BY <1>1, <1>2, <2>2 DEF CallsOK
  <2>. QED
    BY <2>1, <2>2, <2>3, <2>4
<1>4. su \in nodeSuccs[n] /\ su \in Visited /\ su \in Block
  <2>1. su \in nodeSuccs[n] /\ n \in nodes
    BY <1>1, <1>2, <1>3 DEF CallsOK, K, Visited
  <2>2. su \in nodes
    BY <1>1, <2>1 DEF NodesOK
  <2>. QED
    BY <1>3, <2>1, <2>2 DEF Visited
<1>5. lowlink' \in [Block -> Int] /\ \A x \in Block : lowlink[x] \in Int /\ index[x] \in Int
  BY <1>1, <1>4 DEF MarksTypeOK
<1>6. /\ \A x \in Block \ {n} : lowlink'[x] = lowlink[x]
      /\ lowlink'[n] = IF su \in onStack /\ index[su] < lowlink[n] THEN index[su] ELSE lowlink[n]
  BY <1>1, <1>3 DEF MarksTypeOK
<1>7. \A x, y : Looked(x, y)' => Looked(x, y) \/ (x = n /\ y = su)
  <2>. SUFFICES ASSUME NEW x, NEW y, Looked(x, y)', ~(x = n /\ y = su),
                       NEW i \in DOMAIN calls, calls[i].node = x, y \in calls[i].todo
                PROVE  FALSE
    BY DEF Looked
  <2>1. i \in 1..K /\ calls'[i].node = x
    BY <1>2
  <2>2. y \in calls'[i].todo
    BY <1>2, <1>3, <2>1
  <2>. QED
    BY <1>2, <2>1, <2>2 DEF Looked
<1>8. \A i \in 1..K : \A x : Owns(i, x)' <=> Owns(i, x)
  BY <1>1, <1>2 DEF Owns
<1>9. NodesOK' /\ MarksTypeOK' /\ IndexOK' /\ StackOK'
  <2>1. NodesOK' /\ MarksTypeOK'
    BY <1>1, <1>2, <1>5 DEF NodesOK, MarksTypeOK
  <2>2. UNCHANGED <<index, indexCount, stack, nodes, nodeSuccs>> /\ onStack' = onStack
    BY <1>1, <1>2
  <2>3. Visited' = Visited /\ IndexOK'
    BY <1>1, <2>2 DEF IndexOK, Visited
  <2>4. StackOK'
    BY <1>1, <2>2, <2>3 DEF StackOK
  <2>. QED
    BY <2>1, <2>3, <2>4
<1>10. CallsOK'
  <2>1. \A i \in DOMAIN calls' : calls'[i].node \in onStack /\ calls'[i].todo \subseteq nodeSuccs[calls'[i].node]
    BY <1>1, <1>2 DEF CallsOK
  <2>2. \A i, j \in DOMAIN calls' : i < j => index[calls'[i].node] < index[calls'[j].node]
    BY <1>1, <1>2 DEF CallsOK
  <2>3. \A x \in onStack : \E i \in DOMAIN calls' :
          index[calls'[i].node] <= index[x] /\ Leads(x, calls'[i].node)
    BY <1>1, <1>2 DEF CallsOK
  <2>. QED
    BY <1>1, <2>1, <2>2, <2>3 DEF CallsOK, Leads
<1>11. EdgesOK'
  <2>1. Visited' = Visited /\ Complete' = Complete
    BY <1>1 DEF Visited, Complete
  <2>2. /\ \A x \in Visited : \A y \in nodeSuccs[x] : Looked(x, y) => y \in Visited
        /\ \A x \in Complete : nodeSuccs[x] \subseteq Complete
    BY <1>1 DEF EdgesOK
  <2>. QED
    BY <1>1, <1>4, <1>7, <2>1, <2>2 DEF EdgesOK
<1>12. LowOK'
  <2>. SUFFICES ASSUME NEW i \in 1..K, NEW p, p = calls[i].node
                PROVE  /\ lowlink'[p] <= index[p]
                       /\ \E y \in onStack : index[y] = lowlink'[p] /\ Leads(p, y)
                       /\ \A x, y \in onStack :
                            Owns(i, x) /\ y \in nodeSuccs[x] /\ Looked(x, y)' => lowlink'[p] <= index[y]
    <3>1. ASSUME NEW i \in DOMAIN calls'
          PROVE  i \in 1..K /\ calls'[i].node = calls[i].node /\ \A x : Owns(i, x)' <=> Owns(i, x)
      BY <1>2, <1>8
    <3>2. \A x, y : Leads(x, y)' <=> Leads(x, y)
      BY <1>1 DEF Leads
    <3>. QED
      BY <1>1, <3>1, <3>2 DEF LowOK
  <2>1. /\ lowlink[p] <= index[p]
        /\ \E y \in onStack : index[y] = lowlink[p] /\ Leads(p, y)
        /\ \A x, y \in onStack :
             Owns(i, x) /\ y \in nodeSuccs[x] /\ Looked(x, y) => lowlink[p] <= index[y]
        /\ p \in Block
    BY <1>1, <1>2, <1>3 DEF LowOK
  <2>2. lowlink'[p] <= lowlink[p] /\ lowlink'[p] \in Int
    BY <1>5, <1>6, <2>1
  <2>3. lowlink'[p] <= index[p]
    BY <1>5, <2>1, <2>2
  <2>4. \E y \in onStack : index[y] = lowlink'[p] /\ Leads(p, y)
    <3>1. CASE lowlink'[p] = lowlink[p]
      BY <2>1, <3>1
    <3>2. CASE lowlink'[p] # lowlink[p]
      <4>1. p = n /\ su \in onStack /\ lowlink'[p] = index[su]
        BY <1>6, <2>1, <3>2
      <4>2. Leads(p, su)
        BY <1>3, <1>4, <4>1, LeadsOn DEF Leads
      <4>. QED
        BY <4>1, <4>2
    <3>. QED
      BY <3>1, <3>2
  <2>5. ASSUME NEW x \in onStack, NEW y \in onStack, Owns(i, x), y \in nodeSuccs[x], Looked(x, y)'
        PROVE  lowlink'[p] <= index[y]
    <3>1. index[y] \in Nat
      BY <1>3
    <3>2. CASE Looked(x, y)
      <4>1. lowlink[p] <= index[y]
        BY <2>1, <2>5, <3>2
      <4>. QED
        BY <1>5, <2>1, <2>2, <3>1, <4>1
    <3>3. CASE x = n /\ y = su
      <4>1. i = K
        <5>1. i # K => i < K /\ index[n] < index[n]
          BY <1>2, <1>3, <2>5, <3>3 DEF Owns
        <5>. QED
          BY <1>3, <5>1
      <4>2. p = n /\ su \in onStack
        BY <1>3, <3>3, <4>1
      <4>. QED
        BY <1>3, <1>5, <1>6, <3>1, <3>3, <4>2
    <3>. QED
      BY <1>7, <2>5, <3>2, <3>3
  <2>. QED
    BY <2>3, <2>4, <2>5
<1>13. SccsOK'
  BY <1>1 DEF SccsOK, Component, Complete, Visited
<1>. QED
  BY <1>9, <1>10, <1>11, <1>12, <1>13 DEF Walking, Traversing
\* What the end of a call leaves of the calls.
LEMMA OneCallLess ==
  ASSUME MarksTypeOK, calls # << >>, calls' = Front(calls)
  PROVE  /\ Len(calls) \in Nat /\ Len(calls) \in 1..Len(calls) /\ DOMAIN calls = 1..Len(calls)
         /\ calls' \in Seq(CallRec) /\ DOMAIN calls' = 1..Len(calls) - 1
         /\ \A i \in 1..Len(calls) - 1 : calls'[i] = calls[i]
         /\ calls' # << >> => Last(calls') = calls[Len(calls) - 1]
                              /\ Len(calls) - 1 \in 1..Len(calls) - 1
         /\ calls' = << >> => Len(calls) = 1
<1>1. /\ Len(calls) \in Nat /\ Len(calls) \in 1..Len(calls) /\ DOMAIN calls = 1..Len(calls)
      /\ calls \in Seq(CallRec)
  BY MarksFacts DEF MarksTypeOK
<1>2. /\ calls' \in Seq(CallRec) /\ Len(calls') = Len(calls) - 1
      /\ \A i \in 1..Len(calls) - 1 : calls'[i] = calls[i]
  BY <1>1 DEF Front
<1>3. DOMAIN calls' = 1..Len(calls) - 1
  BY <1>2
<1>4. calls' # << >> => Len(calls) - 1 \in 1..Len(calls) - 1
  <2>1. calls' # << >> => Len(calls') # 0
    BY <1>2
  <2>. QED
    BY <1>1, <1>2, <2>1
<1>5. calls' = << >> => Len(calls) = 1
  <2>1. calls' = << >> => Len(calls') = 0
    OBVIOUS
  <2>2. Len(calls') = Len(calls) - 1 /\ Len(calls) \in Nat
    BY <1>1, <1>2
  <2>. QED
    BY <2>1, <2>2
<1>. QED
  BY <1>1, <1>2, <1>3, <1>4, <1>5 DEF Last

\* The end of a call whose node leads below itself on the stack.
LEMMA OpenReturnKeeps ==
  ASSUME Walking, calls # << >>, NEW n, n = calls[Len(calls)].node,
         calls[Len(calls)].todo = {}, lowlink[n] # index[n], calls' = Front(calls),
         lowlink' = IF calls' = << >> THEN lowlink
                    ELSE [lowlink EXCEPT ![Last(calls').node] =
                            IF lowlink[n] < @ THEN lowlink[n] ELSE @],
         UNCHANGED <<index, onStack, indexCount, stack, sccs>>, SameNodes
  PROVE  Walking'
<1>. DEFINE K == Len(calls)
            q == calls[K - 1].node
<1>1. /\ index' = index /\ indexCount' = indexCount /\ stack' = stack /\ onStack' = onStack
      /\ nodes' = nodes /\ nodeSuccs' = nodeSuccs /\ nodePrevs' = nodePrevs /\ sccs' = sccs
      /\ NodesOK /\ MarksTypeOK /\ IndexOK /\ StackOK /\ CallsOK /\ EdgesOK /\ LowOK /\ SccsOK
  BY DEF SameNodes, Walking, Traversing
<1>2. /\ K \in Nat /\ K \in 1..K /\ DOMAIN calls = 1..K /\ DOMAIN calls' = 1..K - 1
      /\ calls' \in Seq(CallRec)
      /\ \A i \in 1..K - 1 : calls'[i] = calls[i] /\ i \in 1..K
  BY <1>1, OneCallLess
<1>3. /\ calls' # << >> => Last(calls').node = q /\ K - 1 \in 1..K - 1
      /\ calls' = << >> => K = 1
  BY <1>1, OneCallLess
<1>. HIDE DEF K, q
<1>4. /\ nodeSuccs \in Edging /\ Visited \subseteq Block /\ onStack \subseteq Visited
      /\ \A x \in onStack : index[x] \in Nat
      /\ n = calls[K].node /\ n \in onStack /\ n \in Block
      /\ \A i \in 1..K : calls[i].node \in onStack /\ calls[i].node \in Block
      /\ \A i \in 1..K - 1 : index[calls[i].node] < index[n]
      /\ \A x \in Block : lowlink[x] \in Int
  <2>1. /\ nodeSuccs \in Edging /\ Visited \subseteq Block /\ onStack \subseteq Visited
        /\ \A x \in onStack : index[x] \in Nat
    BY StackFacts
  <2>2. n = calls[K].node /\ \A i \in 1..K : calls[i].node \in onStack
    BY <1>1, <1>2 DEF CallsOK, K
  <2>3. \A i \in 1..K - 1 : index[calls[i].node] < index[n]
    BY <1>1, <1>2, <2>2 DEF CallsOK
  <2>4. \A x \in Block : lowlink[x] \in Int
    BY <1>1, MarksFacts
  <2>. QED
    BY <1>2, <2>1, <2>2, <2>3, <2>4
<1>5. /\ lowlink[n] < index[n]
      /\ \E y \in onStack : index[y] = lowlink[n] /\ Leads(n, y)
      /\ \A x, y \in onStack :
           Owns(K, x) /\ y \in nodeSuccs[x] /\ Looked(x, y) => lowlink[n] <= index[y]
  <2>1. K \in DOMAIN calls /\ n = calls[K].node
    BY <1>2, <1>4
  <2>2. /\ lowlink[n] <= index[n]
        /\ \E y \in onStack : index[y] = lowlink[n] /\ Leads(n, y)
        /\ \A x, y \in onStack :
             Owns(K, x) /\ y \in nodeSuccs[x] /\ Looked(x, y) => lowlink[n] <= index[y]
    BY <1>1, <2>1 DEF LowOK
  <2>. QED
    BY <1>4, <2>2
<1>6. PICK y \in onStack : index[y] = lowlink[n] /\ Leads(n, y)
  BY <1>5
<1>7. PICK j \in 1..K - 1 : index[calls[j].node] <= index[y] /\ Leads(y, calls[j].node)
  <2>1. PICK j \in 1..K : index[calls[j].node] <= index[y] /\ Leads(y, calls[j].node)
    BY <1>1, <1>2 DEF CallsOK
  <2>2. j # K
    BY <1>4, <1>5, <1>6, <2>1
  <2>. QED
    BY <1>2, <2>1, <2>2
<1>8. /\ K - 1 \in 1..K - 1 /\ q \in onStack /\ q \in Block /\ q = calls[K - 1].node
      /\ \A x \in Block \ {q} : lowlink'[x] = lowlink[x]
      /\ lowlink'[q] = IF lowlink[n] < lowlink[q] THEN lowlink[n] ELSE lowlink[q]
      /\ lowlink' \in [Block -> Int]
  <2>1. calls' # << >> /\ K - 1 \in 1..K - 1
    BY <1>2, <1>3, <1>7
  <2>2. q \in onStack /\ q \in Block /\ q = calls[K - 1].node
    BY <1>2, <1>4, <2>1 DEF q
  <2>3. lowlink' = [lowlink EXCEPT ![q] = IF lowlink[n] < @ THEN lowlink[n] ELSE @]
    BY <1>3, <2>1
  <2>4. lowlink \in [Block -> Int] /\ lowlink[q] \in Int /\ lowlink[n] \in Int
    BY <1>1, <1>4, <2>2 DEF MarksTypeOK
  <2>. QED
    BY <1>1, <1>4, <2>1, <2>2, <2>3, <2>4
<1>9. \A x, z : Looked(x, z)' => Looked(x, z)
  <2>. SUFFICES ASSUME NEW x, NEW z, Looked(x, z)',
                       NEW i \in DOMAIN calls, calls[i].node = x, z \in calls[i].todo
                PROVE  FALSE
    BY DEF Looked
  <2>1. i \in 1..K - 1
    BY <1>2 DEF K
  <2>. QED
    BY <1>2, <2>1 DEF Looked
<1>10. NodesOK' /\ MarksTypeOK' /\ IndexOK' /\ StackOK'
  <2>1. NodesOK' /\ MarksTypeOK'
    BY <1>1, <1>2, <1>8 DEF NodesOK, MarksTypeOK
  <2>2. UNCHANGED <<index, indexCount, stack, nodes, nodeSuccs>> /\ onStack' = onStack
    BY <1>1, <1>2
  <2>3. Visited' = Visited /\ IndexOK'
    BY <1>1, <2>2 DEF IndexOK, Visited
  <2>4. StackOK'
    BY <1>1, <2>2, <2>3 DEF StackOK
  <2>. QED
    BY <2>1, <2>3, <2>4
<1>11. CallsOK'
  <2>1. \A i \in DOMAIN calls' : calls'[i].node \in onStack /\ calls'[i].todo \subseteq nodeSuccs[calls'[i].node]
    BY <1>1, <1>2 DEF CallsOK
  <2>2. \A a, b \in DOMAIN calls' : a < b => index[calls'[a].node] < index[calls'[b].node]
    BY <1>1, <1>2 DEF CallsOK
  <2>3. ASSUME NEW x \in onStack
        PROVE  \E i \in DOMAIN calls' : index[calls'[i].node] <= index[x] /\ Leads(x, calls'[i].node)
    <3>1. PICK i \in 1..K : index[calls[i].node] <= index[x] /\ Leads(x, calls[i].node)
      BY <1>1, <1>2 DEF CallsOK
    <3>2. CASE i = K
      <4>1. Leads(x, calls[j].node)
        <5>1. x \in Block /\ y \in Block /\ calls[j].node \in Block /\ Leads(x, n)
          BY <1>2, <1>4, <3>1, <3>2
        <5>. QED
          BY <1>4, <1>6, <1>7, <5>1, LeadsOn
      <4>2. index[calls[j].node] <= index[x]
        <5>1. /\ index[calls[j].node] \in Nat /\ index[x] \in Nat /\ index[n] \in Nat
              /\ index[calls[j].node] < index[n] /\ index[n] <= index[x]
          BY <1>2, <1>4, <3>1, <3>2
        <5>. QED
          BY <5>1
      <4>. QED
        BY <1>2, <4>1, <4>2
    <3>3. CASE i # K
      <4>1. i \in 1..K - 1
        BY <1>2, <3>3
      <4>. QED
        BY <1>2, <3>1, <4>1
    <3>. QED
      BY <3>2, <3>3
  <2>. QED
    BY <1>1, <2>1, <2>2, <2>3 DEF CallsOK, Leads
<1>12. EdgesOK'
  BY <1>1, <1>9 DEF EdgesOK, Visited, Complete
<1>13. LowOK'
  <2>. SUFFICES ASSUME NEW i \in 1..K - 1, NEW p, p = calls[i].node
                PROVE  /\ lowlink'[p] <= index[p]
                       /\ \E z \in onStack : index[z] = lowlink'[p] /\ Leads(p, z)
                       /\ \A x, z \in onStack :
                            Owns(i, x)' /\ z \in nodeSuccs[x] /\ Looked(x, z)' => lowlink'[p] <= index[z]
    BY <1>1, <1>2 DEF LowOK, Leads
  <2>1. /\ lowlink[p] <= index[p]
        /\ \E z \in onStack : index[z] = lowlink[p] /\ Leads(p, z)
        /\ \A x, z \in onStack :
             Owns(i, x) /\ z \in nodeSuccs[x] /\ Looked(x, z) => lowlink[p] <= index[z]
        /\ p \in Block /\ p \in onStack /\ i \in 1..K
    <3>1. i \in DOMAIN calls
      BY <1>2
    <3>. QED
      BY <1>1, <1>2, <1>4, <3>1 DEF LowOK
  <2>2. lowlink'[p] <= lowlink[p] /\ lowlink'[p] \in Int /\ lowlink[p] \in Int
        /\ (i = K - 1 => p = q /\ lowlink'[p] <= lowlink[n])
    BY <1>4, <1>8, <2>1, SMTT(30)
  <2>3. lowlink'[p] <= index[p]
    BY <1>4, <2>1, <2>2
  <2>4. \E z \in onStack : index[z] = lowlink'[p] /\ Leads(p, z)
    <3>1. CASE lowlink'[p] = lowlink[p]
      BY <2>1, <3>1
    <3>2. CASE lowlink'[p] # lowlink[p]
      <4>1. p = q /\ lowlink'[p] = lowlink[n]
        BY <1>8, <2>1, <3>2
      <4>2. index[p] < index[n]
        BY <1>4, <2>1
      <4>3. Leads(p, n)
        BY <1>4, <2>1, <4>2, StackFacts
      <4>4. Leads(p, y)
        BY <1>4, <1>6, <2>1, <4>3, LeadsOn
      <4>. QED
        BY <1>6, <4>1, <4>4
    <3>. QED
      BY <3>1, <3>2
  <2>5. ASSUME NEW x \in onStack, NEW z \in onStack, Owns(i, x)', z \in nodeSuccs[x], Looked(x, z)'
        PROVE  lowlink'[p] <= index[z]
    <3>1. /\ index[x] \in Nat /\ index[z] \in Nat /\ index[n] \in Nat /\ Looked(x, z)
          /\ \A a \in 1..K : index[calls[a].node] \in Nat
      BY <1>4, <1>9, <2>5
    <3>2. /\ index[p] <= index[x]
          /\ \A a \in 1..K - 1 : i < a => index[x] < index[calls[a].node]
      BY <1>1, <1>2, <2>5 DEF Owns
    <3>3. CASE index[x] < index[n]
      <4>1. \A a \in DOMAIN calls : a \in 1..K - 1 \/ a = K
        BY <1>2
      <4>2. Owns(i, x)
        BY <1>4, <3>2, <3>3, <4>1 DEF Owns
      <4>3. lowlink[p] <= index[z]
        BY <2>1, <2>5, <3>1, <4>2
      <4>. QED
        BY <2>2, <3>1, <4>3
    <3>4. CASE index[n] <= index[x]
      <4>1. i = K - 1
        <5>1. i = K - 1 \/ i < K - 1
          BY <1>2
        <5>2. i < K - 1 => index[x] < index[calls[K - 1].node] /\ index[calls[K - 1].node] < index[n]
          BY <1>4, <1>8, <3>2
        <5>3. K - 1 \in 1..K
          BY <1>2, <1>8
        <5>4. index[calls[K - 1].node] \in Nat
          BY <3>1, <5>3
        <5>. QED
          BY <3>1, <3>4, <5>1, <5>2, <5>4
      <4>2. Owns(K, x)
        BY <1>2, <1>4, <3>4 DEF Owns
      <4>3. lowlink[n] <= index[z]
        BY <1>5, <2>5, <3>1, <4>2
      <4>. QED
        BY <1>4, <2>2, <3>1, <4>1, <4>3
    <3>. QED
      BY <3>1, <3>3, <3>4
  <2>. QED
    BY <2>3, <2>4, <2>5
<1>14. SccsOK'
  BY <1>1 DEF SccsOK, Component, Complete, Visited
<1>. QED
  BY <1>10, <1>11, <1>12, <1>13, <1>14 DEF Walking, Traversing
\* S are the nodes of the stack that are not below n.
NotBelow(S, n) == S = {x \in onStack : index[n] <= index[x]} /\ IsFiniteSet(S)

\* left is the stack without S.
Without(left, S) ==
  /\ left \in Seq(Block) /\ Range(left) = onStack \ S
  /\ \A i \in DOMAIN left : i \in DOMAIN stack /\ left[i] = stack[i]

\* What is popped, and what is left.
LEMMA PoppedNodes ==
  ASSUME Walking, NEW n \in onStack, NEW S, S = FromNode(n),
         NEW left, left = SubSeq(stack, 1, Len(stack) - Cardinality(S))
  PROVE  NotBelow(S, n) /\ Without(left, S)
<1>. DEFINE L == Len(stack)
<1>1. /\ L \in Nat /\ DOMAIN stack = 1..L /\ stack \in Seq(Block)
      /\ \A i \in 1..L : stack[i] \in Block /\ stack[i] \in onStack
      /\ \A x \in onStack : \E i \in 1..L : stack[i] = x
      /\ \A i, j \in 1..L : i < j => index[stack[i]] < index[stack[j]]
      /\ \A i \in 1..L : index[stack[i]] \in Int
      /\ index[n] \in Int
  BY MarksFacts DEF Walking, MarksTypeOK, Traversing, StackOK
<1>. HIDE DEF L
<1>2. PICK k \in 1..L : stack[k] = n
  BY <1>1
<1>3. \A i, j \in 1..L : stack[i] = stack[j] => i = j
  <2>. TAKE i \in 1..L, j \in 1..L
  <2>1. i < j \/ j < i \/ i = j
    BY <1>1
  <2>. QED
    BY <1>1, <2>1
<1>4. S = {stack[i] : i \in k..L}
  <2>1. \A j \in DOMAIN stack : (\E a \in 1..j : stack[a] = n) <=> j \in k..L
    <3>. TAKE j \in DOMAIN stack
    <3>1. \A a \in 1..j : a \in 1..L
      BY <1>1
    <3>2. \A a \in 1..j : stack[a] = n <=> a = k
      BY <1>2, <1>3, <3>1
    <3>. QED
      BY <1>1, <1>2, <3>2
  <2>2. {j \in DOMAIN stack : \E a \in 1..j : stack[a] = n} = k..L
    BY <1>1, <1>2, <2>1
  <2>. QED
    BY <2>2 DEF FromNode
<1>5. S = {x \in onStack : index[n] <= index[x]}
  <2>1. \A i \in 1..L : index[n] <= index[stack[i]] <=> i \in k..L
    <3>. TAKE i \in 1..L
    <3>1. i < k \/ i = k \/ k < i
      BY <1>1
    <3>2. i < k => index[stack[i]] < index[n]
      BY <1>1, <1>2
    <3>3. k < i => index[n] < index[stack[i]]
      BY <1>1, <1>2
    <3>. QED
      BY <1>1, <1>2, <3>1, <3>2, <3>3
  <2>. QED
    BY <1>1, <1>2, <1>4, <2>1
<1>6. IsFiniteSet(S) /\ Cardinality(S) = L - k + 1
  <2>. DEFINE m == L - k + 1
              F == [i \in 1..m |-> stack[k + i - 1]]
  <2>1. m \in Nat /\ \A i \in 1..m : k + i - 1 \in k..L /\ k + i - 1 \in 1..L
    BY <1>1, <1>2
  <2>2. F \in [1..m -> S]
    BY <1>4, <2>1
  <2>3. \A i, j \in 1..m : F[i] = F[j] => i = j
    BY <1>3, <2>1
  <2>4. \A x \in S : \E i \in 1..m : F[i] = x
    <3>. TAKE x \in S
    <3>1. PICK i \in k..L : stack[i] = x
      BY <1>4
    <3>2. i - k + 1 \in 1..m /\ k + (i - k + 1) - 1 = i
      BY <1>1, <1>2, <3>1
    <3>. QED
      BY <3>1, <3>2
  <2>. HIDE DEF F
  <2>5. F \in Bijection(1..m, S)
    BY <2>2, <2>3, <2>4 DEF Bijection, Injection, Surjection, IsInjective
  <2>6. ExistsBijection(1..m, S)
    BY <2>5 DEF ExistsBijection
  <2>7. Cardinality(S) = m
    BY <2>1, <2>6, FS_CountingElements
  <2>8. IsFiniteSet(1..m)
    BY <2>1, FS_Interval
  <2>9. IsFiniteSet(S)
    BY <2>6, <2>8, FS_Bijection
  <2>. QED
    BY <2>7, <2>9
<1>7. L - Cardinality(S) = k - 1
  BY <1>1, <1>2, <1>6
<1>8. /\ left \in Seq(Block) /\ DOMAIN left = 1..k - 1
      /\ \A i \in 1..k - 1 : left[i] = stack[i] /\ i \in 1..L
  <2>1. left = SubSeq(stack, 1, k - 1)
    BY <1>7 DEF L
  <2>2. \A i \in 1..k - 1 : stack[i] \in Block /\ i \in 1..L
    BY <1>1, <1>2
  <2>3. k - 1 \in Int /\ 1 \in Int
    BY <1>2
  <2>4. left \in Seq(Block) /\ Len(left) = k - 1 /\ \A i \in 1..k - 1 : left[i] = stack[i]
    <3>1. /\ SubSeq(stack, 1, k - 1) \in Seq(Block)
          /\ Len(SubSeq(stack, 1, k - 1)) = IF 1 <= k - 1 THEN k - 1 - 1 + 1 ELSE 0
          /\ \A i \in 1..k - 1 - 1 + 1 : SubSeq(stack, 1, k - 1)[i] = stack[1 + i - 1]
      BY <2>2, <2>3, SubSeqProperties
    <3>2. /\ k - 1 - 1 + 1 = k - 1 /\ (IF 1 <= k - 1 THEN k - 1 - 1 + 1 ELSE 0) = k - 1
          /\ \A i \in 1..k - 1 : 1 + i - 1 = i
      BY <1>1, <1>2
    <3>3. \A i \in 1..k - 1 : SubSeq(stack, 1, k - 1)[i] = stack[i]
      BY <3>1, <3>2
    <3>. QED
      BY <2>1, <3>1, <3>2, <3>3
  <2>5. DOMAIN left = 1..k - 1
    BY <2>4
  <2>. QED
    BY <2>2, <2>4, <2>5
<1>9. Range(left) = onStack \ S
  <2>1. Range(left) = {stack[i] : i \in 1..k - 1}
    BY <1>8 DEF Range
  <2>2. \A i \in 1..L : i \in 1..k - 1 <=> i \notin k..L
    BY <1>1, <1>2
  <2>3. \A i \in 1..L : stack[i] \in S <=> i \in k..L
    BY <1>1, <1>2, <1>3, <1>4
  <2>4. Range(left) \subseteq onStack \ S
    BY <1>1, <1>8, <2>1, <2>2, <2>3
  <2>5. onStack \ S \subseteq Range(left)
    BY <1>1, <2>1, <2>2, <2>3
  <2>. QED
    BY <2>4, <2>5
<1>. QED
  BY <1>1, <1>5, <1>6, <1>8, <1>9 DEF NotBelow, Without
\* A node that leads nowhere below itself on the stack is the first of a
\* component: the nodes above it are led back to it, and no edge leaves them
\* but for complete components.
LEMMA PoppedIsComponent ==
  ASSUME Walking, calls # << >>, NEW n, n = calls[Len(calls)].node,
         calls[Len(calls)].todo = {}, lowlink[n] = index[n],
         NEW S, NotBelow(S, n)
  PROVE  /\ n \in S /\ S \subseteq onStack
         /\ \A x \in S : nodeSuccs[x] \subseteq S \cup Complete
         /\ Cardinality(S) > 1 => \A b \in S : Component(b) = S
         /\ ~(Cardinality(S) > 1) => \A b \in S : ~(Cardinality(Component(b)) > 1)
<1>. DEFINE K == Len(calls)
<1>1. /\ NodesOK /\ MarksTypeOK /\ CallsOK /\ EdgesOK /\ LowOK
      /\ S = {x \in onStack : index[n] <= index[x]} /\ IsFiniteSet(S)
  BY DEF Walking, Traversing, NotBelow
<1>2. /\ K \in Nat /\ K \in 1..K /\ DOMAIN calls = 1..K /\ n = calls[K].node
      /\ calls[K].todo = {}
  BY <1>1, MarksFacts
<1>. HIDE DEF K
<1>3. /\ nodeSuccs \in Edging /\ Visited \subseteq Block /\ onStack \subseteq Visited
      /\ \A x \in onStack : index[x] \in Nat /\ x \in Block
      /\ \A x, y \in onStack : index[x] <= index[y] => Leads(x, y)
      /\ \A x \in onStack : Leads(x, n)
  BY <1>2, StackFacts
<1>4. n \in onStack /\ n \in S /\ S \subseteq onStack
  <2>1. n \in onStack
    BY <1>1, <1>2 DEF CallsOK
  <2>. QED
    BY <1>1, <1>3, <2>1
<1>5. ASSUME NEW x \in S, NEW y \in nodeSuccs[x]
      PROVE  y \in S \cup Complete
  <2>1. x \in onStack /\ index[n] <= index[x] /\ x \in Visited /\ index[n] \in Nat /\ index[x] \in Nat
    BY <1>1, <1>3, <1>4
  <2>2. \A i \in 1..K : calls[i].node = x => i = K
    <3>. SUFFICES ASSUME NEW i \in 1..K, calls[i].node = x, i # K PROVE FALSE
      OBVIOUS
    <3>1. i < K
      BY <1>2
    <3>2. index[x] < index[n]
      BY <1>1, <1>2, <3>1 DEF CallsOK
    <3>. QED
      BY <2>1, <3>2
  <2>3. Looked(x, y)
    BY <1>2, <2>2 DEF Looked
  <2>4. y \in Visited
    BY <1>1, <2>1, <2>3 DEF EdgesOK
  <2>5. CASE y \in onStack
    <3>1. Owns(K, x)
      BY <1>2, <2>1 DEF Owns
    <3>2. K \in DOMAIN calls
      BY <1>2
    <3>3. lowlink[n] <= index[y]
      BY <1>1, <1>2, <2>1, <2>3, <2>5, <3>1, <3>2 DEF LowOK
    <3>. QED
      BY <1>1, <2>5, <3>3
  <2>6. CASE y \notin onStack
    BY <2>4, <2>6 DEF Complete
  <2>. QED
    BY <2>5, <2>6
<1>6. \A b \in Complete : Onward(nodeSuccs, b) \subseteq Complete
  <2>. TAKE b \in Complete
  <2>1. b \in Block /\ Complete \in SUBSET Block /\ \A x \in Complete : nodeSuccs[x] \subseteq Complete
    BY <1>1, <1>3 DEF Complete, EdgesOK
  <2>. QED
    BY <1>3, <2>1, Along
<1>7. \A b \in S : Onward(nodeSuccs, b) \subseteq S \cup Complete
  <2>. TAKE b \in S
  <2>1. b \in Block /\ S \cup Complete \in SUBSET Block
    BY <1>3, <1>4 DEF Complete
  <2>2. \A x \in S \cup Complete : nodeSuccs[x] \subseteq S \cup Complete
    BY <1>1, <1>5 DEF EdgesOK
  <2>. QED
    BY <1>3, <2>1, <2>2, Along
<1>8. \A b \in S : Component(b) \subseteq S
  <2>. SUFFICES ASSUME NEW b \in S, NEW c \in Component(b) PROVE c \in S
    OBVIOUS
  <2>1. c \in Onward(nodeSuccs, b) /\ b \in Onward(nodeSuccs, c)
    BY DEF Component
  <2>2. c \in Complete => b \in Complete
    BY <1>6, <2>1
  <2>3. b \notin Complete
    BY <1>4 DEF Complete
  <2>. QED
    BY <1>7, <2>1, <2>2, <2>3
<1>9. \A b, c \in S : Leads(b, c)
  <2>. TAKE b \in S, c \in S
  <2>1. Leads(b, n) /\ Leads(n, c) /\ b \in Block /\ c \in Block /\ n \in Block
    BY <1>1, <1>3, <1>4
  <2>. QED
    BY <1>3, <2>1, LeadsOn
<1>10. ASSUME Cardinality(S) > 1, NEW b \in S, NEW c \in S
       PROVE  c \in Onward(nodeSuccs, b)
  <2>1. CASE b # c
    BY <1>9, <2>1 DEF Leads
  <2>2. CASE b = c
    <3>1. S # {b}
      <4>1. Cardinality({b}) = 1
        BY FS_Singleton
      <4>2. S = {b} => Cardinality(S) = 1
        BY <4>1
      <4>. QED
        BY <1>10, <4>2
    <3>2. PICK d \in S : d # b
      BY <3>1
    <3>3. d \in Onward(nodeSuccs, b) /\ b \in Onward(nodeSuccs, d)
      BY <1>9, <3>2 DEF Leads
    <3>4. b \in Block
      BY <1>3, <1>4
    <3>5. Onward(nodeSuccs, d) \subseteq Onward(nodeSuccs, b)
      BY <1>3, <3>3, <3>4, AlongFurther
    <3>. QED
      BY <2>2, <3>3, <3>5
  <2>. QED
    BY <2>1, <2>2
<1>11. Cardinality(S) > 1 => \A b \in S : Component(b) = S
  BY <1>8, <1>10 DEF Component
<1>12. ~(Cardinality(S) > 1) => \A b \in S : ~(Cardinality(Component(b)) > 1)
  <2>. SUFFICES ASSUME NEW b \in S PROVE Cardinality(Component(b)) > 1 => Cardinality(S) > 1
    OBVIOUS
  <2>1. /\ Component(b) \subseteq S /\ IsFiniteSet(Component(b))
        /\ Cardinality(Component(b)) <= Cardinality(S)
    BY <1>1, <1>8, FS_Subset
  <2>2. Cardinality(Component(b)) \in Nat /\ Cardinality(S) \in Nat
    BY <1>1, <2>1, FS_CardinalityType
  <2>. QED
    BY <2>1, <2>2
<1>. QED
  BY <1>4, <1>5, <1>11, <1>12

\* The end of the call of the first node of a component.
LEMMA PoppingReturnKeeps ==
  ASSUME Walking, calls # << >>, NEW n, n = calls[Len(calls)].node,
         calls[Len(calls)].todo = {}, lowlink[n] = index[n], calls' = Front(calls),
         lowlink' = IF calls' = << >> THEN lowlink
                    ELSE [lowlink EXCEPT ![Last(calls').node] =
                            IF lowlink[n] < @ THEN lowlink[n] ELSE @],
         NEW S, S = FromNode(n), stack' = SubSeq(stack, 1, Len(stack) - Cardinality(S)),
         onStack' = onStack \ S,
         sccs' = sccs \cup (IF Cardinality(S) > 1 THEN {S} ELSE {}),
         UNCHANGED <<index, indexCount>>, SameNodes
  PROVE  Walking'
<1>. DEFINE K == Len(calls)
            q == calls[K - 1].node
<1>1. /\ index' = index /\ indexCount' = indexCount
      /\ nodes' = nodes /\ nodeSuccs' = nodeSuccs /\ nodePrevs' = nodePrevs
      /\ NodesOK /\ MarksTypeOK /\ IndexOK /\ StackOK /\ CallsOK /\ EdgesOK /\ LowOK /\ SccsOK
  BY DEF SameNodes, Walking, Traversing
<1>2. /\ K \in Nat /\ K \in 1..K /\ DOMAIN calls = 1..K /\ DOMAIN calls' = 1..K - 1
      /\ calls' \in Seq(CallRec)
      /\ \A i \in 1..K - 1 : calls'[i] = calls[i] /\ i \in 1..K
  BY <1>1, OneCallLess
<1>3. /\ calls' # << >> => Last(calls').node = q /\ K - 1 \in 1..K - 1
      /\ calls' = << >> => K = 1
  BY <1>1, OneCallLess
<1>. HIDE DEF K, q
<1>4. /\ Visited \subseteq Block /\ onStack \subseteq Visited
      /\ \A x \in onStack : index[x] \in Nat
      /\ n = calls[K].node /\ n \in onStack /\ n \in Block
      /\ \A i \in 1..K : calls[i].node \in onStack /\ calls[i].node \in Block
      /\ \A i \in 1..K - 1 : index[calls[i].node] < index[n]
      /\ \A x \in Block : lowlink[x] \in Int
  <2>1. Visited \subseteq Block /\ onStack \subseteq Visited /\ \A x \in onStack : index[x] \in Nat
    BY StackFacts
  <2>2. n = calls[K].node /\ \A i \in 1..K : calls[i].node \in onStack
    BY <1>1, <1>2 DEF CallsOK, K
  <2>3. ASSUME NEW i \in 1..K - 1
        PROVE  index[calls[i].node] < index[n]
    <3>1. i \in DOMAIN calls /\ K \in DOMAIN calls /\ i < K
      BY <1>2
    <3>. QED
      BY <1>1, <2>2, <3>1 DEF CallsOK
  <2>4. \A x \in Block : lowlink[x] \in Int
    BY <1>1, MarksFacts
  <2>. QED
    BY <1>2, <2>1, <2>2, <2>3, <2>4
<1>5. /\ S = {x \in onStack : index[n] <= index[x]}
      /\ IsFiniteSet(S)
      /\ stack' \in Seq(Block) /\ Range(stack') = onStack'
      /\ \A i \in DOMAIN stack' : i \in DOMAIN stack /\ stack'[i] = stack[i]
  <2>1. NotBelow(S, n) /\ Without(stack', S)
    BY <1>4, PoppedNodes
  <2>. QED
    BY <2>1 DEF NotBelow, Without
<1>6. /\ n \in S /\ S \subseteq onStack
      /\ \A x \in S : nodeSuccs[x] \subseteq S \cup Complete
      /\ Cardinality(S) > 1 => \A b \in S : Component(b) = S
      /\ ~(Cardinality(S) > 1) => \A b \in S : ~(Cardinality(Component(b)) > 1)
  <2>1. NotBelow(S, n)
    BY <1>5 DEF NotBelow
  <2>. QED
    BY <2>1, PoppedIsComponent
<1>7. Visited' = Visited /\ Complete' = Complete \cup S /\ onStack' \subseteq onStack
  BY <1>1, <1>4, <1>6 DEF Visited, Complete
<1>8. \A x \in onStack : x \in onStack' <=> index[x] < index[n]
  BY <1>4, <1>5
<1>9. lowlink' \in [Block -> Int] /\ \A i \in 1..K - 1 : lowlink'[calls[i].node] = lowlink[calls[i].node]
  <2>1. CASE calls' = << >>
    BY <1>1, <1>2, <1>3, <2>1 DEF MarksTypeOK
  <2>2. CASE calls' # << >>
    <3>1. /\ K - 1 \in 1..K - 1 /\ q \in Block /\ q = calls[K - 1].node
          /\ lowlink' = [lowlink EXCEPT ![q] = IF lowlink[n] < @ THEN lowlink[n] ELSE @]
      BY <1>2, <1>3, <1>4, <2>2 DEF q
    <3>2. lowlink[q] <= index[q]
      BY <1>1, <1>2, <3>1 DEF LowOK
    <3>3. index[q] < index[n] /\ index[q] \in Nat /\ index[n] \in Nat /\ lowlink[q] \in Int
      BY <1>2, <1>4, <3>1
    <3>4. ~(lowlink[n] < lowlink[q])
      BY <3>2, <3>3
    <3>5. lowlink \in [Block -> Int]
      BY <1>1 DEF MarksTypeOK
    <3>6. lowlink' = lowlink
      BY <3>1, <3>4, <3>5
    <3>. QED
      BY <3>5, <3>6
  <2>. QED
    BY <2>1, <2>2
<1>10. \A x, z : Looked(x, z)' => Looked(x, z)
  <2>. SUFFICES ASSUME NEW x, NEW z, Looked(x, z)',
                       NEW i \in DOMAIN calls, calls[i].node = x, z \in calls[i].todo
                PROVE  FALSE
    BY DEF Looked
  <2>1. i \in 1..K - 1
    BY <1>2 DEF K
  <2>. QED
    BY <1>2, <2>1 DEF Looked
<1>11. NodesOK' /\ MarksTypeOK' /\ IndexOK'
  <2>1. NodesOK'
    BY <1>1 DEF NodesOK
  <2>2. MarksTypeOK'
    BY <1>1, <1>2, <1>5, <1>9 DEF MarksTypeOK
  <2>3. IndexOK'
    BY <1>1, <1>7 DEF IndexOK
  <2>. QED
    BY <2>1, <2>2, <2>3
<1>12. StackOK'
  BY <1>1, <1>5, <1>7 DEF StackOK
<1>13. CallsOK'
  <2>1. \A i \in DOMAIN calls' : calls'[i].node \in onStack' /\ calls'[i].todo \subseteq nodeSuccs[calls'[i].node]
    BY <1>1, <1>2, <1>4, <1>8 DEF CallsOK
  <2>2. \A a, b \in DOMAIN calls' : a < b => index[calls'[a].node] < index[calls'[b].node]
    BY <1>1, <1>2 DEF CallsOK
  <2>3. ASSUME NEW x \in onStack'
        PROVE  \E i \in DOMAIN calls' : index[calls'[i].node] <= index[x] /\ Leads(x, calls'[i].node)
    <3>1. x \in onStack /\ index[x] < index[n]
      BY <1>7, <1>8
    <3>2. PICK i \in 1..K : index[calls[i].node] <= index[x] /\ Leads(x, calls[i].node)
      BY <1>1, <1>2, <3>1 DEF CallsOK
    <3>3. i # K
      BY <1>4, <3>1, <3>2
    <3>4. i \in 1..K - 1
      BY <1>2, <3>3
    <3>. QED
      BY <1>2, <3>2, <3>4
  <2>. QED
    BY <1>1, <2>1, <2>2, <2>3 DEF CallsOK, Leads
<1>14. EdgesOK'
  <2>1. \A x \in Visited : \A y \in nodeSuccs[x] : Looked(x, y)' => y \in Visited
    BY <1>1, <1>10 DEF EdgesOK
  <2>2. \A x \in Complete \cup S : nodeSuccs[x] \subseteq Complete \cup S
    BY <1>1, <1>6 DEF EdgesOK
  <2>. QED
    BY <1>1, <1>7, <2>1, <2>2 DEF EdgesOK
<1>15. LowOK'
  <2>. SUFFICES ASSUME NEW i \in 1..K - 1, NEW p, p = calls[i].node
                PROVE  /\ lowlink[p] <= index[p]
                       /\ \E z \in onStack' : index[z] = lowlink[p] /\ Leads(p, z)
                       /\ \A x, z \in onStack' :
                            Owns(i, x)' /\ z \in nodeSuccs[x] /\ Looked(x, z)' => lowlink[p] <= index[z]
    BY <1>1, <1>2, <1>9 DEF LowOK, Leads
  <2>1. /\ lowlink[p] <= index[p]
        /\ \E z \in onStack : index[z] = lowlink[p] /\ Leads(p, z)
        /\ \A x, z \in onStack :
             Owns(i, x) /\ z \in nodeSuccs[x] /\ Looked(x, z) => lowlink[p] <= index[z]
    <3>1. i \in DOMAIN calls
      BY <1>2
    <3>. QED
      BY <1>1, <3>1 DEF LowOK
  <2>2. PICK z \in onStack : index[z] = lowlink[p] /\ Leads(p, z)
    BY <2>1
  <2>3. index[z] < index[n]
    <3>1. /\ lowlink[p] <= index[p] /\ index[p] < index[n] /\ index[z] = lowlink[p]
          /\ index[p] \in Nat /\ index[n] \in Nat /\ index[z] \in Nat
      BY <1>2, <1>4, <2>1, <2>2
    <3>. QED
      BY <3>1
  <2>4. ASSUME NEW x \in onStack', Owns(i, x)'
        PROVE  Owns(i, x)
    <3>1. /\ index[calls[i].node] <= index[x] /\ index[x] < index[n]
          /\ \A a \in 1..K - 1 : i < a => index[x] < index[calls[a].node]
      BY <1>1, <1>2, <1>7, <1>8, <2>4 DEF Owns
    <3>2. \A a \in DOMAIN calls : a \in 1..K - 1 \/ a = K
      BY <1>2
    <3>. QED
      BY <1>4, <3>1, <3>2 DEF Owns
  <2>. QED
    BY <1>7, <1>8, <1>10, <2>1, <2>2, <2>3, <2>4
<1>16. SccsOK'
  <2>1. \A b : Component(b)' = Component(b)
    BY <1>1 DEF Component
  <2>2. sccs = {c \in {Component(b) : b \in Complete} : Cardinality(c) > 1}
    BY <1>1 DEF SccsOK
  <2>3. sccs' = {c \in {Component(b) : b \in Complete \cup S} : Cardinality(c) > 1}
    <3>1. CASE Cardinality(S) > 1
      <4>1. sccs' = sccs \cup {S} /\ \A b \in S : Component(b) = S
        BY <1>6, <3>1
      <4>. QED
        BY <1>6, <2>2, <3>1, <4>1
    <3>2. CASE ~(Cardinality(S) > 1)
      BY <1>6, <2>2, <3>2
    <3>. QED
      BY <3>1, <3>2
  <2>. QED
    BY <1>7, <2>1, <2>3 DEF SccsOK
<1>. QED
  BY <1>11, <1>12, <1>13, <1>14, <1>15, <1>16 DEF Walking, Traversing
----------------------------------------------------------------------------
(***************************************************************************)
(* The rounds.                                                             *)
(***************************************************************************)
\* No node is visited yet, and no component found.
Fresh ==
  /\ \A n \in nodes : index[n] = NotVisited
  /\ indexCount = 0 /\ stack = << >> /\ onStack = {} /\ calls = << >> /\ sccs = {}

\* A round starts with what the traversal keeps.
LEMMA FreshWalks == (Fresh => Traversing)'
<1>. SUFFICES ASSUME Fresh' PROVE Traversing'
  OBVIOUS
<1>1. Visited' = {} /\ Complete' = {} /\ onStack' = {} /\ calls' = << >> /\ stack' = << >> /\ sccs' = {}
  BY DEF Fresh, Visited, Complete
<1>2. DOMAIN calls' = {} /\ DOMAIN stack' = {}
  BY <1>1
<1>3. IndexOK' /\ StackOK' /\ CallsOK' /\ EdgesOK' /\ LowOK' /\ SccsOK'
  BY <1>1, <1>2 DEF IndexOK, StackOK, CallsOK, EdgesOK, LowOK, SccsOK
<1>. QED
  BY <1>3 DEF Traversing

\* The first round: the graph is copied.
LEMMA CopyWalks ==
  ASSUME GraphOK, MarksTypeOK, TarjanInit, TarjanBuildCfg
  PROVE  Walking' /\ lpc' = "components"
<1>1. /\ nodes' = bbs /\ nodeSuccs' = [b \in Block |-> Succs(b)]
      /\ nodePrevs' = [b \in Block |-> Preds(b)] /\ lpc' = "components" /\ sccs' = sccs
      /\ index' = index /\ lowlink' = lowlink /\ onStack' = onStack
      /\ indexCount' = indexCount /\ stack' = stack /\ calls' = calls
  BY DEF TarjanBuildCfg, BuildCfg, tarjanVars
<1>2. /\ bbs \subseteq Block
      /\ \A b \in Block : Succs(b) \subseteq Block /\ Preds(b) \subseteq Block
      /\ \A b, c \in Block : c \in Succs(b) <=> b \in Preds(c)
      /\ \A b, c \in Block : c \in Succs(b) => b \in bbs /\ c \in bbs
  BY DEF GraphOK, Succs, Preds, Range
<1>3. nodeSuccs' \in [Block -> SUBSET Block] /\ nodePrevs' \in [Block -> SUBSET Block]
  BY <1>1, <1>2
<1>4. \A n \in bbs : nodeSuccs'[n] = Succs(n) /\ nodePrevs'[n] = Preds(n) /\ n \in Block
  BY <1>1, <1>2
<1>5. \A n \in bbs : Succs(n) \subseteq bbs /\ Preds(n) \subseteq bbs
  BY <1>2
<1>6. \A n, m \in bbs : m \in Succs(n) <=> n \in Preds(m)
  BY <1>2
<1>7. NodesOK'
  BY <1>1, <1>2, <1>3, <1>4, <1>5, <1>6 DEF NodesOK
<1>8. MarksTypeOK'
  BY <1>1 DEF MarksTypeOK
<1>9. Fresh'
  BY <1>1, <1>2 DEF TarjanInit, LoopInit, Fresh
<1>. QED
  BY <1>1, <1>7, <1>8, <1>9, FreshWalks DEF Walking

\* A call returns.
LEMMA ReturnWalks == Walking /\ Return => Walking' /\ lpc' = lpc
<1>. SUFFICES ASSUME Walking, Return PROVE Walking' /\ lpc' = lpc
  OBVIOUS
<1>. DEFINE n == calls[Len(calls)].node
<1>1. /\ calls # << >> /\ calls[Len(calls)].todo = {} /\ calls' = Front(calls) /\ lpc' = lpc
      /\ SameNodes /\ index' = index /\ indexCount' = indexCount
      /\ lowlink' = IF calls' = << >> THEN lowlink
                    ELSE [lowlink EXCEPT ![Last(calls').node] =
                            IF lowlink[n] < @ THEN lowlink[n] ELSE @]
  BY DEF Return, SameNodes, Last
<1>2. CASE index[n] = lowlink[n]
  <2>. DEFINE S == FromNode(n)
  <2>1. /\ stack' = SubSeq(stack, 1, Len(stack) - Cardinality(S))
        /\ onStack' = onStack \ S
        /\ sccs' = sccs \cup (IF Cardinality(S) > 1 THEN {S} ELSE {})
    BY <1>2 DEF Return, Last
  <2>. HIDE DEF S, n
  <2>2. UNCHANGED <<index, indexCount>> /\ lowlink[n] = index[n] /\ n = calls[Len(calls)].node
        /\ S = FromNode(n)
    BY <1>1, <1>2 DEF S, n
  <2>3. Walking'
    BY <1>1, <2>1, <2>2, PoppingReturnKeeps
  <2>. QED
    BY <1>1, <2>3
<1>3. CASE index[n] # lowlink[n]
  <2>1. stack' = SubSeq(stack, 1, Len(stack) - Cardinality({})) /\ onStack' = onStack /\ sccs' = sccs
    <3>1. Cardinality({}) = 0
      BY FS_EmptySet
    <3>. QED
      BY <1>3, <3>1 DEF Return, Last
  <2>2. stack' = stack
    <3>1. Cardinality({}) = 0 /\ stack \in Seq(Block)
      BY FS_EmptySet DEF Walking, MarksTypeOK
    <3>. QED
      BY <2>1, <3>1
  <2>. HIDE DEF n
  <2>3. UNCHANGED <<index, onStack, indexCount, stack, sccs>> /\ lowlink[n] # index[n]
        /\ n = calls[Len(calls)].node
    BY <1>1, <1>3, <2>1, <2>2 DEF n
  <2>4. Walking'
    BY <1>1, <2>3, OpenReturnKeeps
  <2>. QED
    BY <1>1, <2>4
<1>. QED
  BY <1>2, <1>3

\* A root is visited, or a successor is looked at.
LEMMA VisitWalks == Walking /\ (VisitRoot \/ LookAtSucc) => Walking' /\ lpc' = lpc
<1>. SUFFICES ASSUME Walking, VisitRoot \/ LookAtSucc PROVE Walking' /\ lpc' = lpc
  OBVIOUS
<1>1. /\ lpc' = lpc /\ sccs' = sccs /\ SameNodes
  BY DEF VisitRoot, LookAtSucc, loopVars, SameNodes
<1>2. CASE VisitRoot
  <2>1. PICK n \in nodes : index[n] = NotVisited /\ Traverse(n, calls)
    BY <1>2 DEF VisitRoot
  <2>2. calls = << >>
    BY <1>2 DEF VisitRoot
  <2>3. Lessened(calls, n)
    <3>1. calls \in Seq(CallRec) /\ \A i \in 1..Len(calls) : FALSE
      BY <2>2 DEF Walking, MarksTypeOK
    <3>. QED
      BY <3>1 DEF Lessened
  <2>4. Walking'
    BY <1>1, <2>1, <2>2, <2>3, TraverseKeeps
  <2>. QED
    BY <1>1, <2>4
<1>3. CASE LookAtSucc
  <2>. DEFINE n == calls[Len(calls)].node
              On(su) == [calls EXCEPT ![Len(calls)].todo = @ \ {su}]
  <2>1. calls # << >>
    BY <1>3 DEF LookAtSucc
  <2>2. PICK su \in calls[Len(calls)].todo :
          IF index[su] = NotVisited THEN Traverse(su, On(su))
          ELSE /\ lowlink' = [lowlink EXCEPT
                                ![n] = IF su \in onStack /\ index[su] < @ THEN index[su] ELSE @]
               /\ calls' = On(su)
               /\ UNCHANGED <<index, onStack, indexCount, stack>>
    BY <1>3 DEF LookAtSucc, Last
  <2>3. MarksTypeOK
    BY DEF Walking
  <2>4. Lessened(On(su), su)
    BY <2>1, <2>3, OneLess
  <2>5. CASE index[su] = NotVisited
    <3>1. su \in nodes
      <4>1. Len(calls) \in DOMAIN calls
        BY <2>1, <2>3, MarksFacts
      <4>2. n \in onStack /\ su \in nodeSuccs[n]
        BY <4>1 DEF Walking, Traversing, CallsOK
      <4>3. n \in nodes
        BY <4>2 DEF Walking, Traversing, StackOK, Visited
      <4>. QED
        BY <4>2, <4>3 DEF Walking, NodesOK
    <3>2. Traverse(su, On(su))
      BY <2>2, <2>5
    <3>. DEFINE rest == On(su)
    <3>. HIDE DEF rest
    <3>3. Traverse(su, rest) /\ Lessened(rest, su)
      BY <2>4, <3>2 DEF rest
    <3>4. Walking'
      BY <1>1, <2>5, <3>1, <3>3, TraverseKeeps
    <3>. QED
      BY <1>1, <3>4
  <2>6. CASE index[su] # NotVisited
    <3>1. /\ lowlink' = [lowlink EXCEPT
                           ![n] = IF su \in onStack /\ index[su] < @ THEN index[su] ELSE @]
          /\ Lessened(calls', su)
          /\ UNCHANGED <<index, onStack, indexCount, stack, sccs>>
      BY <1>1, <2>2, <2>4, <2>6
    <3>. HIDE DEF n
    <3>2. n = calls[Len(calls)].node
      BY DEF n
    <3>3. Walking'
      BY <1>1, <2>1, <2>6, <3>1, <3>2, VisitedSuccKeeps
    <3>. QED
      BY <1>1, <3>3
  <2>. QED
    BY <2>5, <2>6
<1>. QED
  BY <1>2, <1>3
\* At the end of a round all components of the nodes left are found, and
\* they are apart.
LEMMA RoundEnds ==
  ASSUME Walking, calls = << >>, \A n \in nodes : index[n] # NotVisited
  PROVE  /\ sccs = Components /\ stack = << >>
         /\ ToEnter
<1>1. onStack = {} /\ stack = << >> /\ nodeSuccs \in Edging /\ nodes \subseteq Block
  BY StackFacts
<1>2. Complete = nodes
  BY <1>1 DEF Complete, Visited
<1>3. sccs = {c \in {Component(b) : b \in nodes} : Cardinality(c) > 1}
  BY <1>2 DEF Walking, Traversing, SccsOK
<1>4. sccs = Components
  BY <1>3 DEF Components, Component
<1>5. \A b \in nodes : Component(b) \subseteq nodes
  <2>. TAKE b \in nodes
  <2>1. b \in Block /\ nodes \in SUBSET Block /\ \A n \in nodes : nodeSuccs[n] \subseteq nodes
    BY <1>1 DEF Walking, NodesOK
  <2>2. Onward(nodeSuccs, b) \subseteq nodes
    BY <1>1, <2>1, Along
  <2>. QED
    BY <2>2 DEF Component
<1>6. ASSUME NEW a \in nodes, NEW b \in nodes, NEW c \in Component(a), c \in Component(b)
      PROVE  Component(a) \subseteq Component(b)
  <2>1. a \in Block /\ b \in Block /\ c \in Block
    BY <1>1, <1>5
  <2>2. /\ c \in Onward(nodeSuccs, a) /\ a \in Onward(nodeSuccs, c)
        /\ c \in Onward(nodeSuccs, b) /\ b \in Onward(nodeSuccs, c)
    BY <1>6 DEF Component
  <2>3. /\ Onward(nodeSuccs, a) \subseteq Onward(nodeSuccs, c)
        /\ Onward(nodeSuccs, c) \subseteq Onward(nodeSuccs, b)
        /\ Onward(nodeSuccs, c) \subseteq Onward(nodeSuccs, a)
    BY <1>1, <2>1, <2>2, AlongFurther
  <2>4. ASSUME NEW d \in Component(a)
        PROVE  d \in Component(b)
    <3>1. d \in Onward(nodeSuccs, a) /\ a \in Onward(nodeSuccs, d) /\ d \in Block
      BY <1>1, <1>5, <2>4 DEF Component
    <3>2. Onward(nodeSuccs, a) \subseteq Onward(nodeSuccs, d)
      BY <1>1, <3>1, AlongFurther
    <3>. QED
      BY <2>2, <2>3, <3>1, <3>2 DEF Component
  <2>. QED
    BY <2>4
<1>7. ToEnter
  <2>1. \A s \in sccs : s \subseteq nodes
    BY <1>3, <1>5
  <2>2. ASSUME NEW s \in sccs, NEW t \in sccs, s \cap t # {}
        PROVE  s = t
    <3>1. PICK a \in nodes : s = Component(a)
      BY <1>3
    <3>2. PICK b \in nodes : t = Component(b)
      BY <1>3
    <3>3. PICK c : c \in Component(a) /\ c \in Component(b)
      BY <2>2, <3>1, <3>2
    <3>. QED
      BY <1>6, <3>1, <3>2, <3>3
  <2>. QED
    BY <2>1, <2>2 DEF ToEnter
<1>. QED
  BY <1>1, <1>4, <1>7

\* A base is taken out of the nodes, and after the last the marks are reset.
LEMMA BaseTaken ==
  ASSUME NodesOK, MarksTypeOK, ToEnter, calls = << >>, stack = << >>, TarjanNextLoop
  PROVE  /\ NodesOK' /\ MarksTypeOK'
         /\ \/ lpc' = "components" /\ Traversing'
            \/ lpc' = "loops" /\ ToEnter' /\ calls' = << >> /\ stack' = << >>
<1>0. PICK scc \in sccs :
        /\ \E base \in Bases(scc) : EnterLoop(scc, base)
        /\ sccs' = sccs \ {scc}
        /\ lpc' = IF sccs = {scc} THEN "components" ELSE "loops"
  BY DEF TarjanNextLoop, NextLoop
<1>1. PICK base \in Bases(scc) :
        /\ EnterLoop(scc, base) /\ sccs' = sccs \ {scc}
        /\ lpc' = IF sccs = {scc} THEN "components" ELSE "loops"
  BY <1>0
<1>2. /\ nodes' = nodes \ {base}
      /\ nodePrevs' = [b \in Block |-> IF b \in nodeSuccs[base] THEN nodePrevs[b] \ {base}
                                                                ELSE nodePrevs[b]]
      /\ nodeSuccs' = [b \in Block |-> IF b \in nodePrevs[base] THEN nodeSuccs[b] \ {base}
                                                                ELSE nodeSuccs[b]]
  BY <1>1 DEF EnterLoop
<1>3. base \in scc /\ scc \subseteq nodes /\ base \in nodes /\ base \in Block
  <2>1. base \in scc
    BY <1>1 DEF Bases
  <2>. QED
    BY <2>1 DEF ToEnter, NodesOK
<1>4. /\ nodeSuccs \in [Block -> SUBSET Block] /\ nodePrevs \in [Block -> SUBSET Block]
      /\ nodes \subseteq Block
      /\ \A n \in nodes :
           /\ nodeSuccs[n] \subseteq nodes /\ nodePrevs[n] \subseteq nodes
           /\ \A m \in nodes : m \in nodeSuccs[n] <=> n \in nodePrevs[m]
  BY DEF NodesOK
<1>5. /\ nodeSuccs' \in [Block -> SUBSET Block] /\ nodePrevs' \in [Block -> SUBSET Block]
      /\ nodes' \subseteq Block
  BY <1>2, <1>4
<1>6. \A n \in nodes' : nodeSuccs'[n] = nodeSuccs[n] \ {base} /\ nodePrevs'[n] = nodePrevs[n] \ {base}
  BY <1>2, <1>3, <1>4
<1>7. NodesOK'
  <2>1. \A n \in nodes' : nodeSuccs'[n] \subseteq nodes' /\ nodePrevs'[n] \subseteq nodes'
    BY <1>2, <1>4, <1>6
  <2>2. \A n, m \in nodes' : m \in nodeSuccs'[n] <=> n \in nodePrevs'[m]
    BY <1>2, <1>4, <1>6
  <2>. QED
    BY <1>5, <2>1, <2>2 DEF NodesOK
<1>8. CASE lpc' = "loops"
  <2>1. /\ index' = index /\ lowlink' = lowlink /\ onStack' = onStack
        /\ indexCount' = indexCount /\ stack' = stack /\ calls' = calls
    BY <1>8 DEF TarjanNextLoop, tarjanVars
  <2>2. MarksTypeOK'
    BY <2>1 DEF MarksTypeOK
  <2>3. ASSUME NEW s \in sccs'
        PROVE  s \subseteq nodes'
    <3>1. s \in sccs /\ s # scc
      BY <1>1, <2>3
    <3>2. s \cap scc = {} /\ s \subseteq nodes
      BY <3>1 DEF ToEnter
    <3>. QED
      BY <1>2, <1>3, <3>2
  <2>4. ToEnter'
    BY <1>1, <2>3 DEF ToEnter
  <2>. QED
    BY <1>7, <1>8, <2>1, <2>2, <2>4
<1>9. CASE lpc' # "loops"
  <2>1. /\ index'   = [b \in Block |-> IF b \in nodes' THEN NotVisited ELSE index[b]]
        /\ lowlink' = [b \in Block |-> IF b \in nodes' THEN NotVisited ELSE lowlink[b]]
        /\ onStack' = onStack \ nodes'
        /\ indexCount' = 0 /\ stack' = << >> /\ calls' = calls
    BY <1>9 DEF TarjanNextLoop
  <2>2. onStack = {} /\ onStack' = {}
    <3>1. Range(<< >>) = {}
      BY DEF Range
    <3>. QED
      BY <2>1, <3>1 DEF MarksTypeOK
  <2>3. \A b \in Block : index[b] \in Int /\ lowlink[b] \in Int
    BY MarksFacts
  <2>4. MarksTypeOK'
    <3>1. Range(stack') = {} /\ stack' \in Seq(Block) /\ NotVisited \in Int
      BY <2>1 DEF Range, NotVisited
    <3>2. index' \in [Block -> Int] /\ lowlink' \in [Block -> Int]
      BY <2>1, <2>3, <3>1
    <3>. QED
      BY <2>1, <2>2, <3>1, <3>2 DEF MarksTypeOK
  <2>5. lpc' = "components" /\ sccs' = {}
    BY <1>1, <1>9
  <2>6. Fresh'
    BY <1>5, <2>1, <2>2, <2>5 DEF Fresh
  <2>. QED
    BY <1>7, <2>4, <2>5, <2>6, FreshWalks
<1>. QED
  BY <1>8, <1>9
----------------------------------------------------------------------------
(***************************************************************************)
(* The theorems.                                                           *)
(***************************************************************************)
\* The invariant holds in the beginning.
LEMMA TarjanInitial == Init => TInv
<1>. SUFFICES ASSUME Init PROVE TInv
  OBVIOUS
<1>1. BuilderInit /\ TarjanInit /\ lpc = "idle"
  BY DEF Init, TarjanInit, LoopInit
<1>2. RInv
  BY <1>1, InitReducible
<1>3. NodesOK
  BY <1>1 DEF TarjanInit, LoopInit, NodesOK
<1>4. MarksTypeOK
  <2>1. Range(<< >>) = {} /\ << >> \in Seq(Block) /\ << >> \in Seq(CallRec) /\ NotVisited \in Int
    BY DEF Range, NotVisited
  <2>. QED
    BY <1>1, <2>1 DEF TarjanInit, MarksTypeOK
<1>. QED
  BY <1>1, <1>2, <1>3, <1>4 DEF TInv

\* A step that does not touch the search.
LEMMA TarjanWaits ==
  ASSUME TInv, UNCHANGED <<loopVars, tarjanVars>>, lpc = "idle" => RInv'
  PROVE  TInv'
<1>1. /\ lpc' = lpc /\ nodes' = nodes /\ nodeSuccs' = nodeSuccs /\ nodePrevs' = nodePrevs
      /\ reserved' = reserved /\ sccs' = sccs /\ loops' = loops /\ bb2base' = bb2base
      /\ index' = index /\ lowlink' = lowlink /\ onStack' = onStack
      /\ indexCount' = indexCount /\ stack' = stack /\ calls' = calls
  BY DEF loopVars, tarjanVars
<1>2. NodesOK' /\ MarksTypeOK'
  BY <1>1 DEF TInv, NodesOK, MarksTypeOK
<1>3. TarjanInit => TarjanInit'
  BY <1>1 DEF TarjanInit, LoopInit
<1>4. ToEnter => ToEnter'
  BY <1>1 DEF ToEnter
<1>5. Traversing => Traversing'
  <2>1. IndexOK => IndexOK'
    BY <1>1 DEF IndexOK, Visited
  <2>2. StackOK => StackOK'
    BY <1>1 DEF StackOK, Visited
  <2>3. CallsOK => CallsOK'
    BY <1>1 DEF CallsOK, Leads
  <2>4. EdgesOK => EdgesOK'
    BY <1>1 DEF EdgesOK, Visited, Complete, Looked
  <2>5. LowOK => LowOK'
    BY <1>1 DEF LowOK, Leads, Owns, Looked
  <2>6. SccsOK => SccsOK'
    BY <1>1 DEF SccsOK, Component, Complete, Visited
  <2>. QED
    BY <2>1, <2>2, <2>3, <2>4, <2>5, <2>6 DEF Traversing
<1>. QED
  BY <1>1, <1>2, <1>3, <1>4, <1>5 DEF TInv

\* Outside a round no call is open.
LEMMA OpenCalls == TInv /\ calls # << >> => lpc = "components"
BY DEF TInv, TarjanInit

\* Every step keeps the invariant.
LEMMA TarjanStep == TInv /\ [Next]_vars => TInv'
<1>. SUFFICES ASSUME TInv, [Next]_vars PROVE TInv'
  OBVIOUS
<1>1. NodesOK /\ MarksTypeOK
  BY DEF TInv
<1>2. CASE Build
  <2>1. RInv => RInv'
    BY <1>2, NextReducible DEF Build
  <2>2. UNCHANGED <<loopVars, tarjanVars>>
    BY <1>2 DEF Build
  <2>. QED
    BY <2>1, <2>2, TarjanWaits DEF TInv
<1>3. CASE UNCHANGED vars
  <2>1. UNCHANGED builderAndGraph /\ UNCHANGED <<loopVars, tarjanVars>>
    BY <1>3 DEF vars, builderAndGraph
  <2>2. RInv => RInv'
    BY <2>1, NextReducible
  <2>. QED
    BY <2>1, <2>2, TarjanWaits DEF TInv
<1>4. CASE TarjanBuildCfg
  <2>1. lpc = "idle"
    BY <1>4 DEF TarjanBuildCfg, BuildCfg
  <2>2. GraphOK /\ TarjanInit
    BY <2>1, GraphFacts DEF TInv
  <2>3. Walking' /\ lpc' = "components"
    BY <1>1, <1>4, <2>2, CopyWalks
  <2>. QED
    BY <2>3 DEF TInv, Walking
<1>5. CASE VisitRoot \/ LookAtSucc \/ Return
  <2>1. lpc = "components"
    BY <1>5, OpenCalls DEF VisitRoot, LookAtSucc, Return
  <2>2. Walking
    BY <2>1 DEF TInv, Walking
  <2>3. Walking' /\ lpc' = lpc
    BY <1>5, <2>2, VisitWalks, ReturnWalks
  <2>. QED
    BY <2>1, <2>3 DEF TInv, Walking
<1>6. CASE ReturnComponents
  <2>1. /\ lpc = "components" /\ calls = << >> /\ \A n \in nodes : index[n] # NotVisited
        /\ lpc' = IF sccs = {} THEN "end" ELSE "loops"
        /\ nodes' = nodes /\ nodeSuccs' = nodeSuccs /\ nodePrevs' = nodePrevs /\ sccs' = sccs
        /\ index' = index /\ lowlink' = lowlink /\ onStack' = onStack
        /\ indexCount' = indexCount /\ stack' = stack /\ calls' = calls
    BY <1>6 DEF ReturnComponents, tarjanVars
  <2>2. Walking
    BY <2>1 DEF TInv, Walking
  <2>3. ToEnter /\ stack = << >>
    BY <2>1, <2>2, RoundEnds
  <2>4. NodesOK' /\ MarksTypeOK' /\ ToEnter'
    BY <1>1, <2>1, <2>3 DEF NodesOK, MarksTypeOK, ToEnter
  <2>. QED
    BY <2>1, <2>3, <2>4 DEF TInv
<1>7. CASE TarjanNextLoop
  <2>1. lpc = "loops"
    BY <1>7 DEF TarjanNextLoop, NextLoop
  <2>2. ToEnter /\ calls = << >> /\ stack = << >>
    BY <2>1 DEF TInv
  <2>. QED
    BY <1>1, <1>7, <2>2, BaseTaken DEF TInv
<1>. QED
  BY <1>2, <1>3, <1>4, <1>5, <1>6, <1>7 DEF Next, Search, TarjanNext

\* The invariant of the traversal, for functions of any size.
THEOREM TarjanInvariant == Spec => []TInv
BY TarjanInitial, TarjanStep, PTL DEF Spec

\* A node stays on the stack after its call only if it leads to all later ones
\* and back to an open call: traverse takes the top of the stack for a component.
THEOREM StackLeadsUp == Spec => []StackIsChained
<1>1. TInv => StackIsChained
  <2>. SUFFICES ASSUME TInv PROVE StackIsChained
    OBVIOUS
  <2>1. MarksTypeOK /\ onStack = Range(stack)
    BY DEF TInv, MarksTypeOK
  <2>2. CASE lpc = "components" /\ Traversing
    <3>1. \A i, j \in DOMAIN stack : i < j => index[stack[i]] < index[stack[j]]
      BY <2>2 DEF Traversing, StackOK
    <3>2. \A i \in DOMAIN stack : stack[i] \in onStack
      BY <2>1, MarksFacts
    <3>3. \A x, y \in onStack : index[x] < index[y] => y \in Onward(nodeSuccs, x)
      BY <2>2 DEF Traversing, StackOK
    <3>. QED
      BY <2>1, <3>1, <3>2, <3>3 DEF StackIsChained
  <2>3. CASE stack = << >>
    BY <2>1, <2>3 DEF StackIsChained
  <2>. QED
    BY <2>2, <2>3 DEF TInv, TarjanInit
<1>. QED
  BY TarjanInvariant, <1>1, PTL
\* The contract is about the same graph.
LEMMA SameNotions ==
  /\ \A N, b : Contract!Onward(N, b) = Onward(N, b)
  /\ \A S : Contract!Cardinality(S) = Cardinality(S)
<1>1. ASSUME NEW N, NEW b PROVE Contract!Onward(N, b) = Onward(N, b)
  BY Zenon DEF Contract!Onward, Onward
<1>2. ASSUME NEW S PROVE Contract!Cardinality(S) = Cardinality(S)
  BY Zenon DEF Contract!Cardinality, Cardinality
<1>. QED
  BY <1>1, <1>2

\* A step of the traversal is one of strongly_connected_components, or none.
LEMMA StepIsOfContract == TInv /\ [Next]_vars => [Contract!LoopNext]_(Contract!loopVars)
<1>. SUFFICES ASSUME TInv, [Next]_vars PROVE [Contract!LoopNext]_(Contract!loopVars)
  OBVIOUS
<1>1. ASSUME UNCHANGED loopVars
      PROVE  UNCHANGED (Contract!loopVars)
  BY <1>1 DEF loopVars, Contract!loopVars
<1>2. CASE Build \/ UNCHANGED vars \/ VisitRoot \/ LookAtSucc
  BY <1>1, <1>2 DEF Build, vars, VisitRoot, LookAtSucc
<1>3. CASE TarjanBuildCfg
  <2>1. BuildCfg
    BY <1>3 DEF TarjanBuildCfg
  <2>2. sccs = {}
    BY <2>1 DEF BuildCfg, TInv, TarjanInit, LoopInit
  <2>3. Contract!BuildCfg
    BY <2>1, <2>2 DEF BuildCfg, Contract!BuildCfg, Succs, Preds, Contract!Succs, Contract!Preds,
                      Range, Contract!Range, graphVars, Contract!graphVars, Block, Contract!Block
  <2>. QED
    BY <2>3 DEF Contract!LoopNext
<1>4. CASE Return
  <2>1. calls # << >> /\ UNCHANGED <<lpc, nodes, nodeSuccs, nodePrevs, reserved, loops, bb2base>>
    BY <1>4 DEF Return
  <2>2. lpc = "components"
    BY <2>1, OpenCalls
  <2>3. UNCHANGED (Contract!loopVars)
    BY <2>1, <2>2 DEF Contract!loopVars
  <2>. QED
    BY <2>3
<1>5. CASE ReturnComponents
  <2>1. /\ lpc = "components" /\ calls = << >> /\ \A n \in nodes : index[n] # NotVisited
        /\ lpc' = IF sccs = {} THEN "end" ELSE "loops"
        /\ sccs' = sccs
        /\ UNCHANGED <<nodes, nodeSuccs, nodePrevs, reserved, loops, bb2base, graphVars>>
    BY <1>5 DEF ReturnComponents
  <2>2. Walking
    BY <2>1 DEF TInv, Walking
  <2>3. sccs = Components
    BY <2>1, <2>2, RoundEnds
  <2>4. Contract!Components = Components
    <3>1. \A b : {c \in Contract!Onward(nodeSuccs, b) : b \in Contract!Onward(nodeSuccs, c)}
                 = Component(b)
      BY SameNotions DEF Component
    <3>2. Contract!Components =
            {c \in {{d \in Contract!Onward(nodeSuccs, b) : b \in Contract!Onward(nodeSuccs, d)} : b \in nodes} :
               Cardinality(c) > 1}
      BY SameNotions DEF Contract!Components
    <3>3. Contract!Components = {c \in {Component(b) : b \in nodes} : Cardinality(c) > 1}
      BY <3>1, <3>2
    <3>. QED
      BY <3>3 DEF Components, Component
  <2>5. Contract!FindComponents
    BY <2>1, <2>3, <2>4 DEF Contract!FindComponents, graphVars, Contract!graphVars
  <2>. QED
    BY <2>5 DEF Contract!LoopNext
<1>6. CASE TarjanNextLoop
  <2>1. /\ lpc = "loops" /\ UNCHANGED graphVars
        /\ \E scc \in sccs :
             /\ \E base \in Bases(scc) : EnterLoop(scc, base)
             /\ sccs' = sccs \ {scc}
             /\ lpc' = IF sccs = {scc} THEN "components" ELSE "loops"
    BY <1>6 DEF TarjanNextLoop, NextLoop
  <2>2. PICK scc \in sccs :
          /\ \E base \in Bases(scc) : EnterLoop(scc, base)
          /\ sccs' = sccs \ {scc}
          /\ lpc' = IF sccs = {scc} THEN "components" ELSE "loops"
    BY <2>1
  <2>3. Contract!Bases(scc) = Bases(scc)
    BY DEF Contract!Bases, Bases
  <2>4. \A base : EnterLoop(scc, base) => Contract!EnterLoop(scc, base)
    BY DEF EnterLoop, Contract!EnterLoop, Block, Contract!Block
  <2>5. Contract!NextLoop
    BY <2>1, <2>2, <2>3, <2>4 DEF Contract!NextLoop, graphVars, Contract!graphVars
  <2>. QED
    BY <2>5 DEF Contract!LoopNext
<1>. QED
  BY <1>2, <1>3, <1>4, <1>5, <1>6 DEF Next, Search, TarjanNext

\* The traversal does what strongly_connected_components promises, in every
\* round and for functions of any size: module Tarjan implements LoopSearch.
THEOREM TraversalFindsComponents == Spec => FindsTheComponents
<1>1. Init => Contract!LoopInit
  BY DEF Init, TarjanInit, LoopInit, Contract!LoopInit, Block, Contract!Block, NoBlock, Contract!NoBlock
<1>. QED
  BY TarjanInvariant, <1>1, StepIsOfContract, PTL DEF Spec, FindsTheComponents, Contract!LoopSpec
=============================================================================

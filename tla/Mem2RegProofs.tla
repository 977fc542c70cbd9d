--------------------------- MODULE Mem2RegProofs ---------------------------
(***************************************************************************)
(* Proofs about Mem2Reg, on any graph: the types, the stacks, the pairs of *)
(* the phis and the walk of the dominator tree (PassInv), and what is left *)
(* in the blocks at the end.  Mem2RegOfBuiltProofs and ActiveVarsProofs    *)
(* use them for the functions that the builder makes.                      *)
(***************************************************************************)
EXTENDS Mem2Reg, FunctionBuilderProofs

(***************************************************************************)
(* The operators of the pass.                                              *)
(***************************************************************************)
\* The numbers of phis.
LEMMA PhiNumbers ==
  /\ \A b \in Block, v \in Vars :
       PhiOf(b, v) \in Nat /\ PhiOf(b, v) > 2 * MaxInstrs /\ PhiOf(b, v) \in Operand
  /\ \A b \in Block, v, w \in Vars : PhiOf(b, v) = PhiOf(b, w) => v = w
<1>1. MaxBlocks \in Nat /\ MaxBlocks > 0 /\ MaxInstrs \in Nat /\ NumVars \in Nat
  BY BoundsAssumption
<1>2. \A k, n \in Nat : k <= n => k * MaxBlocks <= n * MaxBlocks /\ k * MaxBlocks \in Nat
  <2>. SUFFICES ASSUME NEW k \in Nat, NEW n \in Nat, k <= n
                PROVE  k * MaxBlocks <= n * MaxBlocks /\ k * MaxBlocks \in Nat
    OBVIOUS
  <2>1. PICK m \in Nat : m = n - k
    OBVIOUS
  <2>2. n * MaxBlocks = k * MaxBlocks + m * MaxBlocks
    BY <1>1, <2>1
  <2>3. m * MaxBlocks \in Nat /\ k * MaxBlocks \in Nat
    BY <1>1
  <2>. QED
    BY <2>2, <2>3
<1>3. \A k \in Nat : (k + 1) * MaxBlocks = k * MaxBlocks + MaxBlocks
  BY <1>1
<1>4. ASSUME NEW b \in Block, NEW v \in Vars
      PROVE  PhiOf(b, v) \in Nat /\ PhiOf(b, v) > 2 * MaxInstrs /\ PhiOf(b, v) \in Operand
  <2>1. v - 1 \in Nat /\ (v - 1) + 1 = v /\ v <= NumVars /\ v \in Nat
    BY <1>1 DEF Vars
  <2>2. b \in Nat /\ 1 <= b /\ b <= MaxBlocks
    BY <1>1 DEF Block
  <2>3. PICK p \in Nat : p = (v - 1) * MaxBlocks
    BY <1>2, <2>1
  <2>4. PICK q \in Nat : q = NumVars * MaxBlocks
    BY <1>1, <1>2
  <2>5. v * MaxBlocks = p + MaxBlocks /\ v * MaxBlocks <= q
    BY <1>1, <1>2, <1>3, <2>1, <2>3, <2>4
  <2>6. PhiOf(b, v) = 2 * MaxInstrs + p + b
    BY <2>3 DEF PhiOf
  <2>7. Operand = 0..(2 * MaxInstrs + q)
    BY <2>4 DEF Operand
  <2>. QED
    BY <1>1, <2>2, <2>5, <2>6, <2>7
<1>5. ASSUME NEW b \in Block, NEW v \in Vars, NEW w \in Vars, v < w
      PROVE  PhiOf(b, v) < PhiOf(b, w)
  <2>1. /\ v - 1 \in Nat /\ w - 1 \in Nat /\ (v - 1) + 1 = v /\ v \in Nat /\ v <= w - 1
        /\ b \in Nat /\ b >= 1
    BY <1>1, <1>5 DEF Vars, Block
  <2>2. PICK p \in Nat : p = (v - 1) * MaxBlocks
    BY <1>2, <2>1
  <2>3. PICK q \in Nat : q = (w - 1) * MaxBlocks
    BY <1>2, <2>1
  <2>4. v * MaxBlocks = p + MaxBlocks
    BY <1>3, <2>1, <2>2
  <2>5. v * MaxBlocks <= q
    BY <1>2, <2>1, <2>3
  <2>6. PhiOf(b, v) = 2 * MaxInstrs + p + b /\ PhiOf(b, w) = 2 * MaxInstrs + q + b
    BY <2>2, <2>3 DEF PhiOf
  <2>. QED
    BY <1>1, <2>1, <2>4, <2>5, <2>6
<1>6. ASSUME NEW b \in Block, NEW v \in Vars, NEW w \in Vars, PhiOf(b, v) = PhiOf(b, w)
      PROVE  v = w
  <2>1. v \in Nat /\ w \in Nat /\ PhiOf(b, v) \in Nat
    BY <1>1, <1>4 DEF Vars
  <2>2. ~(v < w) /\ ~(w < v)
    BY <1>5, <1>6, <2>1
  <2>. QED
    BY <2>1, <2>2
<1>. QED
  BY <1>4, <1>6

\* The state of steps 3 to 5.
RenameState == [stacks : [Vars -> Seq(Operand)], known : SUBSET Vars, with : [Operand -> Operand],
                dead : SUBSET (1..MaxInstrs), emptyBack : BOOLEAN]

\* What an instruction is to the pass.
LEMMA InstrKinds ==
  ASSUME NEW i \in Instr
  PROVE  /\ i.arg \in Operand /\ i.id \in 0..MaxInstrs
         /\ i.op \in {"load", "store"} => i.id \in 1..MaxInstrs /\ i.var \in Vars
         /\ i.op = "load" => Result(i.id) \in Operand
         /\ IsTerminator(i) => i.id = Opaque
<1>1. MaxInstrs \in Nat /\ 1..MaxInstrs \subseteq 0..MaxInstrs /\ Opaque \in 0..MaxInstrs
  BY BoundsAssumption DEF Opaque
<1>2. \A k \in 1..MaxInstrs : Result(k) \in Operand
  BY OperandTypes
<1>3. CASE i \in Access
  BY <1>1, <1>2, <1>3 DEF Access, IsTerminator
<1>4. CASE i \in Branch
  BY <1>1, <1>4 DEF Branch, IsTerminator
<1>5. CASE i \in Other
  BY <1>1, <1>5 DEF Other, IsTerminator
<1>6. CASE i \in [op : {"call", "alloca"}, id : 0..MaxInstrs, var : {NoVar}, arg : Operand, tgt : {<< >>}]
  BY <1>1, <1>6 DEF IsTerminator
<1>. QED
  BY <1>3, <1>4, <1>5, <1>6 DEF Instr

\* Its operand is replaced.
LEMMA WithArg ==
  ASSUME NEW i \in Instr, NEW o \in Operand, NEW j, j = [i EXCEPT !.arg = o]
  PROVE  j \in Instr /\ j.op = i.op /\ j.var = i.var /\ j.id = i.id /\ j.tgt = i.tgt /\ j.arg = o
<1>1. CASE i \in Access
  BY <1>1 DEF Access, Instr
<1>2. CASE i \in Branch
  <2>1. j \in Branch /\ j.op = i.op /\ j.var = i.var /\ j.id = i.id /\ j.tgt = i.tgt /\ j.arg = o
    BY <1>2 DEF Branch
  <2>. QED
    BY <2>1 DEF Instr
<1>3. CASE i \in Other
  BY <1>3 DEF Other, Instr
<1>4. CASE i \in [op : {"call", "alloca"}, id : 0..MaxInstrs, var : {NoVar}, arg : Operand, tgt : {<< >>}]
  BY <1>4 DEF Instr
<1>. QED
  BY <1>1, <1>2, <1>3, <1>4 DEF Instr

\* An instruction in steps 4 and 5 makes r of the state st.
RenamesInstr(st, i, r) ==
  /\ st.known \subseteq r.known /\ st.dead \subseteq r.dead /\ (st.emptyBack => r.emptyBack)
  /\ i.op = "store" => i.var \in r.known /\ i.id \in r.dead
  /\ i.op = "load" /\ i.var \in st.known => i.id \in r.dead \/ r.emptyBack
  /\ \A v \in Vars :
       Len(r.stacks[v]) = Len(st.stacks[v]) + (IF i.op = "store" /\ i.var = v THEN 1 ELSE 0)

LEMMA RenameInstrFacts ==
  ASSUME NEW st \in RenameState, NEW i \in Instr
  PROVE  /\ RenameInstr(st, i) \in RenameState
         /\ RenamesInstr(st, i, RenameInstr(st, i))
<1>. DEFINE r == RenameInstr(st, i)
<1>1. /\ i.arg \in Operand
      /\ i.op \in {"load", "store"} => i.id \in 1..MaxInstrs /\ i.var \in Vars
      /\ i.op = "load" => Result(i.id) \in Operand
  BY InstrKinds
<1>2. /\ st.stacks \in [Vars -> Seq(Operand)] /\ st.known \in SUBSET Vars
      /\ st.with \in [Operand -> Operand] /\ st.dead \in SUBSET (1..MaxInstrs)
      /\ st.emptyBack \in BOOLEAN
      /\ st = [stacks |-> st.stacks, known |-> st.known, with |-> st.with, dead |-> st.dead,
               emptyBack |-> st.emptyBack]
  BY DEF RenameState
<1>3. \A v \in Vars : st.stacks[v] \in Seq(Operand) /\ Len(st.stacks[v]) \in Nat
  BY <1>2
<1>4. CASE i.op = "load" /\ i.var \in st.known
  <2>1. CASE st.stacks[i.var] = << >>
    <3>1. r = [st EXCEPT !.emptyBack = TRUE]
      BY <1>4, <2>1 DEF RenameInstr
    <3>2. /\ r.stacks = st.stacks /\ r.known = st.known /\ r.dead = st.dead /\ r.emptyBack
          /\ r \in RenameState
      BY <1>2, <3>1 DEF RenameState
    <3>. HIDE DEF r
    <3>. QED
      BY <1>3, <1>4, <3>2 DEF r, RenamesInstr
  <2>2. CASE st.stacks[i.var] # << >>
    <3>1. r = [st EXCEPT !.with[Result(i.id)] = Last(st.stacks[i.var]), !.dead = @ \cup {i.id}]
      BY <1>4, <2>2 DEF RenameInstr
    <3>2. Last(st.stacks[i.var]) \in Operand /\ Result(i.id) \in Operand
      BY <1>1, <1>3, <1>4, <2>2 DEF Last
    <3>3. [st.with EXCEPT ![Result(i.id)] = Last(st.stacks[i.var])] \in [Operand -> Operand]
      BY <1>2, <3>2
    <3>4. /\ r.stacks = st.stacks /\ r.known = st.known /\ r.dead = st.dead \cup {i.id}
          /\ r.emptyBack = st.emptyBack
          /\ r.with = [st.with EXCEPT ![Result(i.id)] = Last(st.stacks[i.var])]
      BY <1>2, <3>1
    <3>5. r \in RenameState
      <4>1. st.dead \cup {i.id} \in SUBSET (1..MaxInstrs)
        BY <1>1, <1>2, <1>4
      <4>2. r = [stacks |-> st.stacks, known |-> st.known,
                 with |-> [st.with EXCEPT ![Result(i.id)] = Last(st.stacks[i.var])],
                 dead |-> st.dead \cup {i.id}, emptyBack |-> st.emptyBack]
        BY <1>2, <3>1
      <4>. HIDE DEF r
      <4>. QED
        BY <1>2, <3>3, <4>1, <4>2 DEF RenameState
    <3>. HIDE DEF r
    <3>. QED
      BY <1>3, <1>4, <3>4, <3>5 DEF r, RenamesInstr
  <2>. QED
    BY <2>1, <2>2
<1>5. CASE i.op = "store"
  <2>. DEFINE o == st.with[i.arg]
              u == [st EXCEPT !.stacks[i.var] = Append(@, o), !.known = @ \cup {i.var}]
  <2>1. r = [u EXCEPT !.dead = @ \cup {i.id}]
    BY <1>5 DEF RenameInstr, Push
  <2>2. o \in Operand /\ i.var \in Vars /\ i.id \in 1..MaxInstrs
    BY <1>1, <1>2, <1>5
  <2>. HIDE DEF o
  <2>3. /\ Append(st.stacks[i.var], o) \in Seq(Operand)
        /\ Len(Append(st.stacks[i.var], o)) = Len(st.stacks[i.var]) + 1
    BY <1>3, <2>2
  <2>4. [st.stacks EXCEPT ![i.var] = Append(@, o)] \in [Vars -> Seq(Operand)]
    BY <1>2, <2>2, <2>3
  <2>5. /\ r.stacks = [st.stacks EXCEPT ![i.var] = Append(@, o)]
        /\ r.known = st.known \cup {i.var} /\ r.dead = st.dead \cup {i.id}
        /\ r.emptyBack = st.emptyBack /\ r.with = st.with
    BY <1>2, <2>1
  <2>6. r = [stacks |-> r.stacks, known |-> r.known, with |-> r.with, dead |-> r.dead,
             emptyBack |-> r.emptyBack]
    BY <1>2, <2>1
  <2>7. r \in RenameState
    BY <1>2, <2>2, <2>4, <2>5, <2>6 DEF RenameState
  <2>8. \A v \in Vars : Len(r.stacks[v]) = Len(st.stacks[v]) + (IF i.var = v THEN 1 ELSE 0)
    <3>1. ASSUME NEW v \in Vars, i.var = v
          PROVE  Len(r.stacks[v]) = Len(st.stacks[v]) + 1
      <4>1. r.stacks[v] = Append(st.stacks[v], o)
        BY <1>2, <2>5, <3>1
      <4>. QED
        BY <2>3, <3>1, <4>1
    <3>2. ASSUME NEW v \in Vars, i.var # v
          PROVE  Len(r.stacks[v]) = Len(st.stacks[v]) + 0
      <4>1. r.stacks[v] = st.stacks[v]
        BY <1>2, <2>5, <3>2
      <4>. QED
        BY <1>3, <4>1
    <3>. QED
      BY <3>1, <3>2
  <2>. HIDE DEF r, u
  <2>. QED
    BY <1>5, <2>5, <2>7, <2>8 DEF r, RenamesInstr
<1>6. CASE ~(i.op = "load" /\ i.var \in st.known) /\ i.op # "store"
  <2>1. r = st
    BY <1>6 DEF RenameInstr
  <2>. QED
    BY <1>3, <1>6, <2>1 DEF RenamesInstr
<1>. QED
  BY <1>4, <1>5, <1>6

\* The states between the instructions.
LEMMA RenameFold ==
  ASSUME NEW s \in Seq(Instr), NEW base \in RenameState
  PROVE  \E g \in [0..Len(s) -> RenameState] :
           /\ g[0] = base /\ g[Len(s)] = FoldLeft(RenameInstr, base, s)
           /\ \A k \in 1..Len(s) : g[k] = RenameInstr(g[k - 1], s[k])
<1>. DEFINE U == RenameState
            n == Len(s)
            step == [e \in U \X (1..n) |-> RenameInstr(e[1], s[e[2]])]
            F(it) == [t \in SUBSET DOMAIN s |->
                        IF t = {} THEN base ELSE RenameInstr(it[t \ {Max(t)}], s[Max(t)])]
            c == CHOOSE it : it = F(it)
<1>1. FoldLeft(RenameInstr, base, s) = c[DOMAIN s]
  BY DEF FoldLeft, MapThenFoldSet
<1>2. n \in Nat /\ DOMAIN s = 1..n /\ \A k \in 1..n : s[k] \in Instr
  OBVIOUS
<1>3. \A t : Max(t) = Greatest(t)
  BY DEF Max, Greatest
<1>4. \A u \in U, k \in 1..n : RenameInstr(u, s[k]) \in U
  BY <1>2, RenameInstrFacts
<1>5. base \in U /\ step \in [U \X (1..n) -> U]
  BY <1>4
<1>6. \A u \in U, k \in 1..n : step[<<u, k>>] = RenameInstr(u, s[k])
  OBVIOUS
<1>. HIDE DEF U, n, step
<1>7. \A t \in SUBSET (1..n) : t # {} => Greatest(t) \in 1..n /\ t \ {Greatest(t)} \in SUBSET (1..n)
  BY <1>2, GreatestFacts
<1>8. PICK it : FoldOn(it, n, U, base, step)
  BY <1>2, <1>5, FoldExists
<1>9. it = F(it)
  <2>1. it \in [SUBSET (1..n) -> U]
    BY <1>8 DEF FoldOn
  <2>2. ASSUME NEW t \in SUBSET (1..n)
        PROVE  it[t] = IF t = {} THEN base ELSE RenameInstr(it[t \ {Max(t)}], s[Max(t)])
    <3>1. CASE t = {}
      BY <1>8, <3>1 DEF FoldOn
    <3>2. CASE t # {}
      <4>1. it[t] = step[<<it[t \ {Greatest(t)}], Greatest(t)>>] /\ it[t \ {Greatest(t)}] \in U
        BY <1>7, <1>8, <3>2 DEF FoldOn
      <4>. QED
        BY <1>3, <1>6, <1>7, <3>2, <4>1
    <3>. QED
      BY <3>1, <3>2
  <2>. QED
    BY <1>2, <2>1, <2>2
<1>. HIDE DEF F
<1>10. c = F(c)
  BY <1>9
<1>. HIDE DEF c
<1>11. IsFold(c, n, U, base, step)
  <2>1. ASSUME NEW t \in SUBSET (1..n)
        PROVE  c[t] = IF t = {} THEN base ELSE RenameInstr(c[t \ {Max(t)}], s[Max(t)])
    BY <1>2, <1>10 DEF F
  <2>2. ASSUME NEW t \in SUBSET (1..n), t # {}, c[t \ {Greatest(t)}] \in U
        PROVE  c[t] = step[<<c[t \ {Greatest(t)}], Greatest(t)>>]
    BY <1>3, <1>6, <1>7, <2>1, <2>2
  <2>. QED
    BY <2>1, <2>2 DEF IsFold
<1>12. FoldsTo(c[1..n], n, U, base, step)
  BY <1>2, <1>5, <1>11, FoldIs
<1>13. PICK g : FoldSteps(g, n, U, base, step) /\ g[n] = c[1..n]
  BY <1>12 DEF FoldsTo
<1>14. /\ g \in [0..n -> U] /\ g[0] = base /\ g[n] = FoldLeft(RenameInstr, base, s)
       /\ \A k \in 1..n : g[k - 1] \in U /\ g[k] = step[<<g[k - 1], k>>]
  <2>1. \A k \in 1..n : k - 1 \in 0..n
    BY <1>2
  <2>. QED
    BY <1>1, <1>2, <1>13, <2>1 DEF FoldSteps
<1>15. \A k \in 1..n : g[k] = RenameInstr(g[k - 1], s[k])
  BY <1>6, <1>14
<1>. QED
  BY <1>14, <1>15 DEF U, n

\* The stores to v among the first k instructions of s.
StoresTo(s, v, k) == {j \in 1..k : s[j].op = "store" /\ s[j].var = v}

LEMMA StoresToFacts ==
  ASSUME NEW s, NEW v, NEW k \in Nat
  PROVE  /\ IsFiniteSet(StoresTo(s, v, k)) /\ Cardinality(StoresTo(s, v, k)) \in Nat
         /\ Cardinality(StoresTo(s, v, 0)) = 0
         /\ Cardinality(StoresTo(s, v, k + 1)) =
              Cardinality(StoresTo(s, v, k)) +
                (IF s[k + 1].op = "store" /\ s[k + 1].var = v THEN 1 ELSE 0)
<1>1. IsFiniteSet(StoresTo(s, v, k)) /\ Cardinality(StoresTo(s, v, k)) \in Nat
  <2>1. IsFiniteSet(1..k)
    BY FS_Interval
  <2>2. StoresTo(s, v, k) \subseteq 1..k
    BY DEF StoresTo
  <2>. QED
    BY <2>1, <2>2, FS_Subset, FS_CardinalityType
<1>2. StoresTo(s, v, 0) = {}
  BY DEF StoresTo
<1>3. CASE s[k + 1].op = "store" /\ s[k + 1].var = v
  <2>1. StoresTo(s, v, k + 1) = StoresTo(s, v, k) \cup {k + 1} /\ k + 1 \notin StoresTo(s, v, k)
    BY <1>3 DEF StoresTo
  <2>2. Cardinality(StoresTo(s, v, k + 1)) = Cardinality(StoresTo(s, v, k)) + 1
    BY <1>1, <2>1, FS_AddElement
  <2>. QED
    BY <1>1, <1>2, <1>3, <2>2, FS_EmptySet
<1>4. CASE ~(s[k + 1].op = "store" /\ s[k + 1].var = v)
  <2>1. StoresTo(s, v, k + 1) = StoresTo(s, v, k)
    BY <1>4 DEF StoresTo
  <2>. QED
    BY <1>1, <1>2, <1>4, <2>1, FS_EmptySet
<1>. QED
  BY <1>3, <1>4

PopsType == \A b \in Block, v \in Vars : Pops(b, v) \in Nat

LEMMA PopsFacts ==
  ASSUME code \in [Block -> Seq(Instr)], NEW b \in Block, NEW v \in Vars
  PROVE  /\ Stores(b, v) = StoresTo(code[b], v, Len(code[b]))
         /\ Pops(b, v) = Cardinality(StoresTo(code[b], v, Len(code[b]))) +
                           (IF <<b, v>> \in phis THEN 1 ELSE 0)
         /\ Pops(b, v) \in Nat
<1>1. DOMAIN code[b] = 1..Len(code[b]) /\ Len(code[b]) \in Nat
  OBVIOUS
<1>2. Stores(b, v) = StoresTo(code[b], v, Len(code[b]))
  BY <1>1 DEF Stores, StoresTo
<1>3. Pops(b, v) = Cardinality(Stores(b, v)) + (IF <<b, v>> \in phis THEN 1 ELSE 0)
  BY DEF Pops
<1>4. Cardinality(StoresTo(code[b], v, Len(code[b]))) \in Nat
  BY <1>1, StoresToFacts
<1>. QED
  BY <1>2, <1>3, <1>4

\* The state before the instructions.
PushedPhis(b) ==
  LET phiVars == {v \in Vars : <<b, v>> \in phis}
  IN  [stacks |-> [v \in Vars |-> IF v \in phiVars THEN Append(stacks[v], PhiOf(b, v))
                                                    ELSE stacks[v]],
       known |-> known \cup phiVars,
       with |-> [o \in Operand |-> o],
       dead |-> {}, emptyBack |-> FALSE]

StacksTyped == stacks \in [Vars -> Seq(Operand)] /\ known \in SUBSET Vars

LEMMA PushedFacts ==
  ASSUME StacksTyped, NEW b \in Block
  PROVE  /\ PushedPhis(b) \in RenameState /\ Renamed(b) = FoldLeft(RenameInstr, PushedPhis(b), code[b])
         /\ known \subseteq PushedPhis(b).known
         /\ \A v \in Vars : Len(PushedPhis(b).stacks[v]) =
                               Len(stacks[v]) + (IF <<b, v>> \in phis THEN 1 ELSE 0)
<1>. DEFINE p == PushedPhis(b)
<1>1. /\ p.stacks = [v \in Vars |-> IF <<b, v>> \in phis THEN Append(stacks[v], PhiOf(b, v))
                                                         ELSE stacks[v]]
      /\ p.known = known \cup {v \in Vars : <<b, v>> \in phis}
      /\ p.with = [o \in Operand |-> o] /\ p.dead = {} /\ p.emptyBack = FALSE
      /\ p = [stacks |-> p.stacks, known |-> p.known, with |-> p.with, dead |-> p.dead,
              emptyBack |-> p.emptyBack]
  BY DEF PushedPhis
<1>2. Renamed(b) = FoldLeft(RenameInstr, p, code[b])
  BY DEF Renamed, PushedPhis
<1>. HIDE DEF p
<1>3. \A v \in Vars :
        /\ p.stacks[v] \in Seq(Operand)
        /\ Len(p.stacks[v]) = Len(stacks[v]) + (IF <<b, v>> \in phis THEN 1 ELSE 0)
  <2>1. ASSUME NEW v \in Vars, <<b, v>> \in phis
        PROVE  p.stacks[v] \in Seq(Operand) /\ Len(p.stacks[v]) = Len(stacks[v]) + 1
    <3>1. p.stacks[v] = Append(stacks[v], PhiOf(b, v)) /\ stacks[v] \in Seq(Operand)
      BY <1>1, <2>1 DEF StacksTyped
    <3>2. PhiOf(b, v) \in Operand
      BY PhiNumbers
    <3>. QED
      BY <3>1, <3>2
  <2>2. ASSUME NEW v \in Vars, <<b, v>> \notin phis
        PROVE  p.stacks[v] \in Seq(Operand) /\ Len(p.stacks[v]) = Len(stacks[v]) + 0
    <3>1. p.stacks[v] = stacks[v] /\ stacks[v] \in Seq(Operand)
      BY <1>1, <2>2 DEF StacksTyped
    <3>. QED
      BY <3>1
  <2>. QED
    BY <2>1, <2>2
<1>4. p \in RenameState
  <2>1. p.stacks \in [Vars -> Seq(Operand)]
    BY <1>1, <1>3
  <2>2. p.known \in SUBSET Vars
    BY <1>1 DEF StacksTyped
  <2>3. p.with \in [Operand -> Operand]
    BY <1>1
  <2>5. p.emptyBack \in BOOLEAN
    BY <1>1
  <2>4. p.dead \in SUBSET (1..MaxInstrs)
    BY <1>1
  <2>. QED
    BY <1>1, <2>1, <2>2, <2>3, <2>4, <2>5 DEF RenameState
<1>. QED
  BY <1>1, <1>2, <1>3, <1>4 DEF p

\* What steps 3 to 5 make of a block.
LEMMA RenamedFacts ==
  ASSUME StacksTyped, code \in [Block -> Seq(Instr)], NEW b \in Block
  PROVE  /\ Renamed(b) \in RenameState
         /\ known \subseteq Renamed(b).known
         /\ \A k \in 1..Len(code[b]) :
              /\ code[b][k].op = "store" => /\ code[b][k].var \in Renamed(b).known
                                            /\ code[b][k].id \in Renamed(b).dead
              /\ code[b][k].op = "load" /\ code[b][k].var \in known /\ ~Renamed(b).emptyBack =>
                   code[b][k].id \in Renamed(b).dead
         /\ \A v \in Vars : Len(Renamed(b).stacks[v]) = Len(stacks[v]) + Pops(b, v)
<1>. DEFINE s == code[b]
            n == Len(s)
            p == PushedPhis(b)
<1>1. s \in Seq(Instr) /\ n \in Nat
  OBVIOUS
<1>2. /\ p \in RenameState /\ Renamed(b) = FoldLeft(RenameInstr, p, s)
      /\ known \subseteq p.known
      /\ \A v \in Vars : Len(p.stacks[v]) = Len(stacks[v]) + (IF <<b, v>> \in phis THEN 1 ELSE 0)
  BY PushedFacts
<1>3. PICK g \in [0..n -> RenameState] :
        /\ g[0] = p /\ g[n] = FoldLeft(RenameInstr, p, s)
        /\ \A k \in 1..n : g[k] = RenameInstr(g[k - 1], s[k])
  BY <1>1, <1>2, RenameFold
<1>. DEFINE Ok(k) ==
       /\ known \subseteq g[k].known
       /\ \A j \in 1..k :
            /\ s[j].op = "store" => s[j].var \in g[k].known /\ s[j].id \in g[k].dead
            /\ s[j].op = "load" /\ s[j].var \in known /\ ~g[k].emptyBack => s[j].id \in g[k].dead
       /\ \A v \in Vars : Len(g[k].stacks[v]) = Len(p.stacks[v]) + Cardinality(StoresTo(s, v, k))
            T == {k \in Nat : k <= n => Ok(k)}
<1>. HIDE DEF p
<1>4. \A v \in Vars : Len(stacks[v]) \in Nat /\ Len(p.stacks[v]) \in Nat
  BY <1>2 DEF StacksTyped, RenameState
<1>5. 0 \in T
  <2>1. \A v \in Vars : Cardinality(StoresTo(s, v, 0)) = 0
    BY StoresToFacts
  <2>. QED
    BY <1>2, <1>3, <1>4, <2>1
<1>6. ASSUME NEW k \in T
      PROVE  k + 1 \in T
  <2>. SUFFICES ASSUME k + 1 <= n PROVE Ok(k + 1)
    OBVIOUS
  <2>1. k \in Nat /\ Ok(k) /\ k \in 0..n /\ k + 1 \in 1..n /\ (k + 1) - 1 = k
    BY <1>1
  <2>2. g[k + 1] = RenameInstr(g[k], s[k + 1]) /\ g[k] \in RenameState /\ s[k + 1] \in Instr
    BY <1>1, <1>3, <2>1
  <2>. DEFINE st == g[k]
              r  == g[k + 1]
              i  == s[k + 1]
  <2>3. RenamesInstr(g[k], s[k + 1], g[k + 1])
    BY <2>2, RenameInstrFacts
  <2>9. /\ st.known \subseteq r.known /\ st.dead \subseteq r.dead /\ (st.emptyBack => r.emptyBack)
        /\ i.op = "store" => i.var \in r.known /\ i.id \in r.dead
        /\ i.op = "load" /\ i.var \in st.known => i.id \in r.dead \/ r.emptyBack
    BY <2>3 DEF RenamesInstr
  <2>5. \A j \in 1..k + 1 : j \in 1..k \/ j = k + 1
    BY <2>1
  <2>6. known \subseteq r.known
    BY <2>1, <2>9
  <2>7. ASSUME NEW v \in Vars
        PROVE  Len(r.stacks[v]) = Len(p.stacks[v]) + Cardinality(StoresTo(s, v, k + 1))
    <3>1. Len(r.stacks[v]) = Len(st.stacks[v]) + (IF i.op = "store" /\ i.var = v THEN 1 ELSE 0)
      BY <2>3 DEF RenamesInstr
    <3>2. Len(st.stacks[v]) = Len(p.stacks[v]) + Cardinality(StoresTo(s, v, k))
      BY <2>1
    <3>3. /\ Cardinality(StoresTo(s, v, k)) \in Nat
          /\ Cardinality(StoresTo(s, v, k + 1)) =
               Cardinality(StoresTo(s, v, k)) + (IF i.op = "store" /\ i.var = v THEN 1 ELSE 0)
      BY <2>1, StoresToFacts
    <3>4. Len(p.stacks[v]) \in Nat
      BY <1>4
    <3>. HIDE DEF i, r, st
    <3>5. PICK u \in {0, 1} : u = (IF i.op = "store" /\ i.var = v THEN 1 ELSE 0)
      OBVIOUS
    <3>6. /\ Len(r.stacks[v]) = Len(st.stacks[v]) + u
          /\ Cardinality(StoresTo(s, v, k + 1)) = Cardinality(StoresTo(s, v, k)) + u
      BY <3>1, <3>3, <3>5
    <3>. QED
      BY <3>2, <3>3, <3>4, <3>6
  <2>8. ASSUME NEW j \in 1..k + 1
        PROVE  /\ s[j].op = "store" => s[j].var \in r.known /\ s[j].id \in r.dead
               /\ s[j].op = "load" /\ s[j].var \in known /\ ~r.emptyBack => s[j].id \in r.dead
    <3>1. CASE j \in 1..k
      BY <2>1, <2>9, <3>1
    <3>2. CASE j = k + 1
      BY <2>1, <2>9, <3>2
    <3>. QED
      BY <2>5, <3>1, <3>2
  <2>. QED
    BY <2>6, <2>7, <2>8
<1>. HIDE DEF Ok
<1>7. T = Nat
  <2>. HIDE DEF T
  <2>1. T \in SUBSET Nat
    BY DEF T
  <2>. QED
    BY <1>5, <1>6, <2>1, Induction
<1>8. Ok(n)
  BY <1>1, <1>7
<1>9. g[n] = Renamed(b) /\ g[n] \in RenameState
  BY <1>1, <1>2, <1>3
<1>10. ASSUME NEW v \in Vars
       PROVE  Len(Renamed(b).stacks[v]) = Len(stacks[v]) + Pops(b, v)
  <2>1. Len(Renamed(b).stacks[v]) = Len(p.stacks[v]) + Cardinality(StoresTo(s, v, n))
    BY <1>8, <1>9 DEF Ok
  <2>2. Cardinality(StoresTo(s, v, n)) \in Nat
    BY <1>1, StoresToFacts
  <2>3. Pops(b, v) = Cardinality(StoresTo(s, v, n)) + (IF <<b, v>> \in phis THEN 1 ELSE 0)
    BY PopsFacts
  <2>4. /\ Len(stacks[v]) \in Nat
        /\ Len(p.stacks[v]) = Len(stacks[v]) + (IF <<b, v>> \in phis THEN 1 ELSE 0)
    BY <1>2, <1>4
  <2>5. PICK x \in Nat : x = Cardinality(StoresTo(s, v, n))
    BY <2>2
  <2>6. PICK y \in Nat : y = IF <<b, v>> \in phis THEN 1 ELSE 0
    OBVIOUS
  <2>7. Pops(b, v) = x + y /\ Len(p.stacks[v]) = Len(stacks[v]) + y
        /\ Len(Renamed(b).stacks[v]) = Len(p.stacks[v]) + x
    BY <2>1, <2>3, <2>4, <2>5, <2>6
  <2>8. PICK l \in Nat : l = Len(stacks[v])
    BY <2>4
  <2>9. (l + y) + x = l + (x + y)
    OBVIOUS
  <2>. QED
    BY ONLY <2>7, <2>8, <2>9
<1>. QED
  BY <1>8, <1>9, <1>10 DEF Ok

\* Two lists of the same instructions, but for their operands.
Alike(s, t) ==
  /\ Len(s) = Len(t)
  /\ \A k \in 1..Len(t) : /\ s[k].op = t[k].op /\ s[k].var = t[k].var
                          /\ s[k].id = t[k].id /\ s[k].tgt = t[k].tgt

LEMMA UsesReplacedFacts ==
  ASSUME code \in [Block -> Seq(Instr)], NEW with \in [Operand -> Operand]
  PROVE  /\ UsesReplaced(with) \in [Block -> Seq(Instr)]
         /\ \A b \in Block : Alike(UsesReplaced(with)[b], code[b])
<1>1. ASSUME NEW b \in Block
      PROVE  UsesReplaced(with)[b] \in Seq(Instr) /\ Alike(UsesReplaced(with)[b], code[b])
  <2>. DEFINE s == code[b]
              n == Len(s)
              r == UsesReplaced(with)[b]
  <2>1. n \in Nat /\ DOMAIN s = 1..n /\ \A k \in 1..n : s[k] \in Instr
    OBVIOUS
  <2>2. r = [i \in DOMAIN s |-> [s[i] EXCEPT !.arg = with[@]]]
    BY DEF UsesReplaced
  <2>. HIDE DEF s, n, r
  <2>3. \A k \in 1..n : with[s[k].arg] \in Operand
    BY <2>1, InstrKinds
  <2>4. \A k \in 1..n : r[k] = [s[k] EXCEPT !.arg = with[s[k].arg]]
    BY <2>1, <2>2
  <2>5. ASSUME NEW k \in 1..n
        PROVE  /\ r[k] \in Instr /\ r[k].op = s[k].op /\ r[k].var = s[k].var
               /\ r[k].id = s[k].id /\ r[k].tgt = s[k].tgt
    <3>1. PICK o \in Operand : o = with[s[k].arg]
      BY <2>3
    <3>2. r[k] = [s[k] EXCEPT !.arg = o] /\ s[k] \in Instr
      BY <2>1, <2>4, <3>1
    <3>. QED
      BY <3>2, WithArg
  <2>6. r \in Seq(Instr) /\ Len(r) = n
    <3>1. r = [i \in 1..n |-> r[i]]
      BY <2>1, <2>2
    <3>2. r \in [1..n -> Instr]
      BY <2>5, <3>1
    <3>. QED
      BY <2>1, <3>2
  <2>. QED
    BY <2>5, <2>6 DEF Alike, s, n, r
<1>2. UsesReplaced(with) = [b \in Block |-> UsesReplaced(with)[b]]
  BY DEF UsesReplaced
<1>. QED
  BY <1>1, <1>2

\* What delete_instr leaves.
LeftOf(s, dead) == {k \in 1..Len(s) : s[k].id = Opaque \/ s[k].id \notin dead}

LEMMA WithoutFacts ==
  ASSUME NEW s \in Seq(Instr), NEW dead
  PROVE  Collected(Without(s, dead), s, LeftOf(s, dead), Instr)
<1>. DEFINE D == LeftOf(s, dead)
            F(g) == [n \in 0..Len(s) |->
                       IF n = 0 THEN << >>
                       ELSE IF s[n].id = Opaque \/ s[n].id \notin dead
                            THEN Append(g[n - 1], s[n]) ELSE g[n - 1]]
            c == CHOOSE g : g = F(g)
<1>1. Without(s, dead) = c[Len(s)]
  BY DEF Without, Keep
<1>2. D \in SUBSET (1..Len(s)) /\ \A n \in 1..Len(s) : n \in D <=> s[n].id = Opaque \/ s[n].id \notin dead
  BY DEF LeftOf
<1>. HIDE DEF D
<1>3. PICK g \in [0..Len(s) -> Seq(Instr)] : Collects(g, s, D)
  BY <1>2, CollectsExist
<1>4. g = F(g)
  <2>1. ASSUME NEW n \in 0..Len(s)
        PROVE  g[n] = F(g)[n]
    <3>1. CASE n = 0
      BY <1>3, <3>1 DEF Collects
    <3>2. CASE n # 0
      <4>1. n \in 1..Len(s)
        BY <3>2
      <4>. QED
        BY <1>2, <1>3, <3>2, <4>1 DEF Collects
    <3>. QED
      BY <3>1, <3>2
  <2>. QED
    BY <1>3, <2>1
<1>. HIDE DEF F
<1>5. c = F(c)
  BY <1>4
<1>. HIDE DEF c
<1>6. Collects(c, s, D)
  <2>1. \A n \in 0..Len(s) :
          c[n] = IF n = 0 THEN << >>
                 ELSE IF s[n].id = Opaque \/ s[n].id \notin dead
                      THEN Append(c[n - 1], s[n]) ELSE c[n - 1]
    BY <1>5 DEF F
  <2>2. 0 \in 0..Len(s) /\ \A n \in 1..Len(s) : n \in 0..Len(s) /\ n # 0
    OBVIOUS
  <2>3. ASSUME NEW n \in 1..Len(s)
        PROVE  c[n] = IF n \in D THEN Append(c[n - 1], s[n]) ELSE c[n - 1]
    BY <1>2, <2>1, <2>2
  <2>. QED
    BY <2>1, <2>2, <2>3 DEF Collects
<1>7. CanCollect(c, s, D, Instr)
  BY <1>2, <1>6 DEF CanCollect
<1>8. Collected(c[Len(s)], s, D, Instr)
  BY <1>7, CollectsFacts
<1>. QED
  BY <1>1, <1>8 DEF D

\* The pairs of a phi are of predecessors, one of each, and of phis only.
PairsOf(pairs, c, isPhi) ==
  /\ pairs \in Seq(PhiPair)
  /\ \A k \in 1..Len(pairs) : isPhi /\ c \in Succs(pairs[k].bb)
  /\ \A j, k \in 1..Len(pairs) : pairs[j].bb = pairs[k].bb => j = k

PairsOK ==
  /\ phiOps = [c \in Block |-> [v \in Vars |-> phiOps[c][v]]]
  /\ \A c \in Block, v \in Vars : PairsOf(phiOps[c][v], c, <<c, v>> \in phis)

\* The pairs are of these blocks.
PairsFrom(V) ==
  \A c \in Block, v \in Vars : \A k \in 1..Len(phiOps[c][v]) : phiOps[c][v][k].bb \in V

\* Values are replaced in the pairs of a phi, and a block gets its pair.
LEMMA PairsReplaced ==
  ASSUME NEW pairs, NEW c \in Block, NEW isPhi \in BOOLEAN, PairsOf(pairs, c, isPhi),
         NEW with \in [Operand -> Operand],
         NEW now, now = [k \in DOMAIN pairs |-> [pairs[k] EXCEPT !.val = with[@]]]
  PROVE  /\ PairsOf(now, c, isPhi)
         /\ Len(now) = Len(pairs) /\ \A k \in 1..Len(pairs) : now[k].bb = pairs[k].bb
<1>1. PICK n \in Nat : Len(pairs) = n /\ DOMAIN pairs = 1..n /\ \A k \in 1..n : pairs[k] \in PhiPair
  BY DEF PairsOf
<1>2. ASSUME NEW k \in 1..n
      PROVE  now[k] \in PhiPair /\ now[k].bb = pairs[k].bb
  <2>1. pairs[k] \in PhiPair /\ now[k] = [pairs[k] EXCEPT !.val = with[pairs[k].val]]
    BY <1>1
  <2>. QED
    BY <2>1 DEF PhiPair
<1>3. now = [k \in 1..n |-> now[k]]
  BY <1>1
<1>4. now \in Seq(PhiPair) /\ Len(now) = n
  BY <1>2, <1>3
<1>. QED
  BY <1>1, <1>2, <1>4 DEF PairsOf

LEMMA PairAdded ==
  ASSUME NEW pairs, NEW c \in Block, PairsOf(pairs, c, TRUE), NEW new \in PhiPair,
         c \in Succs(new.bb), \A k \in 1..Len(pairs) : pairs[k].bb # new.bb
  PROVE  PairsOf(Append(pairs, new), c, TRUE)
<1>. DEFINE now == Append(pairs, new)
<1>1. PICK n \in Nat : Len(pairs) = n /\ pairs \in Seq(PhiPair)
  BY DEF PairsOf
<1>2. /\ now \in Seq(PhiPair) /\ Len(now) = n + 1 /\ now[n + 1] = new
      /\ \A k \in 1..n : now[k] = pairs[k]
  BY <1>1
<1>3. \A k \in 1..n + 1 : k \in 1..n \/ k = n + 1
  OBVIOUS
<1>. HIDE DEF now
<1>4. \A k \in 1..n + 1 : c \in Succs(now[k].bb)
  BY <1>1, <1>2, <1>3 DEF PairsOf
<1>5. \A j, k \in 1..n + 1 : now[j].bb = now[k].bb => j = k
  BY <1>1, <1>2, <1>3 DEF PairsOf
<1>. QED
  BY <1>2, <1>4, <1>5 DEF PairsOf, now

\* The operands that are replaced, and the pairs of the block that is entered.
LEMMA PairsFilled ==
  ASSUME PairsOK, NEW b \in Block, NEW st \in RenameState,
         NEW V, PairsFrom(V), b \notin V,
         \A p \in ReachedPhis(b, st) : st.stacks[p[2]] # << >>,
         phiOps' = Filled(PhiUsesReplaced(st.with), b, st), UNCHANGED <<phis, succ>>
  PROVE  PairsOK' /\ PairsFrom(V \cup {b})'
<1>. DEFINE ops == PhiUsesReplaced(st.with)
<1>1. st.with \in [Operand -> Operand] /\ st.stacks \in [Vars -> Seq(Operand)]
  BY DEF RenameState
<1>2. phiOps' = [c \in Block |-> [v \in Vars |-> phiOps'[c][v]]]
  BY DEF Filled
<1>. SUFFICES ASSUME NEW c \in Block, NEW v \in Vars
              PROVE  /\ PairsOf(phiOps'[c][v], c, <<c, v>> \in phis)
                     /\ \A k \in 1..Len(phiOps'[c][v]) : phiOps'[c][v][k].bb \in V \cup {b}
  BY <1>2 DEF PairsOK, PairsFrom, PairsOf, Succs
<1>. DEFINE new == [val |-> Last(st.stacks[v]), bb |-> b]
            isPhi == <<c, v>> \in phis
<1>3. isPhi \in BOOLEAN /\ PairsOf(phiOps[c][v], c, isPhi)
      /\ \A k \in 1..Len(phiOps[c][v]) : phiOps[c][v][k].bb \in V
  BY DEF PairsOK, PairsFrom
<1>4. ops[c][v] = [k \in DOMAIN phiOps[c][v] |-> [phiOps[c][v][k] EXCEPT !.val = st.with[@]]]
  BY DEF PhiUsesReplaced
<1>. HIDE DEF ops
<1>5. phiOps'[c][v] = IF <<c, v>> \in ReachedPhis(b, st) THEN Append(ops[c][v], new)
                      ELSE ops[c][v]
  BY DEF Filled, ops
<1>. HIDE DEF new, isPhi
<1>6. /\ PairsOf(ops[c][v], c, isPhi)
      /\ \A k \in 1..Len(ops[c][v]) : ops[c][v][k].bb \in V
  <2>1. PICK with, old, now : with = st.with /\ old = phiOps[c][v] /\ now = ops[c][v]
    OBVIOUS
  <2>2. with \in [Operand -> Operand] /\ PairsOf(old, c, isPhi)
        /\ now = [k \in DOMAIN old |-> [old[k] EXCEPT !.val = with[@]]]
    BY <1>1, <1>3, <1>4, <2>1
  <2>3. /\ PairsOf(now, c, isPhi)
        /\ Len(now) = Len(old) /\ \A k \in 1..Len(old) : now[k].bb = old[k].bb
    BY <1>3, <2>2, PairsReplaced
  <2>. QED
    BY <1>3, <2>1, <2>3
<1>7. CASE <<c, v>> \in ReachedPhis(b, st)
  <2>1. <<c, v>> \in phis /\ c \in Succs(b) /\ st.stacks[v] # << >>
    BY <1>7 DEF ReachedPhis
  <2>2. Last(st.stacks[v]) \in Operand
    BY <1>1, <2>1 DEF Last
  <2>3. new \in PhiPair /\ new.bb = b
    BY <2>2 DEF PhiPair, new
  <2>4. isPhi = TRUE /\ \A k \in 1..Len(ops[c][v]) : ops[c][v][k].bb # new.bb
    BY <1>6, <2>1, <2>3 DEF isPhi
  <2>5. PairsOf(phiOps'[c][v], c, isPhi)
    BY <1>5, <1>6, <1>7, <2>1, <2>3, <2>4, PairAdded
  <2>6. ops[c][v] \in Seq(PhiPair)
    BY <1>6 DEF PairsOf
  <2>7. \A k \in 1..Len(phiOps'[c][v]) : phiOps'[c][v][k].bb \in V \cup {b}
    BY <1>5, <1>6, <1>7, <2>3, <2>6
  <2>. QED
    BY <2>5, <2>7 DEF isPhi
<1>8. CASE <<c, v>> \notin ReachedPhis(b, st)
  BY <1>5, <1>6, <1>8 DEF isPhi
<1>. QED
  BY <1>7, <1>8
----------------------------------------------------------------------------
(***************************************************************************)
(* What the calls of re_name have pushed.                                  *)
(***************************************************************************)
CallRecord == [bb : Block, todo : SUBSET Block, dead : SUBSET (1..MaxInstrs)]

\* t is the sum of what the calls cs cost.
IsTotal(t, cs, cost) ==
  \E g \in [0..Len(cs) -> Nat] :
    /\ g[0] = 0 /\ g[Len(cs)] = t
    /\ \A k \in 1..Len(cs) : g[k] = g[k - 1] + cost[cs[k].bb]

LEMMA FrontFacts ==
  ASSUME NEW S, NEW cs \in Seq(S), cs # << >>
  PROVE  /\ Front(cs) \in Seq(S) /\ Len(Front(cs)) = Len(cs) - 1
         /\ \A k \in 1..Len(cs) - 1 : Front(cs)[k] = cs[k]
<1>1. Front(cs) = SubSeq(cs, 1, Len(cs) - 1)
  BY DEF Front
<1>2. PICK m \in Nat : m = Len(cs) - 1
  OBVIOUS
<1>3. \A i \in 1..m : cs[i] \in S
  BY <1>2
<1>. DEFINE r == SubSeq(cs, 1, m)
<1>4. /\ r \in Seq(S) /\ Len(r) = (IF 1 <= m THEN m - 1 + 1 ELSE 0)
      /\ \A i \in 1..m - 1 + 1 : r[i] = cs[1 + i - 1]
  BY <1>3, SubSeqProperties
<1>. HIDE DEF r
<1>5. Len(r) = m /\ m - 1 + 1 = m /\ \A i \in 1..m : 1 + i - 1 = i
  BY <1>4
<1>6. \A i \in 1..m : r[i] = cs[i]
  BY <1>4, <1>5
<1>. QED
  BY <1>1, <1>2, <1>4, <1>5, <1>6 DEF r

\* The calls cost nothing when there are none.
LEMMA TotalEmpty ==
  ASSUME NEW cost
  PROVE  IsTotal(0, << >>, cost)
<1>. DEFINE g == [k \in 0..0 |-> 0]
<1>1. Len(<< >>) = 0 /\ 0 \in 0..0 /\ 1..0 = {}
  OBVIOUS
<1>2. g \in [0..0 -> Nat] /\ g[0] = 0
  OBVIOUS
<1>. HIDE DEF g
<1>. QED
  BY <1>1, <1>2 DEF IsTotal

LEMMA TotalPush ==
  ASSUME NEW cost \in [Block -> Nat], NEW cs \in Seq(CallRecord), NEW c \in CallRecord, NEW t,
         IsTotal(t, cs, cost)
  PROVE  IsTotal(t + cost[c.bb], Append(cs, c), cost)
<1>. DEFINE n  == Len(cs)
            ds == Append(cs, c)
<1>1. PICK g \in [0..n -> Nat] : /\ g[0] = 0 /\ g[n] = t
                                 /\ \A k \in 1..n : g[k] = g[k - 1] + cost[cs[k].bb]
  BY DEF IsTotal
<1>2. n \in Nat /\ Len(ds) = n + 1 /\ ds[n + 1] = c /\ \A k \in 1..n : ds[k] = cs[k]
  OBVIOUS
<1>3. c.bb \in Block /\ cost[c.bb] \in Nat /\ t \in Nat
  BY <1>1, <1>2 DEF CallRecord
<1>. HIDE DEF n, ds
<1>. DEFINE h == [k \in 0..n + 1 |-> IF k = n + 1 THEN t + cost[c.bb] ELSE g[k]]
<1>4. \A k \in 0..n + 1 : h[k] \in Nat
  <2>1. ASSUME NEW k \in 0..n + 1
        PROVE  h[k] \in Nat
    <3>1. k = n + 1 \/ k \in 0..n
      BY <1>2
    <3>. QED
      BY <1>1, <1>2, <1>3, <3>1
  <2>. QED
    BY <2>1
<1>5. h \in [0..n + 1 -> Nat]
  BY <1>4
<1>6. h[n + 1] = t + cost[c.bb] /\ \A k \in 0..n : h[k] = g[k]
  BY <1>2
<1>. HIDE DEF h
<1>7. ASSUME NEW k \in 1..n + 1
      PROVE  h[k] = h[k - 1] + cost[ds[k].bb]
  <2>1. CASE k = n + 1
    <3>1. k - 1 = n /\ n \in 0..n
      BY <1>2, <2>1
    <3>. QED
      BY <1>1, <1>2, <1>6, <2>1, <3>1
  <2>2. CASE k # n + 1
    <3>1. k \in 1..n /\ k \in 0..n /\ k - 1 \in 0..n
      BY <1>2, <2>2
    <3>. QED
      BY <1>1, <1>2, <1>6, <3>1
  <2>. QED
    BY <2>1, <2>2
<1>8. h[0] = 0
  BY <1>1, <1>2, <1>6
<1>9. Len(ds) = n + 1
  BY <1>2
<1>. QED
  BY <1>5, <1>6, <1>7, <1>8, <1>9 DEF IsTotal, ds

LEMMA TotalPop ==
  ASSUME NEW cost \in [Block -> Nat], NEW cs \in Seq(CallRecord), cs # << >>, NEW t,
         IsTotal(t, cs, cost)
  PROVE  /\ t - cost[cs[Len(cs)].bb] \in Nat /\ t \in Nat
         /\ IsTotal(t - cost[cs[Len(cs)].bb], Front(cs), cost)
<1>. DEFINE n  == Len(cs)
            ds == Front(cs)
            c  == cost[cs[n].bb]
<1>1. PICK g \in [0..n -> Nat] : /\ g[0] = 0 /\ g[n] = t
                                 /\ \A k \in 1..n : g[k] = g[k - 1] + cost[cs[k].bb]
  BY DEF IsTotal
<1>2. n \in Nat /\ n >= 1 /\ n \in 1..n /\ n - 1 \in 0..n /\ n \in 0..n
  OBVIOUS
<1>3. Len(ds) = n - 1 /\ \A k \in 1..n - 1 : ds[k] = cs[k]
  BY <1>2, FrontFacts
<1>4. cs[n] \in CallRecord
  BY <1>2
<1>5. c \in Nat
  BY <1>4 DEF CallRecord
<1>6. t = g[n - 1] + c /\ g[n - 1] \in Nat
  BY <1>1, <1>2
<1>. HIDE DEF ds, c, n
<1>7. t - c = g[n - 1] /\ t \in Nat
  BY <1>5, <1>6
<1>. DEFINE h == [k \in 0..n - 1 |-> g[k]]
<1>8. h \in [0..n - 1 -> Nat] /\ \A k \in 0..n - 1 : h[k] = g[k]
  BY <1>1, <1>2
<1>. HIDE DEF h
<1>9. 0 \in 0..n - 1 /\ n - 1 \in 0..n - 1
      /\ \A k \in 1..n - 1 : k \in 1..n /\ k \in 0..n - 1 /\ k - 1 \in 0..n - 1
  BY <1>2
<1>10. \A k \in 1..n - 1 : h[k] = h[k - 1] + cost[ds[k].bb]
  BY <1>1, <1>3, <1>8, <1>9
<1>11. h[0] = 0 /\ h[n - 1] = t - c
  BY <1>1, <1>7, <1>8, <1>9
<1>12. IsTotal(t - c, ds, cost)
  <2>1. /\ h \in [0..Len(ds) -> Nat] /\ h[0] = 0 /\ h[Len(ds)] = t - c
        /\ \A k \in 1..Len(ds) : h[k] = h[k - 1] + cost[ds[k].bb]
    BY <1>3, <1>8, <1>10, <1>11
  <2>. QED
    BY <2>1 DEF IsTotal
<1>. QED
  BY <1>6, <1>7, <1>12 DEF c, ds, n

LEMMA TotalSame ==
  ASSUME NEW cost, NEW cost2, NEW cs \in Seq(CallRecord), NEW ds, Len(ds) = Len(cs), NEW t,
         \A k \in 1..Len(cs) : cost2[ds[k].bb] = cost[cs[k].bb], IsTotal(t, cs, cost)
  PROVE  IsTotal(t, ds, cost2)
<1>1. PICK g \in [0..Len(cs) -> Nat] :
        /\ g[0] = 0 /\ g[Len(cs)] = t
        /\ \A k \in 1..Len(cs) : g[k] = g[k - 1] + cost[cs[k].bb]
  BY DEF IsTotal
<1>2. \A k \in 1..Len(ds) : g[k] = g[k - 1] + cost2[ds[k].bb]
  BY <1>1
<1>. QED
  BY <1>1, <1>2 DEF IsTotal
----------------------------------------------------------------------------
(***************************************************************************)
(* The walk of the dominator tree.                                         *)
(***************************************************************************)
\* What the dominators of b above it store to, in the source.
Above(b) ==
  {v \in Vars : \E c \in Reachable : /\ c # b /\ Dominates(c, b)
                                     /\ \E j \in 1..Len(source[c]) :
                                          source[c][j].op = "store" /\ source[c][j].var = v}

\* The stores are to be deleted, and the loads of K.
Marked(s, dead, K) ==
  \A j \in 1..Len(s) : /\ s[j].op = "store" => s[j].id \in dead
                       /\ s[j].op = "load" /\ s[j].var \in K => s[j].id \in dead

\* They are gone.
Cleaned(s, K) ==
  \A j \in 1..Len(s) : s[j].op # "store" /\ (s[j].op = "load" => s[j].var \notin K)

\* children is the dominator tree.
TreeOK == \A a \in Block, b \in Block : b \in children[a] <=> b \in Reachable /\ IsIdom(a, b)

\* The calls cs are on the way down the tree from the entry, when V are the
\* blocks that were entered; x is the block about to be.
OnTheWay(V, cs, x) ==
  /\ V \subseteq Reachable
  /\ \A b \in V, c \in Reachable : Dominates(c, b) => c \in V
  /\ \A k \in 1..Len(cs) :
       cs[k].bb \in V /\ cs[k].todo \subseteq children[cs[k].bb] \ (V \cup x)
  /\ \A b \in V : \A c \in children[b] :
       c \in V \/ c \in x \/ \E k \in 1..Len(cs) : cs[k].bb = b /\ c \in cs[k].todo
  /\ \A j, k \in 1..Len(cs) : j < k => cs[j].bb # cs[k].bb /\ Dominates(cs[j].bb, cs[k].bb)

\* What was made of the blocks.
Treated(V, cs) ==
  /\ \A b \in Block \ V : Alike(code[b], source[b])
  /\ \A b \in V : \A j \in 1..Len(source[b]) :
       source[b][j].op = "store" => source[b][j].var \in known
  /\ \A k \in 1..Len(cs) : /\ Alike(code[cs[k].bb], source[cs[k].bb])
                            /\ Marked(source[cs[k].bb], cs[k].dead, Above(cs[k].bb))
  /\ \A b \in V : (\A k \in 1..Len(cs) : cs[k].bb # b) => Cleaned(code[b], Above(b))

Begun(V) ==
  /\ Entry \in V \/ V = {}
  /\ mpc = "re_name" /\ calls = << >> => V = {}
  /\ mpc \in {"remove_alloca", "end"} \/ calls # << >> => Entry \in V

Walk == \E V : OnTheWay(V, calls, {}) /\ Treated(V, calls) /\ Begun(V) /\ PairsFrom(V)

Costs(v) == [b \in Block |-> Pops(b, v)]
Balanced == \A v \in Vars : IsTotal(Len(stacks[v]), calls, Costs(v))

PassTypes ==
  /\ mpc \in {"idle", "generate_phi", "re_name", "remove_alloca", "end", "abort", "undefined"}
  /\ children \in [Block -> SUBSET Block]
  /\ StacksTyped
  /\ df \in [Block -> SUBSET Block]
  /\ phis \subseteq Block \X Vars
  /\ calls \in Seq(CallRecord) /\ Len(calls) <= MaxBlocks
  /\ code \in [Block -> Seq(Instr)]
  /\ source \in [Block -> Seq(Instr)]

PassInv ==
  /\ PassTypes /\ PairsOK
  /\ mpc \in {"idle", "generate_phi"} =>
       /\ calls = << >> /\ known = {} /\ \A v \in Vars : stacks[v] = << >>
       /\ \A c \in Block, v \in Vars : phiOps[c][v] = << >>
  /\ mpc # "idle" => TreeOK
  /\ mpc = "generate_phi" => code = source
  /\ mpc \in {"remove_alloca", "end"} => calls = << >>
  /\ mpc \in {"re_name", "remove_alloca", "end"} => Balanced /\ Walk

LEMMA AlikeFacts ==
  ASSUME NEW s, NEW t, NEW u, NEW K, NEW dead
  PROVE  /\ Alike(s, s) /\ (Alike(s, t) /\ Alike(t, u) => Alike(s, u))
         /\ Alike(s, t) => Alike(t, s)
         /\ Alike(s, t) /\ Cleaned(t, K) => Cleaned(s, K)
         /\ Alike(s, t) /\ Marked(t, dead, K) => Marked(s, dead, K)
BY DEF Alike, Cleaned, Marked

LEMMA MarkedIsCleaned ==
  ASSUME NEW s \in Seq(Instr), NEW dead, NEW K, Marked(s, dead, K)
  PROVE  Cleaned(Without(s, dead), K)
<1>. DEFINE r == Without(s, dead)
<1>1. Collected(r, s, LeftOf(s, dead), Instr)
  BY WithoutFacts
<1>. HIDE DEF r
<1>2. r \in Seq(Instr) /\ \A y \in Range(r) : \E d \in LeftOf(s, dead) : y = s[d]
  BY <1>1 DEF Collected
<1>3. ASSUME NEW j \in 1..Len(r)
      PROVE  r[j].op # "store" /\ (r[j].op = "load" => r[j].var \notin K)
  <2>1. r[j] \in Range(r)
    BY <1>2 DEF Range
  <2>2. PICK d \in LeftOf(s, dead) : r[j] = s[d]
    BY <1>2, <2>1
  <2>3. d \in 1..Len(s) /\ (s[d].id = Opaque \/ s[d].id \notin dead) /\ s[d] \in Instr
    BY DEF LeftOf
  <2>4. s[d].op \in {"load", "store"} => s[d].id # Opaque
    BY <2>3, InstrKinds DEF Opaque
  <2>. QED
    BY <2>2, <2>3, <2>4 DEF Marked
<1>. QED
  BY <1>3 DEF Cleaned, r

\* What is pushed depends on the instructions only.
LEMMA SamePops ==
  ASSUME code \in [Block -> Seq(Instr)], code' \in [Block -> Seq(Instr)], UNCHANGED phis,
         NEW b \in Block, Alike(code'[b], code[b]), NEW v \in Vars
  PROVE  Pops(b, v)' = Pops(b, v)
<1>1. Len(code'[b]) = Len(code[b]) /\ DOMAIN code[b] = 1..Len(code[b])
      /\ DOMAIN code'[b] = 1..Len(code'[b])
  BY DEF Alike
<1>2. Stores(b, v)' = Stores(b, v)
  BY <1>1 DEF Stores, Alike
<1>. QED
  BY <1>2 DEF Pops

\* While the edges stay, so does what the walk is measured against.
TreeVars == <<bbs, pre, succ, children, source>>

LEMMA TreeStays ==
  ASSUME UNCHANGED TreeVars
  PROVE  /\ Reachable' = Reachable /\ (TreeOK => TreeOK')
         /\ \A a, b : Dominates(a, b)' <=> Dominates(a, b)
         /\ \A b : Above(b)' = Above(b)
         /\ GraphOK => GraphOK'
         /\ \A V, cs, x : OnTheWay(V, cs, x) => OnTheWay(V, cs, x)'
<1>1. bbs' = bbs /\ pre' = pre /\ succ' = succ /\ children' = children /\ source' = source
  BY DEF TreeVars
<1>2. /\ Reachable' = Reachable /\ (GraphOK => GraphOK')
      /\ \A a, b : Dominates(a, b)' <=> Dominates(a, b)
  BY <1>1, EdgesStay
<1>3. \A a, b : IsIdom(a, b)' <=> IsIdom(a, b)
  BY <1>2 DEF IsIdom
<1>4. TreeOK => TreeOK'
  BY <1>1, <1>2, <1>3 DEF TreeOK
<1>5. \A b : Above(b)' = Above(b)
  BY <1>1, <1>2 DEF Above
<1>6. \A V, cs, x : OnTheWay(V, cs, x) => OnTheWay(V, cs, x)'
  BY <1>1, <1>2 DEF OnTheWay
<1>. QED
  BY <1>2, <1>4, <1>5, <1>6

\* re_name is about to be called on b, rest being its callers.
CanEnter(b, rest, V) ==
  /\ PassTypes /\ PairsOK /\ TreeOK /\ Balanced /\ mpc = "re_name" /\ GraphOK
  /\ b \in Reachable \ V /\ b \in Block /\ rest \in Seq(CallRecord) /\ Len(rest) = Len(calls)
  /\ \A k \in 1..Len(rest) : rest[k].bb = calls[k].bb /\ Dominates(rest[k].bb, b)
  /\ \A c \in Reachable : Dominates(c, b) /\ c # b => c \in V
  /\ OnTheWay(V, rest, {b}) /\ Treated(V, rest) /\ PairsFrom(V)
  /\ Entry \in V \/ b = Entry

\* What the call does to the instructions and the stacks.
LEMMA EnterRenames ==
  ASSUME NEW b, NEW rest, NEW V, CanEnter(b, rest, V), EnterRename(b, rest)
  PROVE  /\ code' \in [Block -> Seq(Instr)] /\ \A c \in Block : Alike(code'[c], code[c])
         /\ stacks' \in [Vars -> Seq(Operand)] /\ known' \in SUBSET Vars /\ known \subseteq known'
         /\ \A v \in Vars : Len(stacks'[v]) = Len(stacks[v]) + Pops(b, v)
         /\ \A j \in 1..Len(source[b]) :
              source[b][j].op = "store" => source[b][j].var \in known'
         /\ mpc' = "re_name" => /\ Marked(source[b], Renamed(b).dead, Above(b))
                                /\ CallOf(b, Renamed(b)) \in CallRecord
<1>. DEFINE st == Renamed(b)
<1>1. /\ b \in Block /\ StacksTyped /\ code \in [Block -> Seq(Instr)] /\ b \in Reachable \ V
      /\ \A c \in Reachable : Dominates(c, b) /\ c # b => c \in V
      /\ children \in [Block -> SUBSET Block]
  BY DEF CanEnter, PassTypes
<1>2. /\ st \in RenameState
      /\ known \subseteq st.known
      /\ \A k \in 1..Len(code[b]) :
           /\ code[b][k].op = "store" => code[b][k].var \in st.known /\ code[b][k].id \in st.dead
           /\ code[b][k].op = "load" /\ code[b][k].var \in known /\ ~st.emptyBack =>
                code[b][k].id \in st.dead
      /\ \A v \in Vars : Len(st.stacks[v]) = Len(stacks[v]) + Pops(b, v)
  BY <1>1, RenamedFacts
<1>3. /\ code' = UsesReplaced(st.with) /\ stacks' = st.stacks /\ known' = st.known
      /\ st.emptyBack => mpc' = "undefined"
  BY DEF EnterRename
<1>. HIDE DEF st
<1>4. /\ st.stacks \in [Vars -> Seq(Operand)] /\ st.known \in SUBSET Vars
      /\ st.with \in [Operand -> Operand] /\ st.dead \in SUBSET (1..MaxInstrs)
  BY <1>2 DEF RenameState
<1>5. code' \in [Block -> Seq(Instr)] /\ \A c \in Block : Alike(code'[c], code[c])
  BY <1>1, <1>3, <1>4, UsesReplacedFacts
<1>6. Alike(code[b], source[b])
  BY <1>1 DEF CanEnter, Treated
<1>7. Above(b) \subseteq known
  <2>1. ASSUME NEW v \in Above(b)
        PROVE  v \in known
    <3>1. PICK c \in Reachable : /\ c # b /\ Dominates(c, b)
                                 /\ \E j \in 1..Len(source[c]) :
                                      source[c][j].op = "store" /\ source[c][j].var = v
      BY DEF Above
    <3>2. c \in V
      BY <1>1, <3>1
    <3>3. \A j \in 1..Len(source[c]) : source[c][j].op = "store" => source[c][j].var \in known
      BY <3>2 DEF CanEnter, Treated
    <3>. QED
      BY <3>1, <3>3
  <2>. QED
    BY <2>1
<1>8. ASSUME NEW j \in 1..Len(source[b])
      PROVE  /\ source[b][j].op = "store" => source[b][j].var \in st.known /\ source[b][j].id \in st.dead
             /\ source[b][j].op = "load" /\ source[b][j].var \in Above(b) /\ ~st.emptyBack =>
                  source[b][j].id \in st.dead
  <2>1. /\ j \in 1..Len(code[b]) /\ source[b][j].op = code[b][j].op
        /\ source[b][j].var = code[b][j].var /\ source[b][j].id = code[b][j].id
    BY <1>6 DEF Alike
  <2>. QED
    BY <1>2, <1>7, <2>1
<1>9. mpc' = "re_name" => Marked(source[b], st.dead, Above(b))
  BY <1>3, <1>8 DEF Marked
<1>10. CallOf(b, st) \in CallRecord
  BY <1>1, <1>4 DEF CallOf, CallRecord
<1>. QED
  BY <1>2, <1>3, <1>4, <1>5, <1>8, <1>9, <1>10 DEF st

\* The values pushed are accounted for.
LEMMA EnterBalances ==
  ASSUME NEW b, NEW rest, NEW V, CanEnter(b, rest, V), EnterRename(b, rest), mpc' = "re_name"
  PROVE  Balanced'
<1>. DEFINE call == CallOf(b, Renamed(b))
<1>1. /\ code' \in [Block -> Seq(Instr)] /\ \A c \in Block : Alike(code'[c], code[c])
      /\ \A v \in Vars : Len(stacks'[v]) = Len(stacks[v]) + Pops(b, v)
      /\ call \in CallRecord
  BY EnterRenames
<1>2. calls' = Append(rest, call) /\ UNCHANGED phis /\ call.bb = b
  BY DEF EnterRename, CallOf
<1>. HIDE DEF call
<1>3. /\ b \in Block /\ rest \in Seq(CallRecord) /\ calls \in Seq(CallRecord)
      /\ Len(rest) = Len(calls) /\ \A k \in 1..Len(rest) : rest[k].bb = calls[k].bb
      /\ code \in [Block -> Seq(Instr)] /\ Balanced
  BY DEF CanEnter, PassTypes
<1>4. ASSUME NEW v \in Vars
      PROVE  IsTotal(Len(stacks'[v]), calls', Costs(v)')
  <2>1. Costs(v)' = Costs(v)
    BY <1>1, <1>2, <1>3, SamePops DEF Costs
  <2>2. Costs(v) \in [Block -> Nat] /\ Costs(v)[b] = Pops(b, v)
    BY <1>3, PopsFacts DEF Costs
  <2>3. IsTotal(Len(stacks[v]), calls, Costs(v))
    BY <1>3 DEF Balanced
  <2>4. IsTotal(Len(stacks[v]), rest, Costs(v))
    <3>1. \A k \in 1..Len(calls) : Costs(v)[rest[k].bb] = Costs(v)[calls[k].bb]
      BY <1>3
    <3>. HIDE DEF Costs
    <3>. QED
      BY <1>3, <2>3, <3>1, TotalSame
  <2>5. IsTotal(Len(stacks[v]) + Costs(v)[call.bb], Append(rest, call), Costs(v))
    BY <1>1, <1>3, <2>2, <2>4, TotalPush
  <2>. QED
    BY <1>1, <1>2, <2>1, <2>2, <2>5
<1>. QED
  BY <1>4 DEF Balanced, Costs

\* The call is further down the tree.
LEMMA EnterGoesDown ==
  ASSUME NEW b, NEW rest, NEW V, CanEnter(b, rest, V), EnterRename(b, rest), mpc' = "re_name"
  PROVE  OnTheWay(V \cup {b}, calls', {}) /\ Begun(V \cup {b})'
<1>. DEFINE call == CallOf(b, Renamed(b))
            n    == Len(rest)
            W    == V \cup {b}
<1>1. calls' = Append(rest, call) /\ call.bb = b /\ call.todo = children[b]
  BY DEF EnterRename, CallOf
<1>. HIDE DEF call
<1>2. /\ b \in Reachable /\ b \notin V /\ b \in Block /\ rest \in Seq(CallRecord) /\ TreeOK /\ GraphOK
      /\ children \in [Block -> SUBSET Block]
      /\ \A k \in 1..n : Dominates(rest[k].bb, b)
      /\ \A c \in Reachable : Dominates(c, b) /\ c # b => c \in V
      /\ Entry \in V \/ b = Entry
  BY DEF CanEnter, PassTypes
<1>3. /\ V \subseteq Reachable
      /\ \A a \in V, c \in Reachable : Dominates(c, a) => c \in V
      /\ \A k \in 1..n : rest[k].bb \in V /\ rest[k].todo \subseteq children[rest[k].bb] \ (V \cup {b})
      /\ \A a \in V : \A c \in children[a] :
           c \in V \/ c \in {b} \/ \E k \in 1..n : rest[k].bb = a /\ c \in rest[k].todo
      /\ \A j, k \in 1..n : j < k => rest[j].bb # rest[k].bb /\ Dominates(rest[j].bb, rest[k].bb)
  BY DEF CanEnter, OnTheWay
<1>4. /\ n \in Nat /\ Len(calls') = n + 1 /\ calls'[n + 1] = call /\ \A k \in 1..n : calls'[k] = rest[k]
      /\ \A k \in 1..n + 1 : k \in 1..n \/ k = n + 1
      /\ n + 1 \in 1..n + 1 /\ \A k \in 1..n : k \in 1..n + 1 /\ k < n + 1
  BY <1>1, <1>2
<1>5. ASSUME NEW c \in children[b]
      PROVE  c \notin W
  <2>1. c \in Block /\ IsIdom(b, c)
    BY <1>2 DEF TreeOK
  <2>. QED
    BY <1>2, <1>3, <2>1 DEF IsIdom
<1>. HIDE DEF n
<1>6. W \subseteq Reachable /\ \A a \in W, c \in Reachable : Dominates(c, a) => c \in W
  BY <1>2, <1>3
<1>7. ASSUME NEW k \in 1..n + 1
      PROVE  calls'[k].bb \in W /\ calls'[k].todo \subseteq children[calls'[k].bb] \ (W \cup {})
  <2>1. CASE k \in 1..n
    BY <1>3, <1>4, <2>1
  <2>2. CASE k = n + 1
    BY <1>1, <1>4, <1>5, <2>2
  <2>. QED
    BY <1>4, <2>1, <2>2
<1>8. ASSUME NEW a \in W, NEW c \in children[a]
      PROVE  c \in W \/ c \in {} \/ \E k \in 1..n + 1 : calls'[k].bb = a /\ c \in calls'[k].todo
  <2>1. CASE a = b
    BY <1>1, <1>4, <2>1
  <2>2. CASE a \in V
    <3>1. c \in V \/ c \in {b} \/ \E k \in 1..n : rest[k].bb = a /\ c \in rest[k].todo
      BY <1>3, <2>2
    <3>. QED
      BY <1>4, <3>1
  <2>. QED
    BY <2>1, <2>2
<1>9. ASSUME NEW j \in 1..n + 1, NEW k \in 1..n + 1, j < k
      PROVE  calls'[j].bb # calls'[k].bb /\ Dominates(calls'[j].bb, calls'[k].bb)
  <2>1. j \in 1..n
    BY <1>4, <1>9
  <2>2. CASE k \in 1..n
    BY <1>3, <1>4, <1>9, <2>1, <2>2
  <2>3. CASE k = n + 1
    BY <1>1, <1>2, <1>3, <1>4, <2>1, <2>3
  <2>. QED
    BY <1>4, <2>2, <2>3
<1>10. OnTheWay(W, calls', {})
  BY <1>4, <1>6, <1>7, <1>8, <1>9 DEF OnTheWay
<1>11. Begun(W)'
  <2>1. Entry \in W
    BY <1>2
  <2>2. calls' # << >>
    BY <1>4
  <2>. QED
    BY <2>1, <2>2 DEF Begun
<1>. QED
  BY <1>10, <1>11 DEF W

LEMMA EnterTreats ==
  ASSUME NEW b, NEW rest, NEW V, CanEnter(b, rest, V), EnterRename(b, rest), mpc' = "re_name",
         NEW cs, cs = calls'
  PROVE  Treated(V \cup {b}, cs)'
<1>. DEFINE call == CallOf(b, Renamed(b))
            n    == Len(rest)
            W    == V \cup {b}
<1>1. cs = Append(rest, call) /\ call.bb = b /\ call.dead = Renamed(b).dead
  BY DEF EnterRename, CallOf
<1>. HIDE DEF call
<1>2. /\ code' \in [Block -> Seq(Instr)] /\ \A c \in Block : Alike(code'[c], code[c])
      /\ known \subseteq known'
      /\ \A j \in 1..Len(source[b]) : source[b][j].op = "store" => source[b][j].var \in known'
      /\ Marked(source[b], call.dead, Above(b))
  BY <1>1, EnterRenames
<1>3. UNCHANGED TreeVars
  BY DEF EnterRename, TreeVars
<1>4. source' = source /\ \A c : Above(c)' = Above(c)
  BY <1>3, TreeStays DEF TreeVars
<1>5. /\ b \in Reachable /\ b \notin V /\ b \in Block /\ rest \in Seq(CallRecord) /\ GraphOK
      /\ V \subseteq Reachable
  BY DEF CanEnter, OnTheWay
<1>6. V \subseteq Block
  BY <1>5, ReachableFacts DEF GraphOK
<1>7. /\ \A c \in Block \ V : Alike(code[c], source[c])
      /\ \A a \in V : \A j \in 1..Len(source[a]) :
           source[a][j].op = "store" => source[a][j].var \in known
      /\ \A k \in 1..n : /\ Alike(code[rest[k].bb], source[rest[k].bb])
                         /\ Marked(source[rest[k].bb], rest[k].dead, Above(rest[k].bb))
      /\ \A a \in V : (\A k \in 1..n : rest[k].bb # a) => Cleaned(code[a], Above(a))
  BY DEF CanEnter, Treated
<1>8. /\ n \in Nat /\ Len(cs) = n + 1 /\ cs[n + 1] = call /\ \A k \in 1..n : cs[k] = rest[k]
      /\ \A k \in 1..n + 1 : k \in 1..n \/ k = n + 1
      /\ n + 1 \in 1..n + 1 /\ \A k \in 1..n : k \in 1..n + 1 /\ rest[k] \in CallRecord
  BY <1>1, <1>5
<1>. HIDE DEF n
<1>9. \A c \in Block : Alike(code[c], source[c]) => Alike(code'[c], source[c])
  BY <1>2, AlikeFacts
<1>10. \A c \in Block \ W : Alike(code'[c], source'[c])
  BY <1>4, <1>7, <1>9
<1>11. \A a \in W : \A j \in 1..Len(source'[a]) :
         source'[a][j].op = "store" => source'[a][j].var \in known'
  BY <1>2, <1>4, <1>7
<1>12. ASSUME NEW k \in 1..n + 1
       PROVE  /\ Alike(code'[cs[k].bb], source'[cs[k].bb])
              /\ Marked(source'[cs[k].bb], cs[k].dead, Above(cs[k].bb)')
  <2>1. CASE k \in 1..n
    <3>1. rest[k].bb \in Block
      BY <1>8, <2>1 DEF CallRecord
    <3>. QED
      BY <1>4, <1>7, <1>8, <1>9, <2>1, <3>1
  <2>2. CASE k = n + 1
    BY <1>1, <1>2, <1>4, <1>5, <1>7, <1>8, <1>9, <2>2
  <2>. QED
    BY <1>8, <2>1, <2>2
<1>13. ASSUME NEW a \in W, \A k \in 1..n + 1 : cs[k].bb # a
       PROVE  Cleaned(code'[a], Above(a)')
  <2>1. a # b
    BY <1>1, <1>8, <1>13
  <2>2. a \in V /\ \A k \in 1..n : rest[k].bb # a
    BY <1>8, <1>13, <2>1
  <2>3. Cleaned(code[a], Above(a)) /\ a \in Block /\ Alike(code'[a], code[a])
    BY <1>2, <1>6, <1>7, <2>2
  <2>. QED
    BY <1>4, <2>3, AlikeFacts
<1>. HIDE DEF W
<1>. QED
  BY <1>8, <1>10, <1>11, <1>12, <1>13 DEF Treated, W

\* The calls in progress are of different blocks.
LEMMA CallsAreFew ==
  ASSUME NEW V, NEW cs \in Seq(CallRecord), OnTheWay(V, cs, {})
  PROVE  Len(cs) <= MaxBlocks
<1>. DEFINE f == [k \in 1..Len(cs) |-> cs[k].bb]
<1>1. PICK n \in Nat : n = Len(cs)
  OBVIOUS
<1>2. \A k \in 1..n : cs[k] \in CallRecord
  BY <1>1
<1>3. \A k \in 1..n : cs[k].bb \in Block
  BY <1>2 DEF CallRecord
<1>4. \A j, k \in 1..n : j < k => cs[j].bb # cs[k].bb
  BY <1>1 DEF OnTheWay
<1>5. \A j, k \in 1..n : j # k => j < k \/ k < j
  OBVIOUS
<1>6. f \in [1..n -> Block] /\ \A j, k \in 1..n : j # k => f[j] # f[k]
  BY <1>1, <1>3, <1>4, <1>5
<1>7. f \in Injection(1..n, Block)
  BY <1>6 DEF Injection, IsInjective
<1>. HIDE DEF f
<1>8. Cardinality(1..n) <= Cardinality(Block)
  BY <1>7, BlocksAreFinite, FS_Injection
<1>9. Cardinality(1..n) = n
  BY FS_Interval
<1>. QED
  BY <1>1, <1>8, <1>9, BlocksAreFinite

\* A call of re_name up to its recursion.
LEMMA EnterKeeps ==
  ASSUME NEW b, NEW rest, NEW V, CanEnter(b, rest, V), EnterRename(b, rest), PassInv
  PROVE  PassInv'
<1>. DEFINE st == Renamed(b)
<1>1. /\ code' \in [Block -> Seq(Instr)]
      /\ stacks' \in [Vars -> Seq(Operand)] /\ known' \in SUBSET Vars
      /\ mpc' = "re_name" => CallOf(b, st) \in CallRecord
  BY EnterRenames
<1>2. /\ PassTypes /\ PairsOK /\ mpc = "re_name" /\ TreeOK /\ rest \in Seq(CallRecord) /\ b \in Block
  BY DEF CanEnter
<1>3. /\ UNCHANGED TreeVars /\ children' = children /\ source' = source /\ phis' = phis /\ succ' = succ
      /\ df' = df
      /\ \/ mpc' \in {"undefined", "abort"} /\ phiOps' = phiOps /\ calls' = calls
         \/ /\ mpc' = "re_name" /\ calls' = Append(rest, CallOf(b, st))
            /\ ~ \E p \in ReachedPhis(b, st) : st.stacks[p[2]] = << >>
            /\ phiOps' = Filled(PhiUsesReplaced(st.with), b, st)
  BY <1>2 DEF EnterRename, TreeVars
<1>4. st \in RenameState
  BY <1>2, RenamedFacts DEF PassTypes
<1>. HIDE DEF st
<1>10. PairsFrom(V) /\ b \notin V
  BY DEF CanEnter
<1>5. PassTypes'
  <2>1. calls' \in Seq(CallRecord)
    <3>1. CASE calls' = calls
      BY <1>2, <3>1 DEF PassTypes
    <3>2. CASE calls' # calls
      <4>1. PICK call \in CallRecord : calls' = Append(rest, call)
        BY <1>1, <1>3, <3>2
      <4>. QED
        BY <1>2, <4>1
    <3>. QED
      BY <3>1, <3>2
  <2>2. Len(calls') <= MaxBlocks
    <3>1. CASE calls' = calls
      BY <1>2, <3>1 DEF PassTypes
    <3>2. CASE calls' # calls
      <4>1. PICK cs : cs = calls' /\ mpc' = "re_name"
        BY <1>3, <3>2
      <4>2. OnTheWay(V \cup {b}, cs, {})
        BY <4>1, EnterGoesDown
      <4>. QED
        BY <2>1, <4>1, <4>2, CallsAreFew
    <3>. QED
      BY <3>1, <3>2
  <2>. QED
    BY <1>1, <1>2, <1>3, <2>1, <2>2 DEF PassTypes, StacksTyped
<1>6. PairsOK'
  <2>1. CASE phiOps' = phiOps
    BY <1>2, <1>3, <2>1 DEF PairsOK, PairsOf, Succs
  <2>2. CASE phiOps' # phiOps
    <3>1. /\ \A p \in ReachedPhis(b, st) : st.stacks[p[2]] # << >>
          /\ phiOps' = Filled(PhiUsesReplaced(st.with), b, st)
      BY <1>3, <2>2
    <3>. QED
      BY <1>2, <1>3, <1>4, <1>10, <3>1, PairsFilled
  <2>. QED
    BY <2>1, <2>2
<1>7. TreeOK'
  BY <1>2, <1>3, TreeStays
<1>8. mpc' = "re_name" => Balanced' /\ Walk'
  <2>. SUFFICES ASSUME mpc' = "re_name" PROVE Balanced' /\ Walk'
    OBVIOUS
  <2>. DEFINE W == V \cup {b}
  <2>1. PICK cs : cs = calls'
    OBVIOUS
  <2>2. OnTheWay(W, cs, {}) /\ Begun(W)'
    BY <2>1, EnterGoesDown
  <2>3. Treated(W, cs)'
    BY <2>1, EnterTreats
  <2>5. PairsFrom(W)'
    <3>1. /\ \A p \in ReachedPhis(b, st) : st.stacks[p[2]] # << >>
          /\ phiOps' = Filled(PhiUsesReplaced(st.with), b, st)
      BY <1>3
    <3>. QED
      BY <1>2, <1>3, <1>4, <1>10, <3>1, PairsFilled
  <2>. HIDE DEF W
  <2>4. OnTheWay(W, cs, {})'
    BY <1>3, <2>2, TreeStays
  <2>. QED
    BY <2>1, <2>2, <2>3, <2>4, <2>5, EnterBalances DEF Walk
<1>9. mpc' \in {"re_name", "abort", "undefined"}
  BY <1>3
<1>. QED
  BY <1>5, <1>6, <1>7, <1>8, <1>9 DEF PassInv

\* run: re_name is called on the entry.
LEMMA RenameEntryKeeps ==
  ASSUME GraphOK, PassInv, RenameEntry
  PROVE  PassInv'
<1>1. mpc = "re_name" /\ calls = << >> /\ EnterRename(Entry, calls)
  BY DEF RenameEntry
<1>2. PICK V : OnTheWay(V, calls, {}) /\ Treated(V, calls) /\ Begun(V) /\ PairsFrom(V)
  BY <1>1 DEF PassInv, Walk
<1>3. V = {} /\ Len(calls) = 0 /\ calls \in Seq(CallRecord)
  BY <1>1, <1>2 DEF Begun
<1>4. Entry \in Reachable /\ Entry \in Block
  BY ReachableFacts DEF GraphOK
<1>5. \A c \in Reachable : Dominates(c, Entry) /\ c # Entry => c \in V
  BY <1>4, EntryDominates, DominatesOneWay DEF GraphOK
<1>6. OnTheWay(V, calls, {Entry})
  BY <1>2, <1>3 DEF OnTheWay
<1>7. CanEnter(Entry, calls, V)
  BY <1>1, <1>2, <1>3, <1>4, <1>5, <1>6 DEF CanEnter, PassInv
<1>. QED
  BY <1>1, <1>7, EnterKeeps

\* The recursion on a block of dom_tree_succ_blocks.
LEMMA RenameChildKeeps ==
  ASSUME GraphOK, PassInv, RenameChild
  PROVE  PassInv'
<1>. DEFINE n == Len(calls)
<1>1. mpc = "re_name" /\ calls # << >> /\ Last(calls) = calls[n]
  BY DEF RenameChild, Last
<1>2. PICK c \in calls[n].todo : EnterRename(c, [calls EXCEPT ![n].todo = @ \ {c}])
  BY <1>1 DEF RenameChild
<1>. DEFINE rest == [calls EXCEPT ![n].todo = @ \ {c}]
            b    == calls[n].bb
<1>3. PICK V : OnTheWay(V, calls, {}) /\ Treated(V, calls) /\ Begun(V) /\ PairsFrom(V)
  BY <1>1 DEF PassInv, Walk
<1>4. calls \in Seq(CallRecord) /\ PassTypes /\ PairsOK /\ TreeOK /\ Balanced
  BY <1>1 DEF PassInv, PassTypes
<1>5. n \in Nat /\ n \in 1..n /\ DOMAIN calls = 1..n /\ \A k \in 1..n : calls[k] \in CallRecord
  BY <1>1, <1>4
<1>0. \A k \in 1..n : k # n => k < n
  <2>. HIDE DEF n
  <2>. QED
    BY <1>5
<1>6. /\ V \subseteq Reachable
      /\ \A a \in V, d \in Reachable : Dominates(d, a) => d \in V
      /\ \A k \in 1..n : calls[k].bb \in V /\ calls[k].todo \subseteq children[calls[k].bb] \ V
      /\ \A a \in V : \A d \in children[a] :
           d \in V \/ \E k \in 1..n : calls[k].bb = a /\ d \in calls[k].todo
      /\ \A j, k \in 1..n : j < k => calls[j].bb # calls[k].bb /\ Dominates(calls[j].bb, calls[k].bb)
  BY <1>3 DEF OnTheWay
<1>7. \A a \in Block : \A d \in children[a] : d \in Block /\ d \in Reachable /\ IsIdom(a, d)
  BY <1>4 DEF TreeOK, PassTypes
<1>8. Reachable \subseteq Block /\ \A k \in 1..n : calls[k].bb \in Block
  BY <1>5, ReachableFacts DEF GraphOK, CallRecord
<1>9. /\ b \in V /\ b \in Block /\ c \in children[b] /\ c \notin V /\ c \in Reachable /\ c \in Block
      /\ IsIdom(b, c)
  BY <1>2, <1>5, <1>6, <1>7, <1>8
<1>10. /\ Len(rest) = n /\ rest \in Seq(CallRecord)
       /\ \A k \in 1..n : rest[k].bb = calls[k].bb /\ rest[k].dead = calls[k].dead
       /\ \A k \in 1..n : k # n => rest[k] = calls[k]
       /\ rest[n].todo = calls[n].todo \ {c}
  <2>1. DOMAIN rest = 1..n /\ \A k \in 1..n : k # n => rest[k] = calls[k]
    BY <1>5
  <2>2. rest[n] = [calls[n] EXCEPT !.todo = @ \ {c}]
    BY <1>5
  <2>3. rest[n] \in CallRecord /\ rest[n].bb = calls[n].bb /\ rest[n].dead = calls[n].dead
        /\ rest[n].todo = calls[n].todo \ {c}
    <3>1. calls[n] \in CallRecord
      BY <1>5
    <3>. HIDE DEF rest, n
    <3>. QED
      BY <2>2, <3>1 DEF CallRecord
  <2>4. \A k \in 1..n : rest[k] \in CallRecord
    <3>. HIDE DEF rest, n
    <3>. QED
      BY <1>5, <2>1, <2>3
  <2>5. rest = [k \in 1..n |-> rest[k]]
    BY <1>5
  <2>. HIDE DEF rest, n
  <2>6. rest \in Seq(CallRecord) /\ Len(rest) = n
    BY <1>5, <2>4, <2>5
  <2>. QED
    BY <2>1, <2>3, <2>6
<1>11. EnterRename(c, rest)
  BY <1>2
<1>. HIDE DEF rest
<1>12. \A d \in Reachable : Dominates(d, c) /\ d # c => d \in V
  BY <1>6, <1>9 DEF IsIdom
<1>13. ASSUME NEW k \in 1..n
       PROVE  Dominates(rest[k].bb, c)
  <2>1. Dominates(b, c)
    BY <1>9 DEF IsIdom
  <2>2. CASE k = n
    BY <1>10, <2>1, <2>2
  <2>3. CASE k # n
    <3>0. k < n
      BY <1>0, <2>3
    <3>1. Dominates(calls[k].bb, b) /\ calls[k].bb \in Block
      BY <1>5, <1>6, <1>8, <3>0
    <3>. QED
      BY <1>9, <1>10, <2>1, <3>1, DominatesTransitive DEF GraphOK
  <2>. QED
    BY <2>2, <2>3
<1>14. ASSUME NEW k \in 1..n
       PROVE  rest[k].bb \in V /\ rest[k].todo \subseteq children[rest[k].bb] \ (V \cup {c})
  <2>1. CASE k = n
    BY <1>6, <1>10, <2>1
  <2>2. CASE k # n
    <3>1. c \notin children[calls[k].bb]
      <4>0. k < n
        BY <1>0, <2>2
      <4>1. calls[k].bb # b
        BY <1>5, <1>6, <4>0
      <4>. QED
        BY <1>7, <1>8, <1>9, <4>1, OneIdom
    <3>. QED
      BY <1>6, <1>10, <2>2, <3>1
  <2>. QED
    BY <2>1, <2>2
<1>15. ASSUME NEW a \in V, NEW d \in children[a]
       PROVE  d \in V \/ d \in {c} \/ \E k \in 1..n : rest[k].bb = a /\ d \in rest[k].todo
  <2>. SUFFICES ASSUME d \notin V, d # c
                PROVE  \E k \in 1..n : rest[k].bb = a /\ d \in rest[k].todo
    OBVIOUS
  <2>1. PICK k \in 1..n : calls[k].bb = a /\ d \in calls[k].todo
    BY <1>6
  <2>2. d \in rest[k].todo
    BY <1>10, <2>1
  <2>. QED
    BY <1>10, <2>1, <2>2
<1>16. OnTheWay(V, rest, {c})
  BY <1>6, <1>10, <1>14, <1>15 DEF OnTheWay
<1>17. Treated(V, rest)
  BY <1>3, <1>10 DEF Treated
<1>18. Entry \in V
  BY <1>1, <1>3 DEF Begun
<1>19. \A k \in 1..Len(rest) : rest[k].bb = calls[k].bb /\ Dominates(rest[k].bb, c)
  BY <1>10, <1>13
<1>20. CanEnter(c, rest, V)
  BY <1>1, <1>3, <1>4, <1>9, <1>10, <1>12, <1>16, <1>17, <1>18, <1>19 DEF CanEnter
<1>. QED
  BY <1>11, <1>20, EnterKeeps

\* The end of a call.
LEMMA LeavePops ==
  ASSUME PassInv, LeaveRename
  PROVE  /\ stacks' \in [Vars -> Seq(Operand)]
         /\ \A v \in Vars : /\ Len(stacks'[v]) = Len(stacks[v]) - Pops(calls[Len(calls)].bb, v)
                            /\ IsTotal(Len(stacks'[v]), Front(calls), Costs(v))
<1>. DEFINE n == Len(calls)
            b == calls[n].bb
<1>1. /\ calls # << >> /\ Last(calls) = calls[n] /\ mpc = "re_name"
      /\ stacks' = [v \in Vars |-> SubSeq(stacks[v], 1, Len(stacks[v]) - Pops(b, v))]
  BY DEF LeaveRename, Last
<1>2. /\ calls \in Seq(CallRecord) /\ stacks \in [Vars -> Seq(Operand)] /\ Balanced
      /\ code \in [Block -> Seq(Instr)]
  BY <1>1 DEF PassInv, PassTypes, StacksTyped
<1>3. calls[n] \in CallRecord
  BY <1>1, <1>2
<1>4. b \in Block
  BY <1>3 DEF CallRecord
<1>5. ASSUME NEW v \in Vars
      PROVE  /\ stacks'[v] \in Seq(Operand) /\ Len(stacks'[v]) = Len(stacks[v]) - Pops(b, v)
             /\ IsTotal(Len(stacks'[v]), Front(calls), Costs(v))
  <2>1. Costs(v) \in [Block -> Nat] /\ Costs(v)[b] = Pops(b, v)
    BY <1>2, <1>4, PopsFacts DEF Costs
  <2>2. IsTotal(Len(stacks[v]), calls, Costs(v))
    BY <1>2 DEF Balanced
  <2>3. /\ Len(stacks[v]) - Costs(v)[b] \in Nat
        /\ IsTotal(Len(stacks[v]) - Costs(v)[b], Front(calls), Costs(v))
    <3>. HIDE DEF Costs
    <3>. QED
      BY <1>1, <1>2, <2>1, <2>2, TotalPop
  <2>4. PICK m \in Nat : m = Len(stacks[v]) - Pops(b, v)
    BY <2>1, <2>3
  <2>5. Pops(b, v) \in Nat /\ Len(stacks[v]) \in Nat /\ stacks[v] \in Seq(Operand)
    <3>1. Pops(b, v) \in Nat
      BY <1>2, <1>4, PopsFacts
    <3>. QED
      BY <1>2, <3>1
  <2>6. \A i \in 1..m : stacks[v][i] \in Operand
    <3>1. m <= Len(stacks[v])
      BY <2>4, <2>5
    <3>. QED
      BY <2>5, <3>1
  <2>. DEFINE r == SubSeq(stacks[v], 1, m)
  <2>7. r \in Seq(Operand) /\ Len(r) = (IF 1 <= m THEN m - 1 + 1 ELSE 0)
    BY <2>6, SubSeqProperties
  <2>8. stacks'[v] = r
    BY <1>1, <2>4
  <2>. HIDE DEF r
  <2>9. Len(r) = m
    BY <2>7
  <2>. QED
    BY <2>1, <2>3, <2>4, <2>7, <2>8, <2>9
<1>6. stacks' \in [Vars -> Seq(Operand)]
  BY <1>1, <1>5
<1>. QED
  BY <1>5, <1>6

LEMMA LeaveRenameKeeps ==
  ASSUME GraphOK, PassInv, LeaveRename
  PROVE  PassInv'
<1>. DEFINE n    == Len(calls)
            call == calls[n]
            b    == call.bb
<1>1. /\ mpc = "re_name" /\ calls # << >> /\ Last(calls) = call
      /\ call.todo = {} /\ calls' = Front(calls)
      /\ code' = [code EXCEPT ![b] = Without(@, call.dead)]
      /\ mpc' = IF n = 1 THEN "remove_alloca" ELSE mpc
      /\ phiOps' = phiOps /\ phis' = phis /\ known' = known /\ UNCHANGED TreeVars
      /\ children' = children /\ source' = source /\ succ' = succ /\ df' = df
  BY DEF LeaveRename, Last, TreeVars
<1>2. PICK V : OnTheWay(V, calls, {}) /\ Treated(V, calls) /\ Begun(V) /\ PairsFrom(V)
  BY <1>1 DEF PassInv, Walk
<1>3. calls \in Seq(CallRecord) /\ PassTypes /\ PairsOK /\ TreeOK /\ code \in [Block -> Seq(Instr)]
  BY <1>1 DEF PassInv, PassTypes
<1>4. /\ n \in Nat /\ n \in 1..n /\ \A k \in 1..n : calls[k] \in CallRecord
      /\ \A k \in 1..n - 1 : k \in 1..n /\ k < n
      /\ \A k \in 1..n : k = n \/ k \in 1..n - 1
  BY <1>1, <1>3
<1>5. PICK cs : cs = calls'
  OBVIOUS
<1>6. cs \in Seq(CallRecord) /\ Len(cs) = n - 1 /\ \A k \in 1..n - 1 : cs[k] = calls[k]
  BY <1>1, <1>3, <1>5, FrontFacts
<1>7. /\ V \subseteq Reachable
      /\ \A a \in V, d \in Reachable : Dominates(d, a) => d \in V
      /\ \A k \in 1..n : calls[k].bb \in V /\ calls[k].todo \subseteq children[calls[k].bb] \ V
      /\ \A a \in V : \A d \in children[a] :
           d \in V \/ \E k \in 1..n : calls[k].bb = a /\ d \in calls[k].todo
      /\ \A j, k \in 1..n : j < k => calls[j].bb # calls[k].bb /\ Dominates(calls[j].bb, calls[k].bb)
  BY <1>2 DEF OnTheWay
<1>8. /\ \A k \in 1..n : calls[k].bb \in Block
      /\ b \in V /\ b \in Block /\ V \subseteq Block
  BY <1>4, <1>7, ReachableFacts DEF GraphOK, CallRecord
<1>9. \A k \in 1..n - 1 : calls[k].bb # b
  BY <1>4, <1>7
<1>10. /\ \A c \in Block \ V : Alike(code[c], source[c])
       /\ \A a \in V : \A j \in 1..Len(source[a]) :
            source[a][j].op = "store" => source[a][j].var \in known
       /\ \A k \in 1..n : /\ Alike(code[calls[k].bb], source[calls[k].bb])
                          /\ Marked(source[calls[k].bb], calls[k].dead, Above(calls[k].bb))
       /\ \A a \in V : (\A k \in 1..n : calls[k].bb # a) => Cleaned(code[a], Above(a))
  BY <1>2 DEF Treated
<1>11. code[b] \in Seq(Instr) /\ code'[b] = Without(code[b], call.dead)
       /\ \A c \in Block : c # b => code'[c] = code[c]
  BY <1>1, <1>3, <1>8
<1>12. Without(code[b], call.dead) \in Seq(Instr)
  BY <1>11, WithoutFacts DEF Collected
<1>13. code' \in [Block -> Seq(Instr)]
  BY <1>1, <1>3, <1>8, <1>12
<1>14. \A c : Above(c)' = Above(c)
  BY <1>1, TreeStays
<1>. HIDE DEF n, call, b
<1>15. Cleaned(code'[b], Above(b))
  <2>1. Alike(code[b], source[b]) /\ Marked(source[b], call.dead, Above(b))
    BY <1>4, <1>10 DEF b, call
  <2>2. Marked(code[b], call.dead, Above(b))
    BY <2>1, AlikeFacts
  <2>. QED
    BY <1>11, <2>2, MarkedIsCleaned
<1>16. OnTheWay(V, cs, {})
  <2>1. ASSUME NEW a \in V, NEW d \in children[a]
        PROVE  d \in V \/ d \in {} \/ \E k \in 1..n - 1 : cs[k].bb = a /\ d \in cs[k].todo
    <3>. SUFFICES ASSUME d \notin V PROVE \E k \in 1..n - 1 : cs[k].bb = a /\ d \in cs[k].todo
      OBVIOUS
    <3>1. PICK k \in 1..n : calls[k].bb = a /\ d \in calls[k].todo
      BY <1>7
    <3>2. k # n
      BY <1>1, <3>1 DEF call
    <3>. QED
      BY <1>4, <1>6, <3>1, <3>2
  <2>. QED
    BY <1>4, <1>6, <1>7, <2>1 DEF OnTheWay
<1>17. OnTheWay(V, cs, {})'
  BY <1>1, <1>16, TreeStays
<1>18. Treated(V, cs)'
  <2>1. \A c \in Block \ V : Alike(code'[c], source'[c])
    BY <1>1, <1>8, <1>10, <1>11
  <2>2. \A a \in V : \A j \in 1..Len(source'[a]) :
          source'[a][j].op = "store" => source'[a][j].var \in known'
    BY <1>1, <1>10
  <2>3. ASSUME NEW k \in 1..n - 1
        PROVE  /\ Alike(code'[cs[k].bb], source'[cs[k].bb])
               /\ Marked(source'[cs[k].bb], cs[k].dead, Above(cs[k].bb)')
    <3>1. cs[k] = calls[k] /\ calls[k].bb \in Block /\ calls[k].bb # b /\ k \in 1..n
      BY <1>4, <1>6, <1>8, <1>9
    <3>. QED
      BY <1>1, <1>10, <1>11, <1>14, <3>1
  <2>4. ASSUME NEW a \in V, \A k \in 1..n - 1 : cs[k].bb # a
        PROVE  Cleaned(code'[a], Above(a)')
    <3>1. CASE a = b
      BY <1>14, <1>15, <3>1
    <3>2. CASE a # b
      <4>1. \A k \in 1..n : calls[k].bb # a
        BY <1>4, <1>6, <2>4, <3>2 DEF b, call
      <4>. QED
        BY <1>8, <1>10, <1>11, <1>14, <3>2, <4>1
    <3>. QED
      BY <3>1, <3>2
  <2>. QED
    BY <1>6, <2>1, <2>2, <2>3, <2>4 DEF Treated
<1>19. Begun(V)'
  <2>1. Entry \in V
    BY <1>1, <1>2 DEF Begun
  <2>2. mpc' = "re_name" => calls' # << >>
    <3>1. mpc' = "re_name" => n # 1
      BY <1>1
    <3>2. n # 1 => Len(cs) # 0
      BY <1>4, <1>6
    <3>. QED
      BY <1>5, <3>1, <3>2
  <2>. QED
    BY <2>1, <2>2 DEF Begun
<1>20. Balanced'
  <2>1. ASSUME NEW v \in Vars
        PROVE  IsTotal(Len(stacks'[v]), cs, Costs(v)')
    <3>1. IsTotal(Len(stacks'[v]), cs, Costs(v))
      BY <1>1, <1>5, LeavePops
    <3>2. ASSUME NEW k \in 1..Len(cs)
          PROVE  Costs(v)'[cs[k].bb] = Costs(v)[cs[k].bb]
      <4>1. cs[k].bb \in Block /\ cs[k].bb # b
        BY <1>4, <1>6, <1>8, <1>9
      <4>2. code'[cs[k].bb] = code[cs[k].bb]
        BY <1>11, <4>1
      <4>3. Pops(cs[k].bb, v)' = Pops(cs[k].bb, v)
        <5>1. PICK c \in Block : c = cs[k].bb
          BY <4>1
        <5>2. Alike(code'[c], code[c])
          BY <4>2, <5>1, AlikeFacts
        <5>3. Pops(c, v)' = Pops(c, v)
          BY <1>1, <1>3, <1>13, <5>2, SamePops
        <5>. QED
          BY <5>1, <5>3
      <4>. QED
        BY <4>1, <4>3 DEF Costs
    <3>. QED
      BY <1>6, <3>1, <3>2, TotalSame
  <2>. QED
    BY <1>5, <2>1 DEF Balanced, Costs
<1>21. PassTypes'
  <2>1. stacks' \in [Vars -> Seq(Operand)]
    BY LeavePops
  <2>2. calls' \in Seq(CallRecord)
    BY <1>5, <1>6
  <2>3. mpc' \in {"re_name", "remove_alloca"}
    BY <1>1
  <2>4. Len(calls') <= MaxBlocks
    <3>1. n <= MaxBlocks /\ MaxBlocks \in Nat
      BY <1>3, BlocksAreFinite DEF PassTypes, n
    <3>2. Len(cs) <= n
      BY <1>4, <1>6
    <3>. QED
      BY <1>5, <1>4, <1>6, <3>1, <3>2
  <2>. QED
    BY <1>1, <1>3, <1>13, <2>1, <2>2, <2>3, <2>4 DEF PassTypes, StacksTyped
<1>22. PairsOK' /\ TreeOK'
  BY <1>1, <1>3, TreeStays DEF PairsOK, PairsOf, Succs
<1>23. mpc' = "remove_alloca" => calls' = << >>
  <2>1. mpc' = "remove_alloca" => Len(cs) = 0
    BY <1>1, <1>4, <1>6
  <2>. QED
    BY <1>5, <1>6, <2>1
<1>24. Walk'
  BY <1>1, <1>2, <1>5, <1>17, <1>18, <1>19 DEF Walk, PairsFrom
<1>25. mpc' \in {"re_name", "remove_alloca"}
  BY <1>1
<1>. QED
  BY <1>20, <1>21, <1>22, <1>23, <1>24, <1>25 DEF PassInv

\* The frontiers and the phis are of blocks.
LEMMA FrontiersTyped ==
  ASSUME GraphOK, StartMem2Reg
  PROVE  df' \in [Block -> SUBSET Block]
<1>. DEFINE ends == RefFrontiers(Dominance) \cup DeadFrontiers
<1>1. df' = [b \in Block |-> {e[2] : e \in {d \in ends : d[1] = b}}]
  BY DEF StartMem2Reg
<1>2. Reachable \subseteq Block /\ bbs \subseteq Block
  BY ReachableFacts DEF GraphOK
<1>3. \A e \in ends : e[2] \in Block
  <2>1. \A e \in DeadFrontiers : e[2] \in Block
    BY <1>2 DEF DeadFrontiers
  <2>2. ASSUME NEW e \in RefFrontiers(Dominance) PROVE e[2] \in Block
    <3>1. PICK j \in Reachable : \E b : e = <<b, j>>
      BY <2>2 DEF RefFrontiers
    <3>. QED
      BY <1>2, <3>1
  <2>. QED
    BY <2>1, <2>2
<1>. HIDE DEF ends
<1>4. \A b \in Block : {e[2] : e \in {d \in ends : d[1] = b}} \subseteq Block
  BY <1>3
<1>. QED
  BY <1>1, <1>4

\* The work list gives phis to blocks only.
LEMMA PhiBlocksTyped ==
  ASSUME df \in [Block -> SUBSET Block], bbs \subseteq Block, NEW v
  PROVE  PhiBlocks(v) \subseteq Block
<1>. DEFINE stored == {b \in bbs : Stores(b, v) # {}}
            step   == [X \in SUBSET Block |-> UNION {df[b] : b \in stored \cup X}]
            V(w)   == [n \in Nat |-> IF n = 0 THEN {}
                                     ELSE LET list == stored \cup w[n - 1]
                                          IN  UNION {df[b] : b \in list}]
<1>1. stored \subseteq Block
  OBVIOUS
<1>2. step \in [SUBSET Block -> SUBSET Block]
  BY <1>1
<1>3. \E w : w = V(w)
  <2>1. PICK f \in [Nat -> SUBSET Block] : Stepwise(f, {}, step)
    <3>. HIDE DEF step
    <3>. QED
      BY <1>2, StepsExist
  <2>2. ASSUME NEW n \in Nat
        PROVE  f[n] = IF n = 0 THEN {} ELSE UNION {df[b] : b \in stored \cup f[n - 1]}
    <3>1. CASE n = 0
      BY <2>1, <3>1 DEF Stepwise
    <3>2. CASE n # 0
      <4>1. n - 1 \in Nat /\ n = (n - 1) + 1 /\ f[n - 1] \in SUBSET Block
        BY <3>2
      <4>2. f[(n - 1) + 1] = step[f[n - 1]]
        BY <4>1, <2>1 DEF Stepwise
      <4>. QED
        BY <3>2, <4>1, <4>2
    <3>. QED
      BY <3>1, <3>2
  <2>3. f = V(f)
    <3>. HIDE DEF step, stored
    <3>. QED
      BY <2>2
  <2>. QED
    BY <2>3
<1>4. PICK w : w = V(w) /\ PhiBlocks(v) = w[MaxBlocks]
  BY <1>3 DEF PhiBlocks
<1>5. w[0] = {} /\ \A n \in Nat : w[n + 1] = UNION {df[b] : b \in stored \cup w[n]}
  <2>1. \A u : /\ V(u)[0] = {}
               /\ \A n \in Nat : V(u)[n + 1] = UNION {df[b] : b \in stored \cup u[n]}
    <3>. TAKE u
    <3>1. V(u)[0] = {}
      OBVIOUS
    <3>2. ASSUME NEW n \in Nat
          PROVE  V(u)[n + 1] = UNION {df[b] : b \in stored \cup u[n]}
      <4>1. n + 1 \in Nat /\ n + 1 # 0 /\ (n + 1) - 1 = n
        OBVIOUS
      <4>. QED
        BY <4>1
    <3>. QED
      BY <3>1, <3>2
  <2>2. PICK u : u = w
    OBVIOUS
  <2>. HIDE DEF V
  <2>3. w = V(u)
    BY <1>4, <2>2
  <2>4. w[0] = {} /\ \A n \in Nat : w[n + 1] = UNION {df[b] : b \in stored \cup u[n]}
    BY <2>1, <2>3
  <2>. QED
    BY <2>2, <2>4
<1>. DEFINE T == {n \in Nat : w[n] \in SUBSET Block}
<1>6. 0 \in T
  BY <1>5
<1>7. ASSUME NEW n \in T
      PROVE  n + 1 \in T
  BY <1>1, <1>5
<1>8. T = Nat
  <2>. HIDE DEF T
  <2>1. T \in SUBSET Nat
    BY DEF T
  <2>. QED
    BY <1>6, <1>7, <2>1, Induction
<1>. QED
  BY <1>4, <1>8, BlocksAreFinite

LEMMA PhisTyped ==
  ASSUME df \in [Block -> SUBSET Block], bbs \subseteq Block, GeneratePhi
  PROVE  phis' \subseteq Block \X Vars
<1>1. \A v \in Vars : PhiBlocks(v) \subseteq Block
  BY PhiBlocksTyped
<1>2. phis' = UNION {PhiBlocks(v) \X {v} : v \in Vars}
  BY DEF GeneratePhi
<1>. QED
  BY <1>1, <1>2

\* run: what Dominators has computed is read.
LEMMA StartKeeps ==
  ASSUME GraphOK, PassInv, StartMem2Reg
  PROVE  PassInv'
<1>. DEFINE idoms == RefIdoms(Dominance)
<1>1. /\ mpc = "idle" /\ mpc' = "generate_phi" /\ source' = code
      /\ children' = [b \in Block |-> {e[2] : e \in {d \in idoms : d[1] = b}}]
      /\ phis' = phis /\ phiOps' = phiOps /\ stacks' = stacks /\ known' = known /\ calls' = calls
      /\ code' = code /\ bbs' = bbs /\ pre' = pre /\ succ' = succ
  BY DEF StartMem2Reg, graphVars
<1>2. /\ \A a, b : <<a, b>> \in idoms <=> b \in Reachable /\ IsIdom(a, b)
      /\ \A e \in idoms : e = <<e[1], e[2]>>
  BY RefIdomsFacts
<1>. HIDE DEF idoms
<1>3. ASSUME NEW a \in Block
      PROVE  \A b : b \in children'[a] <=> b \in Reachable /\ IsIdom(a, b)
  <2>1. children'[a] = {e[2] : e \in {d \in idoms : d[1] = a}}
    BY <1>1
  <2>2. ASSUME NEW b
        PROVE  b \in children'[a] <=> <<a, b>> \in idoms
    <3>1. ASSUME b \in children'[a] PROVE <<a, b>> \in idoms
      <4>1. PICK e \in idoms : e[1] = a /\ b = e[2]
        BY <2>1, <3>1
      <4>. QED
        BY <1>2, <4>1
    <3>2. ASSUME <<a, b>> \in idoms PROVE b \in children'[a]
      <4>1. <<a, b>>[1] = a /\ <<a, b>>[2] = b
        OBVIOUS
      <4>. QED
        BY <2>1, <3>2, <4>1
    <3>. QED
      BY <3>1, <3>2
  <2>. QED
    BY <1>2, <2>2
<1>4. Reachable' = Reachable /\ \A a, b : IsIdom(a, b)' <=> IsIdom(a, b)
  <2>1. Reachable' = Reachable /\ \A a, b : Dominates(a, b)' <=> Dominates(a, b)
    BY <1>1, EdgesStay
  <2>. QED
    BY <2>1 DEF IsIdom
<1>5. TreeOK'
  BY <1>3, <1>4 DEF TreeOK
<1>6. children' \in [Block -> SUBSET Block]
  <2>1. Reachable \subseteq Block
    BY ReachableFacts DEF GraphOK
  <2>2. \A a \in Block : children'[a] \in SUBSET Block
    BY <1>3, <2>1
  <2>. QED
    BY <1>1, <2>2
<1>8. df' \in [Block -> SUBSET Block]
  BY FrontiersTyped
<1>7. PassTypes' /\ PairsOK'
  BY <1>1, <1>6, <1>8 DEF PassInv, PassTypes, StacksTyped, PairsOK, PairsOf, Succs
<1>. QED
  BY <1>1, <1>5, <1>7 DEF PassInv

LEMMA GeneratePhiKeeps ==
  ASSUME GraphOK, PassInv, GeneratePhi
  PROVE  PassInv'
<1>1. /\ mpc = "generate_phi" /\ mpc' = "re_name" /\ children' = children /\ source' = source
      /\ phiOps' = phiOps /\ stacks' = stacks /\ known' = known /\ calls' = calls
      /\ code' = code /\ bbs' = bbs /\ pre' = pre /\ succ' = succ
  BY DEF GeneratePhi, graphVars
<1>2. /\ calls = << >> /\ known = {} /\ TreeOK /\ code = source /\ PassTypes
      /\ \A v \in Vars : stacks[v] = << >>
      /\ \A c \in Block, v \in Vars : phiOps[c][v] = << >>
      /\ PairsOK
  BY <1>1 DEF PassInv
<1>6. df' = df /\ phis' \subseteq Block \X Vars
  BY <1>2, PhisTyped DEF PassTypes, GeneratePhi, GraphOK
<1>7. ASSUME NEW c \in Block, NEW v \in Vars
      PROVE  PairsOf(phiOps[c][v], c, <<c, v>> \in phis)'
  <2>1. phiOps'[c][v] = << >> /\ Len(<< >>) = 0 /\ 1..0 = {} /\ << >> \in Seq(PhiPair)
    BY <1>1, <1>2
  <2>. QED
    BY <2>1 DEF PairsOf
<1>3. PassTypes' /\ TreeOK' /\ PairsOK'
  BY <1>1, <1>2, <1>6, <1>7, TreeStays DEF PassTypes, StacksTyped, PairsOK, TreeVars
<1>4. Balanced'
  <2>1. ASSUME NEW v \in Vars
        PROVE  IsTotal(Len(stacks'[v]), calls', Costs(v)')
    <3>1. Len(stacks'[v]) = 0 /\ calls' = << >>
      BY <1>1, <1>2
    <3>. QED
      BY <3>1, TotalEmpty
  <2>. QED
    BY <2>1 DEF Balanced, Costs
<1>5. Walk'
  <2>1. calls' = << >> /\ Len(calls') = 0 /\ 1..0 = {} /\ code' = source'
    BY <1>1, <1>2
  <2>2. OnTheWay({}, calls, {})'
    BY <2>1 DEF OnTheWay
  <2>3. Treated({}, calls)'
    BY <2>1, AlikeFacts DEF Treated
  <2>4. Begun({})'
    BY <1>1, <2>1 DEF Begun
  <2>5. PairsFrom({})'
    BY <1>1, <1>2 DEF PairsFrom
  <2>. QED
    BY <2>2, <2>3, <2>4, <2>5 DEF Walk
<1>. QED
  BY <1>1, <1>3, <1>4, <1>5 DEF PassInv

\* What does not depend on the function of the pass that runs.
LEMMA PassPartsStay ==
  ASSUME UNCHANGED <<df, children, phis, phiOps, stacks, known, calls, source, graphVars>>
  PROVE  /\ PairsOK => PairsOK'
         /\ TreeOK => TreeOK'
         /\ Balanced => Balanced'
         /\ \A V : OnTheWay(V, calls, {}) /\ Treated(V, calls) /\ PairsFrom(V) =>
                     (OnTheWay(V, calls, {}) /\ Treated(V, calls) /\ PairsFrom(V))'
<1>1. /\ children' = children /\ source' = source /\ phis' = phis /\ phiOps' = phiOps
      /\ stacks' = stacks /\ known' = known /\ calls' = calls
      /\ df' = df /\ code' = code /\ bbs' = bbs /\ pre' = pre /\ succ' = succ
  BY DEF graphVars
<1>2. UNCHANGED TreeVars
  BY <1>1 DEF TreeVars
<1>3. PairsOK => PairsOK'
  BY <1>1 DEF PairsOK, PairsOf, Succs
<1>4. TreeOK => TreeOK'
  BY <1>2, TreeStays
<1>5. Balanced => Balanced'
  BY <1>1 DEF Balanced, Costs, Pops, Stores
<1>6. ASSUME NEW V, OnTheWay(V, calls, {}), Treated(V, calls), PairsFrom(V)
      PROVE  (OnTheWay(V, calls, {}) /\ Treated(V, calls) /\ PairsFrom(V))'
  <2>1. PICK cs : cs = calls
    OBVIOUS
  <2>2. OnTheWay(V, cs, {})'
    BY <1>2, <1>6, <2>1, TreeStays
  <2>3. Treated(V, cs)'
    <3>1. \A b : Above(b)' = Above(b)
      BY <1>2, TreeStays
    <3>. QED
      BY <1>1, <1>6, <2>1, <3>1 DEF Treated
  <2>. QED
    BY <1>1, <1>6, <2>1, <2>2, <2>3 DEF PairsFrom
<1>. QED
  BY <1>3, <1>4, <1>5, <1>6

LEMMA RemoveAllocaKeeps ==
  ASSUME GraphOK, PassInv, RemoveAlloca
  PROVE  PassInv'
<1>1. /\ mpc = "remove_alloca" /\ mpc' = "end"
      /\ UNCHANGED <<df, children, phis, phiOps, stacks, known, calls, source, graphVars>>
  BY DEF RemoveAlloca
<1>2. PassTypes /\ PairsOK /\ TreeOK /\ Balanced /\ Walk /\ calls = << >>
  BY <1>1 DEF PassInv
<1>3. PassTypes'
  BY <1>1, <1>2 DEF PassTypes, StacksTyped, graphVars
<1>4. Walk'
  <2>1. PICK V : OnTheWay(V, calls, {}) /\ Treated(V, calls) /\ Begun(V) /\ PairsFrom(V)
    BY <1>2 DEF Walk
  <2>2. Begun(V)'
    BY <1>1, <2>1 DEF Begun
  <2>. QED
    BY <1>1, <2>1, <2>2, PassPartsStay DEF Walk
<1>5. PairsOK' /\ TreeOK' /\ Balanced' /\ calls' = << >>
  BY <1>1, <1>2, PassPartsStay
<1>. QED
  BY <1>1, <1>3, <1>4, <1>5 DEF PassInv

\* A step of something else.
LEMMA PassStays ==
  ASSUME PassInv, UNCHANGED <<mem2regVars, graphVars>>
  PROVE  PassInv'
<1>1. /\ mpc' = mpc
      /\ UNCHANGED <<df, children, phis, phiOps, stacks, known, calls, source, graphVars>>
  BY DEF mem2regVars
<1>2. PassTypes /\ PassTypes'
  BY <1>1 DEF PassInv, PassTypes, StacksTyped, graphVars
<1>3. Walk => Walk'
  <2>. SUFFICES ASSUME Walk PROVE Walk'
    OBVIOUS
  <2>1. PICK V : OnTheWay(V, calls, {}) /\ Treated(V, calls) /\ Begun(V) /\ PairsFrom(V)
    BY DEF Walk
  <2>2. Begun(V)'
    BY <1>1, <2>1 DEF Begun
  <2>. QED
    BY <1>1, <2>1, <2>2, PassPartsStay DEF Walk
<1>4. (PairsOK => PairsOK') /\ (TreeOK => TreeOK') /\ (Balanced => Balanced')
  BY <1>1, PassPartsStay
<1>. QED
  BY <1>1, <1>2, <1>3, <1>4 DEF PassInv, graphVars

\* A step of the pass keeps the invariant, and the graph.
LEMMA PassKeeps ==
  ASSUME GraphOK, PassInv, Mem2RegNext
  PROVE  PassInv' /\ bbs' = bbs /\ pre' = pre /\ succ' = succ
<1>1. bbs' = bbs /\ pre' = pre /\ succ' = succ
  BY DEF Mem2RegNext, StartMem2Reg, GeneratePhi, RenameEntry, RenameChild, LeaveRename, RemoveAlloca,
     EnterRename, graphVars
<1>. QED
  BY <1>1, StartKeeps, GeneratePhiKeeps, RenameEntryKeeps, RenameChildKeeps, LeaveRenameKeeps,
     RemoveAllocaKeeps DEF Mem2RegNext

\* The sum is the one of the property.
LEMMA TotalIsFold ==
  ASSUME NEW v \in Vars, calls \in Seq(CallRecord), Costs(v) \in [Block -> Nat],
         NEW t, IsTotal(t, calls, Costs(v))
  PROVE  t = FoldLeft(LAMBDA m, c : m + Pops(c.bb, v), 0, calls)
<1>. DEFINE U == Nat
            n == Len(calls)
            step == [e \in U \X (1..n) |-> e[1] + Pops(calls[e[2]].bb, v)]
            F(it) == [s \in SUBSET DOMAIN calls |->
                        IF s = {} THEN 0 ELSE it[s \ {Max(s)}] + Pops(calls[Max(s)].bb, v)]
            c == CHOOSE it : it = F(it)
<1>1. FoldLeft(LAMBDA m, d : m + Pops(d.bb, v), 0, calls) = c[DOMAIN calls]
  BY DEF FoldLeft, MapThenFoldSet
<1>2. n \in Nat /\ DOMAIN calls = 1..n /\ \A k \in 1..n : calls[k] \in CallRecord
  OBVIOUS
<1>3. \A s : Max(s) = Greatest(s)
  BY DEF Max, Greatest
<1>4. \A k \in 1..n : Pops(calls[k].bb, v) \in Nat /\ Costs(v)[calls[k].bb] = Pops(calls[k].bb, v)
  <2>1. \A k \in 1..n : calls[k].bb \in Block
    BY <1>2 DEF CallRecord
  <2>. QED
    BY <2>1 DEF Costs
<1>5. 0 \in U /\ step \in [U \X (1..n) -> U]
  BY <1>4
<1>6. \A u \in U, k \in 1..n : step[<<u, k>>] = u + Pops(calls[k].bb, v)
  OBVIOUS
<1>. HIDE DEF n, step
<1>7. \A s \in SUBSET (1..n) : s # {} => Greatest(s) \in 1..n /\ s \ {Greatest(s)} \in SUBSET (1..n)
  BY <1>2, GreatestFacts
<1>. HIDE DEF U
<1>8. PICK it : FoldOn(it, n, U, 0, step)
  BY <1>2, <1>5, FoldExists
<1>9. it = F(it)
  <2>1. it \in [SUBSET (1..n) -> U]
    BY <1>8 DEF FoldOn
  <2>2. ASSUME NEW s \in SUBSET (1..n)
        PROVE  it[s] = IF s = {} THEN 0 ELSE it[s \ {Max(s)}] + Pops(calls[Max(s)].bb, v)
    <3>1. CASE s = {}
      BY <1>8, <3>1 DEF FoldOn
    <3>2. CASE s # {}
      <4>1. it[s] = step[<<it[s \ {Greatest(s)}], Greatest(s)>>] /\ it[s \ {Greatest(s)}] \in U
        BY <1>7, <1>8, <3>2 DEF FoldOn
      <4>. QED
        BY <1>3, <1>6, <1>7, <3>2, <4>1
    <3>. QED
      BY <3>1, <3>2
  <2>. QED
    BY <1>2, <2>1, <2>2
<1>. HIDE DEF F
<1>10. c = F(c)
  BY <1>9
<1>. HIDE DEF c
<1>11. IsFold(c, n, U, 0, step)
  <2>1. ASSUME NEW s \in SUBSET (1..n)
        PROVE  c[s] = IF s = {} THEN 0 ELSE c[s \ {Max(s)}] + Pops(calls[Max(s)].bb, v)
    BY <1>2, <1>10 DEF F
  <2>2. ASSUME NEW s \in SUBSET (1..n), s # {}, c[s \ {Greatest(s)}] \in U
        PROVE  c[s] = step[<<c[s \ {Greatest(s)}], Greatest(s)>>]
    BY <1>3, <1>6, <1>7, <2>1, <2>2
  <2>. QED
    BY <2>1, <2>2 DEF IsFold
<1>12. FoldsTo(c[1..n], n, U, 0, step)
  BY <1>2, <1>5, <1>11, FoldIs
<1>13. PICK h : FoldSteps(h, n, U, 0, step) /\ h[n] = c[1..n]
  BY <1>12 DEF FoldsTo
<1>14. PICK g \in [0..n -> Nat] :
         /\ g[0] = 0 /\ g[n] = t
         /\ \A k \in 1..n : g[k] = g[k - 1] + Costs(v)[calls[k].bb]
  BY DEF IsTotal, n
<1>. DEFINE T == {k \in Nat : k <= n => h[k] = g[k]}
<1>15. 0 \in T
  BY <1>13, <1>14 DEF FoldSteps
<1>16. ASSUME NEW k \in T
       PROVE  k + 1 \in T
  <2>. SUFFICES ASSUME k + 1 <= n PROVE h[k + 1] = g[k + 1]
    OBVIOUS
  <2>1. k + 1 \in 1..n /\ (k + 1) - 1 = k /\ k \in 0..n /\ h[k] = g[k] /\ g[k] \in Nat
    BY <1>2, <1>14
  <2>2. h[k + 1] = step[<<h[k], k + 1>>]
    BY <1>13, <2>1 DEF FoldSteps
  <2>3. g[k + 1] = g[k] + Costs(v)[calls[k + 1].bb]
    BY <1>14, <2>1
  <2>. QED
    BY <1>4, <1>6, <2>1, <2>2, <2>3 DEF U
<1>17. T = Nat
  <2>1. T \in SUBSET Nat
    OBVIOUS
  <2>. HIDE DEF T
  <2>. QED
    BY <1>15, <1>16, <2>1, Induction
<1>18. h[n] = g[n]
  BY <1>2, <1>17
<1>. QED
  BY <1>1, <1>2, <1>13, <1>14, <1>18

LEMMA PassBegins ==
  ASSUME Mem2RegInit, code \in [Block -> Seq(Instr)]
  PROVE  PassInv
<1>1. PassTypes
  <2>1. << >> \in Seq(Operand) /\ << >> \in Seq(CallRecord) /\ << >> \in Seq(Instr)
    OBVIOUS
  <2>2. stacks \in [Vars -> Seq(Operand)] /\ source \in [Block -> Seq(Instr)]
        /\ children \in [Block -> SUBSET Block]
    BY <2>1 DEF Mem2RegInit
  <2>3. calls = << >> /\ Len(<< >>) = 0 /\ 0 <= MaxBlocks
    BY BlocksAreFinite DEF Mem2RegInit
  <2>. QED
    BY <2>1, <2>2, <2>3 DEF Mem2RegInit, PassTypes, StacksTyped
<1>2. \A c \in Block, v \in Vars : phiOps[c][v] = << >>
  BY DEF Mem2RegInit
<1>4. PairsOK
  <2>1. \A c \in Block, v \in Vars : PairsOf(<< >>, c, <<c, v>> \in phis)
    BY DEF PairsOf
  <2>2. phiOps = [c \in Block |-> [v \in Vars |-> phiOps[c][v]]]
    BY DEF Mem2RegInit
  <2>. QED
    BY <1>2, <2>1, <2>2 DEF PairsOK
<1>3. mpc = "idle" /\ calls = << >> /\ known = {} /\ \A v \in Vars : stacks[v] = << >>
  BY DEF Mem2RegInit
<1>. QED
  BY <1>1, <1>2, <1>3, <1>4 DEF PassInv

LEMMA PassIsTyped == PassInv => Mem2RegTypeOK
<1>. SUFFICES ASSUME PassInv PROVE Mem2RegTypeOK
  OBVIOUS
<1>1. \A c \in Block, v \in Vars : phiOps[c][v] \in Seq(PhiPair)
  BY DEF PassInv, PairsOK, PairsOf
<1>2. phiOps \in [Block -> [Vars -> Seq(PhiPair)]]
  <2>1. \A c \in Block : [v \in Vars |-> phiOps[c][v]] \in [Vars -> Seq(PhiPair)]
    BY <1>1
  <2>2. phiOps = [c \in Block |-> [v \in Vars |-> phiOps[c][v]]]
    BY DEF PassInv, PairsOK
  <2>. QED
    BY <2>1, <2>2
<1>. QED
  BY <1>2 DEF PassInv, PassTypes, StacksTyped, CallRecord, Mem2RegTypeOK

LEMMA StacksAreBalanced == PassInv => StacksBalanced
<1>. SUFFICES ASSUME PassInv, mpc \in {"re_name", "remove_alloca", "end"}, NEW v \in Vars
              PROVE  Len(stacks[v]) = FoldLeft(LAMBDA n, c : n + Pops(c.bb, v), 0, calls)
  BY DEF StacksBalanced
<1>1. Balanced /\ calls \in Seq(CallRecord) /\ code \in [Block -> Seq(Instr)]
  BY DEF PassInv, PassTypes
<1>2. Costs(v) \in [Block -> Nat]
  BY <1>1, PopsFacts DEF Costs
<1>3. IsTotal(Len(stacks[v]), calls, Costs(v))
  BY <1>1 DEF Balanced
<1>. QED
  BY <1>1, <1>2, <1>3, TotalIsFold

\* When the walk is over, every block execution can reach has been treated.
LEMMA AllAreCleaned ==
  ASSUME GraphOK, NEW lvl, Forward(lvl), PassInv, mpc \in {"remove_alloca", "end"}
  PROVE  \A b \in Reachable : Cleaned(code[b], Above(b))
<1>1. calls = << >> /\ Walk /\ TreeOK
  BY DEF PassInv
<1>2. PICK V : OnTheWay(V, calls, {}) /\ Treated(V, calls) /\ Begun(V) /\ PairsFrom(V)
  BY <1>1 DEF Walk
<1>3. Entry \in V /\ Len(calls) = 0 /\ 1..0 = {}
  BY <1>1, <1>2 DEF Begun
<1>4. \A b \in V : \A c \in children[b] : c \in V
  BY <1>2, <1>3 DEF OnTheWay
<1>5. Reachable \subseteq Block /\ lvl \in [Block -> Nat]
  BY ReachableFacts DEF GraphOK, Forward
<1>6. Reachable \subseteq V
  <2>. SUFFICES ASSUME Reachable \ V # {} PROVE FALSE
    OBVIOUS
  <2>. DEFINE N == {n \in Nat : \E b \in Reachable \ V : n = lvl[b]}
  <2>1. \A b \in Reachable : lvl[b] \in Nat
    BY <1>5
  <2>2. N \in SUBSET Nat /\ N # {}
    BY <2>1
  <2>3. PICK n \in N : \A m \in N : n <= m
    BY <2>2, LeastNumber
  <2>4. PICK b \in Reachable \ V : lvl[b] = n
    BY <2>3
  <2>5. \A c \in Reachable \ V : lvl[b] <= lvl[c]
    BY <2>1, <2>3, <2>4
  <2>6. b # Entry
    BY <1>3, <2>4
  <2>7. PICK d : IsIdom(d, b)
    BY <2>6, IdomExists
  <2>8. d \in Reachable /\ d # b /\ Dominates(d, b)
    BY <2>7 DEF IsIdom
  <2>9. lvl[d] < lvl[b]
    BY <2>8, DominatorsAreEarlier
  <2>10. d \in V
    BY <2>1, <2>5, <2>8, <2>9
  <2>11. b \in children[d]
    BY <1>1, <1>5, <2>7, <2>8 DEF TreeOK
  <2>. QED
    BY <1>4, <2>4, <2>10, <2>11
<1>. QED
  BY <1>2, <1>3, <1>6 DEF Treated

(* A load that is left in a block execution can reach reads a variable that *)
(* no dominator of the block stores to, and no store is left there.         *)
LEMMA NothingToReadIsLeft ==
  ASSUME GraphOK, NEW lvl, Forward(lvl), PassInv, mpc = "end",
         NEW b \in Reachable, NEW i \in DOMAIN code[b]
  PROVE  /\ code[b][i].op # "store"
         /\ code[b][i].op = "load" =>
              \A c \in Reachable : Dominates(c, b) /\ c # b =>
                 ~\E j \in DOMAIN source[c] :
                    source[c][j].op = "store" /\ source[c][j].var = code[b][i].var
<1>1. Cleaned(code[b], Above(b))
  BY AllAreCleaned
<1>2. b \in Block /\ \A c \in Reachable : c \in Block
  BY ReachableFacts DEF GraphOK
<1>3. code[b] \in Seq(Instr) /\ \A c \in Reachable : source[c] \in Seq(Instr)
  BY <1>2 DEF PassInv, PassTypes
<1>4. i \in 1..Len(code[b]) /\ \A c \in Reachable : DOMAIN source[c] = 1..Len(source[c])
  BY <1>3
<1>5. code[b][i].op # "store" /\ (code[b][i].op = "load" => code[b][i].var \notin Above(b))
  BY <1>1, <1>4 DEF Cleaned
<1>6. code[b][i].op = "load" => code[b][i].var \in Vars
  BY <1>3, <1>4, InstrKinds
<1>. QED
  BY <1>4, <1>5, <1>6 DEF Above
----------------------------------------------------------------------------
(***************************************************************************)
(* The ends of the blocks.                                                 *)
(***************************************************************************)
\* s ends like t if t ends in a branch or a return, and has none before its
\* end if t has none.
EndsLike(s, t) ==
  /\ t # << >> /\ IsTerminator(t[Len(t)]) => s # << >> /\ s[Len(s)].op = t[Len(t)].op
                                                       /\ s[Len(s)].tgt = t[Len(t)].tgt
  /\ (\A i \in 1..Len(t) - 1 : ~IsTerminator(t[i])) =>
       \A i \in 1..Len(s) - 1 : ~IsTerminator(s[i])

LEMMA AlikeEnds ==
  ASSUME NEW s \in Seq(Instr), NEW t \in Seq(Instr), Alike(s, t)
  PROVE  EndsLike(s, t)
<1>1. PICK n \in Nat : n = Len(t) /\ n = Len(s)
  BY DEF Alike
<1>2. \A k \in 1..n : s[k].op = t[k].op /\ s[k].tgt = t[k].tgt
  BY <1>1 DEF Alike
<1>3. (t # << >> <=> n # 0) /\ (s # << >> <=> n # 0)
  <2>1. t # << >> <=> Len(t) # 0
    OBVIOUS
  <2>2. s # << >> <=> Len(s) # 0
    OBVIOUS
  <2>. QED
    BY <1>1, <2>1, <2>2
<1>4. n # 0 => n \in 1..n
  OBVIOUS
<1>5. \A k \in 1..n - 1 : k \in 1..n
  OBVIOUS
<1>. QED
  BY <1>1, <1>2, <1>3, <1>4, <1>5 DEF EndsLike, IsTerminator

LEMMA WithoutEnds ==
  ASSUME NEW s \in Seq(Instr), NEW dead
  PROVE  EndsLike(Without(s, dead), s)
<1>. DEFINE r == Without(s, dead)
<1>1. Collected(r, s, LeftOf(s, dead), Instr)
  BY WithoutFacts
<1>. HIDE DEF r
<1>2. ASSUME s # << >>, IsTerminator(s[Len(s)])
      PROVE  r # << >> /\ r[Len(r)] = s[Len(s)]
  <2>1. Len(s) \in 1..Len(s) /\ s[Len(s)] \in Instr
    BY <1>2
  <2>2. Len(s) \in LeftOf(s, dead)
    BY <1>2, <2>1, InstrKinds DEF LeftOf
  <2>. QED
    BY <1>1, <2>2 DEF Collected
<1>3. ASSUME \A i \in 1..Len(s) - 1 : ~IsTerminator(s[i])
      PROVE  \A i \in 1..Len(r) - 1 : ~IsTerminator(r[i])
  BY <1>1, <1>3 DEF Collected
<1>. QED
  BY <1>2, <1>3 DEF EndsLike, r

LEMMA EndsLikeFacts ==
  ASSUME NEW s, NEW t, NEW u
  PROVE  EndsLike(s, s) /\ (EndsLike(s, t) /\ EndsLike(t, u) => EndsLike(s, u))
BY DEF EndsLike, IsTerminator

\* No step of the pass changes the end of a block.
LEMMA PassKeepsEnds ==
  ASSUME PassInv, GraphOK, Mem2RegNext
  PROVE  \A b \in Block : EndsLike(code'[b], code[b])
<1>1. code \in [Block -> Seq(Instr)] /\ StacksTyped /\ calls \in Seq(CallRecord)
  BY DEF PassInv, PassTypes
<1>2. CASE code' = code
  BY <1>2, EndsLikeFacts
<1>3. ASSUME NEW c \in Block, NEW rest, EnterRename(c, rest)
      PROVE  \A b \in Block : EndsLike(code'[b], code[b])
  <2>1. Renamed(c) \in RenameState
    BY <1>1, RenamedFacts
  <2>2. Renamed(c).with \in [Operand -> Operand]
    BY <2>1 DEF RenameState
  <2>3. code' = UsesReplaced(Renamed(c).with)
    BY <1>3 DEF EnterRename
  <2>4. code' \in [Block -> Seq(Instr)] /\ \A b \in Block : Alike(code'[b], code[b])
    BY <1>1, <2>2, <2>3, UsesReplacedFacts
  <2>. QED
    BY <1>1, <2>4, AlikeEnds
<1>4. CASE RenameEntry
  BY <1>3, <1>4, ReachableFacts DEF RenameEntry, GraphOK
<1>5. CASE RenameChild
  <2>1. PICK c \in Last(calls).todo : EnterRename(c, [calls EXCEPT ![Len(calls)].todo = @ \ {c}])
    BY <1>5 DEF RenameChild
  <2>2. Last(calls) \in CallRecord
    BY <1>1, <1>5 DEF RenameChild, Last
  <2>3. c \in Block
    BY <2>2 DEF CallRecord
  <2>. QED
    BY <1>3, <2>1, <2>3
<1>6. CASE LeaveRename
  <2>1. PICK call : call = Last(calls)
    OBVIOUS
  <2>2. code' = [code EXCEPT ![call.bb] = Without(@, call.dead)]
    BY <1>6, <2>1 DEF LeaveRename
  <2>3. \A b \in Block : code'[b] = code[b] \/ code'[b] = Without(code[b], call.dead)
    BY <1>1, <2>2
  <2>. QED
    BY <1>1, <2>3, WithoutEnds, EndsLikeFacts
<1>7. CASE StartMem2Reg \/ GeneratePhi \/ RemoveAlloca
  BY <1>2, <1>7 DEF StartMem2Reg, GeneratePhi, RemoveAlloca, graphVars
<1>. QED
  BY <1>4, <1>5, <1>6, <1>7 DEF Mem2RegNext
----------------------------------------------------------------------------
(***************************************************************************)
(* The function that the builder leaves, and what the pass makes of it.    *)
(***************************************************************************)
\* Every block ends with a terminator, and the lists say what it says.
LinksOK ==
  /\ bbs \subseteq Block
  /\ pre \in [Block -> Seq(Block)] /\ succ \in [Block -> Seq(Block)]
  /\ code \in [Block -> Seq(Instr)]
  /\ \A b \in bbs : /\ Terminated(b) /\ Succs(b) = Range(Last(code[b]).tgt)
                    /\ Succs(b) \cup Preds(b) \subseteq bbs
  /\ \A b, c \in bbs : c \in Succs(b) <=> b \in Preds(c)

\* The graph, the pass and the ends of the blocks, from the builder's end on.
OptInv ==
  /\ GraphOK /\ \E lvl : Forward(lvl)
  /\ PassInv /\ LinksOK /\ NoCodeAfterTerminator

\* The pass begins with what the builder leaves.
LEMMA BuiltIsReady ==
  ASSUME RInv, Mem2RegInit, Done
  PROVE  OptInv
<1>1. RInv /\ EInv /\ IInv /\ Edges
  BY DEF RInv, EInv
<1>2. GraphOK /\ \E lvl : Forward(lvl)
  BY <1>1, GraphFacts, TimeIsForward
<1>3. code \in [Block -> Seq(Instr)] /\ NoCodeAfterTerminator /\ BuilderTypeOK
  BY <1>1 DEF IInv, BuilderTypeOK
<1>4. PassInv
  BY <1>3, PassBegins
<1>5. \A b \in bbs : Terminated(b)
  BY <1>1 DEF IInv, OpenBlocksAwaited
<1>6. ASSUME NEW b \in bbs
      PROVE  Succs(b) = Range(Last(code[b]).tgt)
  <2>1. b \in Block /\ Closed(code[b]) /\ Last(code[b]) = code[b][Len(code[b])]
    BY <1>3, <1>5 DEF BuilderTypeOK, Closed, Terminated, Last
  <2>2. Range(succ[b]) = TargetsOf(code[b])
    BY <1>1, <2>1 DEF Edges
  <2>. QED
    BY <2>1, <2>2 DEF TargetsOf, Succs
<1>7. \A b \in bbs : Succs(b) \cup Preds(b) \subseteq bbs
  <2>1. \A b \in bbs : Succs(b) \subseteq Block /\ Preds(b) \subseteq Block /\ b \in Block
    BY <1>3 DEF BuilderTypeOK, Succs, Preds, Range
  <2>. QED
    BY <1>2, <2>1 DEF GraphOK
<1>8. LinksOK
  BY <1>2, <1>3, <1>5, <1>6, <1>7 DEF LinksOK, GraphOK
<1>. QED
  BY <1>2, <1>3, <1>4, <1>8 DEF OptInv

\* A block that ends like before is terminated like before.
LEMMA EndsKept ==
  ASSUME LinksOK, NoCodeAfterTerminator, NEW b \in bbs, EndsLike(code'[b], code[b])
  PROVE  /\ Terminated(b)' /\ Last(code'[b]).tgt = Last(code[b]).tgt
         /\ Last(code'[b]) = code'[b][Len(code'[b])]
<1>1. /\ code[b] # << >> /\ IsTerminator(code[b][Len(code[b])])
      /\ Last(code[b]) = code[b][Len(code[b])] /\ Last(code'[b]) = code'[b][Len(code'[b])]
  BY DEF LinksOK, Terminated, Last
<1>. QED
  BY <1>1 DEF EndsLike, IsTerminator, Terminated

LEMMA EndsKeepLinks ==
  ASSUME LinksOK, NoCodeAfterTerminator, bbs' = bbs, pre' = pre, succ' = succ,
         code' \in [Block -> Seq(Instr)], \A b \in Block : EndsLike(code'[b], code[b])
  PROVE  /\ LinksOK' /\ NoCodeAfterTerminator'
         /\ \A b \in bbs : Last(code'[b]).tgt = Last(code[b]).tgt
<1>1. \A b \in bbs : b \in Block /\ EndsLike(code'[b], code[b])
  BY DEF LinksOK
<1>2. \A b \in bbs : Terminated(b)' /\ Last(code'[b]).tgt = Last(code[b]).tgt
  BY <1>1, EndsKept
<1>3. \A b : Succs(b)' = Succs(b) /\ Preds(b)' = Preds(b)
  BY EdgesStay
<1>4. LinksOK'
  BY <1>2, <1>3 DEF LinksOK
<1>5. NoCodeAfterTerminator'
  BY DEF NoCodeAfterTerminator, EndsLike
<1>. QED
  BY <1>2, <1>4, <1>5

\* A step of Mem2Reg.
LEMMA PassKeepsOptInv ==
  ASSUME OptInv, Mem2RegNext
  PROVE  OptInv' /\ bbs' = bbs /\ \A b \in bbs : Last(code'[b]).tgt = Last(code[b]).tgt
<1>1. GraphOK /\ PassInv /\ LinksOK /\ NoCodeAfterTerminator
  BY DEF OptInv
<1>2. PassInv' /\ bbs' = bbs /\ pre' = pre /\ succ' = succ
  BY <1>1, PassKeeps
<1>3. \A b \in Block : EndsLike(code'[b], code[b])
  BY <1>1, PassKeepsEnds
<1>4. code' \in [Block -> Seq(Instr)]
  BY <1>2 DEF PassInv, PassTypes
<1>5. LinksOK' /\ NoCodeAfterTerminator' /\ \A b \in bbs : Last(code'[b]).tgt = Last(code[b]).tgt
  BY <1>1, <1>2, <1>3, <1>4, EndsKeepLinks
<1>6. GraphOK' /\ \A lvl : Forward(lvl) => Forward(lvl)'
  BY <1>1, <1>2, EdgesStay
<1>7. (\E lvl : Forward(lvl))'
  BY <1>6 DEF OptInv
<1>. QED
  BY <1>2, <1>5, <1>6, <1>7 DEF OptInv
=============================================================================

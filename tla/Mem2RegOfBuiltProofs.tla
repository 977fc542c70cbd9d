------------------------ MODULE Mem2RegOfBuiltProofs ------------------------
(***************************************************************************)
(* Proofs about the passes on the functions the builder makes, for         *)
(* functions of any size: Mem2Reg keeps its types, its stacks are          *)
(* balanced and it renames every load it can; ConstPropagation keeps the   *)
(* neighbour lists, the branches and the operand pairs of the phis in      *)
(* step while it folds branches and removes blocks.                        *)
(***************************************************************************)
EXTENDS Mem2RegOfBuilt, Mem2RegProofs

\* x has branched to c, until its branch was folded.
Away(x, c) == x \in DOMAIN folded /\ c \in Range(Last(source[x]).tgt)

\* The pairs of a phi are one each of predecessors, or of blocks like that.
LinkedTo(pairs, c) ==
  /\ pairs \in Seq(PhiPair)
  /\ \A k \in 1..Len(pairs) : pairs[k].bb \in Preds(c) \/ Away(pairs[k].bb, c)
  /\ \A j, k \in 1..Len(pairs) : pairs[j].bb = pairs[k].bb => j = k

PairsLinked ==
  /\ phiOps = [c \in Block |-> [v \in Vars |-> phiOps[c][v]]]
  /\ \A c \in Block, v \in Vars : LinkedTo(phiOps[c][v], c)

\* The branches that may be folded are as they were, and have two targets.
ToComeOK ==
  /\ cur \in Nat
  /\ cpc = "fold" => \A b \in bbs : b >= cur =>
       /\ Last(code[b]).tgt = Last(source[b]).tgt
       /\ b \in constBrs => Len(Last(code[b]).tgt) = 2

NoCalls == mpc \in {"idle", "end"} /\ calls = << >> /\ \A v \in Vars : stacks[v] = << >>

FoldInv == LinksOK /\ PairsLinked /\ ToComeOK /\ NoCalls /\ Mem2RegTypeOK

\* The ends of the blocks are as the builder left them.
SameEnds == \A b \in bbs : Last(source[b]).tgt = Last(code[b]).tgt

Building   == RInv /\ Mem2RegInit /\ ConstInit
Optimising == Done /\ ConstInit /\ mpc # "idle" /\ OptInv /\ SameEnds
Folding    == Done /\ cpc # "idle" /\ FoldInv

\* One of these is what holds.
Inv == Building \/ Optimising \/ Folding
----------------------------------------------------------------------------
(***************************************************************************)
(* Mem2Reg.                                                                *)
(***************************************************************************)
LEMMA Mem2RegFirstKeeps == Inv /\ Mem2RegFirst => Inv'
<1>. SUFFICES ASSUME Inv, Mem2RegFirst PROVE Optimising'
  BY DEF Inv
<1>1. Done /\ cpc = "idle" /\ Mem2RegNext /\ UNCHANGED <<builderVars, constVars>>
  BY DEF Mem2RegFirst
<1>2. Done' /\ (ConstInit => ConstInit')
  BY <1>1 DEF Done, builderVars, constVars, ConstInit
<1>3. ConstInit /\ OptInv /\ (mpc # "idle" => SameEnds)
  BY <1>1, BuiltIsReady DEF Inv, Building, Optimising, Folding, Mem2RegInit
<1>4. OptInv' /\ bbs' = bbs /\ \A b \in bbs : Last(code'[b]).tgt = Last(code[b]).tgt
  BY <1>1, <1>3, PassKeepsOptInv
<1>5. /\ mpc' # "idle"
      /\ mpc = "idle" => source' = code /\ code' = code
      /\ mpc # "idle" => source' = source
  BY <1>1 DEF Mem2RegNext, StartMem2Reg, GeneratePhi, RenameEntry, RenameChild, LeaveRename,
              RemoveAlloca, EnterRename, graphVars
<1>6. SameEnds'
  BY <1>3, <1>4, <1>5 DEF SameEnds
<1>. QED
  BY <1>2, <1>3, <1>4, <1>5, <1>6 DEF Optimising
----------------------------------------------------------------------------
(***************************************************************************)
(* The loop over the instructions of every block: Propagated.              *)
(***************************************************************************)
\* The blocks that have a conditional branch.
TwoWay == {b \in bbs : \E i \in DOMAIN code[b] : Len(code[b][i].tgt) = 2}

PropState ==
  [with : [Operand -> Operand], dead : SUBSET (1..MaxInstrs), constBrs : SUBSET TwoWay,
   stale : BOOLEAN, stored : [Vars -> Operand], origin : [Vars -> Nat]]

LEMMA TurnKeeps ==
  ASSUME code \in [Block -> Seq(Instr)], bbs \subseteq Block, NEW st \in PropState,
         NEW b \in bbs, NEW k \in DOMAIN code[b]
  PROVE  Turn(st, code[b][k], b) \in PropState
<1>. DEFINE i   == code[b][k]
            arg == st.with[i.arg]
            r   == Turn(st, i, b)
<1>1. i \in Instr /\ b \in Nat /\ code[b] \in Seq(Instr)
  BY DEF Block
<1>2. /\ i.arg \in Operand /\ (i.op \in {"load", "store"} => i.id \in 1..MaxInstrs /\ i.var \in Vars)
      /\ Opaque \in Operand
  BY <1>1, InstrKinds, OperandTypes
<1>3. /\ st.with \in [Operand -> Operand] /\ st.dead \in SUBSET (1..MaxInstrs)
      /\ st.constBrs \in SUBSET TwoWay /\ st.stale \in BOOLEAN
      /\ st.stored \in [Vars -> Operand] /\ st.origin \in [Vars -> Nat]
      /\ st = [with |-> st.with, dead |-> st.dead, constBrs |-> st.constBrs, stale |-> st.stale,
               stored |-> st.stored, origin |-> st.origin]
  BY DEF PropState
<1>4. arg \in Operand
  BY <1>2, <1>3
<1>5. Len(i.tgt) = 2 => b \in TwoWay
  BY DEF TwoWay
<1>11. i.op \in {"load", "store"} => Len(i.tgt) # 2
  <2>1. i.op \in {"load", "store"} => i.tgt = << >>
    BY <1>1 DEF Instr, Access, Branch, Other
  <2>2. \A t : t = << >> => Len(t) # 2
    OBVIOUS
  <2>. QED
    BY <2>1, <2>2
<1>12. PICK ins : ins = i
  OBVIOUS
<1>13. r = Turn(st, ins, b)
  BY <1>12
<1>. HIDE DEF i, arg, r
<1>6. CASE i.op = "load" /\ st.stored[i.var] # Opaque
  <2>. DEFINE with2  == [st.with EXCEPT ![Result(i.id)] = st.stored[i.var]]
              stale2 == IF st.origin[i.var] = b THEN st.stale ELSE TRUE
  <2>1. r = LoadReplaced(st, i, b)
    BY <1>6, <1>11, <1>12, <1>13 DEF Turn, arg
  <2>2. st.stored[i.var] \in Operand
    BY <1>2, <1>3, <1>6
  <2>3. with2 \in [Operand -> Operand] /\ stale2 \in BOOLEAN
    BY <1>3, <2>2
  <2>4. st.dead \cup {i.id} \in SUBSET (1..MaxInstrs)
    BY <1>2, <1>3, <1>6
  <2>5. r = [with |-> with2, dead |-> st.dead \cup {i.id}, constBrs |-> st.constBrs,
             stale |-> stale2, stored |-> st.stored, origin |-> st.origin]
    BY <1>3, <2>1 DEF LoadReplaced
  <2>. HIDE DEF r, with2, stale2
  <2>. QED
    BY <1>3, <2>3, <2>4, <2>5 DEF PropState, r, i
<1>7. CASE i.op = "store"
  <2>. DEFINE val     == IF IsLiteral(arg) THEN arg ELSE Opaque
              stored2 == [st.stored EXCEPT ![i.var] = val]
              origin2 == [st.origin EXCEPT ![i.var] = b]
  <2>1. r = Remembered(st, i, val, b)
    BY <1>7, <1>11, <1>12, <1>13 DEF Turn, arg
  <2>2. stored2 \in [Vars -> Operand] /\ origin2 \in [Vars -> Nat]
    BY <1>1, <1>2, <1>3, <1>4
  <2>3. r = [with |-> st.with, dead |-> st.dead, constBrs |-> st.constBrs,
             stale |-> st.stale, stored |-> stored2, origin |-> origin2]
    BY <1>3, <2>1 DEF Remembered
  <2>. HIDE DEF r, stored2, origin2
  <2>. QED
    BY <1>3, <2>2, <2>3 DEF PropState, r, i
<1>8. CASE IsLiteral(arg) /\ Len(i.tgt) = 2 /\ i.op \notin {"load", "store"}
  <2>1. r = [st EXCEPT !.constBrs = @ \cup {b}]
    BY <1>8, <1>12, <1>13 DEF Turn, arg
  <2>2. st.constBrs \cup {b} \in SUBSET TwoWay
    BY <1>3, <1>5, <1>8
  <2>3. r = [with |-> st.with, dead |-> st.dead, constBrs |-> st.constBrs \cup {b},
             stale |-> st.stale, stored |-> st.stored, origin |-> st.origin]
    BY <1>3, <2>1
  <2>. HIDE DEF r
  <2>. QED
    BY <1>3, <2>2, <2>3 DEF PropState, r, i
<1>9. CASE i.op = "load" /\ st.stored[i.var] = Opaque
  <2>1. i.tgt = << >>
    BY <1>1, <1>9 DEF Instr, Access, Branch, Other, i
  <2>2. r = st
    BY <1>9, <1>11, <1>12, <1>13 DEF Turn, arg
  <2>. QED
    BY <2>2 DEF i, r
<1>10. CASE ~(IsLiteral(arg) /\ Len(i.tgt) = 2) /\ i.op \notin {"load", "store"}
  <2>1. r = st
    BY <1>10, <1>12, <1>13 DEF Turn, arg
  <2>. QED
    BY <2>1 DEF i, r
<1>. QED
  BY <1>6, <1>7, <1>8, <1>9, <1>10

\* one block
LEMMA TurnsKeep ==
  ASSUME code \in [Block -> Seq(Instr)], bbs \subseteq Block, NEW base \in PropState,
         NEW b \in bbs, NEW s, s = code[b]
  PROVE  FoldLeft(LAMBDA u, i : Turn(u, i, b), base, s) \in PropState
<1>. DEFINE U == PropState
            n == Len(s)
            step == [e \in U \X (1..n) |-> Turn(e[1], s[e[2]], b)]
            F(it) == [t \in SUBSET DOMAIN s |->
                        IF t = {} THEN base ELSE Turn(it[t \ {Max(t)}], s[Max(t)], b)]
            c == CHOOSE it : it = F(it)
<1>1. FoldLeft(LAMBDA u, i : Turn(u, i, b), base, s) = c[DOMAIN s]
  BY DEF FoldLeft, MapThenFoldSet
<1>2. n \in Nat /\ DOMAIN s = 1..n
  OBVIOUS
<1>3. \A t : Max(t) = Greatest(t)
  BY DEF Max, Greatest
<1>4. \A u \in U, k \in 1..n : Turn(u, s[k], b) \in U
  BY <1>2, TurnKeeps
<1>5. base \in U /\ step \in [U \X (1..n) -> U]
  BY <1>4
<1>6. \A u \in U, k \in 1..n : step[<<u, k>>] = Turn(u, s[k], b)
  OBVIOUS
<1>. HIDE DEF U, n, step
<1>7. \A t \in SUBSET (1..n) : t # {} => Greatest(t) \in 1..n /\ t \ {Greatest(t)} \in SUBSET (1..n)
  BY <1>2, GreatestFacts
<1>8. PICK it : FoldOn(it, n, U, base, step)
  BY <1>2, <1>5, FoldExists
<1>9. it = F(it)
  <2>1. it \in [SUBSET (1..n) -> U]
    BY <1>8 DEF FoldOn
  <2>2. ASSUME NEW t \in SUBSET (1..n)
        PROVE  it[t] = IF t = {} THEN base ELSE Turn(it[t \ {Max(t)}], s[Max(t)], b)
    <3>1. CASE t = {}
      BY <1>8, <3>1 DEF FoldOn
    <3>2. CASE t # {}
      <4>1. it[t] = step[<<it[t \ {Greatest(t)}], Greatest(t)>>] /\ it[t \ {Greatest(t)}] \in U
        BY <1>7, <1>8, <3>2 DEF FoldOn
      <4>. QED
        BY <1>3, <1>6, <1>7, <3>2, <4>1
    <3>. QED
      BY <3>1, <3>2
  <2>. QED
    BY <1>2, <2>1, <2>2
<1>. HIDE DEF F
<1>10. c = F(c)
  BY <1>9
<1>. HIDE DEF c
<1>11. IsFold(c, n, U, base, step)
  <2>1. ASSUME NEW t \in SUBSET (1..n)
        PROVE  c[t] = IF t = {} THEN base ELSE Turn(c[t \ {Max(t)}], s[Max(t)], b)
    BY <1>2, <1>10 DEF F
  <2>2. ASSUME NEW t \in SUBSET (1..n), t # {}, c[t \ {Greatest(t)}] \in U
        PROVE  c[t] = step[<<c[t \ {Greatest(t)}], Greatest(t)>>]
    BY <1>3, <1>6, <1>7, <2>1, <2>2
  <2>. QED
    BY <2>1, <2>2 DEF IsFold
<1>12. PICK g : FoldSteps(g, n, U, base, step) /\ g[n] = c[1..n]
  <2>1. FoldsTo(c[1..n], n, U, base, step)
    BY <1>2, <1>5, <1>11, FoldIs
  <2>. QED
    BY <2>1 DEF FoldsTo
<1>13. n \in 0..n /\ g[n] \in U
  BY <1>2, <1>12 DEF FoldSteps
<1>. QED
  BY <1>1, <1>2, <1>12, <1>13 DEF U

\* the turn of a block
TurnOf(u, b) == FoldLeft(LAMBDA w, i : Turn(w, i, b), u, code[b])

\* all blocks
LEMMA BlocksKeep ==
  ASSUME code \in [Block -> Seq(Instr)], bbs \subseteq Block, NEW base \in PropState,
         NEW s \in Seq(bbs)
  PROVE  FoldLeft(LAMBDA u, b : TurnOf(u, b), base, s) \in PropState
<1>. DEFINE U == PropState
            n == Len(s)
            step == [e \in U \X (1..n) |-> TurnOf(e[1], s[e[2]])]
            F(it) == [t \in SUBSET DOMAIN s |->
                        IF t = {} THEN base ELSE TurnOf(it[t \ {Max(t)}], s[Max(t)])]
            c == CHOOSE it : it = F(it)
<1>0. \A u \in U, b \in bbs : TurnOf(u, b) \in U
  BY TurnsKeep DEF TurnOf
<1>1. FoldLeft(LAMBDA u, b : TurnOf(u, b), base, s) = c[DOMAIN s]
  BY DEF FoldLeft, MapThenFoldSet
<1>2. n \in Nat /\ DOMAIN s = 1..n /\ \A k \in 1..n : s[k] \in bbs
  OBVIOUS
<1>3. \A t : Max(t) = Greatest(t)
  BY DEF Max, Greatest
<1>4. \A u \in U, k \in 1..n : TurnOf(u, s[k]) \in U
  BY <1>0, <1>2
<1>5. base \in U /\ step \in [U \X (1..n) -> U]
  BY <1>4
<1>6. \A u \in U, k \in 1..n : step[<<u, k>>] = TurnOf(u, s[k])
  OBVIOUS
<1>. HIDE DEF U, n, step
<1>7. \A t \in SUBSET (1..n) : t # {} => Greatest(t) \in 1..n /\ t \ {Greatest(t)} \in SUBSET (1..n)
  BY <1>2, GreatestFacts
<1>8. PICK it : FoldOn(it, n, U, base, step)
  BY <1>2, <1>5, FoldExists
<1>9. it = F(it)
  <2>1. it \in [SUBSET (1..n) -> U]
    BY <1>8 DEF FoldOn
  <2>2. ASSUME NEW t \in SUBSET (1..n)
        PROVE  it[t] = IF t = {} THEN base ELSE TurnOf(it[t \ {Max(t)}], s[Max(t)])
    <3>1. CASE t = {}
      BY <1>8, <3>1 DEF FoldOn
    <3>2. CASE t # {}
      <4>1. it[t] = step[<<it[t \ {Greatest(t)}], Greatest(t)>>] /\ it[t \ {Greatest(t)}] \in U
        BY <1>7, <1>8, <3>2 DEF FoldOn
      <4>. QED
        BY <1>3, <1>6, <1>7, <3>2, <4>1
    <3>. QED
      BY <3>1, <3>2
  <2>. QED
    BY <1>2, <2>1, <2>2
<1>. HIDE DEF F
<1>10. c = F(c)
  BY <1>9
<1>. HIDE DEF c
<1>11. IsFold(c, n, U, base, step)
  <2>1. ASSUME NEW t \in SUBSET (1..n)
        PROVE  c[t] = IF t = {} THEN base ELSE TurnOf(c[t \ {Max(t)}], s[Max(t)])
    BY <1>2, <1>10 DEF F
  <2>2. ASSUME NEW t \in SUBSET (1..n), t # {}, c[t \ {Greatest(t)}] \in U
        PROVE  c[t] = step[<<c[t \ {Greatest(t)}], Greatest(t)>>]
    BY <1>3, <1>6, <1>7, <2>1, <2>2
  <2>. QED
    BY <2>1, <2>2 DEF IsFold
<1>12. PICK g : FoldSteps(g, n, U, base, step) /\ g[n] = c[1..n]
  <2>1. FoldsTo(c[1..n], n, U, base, step)
    BY <1>2, <1>5, <1>11, FoldIs
  <2>. QED
    BY <2>1 DEF FoldsTo
<1>13. n \in 0..n /\ g[n] \in U
  BY <1>2, <1>12 DEF FoldSteps
<1>. QED
  BY <1>1, <1>2, <1>12, <1>13 DEF U

\* The list of the blocks of the function.
LEMMA BlockListFacts ==
  ASSUME bbs \subseteq Block
  PROVE  Keep([b \in Block |-> b], LAMBDA b : b \in bbs) \in Seq(bbs)
<1>. DEFINE s == [b \in Block |-> b]
            D == {k \in 1..Len(s) : s[k] \in bbs}
            F(g) == [n \in 0..Len(s) |->
                       IF n = 0 THEN << >>
                       ELSE IF s[n] \in bbs THEN Append(g[n - 1], s[n]) ELSE g[n - 1]]
            c == CHOOSE g : g = F(g)
            r == Keep(s, LAMBDA b : b \in bbs)
<1>0. s \in Seq(Block) /\ Len(s) \in Nat
  BY BlocksAreFinite DEF Block
<1>1. r = c[Len(s)]
  BY DEF Keep
<1>. HIDE DEF s
<1>2. D \in SUBSET (1..Len(s)) /\ \A n \in 1..Len(s) : n \in D <=> s[n] \in bbs
  OBVIOUS
<1>. HIDE DEF D
<1>3. PICK g \in [0..Len(s) -> Seq(Block)] : Collects(g, s, D)
  BY <1>0, <1>2, CollectsExist
<1>4. g = F(g)
  <2>1. ASSUME NEW n \in 0..Len(s)
        PROVE  g[n] = F(g)[n]
    <3>1. CASE n = 0
      BY <1>3, <3>1 DEF Collects
    <3>2. CASE n # 0
      <4>1. n \in 1..Len(s)
        BY <1>0, <3>2
      <4>. QED
        BY <1>2, <1>3, <3>2, <4>1 DEF Collects
    <3>. QED
      BY <3>1, <3>2
  <2>. QED
    BY <1>3, <2>1
<1>. HIDE DEF F
<1>5. c = F(c)
  BY <1>4
<1>. HIDE DEF c
<1>6. Collects(c, s, D)
  <2>1. \A n \in 0..Len(s) :
          c[n] = IF n = 0 THEN << >>
                 ELSE IF s[n] \in bbs THEN Append(c[n - 1], s[n]) ELSE c[n - 1]
    BY <1>5 DEF F
  <2>2. 0 \in 0..Len(s) /\ \A n \in 1..Len(s) : n \in 0..Len(s) /\ n # 0
    BY <1>0
  <2>3. ASSUME NEW n \in 1..Len(s)
        PROVE  c[n] = IF n \in D THEN Append(c[n - 1], s[n]) ELSE c[n - 1]
    BY <1>2, <2>1, <2>2
  <2>. QED
    BY <2>1, <2>2, <2>3 DEF Collects
<1>7. CanCollect(c, s, D, Block)
  BY <1>0, <1>2, <1>6 DEF CanCollect
<1>8. Collected(c[Len(s)], s, D, Block)
  BY <1>7, CollectsFacts
<1>. HIDE DEF r
<1>9. r \in Seq(Block) /\ \A y \in Range(r) : y \in bbs
  BY <1>1, <1>2, <1>8 DEF Collected
<1>10. \A k \in 1..Len(r) : r[k] \in bbs
  BY <1>9 DEF Range
<1>11. r \in Seq(bbs)
  BY <1>9, <1>10
<1>. QED
  BY <1>11 DEF r, s

LEMMA PropagatedFacts ==
  ASSUME code \in [Block -> Seq(Instr)], bbs \subseteq Block
  PROVE  Propagated \in PropState
<1>. DEFINE base == [with |-> [o \in Operand |-> o], dead |-> {}, constBrs |-> {}, stale |-> FALSE,
                     stored |-> [v \in Vars |-> Opaque], origin |-> [v \in Vars |-> NoBlock]]
<1>1. base \in PropState
  <2>1. Opaque \in Operand /\ NoBlock \in Nat
    BY OperandTypes DEF NoBlock
  <2>. QED
    BY <2>1 DEF PropState
<1>2. PICK s \in Seq(bbs) : s = Keep([b \in Block |-> b], LAMBDA b : b \in bbs)
  BY BlockListFacts
<1>3. Propagated = FoldLeft(LAMBDA u, b : TurnOf(u, b), base, s)
  BY <1>2 DEF Propagated, TurnOf
<1>. HIDE DEF base
<1>. QED
  BY <1>1, <1>3, BlocksKeep
\* Only the last instruction of a block has two targets.
LEMMA TwoWayEnds ==
  ASSUME LinksOK, NoCodeAfterTerminator, NEW b \in TwoWay
  PROVE  Len(Last(code[b]).tgt) = 2
<1>1. b \in Block /\ code[b] \in Seq(Instr) /\ \E i \in DOMAIN code[b] : Len(code[b][i].tgt) = 2
  BY DEF TwoWay, LinksOK
<1>2. PICK n \in Nat : n = Len(code[b]) /\ DOMAIN code[b] = 1..n
  BY <1>1
<1>3. PICK i \in 1..n : Len(code[b][i].tgt) = 2
  BY <1>1, <1>2
<1>4. code[b][i] \in Instr
  BY <1>1, <1>2
<1>5. code[b][i].op \notin {"br"} => code[b][i].tgt = << >>
  BY <1>4 DEF Instr, Access, Branch, Other
<1>6. \A t : t = << >> => Len(t) # 2
  OBVIOUS
<1>7. IsTerminator(code[b][i])
  BY <1>3, <1>5, <1>6 DEF IsTerminator
<1>8. i = n
  BY <1>1, <1>2, <1>7 DEF NoCodeAfterTerminator
<1>. QED
  BY <1>2, <1>3, <1>8 DEF Last

\* What Propagate makes of the instructions.
LEMMA PropagatedCode ==
  ASSUME code \in [Block -> Seq(Instr)], NEW with \in [Operand -> Operand], NEW dead,
         code' = [b \in Block |-> Without(UsesReplaced(with)[b], dead)]
  PROVE  /\ code' \in [Block -> Seq(Instr)]
         /\ \A b \in Block : EndsLike(code'[b], code[b])
<1>1. /\ UsesReplaced(with) \in [Block -> Seq(Instr)]
      /\ \A b \in Block : Alike(UsesReplaced(with)[b], code[b])
  BY UsesReplacedFacts
<1>2. ASSUME NEW b \in Block
      PROVE  code'[b] \in Seq(Instr) /\ EndsLike(code'[b], code[b])
  <2>1. PICK u \in Seq(Instr) : u = UsesReplaced(with)[b] /\ Alike(u, code[b])
    BY <1>1
  <2>2. code'[b] = Without(u, dead)
    BY <2>1
  <2>3. code'[b] \in Seq(Instr)
    BY <2>1, <2>2, WithoutFacts DEF Collected
  <2>4. EndsLike(Without(u, dead), u) /\ EndsLike(u, code[b])
    BY <2>1, WithoutEnds, AlikeEnds
  <2>. QED
    BY <2>2, <2>3, <2>4, EndsLikeFacts
<1>3. code' = [b \in Block |-> code'[b]]
  OBVIOUS
<1>. QED
  BY <1>2, <1>3

\* No call of re_name is in progress, and nothing is left of one.
LEMMA NothingStacked ==
  ASSUME PassInv, mpc \in {"idle", "end"}
  PROVE  NoCalls
<1>1. calls = << >>
  BY DEF PassInv
<1>2. CASE mpc = "idle"
  BY <1>1, <1>2 DEF PassInv, NoCalls
<1>3. CASE mpc = "end"
  <2>1. Balanced /\ stacks \in [Vars -> Seq(Operand)]
    BY <1>3 DEF PassInv, PassTypes, StacksTyped
  <2>2. ASSUME NEW v \in Vars
        PROVE  stacks[v] = << >>
    <3>1. IsTotal(Len(stacks[v]), calls, Costs(v))
      BY <2>1 DEF Balanced
    <3>2. Len(calls) = 0
      BY <1>1
    <3>3. Len(stacks[v]) = 0
      BY <3>1, <3>2 DEF IsTotal
    <3>. QED
      BY <2>1, <3>3
  <2>. QED
    BY <1>1, <1>3, <2>2 DEF NoCalls
<1>. QED
  BY <1>2, <1>3

\* The operand pairs after Propagate.
LEMMA PropagatedPairs ==
  ASSUME GraphOK, PairsOK, NEW with \in [Operand -> Operand],
         phiOps' = PhiUsesReplaced(with), UNCHANGED <<pre, succ, phis>>
  PROVE  PairsLinked' /\ phiOps' \in [Block -> [Vars -> Seq(PhiPair)]]
<1>1. phiOps' = [c \in Block |-> [v \in Vars |-> phiOps'[c][v]]]
  BY DEF PhiUsesReplaced
<1>2. ASSUME NEW c \in Block, NEW v \in Vars
      PROVE  LinkedTo(phiOps[c][v], c)' /\ phiOps'[c][v] \in Seq(PhiPair)
  <2>. DEFINE isPhi == <<c, v>> \in phis
  <2>1. PICK pairs : pairs = phiOps[c][v]
    OBVIOUS
  <2>2. PairsOf(pairs, c, isPhi) /\ isPhi \in BOOLEAN
    BY <2>1 DEF PairsOK
  <2>3. phiOps'[c][v] = [k \in DOMAIN pairs |-> [pairs[k] EXCEPT !.val = with[@]]]
    BY <2>1 DEF PhiUsesReplaced
  <2>. HIDE DEF isPhi
  <2>4. PairsOf(phiOps'[c][v], c, isPhi)
    BY <2>2, <2>3, PairsReplaced
  <2>5. PICK now : now = phiOps'[c][v]
    OBVIOUS
  <2>10. PairsOf(now, c, isPhi)
    BY <2>4, <2>5
  <2>11. now \in Seq(PhiPair) /\ \A k \in 1..Len(now) : c \in Succs(now[k].bb)
    BY <2>10 DEF PairsOf
  <2>12. \A k \in 1..Len(now) : now[k] \in PhiPair
    BY <2>11
  <2>6. now \in Seq(PhiPair) /\ \A k \in 1..Len(now) : c \in Succs(now[k].bb) /\ now[k].bb \in Block
    BY <2>11, <2>12 DEF PhiPair
  <2>7. Preds(c)' = Preds(c)
    BY DEF Preds
  <2>8. \A k \in 1..Len(now) : now[k].bb \in Preds(c)'
    BY <2>6, <2>7 DEF GraphOK
  <2>9. LinkedTo(now, c)'
    BY <2>10, <2>6, <2>8 DEF LinkedTo, PairsOf
  <2>. QED
    BY <2>5, <2>6, <2>9 DEF LinkedTo
<1>3. PairsLinked'
  BY <1>1, <1>2 DEF PairsLinked
<1>4. \A c \in Block : [v \in Vars |-> phiOps'[c][v]] \in [Vars -> Seq(PhiPair)]
  BY <1>2
<1>. QED
  BY <1>1, <1>3, <1>4

LEMMA PropagateKeeps ==
  ASSUME Done, Building \/ Optimising, Propagate, UNCHANGED builderVars
  PROVE  Folding'
<1>1. OptInv /\ mpc \in {"idle", "end"} /\ ConstInit
  BY BuiltIsReady DEF Building, Optimising, Propagate
<1>2. /\ LinksOK /\ NoCodeAfterTerminator /\ GraphOK /\ PassInv /\ PairsOK
      /\ code \in [Block -> Seq(Instr)] /\ bbs \subseteq Block
  BY <1>1 DEF OptInv, PassInv, LinksOK
<1>3. PICK st \in PropState : st = Propagated
  BY <1>2, PropagatedFacts
<1>4. /\ cpc' = "fold" /\ source' = (IF mpc = "idle" THEN code ELSE source)
      /\ code' = [b \in Block |-> Without(UsesReplaced(st.with)[b], st.dead)]
      /\ phiOps' = PhiUsesReplaced(st.with)
      /\ \E fixed \in SUBSET OpaqueTests : constBrs' = st.constBrs \cup fixed
      /\ UNCHANGED <<cur, folded, bbs, pre, succ, mpc, df, children, phis, stacks, known, calls>>
  BY <1>3 DEF Propagate
<1>5. st.with \in [Operand -> Operand] /\ st.constBrs \in SUBSET TwoWay
  BY DEF PropState
<1>6. code' \in [Block -> Seq(Instr)] /\ \A b \in Block : EndsLike(code'[b], code[b])
  BY <1>2, <1>4, <1>5, PropagatedCode
<1>7. LinksOK' /\ \A b \in bbs : Last(code'[b]).tgt = Last(code[b]).tgt
  BY <1>2, <1>4, <1>6, EndsKeepLinks
<1>8. PairsLinked' /\ phiOps' \in [Block -> [Vars -> Seq(PhiPair)]]
  BY <1>2, <1>4, <1>5, PropagatedPairs
<1>9. ToComeOK'
  <2>1. cur' = 1
    BY <1>1, <1>4 DEF ConstInit, Entry
  <2>2. ASSUME NEW b \in bbs
        PROVE  Last(code'[b]).tgt = Last(source'[b]).tgt
    <3>1. CASE mpc = "idle"
      BY <1>4, <1>7, <3>1
    <3>2. CASE mpc # "idle"
      <4>1. SameEnds
        BY <3>2 DEF Building, Optimising, Mem2RegInit
      <4>. QED
        BY <1>4, <1>7, <3>2, <4>1 DEF SameEnds
    <3>. QED
      BY <3>1, <3>2
  <2>3. ASSUME NEW b \in bbs, b \in constBrs'
        PROVE  Len(Last(code'[b]).tgt) = 2
    <3>1. b \in TwoWay \/ b \in OpaqueTests
      BY <1>4, <1>5, <2>3
    <3>2. Len(Last(code[b]).tgt) = 2
      BY <1>2, <3>1, TwoWayEnds DEF OpaqueTests
    <3>. QED
      BY <1>7, <3>2
  <2>. QED
    BY <1>4, <2>1, <2>2, <2>3 DEF ToComeOK
<1>10. NoCalls'
  BY <1>1, <1>2, <1>4, NothingStacked DEF NoCalls
<1>11. Mem2RegTypeOK'
  BY <1>2, <1>4, <1>6, <1>8, PassIsTyped DEF Mem2RegTypeOK
<1>12. Done'
  BY DEF Done, builderVars
<1>. QED
  BY <1>4, <1>7, <1>8, <1>9, <1>10, <1>11, <1>12 DEF Folding, FoldInv
----------------------------------------------------------------------------
(***************************************************************************)
(* A branch is folded.                                                     *)
(***************************************************************************)
LEMMA PushBackFacts ==
  ASSUME NEW lists \in [Block -> Seq(Block)], NEW b \in Block, NEW x \in Block
  PROVE  /\ PushBack(lists, b, x) \in [Block -> Seq(Block)]
         /\ \A c \in Block : \A y : y \in Range(PushBack(lists, b, x)[c]) <=>
                                y \in Range(lists[c]) \/ (c = b /\ y = x)
<1>1. PICK s \in Seq(Block) : s = lists[b]
  OBVIOUS
<1>2. Append(s, x) \in Seq(Block) /\ Range(Append(s, x)) = Range(s) \cup {x}
  <2>1. PICK n \in Nat : n = Len(s) /\ DOMAIN s = 1..n
    OBVIOUS
  <2>7. Append(s, x) \in Seq(Block)
    OBVIOUS
  <2>2. PICK t \in Seq(Block) : t = Append(s, x)
    BY <2>7
  <2>6. Len(t) = n + 1 /\ t[n + 1] = x /\ \A k \in 1..n : t[k] = s[k]
    BY <2>1, <2>2
  <2>3. DOMAIN t = 1..n + 1 /\ t[n + 1] = x /\ \A k \in 1..n : t[k] = s[k]
    BY <2>6
  <2>4. \A k : k \in 1..n + 1 <=> k \in 1..n \/ k = n + 1
    OBVIOUS
  <2>5. Range(t) = Range(s) \cup {x}
    BY <2>1, <2>3, <2>4 DEF Range
  <2>. QED
    BY <2>2, <2>5
<1>3. PushBack(lists, b, x) = [c \in Block |-> IF c = b THEN Append(s, x) ELSE lists[c]]
  BY <1>1 DEF PushBack
<1>. QED
  BY <1>1, <1>2, <1>3

\* The new end of the block.
LEMMA FoldedEnd ==
  ASSUME LinksOK, NEW b \in bbs, NEW kept \in Block, code' = FoldedCode(b, kept)
  PROVE  /\ code' \in [Block -> Seq(Instr)] /\ Terminated(b)'
         /\ Range(Last(code'[b]).tgt) = {kept}
         /\ \A c \in Block \ {b} : code'[c] = code[c]
<1>1. PICK s \in Seq(Instr) : s = code[b] /\ s # << >>
  BY DEF LinksOK, Terminated
<1>2. Br(kept) \in Instr
  <2>1. Opaque \in Operand
    BY OperandTypes
  <2>. QED
    BY <2>1 DEF Br, Ins, Instr, Branch
<1>3. Front(s) \in Seq(Instr)
  <2>1. PICK n \in Nat : Len(s) = n /\ n > 0
    BY <1>1
  <2>. QED
    BY <2>1 DEF Front
<1>4. PICK t \in Seq(Instr) : t = Append(Front(s), Br(kept)) /\ t # << >> /\ t[Len(t)] = Br(kept)
  <2>1. PICK u \in Seq(Instr), i \in Instr : u = Front(s) /\ i = Br(kept)
    BY <1>2, <1>3
  <2>6. Append(u, i) \in Seq(Instr)
    OBVIOUS
  <2>2. PICK t \in Seq(Instr) : t = Append(u, i)
    BY <2>6
  <2>3. Len(t) = Len(u) + 1 /\ t[Len(u) + 1] = i /\ Len(u) \in Nat
    BY <2>2
  <2>4. Len(t) # 0
    BY <2>3
  <2>5. t # << >>
    BY <2>4
  <2>. QED
    BY <2>1, <2>2, <2>3, <2>5
<1>5. code' = [c \in Block |-> IF c = b THEN t ELSE code[c]]
  BY <1>1, <1>4 DEF FoldedCode, LinksOK
<1>6. b \in Block /\ code'[b] = t /\ code' \in [Block -> Seq(Instr)]
  BY <1>5 DEF LinksOK
<1>7. Br(kept).op = "br" /\ Br(kept).tgt = <<kept>>
  BY DEF Br, Ins
<1>8. Terminated(b)' /\ Last(code'[b]) = Br(kept)
  BY <1>4, <1>6, <1>7 DEF Terminated, IsTerminator, Last
<1>9. Range(<<kept>>) = {kept}
  BY DEF Range
<1>. QED
  BY <1>5, <1>6, <1>7, <1>8, <1>9

\* The lists of the neighbours follow.
LEMMA FoldedLinks ==
  ASSUME LinksOK, NEW b \in bbs, NEW gone, NEW kept, gone # kept,
         Range(Last(code[b]).tgt) = {gone, kept}, bbs' = bbs,
         pre' = FoldedPre(b, gone, kept), succ' = FoldedSucc(b, gone, kept),
         code' = FoldedCode(b, kept)
  PROVE  /\ LinksOK'
         /\ \A c \in Block : \A y : y \in Preds(c)' <=> y \in Preds(c) /\ ~(c = gone /\ y = b)
         /\ \A c \in Block \ {b} : code'[c] = code[c]
<1>1. b \in Block /\ gone \in bbs /\ kept \in bbs /\ bbs \subseteq Block
      /\ Succs(b) = {gone, kept} /\ b \in Preds(gone) /\ b \in Preds(kept)
      /\ pre \in [Block -> Seq(Block)] /\ succ \in [Block -> Seq(Block)]
  BY DEF LinksOK
<1>2. gone \in Block /\ kept \in Block
  BY <1>1
<1>10. \A c : /\ Preds(c) = Range(pre[c]) /\ Succs(c) = Range(succ[c])
              /\ Preds(c)' = Range(pre'[c]) /\ Succs(c)' = Range(succ'[c])
  BY DEF Preds, Succs
<1>3. /\ pre' \in [Block -> Seq(Block)]
      /\ \A c \in Block : \A y : y \in Preds(c)' <=> y \in Preds(c) /\ ~(c = gone /\ y = b)
  <2>6. PICK l \in [Block -> Seq(Block)], o \in SUBSET Block : l = pre /\ o = {gone}
    BY <1>1, <1>2
  <2>1. PICK u : u = Unlink(l, o, b)
    OBVIOUS
  <2>7. TakenOut(u, l, o, b)
    BY <2>1, UnlinkFacts
  <2>2. /\ u \in [Block -> Seq(Block)]
        /\ \A c \in Block : \A y : y \in Range(u[c]) <=> y \in Range(l[c]) /\ ~(c \in o /\ y = b)
    BY <2>7 DEF TakenOut
  <2>3. pre' = PushBack(u, kept, b)
    BY <2>1, <2>6 DEF FoldedPre
  <2>4. /\ PushBack(u, kept, b) \in [Block -> Seq(Block)]
        /\ \A c \in Block : \A y : y \in Range(PushBack(u, kept, b)[c]) <=>
                               y \in Range(u[c]) \/ (c = kept /\ y = b)
    BY <1>1, <1>2, <2>2, PushBackFacts
  <2>5. ASSUME NEW c \in Block, NEW y
        PROVE  y \in Preds(c)' <=> y \in Preds(c) /\ ~(c = gone /\ y = b)
    <3>1. y \in Preds(c)' <=> y \in Range(u[c]) \/ (c = kept /\ y = b)
      BY <1>10, <2>3, <2>4
    <3>2. y \in Range(u[c]) <=> y \in Preds(c) /\ ~(c = gone /\ y = b)
      BY <1>10, <2>2, <2>6
    <3>. QED
      BY <1>1, <3>1, <3>2
  <2>. QED
    BY <2>3, <2>4, <2>5
<1>4. /\ succ' \in [Block -> Seq(Block)]
      /\ \A c \in Block : \A y : y \in Succs(c)' <=> y \in Succs(c) /\ ~(c = b /\ y = gone)
  <2>6. PICK l \in [Block -> Seq(Block)], o \in SUBSET Block : l = succ /\ o = {b}
    BY <1>1, <1>2
  <2>1. PICK u : u = Unlink(l, o, gone)
    OBVIOUS
  <2>7. TakenOut(u, l, o, gone)
    BY <2>1, UnlinkFacts
  <2>2. /\ u \in [Block -> Seq(Block)]
        /\ \A c \in Block : \A y : y \in Range(u[c]) <=> y \in Range(l[c]) /\ ~(c \in o /\ y = gone)
    BY <2>7 DEF TakenOut
  <2>3. succ' = PushBack(u, b, kept)
    BY <2>1, <2>6 DEF FoldedSucc
  <2>4. /\ PushBack(u, b, kept) \in [Block -> Seq(Block)]
        /\ \A c \in Block : \A y : y \in Range(PushBack(u, b, kept)[c]) <=>
                               y \in Range(u[c]) \/ (c = b /\ y = kept)
    BY <1>1, <1>2, <2>2, PushBackFacts
  <2>5. ASSUME NEW c \in Block, NEW y
        PROVE  y \in Succs(c)' <=> y \in Succs(c) /\ ~(c = b /\ y = gone)
    <3>1. y \in Succs(c)' <=> y \in Range(u[c]) \/ (c = b /\ y = kept)
      BY <1>10, <2>3, <2>4
    <3>2. y \in Range(u[c]) <=> y \in Succs(c) /\ ~(c = b /\ y = gone)
      BY <1>10, <2>2, <2>6
    <3>. QED
      BY <1>1, <3>1, <3>2
  <2>. QED
    BY <2>3, <2>4, <2>5
<1>5. /\ code' \in [Block -> Seq(Instr)] /\ Terminated(b)'
      /\ Range(Last(code'[b]).tgt) = {kept}
      /\ \A c \in Block \ {b} : code'[c] = code[c]
  BY <1>2, FoldedEnd
<1>6. \A c \in bbs : Terminated(c)' /\ Succs(c)' = Range(Last(code'[c]).tgt)
  <2>. TAKE c \in bbs
  <2>1. CASE c = b
    <3>1. \A y : y \in Succs(b)' <=> y = kept
      BY <1>1, <1>4
    <3>2. Succs(b)' = {kept}
      BY <3>1
    <3>. QED
      BY <1>5, <2>1, <3>2
  <2>2. CASE c # b
    <3>1. \A y : y \in Succs(c)' <=> y \in Succs(c)
      BY <1>1, <1>4, <2>2
    <3>2. Succs(c)' = Succs(c)
      BY <3>1
    <3>. QED
      BY <1>1, <1>5, <2>2, <3>2 DEF LinksOK, Terminated
  <2>. QED
    BY <2>1, <2>2
<1>11. \A c \in bbs : c \in Block
  BY <1>1
<1>7. \A c \in bbs : Succs(c)' \cup Preds(c)' \subseteq bbs
  <2>. TAKE c \in bbs
  <2>1. Succs(c) \subseteq bbs /\ Preds(c) \subseteq bbs
    BY DEF LinksOK
  <2>. QED
    BY <1>1, <1>3, <1>4, <1>11, <2>1
<1>8. \A c, d \in bbs : d \in Succs(c)' <=> c \in Preds(d)'
  <2>. TAKE c, d \in bbs
  <2>1. d \in Succs(c) <=> c \in Preds(d)
    BY DEF LinksOK
  <2>. QED
    BY <1>1, <1>3, <1>4, <1>11, <2>1
<1>9. LinksOK'
  BY <1>1, <1>3, <1>4, <1>5, <1>6, <1>7, <1>8 DEF LinksOK
<1>. QED
  BY <1>3, <1>5, <1>9

\* The first of some blocks.
LEMMA FirstIsOne ==
  ASSUME NEW S \in SUBSET Nat, S # {}
  PROVE  FirstOf(S) \in S /\ \A n \in S : FirstOf(S) <= n
<1>1. \E n \in S : \A m \in S : n <= m
  BY LeastNumber
<1>. QED
  BY <1>1 DEF FirstOf

\* A branch with two targets.
LEMMA TwoTargets ==
  ASSUME NEW i \in Instr, Len(i.tgt) = 2
  PROVE  i.tgt[1] # i.tgt[2] /\ Range(i.tgt) = {i.tgt[1], i.tgt[2]}
<1>1. PICK t : t = i.tgt /\ Len(t) = 2
  OBVIOUS
<1>2. t = << >> \/ t \in {<<x>> : x \in Block} \/ t \in {x \in Block \X Block : x[1] # x[2]}
  BY <1>1 DEF Instr, Access, Branch, Other
<1>3. ASSUME t = << >> PROVE FALSE
  <2>1. Len(t) = 0
    BY <1>3
  <2>. QED
    BY <1>1, <2>1
<1>8. ASSUME NEW x \in Block, t = <<x>> PROVE FALSE
  <2>1. Len(t) = 1
    BY <1>8
  <2>. QED
    BY <1>1, <2>1
<1>4. t \in Block \X Block /\ t[1] # t[2]
  <2>1. t \notin {<<x>> : x \in Block}
    BY <1>8
  <2>2. t \in {x \in Block \X Block : x[1] # x[2]}
    BY <1>2, <1>3, <2>1
  <2>. QED
    BY <2>2
<1>5. PICK x, y \in Block : t = <<x, y>>
  BY <1>4
<1>6. DOMAIN <<x, y>> = {1, 2} /\ <<x, y>>[1] = x /\ <<x, y>>[2] = y
  OBVIOUS
<1>7. Range(t) = {t[1], t[2]}
  BY <1>5, <1>6 DEF Range
<1>. QED
  BY <1>1, <1>4, <1>7

LEMMA FoldBranchKeeps ==
  ASSUME FoldInv, FoldBranch
  PROVE  FoldInv' /\ cpc' = "fold"
<1>1. /\ LinksOK /\ PairsLinked /\ ToComeOK /\ NoCalls /\ Mem2RegTypeOK
      /\ bbs \subseteq Block /\ Block \subseteq Nat /\ code \in [Block -> Seq(Instr)]
  BY DEF FoldInv, LinksOK, Block
<1>2. PICK b : b = FirstOf(ToFold)
  OBVIOUS
<1>3. ToFold \in SUBSET Nat /\ ToFold # {} /\ cpc = "fold"
  BY <1>1 DEF ToFold, Left, FoldBranch
<1>4. b \in bbs /\ b >= cur /\ b \in constBrs /\ b \in Block /\ b \in Nat
  BY <1>1, <1>2, <1>3, FirstIsOne DEF ToFold, Left
<1>5. PICK zero \in BOOLEAN :
        /\ folded' = [c \in DOMAIN folded \cup {b} |->
                       IF c = b THEN [operand |-> Last(code[b]).arg, zero |-> zero]
                       ELSE folded[c]]
        /\ pre' = FoldedPre(b, Gone(b, zero), Kept(b, zero))
        /\ succ' = FoldedSucc(b, Gone(b, zero), Kept(b, zero))
        /\ code' = FoldedCode(b, Kept(b, zero))
        /\ cur' = b + 1
  BY <1>2 DEF FoldBranch
<1>6. UNCHANGED <<cpc, constBrs, stale, bbs, mem2regVars>>
  BY DEF FoldBranch
<1>7. PICK i \in Instr : i = Last(code[b]) /\ Len(i.tgt) = 2 /\ i.tgt = Last(source[b]).tgt
  <2>1. code[b] \in Seq(Instr) /\ code[b] # << >>
    BY <1>1, <1>4 DEF LinksOK, Terminated
  <2>2. Last(code[b]) \in Instr
    BY <2>1 DEF Last
  <2>. QED
    BY <1>1, <1>3, <1>4, <2>2 DEF ToComeOK
<1>8. PICK gone, kept : gone = Gone(b, zero) /\ kept = Kept(b, zero)
  OBVIOUS
<1>9. gone # kept /\ Range(i.tgt) = {gone, kept}
  <2>1. i.tgt[1] # i.tgt[2] /\ Range(i.tgt) = {i.tgt[1], i.tgt[2]}
    BY <1>7, TwoTargets
  <2>2. gone = IF zero THEN i.tgt[1] ELSE i.tgt[2]
    BY <1>7, <1>8 DEF Gone
  <2>3. kept = CHOOSE t \in Range(i.tgt) : t # gone
    BY <1>7, <1>8 DEF Kept
  <2>4. \E t \in Range(i.tgt) : t # gone
    BY <2>1, <2>2
  <2>5. kept \in Range(i.tgt) /\ kept # gone
    BY <2>3, <2>4
  <2>. QED
    BY <2>1, <2>2, <2>5
<1>10. /\ LinksOK'
       /\ \A c \in Block : \A y : y \in Preds(c)' <=> y \in Preds(c) /\ ~(c = gone /\ y = b)
       /\ \A c \in Block \ {b} : code'[c] = code[c]
  BY <1>1, <1>4, <1>5, <1>6, <1>7, <1>8, <1>9, FoldedLinks
<1>11. /\ source' = source /\ phiOps' = phiOps /\ mpc' = mpc /\ calls' = calls /\ stacks' = stacks
       /\ df' = df /\ children' = children /\ phis' = phis /\ known' = known
       /\ cpc' = cpc /\ constBrs' = constBrs /\ bbs' = bbs
  BY <1>6 DEF mem2regVars
<1>12. PairsLinked'
  <2>1. \A x, c : Away(x, c) => Away(x, c)'
    BY <1>5, <1>11 DEF Away
  <2>2. Away(b, gone)'
    BY <1>5, <1>7, <1>9, <1>11 DEF Away
  <2>3. ASSUME NEW c \in Block, NEW v \in Vars
        PROVE  LinkedTo(phiOps[c][v], c)'
    <3>1. PICK pairs : pairs = phiOps[c][v] /\ LinkedTo(pairs, c)
      BY <1>1 DEF PairsLinked
    <3>2. \A k \in 1..Len(pairs) : pairs[k].bb \in Preds(c)' \/ Away(pairs[k].bb, c)'
      BY <1>10, <2>1, <2>2, <3>1 DEF LinkedTo
    <3>3. LinkedTo(pairs, c)'
      BY <3>1, <3>2 DEF LinkedTo
    <3>. QED
      BY <1>11, <3>1, <3>3 DEF LinkedTo
  <2>. QED
    BY <1>1, <1>11, <2>3 DEF PairsLinked
<1>13. ToComeOK'
  <2>1. cur' \in Nat /\ \A c \in bbs : c >= cur' => c >= cur /\ c # b /\ c \in Block
    <3>1. cur \in Nat
      BY <1>1 DEF ToComeOK
    <3>. QED
      BY <1>1, <1>4, <1>5, <3>1
  <2>. QED
    BY <1>1, <1>3, <1>10, <1>11, <2>1 DEF ToComeOK
<1>14. NoCalls'
  BY <1>1, <1>11 DEF NoCalls
<1>15. Mem2RegTypeOK'
  BY <1>1, <1>10, <1>11 DEF Mem2RegTypeOK, LinksOK
<1>. QED
  BY <1>3, <1>10, <1>11, <1>12, <1>13, <1>14, <1>15 DEF FoldInv
----------------------------------------------------------------------------
(***************************************************************************)
(* A block is removed.                                                     *)
(***************************************************************************)
\* The pairs that are not of b, in r.
PairsLess(r, pairs, b) ==
  /\ r \in Seq(PhiPair)
  /\ \A k \in 1..Len(r) : r[k].bb # b /\ \E j \in 1..Len(pairs) : r[k] = pairs[j]
  /\ \A j, k \in 1..Len(r) : r[j].bb = r[k].bb => j = k

LEMMA PairsWithout ==
  ASSUME NEW s \in Seq(PhiPair), NEW b,
         \A j, k \in 1..Len(s) : s[j].bb = s[k].bb => j = k
  PROVE  PairsLess(Keep(s, LAMBDA p : p.bb # b), s, b)
<1>. DEFINE D == {k \in 1..Len(s) : s[k].bb # b}
            F(g) == [n \in 0..Len(s) |->
                       IF n = 0 THEN << >>
                       ELSE IF s[n].bb # b THEN Append(g[n - 1], s[n]) ELSE g[n - 1]]
            c == CHOOSE g : g = F(g)
            r == Keep(s, LAMBDA p : p.bb # b)
<1>1. r = c[Len(s)]
  BY DEF Keep
<1>2. D \in SUBSET (1..Len(s)) /\ \A n : n \in D <=> n \in 1..Len(s) /\ s[n].bb # b
  OBVIOUS
<1>. HIDE DEF D
<1>3. PICK g \in [0..Len(s) -> Seq(PhiPair)] : Collects(g, s, D)
  BY <1>2, CollectsExist
<1>4. g = F(g)
  <2>1. ASSUME NEW n \in 0..Len(s)
        PROVE  g[n] = F(g)[n]
    <3>1. CASE n = 0
      BY <1>3, <3>1 DEF Collects
    <3>2. CASE n # 0
      <4>1. n \in 1..Len(s)
        BY <3>2
      <4>. QED
        BY <1>2, <1>3, <3>2, <4>1 DEF Collects
    <3>. QED
      BY <3>1, <3>2
  <2>. QED
    BY <1>3, <2>1
<1>. HIDE DEF F
<1>5. c = F(c)
  BY <1>4
<1>. HIDE DEF c
<1>6. Collects(c, s, D)
  <2>1. \A n \in 0..Len(s) :
          c[n] = IF n = 0 THEN << >>
                 ELSE IF s[n].bb # b THEN Append(c[n - 1], s[n]) ELSE c[n - 1]
    BY <1>5 DEF F
  <2>2. 0 \in 0..Len(s) /\ \A n \in 1..Len(s) : n \in 0..Len(s) /\ n # 0
    OBVIOUS
  <2>3. ASSUME NEW n \in 1..Len(s)
        PROVE  c[n] = IF n \in D THEN Append(c[n - 1], s[n]) ELSE c[n - 1]
    BY <1>2, <2>1, <2>2
  <2>. QED
    BY <2>1, <2>2, <2>3 DEF Collects
<1>7. Len(s) \in 0..Len(s)
  OBVIOUS
<1>. HIDE DEF r
<1>8. PICK h \in Seq(D) : Len(h) = Len(r) /\ PlacesIn(h, r, Len(s), s, D)
  BY <1>1, <1>2, <1>6, <1>7, CollectsInOrder
<1>9. r \in Seq(PhiPair)
  BY <1>1, <1>2, <1>6, <1>7, CollectsInOrder
<1>10. /\ \A k \in 1..Len(r) : h[k] \in D /\ r[k] = s[h[k]]
       /\ \A j, k \in 1..Len(r) : j < k => h[j] < h[k]
  BY <1>8 DEF PlacesIn
<1>11. \A k \in 1..Len(r) : h[k] \in 1..Len(s) /\ s[h[k]].bb # b
  BY <1>2, <1>10
<1>12. ASSUME NEW j \in 1..Len(r), NEW k \in 1..Len(r), r[j].bb = r[k].bb
       PROVE  j = k
  <2>3. PICK x, y \in 1..Len(s) : x = h[j] /\ y = h[k] /\ r[j] = s[x] /\ r[k] = s[y]
    BY <1>10, <1>11
  <2>4. x = y
    BY <1>12, <2>3
  <2>1. h[j] = h[k] /\ h[j] \in Nat
    BY <2>3, <2>4
  <2>2. ~(j < k) /\ ~(k < j)
    BY <1>10, <2>1
  <2>. QED
    BY <1>9, <2>2
<1>13. \A k \in 1..Len(r) : r[k].bb # b /\ \E j \in 1..Len(s) : r[k] = s[j]
  BY <1>10, <1>11
<1>. QED
  BY <1>9, <1>12, <1>13 DEF PairsLess, r

LEMMA RemoveBlockKeeps ==
  ASSUME FoldInv, RemoveBlock
  PROVE  FoldInv' /\ cpc' = "remove"
<1>1. /\ LinksOK /\ PairsLinked /\ ToComeOK /\ NoCalls /\ Mem2RegTypeOK
      /\ bbs \subseteq Block /\ Block \subseteq Nat
      /\ pre \in [Block -> Seq(Block)] /\ succ \in [Block -> Seq(Block)]
  BY DEF FoldInv, LinksOK, Block
<1>2. PICK b : b = FirstOf(ToRemove)
  OBVIOUS
<1>3. ToRemove \in SUBSET Nat /\ ToRemove # {} /\ cpc = "remove"
  BY <1>1 DEF ToRemove, Left, RemoveBlock
<1>4. b \in bbs /\ b \in Block /\ b \in Nat /\ pre[b] = << >>
  BY <1>1, <1>2, <1>3, FirstIsOne DEF ToRemove, Left
<1>5. /\ phiOps' = PairsDropped(b) /\ bbs' = bbs \ {b}
      /\ pre' = UnlinkedPre(b) /\ succ' = UnlinkedSucc(b) /\ cur' = b + 1
  BY <1>2 DEF RemoveBlock
<1>6. UNCHANGED <<cpc, constBrs, folded, stale, code,
                  mpc, df, children, phis, stacks, known, calls, source>>
  BY DEF RemoveBlock
<1>7. \A c : /\ Preds(c) = Range(pre[c]) /\ Succs(c) = Range(succ[c])
             /\ Preds(c)' = Range(pre'[c]) /\ Succs(c)' = Range(succ'[c])
  BY DEF Preds, Succs
<1>8. Preds(b) = {}
  <2>1. Range(<< >>) = {}
    BY DEF Range
  <2>. QED
    BY <1>4, <1>7, <2>1
<1>9. /\ pre' \in [Block -> Seq(Block)]
      /\ \A c \in Block : \A y : y \in Preds(c)' <=> y \in Preds(c) /\ ~(c \in Succs(b) /\ y = b)
  <2>1. PICK l \in [Block -> Seq(Block)] : l = pre
    BY <1>1
  <2>2. PICK o, u : o = Succs(b) /\ u = Unlink(l, o, b)
    OBVIOUS
  <2>3. TakenOut(u, l, o, b)
    BY <2>2, UnlinkFacts
  <2>4. u = pre'
    BY <1>5, <2>1, <2>2 DEF UnlinkedPre
  <2>5. u \in [Block -> Seq(Block)]
        /\ \A c \in Block : \A y : y \in Range(u[c]) <=> y \in Range(l[c]) /\ ~(c \in o /\ y = b)
    BY <2>3 DEF TakenOut
  <2>. QED
    BY <1>7, <2>1, <2>2, <2>4, <2>5
<1>10. /\ succ' \in [Block -> Seq(Block)]
       /\ \A c \in Block : \A y : y \in Succs(c)' <=> y \in Succs(c)
  <2>1. PICK l \in [Block -> Seq(Block)] : l = succ
    BY <1>1
  <2>2. PICK o, u : o = Preds(b) /\ u = Unlink(l, o, b)
    OBVIOUS
  <2>3. TakenOut(u, l, o, b)
    BY <2>2, UnlinkFacts
  <2>4. u = succ'
    BY <1>5, <2>1, <2>2 DEF UnlinkedSucc
  <2>5. u \in [Block -> Seq(Block)]
        /\ \A c \in Block : \A y : y \in Range(u[c]) <=> y \in Range(l[c]) /\ ~(c \in o /\ y = b)
    BY <2>3 DEF TakenOut
  <2>. QED
    BY <1>7, <1>8, <2>1, <2>2, <2>4, <2>5
<1>11. \A c \in Block : Succs(c)' = Succs(c)
  BY <1>10
<1>12. \A c \in bbs : c \in Block /\ b \notin Succs(c)
  BY <1>1, <1>4, <1>8 DEF LinksOK
<1>13. LinksOK'
  <2>1. \A c \in bbs' : c \in bbs /\ c # b /\ c \in Block
    BY <1>5, <1>12
  <2>2. \A c \in bbs' : Terminated(c)' /\ Succs(c)' = Range(Last(code'[c]).tgt)
    BY <1>1, <1>6, <1>11, <2>1 DEF LinksOK, Terminated
  <2>3. \A c \in bbs' : Succs(c)' \cup Preds(c)' \subseteq bbs'
    <3>. TAKE c \in bbs'
    <3>1. Succs(c) \subseteq bbs /\ Preds(c) \subseteq bbs /\ (b \in Preds(c) => c \in Succs(b))
      BY <1>4, <2>1 DEF LinksOK, FoldInv
    <3>2. b \notin Succs(c) /\ Succs(c)' = Succs(c)
      BY <1>11, <1>12, <2>1
    <3>3. \A y : y \in Preds(c)' => y \in Preds(c) /\ y # b
      BY <1>9, <2>1, <3>1
    <3>. QED
      BY <1>5, <3>1, <3>2, <3>3
  <2>4. \A c, d \in bbs' : d \in Succs(c)' <=> c \in Preds(d)'
    <3>. TAKE c, d \in bbs'
    <3>1. d \in Succs(c) <=> c \in Preds(d)
      BY <2>1 DEF LinksOK, FoldInv
    <3>2. c # b
      BY <2>1
    <3>. QED
      BY <1>9, <1>11, <2>1, <3>1, <3>2
  <2>5. bbs' \subseteq Block /\ code' \in [Block -> Seq(Instr)]
    BY <1>5, <1>6, <1>12 DEF LinksOK, FoldInv
  <2>. QED
    BY <1>9, <1>10, <2>2, <2>3, <2>4, <2>5 DEF LinksOK
<1>14. \A x, c : Away(x, c)' <=> Away(x, c)
  BY <1>6 DEF Away
<1>15. phiOps' = [c \in Block |-> [v \in Vars |-> phiOps'[c][v]]]
  BY <1>5 DEF PairsDropped
<1>16. ASSUME NEW c \in Block, NEW v \in Vars
       PROVE  LinkedTo(phiOps[c][v], c)' /\ phiOps'[c][v] \in Seq(PhiPair)
  <2>1. PICK pairs : pairs = phiOps[c][v] /\ LinkedTo(pairs, c)
    BY <1>1 DEF PairsLinked
  <2>2. /\ pairs \in Seq(PhiPair)
        /\ \A k \in 1..Len(pairs) : pairs[k].bb \in Preds(c) \/ Away(pairs[k].bb, c)
        /\ \A j, k \in 1..Len(pairs) : pairs[j].bb = pairs[k].bb => j = k
    BY <2>1 DEF LinkedTo
  <2>3. CASE c \in Succs(b)
    <3>1. PICK r : r = Keep(pairs, LAMBDA p : p.bb # b)
      OBVIOUS
    <3>2. PairsLess(r, pairs, b)
      BY <2>2, <3>1, PairsWithout
    <3>3. phiOps'[c][v] = r
      BY <1>5, <2>1, <2>3, <3>1 DEF PairsDropped
    <3>4. \A k \in 1..Len(r) : r[k].bb \in Preds(c)' \/ Away(r[k].bb, c)'
      BY <1>9, <1>14, <2>2, <3>2 DEF PairsLess
    <3>5. LinkedTo(r, c)' /\ r \in Seq(PhiPair)
      BY <3>2, <3>4 DEF LinkedTo, PairsLess
    <3>. QED
      BY <3>3, <3>5 DEF LinkedTo
  <2>4. CASE c \notin Succs(b)
    <3>1. phiOps'[c][v] = pairs
      BY <1>5, <2>1, <2>4 DEF PairsDropped
    <3>2. \A k \in 1..Len(pairs) : pairs[k].bb \in Preds(c)' \/ Away(pairs[k].bb, c)'
      BY <1>9, <1>14, <2>2, <2>4
    <3>. QED
      BY <2>2, <3>1, <3>2 DEF LinkedTo
  <2>. QED
    BY <2>3, <2>4
<1>17. PairsLinked'
  BY <1>15, <1>16 DEF PairsLinked
<1>18. ToComeOK'
  BY <1>3, <1>4, <1>5, <1>6 DEF ToComeOK
<1>19. NoCalls'
  BY <1>1, <1>6 DEF NoCalls
<1>20. Mem2RegTypeOK'
  <2>1. \A c \in Block : [v \in Vars |-> phiOps'[c][v]] \in [Vars -> Seq(PhiPair)]
    BY <1>16
  <2>2. phiOps' \in [Block -> [Vars -> Seq(PhiPair)]]
    BY <1>15, <2>1
  <2>. QED
    BY <1>1, <1>6, <2>2 DEF Mem2RegTypeOK
<1>. QED
  BY <1>3, <1>6, <1>13, <1>17, <1>18, <1>19, <1>20 DEF FoldInv
----------------------------------------------------------------------------
(***************************************************************************)
(* The invariant.                                                          *)
(***************************************************************************)
\* What is said of the folding is said of these variables.
FoldStays == UNCHANGED <<graphVars, mem2regVars, constBrs, folded>>

LEMMA FoldPartsStay ==
  ASSUME FoldStays
  PROVE  /\ LinksOK => LinksOK'
         /\ PairsLinked => PairsLinked'
         /\ NoCalls => NoCalls'
         /\ Mem2RegTypeOK => Mem2RegTypeOK'
<1>1. /\ bbs' = bbs /\ pre' = pre /\ succ' = succ /\ code' = code
      /\ source' = source /\ phiOps' = phiOps /\ mpc' = mpc /\ calls' = calls /\ stacks' = stacks
      /\ df' = df /\ children' = children /\ phis' = phis /\ known' = known
      /\ constBrs' = constBrs /\ folded' = folded
  BY DEF FoldStays, graphVars, mem2regVars
<1>2. \A c : Succs(c)' = Succs(c) /\ Preds(c)' = Preds(c)
  BY <1>1 DEF Succs, Preds
<1>3. LinksOK => LinksOK'
  BY <1>1, <1>2 DEF LinksOK, Terminated
<1>4. PairsLinked => PairsLinked'
  <2>1. \A x, c : Away(x, c)' <=> Away(x, c)
    BY <1>1 DEF Away
  <2>. QED
    BY <1>1, <1>2, <2>1 DEF PairsLinked, LinkedTo
<1>5. (NoCalls => NoCalls') /\ (Mem2RegTypeOK => Mem2RegTypeOK')
  BY <1>1 DEF NoCalls, Mem2RegTypeOK
<1>. QED
  BY <1>3, <1>4, <1>5

\* A step of ConstPropagation.
LEMMA ConstPropagationKeeps == Inv /\ ConstPropagationNext => Inv'
<1>. SUFFICES ASSUME Inv, ConstPropagationNext PROVE Folding'
  BY DEF Inv
<1>1. Done /\ ConstNext /\ UNCHANGED builderVars
  BY DEF ConstPropagationNext
<1>2. Done'
  BY <1>1 DEF Done, builderVars
<1>3. CASE Propagate
  <2>1. Building \/ Optimising
    BY <1>3 DEF Inv, Folding, Propagate
  <2>. QED
    BY <1>1, <1>3, <2>1, PropagateKeeps
<1>4. CASE ~Propagate
  <2>1. cpc # "idle"
    BY <1>1, <1>4 DEF ConstNext, FoldBranch, FoldBranchCrashes, FoldingDone, RemoveBlock, RemovalDone
  <2>2. FoldInv
    BY <2>1 DEF Inv, Building, Optimising, Folding, ConstInit
  <2>3. LinksOK /\ PairsLinked /\ ToComeOK /\ NoCalls /\ Mem2RegTypeOK
    BY <2>2 DEF FoldInv
  <2>4. CASE FoldBranch
    BY <1>2, <2>2, <2>4, FoldBranchKeeps DEF Folding
  <2>5. CASE RemoveBlock
    BY <1>2, <2>2, <2>5, RemoveBlockKeeps DEF Folding
  <2>6. CASE FoldBranchCrashes \/ FoldingDone \/ RemovalDone
    <3>1. FoldStays /\ cpc' \in {"crash", "remove", "end"} /\ cur' \in {cur, Entry + 1}
      BY <2>6 DEF FoldBranchCrashes, FoldingDone, RemovalDone, FoldStays
    <3>2. ToComeOK'
      BY <2>3, <3>1 DEF ToComeOK, Entry
    <3>. QED
      BY <1>2, <2>3, <3>1, <3>2, FoldPartsStay DEF Folding, FoldInv
  <2>. QED
    BY <1>1, <1>4, <2>4, <2>5, <2>6 DEF ConstNext
<1>. QED
  BY <1>3, <1>4

\* A step of the builder.
LEMMA BuildKeeps == Inv /\ Build => Inv'
<1>. SUFFICES ASSUME Inv, Build PROVE Building'
  BY DEF Inv
<1>1. BuilderNext /\ UNCHANGED <<mem2regVars, constVars>>
  BY DEF Build, BuilderNext
<1>2. Building
  BY <1>1, BuilderIsOver DEF Inv, Optimising, Folding
<1>3. RInv'
  BY <1>1, <1>2, NextReducible DEF Building
<1>. QED
  BY <1>1, <1>2, <1>3 DEF Building, Mem2RegInit, ConstInit, mem2regVars, constVars

\* A step of the run of the function, or none.
LEMMA InvStays ==
  ASSUME Inv, UNCHANGED <<graphVars, builderVars, mem2regVars, constVars>>
  PROVE  Inv'
<1>1. UNCHANGED builderAndGraph
  BY DEF builderAndGraph
<1>2. Done' <=> Done
  BY DEF Done, builderVars
<1>3. cpc' = cpc /\ mpc' = mpc /\ (ConstInit => ConstInit') /\ (Mem2RegInit => Mem2RegInit')
  BY DEF ConstInit, Mem2RegInit, constVars, mem2regVars
<1>4. FoldStays /\ cur' = cur
  BY DEF FoldStays, constVars
<1>5. CASE Building
  BY <1>1, <1>3, <1>5, NextReducible DEF Building, Inv
<1>6. CASE Optimising
  <2>1. bbs' = bbs /\ pre' = pre /\ succ' = succ /\ code' = code /\ source' = source
    BY DEF graphVars, mem2regVars
  <2>2. GraphOK /\ PassInv /\ LinksOK /\ NoCodeAfterTerminator /\ SameEnds
    BY <1>6 DEF Optimising, OptInv
  <2>3. PICK lvl : Forward(lvl)
    BY <1>6 DEF Optimising, OptInv
  <2>4. GraphOK' /\ Forward(lvl)'
    BY <2>1, <2>2, <2>3, EdgesStay
  <2>5. PassInv'
    BY <2>2, PassStays
  <2>6. LinksOK'
    BY <1>4, <2>2, FoldPartsStay
  <2>7. NoCodeAfterTerminator' /\ SameEnds'
    BY <2>1, <2>2 DEF NoCodeAfterTerminator, SameEnds
  <2>8. OptInv'
    BY <2>4, <2>5, <2>6, <2>7 DEF OptInv
  <2>. QED
    BY <1>2, <1>3, <1>6, <2>7, <2>8 DEF Optimising, Inv
<1>7. CASE Folding
  <2>1. LinksOK /\ PairsLinked /\ ToComeOK /\ NoCalls /\ Mem2RegTypeOK
    BY <1>7 DEF Folding, FoldInv
  <2>2. ToComeOK'
    BY <1>3, <1>4, <2>1 DEF ToComeOK, FoldStays, graphVars, mem2regVars
  <2>. QED
    BY <1>2, <1>3, <1>4, <1>7, <2>1, <2>2, FoldPartsStay DEF Folding, FoldInv, Inv
<1>. QED
  BY <1>5, <1>6, <1>7 DEF Inv

LEMMA InitBuilding == Init => Inv
BY InitReducible DEF Init, Inv, Building

LEMMA StepKeepsInv == Inv /\ [Next]_vars => Inv'
<1>. SUFFICES ASSUME Inv, [Next]_vars PROVE Inv'
  OBVIOUS
<1>1. CASE Run
  <2>1. UNCHANGED <<graphVars, builderVars, mem2regVars, constVars>>
    BY <1>1 DEF Run, Execute
  <2>. QED
    BY <2>1, InvStays
<1>2. CASE UNCHANGED vars
  BY <1>2, InvStays DEF vars
<1>. QED
  BY <1>1, <1>2, BuildKeeps, Mem2RegFirstKeeps, ConstPropagationKeeps DEF Next
----------------------------------------------------------------------------
\* The passes keep their invariants on every function the builder makes.
THEOREM PassesInvariant == Spec => []Inv
BY InitBuilding, StepKeepsInv, PTL DEF Spec

\* Mem2Reg keeps its types, ConstPropagation does not break them, and no more
\* calls of re_name are in progress than there are blocks: the recursion ends
\* on any dominator tree.
THEOREM Mem2RegTypes == Spec => []Mem2RegTypeOK
<1>1. Inv => Mem2RegTypeOK
  <2>1. Building => PassInv
    BY PassBegins DEF Building, RInv, EInv, IInv, BuilderTypeOK
  <2>. QED
    BY <2>1, PassIsTyped DEF Inv, Optimising, OptInv, Folding, FoldInv
<1>. QED
  BY <1>1, PassesInvariant, PTL

\* Step 7 of re_name takes off the stacks exactly what the call has put there,
\* so that they are empty when the walk of the tree is over.
THEOREM StacksAreInStep == Spec => []StacksBalanced
<1>1. Building => StacksBalanced
  BY DEF Building, Mem2RegInit, StacksBalanced
<1>2. Optimising => StacksBalanced
  BY StacksAreBalanced DEF Optimising, OptInv
<1>3. Folding => StacksBalanced
  <2>. SUFFICES ASSUME Folding, NEW v \in Vars
                PROVE  Len(stacks[v]) = FoldLeft(LAMBDA n, c : n + Pops(c.bb, v), 0, calls)
    BY DEF StacksBalanced
  <2>1. code \in [Block -> Seq(Instr)] /\ calls = << >> /\ stacks[v] = << >>
    BY DEF Folding, FoldInv, LinksOK, NoCalls
  <2>5. << >> \in Seq(CallRecord)
    OBVIOUS
  <2>2. Costs(v) \in [Block -> Nat] /\ calls \in Seq(CallRecord)
    BY <2>1, <2>5, PopsFacts DEF Costs
  <2>3. Len(stacks[v]) = 0
    BY <2>1
  <2>4. IsTotal(Len(stacks[v]), calls, Costs(v))
    BY <2>1, <2>3, TotalEmpty
  <2>. QED
    BY <2>1, <2>2, <2>4, TotalIsFold
<1>4. Inv => StacksBalanced
  BY <1>1, <1>2, <1>3 DEF Inv
<1>. QED
  BY <1>4, PassesInvariant, PTL

\* Mem2Reg leaves, in a block execution can reach, no store and no load of a
\* variable that a dominator of the block stores to: the values of such loads
\* were on the stacks, however the tree was walked.
THEOREM EveryLoadIsRenamed == Spec => []LoadsLeftReadNothing
<1>1. Inv => LoadsLeftReadNothing
  <2>. SUFFICES ASSUME Inv, mpc = "end", cpc = "idle", NEW b \in Reachable, NEW i \in DOMAIN code[b]
                PROVE  /\ code[b][i].op # "store"
                       /\ code[b][i].op = "load" =>
                            \A c \in Reachable : Dominates(c, b) /\ c # b =>
                               ~\E j \in DOMAIN source[c] :
                                  source[c][j].op = "store" /\ source[c][j].var = code[b][i].var
    BY DEF LoadsLeftReadNothing
  <2>1. OptInv
    BY DEF Inv, Building, Mem2RegInit, Optimising, Folding
  <2>2. PICK lvl : Forward(lvl)
    BY <2>1 DEF OptInv
  <2>. QED
    BY <2>1, <2>2, NothingToReadIsLeft DEF OptInv
<1>. QED
  BY <1>1, PassesInvariant, PTL

\* While ConstPropagation folds branches and removes blocks, the four lists it
\* edits for a branch, and what Function::remove does, keep the neighbours and
\* the branches in step.
THEOREM FoldedEdgesMatch == Spec => []EdgesMatchAfterFolding
<1>1. Inv => EdgesMatchAfterFolding
  <2>. SUFFICES ASSUME Inv, cpc \in {"fold", "remove", "end"} PROVE EdgesMatchAfterFolding
    BY DEF EdgesMatchAfterFolding
  <2>1. LinksOK
    BY DEF Inv, Building, Optimising, Folding, FoldInv, ConstInit
  <2>. QED
    BY <2>1 DEF LinksOK, EdgesMatchAfterFolding
<1>. QED
  BY <1>1, PassesInvariant, PTL

\* No phi lists a block twice or one that never branched to it, whatever was
\* renamed, folded or removed.
THEOREM PhiPairsMatch == Spec => []PhiPairsOfBranches
<1>. DEFINE OfBranches(pairs, c) == /\ \A k \in DOMAIN pairs : pairs[k].bb \in Preds(c) \/ Away(pairs[k].bb, c)
                              /\ \A j, k \in DOMAIN pairs : pairs[j].bb = pairs[k].bb => j = k
<1>1. ASSUME Inv, NEW p \in phis
      PROVE  OfBranches(phiOps[p[1]][p[2]], p[1])
  <2>1. CASE PassInv /\ (phis # {} => GraphOK)
    <3>1. PICK c \in Block, v \in Vars : p = <<c, v>>
      BY <2>1 DEF PassInv, PassTypes
    <3>2. PICK pairs : pairs = phiOps[c][v] /\ PairsOf(pairs, c, <<c, v>> \in phis)
      BY <2>1, <3>1 DEF PassInv, PairsOK
    <3>3. /\ pairs \in Seq(PhiPair) /\ DOMAIN pairs = 1..Len(pairs)
          /\ \A k \in 1..Len(pairs) : c \in Succs(pairs[k].bb)
          /\ \A j, k \in 1..Len(pairs) : pairs[j].bb = pairs[k].bb => j = k
      BY <3>2 DEF PairsOf
    <3>4. \A k \in 1..Len(pairs) : pairs[k] \in PhiPair
      BY <3>3
    <3>5. \A k \in 1..Len(pairs) : pairs[k].bb \in Preds(c)
      BY <2>1, <3>3, <3>4 DEF GraphOK, PhiPair
    <3>6. OfBranches(pairs, c)
      BY <3>3, <3>5
    <3>7. p[1] = c /\ p[2] = v
      BY <3>1
    <3>. QED
      BY <3>2, <3>6, <3>7
  <2>2. CASE PairsLinked /\ Mem2RegTypeOK
    <3>1. PICK c \in Block, v \in Vars : p = <<c, v>>
      BY <2>2 DEF Mem2RegTypeOK
    <3>2. PICK pairs : pairs = phiOps[c][v] /\ LinkedTo(pairs, c)
      BY <2>2, <3>1 DEF PairsLinked
    <3>3. /\ DOMAIN pairs = 1..Len(pairs)
          /\ \A k \in 1..Len(pairs) : pairs[k].bb \in Preds(c) \/ Away(pairs[k].bb, c)
          /\ \A j, k \in 1..Len(pairs) : pairs[j].bb = pairs[k].bb => j = k
      BY <3>2 DEF LinkedTo
    <3>4. OfBranches(pairs, c)
      BY <3>3
    <3>5. p[1] = c /\ p[2] = v
      BY <3>1
    <3>. QED
      BY <3>2, <3>4, <3>5
  <2>3. Building => phis = {}
    BY DEF Building, Mem2RegInit
  <2>. QED
    BY <1>1, <2>1, <2>2, <2>3 DEF Inv, Optimising, OptInv, Folding, FoldInv
<1>2. Inv => PhiPairsOfBranches
  BY <1>1 DEF PhiPairsOfBranches, Away
<1>. QED
  BY <1>2, PassesInvariant, PTL
=============================================================================

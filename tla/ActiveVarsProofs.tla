-------------------------- MODULE ActiveVarsProofs --------------------------
(***************************************************************************)
(* Proofs about ActiveVars on the functions that the builder makes and     *)
(* Mem2Reg rewrites, for functions of any size: what it answers at its end *)
(* is liveness.                                                            *)
(***************************************************************************)
EXTENDS ActiveVarsOfBuilt, Mem2RegProofs

(***************************************************************************)
(* What the instructions of a block use and define.                        *)
(***************************************************************************)
LEMMA FollowedFacts ==
  /\ IsFiniteSet(Followed)
  /\ \A v \in Vars : Alloca(v) \in Followed
  /\ \A i \in 1..MaxInstrs : Result(i) \in Followed
  /\ \A b \in Block, v \in Vars : PhiOf(b, v) \in Followed
<1>1. MaxBlocks \in Nat /\ MaxInstrs \in Nat /\ NumVars \in Nat
  BY BoundsAssumption
<1>2. PICK m \in Nat : Operand = 0..m
  <2>1. NumVars * MaxBlocks \in Nat
    BY <1>1
  <2>. QED
    BY <1>1, <2>1 DEF Operand
<1>3. \A v \in Vars : Alloca(v) \in (0 - NumVars)..m
  BY <1>1 DEF Vars, Alloca
<1>4. \A i \in 1..MaxInstrs : Result(i) \in (0 - NumVars)..m
  <2>1. \A i \in 1..MaxInstrs : Result(i) \in Operand
    BY OperandTypes
  <2>. QED
    BY <1>1, <1>2, <2>1
<1>5. \A b \in Block, v \in Vars : PhiOf(b, v) \in (0 - NumVars)..m
  <2>1. \A b \in Block, v \in Vars : PhiOf(b, v) \in Operand
    BY PhiNumbers
  <2>. QED
    BY <1>1, <1>2, <2>1
<1>6. Followed \subseteq (0 - NumVars)..m
  BY <1>3, <1>4, <1>5 DEF Followed, Allocas, Defined
<1>7. IsFiniteSet((0 - NumVars)..m)
  BY <1>1, FS_Interval
<1>8. IsFiniteSet(Followed)
  BY <1>6, <1>7, FS_Subset
<1>. QED
  BY <1>8 DEF Followed, Allocas, Defined

PhiBlocksOf == [Followed -> Block \cup {NoBlock}]
ScanState == [use : SUBSET Followed, def : SUBSET Followed, phi : PhiBlocksOf]

\* An instruction that uses U and defines D makes r of the state st.
ScansInto(r, st, U, D) ==
  /\ r.phi = st.phi
  /\ \A o : o \in r.use <=> o \in st.use \/ (o \in U /\ o \notin st.def)
  /\ \A o : o \in r.def <=> o \in st.def \/ (o \in D /\ o \notin r.use)

LEMMA UseFacts ==
  ASSUME NEW st \in ScanState, NEW o
  PROVE  Use(st, o) \in ScanState /\ ScansInto(Use(st, o), st, {o} \cap Followed, {})
<1>. DEFINE r == Use(st, o)
<1>1. CASE o \notin Followed \/ o \in st.def
  <2>1. r = st
    BY <1>1 DEF Use
  <2>. QED
    BY <1>1, <2>1 DEF ScansInto
<1>2. CASE o \in Followed /\ o \notin st.def
  <2>1. r = [st EXCEPT !.use = st.use \cup {o}]
    BY <1>2 DEF Use
  <2>2. r \in ScanState /\ r.use = st.use \cup {o} /\ r.def = st.def /\ r.phi = st.phi
    BY <1>2, <2>1 DEF ScanState
  <2>. HIDE DEF r
  <2>. QED
    BY <1>2, <2>2 DEF ScansInto, r
<1>. QED
  BY <1>1, <1>2

LEMMA DefFacts ==
  ASSUME NEW st \in ScanState, NEW o
  PROVE  Def(st, o) \in ScanState /\ ScansInto(Def(st, o), st, {}, {o} \cap Followed)
<1>. DEFINE r == Def(st, o)
<1>1. CASE o \notin Followed \/ o \in st.use
  <2>1. r = st
    BY <1>1 DEF Def
  <2>. QED
    BY <1>1, <2>1 DEF ScansInto
<1>2. CASE o \in Followed /\ o \notin st.use
  <2>1. r = [st EXCEPT !.def = st.def \cup {o}]
    BY <1>2 DEF Def
  <2>2. r \in ScanState /\ r.use = st.use /\ r.def = st.def \cup {o} /\ r.phi = st.phi
    BY <1>2, <2>1 DEF ScanState
  <2>. HIDE DEF r
  <2>. QED
    BY <1>2, <2>2 DEF ScansInto, r
<1>. QED
  BY <1>1, <1>2

\* First it uses, then it defines.
LEMMA UseThenDef ==
  ASSUME NEW st, NEW u, NEW r, NEW U, NEW D, ScansInto(u, st, U, {}), ScansInto(r, u, {}, D)
  PROVE  ScansInto(r, st, U, D)
BY DEF ScansInto

LEMMA ScanInstrFacts ==
  ASSUME NEW st \in ScanState, NEW i \in Instr
  PROVE  /\ ScanInstr(st, i) \in ScanState
         /\ ScansInto(ScanInstr(st, i), st, UsesOf(i), DefsOf(i))
<1>1. CASE i.op = "load"
  <2>1. i.var \in Vars /\ i.id \in 1..MaxInstrs
    BY <1>1, InstrKinds
  <2>2. Alloca(i.var) \in Followed /\ Result(i.id) \in Followed
    BY <2>1, FollowedFacts
  <2>3. UsesOf(i) = {Alloca(i.var)} \cap Followed /\ DefsOf(i) = {Result(i.id)} \cap Followed
    BY <1>1 DEF UsesOf, DefsOf
  <2>4. ScanInstr(st, i) = Def(Use(st, Alloca(i.var)), Result(i.id))
    BY <1>1 DEF ScanInstr
  <2>. QED
    BY <2>3, <2>4, UseFacts, DefFacts, UseThenDef
<1>2. CASE i.op = "store"
  <2>1. Alloca(i.var) \in Followed
    BY <1>2, InstrKinds, FollowedFacts
  <2>3. UsesOf(i) = {i.arg} \cap Followed /\ DefsOf(i) = {Alloca(i.var)} \cap Followed
    BY <1>2, <2>1 DEF UsesOf, DefsOf
  <2>4. ScanInstr(st, i) = Def(Use(st, i.arg), Alloca(i.var))
    BY <1>2 DEF ScanInstr
  <2>. QED
    BY <2>3, <2>4, UseFacts, DefFacts, UseThenDef
<1>3. CASE i.op \in {"call", "alloca"}
  <2>3. UsesOf(i) = {i.arg} \cap Followed /\ DefsOf(i) = {Result(i.id)} \cap Followed
    BY <1>3 DEF UsesOf, DefsOf
  <2>4. ScanInstr(st, i) = Def(Use(st, i.arg), Result(i.id))
    BY <1>3 DEF ScanInstr
  <2>. QED
    BY <2>3, <2>4, UseFacts, DefFacts, UseThenDef
<1>4. CASE i.op \notin {"load", "store", "call", "alloca"}
  <2>3. UsesOf(i) = {i.arg} \cap Followed /\ DefsOf(i) = {}
    BY <1>4 DEF UsesOf, DefsOf
  <2>4. ScanInstr(st, i) = Use(st, i.arg)
    BY <1>4 DEF ScanInstr
  <2>. QED
    BY <2>3, <2>4, UseFacts
<1>. QED
  BY <1>1, <1>2, <1>3, <1>4

\* The states between the instructions of a block.
LEMMA InstrsFold ==
  ASSUME NEW s \in Seq(Instr), NEW base \in ScanState
  PROVE  \E g \in [0..Len(s) -> ScanState] :
           /\ g[0] = base /\ g[Len(s)] = FoldLeft(ScanInstr, base, s)
           /\ \A k \in 1..Len(s) : g[k] = ScanInstr(g[k - 1], s[k])
<1>. DEFINE U == ScanState
            n == Len(s)
            step == [e \in U \X (1..n) |-> ScanInstr(e[1], s[e[2]])]
            F(it) == [t \in SUBSET DOMAIN s |->
                        IF t = {} THEN base ELSE ScanInstr(it[t \ {Max(t)}], s[Max(t)])]
            c == CHOOSE it : it = F(it)
<1>1. FoldLeft(ScanInstr, base, s) = c[DOMAIN s]
  BY DEF FoldLeft, MapThenFoldSet
<1>2. n \in Nat /\ DOMAIN s = 1..n /\ \A k \in 1..n : s[k] \in Instr
  OBVIOUS
<1>3. \A t : Max(t) = Greatest(t)
  BY DEF Max, Greatest
<1>4. \A u \in U, k \in 1..n : ScanInstr(u, s[k]) \in U
  BY <1>2, ScanInstrFacts
<1>5. base \in U /\ step \in [U \X (1..n) -> U]
  BY <1>4
<1>6. \A u \in U, k \in 1..n : step[<<u, k>>] = ScanInstr(u, s[k])
  OBVIOUS
<1>. HIDE DEF U, n, step
<1>7. \A t \in SUBSET (1..n) : t # {} => Greatest(t) \in 1..n /\ t \ {Greatest(t)} \in SUBSET (1..n)
  BY <1>2, GreatestFacts
<1>8. PICK it : FoldOn(it, n, U, base, step)
  BY <1>2, <1>5, FoldExists
<1>9. it = F(it)
  <2>1. it \in [SUBSET (1..n) -> U]
    BY <1>8 DEF FoldOn
  <2>2. ASSUME NEW t \in SUBSET (1..n)
        PROVE  it[t] = IF t = {} THEN base ELSE ScanInstr(it[t \ {Max(t)}], s[Max(t)])
    <3>1. CASE t = {}
      BY <1>8, <3>1 DEF FoldOn
    <3>2. CASE t # {}
      <4>1. it[t] = step[<<it[t \ {Greatest(t)}], Greatest(t)>>] /\ it[t \ {Greatest(t)}] \in U
        BY <1>7, <1>8, <3>2 DEF FoldOn
      <4>. QED
        BY <1>3, <1>6, <1>7, <3>2, <4>1
    <3>. QED
      BY <3>1, <3>2
  <2>. QED
    BY <1>2, <2>1, <2>2
<1>. HIDE DEF F
<1>10. c = F(c)
  BY <1>9
<1>. HIDE DEF c
<1>11. IsFold(c, n, U, base, step)
  <2>1. ASSUME NEW t \in SUBSET (1..n)
        PROVE  c[t] = IF t = {} THEN base ELSE ScanInstr(c[t \ {Max(t)}], s[Max(t)])
    BY <1>2, <1>10 DEF F
  <2>2. ASSUME NEW t \in SUBSET (1..n), t # {}, c[t \ {Greatest(t)}] \in U
        PROVE  c[t] = step[<<c[t \ {Greatest(t)}], Greatest(t)>>]
    BY <1>3, <1>6, <1>7, <2>1, <2>2
  <2>. QED
    BY <2>1, <2>2 DEF IsFold
<1>12. PICK g : FoldSteps(g, n, U, base, step) /\ g[n] = c[1..n]
  <2>1. FoldsTo(c[1..n], n, U, base, step)
    BY <1>2, <1>5, <1>11, FoldIs
  <2>. QED
    BY <2>1 DEF FoldsTo
<1>13. /\ g \in [0..n -> U] /\ g[0] = base /\ g[n] = FoldLeft(ScanInstr, base, s)
       /\ \A k \in 1..n : g[k - 1] \in U /\ g[k] = step[<<g[k - 1], k>>]
  <2>1. \A k \in 1..n : k - 1 \in 0..n
    BY <1>2
  <2>. QED
    BY <1>1, <1>2, <1>12, <2>1 DEF FoldSteps
<1>14. \A k \in 1..n : g[k] = ScanInstr(g[k - 1], s[k])
  BY <1>6, <1>13
<1>. QED
  BY <1>13, <1>14 DEF U, n

\* Before o is used at a place up to k, none of s has defined it, nor has P.
ExposedTo(o, s, P, k) ==
  o \notin P /\ \E i \in 1..k : o \in UsesOf(s[i]) /\ \A j \in 1..i - 1 : o \notin DefsOf(s[j])

\* One of the instructions up to k defines o, or P has.
KilledTo(o, s, P, k) == o \in P \/ \E i \in 1..k : o \in DefsOf(s[i])

\* r has the uses and definitions of s, after P was defined.
HasScanned(r, s, P, k) ==
  /\ \A o : o \in r.use <=> ExposedTo(o, s, P, k)
  /\ \A o : o \in r.def <=> KilledTo(o, s, P, k) /\ ~ExposedTo(o, s, P, k)

LEMMA ScanOneMore ==
  ASSUME NEW s, NEW P, NEW k \in Nat, NEW st, NEW r, HasScanned(st, s, P, k),
         ScansInto(r, st, UsesOf(s[k + 1]), DefsOf(s[k + 1]))
  PROVE  HasScanned(r, s, P, k + 1)
<1>1. \A i \in 1..k + 1 : i \in 1..k \/ i = k + 1
  OBVIOUS
<1>2. 1..k \subseteq 1..k + 1 /\ k + 1 \in 1..k + 1 /\ (k + 1) - 1 = k
  OBVIOUS
<1>3. ASSUME NEW o
      PROVE  /\ ExposedTo(o, s, P, k + 1) <=>
                  ExposedTo(o, s, P, k) \/ (o \in UsesOf(s[k + 1]) /\ ~KilledTo(o, s, P, k))
             /\ KilledTo(o, s, P, k + 1) <=> KilledTo(o, s, P, k) \/ o \in DefsOf(s[k + 1])
  BY <1>1, <1>2 DEF ExposedTo, KilledTo
<1>4. ASSUME NEW o
      PROVE  o \in r.use <=> ExposedTo(o, s, P, k + 1)
  BY <1>3 DEF HasScanned, ScansInto
<1>5. ASSUME NEW o
      PROVE  o \in r.def <=> KilledTo(o, s, P, k + 1) /\ ~ExposedTo(o, s, P, k + 1)
  BY <1>3, <1>4 DEF HasScanned, ScansInto
<1>. QED
  BY <1>4, <1>5 DEF HasScanned

LEMMA InstrsScanned ==
  ASSUME NEW s \in Seq(Instr), NEW base \in ScanState, base.use = {},
         NEW r, r = FoldLeft(ScanInstr, base, s)
  PROVE  r \in ScanState /\ r.phi = base.phi /\ HasScanned(r, s, base.def, Len(s))
<1>. DEFINE n == Len(s)
<1>1. PICK g \in [0..n -> ScanState] :
        /\ g[0] = base /\ g[n] = r
        /\ \A k \in 1..n : g[k] = ScanInstr(g[k - 1], s[k])
  BY InstrsFold
<1>. DEFINE T == {k \in Nat : k <= n => g[k].phi = base.phi /\ HasScanned(g[k], s, base.def, k)}
<1>2. 0 \in T
  <2>1. \A o : ~ExposedTo(o, s, base.def, 0)
    BY DEF ExposedTo
  <2>2. \A o : KilledTo(o, s, base.def, 0) <=> o \in base.def
    BY DEF KilledTo
  <2>3. HasScanned(base, s, base.def, 0)
    BY <2>1, <2>2 DEF HasScanned
  <2>. QED
    BY <1>1, <2>3
<1>3. ASSUME NEW k \in T
      PROVE  k + 1 \in T
  <2>. SUFFICES ASSUME k + 1 <= n
                PROVE  g[k + 1].phi = base.phi /\ HasScanned(g[k + 1], s, base.def, k + 1)
    OBVIOUS
  <2>1. k \in 0..n /\ k + 1 \in 1..n /\ (k + 1) - 1 = k /\ k \in Nat
    OBVIOUS
  <2>2. g[k] \in ScanState /\ s[k + 1] \in Instr /\ g[k + 1] = ScanInstr(g[k], s[k + 1])
    BY <1>1, <2>1
  <2>3. ScansInto(g[k + 1], g[k], UsesOf(s[k + 1]), DefsOf(s[k + 1]))
    BY <2>2, ScanInstrFacts
  <2>4. g[k].phi = base.phi /\ HasScanned(g[k], s, base.def, k)
    BY <2>1
  <2>5. HasScanned(g[k + 1], s, base.def, k + 1)
    BY <2>1, <2>3, <2>4, ScanOneMore
  <2>. QED
    BY <2>3, <2>4, <2>5 DEF ScansInto
<1>4. T = Nat
  <2>1. T \in SUBSET Nat
    OBVIOUS
  <2>. HIDE DEF T
  <2>. QED
    BY <1>2, <1>3, <2>1, Induction
<1>5. n \in Nat /\ n \in 0..n
  OBVIOUS
<1>. QED
  BY <1>1, <1>4, <1>5
----------------------------------------------------------------------------
(***************************************************************************)
(* The phis of a block.                                                    *)
(***************************************************************************)
\* They are visited in some order.
LEMMA PhiVarsFacts ==
  ASSUME phiOrder \in Bijection(Vars, Vars), NEW b
  PROVE  /\ PhiVarsOf(b) \in Seq(Vars)
         /\ \A v : v \in Range(PhiVarsOf(b)) <=> v \in Vars /\ <<b, v>> \in phis
<1>. DEFINE s == phiOrder
            D == {k \in 1..Len(s) : <<b, s[k]>> \in phis}
            F(g) == [n \in 0..Len(s) |->
                       IF n = 0 THEN << >>
                       ELSE IF <<b, s[n]>> \in phis THEN Append(g[n - 1], s[n]) ELSE g[n - 1]]
            c == CHOOSE g : g = F(g)
            r == Keep(s, LAMBDA v : <<b, v>> \in phis)
<1>0. /\ s \in Seq(Vars) /\ Len(s) \in Nat /\ DOMAIN s = 1..Len(s)
      /\ \A v \in Vars : \E k \in 1..Len(s) : s[k] = v
  <2>1. phiOrder \in [1..NumVars -> Vars] /\ \A v \in Vars : \E k \in 1..NumVars : phiOrder[k] = v
    BY DEF Bijection, Surjection, Injection, Vars
  <2>2. NumVars \in Nat
    BY BoundsAssumption
  <2>. QED
    BY <2>1, <2>2
<1>1. r = c[Len(s)]
  BY DEF Keep
<1>. HIDE DEF s
<1>2. D \in SUBSET (1..Len(s)) /\ \A n \in 1..Len(s) : n \in D <=> <<b, s[n]>> \in phis
  OBVIOUS
<1>. HIDE DEF D
<1>3. PICK g \in [0..Len(s) -> Seq(Vars)] : Collects(g, s, D)
  BY <1>0, <1>2, CollectsExist
<1>4. g = F(g)
  <2>1. ASSUME NEW n \in 0..Len(s)
        PROVE  g[n] = F(g)[n]
    <3>1. CASE n = 0
      BY <1>3, <3>1 DEF Collects
    <3>2. CASE n # 0
      <4>1. n \in 1..Len(s)
        BY <1>0, <3>2
      <4>. QED
        BY <1>2, <1>3, <3>2, <4>1 DEF Collects
    <3>. QED
      BY <3>1, <3>2
  <2>. QED
    BY <1>3, <2>1
<1>. HIDE DEF F
<1>5. c = F(c)
  BY <1>4
<1>. HIDE DEF c
<1>6. Collects(c, s, D)
  <2>1. \A n \in 0..Len(s) :
          c[n] = IF n = 0 THEN << >>
                 ELSE IF <<b, s[n]>> \in phis THEN Append(c[n - 1], s[n]) ELSE c[n - 1]
    BY <1>5 DEF F
  <2>2. 0 \in 0..Len(s) /\ \A n \in 1..Len(s) : n \in 0..Len(s) /\ n # 0
    BY <1>0
  <2>3. ASSUME NEW n \in 1..Len(s)
        PROVE  c[n] = IF n \in D THEN Append(c[n - 1], s[n]) ELSE c[n - 1]
    BY <1>2, <2>1, <2>2
  <2>. QED
    BY <2>1, <2>2, <2>3 DEF Collects
<1>7. CanCollect(c, s, D, Vars)
  BY <1>0, <1>2, <1>6 DEF CanCollect
<1>8. Collected(c[Len(s)], s, D, Vars)
  BY <1>7, CollectsFacts
<1>. HIDE DEF r
<1>9. r \in Seq(Vars) /\ \A y : y \in Range(r) <=> \E d \in D : y = s[d]
  BY <1>1, <1>8 DEF Collected
<1>10. ASSUME NEW v
       PROVE  v \in Range(r) <=> v \in Vars /\ <<b, v>> \in phis
  <2>1. \A k \in 1..Len(s) : s[k] \in Vars
    BY <1>0
  <2>2. ASSUME v \in Range(r)
        PROVE  v \in Vars /\ <<b, v>> \in phis
    <3>1. PICK d \in D : v = s[d]
      BY <1>9, <2>2
    <3>2. d \in 1..Len(s)
      BY <1>2
    <3>. QED
      BY <1>2, <2>1, <3>1, <3>2
  <2>3. ASSUME v \in Vars, <<b, v>> \in phis
        PROVE  v \in Range(r)
    <3>1. PICK k \in 1..Len(s) : s[k] = v
      BY <1>0, <2>3
    <3>2. k \in D
      BY <1>2, <2>3, <3>1
    <3>. QED
      BY <1>9, <3>1, <3>2
  <2>. QED
    BY <2>2, <2>3
<1>11. PhiVarsOf(b) = r
  BY DEF PhiVarsOf, r, s
<1>. QED
  BY <1>9, <1>10, <1>11

PhiOpsTyped == \A b \in Block, v \in Vars : phiOps[b][v] \in Seq(PhiPair)

\* o is the value of a pair.
ValueIn(pairs, o) == \E k \in 1..Len(pairs) : pairs[k].val = o

LEMMA PhiValBbFacts ==
  ASSUME NEW st \in ScanState, NEW pairs \in Seq(PhiPair)
  PROVE  /\ PhiValBb(st, pairs) \in PhiBlocksOf
         /\ \A o \in Followed :
              \/ PhiValBb(st, pairs)[o] = st.phi[o] /\ (~ValueIn(pairs, o) \/ o \in st.def \cup st.use)
              \/ \E k \in 1..Len(pairs) : PhiValBb(st, pairs)[o] = pairs[k].bb /\ pairs[k].val = o
<1>. DEFINE r == PhiValBb(st, pairs)
<1>1. Len(pairs) \in Nat /\ DOMAIN pairs = 1..Len(pairs) /\ \A k \in 1..Len(pairs) : pairs[k].bb \in Block
  <2>1. \A k \in 1..Len(pairs) : pairs[k] \in PhiPair
    OBVIOUS
  <2>. QED
    BY <2>1 DEF PhiPair
<1>2. \A o \in Followed : st.phi[o] \in Block \cup {NoBlock}
  BY DEF ScanState, PhiBlocksOf
<1>3. ASSUME NEW o \in Followed
      PROVE  /\ r[o] \in Block \cup {NoBlock}
             /\ \/ r[o] = st.phi[o] /\ (~ValueIn(pairs, o) \/ o \in st.def \cup st.use)
                \/ \E k \in 1..Len(pairs) : r[o] = pairs[k].bb /\ pairs[k].val = o
  <2>. DEFINE of == {k \in DOMAIN pairs : pairs[k].val = o}
  <2>1. r[o] = IF of = {} \/ o \in st.def \cup st.use THEN st.phi[o] ELSE pairs[Max(of)].bb
    BY DEF PhiValBb
  <2>2. of \in SUBSET (1..Len(pairs)) /\ \A k : k \in of <=> k \in 1..Len(pairs) /\ pairs[k].val = o
    BY <1>1
  <2>3. Max(of) = Greatest(of)
    BY DEF Max, Greatest
  <2>. HIDE DEF of, r
  <2>4. CASE of = {} \/ o \in st.def \cup st.use
    <3>1. r[o] = st.phi[o]
      BY <2>1, <2>4
    <3>2. of = {} => ~ValueIn(pairs, o)
      BY <2>2 DEF ValueIn
    <3>. QED
      BY <1>2, <2>4, <3>1, <3>2
  <2>5. CASE ~(of = {} \/ o \in st.def \cup st.use)
    <3>1. Greatest(of) \in of
      BY <1>1, <2>2, <2>5, GreatestFacts
    <3>2. r[o] = pairs[Greatest(of)].bb
      BY <2>1, <2>3, <2>5
    <3>. QED
      BY <1>1, <2>2, <3>1, <3>2
  <2>. QED
    BY <2>4, <2>5
<1>4. r = [o \in Followed |-> r[o]]
  BY DEF PhiValBb
<1>. QED
  BY <1>3, <1>4 DEF PhiBlocksOf

LEMMA ScanPhiFacts ==
  ASSUME NEW st \in ScanState, NEW b \in Block, NEW v \in Vars, phiOps[b][v] \in Seq(PhiPair),
         st.use = {}
  PROVE  /\ ScanPhi(st, b, v) \in ScanState
         /\ ScanPhi(st, b, v).use = {} /\ ScanPhi(st, b, v).def = st.def \cup {PhiOf(b, v)}
         /\ ScanPhi(st, b, v).phi = PhiValBb(st, phiOps[b][v])
<1>. DEFINE u == [st EXCEPT !.phi = PhiValBb(st, phiOps[b][v])]
<1>1. PhiValBb(st, phiOps[b][v]) \in PhiBlocksOf
  BY PhiValBbFacts
<1>2. /\ u \in ScanState /\ u.use = {} /\ u.def = st.def
      /\ u.phi = PhiValBb(st, phiOps[b][v])
  BY <1>1 DEF ScanState
<1>3. PhiOf(b, v) \in Followed
  BY FollowedFacts
<1>4. ScanPhi(st, b, v) = Def(u, PhiOf(b, v))
  BY DEF ScanPhi
<1>. HIDE DEF u
<1>5. Def(u, PhiOf(b, v)) = [u EXCEPT !.def = u.def \cup {PhiOf(b, v)}]
  BY <1>2, <1>3 DEF Def
<1>6. Def(u, PhiOf(b, v)) \in ScanState
  BY <1>2, DefFacts
<1>. QED
  BY <1>2, <1>4, <1>5, <1>6 DEF ScanState

\* what the phis of the variables s make of a state
PhisLeft(b, base, s) == FoldLeft(LAMBDA st, v : ScanPhi(st, b, v), base, s)

\* In the phis nothing is used.
PhiState == {st \in ScanState : st.use = {}}

\* The states between the phis of a block.
LEMMA PhisFold ==
  ASSUME NEW b \in Block, NEW s \in Seq(Vars), NEW base \in PhiState,
         PhiOpsTyped
  PROVE  \E g \in [0..Len(s) -> PhiState] :
           /\ g[0] = base /\ g[Len(s)] = PhisLeft(b, base, s)
           /\ \A k \in 1..Len(s) : g[k] = ScanPhi(g[k - 1], b, s[k])
<1>. DEFINE U == PhiState
            n == Len(s)
            step == [e \in U \X (1..n) |-> ScanPhi(e[1], b, s[e[2]])]
            F(it) == [t \in SUBSET DOMAIN s |->
                        IF t = {} THEN base ELSE ScanPhi(it[t \ {Max(t)}], b, s[Max(t)])]
            c == CHOOSE it : it = F(it)
<1>1. PhisLeft(b, base, s) = c[DOMAIN s]
  BY DEF PhisLeft, FoldLeft, MapThenFoldSet
<1>2. n \in Nat /\ DOMAIN s = 1..n /\ \A k \in 1..n : s[k] \in Vars
  OBVIOUS
<1>3. \A t : Max(t) = Greatest(t)
  BY DEF Max, Greatest
<1>4. \A u \in U, k \in 1..n : ScanPhi(u, b, s[k]) \in U
  BY <1>2, ScanPhiFacts DEF PhiState, PhiOpsTyped
<1>5. base \in U /\ step \in [U \X (1..n) -> U]
  BY <1>4
<1>6. \A u \in U, k \in 1..n : step[<<u, k>>] = ScanPhi(u, b, s[k])
  OBVIOUS
<1>. HIDE DEF U, n, step
<1>7. \A t \in SUBSET (1..n) : t # {} => Greatest(t) \in 1..n /\ t \ {Greatest(t)} \in SUBSET (1..n)
  BY <1>2, GreatestFacts
<1>8. PICK it : FoldOn(it, n, U, base, step)
  BY <1>2, <1>5, FoldExists
<1>9. it = F(it)
  <2>1. it \in [SUBSET (1..n) -> U]
    BY <1>8 DEF FoldOn
  <2>2. ASSUME NEW t \in SUBSET (1..n)
        PROVE  it[t] = IF t = {} THEN base ELSE ScanPhi(it[t \ {Max(t)}], b, s[Max(t)])
    <3>1. CASE t = {}
      BY <1>8, <3>1 DEF FoldOn
    <3>2. CASE t # {}
      <4>1. it[t] = step[<<it[t \ {Greatest(t)}], Greatest(t)>>] /\ it[t \ {Greatest(t)}] \in U
        BY <1>7, <1>8, <3>2 DEF FoldOn
      <4>. QED
        BY <1>3, <1>6, <1>7, <3>2, <4>1
    <3>. QED
      BY <3>1, <3>2
  <2>. QED
    BY <1>2, <2>1, <2>2
<1>. HIDE DEF F
<1>10. c = F(c)
  BY <1>9
<1>. HIDE DEF c
<1>11. IsFold(c, n, U, base, step)
  <2>1. ASSUME NEW t \in SUBSET (1..n)
        PROVE  c[t] = IF t = {} THEN base ELSE ScanPhi(c[t \ {Max(t)}], b, s[Max(t)])
    BY <1>2, <1>10 DEF F
  <2>2. ASSUME NEW t \in SUBSET (1..n), t # {}, c[t \ {Greatest(t)}] \in U
        PROVE  c[t] = step[<<c[t \ {Greatest(t)}], Greatest(t)>>]
    BY <1>3, <1>6, <1>7, <2>1, <2>2
  <2>. QED
    BY <2>1, <2>2 DEF IsFold
<1>12. PICK g : FoldSteps(g, n, U, base, step) /\ g[n] = c[1..n]
  <2>1. FoldsTo(c[1..n], n, U, base, step)
    BY <1>2, <1>5, <1>11, FoldIs
  <2>. QED
    BY <2>1 DEF FoldsTo
<1>13. /\ g \in [0..n -> U] /\ g[0] = base /\ g[n] = PhisLeft(b, base, s)
       /\ \A k \in 1..n : g[k - 1] \in U /\ g[k] = step[<<g[k - 1], k>>]
  <2>1. \A k \in 1..n : k - 1 \in 0..n
    BY <1>2
  <2>. QED
    BY <1>1, <1>2, <1>12, <2>1 DEF FoldSteps
<1>14. \A k \in 1..n : g[k] = ScanPhi(g[k - 1], b, s[k])
  BY <1>6, <1>13
<1>. QED
  BY <1>13, <1>14 DEF U, n


\* The blocks that phi gives for values are those of pairs of phis of b up to
\* the k-th, and each value has one if all values of phis are apart.
PhisEntered(st, b, s, k) ==
  /\ \A o : o \in st.def <=> \E j \in 1..k : o = PhiOf(b, s[j])
  /\ \A o \in Followed : st.phi[o] # NoBlock =>
       \E j \in 1..k : \E m \in 1..Len(phiOps[b][s[j]]) :
          phiOps[b][s[j]][m].val = o /\ phiOps[b][s[j]][m].bb = st.phi[o]
  /\ PhisApart(b) => \A o \in Followed : \A j \in 1..k :
       ValueIn(phiOps[b][s[j]], o) => st.phi[o] # NoBlock

\* PhisApart, of the pairs.
LEMMA ApartFacts ==
  ASSUME NEW b, PhisApart(b), NEW v, <<b, v>> \in phis, NEW w, <<b, w>> \in phis,
         PhiOpsTyped, b \in Block, v \in Vars, w \in Vars,
         ValueIn(phiOps[b][v], PhiOf(b, w))
  PROVE  PhiOf(b, w) = PhiOf(b, v)
<1>1. PICK k \in 1..Len(phiOps[b][v]) : phiOps[b][v][k].val = PhiOf(b, w)
  BY DEF ValueIn
<1>2. phiOps[b][v] \in Seq(PhiPair)
  BY DEF PhiOpsTyped
<1>3. phiOps[b][v][k] \in Range(phiOps[b][v])
  BY <1>2 DEF Range
<1>4. <<b, v>> \in PhisOf(b) /\ <<b, w>> \in PhisOf(b) /\ <<b, v>>[2] = v /\ <<b, w>>[2] = w
      /\ <<b, w>>[1] = b
  BY DEF PhisOf
<1>5. PhiOf(b, w) \in PhisValues(b)
  BY <1>4 DEF PhisValues
<1>6. {p.val : p \in Range(phiOps[b][v])} \cap PhisValues(b) \subseteq {PhiOf(b, v)}
  BY <1>4 DEF PhisApart
<1>. QED
  BY <1>1, <1>3, <1>5, <1>6

LEMMA PhiOneMore ==
  ASSUME NEW b \in Block, NEW s \in Seq(Vars), \A k \in 1..Len(s) : <<b, s[k]>> \in phis,
         PhiOpsTyped, NEW k \in Nat, k + 1 <= Len(s),
         NEW st \in PhiState, PhisEntered(st, b, s, k), NEW r, r = ScanPhi(st, b, s[k + 1])
  PROVE  PhisEntered(r, b, s, k + 1)
<1>. DEFINE pairs == phiOps[b][s[k + 1]]
<1>1. /\ k + 1 \in 1..Len(s) /\ 1..k \subseteq 1..k + 1 /\ 1..k \subseteq 1..Len(s)
      /\ \A i \in 1..k + 1 : i \in 1..k \/ i = k + 1
  OBVIOUS
<1>2. s[k + 1] \in Vars /\ pairs \in Seq(PhiPair) /\ st \in ScanState /\ st.use = {}
  BY <1>1 DEF PhiOpsTyped, PhiState
<1>3. r.def = st.def \cup {PhiOf(b, s[k + 1])} /\ r.phi = PhiValBb(st, pairs)
  BY <1>2, ScanPhiFacts
<1>4. \A o \in Followed :
        \/ r.phi[o] = st.phi[o] /\ (~ValueIn(pairs, o) \/ o \in st.def)
        \/ \E m \in 1..Len(pairs) : r.phi[o] = pairs[m].bb /\ pairs[m].val = o
  BY <1>2, <1>3, PhiValBbFacts
<1>5. \A o : o \in r.def <=> \E j \in 1..k + 1 : o = PhiOf(b, s[j])
  BY <1>1, <1>3 DEF PhisEntered
<1>6. ASSUME NEW o \in Followed, r.phi[o] # NoBlock
      PROVE  \E j \in 1..k + 1 : \E m \in 1..Len(phiOps[b][s[j]]) :
                phiOps[b][s[j]][m].val = o /\ phiOps[b][s[j]][m].bb = r.phi[o]
  <2>1. CASE r.phi[o] = st.phi[o]
    <3>1. PICK j \in 1..k : \E m \in 1..Len(phiOps[b][s[j]]) :
            phiOps[b][s[j]][m].val = o /\ phiOps[b][s[j]][m].bb = st.phi[o]
      BY <1>6, <2>1 DEF PhisEntered
    <3>. QED
      BY <1>1, <2>1, <3>1
  <2>2. CASE \E m \in 1..Len(pairs) : r.phi[o] = pairs[m].bb /\ pairs[m].val = o
    BY <1>1, <2>2
  <2>. QED
    BY <1>4, <2>1, <2>2
<1>7. ASSUME PhisApart(b), NEW o \in Followed, NEW j \in 1..k + 1, ValueIn(phiOps[b][s[j]], o)
      PROVE  r.phi[o] # NoBlock
  <2>1. CASE \E m \in 1..Len(pairs) : r.phi[o] = pairs[m].bb /\ pairs[m].val = o
    <3>1. PICK m \in 1..Len(pairs) : r.phi[o] = pairs[m].bb
      BY <2>1
    <3>2. pairs[m] \in PhiPair
      BY <1>2
    <3>. QED
      BY <3>1, <3>2, AvoidFacts DEF PhiPair, NoBlock, Block
  <2>2. CASE r.phi[o] = st.phi[o] /\ (~ValueIn(pairs, o) \/ o \in st.def)
    <3>1. CASE j \in 1..k
      BY <1>7, <2>2, <3>1 DEF PhisEntered
    <3>2. CASE j = k + 1
      <4>1. o \in st.def /\ ValueIn(pairs, o)
        BY <1>7, <2>2, <3>2
      <4>2. PICK i \in 1..k : o = PhiOf(b, s[i])
        BY <4>1 DEF PhisEntered
      <4>3. <<b, s[i]>> \in phis /\ <<b, s[k + 1]>> \in phis /\ s[i] \in Vars
        BY <1>1
      <4>4. o = PhiOf(b, s[k + 1])
        BY <1>2, <1>7, <4>1, <4>2, <4>3, ApartFacts
      <4>5. s[i] = s[k + 1]
        BY <1>2, <4>2, <4>3, <4>4, PhiNumbers
      <4>6. ValueIn(phiOps[b][s[i]], o)
        BY <4>1, <4>5
      <4>. QED
        BY <1>7, <2>2, <4>6 DEF PhisEntered
    <3>. QED
      BY <1>1, <3>1, <3>2
  <2>. QED
    BY <1>4, <2>1, <2>2
<1>. QED
  BY <1>5, <1>6, <1>7 DEF PhisEntered

\* What phi says once the phis have been visited.
PhiSays(phi, b) ==
  /\ \A o \in Followed : phi[o] # NoBlock =>
       \E v \in Vars : /\ <<b, v>> \in phis
                       /\ \E m \in 1..Len(phiOps[b][v]) :
                            phiOps[b][v][m].val = o /\ phiOps[b][v][m].bb = phi[o]
  /\ PhisApart(b) => \A o \in Followed : \A v \in Vars :
       <<b, v>> \in phis /\ ValueIn(phiOps[b][v], o) => phi[o] # NoBlock

LEMMA PhisScanned ==
  ASSUME NEW b \in Block, phiOrder \in Bijection(Vars, Vars), PhiOpsTyped,
         phis \subseteq Block \X Vars,
         NEW base \in PhiState, base.def = {}, \A o \in Followed : base.phi[o] = NoBlock,
         NEW r, r = PhisLeft(b, base, PhiVarsOf(b))
  PROVE  r \in PhiState /\ r.def = PhisValues(b) /\ PhiSays(r.phi, b)
<1>1. PICK s : s = PhiVarsOf(b)
  OBVIOUS
<1>2. s \in Seq(Vars) /\ \A v : v \in Range(s) <=> v \in Vars /\ <<b, v>> \in phis
  BY <1>1, PhiVarsFacts
<1>. DEFINE n == Len(s)
<1>3. /\ n \in Nat /\ n \in 0..n
      /\ \A v : v \in Range(s) <=> \E k \in 1..n : v = s[k]
  BY <1>2 DEF Range
<1>4. /\ \A k \in 1..n : s[k] \in Vars /\ <<b, s[k]>> \in phis
      /\ \A v \in Vars : <<b, v>> \in phis => \E k \in 1..n : v = s[k]
  BY <1>2, <1>3
<1>5. PICK g \in [0..n -> PhiState] :
        /\ g[0] = base /\ g[n] = PhisLeft(b, base, s)
        /\ \A k \in 1..n : g[k] = ScanPhi(g[k - 1], b, s[k])
  BY <1>2, PhisFold
<1>. DEFINE T == {k \in Nat : k <= n => PhisEntered(g[k], b, s, k)}
<1>6. 0 \in T
  BY <1>5 DEF PhisEntered
<1>7. ASSUME NEW k \in T
      PROVE  k + 1 \in T
  <2>. SUFFICES ASSUME k + 1 <= n PROVE PhisEntered(g[k + 1], b, s, k + 1)
    OBVIOUS
  <2>1. k \in 0..n /\ k + 1 \in 1..n /\ (k + 1) - 1 = k /\ k \in Nat /\ PhisEntered(g[k], b, s, k)
    BY <1>3
  <2>2. g[k] \in PhiState /\ g[k + 1] = ScanPhi(g[k], b, s[k + 1])
    BY <1>5, <2>1
  <2>. QED
    BY <1>2, <1>4, <2>1, <2>2, PhiOneMore
<1>8. T = Nat
  <2>1. T \in SUBSET Nat
    OBVIOUS
  <2>. HIDE DEF T
  <2>. QED
    BY <1>6, <1>7, <2>1, Induction
<1>9. PhisEntered(g[n], b, s, n) /\ g[n] = r /\ g[n] \in PhiState
  BY <1>1, <1>3, <1>5, <1>8
<1>10. r.def = PhisValues(b)
  <2>1. \A o : o \in r.def <=> \E j \in 1..n : o = PhiOf(b, s[j])
    BY <1>9 DEF PhisEntered
  <2>2. \A o : o \in PhisValues(b) <=> \E v \in Vars : <<b, v>> \in phis /\ o = PhiOf(b, v)
    <3>. TAKE o
    <3>1. ASSUME o \in PhisValues(b)
          PROVE  \E v \in Vars : <<b, v>> \in phis /\ o = PhiOf(b, v)
      <4>1. PICK p \in phis : p[1] = b /\ o = PhiOf(p[1], p[2])
        BY <3>1 DEF PhisValues, PhisOf
      <4>2. p = <<b, p[2]>> /\ p[2] \in Vars
        BY <4>1
      <4>. QED
        BY <4>1, <4>2
    <3>2. ASSUME NEW v \in Vars, <<b, v>> \in phis, o = PhiOf(b, v)
          PROVE  o \in PhisValues(b)
      <4>1. <<b, v>> \in PhisOf(b) /\ <<b, v>>[1] = b /\ <<b, v>>[2] = v
        BY <3>2 DEF PhisOf
      <4>. QED
        BY <3>2, <4>1 DEF PhisValues
    <3>. QED
      BY <3>1, <3>2
  <2>3. \A o : o \in r.def <=> o \in PhisValues(b)
    BY <1>4, <2>1, <2>2
  <2>. QED
    BY <2>3
<1>11. PhiSays(r.phi, b)
  <2>1. ASSUME NEW o \in Followed, r.phi[o] # NoBlock
        PROVE  \E v \in Vars : /\ <<b, v>> \in phis
                               /\ \E m \in 1..Len(phiOps[b][v]) :
                                    phiOps[b][v][m].val = o /\ phiOps[b][v][m].bb = r.phi[o]
    BY <1>4, <1>9, <2>1 DEF PhisEntered
  <2>2. ASSUME PhisApart(b), NEW o \in Followed, NEW v \in Vars,
               <<b, v>> \in phis, ValueIn(phiOps[b][v], o)
        PROVE  r.phi[o] # NoBlock
    BY <1>4, <1>9, <2>2 DEF PhisEntered
  <2>. QED
    BY <2>1, <2>2 DEF PhiSays
<1>. QED
  BY <1>9, <1>10, <1>11
----------------------------------------------------------------------------
(***************************************************************************)
(* What the first loop finds out about a block.                            *)
(***************************************************************************)
\* The function that Mem2Reg leaves.
Given ==
  /\ GraphOK /\ PairsOK
  /\ phis \subseteq Block \X Vars /\ code \in [Block -> Seq(Instr)]

LEMMA GivenPairs == Given => PhiOpsTyped
BY DEF Given, PairsOK, PairsOf, PhiOpsTyped

\* The sets of a block, as the definitions say.
SetsOf(b, use, def, phi) ==
  /\ \A o : o \in use <=> o \in ExposedIn(b)
  /\ \A o : o \in def <=> o \in KilledIn(b) /\ o \notin ExposedIn(b)
  /\ PhiSays(phi, b)

LEMMA ExposedFacts ==
  ASSUME code \in [Block -> Seq(Instr)], NEW b \in Block, NEW o, NEW s, s = code[b]
  PROVE  /\ o \in ExposedIn(b) <=> ExposedTo(o, s, PhisValues(b), Len(s))
         /\ o \in KilledIn(b) <=> KilledTo(o, s, PhisValues(b), Len(s))
<1>1. s \in Seq(Instr) /\ DOMAIN s = 1..Len(s)
  OBVIOUS
<1>. DEFINE before(i) == PhisValues(b) \cup UNION {DefsOf(s[j]) : j \in 1..i - 1}
<1>2. ExposedIn(b) = UNION {UsesOf(s[i]) \ before(i) : i \in 1..Len(s)}
  BY <1>1 DEF ExposedIn
<1>3. \A i : o \in before(i) <=> o \in PhisValues(b) \/ \E j \in 1..i - 1 : o \in DefsOf(s[j])
  OBVIOUS
<1>. HIDE DEF before
<1>4. o \in ExposedIn(b) <=> \E i \in 1..Len(s) : o \in UsesOf(s[i]) /\ o \notin before(i)
  BY <1>2
<1>5. o \in ExposedIn(b) <=> ExposedTo(o, s, PhisValues(b), Len(s))
  BY <1>3, <1>4 DEF ExposedTo
<1>6. o \in KilledIn(b) <=> KilledTo(o, s, PhisValues(b), Len(s))
  BY <1>1 DEF KilledIn, KilledTo
<1>. QED
  BY <1>5, <1>6

LEMMA ScannedFacts ==
  ASSUME Given, phiOrder \in Bijection(Vars, Vars), NEW b \in Block,
         phiFrom[b] \in PhiBlocksOf, \A o \in Followed : phiFrom[b][o] = NoBlock
  PROVE  Scanned(b) \in ScanState /\ SetsOf(b, Scanned(b).use, Scanned(b).def, Scanned(b).phi)
<1>. DEFINE base == [use |-> {}, def |-> {}, phi |-> phiFrom[b]]
            mid == PhisLeft(b, base, PhiVarsOf(b))
            r == FoldLeft(ScanInstr, mid, code[b])
<1>1. Scanned(b) = r
  BY DEF Scanned, PhisLeft
<1>2. base \in PhiState /\ base.def = {} /\ base.phi = phiFrom[b]
  BY DEF PhiState, ScanState
<1>3. PhiOpsTyped /\ phis \subseteq Block \X Vars /\ code \in [Block -> Seq(Instr)]
  BY GivenPairs DEF Given
<1>. HIDE DEF base, mid
<1>4. mid \in PhiState /\ mid.def = PhisValues(b) /\ PhiSays(mid.phi, b)
  BY <1>2, <1>3, PhisScanned DEF mid
<1>5. mid \in ScanState /\ mid.use = {} /\ code[b] \in Seq(Instr)
  BY <1>3, <1>4 DEF PhiState
<1>6. r \in ScanState /\ r.phi = mid.phi /\ HasScanned(r, code[b], PhisValues(b), Len(code[b]))
  BY <1>4, <1>5, InstrsScanned
<1>. HIDE DEF r
<1>7. \A o : /\ o \in ExposedIn(b) <=> ExposedTo(o, code[b], PhisValues(b), Len(code[b]))
             /\ o \in KilledIn(b) <=> KilledTo(o, code[b], PhisValues(b), Len(code[b]))
  BY <1>3, ExposedFacts
<1>8. SetsOf(b, r.use, r.def, r.phi)
  BY <1>4, <1>6, <1>7 DEF SetsOf, HasScanned
<1>. QED
  BY <1>1, <1>6, <1>8

\* A pair of a phi of s says that o comes from b.
Listed(s, b, o) ==
  /\ o \in Followed
  /\ \E v \in Vars : /\ <<s, v>> \in phis
                     /\ \E m \in 1..Len(phiOps[s][v]) :
                          phiOps[s][v][m].val = o /\ phiOps[s][v][m].bb = b

LEMMA PhiOperandsFacts ==
  ASSUME Given, NEW s \in Block, NEW b, NEW o
  PROVE  o \in PhiOperands(s, b) <=> Listed(s, b, o)
<1>. DEFINE pairs == UNION {Range(phiOps[s][v[2]]) : v \in PhisOf(s)}
<1>1. \A q : q \in pairs <=>
         \E v \in Vars : <<s, v>> \in phis /\ \E m \in 1..Len(phiOps[s][v]) : q = phiOps[s][v][m]
  <2>1. \A v \in Vars : DOMAIN phiOps[s][v] = 1..Len(phiOps[s][v])
    <3>1. \A v \in Vars : phiOps[s][v] \in Seq(PhiPair)
      BY GivenPairs DEF PhiOpsTyped
    <3>. QED
      BY <3>1
  <2>2. \A p : p \in PhisOf(s) <=> \E v \in Vars : p = <<s, v>> /\ <<s, v>> \in phis
    <3>. TAKE p
    <3>1. ASSUME p \in PhisOf(s)
          PROVE  \E v \in Vars : p = <<s, v>> /\ <<s, v>> \in phis
      <4>1. p \in phis /\ p[1] = s /\ p \in Block \X Vars
        BY <3>1 DEF PhisOf, Given
      <4>2. p = <<s, p[2]>> /\ p[2] \in Vars
        BY <4>1
      <4>. QED
        BY <4>1, <4>2
    <3>2. ASSUME NEW v \in Vars, p = <<s, v>>, <<s, v>> \in phis
          PROVE  p \in PhisOf(s)
      BY <3>2 DEF PhisOf
    <3>. QED
      BY <3>1, <3>2
  <2>3. \A v \in Vars : \A q : q \in Range(phiOps[s][v]) <=> \E m \in 1..Len(phiOps[s][v]) : q = phiOps[s][v][m]
    BY <2>1 DEF Range
  <2>4. \A v \in Vars : <<s, v>>[2] = v
    OBVIOUS
  <2>5. \A q : q \in pairs <=> \E p \in PhisOf(s) : q \in Range(phiOps[s][p[2]])
    OBVIOUS
  <2>. HIDE DEF pairs
  <2>6. ASSUME NEW q \in pairs
        PROVE  \E v \in Vars : <<s, v>> \in phis /\ \E m \in 1..Len(phiOps[s][v]) : q = phiOps[s][v][m]
    <3>1. PICK p \in PhisOf(s) : q \in Range(phiOps[s][p[2]])
      BY <2>5
    <3>2. PICK v \in Vars : p = <<s, v>> /\ <<s, v>> \in phis
      BY <2>2
    <3>3. q \in Range(phiOps[s][v])
      BY <2>4, <3>1, <3>2
    <3>. QED
      BY <2>3, <3>2, <3>3
  <2>7. ASSUME NEW q, NEW v \in Vars, <<s, v>> \in phis, \E m \in 1..Len(phiOps[s][v]) : q = phiOps[s][v][m]
        PROVE  q \in pairs
    <3>1. <<s, v>> \in PhisOf(s)
      BY <2>2, <2>7
    <3>2. q \in Range(phiOps[s][<<s, v>>[2]])
      BY <2>3, <2>4, <2>7
    <3>. QED
      BY <2>5, <3>1, <3>2
  <2>. QED
    BY <2>6, <2>7
<1>2. PhiOperands(s, b) = {p.val : p \in {q \in pairs : q.bb = b}} \cap Followed
  BY DEF PhiOperands
<1>. HIDE DEF pairs
<1>3. o \in PhiOperands(s, b) <=> o \in Followed /\ \E q \in pairs : q.bb = b /\ q.val = o
  BY <1>2
<1>4. (\E q \in pairs : q.bb = b /\ q.val = o) <=>
        \E v \in Vars : /\ <<s, v>> \in phis
                        /\ \E m \in 1..Len(phiOps[s][v]) :
                             phiOps[s][v][m].val = o /\ phiOps[s][v][m].bb = b
  <2>1. ASSUME NEW q \in pairs, q.bb = b, q.val = o
        PROVE  \E v \in Vars : /\ <<s, v>> \in phis
                                /\ \E m \in 1..Len(phiOps[s][v]) :
                                     phiOps[s][v][m].val = o /\ phiOps[s][v][m].bb = b
    <3>1. PICK v \in Vars : <<s, v>> \in phis /\ \E m \in 1..Len(phiOps[s][v]) : q = phiOps[s][v][m]
      BY <1>1
    <3>. QED
      BY <2>1, <3>1
  <2>2. ASSUME NEW v \in Vars, <<s, v>> \in phis, NEW m \in 1..Len(phiOps[s][v]),
               phiOps[s][v][m].val = o, phiOps[s][v][m].bb = b
        PROVE  \E q \in pairs : q.bb = b /\ q.val = o
    <3>1. phiOps[s][v][m] \in pairs
      BY <1>1, <2>2
    <3>. QED
      BY <2>2, <3>1
  <2>. QED
    BY <2>1, <2>2
<1>. QED
  BY <1>3, <1>4 DEF Listed

\* phi_val_bb holds operands of the predecessors, and all if the phis are apart.
LEMMA PhiUsesFacts ==
  ASSUME Given, NEW s \in Block, PhiSays(phiFrom[s], s)
  PROVE  /\ \A b \in Block : PhiUses(s, b) \subseteq PhiOperands(s, b)
         /\ PhisApart(s) => \A c \in Preds(s) : PhiOperands(s, c) \subseteq PhiUses(s, c)
<1>1. \A b \in Block : b # NoBlock
  BY DEF Block, NoBlock
<1>2. ASSUME NEW o \in Followed, phiFrom[s][o] # NoBlock
      PROVE  o \in PhiOperands(s, phiFrom[s][o])
  <2>1. Listed(s, phiFrom[s][o], o)
    BY <1>2 DEF PhiSays, Listed
  <2>. QED
    BY <2>1, PhiOperandsFacts
<1>3. ASSUME NEW b \in Block, NEW o \in PhiUses(s, b)
      PROVE  o \in PhiOperands(s, b)
  BY <1>1, <1>2 DEF PhiUses
<1>4. ASSUME PhisApart(s), NEW c \in Preds(s), NEW o \in PhiOperands(s, c)
      PROVE  o \in PhiUses(s, c)
  <2>0. Listed(s, c, o)
    BY PhiOperandsFacts
  <2>2. o \in Followed
    BY <2>0 DEF Listed
  <2>1. PICK v \in Vars : <<s, v>> \in phis /\ \E m \in 1..Len(phiOps[s][v]) :
                             phiOps[s][v][m].val = o /\ phiOps[s][v][m].bb = c
    BY <2>0 DEF Listed
  <2>3. phiFrom[s][o] # NoBlock
    BY <1>4, <2>1, <2>2 DEF PhiSays, ValueIn
  <2>. DEFINE d == phiFrom[s][o]
  <2>4. o \in PhiOperands(s, d)
    BY <1>2, <2>2, <2>3
  <2>5. d \in Preds(s)
    <3>0. PICK w \in Vars : \E m \in 1..Len(phiOps[s][w]) : phiOps[s][w][m].bb = d
      BY <2>2, <2>3 DEF PhiSays
    <3>1. PICK m \in 1..Len(phiOps[s][w]) : phiOps[s][w][m].bb = d
      BY <3>0
    <3>2. PairsOf(phiOps[s][w], s, <<s, w>> \in phis) /\ GraphOK
      BY DEF Given, PairsOK
    <3>3. phiOps[s][w] \in Seq(PhiPair) /\ s \in Succs(phiOps[s][w][m].bb)
      BY <3>2 DEF PairsOf
    <3>4. phiOps[s][w][m] \in PhiPair
      BY <3>3
    <3>. QED
      BY <3>1, <3>2, <3>3, <3>4 DEF PhiPair, GraphOK
  <2>6. d = c
    BY <1>4, <2>4, <2>5 DEF PhisApart
  <2>. QED
    BY <2>2, <2>6 DEF PhiUses
<1>. QED
  BY <1>3, <1>4
----------------------------------------------------------------------------
(***************************************************************************)
(* Liveness.                                                               *)
(***************************************************************************)
\* the edges on which o stays what it is
Passing(o) == [c \in Block |-> {s \in Succs(c) : o \notin KilledIn(s)}]

\* A successor of c uses o, or takes it from c.
UsedFrom(c, o) == \E s \in Succs(c) : o \in ExposedIn(s) \cup PhiOperands(s, c)

LEMMA LiveAfterIs ==
  ASSUME GraphOK, NEW b \in Block, NEW o
  PROVE  \E X : /\ LeastClosed(X, Block, {b}, Passing(o))
                /\ LiveAfter(b, o) <=> \E c \in X : UsedFrom(c, o)
<1>. DEFINE edges == Passing(o)
            A     == {b}
            V(w)  == [n \in Nat |-> IF n = 0 THEN {b}
                                     ELSE w[n - 1] \cup {c \in UNION {Succs(d) : d \in w[n - 1]} : o \notin KilledIn(c)}]
            W     == CHOOSE w : w = V(w)
<1>1. \A c \in Block : Succs(c) \subseteq Block
  BY DEF Succs, Range, GraphOK
<1>2. Graph(Block, A, edges)
  BY <1>1 DEF Graph, Passing
<1>3. ASSUME NEW Y \in SUBSET Block
      PROVE  UNION {{c} \cup edges[c] : c \in Y} = Y \cup {c \in UNION {Succs(d) : d \in Y} : o \notin KilledIn(c)}
  <2>1. \A c \in Block : \A s : s \in edges[c] <=> s \in Succs(c) /\ o \notin KilledIn(s)
    BY DEF Passing
  <2>. HIDE DEF edges
  <2>. QED
    BY <2>1
<1>4. LiveAfter(b, o) <=> \E c \in W[MaxBlocks] : UsedFrom(c, o)
  BY DEF LiveAfter, UsedFrom
<1>. HIDE DEF A, edges
<1>5. PICK w \in [Nat -> SUBSET Block] : w = Within(w, A, edges)
  BY <1>2, WithinExists
<1>6. w = V(w)
  <2>1. \A n \in Nat : w[n] = IF n = 0 THEN A ELSE UNION {{c} \cup edges[c] : c \in w[n - 1]}
    <3>1. \A v : \A n \in Nat : Within(v, A, edges)[n] = IF n = 0 THEN A ELSE UNION {{c} \cup edges[c] : c \in v[n - 1]}
      BY DEF Within
    <3>. QED
      BY <1>5, <3>1
  <2>2. ASSUME NEW n \in Nat, n # 0
        PROVE  w[n] = w[n - 1] \cup {c \in UNION {Succs(d) : d \in w[n - 1]} : o \notin KilledIn(c)}
    <3>1. w[n - 1] \in SUBSET Block
      BY <2>2
    <3>. QED
      BY <1>3, <2>1, <2>2, <3>1
  <2>3. w[0] = {b}
    BY <2>1 DEF A
  <2>4. w = [n \in Nat |-> w[n]]
    OBVIOUS
  <2>. QED
    BY <2>2, <2>3, <2>4
<1>7. W = V(W)
  BY <1>6
<1>. HIDE DEF W
<1>8. W[0] = {b} /\ \A n \in Nat : W[n + 1] = W[n] \cup {c \in UNION {Succs(d) : d \in W[n]} : o \notin KilledIn(c)}
  <2>1. \A v : /\ V(v)[0] = {b}
               /\ \A n \in Nat : V(v)[n + 1] = v[n] \cup {c \in UNION {Succs(d) : d \in v[n]} : o \notin KilledIn(c)}
    <3>. TAKE v
    <3>1. V(v)[0] = {b}
      OBVIOUS
    <3>2. ASSUME NEW n \in Nat
          PROVE  V(v)[n + 1] = v[n] \cup {c \in UNION {Succs(d) : d \in v[n]} : o \notin KilledIn(c)}
      <4>1. n + 1 \in Nat /\ n + 1 # 0 /\ (n + 1) - 1 = n
        OBVIOUS
      <4>. QED
        BY <4>1
    <3>. QED
      BY <3>1, <3>2
  <2>2. PICK v : v = W
    OBVIOUS
  <2>. HIDE DEF V
  <2>3. W = V(v)
    BY <1>7, <2>2
  <2>4. W[0] = {b} /\ \A n \in Nat : W[n + 1] = v[n] \cup {c \in UNION {Succs(d) : d \in v[n]} : o \notin KilledIn(c)}
    BY <2>1, <2>3
  <2>. QED
    BY <2>2, <2>4
<1>9. \A n \in Nat : W[n] \in SUBSET Block
  <2>. DEFINE T == {n \in Nat : W[n] \in SUBSET Block}
  <2>1. 0 \in T
    BY <1>8
  <2>2. ASSUME NEW n \in T
        PROVE  n + 1 \in T
    BY <1>1, <1>8
  <2>3. T = Nat
    <3>. HIDE DEF T
    <3>1. T \in SUBSET Nat
      BY DEF T
    <3>. QED
      BY <2>1, <2>2, <3>1, Induction
  <2>. QED
    BY <2>3
<1>10. W \in [Nat -> SUBSET Block]
  <2>1. W = [n \in Nat |-> W[n]]
    BY <1>7
  <2>. QED
    BY <1>9, <2>1
<1>11. Growing(W, A, edges)
  <2>1. \A n \in Nat : W[n + 1] = UNION {{c} \cup edges[c] : c \in W[n]}
    BY <1>3, <1>8, <1>9
  <2>. QED
    BY <1>8, <2>1 DEF Growing, A
<1>12. LeastClosed(W[MaxBlocks], Block, A, edges)
  BY <1>2, <1>10, <1>11, GrowingEnds
<1>. QED
  BY <1>4, <1>12 DEF A, edges

\* What holds of X if o is used after some block of it only.
Backwards(X, o) ==
  \A c \in Block : \A s \in Succs(c) :
    /\ o \in ExposedIn(s) \cup PhiOperands(s, c) => c \in X
    /\ s \in X /\ o \notin KilledIn(s) => c \in X

LEMMA LiveAfterFacts ==
  ASSUME GraphOK, NEW b \in Block, NEW o
  PROVE  /\ \A s \in Succs(b) : o \in ExposedIn(s) \cup PhiOperands(s, b) => LiveAfter(b, o)
         /\ \A s \in Succs(b) : o \notin KilledIn(s) /\ LiveAfter(s, o) => LiveAfter(b, o)
         /\ \A Z \in SUBSET Block : Backwards(Z, o) /\ LiveAfter(b, o) => b \in Z
<1>. DEFINE edges == Passing(o)
<1>0. /\ \A c \in Block : Succs(c) \subseteq Block
      /\ \A c \in Block : \A s : s \in edges[c] <=> s \in Succs(c) /\ o \notin KilledIn(s)
  BY DEF Succs, Range, GraphOK, Passing
<1>. HIDE DEF edges
<1>1. PICK X : LeastClosed(X, Block, {b}, edges) /\ (LiveAfter(b, o) <=> \E c \in X : UsedFrom(c, o))
  BY LiveAfterIs DEF edges
<1>2. X \subseteq Block /\ b \in X /\ \A c \in X : edges[c] \subseteq X
  BY <1>1 DEF LeastClosed
<1>3. ASSUME NEW s \in Succs(b), o \in ExposedIn(s) \cup PhiOperands(s, b)
      PROVE  LiveAfter(b, o)
  BY <1>1, <1>2, <1>3 DEF UsedFrom
<1>4. ASSUME NEW s \in Succs(b), o \notin KilledIn(s), LiveAfter(s, o)
      PROVE  LiveAfter(b, o)
  <2>1. s \in Block /\ s \in X
    BY <1>0, <1>2, <1>4
  <2>2. PICK Y : LeastClosed(Y, Block, {s}, edges) /\ (LiveAfter(s, o) <=> \E c \in Y : UsedFrom(c, o))
    BY <2>1, LiveAfterIs DEF edges
  <2>3. Y \subseteq X
    BY <1>2, <2>1, <2>2 DEF LeastClosed
  <2>. QED
    BY <1>1, <1>4, <2>2, <2>3
<1>5. ASSUME NEW Z \in SUBSET Block, Backwards(Z, o), LiveAfter(b, o)
      PROVE  b \in Z
  <2>. SUFFICES ASSUME b \notin Z PROVE FALSE
    OBVIOUS
  <2>1. PICK c \in X : UsedFrom(c, o)
    BY <1>1, <1>5
  <2>2. c \in Z
    BY <1>2, <1>5, <2>1 DEF UsedFrom, Backwards
  <2>3. PICK S \in SUBSET Block : S = Block \ Z
    OBVIOUS
  <2>4. b \in S /\ \A d \in S : edges[d] \subseteq S
    BY <1>0, <1>5, <2>3 DEF Backwards
  <2>5. X \subseteq S
    BY <1>1, <2>4 DEF LeastClosed
  <2>. QED
    BY <2>2, <2>3, <2>5
<1>. QED
  BY <1>3, <1>4, <1>5
----------------------------------------------------------------------------
(***************************************************************************)
(* The pass.                                                               *)
(***************************************************************************)
AnalysisTypes ==
  /\ cur \in 1..MaxBlocks + 1
  /\ uses \in [Block -> SUBSET Followed] /\ defs \in [Block -> SUBSET Followed]
  /\ liveIn \in [Block -> SUBSET Followed] /\ liveOut \in [Block -> SUBSET Followed]
  /\ phiFrom \in [Block -> PhiBlocksOf]
  /\ phiOrder \in Bijection(Vars, Vars)

\* The first loop has come to the block cur.
BlocksScanned ==
  /\ \A b \in bbs : apc # "use_def" \/ b < cur => SetsOf(b, uses[b], defs[b], phiFrom[b])
  /\ apc = "use_def" => \A b \in Block :
       /\ liveIn[b] = {} /\ liveOut[b] = {}
       /\ b >= cur => \A o \in Followed : phiFrom[b][o] = NoBlock

\* What the sets of b hold is live.
Sound(b) ==
  /\ \A o \in liveIn[b] : o \in ExposedIn(b) \/ (o \notin KilledIn(b) /\ LiveAfter(b, o))
  /\ \A o \in liveOut[b] : LiveAfter(b, o)
  /\ \A o \in liveIn[b] : o \notin defs[b]

\* The equations hold at b.
Swept(b) ==
  /\ \A s \in Succs(b) : liveIn[s] \cup PhiUses(s, b) \subseteq liveOut[b]
  /\ uses[b] \cup (liveOut[b] \ defs[b]) \subseteq liveIn[b]

AnalysisInv ==
  /\ apc \in {"use_def", "in_out", "end"}
  /\ Given /\ AnalysisTypes /\ BlocksScanned
  /\ apc = "in_out" => \A b \in bbs : Sound(b) /\ (~grown /\ b < cur => Swept(b))
  /\ LiveOutIsLiveness

\* The function is only read.
LEMMA FunctionStays ==
  ASSUME bbs' = bbs, pre' = pre, succ' = succ, code' = code, phis' = phis, phiOps' = phiOps
  PROVE  /\ Given => Given'
         /\ \A b : Succs(b)' = Succs(b) /\ Preds(b)' = Preds(b)
         /\ \A b : ExposedIn(b)' = ExposedIn(b) /\ KilledIn(b)' = KilledIn(b)
         /\ \A b : PhisApart(b)' <=> PhisApart(b)
         /\ \A b, o : LiveAfter(b, o)' <=> LiveAfter(b, o)
         /\ \A b, u, d, p : SetsOf(b, u, d, p) => SetsOf(b, u, d, p)'
<1>1. \A b : Succs(b)' = Succs(b) /\ Preds(b)' = Preds(b)
  BY EdgesStay
<1>2. GraphOK => GraphOK'
  BY EdgesStay
<1>3. PairsOK => PairsOK'
  BY <1>1 DEF PairsOK, PairsOf
<1>4. Given => Given'
  BY <1>2, <1>3 DEF Given
<1>5. \A b : PhisOf(b)' = PhisOf(b)
  BY DEF PhisOf
<1>6. \A b : PhisValues(b)' = PhisValues(b)
  BY <1>5 DEF PhisValues
<1>7. \A b : ExposedIn(b)' = ExposedIn(b) /\ KilledIn(b)' = KilledIn(b)
  BY <1>6 DEF ExposedIn, KilledIn
<1>8. \A s, b : PhiOperands(s, b)' = PhiOperands(s, b)
  BY <1>5 DEF PhiOperands
<1>9. \A b : PhisApart(b)' <=> PhisApart(b)
  BY <1>1, <1>5, <1>6, <1>8 DEF PhisApart
<1>10. \A b, o : LiveAfter(b, o)' <=> LiveAfter(b, o)
  BY DEF LiveAfter, Succs, ExposedIn, KilledIn, PhiOperands, PhisValues, PhisOf
<1>11. \A b, u, d, p : SetsOf(b, u, d, p) => SetsOf(b, u, d, p)'
  <2>1. \A pairs, o : ValueIn(pairs, o)' <=> ValueIn(pairs, o)
    BY DEF ValueIn
  <2>2. \A b, p : PhiSays(p, b) => PhiSays(p, b)'
    BY <1>9, <2>1 DEF PhiSays
  <2>. QED
    BY <1>7, <2>2 DEF SetsOf
<1>. QED
  BY <1>1, <1>4, <1>7, <1>9, <1>10, <1>11

LEMMA NextFacts ==
  ASSUME bbs \subseteq Block, cur \in 1..MaxBlocks
  PROVE  /\ NextInList \in 1..MaxBlocks + 1 /\ NextInList > cur
         /\ \A b \in bbs : b < NextInList <=> b < cur \/ b = cur
<1>. DEFINE rest == {b \in bbs : b > cur}
<1>1. MaxBlocks \in Nat /\ Block = 1..MaxBlocks
  BY BoundsAssumption DEF Block
<1>2. NextInList = IF rest = {} THEN MaxBlocks + 1 ELSE Min(rest)
  BY DEF NextInList
<1>3. rest \subseteq Block /\ \A b \in bbs : b \in rest <=> b > cur
  OBVIOUS
<1>. HIDE DEF rest
<1>4. CASE rest = {}
  <2>1. \A b \in bbs : b \in Nat /\ b <= MaxBlocks /\ ~(b > cur)
    BY <1>1, <1>3, <1>4
  <2>. QED
    BY <1>1, <1>2, <1>4, <2>1
<1>5. CASE rest # {}
  <2>1. \E x \in rest : \A y \in rest : x <= y
    BY <1>1, <1>3, <1>5, LeastNumber
  <2>2. Min(rest) \in rest /\ \A y \in rest : Min(rest) <= y
    BY <2>1 DEF Min
  <2>3. PICK m : m = Min(rest)
    OBVIOUS
  <2>4. m \in bbs /\ m > cur /\ m \in 1..MaxBlocks /\ NextInList = m
        /\ \A y \in bbs : y > cur => m <= y
    <3>1. m \in rest /\ \A y \in rest : m <= y
      BY <2>2, <2>3
    <3>2. m \in bbs /\ m > cur
      BY <3>1 DEF rest
    <3>. QED
      BY <1>1, <1>2, <1>3, <1>5, <2>3, <3>1, <3>2
  <2>. QED
    BY <1>1, <2>4
<1>. QED
  BY <1>4, <1>5

LEMMA StartKeepsAnalysis ==
  ASSUME ActiveInit, Given, StartActiveVars, UNCHANGED <<graphVars, mem2regVars>>
  PROVE  AnalysisInv'
<1>1. /\ apc' = "use_def" /\ cur' = Entry /\ phiOrder' \in Bijection(Vars, Vars)
      /\ uses' = uses /\ defs' = defs /\ phiFrom' = phiFrom /\ liveIn' = liveIn /\ liveOut' = liveOut
      /\ bbs' = bbs /\ pre' = pre /\ succ' = succ /\ code' = code /\ phis' = phis /\ phiOps' = phiOps
  BY DEF StartActiveVars, graphVars, mem2regVars
<1>2. Given'
  BY <1>1, FunctionStays
<1>3. Entry \in 1..MaxBlocks + 1 /\ \A b \in Block : ~(b < Entry)
  BY BoundsAssumption DEF Entry, Block
<1>4. /\ uses \in [Block -> SUBSET Followed] /\ defs \in [Block -> SUBSET Followed]
      /\ liveIn \in [Block -> SUBSET Followed] /\ liveOut \in [Block -> SUBSET Followed]
      /\ phiFrom \in [Block -> PhiBlocksOf]
      /\ \A b \in Block : liveIn[b] = {} /\ liveOut[b] = {} /\ \A o \in Followed : phiFrom[b][o] = NoBlock
  BY DEF ActiveInit, PhiBlocksOf
<1>5. AnalysisTypes'
  BY <1>1, <1>3, <1>4 DEF AnalysisTypes
<1>6. BlocksScanned'
  BY <1>1, <1>2, <1>3, <1>4 DEF BlocksScanned, Given, GraphOK
<1>7. LiveOutIsLiveness'
  BY <1>1 DEF LiveOutIsLiveness
<1>. QED
  BY <1>1, <1>2, <1>5, <1>6, <1>7 DEF AnalysisInv

LEMMA ScanBlockKeeps ==
  ASSUME AnalysisInv, ScanBlock, UNCHANGED <<graphVars, mem2regVars>>
  PROVE  AnalysisInv'
<1>. DEFINE st == Scanned(cur)
<1>1. /\ apc = "use_def" /\ apc' = apc /\ cur <= MaxBlocks /\ cur' = NextInList
      /\ uses' = [uses EXCEPT ![cur] = st.use] /\ defs' = [defs EXCEPT ![cur] = st.def]
      /\ phiFrom' = [phiFrom EXCEPT ![cur] = st.phi]
      /\ liveIn' = liveIn /\ liveOut' = liveOut /\ phiOrder' = phiOrder
  BY DEF ScanBlock
<1>2. /\ bbs' = bbs /\ pre' = pre /\ succ' = succ /\ code' = code /\ phis' = phis /\ phiOps' = phiOps
  BY DEF graphVars, mem2regVars
<1>3. Given /\ AnalysisTypes /\ BlocksScanned
  BY DEF AnalysisInv
<1>4. cur \in Block /\ cur \in 1..MaxBlocks /\ bbs \subseteq Block
  BY <1>1, <1>3, BoundsAssumption DEF AnalysisTypes, Block, Given, GraphOK
<1>5. phiFrom[cur] \in PhiBlocksOf /\ \A o \in Followed : phiFrom[cur][o] = NoBlock
  <2>1. cur >= cur
    BY <1>4 DEF Block
  <2>. QED
    BY <1>1, <1>3, <1>4, <2>1 DEF AnalysisTypes, BlocksScanned
<1>6. st \in ScanState /\ SetsOf(cur, st.use, st.def, st.phi)
  BY <1>3, <1>4, <1>5, ScannedFacts DEF AnalysisTypes
<1>. HIDE DEF st
<1>7. NextInList \in 1..MaxBlocks + 1 /\ NextInList > cur
      /\ \A b \in bbs : b < NextInList <=> b < cur \/ b = cur
  BY <1>4, NextFacts
<1>8. Given'
  BY <1>2, <1>3, FunctionStays
<1>9. AnalysisTypes'
  BY <1>1, <1>3, <1>4, <1>6, <1>7 DEF AnalysisTypes, ScanState
<1>10. BlocksScanned'
  <2>1. ASSUME NEW b \in bbs, b < cur'
        PROVE  SetsOf(b, uses[b], defs[b], phiFrom[b])'
    <3>1. PICK u, d, p : u = uses'[b] /\ d = defs'[b] /\ p = phiFrom'[b]
      OBVIOUS
    <3>2. SetsOf(b, u, d, p)
      <4>1. CASE b = cur
        BY <1>1, <1>3, <1>4, <1>6, <3>1, <4>1 DEF AnalysisTypes
      <4>2. CASE b # cur
        <5>1. b < cur
          BY <1>1, <1>7, <2>1, <4>2
        <5>2. u = uses[b] /\ d = defs[b] /\ p = phiFrom[b]
          BY <1>1, <1>3, <1>4, <3>1, <4>2 DEF AnalysisTypes
        <5>. QED
          BY <1>3, <5>1, <5>2 DEF BlocksScanned
      <4>. QED
        BY <4>1, <4>2
    <3>3. SetsOf(b, u, d, p)'
      BY <1>2, <3>2, FunctionStays
    <3>. QED
      BY <3>1, <3>3
  <2>2. ASSUME NEW b \in Block
        PROVE  /\ liveIn'[b] = {} /\ liveOut'[b] = {}
               /\ b >= cur' => \A o \in Followed : phiFrom'[b][o] = NoBlock
    <3>1. liveIn[b] = {} /\ liveOut[b] = {} /\ (b >= cur => \A o \in Followed : phiFrom[b][o] = NoBlock)
      BY <1>1, <1>3 DEF BlocksScanned
    <3>2. b >= cur' => b >= cur /\ b # cur
      BY <1>1, <1>4, <1>7 DEF Block
    <3>3. b # cur => phiFrom'[b] = phiFrom[b]
      BY <1>1, <1>3 DEF AnalysisTypes
    <3>. QED
      BY <1>1, <3>1, <3>2, <3>3
  <2>. QED
    BY <1>1, <1>2, <2>1, <2>2 DEF BlocksScanned
<1>11. LiveOutIsLiveness'
  BY <1>1 DEF LiveOutIsLiveness
<1>. QED
  BY <1>1, <1>8, <1>9, <1>10, <1>11 DEF AnalysisInv

LEMMA StartSweepsKeeps ==
  ASSUME AnalysisInv, StartSweeps, UNCHANGED <<graphVars, mem2regVars>>
  PROVE  AnalysisInv'
<1>1. /\ apc = "use_def" /\ apc' = "in_out" /\ cur > MaxBlocks /\ cur' = Entry
      /\ uses' = uses /\ defs' = defs /\ phiFrom' = phiFrom
      /\ liveIn' = liveIn /\ liveOut' = liveOut /\ phiOrder' = phiOrder
  BY DEF StartSweeps
<1>2. /\ bbs' = bbs /\ pre' = pre /\ succ' = succ /\ code' = code /\ phis' = phis /\ phiOps' = phiOps
  BY DEF graphVars, mem2regVars
<1>3. Given /\ AnalysisTypes /\ BlocksScanned
  BY DEF AnalysisInv
<1>4. bbs \subseteq Block /\ \A b \in bbs : b < cur
  BY <1>1, <1>3, BoundsAssumption DEF AnalysisTypes, Block, Given, GraphOK
<1>5. Entry \in 1..MaxBlocks + 1 /\ \A b \in Block : ~(b < Entry)
  BY BoundsAssumption DEF Entry, Block
<1>6. Given' /\ AnalysisTypes'
  BY <1>1, <1>2, <1>3, <1>5, FunctionStays DEF AnalysisTypes
<1>7. BlocksScanned'
  <2>1. ASSUME NEW b \in bbs
        PROVE  SetsOf(b, uses[b], defs[b], phiFrom[b])'
    <3>1. PICK u, d, p : u = uses[b] /\ d = defs[b] /\ p = phiFrom[b]
      OBVIOUS
    <3>2. SetsOf(b, u, d, p)'
      BY <1>2, <1>3, <1>4, <3>1, FunctionStays DEF BlocksScanned
    <3>. QED
      BY <1>1, <3>1, <3>2
  <2>. QED
    BY <1>1, <1>2, <2>1 DEF BlocksScanned
<1>8. ASSUME NEW b \in bbs
      PROVE  Sound(b)' /\ ~(b < cur')
  <2>1. liveIn'[b] = {} /\ liveOut'[b] = {}
    BY <1>1, <1>3, <1>4 DEF BlocksScanned
  <2>. QED
    BY <1>1, <1>4, <1>5, <2>1 DEF Sound
<1>9. LiveOutIsLiveness'
  BY <1>1 DEF LiveOutIsLiveness
<1>. QED
  BY <1>1, <1>2, <1>6, <1>7, <1>8, <1>9 DEF AnalysisInv

\* What a block lets out is live after it.
LEMMA OutIsLive ==
  ASSUME AnalysisInv, apc = "in_out", NEW b \in bbs
  PROVE  Out(b) \subseteq Followed /\ \A o \in Out(b) : LiveAfter(b, o)
<1>1. Given /\ AnalysisTypes /\ GraphOK /\ \A c \in bbs : Sound(c) /\ SetsOf(c, uses[c], defs[c], phiFrom[c])
  BY DEF AnalysisInv, BlocksScanned, Given
<1>2. b \in Block /\ \A s \in Succs(b) : s \in bbs /\ s \in Block
  BY <1>1 DEF GraphOK, Succs, Range
<1>3. ASSUME NEW o \in Out(b)
      PROVE  o \in Followed /\ LiveAfter(b, o)
  <2>1. CASE o \in liveOut[b]
    BY <1>1, <1>2, <2>1 DEF Sound, AnalysisTypes
  <2>2. CASE \E s \in Succs(b) : o \in liveIn[s] \cup PhiUses(s, b)
    <3>1. PICK s \in Succs(b) : o \in liveIn[s] \cup PhiUses(s, b)
      BY <2>2
    <3>2. s \in bbs /\ s \in Block /\ PhiSays(phiFrom[s], s)
      BY <1>1, <1>2 DEF SetsOf
    <3>3. CASE o \in liveIn[s]
      <4>1. o \in ExposedIn(s) \/ (o \notin KilledIn(s) /\ LiveAfter(s, o))
        BY <1>1, <3>2, <3>3 DEF Sound
      <4>2. o \in Followed
        BY <1>1, <3>2, <3>3 DEF AnalysisTypes
      <4>. QED
        BY <1>1, <1>2, <4>1, <4>2, LiveAfterFacts
    <3>4. CASE o \in PhiUses(s, b)
      <4>1. o \in PhiOperands(s, b)
        BY <1>1, <1>2, <3>2, <3>4, PhiUsesFacts
      <4>2. o \in Followed
        BY <3>4 DEF PhiUses
      <4>. QED
        BY <1>1, <1>2, <4>1, <4>2, LiveAfterFacts
    <3>. QED
      BY <3>1, <3>3, <3>4
  <2>3. o \in liveOut[b] \cup UNION {liveIn[s] \cup PhiUses(s, b) : s \in Succs(b)}
    BY DEF Out
  <2>. QED
    BY <2>1, <2>2, <2>3
<1>. QED
  BY <1>3

LEMMA SweepBlockKeeps ==
  ASSUME AnalysisInv, SweepBlock, UNCHANGED <<graphVars, mem2regVars>>
  PROVE  AnalysisInv'
<1>. DEFINE out == Out(cur)
            in  == ((liveIn[cur] \cup out) \ defs[cur]) \cup uses[cur]
<1>1. /\ apc = "in_out" /\ apc' = apc /\ cur <= MaxBlocks /\ cur' = NextInList
      /\ liveOut' = [liveOut EXCEPT ![cur] = out] /\ liveIn' = [liveIn EXCEPT ![cur] = in]
      /\ grown' = (grown \/ Cardinality(in) # Cardinality(liveIn[cur]))
      /\ uses' = uses /\ defs' = defs /\ phiFrom' = phiFrom /\ phiOrder' = phiOrder
  BY DEF SweepBlock
<1>2. /\ bbs' = bbs /\ pre' = pre /\ succ' = succ /\ code' = code /\ phis' = phis /\ phiOps' = phiOps
  BY DEF graphVars, mem2regVars
<1>3. /\ Given /\ AnalysisTypes /\ BlocksScanned /\ GraphOK
      /\ \A b \in bbs : Sound(b) /\ SetsOf(b, uses[b], defs[b], phiFrom[b])
  BY <1>1 DEF AnalysisInv, Given, BlocksScanned
<1>4. /\ cur \in Block /\ cur \in 1..MaxBlocks /\ bbs \subseteq Block
      /\ \A b \in Block : \A s \in Succs(b) : s \in bbs /\ s \in Block /\ b \in bbs
  <2>1. cur \in Block /\ cur \in 1..MaxBlocks /\ bbs \subseteq Block
    BY <1>1, <1>3, BoundsAssumption DEF AnalysisTypes, Block, GraphOK
  <2>2. ASSUME NEW b \in Block, NEW s \in Succs(b)
        PROVE  s \in bbs /\ s \in Block /\ b \in bbs
    <3>1. s \in Block
      BY <1>3 DEF GraphOK, Succs, Range
    <3>. QED
      BY <1>3, <3>1 DEF GraphOK
  <2>. QED
    BY <2>1, <2>2
<1>5. out \subseteq Followed /\ in \subseteq Followed
  <2>1. \A s \in Succs(cur) : liveIn[s] \subseteq Followed /\ PhiUses(s, cur) \subseteq Followed
    BY <1>3, <1>4 DEF AnalysisTypes, PhiUses
  <2>2. liveIn[cur] \subseteq Followed /\ liveOut[cur] \subseteq Followed /\ uses[cur] \subseteq Followed
    BY <1>3, <1>4 DEF AnalysisTypes
  <2>3. out \subseteq Followed
    BY <2>1, <2>2 DEF Out
  <2>. QED
    BY <2>2, <2>3
<1>6. cur \in bbs => \A o \in out : LiveAfter(cur, o)
  BY <1>1, OutIsLive
<1>7. \A s \in Succs(cur) : liveIn[s] \cup PhiUses(s, cur) \subseteq out
  BY DEF Out
<1>8. liveOut[cur] \subseteq out
  BY DEF Out
<1>. HIDE DEF out
<1>9. NextInList \in 1..MaxBlocks + 1 /\ NextInList > cur
      /\ \A b \in bbs : b < NextInList <=> b < cur \/ b = cur
  BY <1>4, NextFacts
<1>10. \A o : o \in in <=> ((o \in liveIn[cur] \/ o \in out) /\ o \notin defs[cur]) \/ o \in uses[cur]
  OBVIOUS
<1>. HIDE DEF in
<1>11. /\ liveIn'[cur] = in /\ liveOut'[cur] = out
       /\ \A b \in Block : b # cur => liveIn'[b] = liveIn[b] /\ liveOut'[b] = liveOut[b]
  BY <1>1, <1>3, <1>4 DEF AnalysisTypes
<1>12. Given' /\ AnalysisTypes'
  BY <1>1, <1>2, <1>3, <1>4, <1>5, <1>9, FunctionStays DEF AnalysisTypes
<1>13. BlocksScanned'
  <2>1. ASSUME NEW b \in bbs
        PROVE  SetsOf(b, uses[b], defs[b], phiFrom[b])'
    <3>1. PICK u, d, p : u = uses[b] /\ d = defs[b] /\ p = phiFrom[b]
      OBVIOUS
    <3>2. SetsOf(b, u, d, p)'
      BY <1>2, <1>3, <3>1, FunctionStays
    <3>. QED
      BY <1>1, <3>1, <3>2
  <2>. QED
    BY <1>1, <1>2, <2>1 DEF BlocksScanned
<1>14. \A b, o : /\ LiveAfter(b, o)' <=> LiveAfter(b, o)
                 /\ o \in ExposedIn(b)' <=> o \in ExposedIn(b)
                 /\ o \in KilledIn(b)' <=> o \in KilledIn(b)
  BY <1>2, FunctionStays
<1>15. cur \in bbs => \A o : /\ o \in uses[cur] => o \in ExposedIn(cur) /\ o \notin defs[cur]
                             /\ o \notin defs[cur] => o \in ExposedIn(cur) \/ o \notin KilledIn(cur)
  BY <1>3 DEF SetsOf
<1>16. ASSUME NEW b \in bbs
       PROVE  Sound(b)'
  <2>1. CASE b # cur
    <3>1. liveIn'[b] = liveIn[b] /\ liveOut'[b] = liveOut[b]
      BY <1>4, <1>11, <2>1
    <3>. QED
      BY <1>1, <1>3, <1>14, <3>1 DEF Sound
  <2>2. CASE b = cur
    <3>1. cur \in bbs /\ Sound(cur)
      BY <1>3, <2>2
    <3>2. \A o \in in : o \in ExposedIn(cur) \/ (o \notin KilledIn(cur) /\ LiveAfter(cur, o))
      <4>. SUFFICES ASSUME NEW o \in in
                    PROVE  o \in ExposedIn(cur) \/ (o \notin KilledIn(cur) /\ LiveAfter(cur, o))
        OBVIOUS
      <4>1. CASE o \in uses[cur]
        BY <1>15, <3>1, <4>1
      <4>2. CASE o \in liveIn[cur]
        BY <3>1, <4>2 DEF Sound
      <4>3. CASE o \in out /\ o \notin defs[cur]
        BY <1>6, <1>15, <3>1, <4>3
      <4>. QED
        BY <1>10, <4>1, <4>2, <4>3
    <3>3. \A o \in in : o \notin defs[cur]
      BY <1>10, <1>15, <3>1
    <3>4. PICK c : c = cur
      OBVIOUS
    <3>5. \A o \in in : o \in ExposedIn(c)' \/ (o \notin KilledIn(c)' /\ LiveAfter(c, o)')
      BY <1>14, <3>2, <3>4
    <3>6. \A o \in out : LiveAfter(c, o)'
      BY <1>6, <1>14, <3>1, <3>4
    <3>7. liveIn'[b] = in /\ liveOut'[b] = out /\ defs'[b] = defs[cur] /\ b = c
      BY <1>1, <1>11, <2>2, <3>4
    <3>. QED
      BY <3>3, <3>5, <3>6, <3>7 DEF Sound
  <2>. QED
    BY <2>1, <2>2
<1>17. ASSUME ~grown', NEW b \in bbs, b < cur'
       PROVE  Swept(b)'
  <2>1. ~grown /\ Cardinality(in) = Cardinality(liveIn[cur])
    BY <1>1, <1>17
  <2>2. cur \in bbs => in = liveIn[cur]
    <3>. SUFFICES ASSUME cur \in bbs PROVE in = liveIn[cur]
      OBVIOUS
    <3>1. liveIn[cur] \subseteq in
      BY <1>3, <1>10 DEF Sound
    <3>2. IsFiniteSet(in)
      BY <1>5, FollowedFacts, FS_Subset
    <3>. QED
      BY <2>1, <3>1, <3>2, FS_Subset
  <2>3. \A c \in bbs : liveIn'[c] = liveIn[c]
    BY <1>4, <1>11, <2>2
  <2>4. \A s : PhiUses(s, b)' = PhiUses(s, b)
    BY <1>1 DEF PhiUses
  <2>5. Succs(b)' = Succs(b) /\ b \in Block /\ \A s \in Succs(b) : s \in bbs
    BY <1>2, <1>4, FunctionStays
  <2>6. CASE b # cur
    <3>1. b < cur /\ liveOut'[b] = liveOut[b] /\ liveIn'[b] = liveIn[b]
      BY <1>1, <1>9, <1>11, <1>17, <2>5, <2>6
    <3>2. Swept(b)
      BY <1>1, <2>1, <3>1 DEF AnalysisInv
    <3>3. \A s \in Succs(b) : liveIn'[s] \cup PhiUses(s, b) \subseteq liveOut'[b]
      BY <2>3, <2>5, <3>1, <3>2 DEF Swept
    <3>4. uses'[b] \cup (liveOut'[b] \ defs'[b]) \subseteq liveIn'[b]
      BY <1>1, <3>1, <3>2 DEF Swept
    <3>. QED
      BY <2>4, <2>5, <3>3, <3>4 DEF Swept
  <2>7. CASE b = cur
    <3>1. liveOut'[b] = out /\ liveIn'[b] = in
      BY <1>11, <2>7
    <3>2. PhiUses(b, b) = PhiUses(b, cur) /\ Succs(b) = Succs(cur)
      BY <2>7
    <3>3. \A s \in Succs(b) : liveIn'[s] \cup PhiUses(s, b) \subseteq liveOut'[b]
      BY <1>7, <2>3, <2>5, <2>7, <3>1
    <3>4. uses'[b] \cup (liveOut'[b] \ defs'[b]) \subseteq liveIn'[b]
      BY <1>1, <1>10, <2>7, <3>1
    <3>. QED
      BY <2>4, <2>5, <3>3, <3>4 DEF Swept
  <2>. QED
    BY <2>6, <2>7
<1>18. LiveOutIsLiveness'
  BY <1>1 DEF LiveOutIsLiveness
<1>. QED
  BY <1>1, <1>2, <1>12, <1>13, <1>16, <1>17, <1>18 DEF AnalysisInv

\* At the fixpoint nothing is missing.
LEMMA NothingIsMissing ==
  ASSUME AnalysisInv, apc = "in_out", ~grown, cur > MaxBlocks, \A c \in bbs : PhisApart(c),
         NEW b \in bbs, NEW o \in Followed, LiveAfter(b, o)
  PROVE  o \in liveOut[b]
<1>1. /\ Given /\ AnalysisTypes /\ GraphOK /\ bbs \subseteq Block
      /\ \A c \in bbs : SetsOf(c, uses[c], defs[c], phiFrom[c])
  BY DEF AnalysisInv, Given, BlocksScanned, GraphOK
<1>2. \A c \in bbs : Swept(c)
  <2>1. \A c \in bbs : c < cur
    BY <1>1, BoundsAssumption DEF AnalysisTypes, Block
  <2>. QED
    BY <2>1 DEF AnalysisInv
<1>3. PICK Z \in SUBSET Block : \A c : c \in Z <=> c \in bbs /\ o \in liveOut[c]
  <2>1. {c \in bbs : o \in liveOut[c]} \in SUBSET Block
    BY <1>1
  <2>. QED
    BY <2>1
<1>4. ASSUME NEW c \in Block, NEW s \in Succs(c)
      PROVE  /\ o \in ExposedIn(s) \cup PhiOperands(s, c) => c \in Z
             /\ s \in Z /\ o \notin KilledIn(s) => c \in Z
  <2>1. c \in bbs /\ s \in bbs /\ s \in Block /\ c \in Preds(s)
    BY <1>1 DEF GraphOK, Succs, Range
  <2>2. /\ \A x : x \in uses[s] <=> x \in ExposedIn(s)
        /\ \A x : x \in defs[s] <=> x \in KilledIn(s) /\ x \notin ExposedIn(s)
        /\ PhiSays(phiFrom[s], s)
    BY <1>1, <2>1 DEF SetsOf
  <2>3. liveIn[s] \subseteq liveOut[c] /\ PhiUses(s, c) \subseteq liveOut[c]
    BY <1>2, <2>1 DEF Swept
  <2>4. uses[s] \subseteq liveIn[s] /\ liveOut[s] \ defs[s] \subseteq liveIn[s]
    BY <1>2, <2>1 DEF Swept
  <2>5. PhiOperands(s, c) \subseteq PhiUses(s, c)
    BY <1>1, <2>1, <2>2, PhiUsesFacts
  <2>. QED
    BY <1>3, <2>1, <2>2, <2>3, <2>4, <2>5
<1>5. b \in Block /\ Backwards(Z, o)
  BY <1>1, <1>4 DEF Backwards
<1>6. b \in Z
  BY <1>1, <1>5, LiveAfterFacts
<1>. QED
  BY <1>3, <1>6

LEMMA EndSweepKeeps ==
  ASSUME AnalysisInv, EndSweep, UNCHANGED <<graphVars, mem2regVars>>
  PROVE  AnalysisInv'
<1>1. /\ apc = "in_out" /\ cur > MaxBlocks
      /\ uses' = uses /\ defs' = defs /\ phiFrom' = phiFrom /\ liveOut' = liveOut /\ phiOrder' = phiOrder
  BY DEF EndSweep
<1>2. /\ bbs' = bbs /\ pre' = pre /\ succ' = succ /\ code' = code /\ phis' = phis /\ phiOps' = phiOps
  BY DEF graphVars, mem2regVars
<1>3. /\ Given /\ AnalysisTypes /\ BlocksScanned
      /\ \A b \in bbs : Sound(b) /\ SetsOf(b, uses[b], defs[b], phiFrom[b])
  BY <1>1 DEF AnalysisInv, BlocksScanned
<1>4. bbs \subseteq Block
  BY <1>3 DEF Given, GraphOK
<1>5. /\ Given'
      /\ \A b : PhisApart(b)' <=> PhisApart(b)
      /\ \A b, o : /\ LiveAfter(b, o)' <=> LiveAfter(b, o)
                   /\ o \in ExposedIn(b)' <=> o \in ExposedIn(b)
                   /\ o \in KilledIn(b)' <=> o \in KilledIn(b)
  BY <1>2, <1>3, FunctionStays
<1>6. \A b \in bbs : SetsOf(b, uses[b], defs[b], phiFrom[b])'
  <2>1. ASSUME NEW b \in bbs
        PROVE  SetsOf(b, uses[b], defs[b], phiFrom[b])'
    <3>1. PICK u, d, p : u = uses[b] /\ d = defs[b] /\ p = phiFrom[b]
      OBVIOUS
    <3>2. SetsOf(b, u, d, p)'
      BY <1>2, <1>3, <3>1, FunctionStays
    <3>. QED
      BY <1>1, <3>1, <3>2
  <2>. QED
    BY <2>1
<1>7. CASE grown
  <2>1. apc' = "in_out" /\ cur' = Entry /\ liveIn' = liveIn
    BY <1>1, <1>7 DEF EndSweep
  <2>2. Entry \in 1..MaxBlocks + 1 /\ \A b \in Block : ~(b < Entry)
    BY BoundsAssumption DEF Entry, Block
  <2>3. AnalysisTypes'
    BY <1>1, <1>3, <2>1, <2>2 DEF AnalysisTypes
  <2>4. BlocksScanned'
    BY <1>2, <1>6, <2>1 DEF BlocksScanned
  <2>5. \A b \in bbs : Sound(b)'
    BY <1>1, <1>3, <1>5, <2>1 DEF Sound
  <2>6. LiveOutIsLiveness'
    BY <2>1 DEF LiveOutIsLiveness
  <2>. QED
    BY <1>2, <1>4, <1>5, <2>1, <2>2, <2>3, <2>4, <2>5, <2>6 DEF AnalysisInv
<1>8. CASE ~grown
  <2>1. /\ apc' = "end" /\ cur' = cur
        /\ liveIn' = [b \in Block |-> liveIn[b] \cup {o \in Followed : phiFrom[b][o] # NoBlock}]
    BY <1>1, <1>8 DEF EndSweep
  <2>2. liveIn' \in [Block -> SUBSET Followed]
    <3>1. \A b \in Block : liveIn[b] \subseteq Followed
      BY <1>3 DEF AnalysisTypes
    <3>. QED
      BY <2>1, <3>1
  <2>3. AnalysisTypes'
    BY <1>1, <1>3, <2>1, <2>2 DEF AnalysisTypes
  <2>4. BlocksScanned'
    BY <1>2, <1>6, <2>1 DEF BlocksScanned
  <2>5. ASSUME NEW b \in bbs
        PROVE  /\ \A o \in liveOut[b] : LiveAfter(b, o)
               /\ (\A c \in bbs : PhisApart(c)) => \A o \in Followed : LiveAfter(b, o) => o \in liveOut[b]
    BY <1>1, <1>3, <1>8, NothingIsMissing DEF Sound
  <2>6. ASSUME NEW b \in bbs
        PROVE  /\ \A o \in liveOut'[b] : LiveAfter(b, o)'
               /\ (\A c \in bbs : PhisApart(c)') => \A o \in Followed : LiveAfter(b, o)' => o \in liveOut'[b]
    BY <1>1, <1>5, <2>5
  <2>7. LiveOutIsLiveness'
    BY <1>2, <2>6 DEF LiveOutIsLiveness
  <2>. QED
    BY <1>5, <2>1, <2>3, <2>4, <2>7 DEF AnalysisInv
<1>. QED
  BY <1>7, <1>8

LEMMA AnalysisStays ==
  ASSUME AnalysisInv, UNCHANGED <<graphVars, mem2regVars, activeVars>>
  PROVE  AnalysisInv'
<1>1. /\ bbs' = bbs /\ pre' = pre /\ succ' = succ /\ code' = code /\ phis' = phis /\ phiOps' = phiOps
      /\ apc' = apc /\ cur' = cur /\ uses' = uses /\ defs' = defs /\ phiFrom' = phiFrom
      /\ liveIn' = liveIn /\ liveOut' = liveOut /\ grown' = grown /\ phiOrder' = phiOrder
  BY DEF graphVars, mem2regVars, activeVars
<1>2. /\ Given /\ AnalysisTypes /\ BlocksScanned /\ LiveOutIsLiveness
      /\ apc = "in_out" => \A b \in bbs : Sound(b) /\ (~grown /\ b < cur => Swept(b))
  BY DEF AnalysisInv
<1>3. /\ Given'
      /\ \A b : Succs(b)' = Succs(b)
      /\ \A b : PhisApart(b)' <=> PhisApart(b)
      /\ \A b, o : /\ LiveAfter(b, o)' <=> LiveAfter(b, o)
                   /\ o \in ExposedIn(b)' <=> o \in ExposedIn(b)
                   /\ o \in KilledIn(b)' <=> o \in KilledIn(b)
  BY <1>1, <1>2, FunctionStays
<1>4. AnalysisTypes'
  BY <1>1, <1>2 DEF AnalysisTypes
<1>5. BlocksScanned'
  <2>1. ASSUME NEW b \in bbs, apc # "use_def" \/ b < cur
        PROVE  SetsOf(b, uses[b], defs[b], phiFrom[b])'
    <3>1. PICK u, d, p : u = uses[b] /\ d = defs[b] /\ p = phiFrom[b]
      OBVIOUS
    <3>2. SetsOf(b, u, d, p)'
      BY <1>1, <1>2, <2>1, <3>1, FunctionStays DEF BlocksScanned
    <3>. QED
      BY <1>1, <3>1, <3>2
  <2>. QED
    BY <1>1, <1>2, <2>1 DEF BlocksScanned
<1>6. \A b, s : PhiUses(s, b)' = PhiUses(s, b)
  BY <1>1 DEF PhiUses
<1>7. \A b : Sound(b) => Sound(b)'
  BY <1>1, <1>3 DEF Sound
<1>8. \A b : Swept(b) => Swept(b)'
  BY <1>1, <1>3, <1>6 DEF Swept
<1>9. LiveOutIsLiveness'
  BY <1>1, <1>2, <1>3 DEF LiveOutIsLiveness
<1>. QED
  BY <1>1, <1>2, <1>3, <1>4, <1>5, <1>7, <1>8, <1>9 DEF AnalysisInv
----------------------------------------------------------------------------
(***************************************************************************)
(* The builder, Mem2Reg and the analysis.                                  *)
(***************************************************************************)
Building   == RInv /\ Mem2RegInit /\ ActiveInit
Optimising == Done /\ ActiveInit /\ mpc # "idle" /\ GraphOK /\ PassInv
Analysing  == Done /\ mpc = "end" /\ AnalysisInv

\* One of these is what holds.
Inv == Building \/ Optimising \/ Analysing

LEMMA BuildKeeps == Inv /\ Build => Inv'
<1>. SUFFICES ASSUME Inv, Build PROVE Building'
  BY DEF Inv
<1>1. BuilderNext /\ UNCHANGED <<mem2regVars, activeVars>>
  BY DEF Build, BuilderNext
<1>2. Building
  BY <1>1, BuilderIsOver DEF Inv, Optimising, Analysing
<1>3. RInv'
  BY <1>1, <1>2, NextReducible DEF Building
<1>. QED
  BY <1>1, <1>2, <1>3 DEF Building, Mem2RegInit, ActiveInit, mem2regVars, activeVars

\* A step of Mem2Reg.
LEMMA OptimiseKeeps == Inv /\ Optimise => Inv'
<1>. SUFFICES ASSUME Inv, Optimise PROVE Optimising'
  BY DEF Inv
<1>1. Done /\ Mem2RegNext /\ UNCHANGED <<builderVars, activeVars>>
  BY DEF Optimise
<1>2. Done' /\ (ActiveInit => ActiveInit')
  BY <1>1 DEF Done, builderVars, activeVars, ActiveInit
<1>3. mpc # "end" /\ mpc' # "idle"
  BY <1>1 DEF Mem2RegNext, StartMem2Reg, GeneratePhi, RenameEntry, RenameChild, LeaveRename,
              RemoveAlloca, EnterRename
<1>4. ActiveInit /\ GraphOK /\ PassInv
  <2>1. Building => GraphOK /\ PassInv
    BY GraphFacts, PassBegins DEF Building, RInv, EInv, IInv, BuilderTypeOK
  <2>. QED
    BY <1>3, <2>1 DEF Inv, Building, Optimising, Analysing
<1>5. PassInv' /\ GraphOK'
  BY <1>1, <1>4, PassKeeps, EdgesStay
<1>. QED
  BY <1>2, <1>3, <1>4, <1>5 DEF Optimising

\* A step of the analysis.
LEMMA AnalyseKeeps == Inv /\ Analyse => Inv'
<1>. SUFFICES ASSUME Inv, Analyse PROVE Analysing'
  BY DEF Inv
<1>1. ActiveNext /\ UNCHANGED builderVars /\ UNCHANGED <<graphVars, mem2regVars>>
  BY DEF Analyse
<1>2. (Done' <=> Done) /\ mpc' = mpc
  BY <1>1 DEF Done, builderVars, mem2regVars
<1>3. CASE StartActiveVars
  <2>1. Optimising /\ mpc = "end"
    BY <1>3 DEF Inv, Building, Optimising, Analysing, Mem2RegInit, AnalysisInv, StartActiveVars
  <2>2. Given
    BY <2>1 DEF Optimising, PassInv, PassTypes, Given
  <2>3. AnalysisInv'
    BY <1>1, <1>3, <2>1, <2>2, StartKeepsAnalysis DEF Optimising
  <2>. QED
    BY <1>2, <2>1, <2>3 DEF Optimising, Analysing
<1>4. CASE ScanBlock \/ StartSweeps \/ SweepBlock \/ EndSweep
  <2>1. apc # "idle"
    BY <1>4 DEF ScanBlock, StartSweeps, SweepBlock, EndSweep
  <2>2. Done /\ mpc = "end" /\ AnalysisInv
    BY <2>1 DEF Inv, Building, Optimising, Analysing, ActiveInit
  <2>3. AnalysisInv'
    BY <1>1, <1>4, <2>2, ScanBlockKeeps, StartSweepsKeeps, SweepBlockKeeps, EndSweepKeeps
  <2>. QED
    BY <1>2, <2>2, <2>3 DEF Analysing
<1>. QED
  BY <1>1, <1>3, <1>4 DEF ActiveNext

LEMMA NothingMoves == Inv /\ UNCHANGED vars => Inv'
<1>. SUFFICES ASSUME Inv, UNCHANGED vars PROVE Inv'
  OBVIOUS
<1>1. UNCHANGED <<graphVars, builderVars, mem2regVars, activeVars>>
  BY DEF vars
<1>2. UNCHANGED builderAndGraph /\ UNCHANGED <<mem2regVars, graphVars>>
  BY <1>1 DEF builderAndGraph
<1>3. (Done' <=> Done) /\ mpc' = mpc /\ (Mem2RegInit => Mem2RegInit') /\ (ActiveInit => ActiveInit')
  BY <1>1 DEF Done, builderVars, mem2regVars, activeVars, Mem2RegInit, ActiveInit
<1>4. CASE Building
  BY <1>2, <1>3, <1>4, NextReducible DEF Building, Inv
<1>5. CASE Optimising
  <2>1. GraphOK'
    BY <1>2, <1>5, EdgesStay DEF Optimising, graphVars
  <2>2. PassInv'
    BY <1>2, <1>5, PassStays DEF Optimising
  <2>. QED
    BY <1>3, <1>5, <2>1, <2>2 DEF Optimising, Inv
<1>6. CASE Analysing
  BY <1>1, <1>3, <1>6, AnalysisStays DEF Analysing, Inv
<1>. QED
  BY <1>4, <1>5, <1>6 DEF Inv

LEMMA InitBuilding == Init => Inv
BY InitReducible DEF Init, Inv, Building
----------------------------------------------------------------------------
\* The analysis keeps its invariant on every function that Mem2Reg leaves: the
\* sets of a block are those of its instructions, live_in and live_out hold
\* only what is live, and the equations hold at the blocks of a sweep that has
\* changed nothing yet.
THEOREM AnalysisInvariant == Spec => []Inv
<1>1. Inv /\ [Next]_vars => Inv'
  BY BuildKeeps, OptimiseKeeps, AnalyseKeeps, NothingMoves DEF Next
<1>. QED
  BY <1>1, InitBuilding, PTL DEF Spec

\* live_out at the end of ActiveVars is liveness: no value in it that no path
\* uses, and every value that some path uses if the phis are apart.
THEOREM AnalysisIsLiveness == Spec => []LiveOutIsLiveness
<1>1. Inv => LiveOutIsLiveness
  BY DEF Inv, Building, Optimising, Analysing, AnalysisInv, ActiveInit, LiveOutIsLiveness
<1>. QED
  BY <1>1, AnalysisInvariant, PTL
=============================================================================

------------------------------ MODULE ActiveVars ------------------------------
(***************************************************************************)
(* The ActiveVars pass, src/src/optimization/ActiveVars.cpp, on a function *)
(* that Mem2Reg has left: what each block uses before it defines it, what  *)
(* it defines, and where the operands of its phis come from; then live_in  *)
(* and live_out by iteration to a fixpoint.  The function is only read.    *)
(*                                                                         *)
(* Followed are the results of loads and calls, the phis and the allocas   *)
(* that loads and stores still name; the pass leaves constants out, and    *)
(* the model the values it does not follow.                                *)
(***************************************************************************)
EXTENDS Mem2Reg, Integers

VARIABLES
  apc,        \* "idle" before the pass, "use_def", "in_out", "end" after it
  cur,        \* the block of the loop
  uses, defs, \* use, def
  phiFrom,    \* phi_val_bb: the predecessor of a phi operand, NoBlock for no entry
  liveIn, liveOut,
  grown,      \* whether_change
  phiOrder    \* the order of the variables' phis in every block

activeVars == <<apc, cur, uses, defs, phiFrom, liveIn, liveOut, grown, phiOrder>>

Alloca(v) == 0 - v
Allocas   == {Alloca(v) : v \in Vars}
Defined   == {Result(i) : i \in 1..MaxInstrs} \cup {PhiOf(b, v) : b \in Block, v \in Vars}
Followed  == Allocas \cup Defined

ActiveInit ==
  /\ apc = "idle" /\ cur = 0 /\ grown = FALSE
  /\ uses = [b \in Block |-> {}] /\ defs = [b \in Block |-> {}]
  /\ phiFrom = [b \in Block |-> [o \in Followed |-> NoBlock]]
  /\ liveIn = [b \in Block |-> {}] /\ liveOut = [b \in Block |-> {}]
  /\ phiOrder = << >>

\* run: live_in and live_out are cleared.  Mem2Reg made the phis variable by
\* variable, in the order of a set of pointers, each at the front of its block.
StartActiveVars ==
  /\ apc = "idle" /\ mpc = "end"
  /\ apc' = "use_def" /\ cur' = Entry
  /\ phiOrder' \in Bijection(Vars, Vars)
  /\ UNCHANGED <<uses, defs, phiFrom, liveIn, liveOut, grown>>

\* the block after cur in the list of blocks, or an end
NextInList == LET rest == {b \in bbs : b > cur} IN IF rest = {} THEN MaxBlocks + 1 ELSE Min(rest)
----------------------------------------------------------------------------
(***************************************************************************)
(* The uses and definitions of a block, in the state st of its sets.       *)
(***************************************************************************)
Use(st, o) == IF o \notin Followed \/ o \in st.def THEN st ELSE [st EXCEPT !.use = @ \cup {o}]
Def(st, o) == IF o \notin Followed \/ o \in st.use THEN st ELSE [st EXCEPT !.def = @ \cup {o}]

\* a store uses its value and defines its address, a load the other way round
ScanInstr(st, i) ==
  CASE i.op = "load"  -> Def(Use(st, Alloca(i.var)), Result(i.id))
    [] i.op = "store" -> Def(Use(st, i.arg), Alloca(i.var))
    [] i.op \in {"call", "alloca"} -> Def(Use(st, i.arg), Result(i.id))
    [] OTHER          -> Use(st, i.arg)

\* The operands of a phi that are not defined yet go to phi_val_bb, a map
\* keyed by the value: of two predecessors with one value the later stays.
PhiValBb(st, pairs) ==
  [o \in Followed |->
     LET of == {k \in DOMAIN pairs : pairs[k].val = o}
     IN  IF of = {} \/ o \in st.def \cup st.use THEN st.phi[o] ELSE pairs[Max(of)].bb]

\* Faulty variant: a phi is not entered as a definition.
ScanPhiNoDef(st, b, v) == [st EXCEPT !.phi = PhiValBb(st, phiOps[b][v])]

\* one phi
ScanPhi(st, b, v) == Def([st EXCEPT !.phi = PhiValBb(st, phiOps[b][v])], PhiOf(b, v))

\* the variables of the phis of b, in their order
PhiVarsOf(b) == Keep(phiOrder, LAMBDA v : <<b, v>> \in phis)

Scanned(b) ==
  LET atStart == [use |-> {}, def |-> {}, phi |-> phiFrom[b]]
      atCode  == FoldLeft(LAMBDA st, v : ScanPhi(st, b, v), atStart, PhiVarsOf(b))
  IN  FoldLeft(ScanInstr, atCode, code[b])

\* one block of the first loop
ScanBlock ==
  /\ apc = "use_def" /\ cur <= MaxBlocks
  /\ LET st == Scanned(cur)
     IN  /\ uses' = [uses EXCEPT ![cur] = st.use]
         /\ defs' = [defs EXCEPT ![cur] = st.def]
         /\ phiFrom' = [phiFrom EXCEPT ![cur] = st.phi]
  /\ cur' = NextInList
  /\ UNCHANGED <<apc, liveIn, liveOut, grown, phiOrder>>

StartSweeps ==
  /\ apc = "use_def" /\ cur > MaxBlocks
  /\ apc' = "in_out" /\ cur' = Entry /\ grown' = FALSE
  /\ UNCHANGED <<uses, defs, phiFrom, liveIn, liveOut, phiOrder>>
----------------------------------------------------------------------------
\* the values that a phi of s takes when control comes from b
PhiUses(s, b) == {o \in Followed : phiFrom[s][o] = b}

\* live_out of a block: it only grows
Out(b) == liveOut[b] \cup UNION {liveIn[s] \cup PhiUses(s, b) : s \in Succs(b)}

\* Faulty variant: the sizes are compared before the uses are inserted.
SweepBlockComparesEarly ==
  /\ apc = "in_out" /\ cur <= MaxBlocks
  /\ LET out  == Out(cur)
         rest == (liveIn[cur] \cup out) \ defs[cur]
     IN  /\ liveOut' = [liveOut EXCEPT ![cur] = out]
         /\ liveIn' = [liveIn EXCEPT ![cur] = rest \cup uses[cur]]
         /\ grown' = (grown \/ Cardinality(rest \ uses[cur]) # Cardinality(liveIn[cur]))
  /\ cur' = NextInList
  /\ UNCHANGED <<apc, uses, defs, phiFrom, phiOrder>>

\* one block of while (whether_change); live_in counts as changed by its size
SweepBlock ==
  /\ apc = "in_out" /\ cur <= MaxBlocks
  /\ LET out == Out(cur)
         in  == ((liveIn[cur] \cup out) \ defs[cur]) \cup uses[cur]
     IN  /\ liveOut' = [liveOut EXCEPT ![cur] = out]
         /\ liveIn' = [liveIn EXCEPT ![cur] = in]
         /\ grown' = (grown \/ Cardinality(in) # Cardinality(liveIn[cur]))
  /\ cur' = NextInList
  /\ UNCHANGED <<apc, uses, defs, phiFrom, phiOrder>>

\* Faulty variant: one sweep is made.
EndSweepAtOnce ==
  /\ apc = "in_out" /\ cur > MaxBlocks
  /\ apc' = "end"
  /\ liveIn' = [b \in Block |-> liveIn[b] \cup {o \in Followed : phiFrom[b][o] # NoBlock}]
  /\ UNCHANGED <<cur, uses, defs, phiFrom, liveOut, grown, phiOrder>>

\* another sweep, or the end: the operands of its phis enter live_in of a block
EndSweep ==
  /\ apc = "in_out" /\ cur > MaxBlocks
  /\ IF grown
     THEN /\ cur' = Entry /\ grown' = FALSE
          /\ UNCHANGED <<apc, liveIn>>
     ELSE /\ apc' = "end"
          /\ liveIn' = [b \in Block |->
                          liveIn[b] \cup {o \in Followed : phiFrom[b][o] # NoBlock}]
          /\ UNCHANGED <<cur, grown>>
  /\ UNCHANGED <<uses, defs, phiFrom, liveOut, phiOrder>>

ActiveNext == StartActiveVars \/ ScanBlock \/ StartSweeps \/ SweepBlock \/ EndSweep
----------------------------------------------------------------------------
(***************************************************************************)
(* Liveness from the paths of the function, without the sets of the pass.  *)
(***************************************************************************)
UsesOf(i) == {IF i.op = "load" THEN Alloca(i.var) ELSE i.arg} \cap Followed
DefsOf(i) == CASE i.op \in {"load", "call", "alloca"} -> {Result(i.id)} \cap Followed
               [] i.op = "store" -> {Alloca(i.var)}
               [] OTHER -> {}

PhisOf(b)   == {p \in phis : p[1] = b}
PhisValues(b) == {PhiOf(p[1], p[2]) : p \in PhisOf(b)}
KilledIn(b) == PhisValues(b) \cup UNION {DefsOf(code[b][i]) : i \in DOMAIN code[b]}
ExposedIn(b) ==
  UNION {UsesOf(code[b][i]) \ (PhisValues(b) \cup UNION {DefsOf(code[b][j]) : j \in 1..i - 1})
           : i \in DOMAIN code[b]}

\* the values phis of s take from b, as their operands say
PhiOperands(s, b) ==
  {p.val : p \in {q \in UNION {Range(phiOps[s][v[2]]) : v \in PhisOf(s)} : q.bb = b}}
    \cap Followed

(* o is used after the end of b before it is defined again: some path from  *)
(* b runs through blocks that do not define o, and then into a block that   *)
(* uses it, or a phi of which takes it on this path.                        *)
LiveAfter(b, o) ==
  LET through[n \in Nat] ==
        IF n = 0 THEN {b}
        ELSE LET near == through[n - 1]
             IN  near \cup {c \in UNION {Succs(d) : d \in near} : o \notin KilledIn(c)}
  IN  \E c \in through[MaxBlocks] : \E s \in Succs(c) :
        o \in ExposedIn(s) \cup PhiOperands(s, c)

(* The phis of a block are apart: none takes a value from both predecessors *)
(* of the block, and none takes another phi of the block.                   *)
PhisApart(b) ==
  /\ \A p, q \in Preds(b) : p # q => PhiOperands(b, p) \cap PhiOperands(b, q) = {}
  /\ \A v \in PhisOf(b) :
       {p.val : p \in Range(phiOps[b][v[2]])} \cap PhisValues(b) \subseteq {PhiOf(b, v[2])}
----------------------------------------------------------------------------
(***************************************************************************)
(* Properties                                                              *)
(***************************************************************************)

(* The analysis answers liveness: live_out never holds a value that no path *)
(* uses, and in a function whose phis are apart it holds every value that   *)
(* some path uses, however the loops nest.                                  *)
LiveOutIsLiveness ==
  apc = "end" =>
    \A b \in bbs :
      /\ \A o \in liveOut[b] : LiveAfter(b, o)
      /\ (\A c \in bbs : PhisApart(c)) =>
           \A o \in Followed \ liveOut[b] : ~LiveAfter(b, o)

(* No result of an instruction and no phi is live where the function begins *)
(* once Mem2Reg and this pass have run: on every path a value is defined    *)
(* before it is used, phi operands included.                                *)
NothingLiveAtEntry == apc = "end" => liveIn[Entry] \cap Defined = {}

(* OUT[B] takes in, for every successor S, the operands of the phis of S    *)
(* that are labelled B.                                                     *)
PhiOperandsLiveOut ==
  apc = "end" => \A b \in bbs : \A s \in Succs(b) : PhiOperands(s, b) \subseteq liveOut[b]
=============================================================================

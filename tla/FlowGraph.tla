----------------------------- MODULE FlowGraph -----------------------------
(***************************************************************************)
(* The control-flow graph of one function of the LightIR:                  *)
(* src/src/lightir/{Function,BasicBlock,Instruction}.cpp.  A basic block   *)
(* is the number of its creation, so Function::basic_blocks_, a list in    *)
(* creation order, is represented by the set bbs.  The lists pre_bbs_ and  *)
(* succ_bbs_ that every BasicBlock keeps by hand, beside the branch at the *)
(* end of its instr_list_, are the sequences pre[b] and succ[b].           *)
(***************************************************************************)
EXTENDS Naturals, Sequences, FiniteSets, Functions

CONSTANTS
  MaxBlocks,   \* bound: blocks one function may create
  MaxInstrs,   \* bound: loads, stores, calls and arrays one function may contain
  NumVars,     \* local scalar variables (their allocas) of the function
  InstrCost,   \* bound: what an instruction costs, in blocks
  Budget       \* bound: the blocks and the cost of the instructions together

ASSUME BoundsAssumption == /\ MaxBlocks \in Nat \ {0} /\ MaxInstrs \in Nat
                    /\ NumVars \in Nat
                    /\ InstrCost \in Nat /\ Budget \in Nat

Vars    == 1..NumVars
NoVar   == 0                \* the variable of an instruction that has none
Block   == 1..MaxBlocks
Entry   == 1                \* get_entry_block(): the first of the list
NoBlock == 0                \* nullptr

(***************************************************************************)
(* Operands: the Value* an instruction uses.  Opaque is one that no pass   *)
(* of the model follows (an array element, a global, a constant whose      *)
(* value does not matter); then come the results of instructions, literal  *)
(* constants, and the phi that Mem2Reg may give a block for a variable.    *)
(***************************************************************************)
Opaque       == 0
Result(i)    == i
Literal(i)   == MaxInstrs + i
PhiOf(b, v)  == 2 * MaxInstrs + (v - 1) * MaxBlocks + b
Operand      == 0..(2 * MaxInstrs + NumVars * MaxBlocks)
IsLiteral(o) == o > MaxInstrs /\ o <= 2 * MaxInstrs

VARIABLES
  bbs,    \* Function::basic_blocks_
  pre,    \* BasicBlock::pre_bbs_
  succ,   \* BasicBlock::succ_bbs_
  code    \* BasicBlock::instr_list_

graphVars == <<bbs, pre, succ, code>>

(***************************************************************************)
(* Instructions.  id identifies a load, store, call or the alloca of an    *)
(* array (its Instruction* and, but for a store, the value it produces),   *)
(* var is the scalar a load or store goes to, arg the operand, tgt the     *)
(* targets of a branch.  An element address (the check of its index, the   *)
(* gep and its load) has two operands and keeps one: its index, or the     *)
(* alloca of its array.                                                    *)
(***************************************************************************)
Access == [op : {"load", "store"}, id : 1..MaxInstrs, var : Vars,
           arg : Operand, tgt : {<< >>}]
Branch == [op : {"br"}, id : {Opaque}, var : {NoVar}, arg : Operand,
           tgt : {<<t>> : t \in Block} \cup {t \in Block \X Block : t[1] # t[2]}]
Other  == [op : {"elem", "ret"}, id : {Opaque}, var : {NoVar}, arg : Operand, tgt : {<< >>}]
Instr  == Access \cup Branch \cup Other
            \cup [op : {"call", "alloca"}, id : 0..MaxInstrs, var : {NoVar}, arg : Operand, tgt : {<< >>}]

Ins(op, id, var, arg, tgt) ==
  [op |-> op, id |-> id, var |-> var, arg |-> arg, tgt |-> tgt]

Load(i, v)      == Ins("load",  i, v, Opaque, << >>)
Store(i, v, a)  == Ins("store", i, v, a, << >>)
Call(i, a)      == Ins("call",  i, NoVar, a, << >>)
ArrayAlloca(i)  == Ins("alloca", i, NoVar, Opaque, << >>)
Elem(a)         == Ins("elem",  Opaque, NoVar, a, << >>)
Br(t)           == Ins("br",    Opaque, NoVar, Opaque, <<t>>)
CondBr(c, t, f) == Ins("br",    Opaque, NoVar, c, <<t, f>>)
Ret(a)          == Ins("ret",   Opaque, NoVar, a, << >>)

IsTerminator(i) == i.op \in {"br", "ret"}

(* BasicBlock::get_terminator() != nullptr: only the last instruction is    *)
(* looked at.                                                               *)
Terminated(b) == code[b] # << >> /\ IsTerminator(code[b][Len(code[b])])

(***************************************************************************)
(* List operations, on functions from blocks to lists so that a handler    *)
(* can chain them.                                                         *)
(***************************************************************************)
\* add_pre_basic_block / add_succ_basic_block / add_instruction: push_back
PushBack(lists, b, x) == [lists EXCEPT ![b] = Append(@, x)]

\* The elements of s that pass the test, in their order (SelectSeq as a
\* recursive function, which can be reasoned about).
Keep(s, Test(_)) ==
  LET kept[n \in 0..Len(s)] ==
        IF n = 0 THEN << >>
        ELSE IF Test(s[n]) THEN Append(kept[n - 1], s[n]) ELSE kept[n - 1]
  IN  kept[Len(s)]

\* remove_pre_basic_block / remove_succ_basic_block: list::remove, all equal ones
Unlink(lists, owners, x) ==
  [b \in Block |-> IF b \in owners THEN Keep(lists[b], LAMBDA y : y # x)
                                   ELSE lists[b]]

Succs(b) == Range(succ[b])
Preds(b) == Range(pre[b])

(***************************************************************************)
(* Reference notions, from the graph alone.  ReachAvoid(r, a) is the set   *)
(* of blocks on a path from r that does not enter a.                       *)
(***************************************************************************)
ReachAvoid(r, a) ==
  LET within[n \in Nat] ==
        IF n = 0 THEN {r} \ {a}
        ELSE UNION {{b} \cup (Succs(b) \ {a}) : b \in within[n - 1]}
  IN  within[MaxBlocks]

Reachable == ReachAvoid(Entry, NoBlock)

\* the blocks one edge or more away from b, next being the edges
Onward(next, b) ==
  LET within[n \in Nat] ==
        IF n = 0 THEN next[b]
        ELSE UNION {{c} \cup next[c] : c \in within[n - 1]}
  IN  within[MaxBlocks]

\* <<a, b>>: a is on every path from the entry to the reachable block b
Dominance ==
  LET reach == Reachable
  IN  (reach \X reach) \ UNION {{a} \X ReachAvoid(Entry, a) : a \in reach}

Dominates(a, b) == a = b \/ b \notin ReachAvoid(Entry, a)

\* <<a, b>>: a is the closest block that dominates b and is not b
RefIdoms(dom) ==
  {e \in dom : /\ e[1] # e[2]
               /\ \A c \in dom : c[2] = e[2] /\ c[1] # e[2] => <<c[1], e[1]>> \in dom}

\* <<b, j>>: the dominance of b ends at the join j
RefFrontiers(dom) ==
  UNION {LET above(p) == {e[1] : e \in {d \in dom : d[2] = p}}
         IN  {<<b, j>> : b \in {a \in UNION {above(p) : p \in Preds(j)} :
                                  a = j \/ <<a, j>> \notin dom}}
           : j \in Reachable}

(* Of a block that execution cannot reach (no path says what it dominates)  *)
(* the frontier is the joins it branches to.                                *)
DeadFrontiers ==
  {e \in (bbs \ Reachable) \X bbs : e[2] \in Succs(e[1]) /\ Len(pre[e[2]]) >= 2}

(* A join that execution can reach and one of whose predecessors it cannot. *)
HalfDeadJoin ==
  \E j \in Reachable : Len(pre[j]) >= 2 /\ ~(Preds(j) \subseteq Reachable)
=============================================================================

------------------------------ MODULE Mem2Reg ------------------------------
(***************************************************************************)
(* The Mem2Reg pass, src/src/optimization/Mem2Reg.cpp, on one function:    *)
(* phi placement on iterated dominance frontiers, renaming by a walk of    *)
(* the dominator tree with one stack of values per variable, removal of    *)
(* the allocas.  What Dominators computes is taken from its definition     *)
(* (module Dominators shows that the pass computes it).                    *)
(*                                                                         *)
(* A step of the renaming is one call of re_name up to its recursion       *)
(* (steps 3 to 6 of the code) or after it (step 7 and the deletions).      *)
(***************************************************************************)
EXTENDS FlowGraph, SequencesExt

VARIABLES
  mpc,        \* the function of the pass that runs; "idle" before, "end" after,
              \* "abort" when an assertion fails, "undefined" when the program
              \* reads past the end of a vector
  df,         \* dominators_->get_dominance_frontier
  children,   \* dominators_->get_dom_tree_succ_blocks
  phis,       \* bb_has_var_phi: the <<block, variable>> that have a phi
  phiOps,     \* the operand pairs of each phi, in their order
  stacks,     \* var_val_stack
  known,      \* the keys of var_val_stack
  calls,      \* the calls of re_name: block, children to visit, wait_delete
  source      \* history: the instructions before the pass

mem2regVars == <<mpc, df, children, phis, phiOps, stacks, known, calls, source>>

PhiPair == [val : Operand, bb : Block]

Mem2RegInit ==
  /\ mpc = "idle"
  /\ df = [b \in Block |-> {}] /\ children = [b \in Block |-> {}]
  /\ phis = {} /\ phiOps = [b \in Block |-> [v \in Vars |-> << >>]]
  /\ stacks = [v \in Vars |-> << >>] /\ known = {}
  /\ calls = << >>
  /\ source = [b \in Block |-> << >>]

\* run: dominators_->run(), which returns only when no join is half dead
StartMem2Reg ==
  /\ mpc = "idle" /\ ~HalfDeadJoin
  /\ mpc' = "generate_phi"
  /\ LET dom  == Dominance
         ends == RefFrontiers(dom) \cup DeadFrontiers
         idom == RefIdoms(dom)
     IN  /\ df' = [b \in Block |-> {e[2] : e \in {d \in ends : d[1] = b}}]
         /\ children' = [b \in Block |-> {e[2] : e \in {d \in idom : d[1] = b}}]
  /\ source' = code
  /\ UNCHANGED <<phis, phiOps, stacks, known, calls, graphVars>>
----------------------------------------------------------------------------
Stores(b, v) == {i \in DOMAIN code[b] : code[b][i].op = "store" /\ code[b][i].var = v}

\* Faulty variant: a block that gets a phi is not added to the work list.
PhiBlocksOnce(v) == UNION {df[b] : b \in {c \in bbs : Stores(c, v) # {}}}

\* the blocks of step 2's work_list, in the end, that were added for a phi
PhiBlocks(v) ==
  LET stored == {b \in bbs : Stores(b, v) # {}}
      added[n \in Nat] ==
        IF n = 0 THEN {}
        ELSE LET list == stored \cup added[n - 1] IN UNION {df[b] : b \in list}
  IN  added[MaxBlocks]

\* generate_phi: every variable that is stored, whether it is live there or not
GeneratePhi ==
  /\ mpc = "generate_phi"
  /\ phis' = UNION {PhiBlocks(v) \X {v} : v \in Vars}
  /\ mpc' = "re_name"
  /\ UNCHANGED <<df, children, phiOps, stacks, known, calls, source, graphVars>>
----------------------------------------------------------------------------
(***************************************************************************)
(* re_name, steps 3 to 5, on the state st of the stacks: with is what each *)
(* replaced load is replaced by (replace_all_use_with), dead the           *)
(* instructions to delete.                                                 *)
(***************************************************************************)
Push(st, v, o) == [st EXCEPT !.stacks[v] = Append(@, o), !.known = @ \cup {v}]

\* Faulty variant: a store is not entered in wait_delete.
RenameInstrKeepsStore(st, i) ==
  CASE i.op = "load" /\ i.var \in st.known ->
         IF st.stacks[i.var] = << >> THEN [st EXCEPT !.emptyBack = TRUE]
         ELSE [st EXCEPT !.with[Result(i.id)] = Last(st.stacks[i.var]),
                         !.dead = @ \cup {i.id}]
    [] i.op = "store" -> Push(st, i.var, st.with[i.arg])
    [] OTHER -> st

\* one instruction of steps 4 and 5
RenameInstr(st, i) ==
  CASE i.op = "load" /\ i.var \in st.known ->
         IF st.stacks[i.var] = << >> THEN [st EXCEPT !.emptyBack = TRUE]
         ELSE [st EXCEPT !.with[Result(i.id)] = Last(st.stacks[i.var]),
                         !.dead = @ \cup {i.id}]
    [] i.op = "store" -> [Push(st, i.var, st.with[i.arg]) EXCEPT !.dead = @ \cup {i.id}]
    [] OTHER -> st

Renamed(b) ==
  LET phiVars == {v \in Vars : <<b, v>> \in phis}
      pushed  == [stacks |-> [v \in Vars |-> IF v \in phiVars
                                             THEN Append(stacks[v], PhiOf(b, v))
                                             ELSE stacks[v]],
                  known |-> known \cup phiVars,
                  with |-> [o \in Operand |-> o],
                  dead |-> {}, emptyBack |-> FALSE]
  IN  FoldLeft(RenameInstr, pushed, code[b])

\* delete_instr, for each instruction of wait_delete
Without(s, dead) == Keep(s, LAMBDA i : i.id = Opaque \/ i.id \notin dead)

\* replace_all_use_with, in the instructions and in the operands of the phis
UsesReplaced(with) ==
  [b \in Block |-> [i \in DOMAIN code[b] |->
                      [code[b][i] EXCEPT !.arg = with[@]]]]
PhiUsesReplaced(with) ==
  [b \in Block |-> [v \in Vars |-> [k \in DOMAIN phiOps[b][v] |->
                                      [phiOps[b][v][k] EXCEPT !.val = with[@]]]]]


\* step 6: the phis of the successors take the value the block ends with
ReachedPhis(b, st) == {p \in phis : p[1] \in Succs(b) /\ p[2] \in st.known}
Filled(ops, b, st) ==
  [c \in Block |-> [v \in Vars |->
     IF <<c, v>> \in ReachedPhis(b, st)
     THEN Append(ops[c][v], [val |-> Last(st.stacks[v]), bb |-> b])
     ELSE ops[c][v]]]

\* Faulty variant: the recursion is on the successors, not on the tree.
CallOnSuccessors(b, st) == [bb |-> b, todo |-> Succs(b), dead |-> st.dead]

\* the call when it comes to its recursion
CallOf(b, st) == [bb |-> b, todo |-> children[b], dead |-> st.dead]

(* A call of re_name up to its recursion; rest is the stack of its callers. *)
EnterRename(b, rest) ==
  LET st == Renamed(b)
  IN  /\ code' = UsesReplaced(st.with)
      /\ stacks' = st.stacks
      /\ known' = st.known
      /\ IF st.emptyBack
         THEN mpc' = "undefined" /\ UNCHANGED <<phiOps, calls>>
         ELSE IF \E p \in ReachedPhis(b, st) : st.stacks[p[2]] = << >>
         THEN mpc' = "abort" /\ UNCHANGED <<phiOps, calls>>
         ELSE /\ phiOps' = Filled(PhiUsesReplaced(st.with), b, st)
              /\ calls' = Append(rest, CallOf(b, st))
              /\ UNCHANGED mpc
      /\ UNCHANGED <<df, children, phis, source, bbs, pre, succ>>

\* run: re_name(func_->get_entry_block())
RenameEntry == mpc = "re_name" /\ calls = << >> /\ EnterRename(Entry, calls)

\* the recursion on dom_tree_succ_blocks, a std::set of pointers: any order
RenameChild ==
  /\ mpc = "re_name" /\ calls # << >>
  /\ \E c \in Last(calls).todo :
       EnterRename(c, [calls EXCEPT ![Len(calls)].todo = @ \ {c}])

\* step 7: how many values the block has pushed for v
Pops(b, v) == Cardinality(Stores(b, v)) + (IF <<b, v>> \in phis THEN 1 ELSE 0)

\* Faulty variant: step 7 pops the values of stores only.
LeaveRenameKeepsPhi ==
  /\ mpc = "re_name" /\ calls # << >> /\ Last(calls).todo = {}
  /\ LET call == Last(calls)
         b    == call.bb
     IN  /\ stacks' = [v \in Vars |-> SubSeq(stacks[v], 1,
                                             Len(stacks[v]) - Cardinality(Stores(b, v)))]
         /\ code' = [code EXCEPT ![b] = Without(@, call.dead)]
  /\ calls' = Front(calls)
  /\ mpc' = IF Len(calls) = 1 THEN "remove_alloca" ELSE mpc
  /\ UNCHANGED <<df, children, phis, phiOps, known, source, bbs, pre, succ>>

\* the end of a call: step 7, delete_instr of the loads and stores
LeaveRename ==
  /\ mpc = "re_name" /\ calls # << >> /\ Last(calls).todo = {}
  /\ LET call == Last(calls)
         b    == call.bb
     IN  /\ stacks' = [v \in Vars |-> SubSeq(stacks[v], 1, Len(stacks[v]) - Pops(b, v))]
         /\ code' = [code EXCEPT ![b] = Without(@, call.dead)]
  /\ calls' = Front(calls)
  /\ mpc' = IF Len(calls) = 1 THEN "remove_alloca" ELSE mpc
  /\ UNCHANGED <<df, children, phis, phiOps, known, source, bbs, pre, succ>>

\* remove_alloca: the allocas of all scalar variables go, used or not
RemoveAlloca ==
  /\ mpc = "remove_alloca"
  /\ mpc' = "end"
  /\ UNCHANGED <<df, children, phis, phiOps, stacks, known, calls, source, graphVars>>

Mem2RegNext ==
  \/ StartMem2Reg \/ GeneratePhi \/ RenameEntry \/ RenameChild \/ LeaveRename
  \/ RemoveAlloca
----------------------------------------------------------------------------
(***************************************************************************)
(* Properties                                                              *)
(***************************************************************************)

\* The types of the pass's variables.
Mem2RegTypeOK ==
  /\ mpc \in {"idle", "generate_phi", "re_name", "remove_alloca", "end", "abort", "undefined"}
  /\ df \in [Block -> SUBSET Block]
  /\ children \in [Block -> SUBSET Block]
  /\ phis \subseteq Block \X Vars
  /\ phiOps \in [Block -> [Vars -> Seq(PhiPair)]]
  /\ stacks \in [Vars -> Seq(Operand)]
  /\ known \subseteq Vars
  /\ calls \in Seq([bb : Block, todo : SUBSET Block, dead : SUBSET (1..MaxInstrs)])
  /\ Len(calls) <= MaxBlocks
  /\ code \in [Block -> Seq(Instr)]

(* The stack of a variable holds the values the calls of re_name in         *)
(* progress have pushed, and nothing of the subtrees that were left: so the *)
(* top is the value of the closest definition above, and all stacks are     *)
(* empty when the walk is over.                                             *)
StacksBalanced ==
  mpc \in {"re_name", "remove_alloca", "end"} =>
    \A v \in Vars :
      Len(stacks[v]) = FoldLeft(LAMBDA n, c : n + Pops(c.bb, v), 0, calls)

(* assert(var_val_stack[l_val].size()!=0), and the comment after it: when   *)
(* there is no value to give a phi, its parameter is undef.                 *)
PhiParameterAssertion == mpc # "abort"
=============================================================================

-------------------------- MODULE ConstPropagation --------------------------
(***************************************************************************)
(* The ConstPropagation pass, src/src/optimization/ConstPropagation.cpp,   *)
(* on one function, alone or after Mem2Reg: loads and stores of constants  *)
(* block by block, then the branches whose condition has become a          *)
(* constant, then the blocks that have no predecessor left.                *)
(*                                                                         *)
(* A condition is the last operand it compares; when that is Opaque the    *)
(* comparison is one of constants or not, which is chosen when the pass    *)
(* comes to it.  Whether a comparison of constants holds is chosen when    *)
(* the branch on it is folded: two comparisons of one literal may differ.  *)
(* The arithmetic of the folder is module ConstFolding.                     *)
(***************************************************************************)
EXTENDS Mem2Reg

VARIABLES
  cpc,        \* "idle" before the pass, "fold", "remove", "end" after it,
              \* "crash" when the program writes where it must not
  cur,        \* the block whose turn is next
  constBrs,   \* the blocks whose comparison was folded to a constant
  folded,     \* history: the blocks whose branch was folded, the operand of
              \* their condition and whether the condition is zero
  stale       \* history: a load was replaced by what another block stored

constVars == <<cpc, cur, constBrs, folded, stale>>

ConstInit ==
  /\ cpc = "idle" /\ cur = Entry
  /\ constBrs = {} /\ folded = << >> /\ stale = FALSE

\* the blocks from cur on, in the order of the list
Left == {b \in bbs : b >= cur}
FirstOf(bs) == CHOOSE b \in bs : \A c \in bs : b <= c
----------------------------------------------------------------------------
\* a load of a variable that has a constant in the map
LoadReplaced(st, i, b) ==
  [st EXCEPT !.with[Result(i.id)] = st.stored[i.var], !.dead = @ \cup {i.id},
             !.stale = IF st.origin[i.var] = b THEN @ ELSE TRUE]

Remembered(st, i, o, b) == [st EXCEPT !.stored[i.var] = o, !.origin[i.var] = b]

\* Faulty variant: a store of something that is not a constant leaves the entry.
TurnKeepsEntry(st, i, b) ==
  LET arg == st.with[i.arg]
  IN  CASE i.op = "load" /\ st.stored[i.var] # Opaque -> LoadReplaced(st, i, b)
        [] i.op = "store" /\ IsLiteral(arg) -> Remembered(st, i, arg, b)
        [] IsLiteral(arg) /\ Len(i.tgt) = 2 -> [st EXCEPT !.constBrs = @ \cup {b}]
        [] OTHER -> st

(* The turn of an instruction of block b: with is what replaced loads are   *)
(* replaced by (at once, in every operand), dead the loads to delete.  The  *)
(* comparison of a conditional branch comes right before it.                *)
Turn(st, i, b) ==
  LET arg == st.with[i.arg]
  IN  CASE i.op = "load" /\ st.stored[i.var] # Opaque -> LoadReplaced(st, i, b)
        [] i.op = "store" -> Remembered(st, i, IF IsLiteral(arg) THEN arg ELSE Opaque, b)
        [] IsLiteral(arg) /\ Len(i.tgt) = 2 -> [st EXCEPT !.constBrs = @ \cup {b}]
        [] OTHER -> st

\* The maps live as long as the pass: they are not emptied between blocks.
Propagated ==
  FoldLeft(LAMBDA st, b : FoldLeft(LAMBDA s, i : Turn(s, i, b), st, code[b]),
           [with |-> [o \in Operand |-> o], dead |-> {}, constBrs |-> {}, stale |-> FALSE,
            stored |-> [v \in Vars |-> Opaque], origin |-> [v \in Vars |-> NoBlock]],
           Keep([b \in Block |-> b], LAMBDA b : b \in bbs))

\* The blocks whose condition is no value the model follows.
OpaqueTests ==
  {b \in bbs : Terminated(b) /\ Len(Last(code[b]).tgt) = 2 /\ Last(code[b]).arg = Opaque}

\* run up to the folding of branches; on the code as the builder or Mem2Reg
\* leaves it.  fixed: the Opaque conditions that compare constants.
Propagate ==
  /\ cpc = "idle" /\ mpc \in {"idle", "end"}
  /\ cpc' = "fold"
  /\ source' = IF mpc = "idle" THEN code ELSE source
  /\ LET st   == Propagated
         used == UsesReplaced(st.with)
     IN  /\ code' = [b \in Block |-> Without(used[b], st.dead)]
         /\ phiOps' = PhiUsesReplaced(st.with)
         /\ stale' = st.stale
         /\ \E fixed \in SUBSET OpaqueTests : constBrs' = st.constBrs \cup fixed
  /\ UNCHANGED <<cur, folded, bbs, pre, succ, mpc, df, children, phis, stacks, known, calls>>
----------------------------------------------------------------------------
ToFold == Left \cap constBrs

(* remove_pre_basic_block, remove_succ_basic_block, delete_instr and        *)
(* create_br for a conditional branch of b, gone being the target it never  *)
(* takes.  The edge to kept is listed a second time.                        *)
FoldedPre(b, gone, kept)  == PushBack(Unlink(pre, {gone}, b), kept, b)
FoldedSucc(b, gone, kept) == PushBack(Unlink(succ, {b}, gone), b, kept)
FoldedCode(b, kept)       == [code EXCEPT ![b] = Append(Front(@), Br(kept))]

Gone(b, zero) == IF zero THEN Last(code[b]).tgt[1] ELSE Last(code[b]).tgt[2]
Kept(b, zero) ==
  CHOOSE t \in Range(Last(code[b]).tgt) : t # Gone(b, zero)

FoldBranch ==
  /\ cpc = "fold" /\ ToFold # {}
  /\ LET b == FirstOf(ToFold)
     IN  \E zero \in BOOLEAN :
           /\ folded' = [c \in DOMAIN folded \cup {b} |->
                          IF c = b THEN [operand |-> Last(code[b]).arg, zero |-> zero]
                          ELSE folded[c]]
           /\ pre' = FoldedPre(b, Gone(b, zero), Kept(b, zero))
           /\ succ' = FoldedSucc(b, Gone(b, zero), Kept(b, zero))
           /\ code' = FoldedCode(b, Kept(b, zero))
           /\ cur' = b + 1
  /\ UNCHANGED <<cpc, constBrs, stale, bbs, mem2regVars>>

(* The IRBuilder whose insert point is set has no value: the write through  *)
(* it goes to memory nothing else uses (FoldBranch), or ends the program.   *)
FoldBranchCrashes ==
  /\ cpc = "fold" /\ ToFold # {}
  /\ cpc' = "crash"
  /\ UNCHANGED <<cur, constBrs, folded, stale,
                 graphVars, mem2regVars>>

FoldingDone ==
  /\ cpc = "fold" /\ ToFold = {}
  /\ cpc' = "remove" /\ cur' = Entry + 1
  /\ UNCHANGED <<constBrs, folded, stale, graphVars, mem2regVars>>
----------------------------------------------------------------------------
ToRemove == {b \in Left : pre[b] = << >>}

\* Faulty variant: the phis of the successors are not looked at.
PairsKept(b) == phiOps

\* the phis of the successors without the operand pairs of b
PairsDropped(b) ==
  [c \in Block |-> [v \in Vars |->
     IF c \in Succs(b) THEN Keep(phiOps[c][v], LAMBDA p : p.bb # b)
                       ELSE phiOps[c][v]]]

\* Faulty variant: the block is only taken out of the list.
UnlinkedPreNot(b) == pre

\* Function::remove
UnlinkedPre(b)  == Unlink(pre, Succs(b), b)
UnlinkedSucc(b) == Unlink(succ, Preds(b), b)

\* One turn of the loop over a copy of the list of blocks: a block before
\* that loses its predecessors by the removal is not looked at again.
RemoveBlock ==
  /\ cpc = "remove" /\ ToRemove # {}
  /\ LET b == FirstOf(ToRemove)
     IN  /\ phiOps' = PairsDropped(b)
         /\ bbs' = bbs \ {b}
         /\ pre' = UnlinkedPre(b)
         /\ succ' = UnlinkedSucc(b)
         /\ cur' = b + 1
  /\ UNCHANGED <<cpc, constBrs, folded, stale, code,
                 mpc, df, children, phis, stacks, known, calls, source>>

RemovalDone ==
  /\ cpc = "remove" /\ ToRemove = {}
  /\ cpc' = "end"
  /\ UNCHANGED <<cur, constBrs, folded, stale,
                 graphVars, mem2regVars>>

ConstNext ==
  \/ Propagate
  \/ FoldBranch \/ FoldBranchCrashes \/ FoldingDone
  \/ RemoveBlock \/ RemovalDone
----------------------------------------------------------------------------
(***************************************************************************)
(* Properties                                                              *)
(***************************************************************************)

(* While branches are folded and blocks removed, the two lists of           *)
(* neighbours say, as sets, what the branches say, and no block of the list *)
(* is linked to one that is not: the code edits four lists for a folded     *)
(* branch and relies on Function::remove for the rest.  A target that is    *)
(* listed twice by create_br goes from both lists at once.                  *)
EdgesMatchAfterFolding ==
  cpc \in {"fold", "remove", "end"} =>
    \A b \in bbs :
      /\ Succs(b) = Range(Last(code[b]).tgt)
      /\ Succs(b) \cup Preds(b) \subseteq bbs
      /\ \A c \in bbs : c \in Succs(b) <=> b \in Preds(c)

(* A phi lists a block at most once, and a block that still branches to it  *)
(* or did before its branch was folded: a pair goes with the block it is    *)
(* of, and an edge that goes without its block leaves a pair that was       *)
(* folded away.                                                             *)
PhiPairsOfBranches ==
  \A p \in phis :
    LET pairs == phiOps[p[1]][p[2]]
    IN  /\ \A k \in DOMAIN pairs :
             \/ pairs[k].bb \in Preds(p[1])
             \/ /\ pairs[k].bb \in DOMAIN folded
                /\ p[1] \in Range(Last(source[pairs[k].bb]).tgt)
        /\ \A j, k \in DOMAIN pairs : pairs[j].bb = pairs[k].bb => j = k
=============================================================================

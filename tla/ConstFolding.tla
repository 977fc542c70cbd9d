---------------------------- MODULE ConstFolding ----------------------------
(***************************************************************************)
(* The arithmetic of the ConstPropagation pass on the instructions of one  *)
(* expression: ConstFolder and the loop over the instructions,             *)
(* src/src/optimization/ConstPropagation.cpp, with the use lists.  What    *)
(* the pass does to branches and blocks is module ConstPropagation's.      *)
(***************************************************************************)
EXTENDS ExpressionMeaning

VARIABLES
  pass,    \* "idle", "folded", or "crash" when the compiler has divided by zero
  before,  \* history: the instructions before the pass
  folds    \* history: the instructions that were folded, as they were then

foldVars == <<pass, before, folds>>
allVars  == <<scopeVars, exprVars, foldVars>>

FoldInit == pass = "idle" /\ before = NoInstrs /\ folds = {}
----------------------------------------------------------------------------
(***************************************************************************)
(* ConstFolder                                                             *)
(***************************************************************************)

IsConstInt(v) == v.k = "const" /\ v.ty \in {"i1", "i32"}
IsConstFP(v)  == v.k = "const" /\ v.ty = "float"

\* (int) of a float that is too large is the least int on the machines the
\* compiler is built for.
HostInt(x) == IF IsInt(Cut(x, 4)) THEN Cut(x, 4) ELSE MinInt

ComputeINT(op, a, b) ==
  CASE op = "add"  -> Wrap(a + b)
    [] op = "sub"  -> Wrap(a - b)
    [] op = "mul"  -> Wrap(a * b)
    [] op = "sdiv" -> Cut(a, b)

\* The division of the compiler itself has no result.
ComputeStops(i) ==
  /\ i.op = "sdiv" /\ \A k \in {1, 2} : IsConstInt(i.args[k])
  /\ NoResult("/", "i32", i.args[1].val, i.args[2].val)

\* The quotient of two floats is made an int first.
ComputeFP(op, a, b) ==
  CASE op = "fadd" -> a + b
    [] op = "fsub" -> a - b
    [] op = "fmul" -> Cut(a * b, 4)
    [] op = "fdiv" -> IF b = 0 THEN 4 * MinInt ELSE 4 * HostInt(Cut(4 * a, b))

\* Faulty variant: <= is computed as <.
ComputeCMPStrict(how, a, b) == Const("i1", Bit(Holds(IF how = "<=" THEN "<" ELSE how, a, b)))

\* computeCMP and computeFCMP: the constant is one of type i1.
ComputeCMP(how, a, b) == Const("i1", Bit(Holds(how, a, b)))

SetConstInt(v) == IF IsConstInt(v) THEN v ELSE Const("i32", HostInt(v.val))
SetConstFP(v)  == IF IsConstFP(v) THEN v ELSE Const("float", 4 * v.val)
----------------------------------------------------------------------------
(***************************************************************************)
(* The loop over the instructions                                          *)
(***************************************************************************)

\* Which instructions are folded.
Foldable(i) ==
  LET All(P(_)) == \A k \in DOMAIN i.args : P(i.args[k])
      IsConst(v) == v.k = "const"
  IN  CASE i.op \in DOMAIN SourceOp       -> All(IsConst)
        [] i.op \in {"icmp", "sitofp", "zext"} -> All(IsConstInt)
        [] i.op \in {"fcmp", "fptosi"}    -> All(IsConstFP)
        [] OTHER                          -> FALSE

Computed(i) ==
  LET a == i.args[1]
      b == i.args[2]
  IN  CASE i.op \in {"icmp", "fcmp"}   -> ComputeCMP(i.how, a.val, b.val)
        [] i.op \in {"fptosi", "zext"} -> SetConstInt(a)
        [] i.op = "sitofp"             -> SetConstFP(a)
        [] IsConstInt(a) /\ IsConstInt(b) -> Const("i32", ComputeINT(i.op, a.val, b.val))
        [] OTHER -> Const("float", ComputeFP(i.op, SetConstFP(a).val, SetConstFP(b).val))

Replaced(st, n, c) ==
  [st EXCEPT !.ir = ReplaceAllUseWith(@, n, c), !.dead = @ \cup {n},
             !.folds = @ \cup {st.ir.code[n]}]

IsGlobal(v) == v.k = "var" /\ vars[v.val].global

\* Faulty variant: loads of global variables are replaced too.
TurnWithGlobals(st, n) ==
  LET i == st.ir.code[n]
  IN  CASE ComputeStops(i) -> [st EXCEPT !.stops = TRUE]
        [] Foldable(i)     -> Replaced(st, n, Computed(i))
        [] i.op = "load" /\ i.args[1] \in DOMAIN st.stored ->
             Replaced(st, n, st.stored[i.args[1]])
        [] i.op = "store" /\ i.args[1].k = "const" ->
             [st EXCEPT !.stored = (i.args[2] :> i.args[1]) @@ @]
        [] i.op = "store"  -> [st EXCEPT !.stored = Restrict(@, DOMAIN @ \ {i.args[2]})]
        [] OTHER           -> st

(* The turn of instruction n: stored is what GlobalINT and GlobalFP hold,   *)
(* the constant last stored through a pointer.                              *)
Turn(st, n) ==
  LET i == st.ir.code[n]
  IN  CASE ComputeStops(i) -> [st EXCEPT !.stops = TRUE]
        [] Foldable(i)     -> Replaced(st, n, Computed(i))
        [] i.op = "load" /\ ~IsGlobal(i.args[1]) /\ i.args[1] \in DOMAIN st.stored ->
             Replaced(st, n, st.stored[i.args[1]])
        [] i.op = "store" /\ i.args[1].k = "const" ->
             [st EXCEPT !.stored = (i.args[2] :> i.args[1]) @@ @]
        [] i.op = "store"  -> [st EXCEPT !.stored = Restrict(@, DOMAIN @ \ {i.args[2]})]
        [] OTHER           -> st

RECURSIVE SweptFrom(_, _)
SweptFrom(n, st) == IF n > Len(ir.code) \/ st.stops THEN st ELSE SweptFrom(n + 1, Turn(st, n))

Swept == SweptFrom(1, [ir |-> ir, dead |-> {}, stops |-> FALSE, stored |-> Restrict(vars, {}),
                       folds |-> {}])

(* run up to the folding of branches; what is folded is deleted at the end. *)
Fold ==
  /\ place = "end" /\ pass = "idle"
  /\ LET st == Swept
     IN  /\ folds' = st.folds
         /\ \/ /\ st.stops /\ pass' = "crash"
               /\ UNCHANGED ir
            \/ /\ ~st.stops /\ pass' = "folded"
               /\ ir' = DeleteInstrs(st.ir, st.dead)
  /\ before' = ir
  /\ UNCHANGED <<scopeVars, mode, stack, tmp, requireLvalue, tree, statement>>

Build == ExprNext /\ UNCHANGED foldVars

Init == ScopeInit /\ ExprInit /\ FoldInit
Next == Build \/ Fold
Spec == Init /\ [][Next]_allVars

----------------------------------------------------------------------------
(***************************************************************************)
(* Properties                                                              *)
(***************************************************************************)

\* A comparison that was folded is a constant of type i1 wherever its zext was.
Suits(v, ty) == v.ty = ty \/ (pass = "folded" /\ v = Const("i1", v.val) /\ ty = "i32")

WellTyped(i) ==
  LET Are(tys) == Len(i.args) = Len(tys) /\ \A k \in DOMAIN tys : Suits(i.args[k], tys[k])
  IN  CASE i.op \in DOMAIN SourceOp -> Are(<<i.ty, i.ty>>)
        [] i.op = "icmp"   -> Are(<<"i32", "i32">>)
        [] i.op = "fcmp"   -> Are(<<"float", "float">>)
        [] i.op \in {"zext", "check", "br"} -> Are(<<"i1">>)
        [] i.op = "sitofp" -> Are(<<"i32">>)
        [] i.op = "fptosi" -> Are(<<"float">>)
        [] i.op = "load"   -> i.args[1].ty \in DOMAIN Pointee /\ i.ty = Pointee[i.args[1].ty]
        [] i.op = "store"  -> i.args[2].ty \in DOMAIN Pointee /\ Suits(i.args[1], Pointee[i.args[2].ty])
        [] i.op = "gep"    -> Suits(i.args[Len(i.args)], "i32")
        [] i.op = "call"   -> Are(Params[i.how])
        [] i.op = "ret"    -> Are(<<retTy>>)

(* The operands of every instruction have the types that it takes: the      *)
(* conversions of the five places of the language are made where they are   *)
(* due and nowhere else, and no visitor gets an address for a value; after  *)
(* the pass, but for the i1 constants.                                      *)
OperandsTyped == \A n \in ir.listed : WellTyped(ir.code[n])

(* The instructions of a statement call, write, return, branch and exit as  *)
(* the statement does by the language, wherever that defines the result:    *)
(* operands in their places, values of the right visits, the variable that  *)
(* the name stands for.  Statements are left out whose meaning depends on   *)
(* whether an assignment begins with the address of its variable, as the    *)
(* language has it, or with its value, as the builder does.                 *)
ValueAsWritten ==
  place = "end" /\ pass = "idle" /\ OperandsTyped =>
    LET meant == AsWritten
    IN  meant.status = "undef" \/ Executed(ir) = meant \/ OrderMatters

(* While instructions are emitted and when they have been replaced and      *)
(* deleted, each operand that is an instruction is still in its block and   *)
(* has the user in its use list.                                            *)
NoUseOfDeleted == UsersAreKnown(ir)

\* The quotient of two floats was folded to another number.
FractionLost ==
  \E i \in folds : /\ i.op = "fdiv" /\ i.args[2].val # 0
                   /\ ComputeFP(i.op, i.args[1].val, i.args[2].val)
                        # Cut(4 * i.args[1].val, i.args[2].val)

(* After the pass a function calls, writes, returns, branches and exits as  *)
(* before it, unless the fraction of a quotient was lost.  The compiler     *)
(* divides by zero for a function only that does so itself or never comes   *)
(* to the division.                                                         *)
FoldKeepsOutcomeOfWhole ==
  pass # "idle" /\ ~FractionLost =>
    LET done == Executed(before)
    IN  \/ done.status = "undef"
        \/ pass = "folded" /\ Executed(ir) = done
        \/ pass = "crash" /\ done.status = "neg"

(* After the pass a function does the same as before it.                    *)
FoldKeepsOutcome ==
  pass = "folded" /\ Executed(before).status # "undef" => Executed(ir) = Executed(before)
=============================================================================

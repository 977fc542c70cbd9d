---------------------------- MODULE Expressions ----------------------------
(***************************************************************************)
(* The visitors of expressions of src/src/cminusfc/cminusf_builder.cpp:    *)
(* which instructions they emit for one expression, with the conversions   *)
(* between int and float, and how they pass values and the wish for an     *)
(* address to each other through the globals tmp_val and require_lvalue.   *)
(*                                                                         *)
(* The expression is chosen while it is visited.  stack holds the visitors *)
(* that wait for a child, with their locals.  What a branch does to the    *)
(* blocks is module FunctionBuilder's: the block that calls neg_idx_except *)
(* and returns is the one instruction "check" here, so that the code of an *)
(* expression is a list.  The allocas and the stores of the arguments into *)
(* them are left out: variables have their values when the list begins.    *)
(***************************************************************************)
EXTENDS Scopes, UseLists

CONSTANTS
  IntLiterals,    \* the numbers in the program; those of floats are in quarters
  FloatLiterals,
  Ops,            \* the operators in the program
  Depth           \* bounds the visitors that wait when an operator is met

VARIABLES
  mode,           \* "visit" a child, "var" the variable of an assignment,
                  \* "array" an argument that is an array, "return" to the parent
  stack,          \* the visitors that wait, the last one innermost
  ir,             \* the instructions and the use lists
  tmp,            \* tmp_val
  requireLvalue,  \* require_lvalue
  tree,           \* history: the parse tree of the expression just visited
  statement       \* history: what the statement is, once it is visited

exprVars == <<mode, stack, ir, tmp, requireLvalue, tree, statement>>

(* The functions that may be called: output and outputFloat of the runtime  *)
(* library, and two that are declared before: int g(void), which stands for *)
(* input too, and int h(int b[], float x).                                  *)
Params  == "g" :> << >> @@ "h" :> <<"i32*", "float">>
             @@ "output" :> <<"i32">> @@ "outputFloat" :> <<"float">>
Returns == "g" :> "i32" @@ "h" :> "i32" @@ "output" :> "void" @@ "outputFloat" :> "void"

ExprInit ==
  /\ mode = "idle" /\ stack = << >> /\ ir = NoInstrs
  /\ tmp = Const("i32", 0) /\ requireLvalue = FALSE
  /\ tree = [n |-> "none"] /\ statement = [n |-> "none"]

\* The emission of an instruction, and the value it is.
Emit(r, op, how, ty, args) ==
  [ir |-> Create(r, op, how, ty, args), val |-> Reg(ty, Len(r.code) + 1)]

Converted(r, v, ty) ==
  CASE v.ty = ty    -> [ir |-> r, val |-> v]
    [] ty = "float" -> Emit(r, "sitofp", "", ty, <<v>>)
    [] OTHER        -> Emit(r, "fptosi", "", ty, <<v>>)

\* promote: both operands are converted to float unless both are of one type.
\* The left one is converted first.
Promoted(r, l, rv) ==
  LET ty == IF l.ty = rv.ty THEN l.ty ELSE "float"
      cl == Converted(r, l, ty)
      cr == Converted(cl.ir, rv, ty)
  IN  [ir |-> cr.ir, l |-> cl.val, r |-> cr.val, ty |-> ty]

RelOps  == {"<", "<=", ">", ">=", "==", "!="}
IntOp   == "+" :> "add" @@ "-" :> "sub" @@ "*" :> "mul" @@ "/" :> "sdiv"
FloatOp == "+" :> "fadd" @@ "-" :> "fsub" @@ "*" :> "fmul" @@ "/" :> "fdiv"

Compared(r, op, ty, args) == Emit(r, IF ty = "i32" THEN "icmp" ELSE "fcmp", op, "i1", args)

\* Faulty variant: the operand that is converted loses its place.
AppliedConvertedFirst(r, op, l, rv) ==
  LET p    == Promoted(r, l, rv)
      args == IF l.ty = rv.ty \/ l.ty = "i32" THEN <<p.l, p.r>> ELSE <<p.r, p.l>>
      cmp  == Compared(p.ir, op, p.ty, args)
  IN  CASE op \in RelOps -> Emit(cmp.ir, "zext", "", "i32", <<cmp.val>>)
        [] p.ty = "i32"  -> Emit(p.ir, IntOp[op], "", "i32", args)
        [] OTHER         -> Emit(p.ir, FloatOp[op], "", "float", args)

Applied(r, op, l, rv) ==
  LET p    == Promoted(r, l, rv)
      args == <<p.l, p.r>>
      cmp  == Compared(p.ir, op, p.ty, args)
  IN  CASE op \in RelOps -> Emit(cmp.ir, "zext", "", "i32", <<cmp.val>>)
        [] p.ty = "i32"  -> Emit(p.ir, IntOp[op], "", "i32", args)
        [] OTHER         -> Emit(p.ir, FloatOp[op], "", "float", args)
----------------------------------------------------------------------------
(***************************************************************************)
(* Visits                                                                  *)
(***************************************************************************)

Visiting(modes, cost) ==
  /\ place = "body" /\ mode \in modes
  /\ left >= cost /\ left' = left - cost
  /\ UNCHANGED <<place, scope, preEnter, exits, retTy, vars, path, opened, statement>>

\* A child has been visited, its value is v.
Returning(r, v, t) == mode' = "return" /\ ir' = r /\ tmp' = v /\ tree' = t

Waiting(frame, m) ==
  /\ stack' = Append(stack, frame) /\ mode' = m
  /\ UNCHANGED <<ir, tmp, tree>>

(* The last statement of the function.  All of them begin with their        *)
(* expression: which one it is is chosen when that has been visited.        *)
VisitStatement ==
  /\ place \in {"decls", "stmts"} /\ place' = "body"
  /\ Waiting([k |-> "stmt"], "visit")
  /\ UNCHANGED <<left, scope, preEnter, exits, retTy, vars, path, opened,
                 requireLvalue, statement>>

VisitNum ==
  /\ Visiting({"visit"}, 0)
  /\ \/ \E x \in IntLiterals   : Returning(ir, Const("i32", x), [n |-> "num", ty |-> "i32", val |-> x])
     \/ \E x \in FloatLiterals : Returning(ir, Const("float", x), [n |-> "num", ty |-> "float", val |-> x])
  /\ UNCHANGED <<stack, requireLvalue>>

TypesHere == IF mode # "array" THEN ScalarVar
             ELSE {t \in DOMAIN ElemPtr : ElemPtr[t] = Params[Last(stack).fun][Len(Last(stack).args) + 1]}

(* A variable without an index: its address for an assignment, else what is *)
(* in it, or the address of the first element of an array.                  *)
VisitVar ==
  /\ Visiting({"visit", "var", "array"}, 0)
  /\ \E name \in Names :
       LET d   == Find(name)
           var == VarOf(vars[d].ty, d)
           val == IF vars[d].ty \in ArrayVar
                  THEN Emit(ir, "gep", "", ElemPtr[var.ty], <<var, Const("i32", 0), Const("i32", 0)>>)
                  ELSE Emit(ir, "load", "", Pointee[var.ty], <<var>>)
           got == IF requireLvalue THEN [ir |-> ir, val |-> var] ELSE val
       IN  /\ d # 0 /\ vars[d].ty \in TypesHere
           /\ Returning(got.ir, got.val, [n |-> "var", d |-> Lexical(name)])
  /\ requireLvalue' = FALSE
  /\ UNCHANGED stack

\* Faulty variant: the wish for an address is still there when the index is visited.
VisitIndexedVarKeepsWish ==
  /\ Visiting({"visit", "var"}, 1)
  /\ \E name \in Names :
       LET d == Find(name)
       IN  /\ d # 0 /\ vars[d].ty \in DOMAIN ElemPtr
           /\ Waiting([k |-> "index", var |-> VarOf(vars[d].ty, d), lvalue |-> requireLvalue,
                       d |-> Lexical(name)], "visit")
  /\ UNCHANGED requireLvalue

\* should_return_lvalue is a local; the index is visited for its value.
VisitIndexedVar ==
  /\ Visiting({"visit", "var"}, 1)
  /\ \E name \in Names :
       LET d == Find(name)
       IN  /\ d # 0 /\ vars[d].ty \in DOMAIN ElemPtr
           /\ Waiting([k |-> "index", var |-> VarOf(vars[d].ty, d), lvalue |-> requireLvalue,
                       d |-> Lexical(name)], "visit")
  /\ requireLvalue' = FALSE

\* A relation, a sum or a product.
VisitBinary ==
  /\ Visiting({"visit"}, 1) /\ Len(stack) <= Depth
  /\ \E op \in Ops : Waiting([k |-> "left", op |-> op], "visit")
  /\ UNCHANGED requireLvalue

VisitAssign ==
  /\ Visiting({"visit"}, 1)
  /\ Waiting([k |-> "assign"], "visit")
  /\ UNCHANGED requireLvalue

ModeOf(ty) == IF ty \in DOMAIN Pointee THEN "array" ELSE "visit"

\* A call without arguments is made at once.  One that returns nothing has no
\* value: it is a statement.
VisitCall ==
  \E fun \in DOMAIN Params :
    /\ Returns[fun] = "void" => stack = <<[k |-> "stmt"]>>
    /\ Visiting({"visit"}, Len(Params[fun]))
    /\ IF Params[fun] = << >>
       THEN LET call == Emit(ir, "call", fun, Returns[fun], << >>)
            IN  /\ Returning(call.ir, call.val, [n |-> "call", fun |-> fun, args |-> << >>])
                /\ UNCHANGED stack
       ELSE Waiting([k |-> "arg", fun |-> fun, args |-> << >>, trees |-> << >>],
                    ModeOf(Params[fun][1]))
    /\ UNCHANGED requireLvalue
----------------------------------------------------------------------------
(***************************************************************************)
(* Returns to a visitor that waits                                         *)
(***************************************************************************)

ReturnTo(kind) ==
  /\ place = "body" /\ mode = "return" /\ Last(stack).k = kind
  /\ UNCHANGED left

Resumed == UNCHANGED <<place, scope, preEnter, exits, retTy, vars, path, opened, statement>>

ReturnLeft ==
  /\ ReturnTo("left") /\ Resumed
  /\ stack' = Append(Front(stack), [k |-> "right", op |-> Last(stack).op, l |-> tmp, lt |-> tree])
  /\ mode' = "visit"
  /\ UNCHANGED <<ir, tmp, tree, requireLvalue>>

ReturnRight ==
  /\ ReturnTo("right") /\ Resumed
  /\ LET f == Last(stack)
         v == Applied(ir, f.op, f.l, tmp)
     IN  Returning(v.ir, v.val, [n |-> "bin", op |-> f.op, l |-> f.lt, r |-> tree])
  /\ stack' = Front(stack)
  /\ UNCHANGED requireLvalue

\* The right side of an assignment comes first, then its variable's address.
ReturnAssigned ==
  /\ ReturnTo("assign") /\ Resumed
  /\ stack' = Append(Front(stack), [k |-> "assign to", val |-> tmp, vt |-> tree])
  /\ requireLvalue' = TRUE
  /\ mode' = "var"
  /\ UNCHANGED <<ir, tmp, tree>>

\* Faulty variant: the value of an assignment is that of its right side.
ReturnAssignKeepsType ==
  /\ ReturnTo("assign to") /\ Resumed
  /\ LET f == Last(stack)
         v == Converted(ir, f.val, Pointee[tmp.ty])
     IN  Returning(Create(v.ir, "store", "", "void", <<v.val, tmp>>), f.val,
                   [n |-> "assign", to |-> tree, of |-> f.vt])
  /\ stack' = Front(stack)
  /\ UNCHANGED requireLvalue

ReturnAssign ==
  /\ ReturnTo("assign to") /\ Resumed
  /\ LET f == Last(stack)
         v == Converted(ir, f.val, Pointee[tmp.ty])
     IN  Returning(Create(v.ir, "store", "", "void", <<v.val, tmp>>), v.val,
                   [n |-> "assign", to |-> tree, of |-> f.vt])
  /\ stack' = Front(stack)
  /\ UNCHANGED requireLvalue

\* The index as an int, the check that it is not negative, the address.
Element(r, var, index) ==
  LET i     == Converted(r, index, "i32")
      neg   == Emit(i.ir, "icmp", "<", "i1", <<i.val, Const("i32", 0)>>)
      check == Create(neg.ir, "check", "", "void", <<neg.val>>)
      array == Emit(check, "load", "", Pointee[var.ty], <<var>>)
  IN  IF var.ty \in ArrayVar
      THEN Emit(check, "gep", "", ElemPtr[var.ty], <<var, Const("i32", 0), i.val>>)
      ELSE Emit(array.ir, "gep", "", ElemPtr[var.ty], <<array.val, i.val>>)

ReturnIndex ==
  /\ ReturnTo("index") /\ Resumed
  /\ LET f    == Last(stack)
         ptr  == Element(ir, f.var, tmp)
         load == Emit(ptr.ir, "load", "", Pointee[ptr.val.ty], <<ptr.val>>)
         got  == IF f.lvalue THEN ptr ELSE load
     IN  /\ Returning(got.ir, got.val, [n |-> "elem", d |-> f.d, of |-> tree])
         /\ requireLvalue' = IF f.lvalue THEN FALSE ELSE requireLvalue
  /\ stack' = Front(stack)

ReturnArg ==
  /\ ReturnTo("arg") /\ Resumed
  /\ LET f    == Last(stack)
         arg  == IF tmp.ty \in DOMAIN Pointee THEN [ir |-> ir, val |-> tmp]
                 ELSE Converted(ir, tmp, Params[f.fun][Len(f.args) + 1])
         args == Append(f.args, arg.val)
         sons == Append(f.trees, tree)
         call == Emit(arg.ir, "call", f.fun, Returns[f.fun], args)
     IN  IF Len(args) < Len(Params[f.fun])
         THEN /\ stack' = Append(Front(stack), [f EXCEPT !.args = args, !.trees = sons])
              /\ mode' = ModeOf(Params[f.fun][Len(args) + 1])
              /\ ir' = arg.ir /\ tmp' = arg.val
              /\ UNCHANGED tree
         ELSE /\ stack' = Front(stack)
              /\ Returning(call.ir, call.val, [n |-> "call", fun |-> f.fun, args |-> sons])
  /\ UNCHANGED requireLvalue

\* The comparison of a condition with zero and the branch on it.
Condition(r, v) ==
  LET cmp == Compared(r, "!=", v.ty, <<v, Const(v.ty, 0)>>)
  IN  Create(cmp.ir, "br", "", "void", <<cmp.val>>)

\* Faulty variant: a value that is returned is not converted.
ReturnedAsIs(r, v) == Create(r, "ret", "", "void", <<v>>)

Returned(r, v) ==
  LET c == Converted(r, v, retTy)
  IN  Create(c.ir, "ret", "", "void", <<c.val>>)

(* A return, or a selection or iteration, or the call of a function that    *)
(* returns nothing; of other expression statements nothing is left to do.   *)
ReturnStatement ==
  /\ ReturnTo("stmt")
  /\ \E kind \in IF tmp.ty = "void" THEN {"expr"} ELSE {"cond", "return"} :
       /\ ir' = CASE kind = "return" -> Returned(ir, tmp)
                  [] kind = "cond"   -> Condition(ir, tmp)
                  [] kind = "expr"   -> ir
       /\ statement' = [n |-> kind, of |-> tree]
  /\ LeaveScopes
  /\ stack' = << >> /\ mode' = "idle"
  /\ UNCHANGED <<tmp, tree, requireLvalue>>

ExprNext ==
  \/ ScopeNext /\ UNCHANGED exprVars
  \/ VisitStatement
  \/ VisitNum \/ VisitVar \/ VisitIndexedVar \/ VisitBinary \/ VisitAssign \/ VisitCall
  \/ ReturnLeft \/ ReturnRight \/ ReturnAssigned \/ ReturnAssign
  \/ ReturnIndex \/ ReturnArg \/ ReturnStatement

\* What the visitors do to the scopes, whatever happens to the instructions.
ScopeSpec == ScopeInit /\ [][ExprNext]_scopeVars
=============================================================================

------------------------- MODULE ExpressionMeaning -------------------------
(***************************************************************************)
(* What an expression of the language means and what instructions do, on   *)
(* the same memory: the two sides of the properties of Expressions.  The   *)
(* first follows Documentations/common/cminusf.md, the second LLVM's       *)
(* language reference.                                                     *)
(*                                                                         *)
(* An int has Width bits.  A float is a number of quarters, and what is    *)
(* smaller is cut off: any rounding serves that depends on nothing but the *)
(* operation, when both sides use it.  A pointer is a variable and an      *)
(* offset.  Where the result is not defined, the status is "undef" and     *)
(* nothing is asked of the other side; "neg" is the exit for an index      *)
(* below zero.                                                             *)
(***************************************************************************)
EXTENDS Expressions

CONSTANT Width

MinInt    == -(2^(Width - 1))
Wrap(x)   == ((x - MinInt) % 2^Width) + MinInt
IsInt(x)  == Wrap(x) = x
Magnitude(x) == IF x < 0 THEN -x ELSE x
Cut(a, b) == LET q == Magnitude(a) \div Magnitude(b) IN IF (a < 0) = (b < 0) THEN q ELSE -q

Holds(op, a, b) ==
  CASE op = "<"  -> a < b  [] op = "<=" -> a <= b [] op = ">"  -> a > b
    [] op = ">=" -> a >= b [] op = "==" -> a = b  [] op = "!=" -> a # b
Bit(p) == IF p THEN 1 ELSE 0

Arith(op, ty, a, b) ==
  CASE op = "+" -> IF ty = "i32" THEN Wrap(a + b) ELSE a + b
    [] op = "-" -> IF ty = "i32" THEN Wrap(a - b) ELSE a - b
    [] op = "*" -> IF ty = "i32" THEN Wrap(a * b) ELSE Cut(a * b, 4)
    [] op = "/" -> IF ty = "i32" THEN Cut(a, b) ELSE Cut(4 * a, b)
NoResult(op, ty, a, b) == op = "/" /\ (b = 0 \/ (ty = "i32" /\ a = MinInt /\ b = -1))
----------------------------------------------------------------------------
(***************************************************************************)
(* The memory                                                              *)
(***************************************************************************)

\* Two cells for every variable, and for the array that a parameter gets.
Cells == {<<d, o>> \in (1..2 * Size) \X {0, 1} :
            \E p \in DOMAIN vars : d = p \/ d = Size + p}

\* Global variables are zero, the others hold something or other.
Contents(d, o) ==
  LET p == IF d > Size THEN d - Size ELSE d
  IN  CASE vars[p].global                -> 0
        [] d > Size                      -> IF vars[p].ty = "i32**" THEN o - d ELSE 4 * o + d
        [] vars[p].ty \in ArrayParam     -> <<Size + d, 0>>
        [] vars[p].ty = "i32*"           -> d
        [] vars[p].ty = "[i32]*"         -> o - d
        [] OTHER                         -> 4 * o + 4 * d + 2

Start == [status |-> "run", mem |-> [c \in Cells |-> Contents(c[1], c[2])],
          calls |-> << >>, ret |-> 0,
          ty |-> "void", val |-> 0, args |-> << >>,  \* of a tree
          valueFirst |-> FALSE,                       \* of an assignment
          regs |-> << >>]                             \* of instructions

Stop(st, status) == [st EXCEPT !.status = status]
Write(st, p, x)  == IF p \in DOMAIN st.mem THEN [st EXCEPT !.mem[p] = x] ELSE Stop(st, "undef")
IsGlobalInt(p)   == p[2] = 0 /\ p[1] \in DOMAIN vars /\ vars[p[1]].global /\ vars[p[1]].ty = "i32*"

\* Every call is seen from outside; g also writes the global variables, h its
\* array.  What they return tells the calls apart.
AfterCall(st, fun, args) ==
  LET made       == [st EXCEPT !.calls = Append(@, <<fun, args>>)]
      Written(p) == \/ fun = "g" /\ IsGlobalInt(p)
                    \/ fun = "h" /\ p = args[1]
  IN  [made EXCEPT !.mem = [p \in DOMAIN @ |-> IF Written(p) THEN Wrap(Len(made.calls) + 1) ELSE @[p]]]
Result(st) == Wrap(Len(st.calls))
----------------------------------------------------------------------------
(***************************************************************************)
(* The meaning of a parse tree: the state with the type and value of it    *)
(***************************************************************************)

With(st, ty, x) == [st EXCEPT !.ty = ty, !.val = x]

\* One of the five conversions of the language.
As(st, ty) ==
  CASE st.ty = ty \/ st.status # "run" -> st
    [] ty = "float"                    -> [st EXCEPT !.ty = ty, !.val = 4 * @]
    [] IsInt(Cut(st.val, 4))           -> [st EXCEPT !.ty = ty, !.val = Cut(@, 4)]
    [] OTHER                           -> Stop(st, "undef")

Common(t, u) == IF t = u THEN t ELSE "float"

\* An operation on the values of l and r, r being the state after both.
Combined(op, l, r) ==
  LET ty == Common(l.ty, r.ty)
      a  == As(With(r, l.ty, l.val), ty)
      b  == As(r, ty)
  IN  IF r.status # "run" THEN r
      ELSE IF op \in RelOps THEN With(r, "i32", Bit(Holds(op, a.val, b.val)))
      ELSE IF NoResult(op, ty, a.val, b.val) THEN Stop(r, "undef")
      ELSE With(r, ty, Arith(op, ty, a.val, b.val))

\* The value of x goes to the address that p is, st being the state after both.
Assigned(p, x, st) ==
  LET v == As(With(st, x.ty, x.val), Pointee[p.ty])
  IN  IF st.status # "run" THEN st
      ELSE IF v.status # "run" THEN v ELSE Write(v, p.val, v.val)

\* The address of the element of d with the index that i is, an int: one below
\* zero ends the program.
ElementOf(d, i) ==
  LET base == IF vars[d].ty \in ArrayParam THEN i.mem[<<d, 0>>] ELSE <<d, 0>>
      p    == <<base[1], base[2] + i.val>>
  IN  IF i.status # "run" THEN i
      ELSE IF i.val < 0 THEN Stop(i, "neg")
      ELSE IF p \notin DOMAIN i.mem THEN Stop(i, "undef")
      ELSE With(i, ElemPtr[vars[d].ty], p)

\* The value at an address; of an array, the address of its first element.
ValueAt(a) ==
  IF a.status # "run" THEN a
  ELSE IF a.ty \in ArrayVar THEN With(a, ElemPtr[a.ty], a.val)
  ELSE With(a, Pointee[a.ty], a.mem[a.val])

\* The call with the arguments that a has, in a tree that has some of its own.
Called(fun, a, args) ==
  LET c == AfterCall(a, fun, a.args)
  IN  IF a.status # "run" THEN a
      ELSE [With(c, Returns[fun], Result(c)) EXCEPT !.args = args]

RECURSIVE Meaning(_, _), Address(_, _), Arguments(_, _, _)

\* The address of a variable, or of an element.
Address(t, st) ==
  IF t.n = "var" THEN With(st, vars[t.d].ty, <<t.d, 0>>)
  ELSE ElementOf(t.d, As(Meaning(t.of, st), "i32"))

\* An argument, converted for the parameter and added to those before it.
Passed(ty, a, args) ==
  LET c == IF ty \in DOMAIN Pointee THEN a ELSE As(a, ty)
  IN  [c EXCEPT !.args = Append(args, c.val)]

\* The values of the arguments from number k on.
Arguments(t, k, st) ==
  IF k > Len(t.args) \/ st.status # "run" THEN st
  ELSE Arguments(t, k + 1, Passed(Params[t.fun][k], Meaning(t.args[k], st), st.args))

(* An assignment finds the address of its variable and then computes its    *)
(* value, or, if valueFirst, the other way round.                           *)
Meaning(t, st) ==
  IF st.status # "run" THEN st ELSE
  CASE t.n = "num"            -> With(st, t.ty, t.val)
    [] t.n \in {"var", "elem"} -> ValueAt(Address(t, st))
    [] t.n = "bin" ->
         LET l == Meaning(t.l, st) IN Combined(t.op, l, Meaning(t.r, l))
    [] t.n = "assign" /\ ~st.valueFirst ->
         LET p == Address(t.to, st)
             x == Meaning(t.of, p)
         IN  Assigned(p, x, x)
    [] t.n = "assign" /\ st.valueFirst ->
         LET x == Meaning(t.of, st)
             p == Address(t.to, x)
         IN  Assigned(p, x, p)
    [] t.n = "call" ->
         Called(t.fun, Arguments(t, 1, [st EXCEPT !.args = << >>]), st.args)

Outcome(st) == [status |-> st.status, mem |-> st.mem, calls |-> st.calls, ret |-> st.ret]

MeantWith(valueFirst) ==
  LET v == Meaning(statement.of, [Start EXCEPT !.valueFirst = valueFirst])
      r == As(v, retTy)
  IN  Outcome(CASE v.status # "run"           -> v
                [] statement.n = "return"     -> [r EXCEPT !.ret = r.val]
                [] statement.n = "cond"       -> [v EXCEPT !.ret = Bit(v.val # 0)]
                [] statement.n = "expr"       -> v)

\* The language has the address first (cminusf.md:136).
AsWritten    == MeantWith(FALSE)
OrderMatters == MeantWith(TRUE) # AsWritten
----------------------------------------------------------------------------
(***************************************************************************)
(* Execution of instructions                                               *)
(***************************************************************************)

SourceOp == [o \in Range(IntOp) \cup Range(FloatOp) |->
               CHOOSE s \in DOMAIN IntOp : o \in {IntOp[s], FloatOp[s]}]

Operand(st, v) == CASE v.k = "const" -> v.val [] v.k = "reg" -> st.regs[v.val]
                    [] v.k = "var" -> <<v.val, 0>>

Step(st, i, n) ==
  LET x     == [k \in DOMAIN i.args |-> Operand(st, i.args[k])]
      Is(y) == [st EXCEPT !.regs[n] = y]
      last  == x[Len(x)]
      call  == AfterCall(st, i.how, x)
  IN
  CASE i.op \in DOMAIN SourceOp ->
         IF NoResult(SourceOp[i.op], i.ty, x[1], x[2]) THEN Stop(st, "undef")
         ELSE Is(Arith(SourceOp[i.op], i.ty, x[1], x[2]))
    [] i.op \in {"icmp", "fcmp"} -> Is(Bit(Holds(i.how, x[1], x[2])))
    [] i.op = "zext"   -> Is(last)
    [] i.op = "sitofp" -> Is(4 * last)
    [] i.op = "fptosi" -> IF IsInt(Cut(last, 4)) THEN Is(Cut(last, 4)) ELSE Stop(st, "undef")
    [] i.op = "gep"    -> IF <<x[1][1], x[1][2] + last>> \in DOMAIN st.mem
                          THEN Is(<<x[1][1], x[1][2] + last>>) ELSE Stop(st, "undef")
    [] i.op = "load"   -> Is(st.mem[last])
    [] i.op = "store"  -> Write(st, last, x[1])
    [] i.op = "call"   -> [call EXCEPT !.regs[n] = Result(call)]
    [] i.op = "check"  -> IF last = 1 THEN Stop(st, "neg") ELSE st
    [] i.op \in {"ret", "br"} -> [st EXCEPT !.ret = last]

\* The instructions from number n on, those that are on the list.
RECURSIVE RunFrom(_, _, _)
RunFrom(r, n, st) ==
  IF n > Len(r.code) \/ st.status # "run" THEN st
  ELSE RunFrom(r, n + 1, IF n \in r.listed THEN Step(st, r.code[n], n) ELSE st)

Executed(r) == Outcome(RunFrom(r, 1, [Start EXCEPT !.regs = [n \in DOMAIN r.code |-> 0]]))
=============================================================================

------------------------------- MODULE Scopes -------------------------------
(***************************************************************************)
(* The scopes of the builder: class Scope of cminusf_builder.hpp and the   *)
(* visitors of declarations and of compound statements in                  *)
(* cminusf_builder.cpp, for a program of global variables and one          *)
(* function.                                                               *)
(*                                                                         *)
(* The program is chosen while it is visited: Size bounds its declarations *)
(* and inner compound statements, together with the expression that module *)
(* Expressions visits.  Names are those of variables; functions have other *)
(* names, and no name is declared twice in one scope (the language forbids *)
(* both).                                                                  *)
(***************************************************************************)
EXTENDS Integers, Sequences, SequencesExt

CONSTANTS
  Names,        \* the names of variables
  VarTypes,     \* the types of the variables that may be declared,
  ParamTypes,   \* of the parameters,
  ReturnTypes,  \* and of the function
  Size          \* bounds the program

VARIABLES
  place,     \* "globals", "params", "decls", "stmts" or "body" (the
             \* expression): what the program may go on with
  left,      \* how much of the program is still to be chosen
  scope,     \* Scope::inner, the bindings of the open scopes
  preEnter,  \* pre_enter_scope: the function has entered its body's scope
  exits,     \* need_exit_scope of the compound statements being visited
  retTy,     \* the return type of cur_fun
  vars,      \* the variables: what they are, and by history where declared
  path,      \* history: the compound statements being visited, outermost first
  opened     \* history: how many compound statements have been visited

scopeVars == <<place, left, scope, preEnter, exits, retTy, vars, path, opened>>

\* Type::get_pointer_element_type; the alloca of a variable is a pointer.
Pointee ==
  "i32*" :> "i32" @@ "float*" :> "float" @@ "[i32]*" :> "[i32]" @@ "[float]*" :> "[float]"
    @@ "i32**" :> "i32*" @@ "float**" :> "float*"
ScalarVar  == {"i32*", "float*"}
ArrayVar   == {"[i32]*", "[float]*"}
ArrayParam == {"i32**", "float**"}
\* The type of the elements' addresses, of an array or an array parameter.
ElemPtr == "[i32]*" :> "i32*" @@ "[float]*" :> "float*" @@ "i32**" :> "i32*" @@ "float**" :> "float*"

NoBindings == [n \in {} |-> 0]

\* The builder's constructor enters the global scope, with the four functions
\* of the runtime library.
ScopeInit ==
  /\ place = "globals" /\ left = Size
  /\ scope = <<NoBindings>> /\ preEnter = FALSE /\ exits = << >>
  /\ retTy = "void" /\ vars = << >> /\ path = << >> /\ opened = 0
----------------------------------------------------------------------------
\* Scope::find, 0 for nullptr
Find(name) ==
  LET open == {s \in DOMAIN scope : name \in DOMAIN scope[s]}
  IN  IF open = {} THEN 0 ELSE scope[CHOOSE s \in open : \A t \in open : t <= s][name]

\* Scope::push leaves a binding as it is.
Push(inner, name, d) ==
  [n \in DOMAIN inner \cup {name} |-> IF n \in DOMAIN inner THEN inner[n] ELSE d]

\* A declaration: the alloca or global variable, bound in the innermost scope.
Declare(name, ty) ==
  /\ left >= 1 /\ left' = left - 1
  /\ \A d \in DOMAIN vars : ~(vars[d].name = name /\ vars[d].in = path)
  /\ vars' = Append(vars, [name |-> name, ty |-> ty, global |-> Len(scope) = 1, in |-> path])
  /\ scope' = [scope EXCEPT ![Len(scope)] = Push(@, name, Len(vars) + 1)]

VisitVarDeclaration ==
  /\ place \in {"globals", "decls"}
  /\ \E name \in Names, ty \in VarTypes : Declare(name, ty)
  /\ UNCHANGED <<place, preEnter, exits, retTy, path, opened>>

(* The function is pushed to the global scope before its own is entered;    *)
(* its body will not enter one again.                                       *)
VisitFunDeclaration ==
  /\ place = "globals"
  /\ place' = "params"
  /\ retTy' \in ReturnTypes
  /\ scope' = Append(scope, NoBindings)
  /\ preEnter' = TRUE
  /\ path' = <<1>> /\ opened' = 1
  /\ UNCHANGED <<left, exits, vars>>

VisitParam ==
  /\ place = "params"
  /\ \E name \in Names, ty \in ParamTypes : Declare(name, ty)
  /\ UNCHANGED <<place, preEnter, exits, retTy, path, opened>>

\* Faulty variant: pre_enter_scope is not reset by the body.
EnterCompoundPreEntered ==
  /\ exits' = Append(exits, ~preEnter)
  /\ preEnter' = preEnter
  /\ scope' = IF preEnter THEN scope ELSE Append(scope, NoBindings)

\* The head of visit(ASTCompoundStmt), of the body or of a statement in it.
EnterCompound ==
  /\ exits' = Append(exits, ~preEnter)
  /\ preEnter' = FALSE
  /\ scope' = IF preEnter THEN scope ELSE Append(scope, NoBindings)

VisitBody ==
  /\ place = "params" /\ place' = "decls"
  /\ EnterCompound
  /\ UNCHANGED <<left, retTy, vars, path, opened>>

VisitCompoundStmt ==
  /\ place \in {"decls", "stmts"} /\ place' = "decls"
  /\ left >= 1 /\ left' = left - 1
  /\ EnterCompound
  /\ path' = Append(path, opened + 1) /\ opened' = opened + 1
  /\ UNCHANGED <<retTy, vars>>

ExitCompound ==
  /\ place \in {"decls", "stmts"} /\ Len(exits) > 1
  /\ place' = "stmts"
  /\ exits' = Front(exits)
  /\ scope' = IF Last(exits) THEN Front(scope) ELSE scope
  /\ path' = Front(path)
  /\ UNCHANGED <<left, preEnter, retTy, vars, opened>>

(* The last statement has been visited: every visitor of a compound         *)
(* statement leaves its scope, then the function leaves its own.            *)
LeaveScopes ==
  /\ place' = "end"
  /\ scope' = SubSeq(scope, 1, Len(scope) - Cardinality({i \in DOMAIN exits : exits[i]}) - 1)
  /\ exits' = << >> /\ path' = << >>
  /\ UNCHANGED <<preEnter, retTy, vars, opened>>

ScopeNext ==
  \/ VisitVarDeclaration \/ VisitFunDeclaration \/ VisitParam
  \/ VisitBody \/ VisitCompoundStmt \/ ExitCompound
----------------------------------------------------------------------------
\* The variable that a name stands for by the rules of static scoping: the
\* one declared innermost around this place.
Lexical(name) ==
  LET around == {d \in DOMAIN vars : vars[d].name = name /\ IsPrefix(vars[d].in, path)}
  IN  IF around = {} THEN 0
      ELSE CHOOSE d \in around : \A e \in around : Len(vars[e].in) <= Len(vars[d].in)

(* Wherever the builder is in the program, a name is found to be the        *)
(* variable that is declared innermost around that place, the function's    *)
(* parameters and the variables of its body being in one scope; a scope     *)
(* that is not entered or not left hides or shows a variable elsewhere.     *)
FoundIsLexical == \A name \in Names : Find(name) = Lexical(name)
=============================================================================

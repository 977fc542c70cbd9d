---------------------------- MODULE ScopeProofs ----------------------------
(***************************************************************************)
(* Proof that a name is found to be the variable that static scoping says  *)
(* (FoundIsLexical), for programs of any size, any nesting of compound     *)
(* statements and any sets of names and types.                             *)
(***************************************************************************)
EXTENDS Expressions, FiniteSetTheorems, WellFoundedInduction, TLAPS

Variable == [name : Names, ty : VarTypes \cup ParamTypes, global : BOOLEAN, in : Seq(Nat)]
Bindings == UNION {[A -> Nat] : A \in SUBSET Names}

ScopeTypeOK ==
  /\ scope \in Seq(Bindings)
  /\ vars \in Seq(Variable)
  /\ path \in Seq(Nat)
  /\ opened \in Nat
  /\ exits \in Seq(BOOLEAN)
  /\ preEnter \in BOOLEAN

\* How many scopes and compound statements are open in which place, and
\* which of the compound statements has to leave its scope.
OpenScopes ==
  /\ Len(scope) = Len(path) + 1
  /\ place = "globals" => opened = 0
  /\ place \in {"globals", "end"} => path = << >>
  /\ place \in {"globals", "params", "end"} => exits = << >>
  /\ preEnter <=> place = "params"
  /\ place = "params" => Len(path) = 1
  /\ place \in {"decls", "stmts", "body"} =>
       Len(path) >= 1 /\ Len(exits) = Len(path) /\ \A i \in DOMAIN exits : exits[i] <=> i # 1

\* A compound statement that will be visited is none that has been.
NumbersUsed ==
  /\ \A i \in DOMAIN path : path[i] \in 1..opened
  /\ \A d \in DOMAIN vars : \A i \in DOMAIN vars[d].in : vars[d].in[i] \in 1..opened

\* No name is declared twice in one scope.
DeclaredOnce ==
  \A d, e \in DOMAIN vars : vars[d].name = vars[e].name /\ vars[d].in = vars[e].in => d = e

\* The variable d is in the innermost scope of level s of this place.
DeclaredIn(d, s) ==
  /\ d \in DOMAIN vars /\ Len(vars[d].in) = s - 1
  /\ \A i \in 1..s - 1 : vars[d].in[i] = path[i]

\* A scope binds the variables that are declared in its compound statement.
ScopesBindTheirs ==
  \A s \in DOMAIN scope :
    /\ \A n \in DOMAIN scope[s] : DeclaredIn(scope[s][n], s) /\ vars[scope[s][n]].name = n
    /\ \A d : DeclaredIn(d, s) => vars[d].name \in DOMAIN scope[s]

ScopeInv == ScopeTypeOK /\ OpenScopes /\ NumbersUsed /\ DeclaredOnce /\ ScopesBindTheirs
----------------------------------------------------------------------------
(***************************************************************************)
(* Every step keeps the invariant                                          *)
(***************************************************************************)

\* Two lists of the same length with the same elements are equal.
LEMMA SeqEqual ==
  ASSUME NEW S, NEW s \in Seq(S), NEW t \in Seq(S), Len(s) = Len(t),
         \A i \in 1..Len(s) : s[i] = t[i]
  PROVE  s = t
OBVIOUS

\* A variable knows its compound statements by their numbers.
LEMMA VariableIn ==
  ASSUME ScopeTypeOK
  PROVE  \A d \in DOMAIN vars : vars[d].in \in Seq(Nat)
<1>1. \A d \in DOMAIN vars : vars[d] \in Variable
  BY DEF ScopeTypeOK
<1>. QED
  BY <1>1 DEF Variable

\* The steps that leave everything but left and place as it was.
LEMMA ScopeKept ==
  ASSUME ScopeInv, UNCHANGED <<scope, preEnter, exits, vars, path, opened>>,
         \/ place' = place
         \/ place \in {"decls", "stmts"} /\ place' = "body"
  PROVE  ScopeInv'
<1>1. ScopeTypeOK'
  BY DEF ScopeInv, ScopeTypeOK
<1>2. OpenScopes'
  BY DEF ScopeInv, OpenScopes
<1>3. NumbersUsed' /\ DeclaredOnce'
  BY DEF ScopeInv, NumbersUsed, DeclaredOnce
<1>4. ScopesBindTheirs'
  BY DEF ScopeInv, ScopesBindTheirs, DeclaredIn
<1>. QED
  BY <1>1, <1>2, <1>3, <1>4 DEF ScopeInv

\* Nothing is declared at first.
LEMMA ScopeStart ==
  ASSUME ScopeInit
  PROVE  ScopeInv
<1>1. /\ scope = <<NoBindings>> /\ vars = << >> /\ path = << >> /\ opened = 0 /\ exits = << >>
      /\ preEnter = FALSE /\ place = "globals"
  BY DEF ScopeInit
<1>2. NoBindings \in Bindings /\ DOMAIN NoBindings = {}
  <2>1. NoBindings \in [{} -> Nat] /\ DOMAIN NoBindings = {}
    BY DEF NoBindings
  <2>. QED
    BY <2>1 DEF Bindings
<1>3. ScopeTypeOK
  <2>1. <<NoBindings>> \in Seq(Bindings)
    BY <1>2
  <2>2. << >> \in Seq(Variable) /\ << >> \in Seq(Nat) /\ << >> \in Seq(BOOLEAN)
    OBVIOUS
  <2>. QED
    BY <1>1, <2>1, <2>2, Zenon DEF ScopeTypeOK
<1>4. OpenScopes /\ NumbersUsed /\ DeclaredOnce
  BY <1>1 DEF OpenScopes, NumbersUsed, DeclaredOnce
<1>5. ScopesBindTheirs
  BY <1>1, <1>2 DEF ScopesBindTheirs, DeclaredIn
<1>. QED
  BY <1>3, <1>4, <1>5 DEF ScopeInv

\* A declaration, of a global, a parameter or a local variable.
LEMMA ScopeDeclare ==
  ASSUME ScopeInv, NEW name \in Names, NEW ty \in VarTypes \cup ParamTypes, Declare(name, ty),
         UNCHANGED <<place, preEnter, exits, path, opened>>
  PROVE  ScopeInv'
<1>. DEFINE new == [name |-> name, ty |-> ty, global |-> Len(scope) = 1, in |-> path]
<1>n. PICK n : n = Len(vars) + 1
  OBVIOUS
<1>p. PICK top : top = Len(scope)
  OBVIOUS
<1>t. ScopeTypeOK
  BY DEF ScopeInv
<1>0. new \in Variable
  BY <1>t DEF ScopeTypeOK, Variable
<1>. HIDE DEF new
<1>1. /\ vars' = Append(vars, new)
      /\ DOMAIN vars = 1..Len(vars) /\ Len(vars) \in Nat /\ n \in Nat
      /\ DOMAIN vars' = 1..n
      /\ \A d \in DOMAIN vars : vars'[d] = vars[d]
      /\ vars'[n] = new
      /\ vars' \in Seq(Variable)
  <2>1. vars' = Append(vars, new)
    BY DEF Declare, new
  <2>2. vars \in Seq(Variable)
    BY <1>t DEF ScopeTypeOK
  <2>. QED
    BY <2>1, <2>2, <1>0, <1>n
<1>2. /\ \A d : d \in DOMAIN vars' <=> d \in DOMAIN vars \/ d = n
      /\ n \notin DOMAIN vars
  BY <1>1
<1>3. top \in DOMAIN scope /\ DOMAIN scope = 1..top /\ top = Len(path) + 1 /\ Len(path) \in Nat
  BY <1>t, <1>p DEF ScopeInv, OpenScopes, ScopeTypeOK
<1>4. \A d \in DOMAIN vars : ~(vars[d].name = name /\ vars[d].in = path)
  BY DEF Declare
<1>5. new.name = name /\ new.in = path
  BY DEF new
<1>6. \A d \in DOMAIN vars : vars[d].in \in Seq(Nat)
  BY <1>t, VariableIn
<1>7. \A s \in DOMAIN scope : \E A \in SUBSET Names : scope[s] \in [A -> Nat]
  BY <1>t DEF ScopeTypeOK, Bindings
<1>. DEFINE old == scope[top]
<1>8. PICK A \in SUBSET Names : old \in [A -> Nat]
  BY <1>7, <1>3
<1>9. /\ DOMAIN Push(old, name, n) = A \cup {name}
      /\ \A x \in A : Push(old, name, n)[x] = old[x]
      /\ name \notin A => Push(old, name, n)[name] = n
  BY <1>8 DEF Push
<1>10. /\ DOMAIN scope' = DOMAIN scope
       /\ \A s \in DOMAIN scope : s # top => scope'[s] = scope[s]
       /\ scope'[top] = Push(old, name, n)
  BY <1>3, <1>n, <1>p DEF Declare
\* The name is new in the innermost scope.
<1>11. name \notin A
  <2>1. SUFFICES ASSUME name \in A PROVE FALSE
    OBVIOUS
  <2>2. DeclaredIn(old[name], top) /\ vars[old[name]].name = name
    BY <2>1, <1>3, <1>8 DEF ScopeInv, ScopesBindTheirs
  <2>. DEFINE d == old[name]
  <2>3. d \in DOMAIN vars /\ Len(vars[d].in) = Len(path) /\ \A i \in 1..Len(path) : vars[d].in[i] = path[i]
    BY <2>2, <1>3 DEF DeclaredIn
  <2>4. vars[d].in = path
    <3>1. path \in Seq(Nat) /\ vars[d].in \in Seq(Nat)
      BY <1>6, <1>t, <2>3 DEF ScopeTypeOK
    <3>. QED
      BY <2>3, <3>1, SeqEqual
  <2>. QED
    BY <2>2, <2>3, <2>4, <1>4
<1>12. \A x : x \in DOMAIN Push(old, name, n) <=> x \in DOMAIN old \/ x = name
  BY <1>8, <1>9
<1>13. /\ \A x \in DOMAIN old : Push(old, name, n)[x] = old[x]
       /\ Push(old, name, n)[name] = n /\ name \notin DOMAIN old
  BY <1>8, <1>9, <1>11
<1>14. Push(old, name, n) \in Bindings
  <2>1. Push(old, name, n) \in [A \cup {name} -> Nat]
    BY <1>1, <1>8, <1>9, <1>11 DEF Push
  <2>2. A \cup {name} \in SUBSET Names
    OBVIOUS
  <2>. QED
    BY <2>1, <2>2 DEF Bindings
<1>15. /\ path' = path /\ opened' = opened /\ exits' = exits /\ preEnter' = preEnter /\ place' = place
  OBVIOUS
<1>. HIDE DEF old
<1>16. ScopeTypeOK'
  <2>1. scope' \in Seq(Bindings)
    BY <1>t, <1>3, <1>n, <1>p, <1>14 DEF ScopeTypeOK, Declare, old
  <2>. QED
    BY <1>t, <1>1, <1>15, <2>1 DEF ScopeTypeOK
<1>17. OpenScopes'
  <2>1. Len(scope') = Len(scope)
    BY <1>t, <1>14, <1>3, <1>n, <1>p DEF Declare, ScopeTypeOK, old
  <2>. QED
    BY <1>15, <2>1 DEF ScopeInv, OpenScopes
<1>18. NumbersUsed'
  <2>1. \A d \in DOMAIN vars' : \A i \in DOMAIN vars'[d].in : vars'[d].in[i] \in 1..opened
    BY <1>1, <1>2, <1>5 DEF ScopeInv, NumbersUsed
  <2>. QED
    BY <2>1, <1>15 DEF ScopeInv, NumbersUsed
<1>19. DeclaredOnce'
  BY <1>1, <1>2, <1>4, <1>5 DEF ScopeInv, DeclaredOnce
\* The new variable belongs to the innermost scope, the others to theirs.
<1>20. \A d, s : DeclaredIn(d, s) => DeclaredIn(d, s)'
  BY <1>1, <1>2, <1>15 DEF DeclaredIn
<1>21. \A d, s : DeclaredIn(d, s)' => DeclaredIn(d, s) \/ d = n
  BY <1>1, <1>2, <1>15 DEF DeclaredIn
<1>22. /\ DeclaredIn(n, top)'
       /\ \A s \in DOMAIN scope : DeclaredIn(n, s)' => s = top
  BY <1>1, <1>2, <1>3, <1>5, <1>15 DEF DeclaredIn
<1>23. ScopesBindTheirs'
  <2>1. ASSUME NEW s \in DOMAIN scope, NEW x \in DOMAIN scope'[s]
        PROVE  (DeclaredIn(scope[s][x], s) /\ vars[scope[s][x]].name = x)'
    <3>1. CASE s = top /\ x = name
      BY <3>1, <1>1, <1>5, <1>10, <1>13, <1>22
    <3>2. CASE s # top \/ x # name
      <4>1. x \in DOMAIN scope[s] /\ scope'[s][x] = scope[s][x]
        BY <3>2, <1>10, <1>12, <1>13 DEF old
      <4>2. DeclaredIn(scope[s][x], s) /\ vars[scope[s][x]].name = x
        BY <4>1 DEF ScopeInv, ScopesBindTheirs
      <4>. QED
        BY <4>1, <4>2, <1>1, <1>20 DEF DeclaredIn
    <3>. QED
      BY <3>1, <3>2
  <2>2. ASSUME NEW s \in DOMAIN scope, NEW d, DeclaredIn(d, s)'
        PROVE  vars'[d].name \in DOMAIN scope'[s]
    <3>1. CASE d = n
      BY <2>2, <3>1, <1>1, <1>5, <1>10, <1>12, <1>22
    <3>2. CASE d # n
      <4>1. DeclaredIn(d, s)
        BY <2>2, <3>2, <1>21
      <4>2. vars[d].name \in DOMAIN scope[s] /\ vars'[d] = vars[d]
        BY <4>1, <1>1 DEF ScopeInv, ScopesBindTheirs, DeclaredIn
      <4>. QED
        BY <4>2, <1>10, <1>12 DEF old
    <3>. QED
      BY <3>1, <3>2
  <2>. QED
    BY <2>1, <2>2, <1>10 DEF ScopesBindTheirs
<1>. QED
  BY <1>16, <1>17, <1>18, <1>19, <1>23 DEF ScopeInv

\* The scope of a compound statement, number k, that no variable is in yet.
LEMMA ScopeOpened ==
  ASSUME ScopeInv, NEW k \in Nat, \A d \in DOMAIN vars : \A i \in DOMAIN vars[d].in : vars[d].in[i] # k,
         path' = Append(path, k), scope' = Append(scope, NoBindings), vars' = vars
  PROVE  ScopesBindTheirs'
<1>m. PICK m : m = Len(path)
  OBVIOUS
<1>1. /\ scope \in Seq(Bindings) /\ path \in Seq(Nat) /\ m \in Nat
      /\ DOMAIN scope = 1..m + 1 /\ DOMAIN path = 1..m /\ Len(scope) = m + 1
  BY <1>m DEF ScopeInv, ScopeTypeOK, OpenScopes
<1>2. /\ DOMAIN scope' = 1..m + 2
      /\ \A s \in DOMAIN scope : scope'[s] = scope[s] /\ s \in Nat /\ s <= m + 1
      /\ scope'[m + 2] = NoBindings
      /\ \A i \in 1..m : path'[i] = path[i]
      /\ path'[m + 1] = k
  BY <1>1, <1>m
<1>3. \A s : s \in DOMAIN scope' <=> s \in DOMAIN scope \/ s = m + 2
  BY <1>1, <1>2
<1>4. ASSUME NEW s \in DOMAIN scope, NEW d
      PROVE  DeclaredIn(d, s)' <=> DeclaredIn(d, s)
  <2>1. s \in Nat /\ \A i \in 1..s - 1 : i \in 1..m /\ path'[i] = path[i]
    BY <1>1, <1>2
  <2>. QED
    BY <2>1 DEF DeclaredIn
<1>5. ASSUME NEW d, DeclaredIn(d, m + 2)'
      PROVE  FALSE
  <2>1. d \in DOMAIN vars /\ Len(vars[d].in) = m + 1 /\ vars[d].in[m + 1] = k
    BY <1>1, <1>2, <1>5 DEF DeclaredIn
  <2>2. vars[d].in \in Seq(Nat)
    BY <2>1, VariableIn DEF ScopeInv
  <2>3. m + 1 \in DOMAIN vars[d].in
    BY <2>1, <2>2, <1>1
  <2>. QED
    BY <2>1, <2>3
<1>6. DOMAIN NoBindings = {}
  BY DEF NoBindings
<1>. HIDE DEF NoBindings
<1>7. ASSUME NEW s \in DOMAIN scope', NEW x \in DOMAIN scope'[s]
      PROVE  (DeclaredIn(scope[s][x], s) /\ vars[scope[s][x]].name = x)'
  <2>1. s \in DOMAIN scope /\ scope'[s] = scope[s]
    BY <1>2, <1>3, <1>6, <1>7
  <2>2. DeclaredIn(scope[s][x], s) /\ vars[scope[s][x]].name = x
    BY <2>1, <1>7 DEF ScopeInv, ScopesBindTheirs
  <2>. QED
    BY <2>1, <2>2, <1>4
<1>8. ASSUME NEW s \in DOMAIN scope', NEW d, DeclaredIn(d, s)'
      PROVE  vars'[d].name \in DOMAIN scope'[s]
  <2>1. s \in DOMAIN scope /\ scope'[s] = scope[s]
    BY <1>2, <1>3, <1>5, <1>8
  <2>. QED
    BY <2>1, <1>4, <1>8 DEF ScopeInv, ScopesBindTheirs
<1>. QED
  BY <1>7, <1>8 DEF ScopesBindTheirs

\* Only the outermost k compound statements are left open.
LEMMA ScopesClosed ==
  ASSUME ScopeInv, NEW k \in 0..Len(path),
         path' = SubSeq(path, 1, k), scope' = SubSeq(scope, 1, k + 1), vars' = vars
  PROVE  ScopesBindTheirs'
<1>1. /\ scope \in Seq(Bindings) /\ path \in Seq(Nat)
      /\ Len(scope) = Len(path) + 1
  BY DEF ScopeInv, ScopeTypeOK, OpenScopes
<1>2. /\ DOMAIN scope' = 1..k + 1
      /\ \A s \in 1..k + 1 : scope'[s] = scope[s] /\ s \in DOMAIN scope
      /\ \A i \in 1..k : path'[i] = path[i]
  BY <1>1
<1>4. ASSUME NEW s \in DOMAIN scope', NEW d
      PROVE  DeclaredIn(d, s)' <=> DeclaredIn(d, s)
  <2>1. s \in Nat /\ \A i \in 1..s - 1 : i \in 1..k /\ path'[i] = path[i]
    BY <1>2
  <2>. QED
    BY <2>1 DEF DeclaredIn
<1>7. ASSUME NEW s \in DOMAIN scope', NEW x \in DOMAIN scope'[s]
      PROVE  (DeclaredIn(scope[s][x], s) /\ vars[scope[s][x]].name = x)'
  <2>2. DeclaredIn(scope[s][x], s) /\ vars[scope[s][x]].name = x
    BY <1>2, <1>7 DEF ScopeInv, ScopesBindTheirs
  <2>. QED
    BY <2>2, <1>2, <1>4
<1>8. ASSUME NEW s \in DOMAIN scope', NEW d, DeclaredIn(d, s)'
      PROVE  vars'[d].name \in DOMAIN scope'[s]
  BY <1>2, <1>4, <1>8 DEF ScopeInv, ScopesBindTheirs
<1>. QED
  BY <1>7, <1>8 DEF ScopesBindTheirs

\* The invariant, but for what a step does to the bindings.
LEMMA ScopeEnters ==
  ASSUME ScopeInv, NEW k \in Nat, k = opened + 1, NEW B \in Seq(BOOLEAN),
         path' = Append(path, k), opened' = k, scope' = Append(scope, NoBindings), vars' = vars,
         exits' = B, preEnter' \in BOOLEAN
  PROVE  ScopeTypeOK' /\ NumbersUsed' /\ DeclaredOnce' /\ ScopesBindTheirs' /\ Len(scope') = Len(path') + 1
<1>t. ScopeTypeOK
  BY DEF ScopeInv
<1>1. NoBindings \in Bindings
  <2>1. NoBindings \in [{} -> Nat]
    BY DEF NoBindings
  <2>. QED
    BY <2>1 DEF Bindings
<1>2. ScopeTypeOK'
  <2>1. scope' \in Seq(Bindings) /\ path' \in Seq(Nat) /\ opened' \in Nat
    BY <1>t, <1>1 DEF ScopeTypeOK
  <2>. QED
    BY <2>1, <1>t DEF ScopeTypeOK
<1>3. opened \in Nat /\ path \in Seq(Nat)
  BY <1>t DEF ScopeTypeOK
<1>4. \A d \in DOMAIN vars : \A i \in DOMAIN vars[d].in : vars[d].in[i] \in 1..opened
  BY DEF ScopeInv, NumbersUsed
<1>5. \A i \in DOMAIN path' : path'[i] \in 1..opened'
  <2>1. \A i \in DOMAIN path : path[i] \in 1..opened
    BY DEF ScopeInv, NumbersUsed
  <2>2. \A i \in DOMAIN path' : (i \in DOMAIN path /\ path'[i] = path[i]) \/ path'[i] = k
    BY <1>3
  <2>. QED
    BY <2>1, <2>2, <1>3
<1>6. NumbersUsed'
  BY <1>3, <1>4, <1>5 DEF NumbersUsed
<1>7. DeclaredOnce'
  BY DEF ScopeInv, DeclaredOnce
<1>8. ScopesBindTheirs'
  <2>1. \A d \in DOMAIN vars : \A i \in DOMAIN vars[d].in : vars[d].in[i] # k
    BY <1>3, <1>4
  <2>. QED
    BY <2>1, ScopeOpened
<1>9. Len(scope') = Len(path') + 1
  BY <1>t, <1>1 DEF ScopeInv, OpenScopes, ScopeTypeOK
<1>. QED
  BY <1>2, <1>6, <1>7, <1>8, <1>9

\* The function: its scope is for its parameters and for its body.
LEMMA ScopeFunction ==
  ASSUME ScopeInv, VisitFunDeclaration
  PROVE  ScopeInv'
<1>t. ScopeTypeOK
  BY DEF ScopeInv
<1>1. /\ place' = "params" /\ path = << >> /\ exits = << >> /\ opened = 0
      /\ path' = <<1>> /\ opened' = 1 /\ preEnter' = TRUE
      /\ exits' = exits /\ vars' = vars /\ scope' = Append(scope, NoBindings)
  BY DEF ScopeInv, OpenScopes, VisitFunDeclaration
<1>2. path' = Append(path, 1) /\ 1 = opened + 1 /\ exits \in Seq(BOOLEAN)
  BY <1>1, <1>t DEF ScopeTypeOK
<1>3. ScopeTypeOK' /\ NumbersUsed' /\ DeclaredOnce' /\ ScopesBindTheirs' /\ Len(scope') = Len(path') + 1
  BY <1>1, <1>2, ScopeEnters
<1>4. OpenScopes'
  BY <1>1, <1>3 DEF OpenScopes
<1>. QED
  BY <1>3, <1>4 DEF ScopeInv

\* The body of the function does not enter a scope.
LEMMA ScopeBody ==
  ASSUME ScopeInv, VisitBody
  PROVE  ScopeInv'
<1>t. ScopeTypeOK
  BY DEF ScopeInv
<1>1. /\ place = "params" /\ place' = "decls" /\ preEnter /\ exits = << >>
      /\ exits' = Append(exits, FALSE) /\ preEnter' = FALSE /\ scope' = scope
      /\ vars' = vars /\ path' = path /\ opened' = opened
  BY <1>t DEF ScopeInv, OpenScopes, VisitBody, EnterCompound, ScopeTypeOK
<1>2. ScopeTypeOK'
  <2>1. exits' \in Seq(BOOLEAN)
    BY <1>1
  <2>. QED
    BY <1>1, <1>t, <2>1 DEF ScopeTypeOK
<1>3. OpenScopes'
  <2>1. Len(exits') = 1 /\ \A i \in DOMAIN exits' : i = 1 /\ exits'[i] = FALSE
    <3>1. exits \in Seq(BOOLEAN) /\ Len(exits) = 0 /\ exits' = Append(exits, FALSE)
      BY <1>1, <1>t DEF ScopeTypeOK
    <3>2. Len(exits') = 1 /\ DOMAIN exits' = 1..1 /\ exits'[1] = FALSE
      BY <3>1
    <3>. QED
      BY <3>2
  <2>2. Len(path') = 1 /\ Len(scope') = Len(path') + 1
    BY <1>1 DEF ScopeInv, OpenScopes
  <2>. QED
    BY <1>1, <2>1, <2>2 DEF OpenScopes
<1>4. NumbersUsed' /\ DeclaredOnce'
  BY <1>1 DEF ScopeInv, NumbersUsed, DeclaredOnce
<1>5. ScopesBindTheirs'
  BY <1>1 DEF ScopeInv, ScopesBindTheirs, DeclaredIn
<1>. QED
  BY <1>2, <1>3, <1>4, <1>5 DEF ScopeInv

\* A compound statement in the body enters a scope that it will leave.
LEMMA ScopeCompound ==
  ASSUME ScopeInv, VisitCompoundStmt
  PROVE  ScopeInv'
<1>t. ScopeTypeOK
  BY DEF ScopeInv
<1>k. PICK k : k = opened + 1
  OBVIOUS
<1>1. /\ place' = "decls" /\ ~preEnter
      /\ exits' = Append(exits, TRUE) /\ preEnter' = FALSE /\ scope' = Append(scope, NoBindings)
      /\ vars' = vars /\ path' = Append(path, k) /\ opened' = k
  BY <1>t, <1>k DEF ScopeInv, OpenScopes, VisitCompoundStmt, EnterCompound, ScopeTypeOK
<1>2. k \in Nat /\ Append(exits, TRUE) \in Seq(BOOLEAN)
  BY <1>t, <1>k DEF ScopeTypeOK
<1>3. ScopeTypeOK' /\ NumbersUsed' /\ DeclaredOnce' /\ ScopesBindTheirs' /\ Len(scope') = Len(path') + 1
  BY <1>k, <1>1, <1>2, ScopeEnters
<1>4. OpenScopes'
  <2>1. exits \in Seq(BOOLEAN) /\ path \in Seq(Nat)
    BY <1>t DEF ScopeTypeOK
  <2>2. Len(path) >= 1 /\ Len(exits) = Len(path) /\ \A i \in DOMAIN exits : exits[i] <=> i # 1
    BY DEF ScopeInv, OpenScopes, VisitCompoundStmt
  <2>3. Len(exits') = Len(path') /\ Len(path') >= 1 /\ \A i \in DOMAIN exits' : exits'[i] <=> i # 1
    BY <1>1, <1>2, <2>1, <2>2
  <2>. QED
    BY <1>1, <1>3, <2>3 DEF OpenScopes
<1>. QED
  BY <1>3, <1>4 DEF ScopeInv

\* It leaves it.
LEMMA ScopeExit ==
  ASSUME ScopeInv, ExitCompound
  PROVE  ScopeInv'
<1>t. ScopeTypeOK
  BY DEF ScopeInv
<1>k. PICK k : k = Len(path) - 1
  OBVIOUS
<1>1. /\ scope \in Seq(Bindings) /\ exits \in Seq(BOOLEAN) /\ path \in Seq(Nat)
      /\ Len(exits) = Len(path) /\ Len(scope) = Len(path) + 1 /\ Len(exits) > 1
      /\ \A i \in DOMAIN exits : exits[i] <=> i # 1
  BY <1>t DEF ScopeInv, OpenScopes, ScopeTypeOK, ExitCompound
<1>2. Last(exits)
  BY <1>1 DEF Last
<1>3. /\ place' = "stmts" /\ ~preEnter /\ preEnter' = preEnter
      /\ scope' = SubSeq(scope, 1, k + 1) /\ path' = SubSeq(path, 1, k) /\ exits' = SubSeq(exits, 1, k)
      /\ vars' = vars /\ opened' = opened
  BY <1>1, <1>2, <1>k DEF ExitCompound, Front, ScopeInv, OpenScopes
<1>4. k \in 0..Len(path) /\ k >= 1
  BY <1>1, <1>k
<1>5. ScopesBindTheirs'
  BY <1>3, <1>4, ScopesClosed
<1>6. ScopeTypeOK'
  <2>1. scope' \in Seq(Bindings) /\ exits' \in Seq(BOOLEAN) /\ path' \in Seq(Nat)
    BY <1>1, <1>3, <1>4
  <2>. QED
    BY <2>1, <1>t, <1>3 DEF ScopeTypeOK
<1>7. OpenScopes'
  <2>1. /\ Len(exits') = Len(path') /\ Len(path') >= 1 /\ Len(scope') = Len(path') + 1
        /\ \A i \in DOMAIN exits' : exits'[i] <=> i # 1
    BY <1>1, <1>3, <1>4
  <2>. QED
    BY <1>3, <2>1 DEF OpenScopes
<1>8. NumbersUsed'
  <2>1. \A i \in DOMAIN path' : i \in DOMAIN path /\ path'[i] = path[i]
    BY <1>1, <1>3, <1>4
  <2>. QED
    BY <1>3, <2>1 DEF ScopeInv, NumbersUsed
<1>9. DeclaredOnce'
  BY <1>3 DEF ScopeInv, DeclaredOnce
<1>. QED
  BY <1>5, <1>6, <1>7, <1>8, <1>9 DEF ScopeInv

\* All but the global scope are left at the end of the function.
LEMMA ScopeLeave ==
  ASSUME ScopeInv, ReturnStatement
  PROVE  ScopeInv'
<1>t. ScopeTypeOK
  BY DEF ScopeInv
<1>1. /\ scope \in Seq(Bindings) /\ exits \in Seq(BOOLEAN) /\ path \in Seq(Nat)
      /\ Len(exits) = Len(path) /\ Len(scope) = Len(path) + 1 /\ Len(exits) >= 1
      /\ \A i \in DOMAIN exits : exits[i] <=> i # 1
  BY <1>t DEF ScopeInv, OpenScopes, ScopeTypeOK, ReturnStatement, ReturnTo
<1>2. Cardinality({i \in DOMAIN exits : exits[i]}) = Len(exits) - 1
  <2>1. {i \in DOMAIN exits : exits[i]} = 2..Len(exits)
    BY <1>1
  <2>2. Cardinality(2..Len(exits)) = Len(exits) - 1
    BY <1>1, FS_Interval
  <2>. QED
    BY <2>1, <2>2
<1>3. /\ place' = "end" /\ ~preEnter /\ preEnter' = preEnter
      /\ scope' = SubSeq(scope, 1, 1) /\ path' = << >> /\ exits' = << >>
      /\ vars' = vars /\ opened' = opened
  <2>1. LeaveScopes /\ place = "body"
    BY DEF ReturnStatement, ReturnTo
  <2>2. Len(scope) - (Len(exits) - 1) - 1 = 1
    BY <1>1
  <2>3. scope' = SubSeq(scope, 1, 1)
    BY <2>1, <2>2, <1>2 DEF LeaveScopes
  <2>. QED
    BY <2>1, <2>3 DEF LeaveScopes, ScopeInv, OpenScopes
<1>4. path' = SubSeq(path, 1, 0) /\ 0 \in 0..Len(path) /\ scope' = SubSeq(scope, 1, 0 + 1)
  BY <1>1, <1>3
<1>5. ScopesBindTheirs'
  BY <1>3, <1>4, ScopesClosed
<1>6. ScopeTypeOK'
  <2>1. scope' \in Seq(Bindings) /\ exits' \in Seq(BOOLEAN) /\ path' \in Seq(Nat)
    BY <1>1, <1>3
  <2>. QED
    BY <2>1, <1>t, <1>3 DEF ScopeTypeOK
<1>7. OpenScopes'
  BY <1>1, <1>3 DEF OpenScopes
<1>8. NumbersUsed' /\ DeclaredOnce'
  BY <1>3 DEF ScopeInv, NumbersUsed, DeclaredOnce
<1>. QED
  BY <1>5, <1>6, <1>7, <1>8 DEF ScopeInv

\* Every step keeps the invariant.
LEMMA ScopeStep ==
  ASSUME ScopeInv, [ExprNext]_scopeVars
  PROVE  ScopeInv'
<1>1. CASE UNCHANGED scopeVars
  BY <1>1, ScopeKept DEF scopeVars
<1>2. CASE VisitVarDeclaration
  BY <1>2, ScopeDeclare DEF VisitVarDeclaration
<1>3. CASE VisitParam
  BY <1>3, ScopeDeclare DEF VisitParam
<1>4. CASE VisitFunDeclaration
  BY <1>4, ScopeFunction
<1>5. CASE VisitBody
  BY <1>5, ScopeBody
<1>6. CASE VisitCompoundStmt
  BY <1>6, ScopeCompound
<1>7. CASE ExitCompound
  BY <1>7, ScopeExit
<1>8. CASE VisitStatement
  BY <1>8, ScopeKept DEF VisitStatement
<1>9. CASE VisitNum \/ VisitVar \/ VisitIndexedVar \/ VisitBinary \/ VisitAssign \/ VisitCall
  BY <1>9, ScopeKept DEF VisitNum, VisitVar, VisitIndexedVar, VisitBinary, VisitAssign, VisitCall, Visiting
<1>10. CASE ReturnLeft \/ ReturnRight \/ ReturnAssigned \/ ReturnAssign \/ ReturnIndex \/ ReturnArg
  BY <1>10, ScopeKept DEF ReturnLeft, ReturnRight, ReturnAssigned, ReturnAssign, ReturnIndex, ReturnArg,
                         Resumed
<1>11. CASE ReturnStatement
  BY <1>11, ScopeLeave
<1>. QED
  BY <1>1, <1>2, <1>3, <1>4, <1>5, <1>6, <1>7, <1>8, <1>9, <1>10, <1>11 DEF ExprNext, ScopeNext

\* The invariant holds of every program that is visited.
THEOREM ScopeInvariant == ScopeSpec => []ScopeInv
<1>1. ScopeInit => ScopeInv
  BY ScopeStart
<1>2. ScopeInv /\ [ExprNext]_scopeVars => ScopeInv'
  BY ScopeStep
<1>. QED
  BY <1>1, <1>2, PTL DEF ScopeSpec
----------------------------------------------------------------------------
(***************************************************************************)
(* What the invariant says of names                                        *)
(***************************************************************************)

\* A set of numbers that is bounded has a greatest one.
LEMMA Greatest ==
  ASSUME NEW T \in SUBSET Nat, T # {}, NEW m \in Nat, \A t \in T : t <= m
  PROVE  \E s \in T : \A t \in T : t <= s
<1>. DEFINE B == {b \in Nat : \A t \in T : t <= b}
            R == {e \in Nat \X Nat : e[1] < e[2]}
<1>1. OpToRel(<, Nat) = R
  BY DEF OpToRel
<1>2. IsWellFoundedOn(R, Nat)
  BY <1>1, NatLessThanWellFounded
<1>3. B \in SUBSET Nat /\ m \in B
  OBVIOUS
<1>4. \E b \in B : \A c \in B : ~ (<<c, b>> \in R)
  <2>. HIDE DEF R, B
  <2>. QED
    BY <1>2, <1>3, WFMin
<1>5. PICK b \in B : \A c \in B : ~ (<<c, b>> \in R)
  BY <1>4
<1>6. ASSUME b \notin T
      PROVE  FALSE
  <2>1. \A t \in T : t < b
    BY <1>6
  <2>2. b \in Nat /\ b - 1 \in Nat
    <3>1. PICK t \in T : TRUE
      OBVIOUS
    <3>2. b \in Nat /\ t \in Nat /\ t < b
      BY <2>1
    <3>. QED
      BY <3>2
  <2>3. \A t \in T : t <= b - 1
    BY <2>1, <2>2
  <2>4. b - 1 \in B /\ b - 1 < b
    BY <2>2, <2>3
  <2>. QED
    BY <1>5, <2>2, <2>4
<1>. QED
  BY <1>6

\* A variable is declared around this place if it is in the scope that the
\* number of its compound statements says.
LEMMA AroundMeansDeclared ==
  ASSUME ScopeInv, NEW d \in DOMAIN vars
  PROVE  /\ IsPrefix(vars[d].in, path) => Len(vars[d].in) + 1 \in DOMAIN scope /\ DeclaredIn(d, Len(vars[d].in) + 1)
         /\ \A s \in DOMAIN scope : DeclaredIn(d, s) => IsPrefix(vars[d].in, path) /\ Len(vars[d].in) = s - 1
<1>1. /\ path \in Seq(Nat) /\ vars[d].in \in Seq(Nat) /\ DOMAIN scope = 1..Len(path) + 1
  BY VariableIn DEF ScopeInv, ScopeTypeOK, OpenScopes
<1>2. IsPrefix(vars[d].in, path) <=>
        Len(vars[d].in) <= Len(path) /\ \A i \in 1..Len(vars[d].in) : vars[d].in[i] = path[i]
  <2>. DEFINE s == vars[d].in
  <2>1. SubSeq(s, 1, Len(s)) = s
    BY <1>1
  <2>2. ASSUME Len(s) <= Len(path)
        PROVE  /\ SubSeq(path, 1, Len(s)) \in Seq(Nat) /\ Len(SubSeq(path, 1, Len(s))) = Len(s)
               /\ \A i \in 1..Len(s) : SubSeq(path, 1, Len(s))[i] = path[i]
    BY <1>1, <2>2
  <2>. HIDE DEF s
  <2>3. s \in Seq(Nat)
    BY <1>1 DEF s
  <2>4. ASSUME Len(s) <= Len(path), \A i \in 1..Len(s) : s[i] = path[i]
        PROVE  s = SubSeq(path, 1, Len(s))
    BY <2>2, <2>3, <2>4, SeqEqual
  <2>5. Len(s) <= Len(path) /\ s = SubSeq(path, 1, Len(s)) => \A i \in 1..Len(s) : s[i] = path[i]
    BY <2>2
  <2>6. IsPrefix(s, path) <=> Len(s) <= Len(path) /\ s = SubSeq(path, 1, Len(s))
    BY <2>1 DEF IsPrefix
  <2>. QED
    BY <2>4, <2>5, <2>6 DEF s
<1>3. Len(vars[d].in) \in Nat /\ Len(path) \in Nat
  BY <1>1
<1>4. \A s \in Nat : DeclaredIn(d, s) <=>
        Len(vars[d].in) = s - 1 /\ \A i \in 1..s - 1 : vars[d].in[i] = path[i]
  BY DEF DeclaredIn
<1>. DEFINE in == vars[d].in
            L == Len(in)
<1>5. L \in Nat /\ L + 1 \in Nat /\ (L + 1) - 1 = L /\ (L <= Len(path) => L + 1 \in 1..Len(path) + 1)
  BY <1>3
<1>6. IsPrefix(in, path) => L + 1 \in DOMAIN scope /\ DeclaredIn(d, L + 1)
  BY <1>1, <1>2, <1>4, <1>5
<1>7. ASSUME NEW s \in DOMAIN scope, DeclaredIn(d, s)
      PROVE  IsPrefix(in, path) /\ L = s - 1
  <2>1. s \in Nat /\ s - 1 <= Len(path)
    BY <1>1, <1>3
  <2>2. L = s - 1 /\ \A i \in 1..L : in[i] = path[i]
    BY <1>4, <1>7, <2>1
  <2>. QED
    BY <1>2, <2>1, <2>2
<1>. QED
  BY <1>6, <1>7

\* The innermost scope that binds the name, and the innermost declaration of it.
LEMMA InvFindsLexical ==
  ASSUME ScopeInv, NEW name \in Names
  PROVE  Find(name) = Lexical(name)
<1>. DEFINE open == {s \in DOMAIN scope : name \in DOMAIN scope[s]}
            around == {d \in DOMAIN vars : vars[d].name = name /\ IsPrefix(vars[d].in, path)}
            inner == CHOOSE s \in open : \A t \in open : t <= s
<1>t. ScopeTypeOK
  BY DEF ScopeInv
<1>0. /\ DOMAIN scope = 1..Len(scope) /\ Len(scope) \in Nat
  BY <1>t DEF ScopeTypeOK
<1>1. \A s \in open : scope[s][name] \in around /\ Len(vars[scope[s][name]].in) = s - 1
  <2>1. ASSUME NEW s \in open
        PROVE  scope[s][name] \in DOMAIN vars /\ DeclaredIn(scope[s][name], s) /\ vars[scope[s][name]].name = name
    BY DEF ScopeInv, ScopesBindTheirs, DeclaredIn
  <2>. QED
    BY <2>1, AroundMeansDeclared
<1>2. \A d \in around : Len(vars[d].in) + 1 \in open
  BY AroundMeansDeclared DEF ScopeInv, ScopesBindTheirs
<1>3. CASE open = {}
  BY <1>2, <1>3 DEF Find, Lexical
<1>4. CASE open # {}
  <2>1. inner \in open /\ \A t \in open : t <= inner
    <3>1. open \in SUBSET Nat /\ \A s \in open : s <= Len(scope)
      BY <1>0
    <3>2. \E s \in open : \A t \in open : t <= s
      <4>. HIDE DEF open
      <4>. QED
        BY <3>1, <1>0, <1>4, Greatest
    <3>. QED
      BY <3>2
  <2>. DEFINE d == scope[inner][name]
  <2>2. d \in around /\ Len(vars[d].in) = inner - 1
    BY <1>1, <2>1
  <2>3. \A e \in around : Len(vars[e].in) <= Len(vars[d].in)
    BY <1>0, <1>2, <2>1, <2>2
  <2>4. ASSUME NEW e \in around, \A f \in around : Len(vars[f].in) <= Len(vars[e].in)
        PROVE  e = d
    <3>1. Len(vars[e].in) = Len(vars[d].in)
      BY <2>2, <2>3, <2>4, <1>t, VariableIn
    <3>2. /\ e \in DOMAIN vars /\ vars[e].in \in Seq(Nat)
          /\ d \in DOMAIN vars /\ vars[d].in \in Seq(Nat)
      BY <2>2, <1>t, VariableIn
    <3>3. DeclaredIn(e, Len(vars[e].in) + 1) /\ DeclaredIn(d, Len(vars[d].in) + 1)
      BY <2>2, <3>2, AroundMeansDeclared
    <3>4. \A i \in 1..Len(vars[e].in) : vars[e].in[i] = vars[d].in[i]
      BY <3>1, <3>2, <3>3 DEF DeclaredIn
    <3>5. vars[e].in = vars[d].in
      BY <3>1, <3>2, <3>4, SeqEqual
    <3>. QED
      BY <2>2, <3>2, <3>5 DEF ScopeInv, DeclaredOnce
  <2>5. Find(name) = d
    BY <1>4 DEF Find
  <2>6. Lexical(name) = d
    <3>. HIDE DEF d
    <3>1. (CHOOSE e \in around : \A f \in around : Len(vars[f].in) <= Len(vars[e].in)) = d
      BY <2>2, <2>3, <2>4
    <3>. QED
      BY <2>2, <3>1 DEF Lexical
  <2>. QED
    BY <2>5, <2>6
<1>. QED
  BY <1>3, <1>4

\* FoundIsLexical, of every program: wherever the builder is in it, a name is
\* found to be the variable declared innermost around that place.
THEOREM NamesFoundLexically == ScopeSpec => []FoundIsLexical
<1>1. ScopeInv => FoundIsLexical
  BY InvFindsLexical DEF FoundIsLexical
<1>. QED
  BY <1>1, ScopeInvariant, PTL
=============================================================================

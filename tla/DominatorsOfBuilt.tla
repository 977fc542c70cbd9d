------------------------- MODULE DominatorsOfBuilt -------------------------
(***************************************************************************)
(* The builder, then the Dominators pass on the function it has built, as  *)
(* src/src/cminusfc/cminusfc.cpp runs them: the pass sees every graph, and *)
(* only a graph, the builder can make.                                     *)
(***************************************************************************)
EXTENDS FunctionBuilder, Dominators

vars == <<graphVars, builderVars, domVars>>

Build   == BuilderNext /\ UNCHANGED domVars
Analyse == Done /\ DomNext /\ UNCHANGED <<graphVars, builderVars>>

Init == BuilderInit /\ DomInit
Next == Build \/ Analyse

\* The pass is sequential code: it goes on as long as it can change anything.
Spec == Init /\ [][Next]_vars /\ WF_vars(Analyse)

(* The pass ends on every graph whose reachable joins have only reachable   *)
(* predecessors.                                                            *)
TerminatesWithoutHalfDeadJoin ==
  (Done /\ ~HalfDeadJoin) ~> dpc = "end"

(* The pass ends on every function the builder makes: the test driver runs  *)
(* the compiler with -mem2reg on whole programs and waits for its output.   *)
Terminates == Done ~> dpc = "end"
=============================================================================

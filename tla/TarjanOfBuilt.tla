---------------------------- MODULE TarjanOfBuilt ----------------------------
(***************************************************************************)
(* The builder, then LoopSearch with its traversal on the function it has  *)
(* built.                                                                  *)
(***************************************************************************)
EXTENDS FunctionBuilder, Tarjan

vars == <<graphVars, builderVars, loopVars, tarjanVars>>

Build  == BuilderNext /\ UNCHANGED <<loopVars, tarjanVars>>
Search == Done /\ TarjanNext /\ UNCHANGED builderVars

Init == BuilderInit /\ TarjanInit
Next == Build \/ Search
Spec == Init /\ [][Next]_vars
=============================================================================

-------------------------- MODULE ActiveVarsOfBuilt --------------------------
(***************************************************************************)
(* The builder, then Mem2Reg, then ActiveVars on the function: what        *)
(* cminusfc -mem2reg -active-vars runs.                                    *)
(***************************************************************************)
EXTENDS FunctionBuilder, ActiveVars

vars == <<graphVars, builderVars, mem2regVars, activeVars>>

(***************************************************************************)
(* The bodies considered: assignments x = f() and x = y, returns and       *)
(* conditions of a variable, in every nesting of if, if-else and while.    *)
(***************************************************************************)
Build ==
  /\ \/ tmp = Opaque /\ VisitCall(FALSE)
     \/ tmp = Opaque /\ \E v \in Vars : VisitVar(v)
     \/ tmp # Opaque /\ \E v \in Vars : VisitAssign(v, TRUE)
     \/ tmp # Opaque /\ VisitReturn
     \/ tmp = Opaque /\ \E hasElse \in BOOLEAN : EnterSelection(hasElse)
     \/ EnterBody
     \/ tmp = Opaque /\ (EnterIteration \/ LeaveBody)
     \/ tmp = Opaque /\ (LeaveIf \/ LeaveThen \/ LeaveElse \/ LeaveFunction)
  /\ UNCHANGED <<mem2regVars, activeVars>>

Optimise == Done /\ Mem2RegNext /\ UNCHANGED <<builderVars, activeVars>>
Analyse  == ActiveNext /\ UNCHANGED <<graphVars, builderVars, mem2regVars>>

Init == BuilderInit /\ Mem2RegInit /\ ActiveInit
Next == Build \/ Optimise \/ Analyse

\* The pass is sequential code: it goes on as long as it can change anything.
Spec == Init /\ [][Next]_vars /\ WF_vars(Analyse)

(* The iteration comes to its fixpoint: live_in only grows.                 *)
AnalysisEnds == mpc = "end" ~> apc = "end"
=============================================================================

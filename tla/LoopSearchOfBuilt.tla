-------------------------- MODULE LoopSearchOfBuilt --------------------------
(***************************************************************************)
(* The builder, then LoopSearch and LoopInvHoist on the function it has    *)
(* built, with or without Mem2Reg before them: what cminusfc runs for      *)
(* -loop-inv-hoist (LoopInvHoist::run runs the search first) and for       *)
(* -mem2reg -loop-inv-hoist.                                               *)
(***************************************************************************)
EXTENDS FunctionBuilder, LoopInvHoist

CONSTANTS
  WithMem2Reg,   \* {FALSE}, {TRUE} or both: the option -mem2reg
  Mem2RegBlocks  \* bound: blocks of a function given to Mem2Reg

ASSUME OptionsAssumption == WithMem2Reg \subseteq BOOLEAN /\ Mem2RegBlocks \in Nat

vars == <<graphVars, builderVars, mem2regVars, loopVars, hoistVars>>

(***************************************************************************)
(* The bodies considered: calls of a variable, of a call or of neither,    *)
(* their results assigned, dropped or an index; arrays and their elements; *)
(* conditions of neither; in every nesting of if, if-else and while, with  *)
(* returns.                                                                *)
(***************************************************************************)
Build ==
  /\ \/ tmp = Opaque /\ \E v \in Vars : VisitVar(v)
     \/ \E dropped \in BOOLEAN : VisitCall(dropped)
     \/ tmp # Opaque /\ \E v \in Vars : VisitAssign(v, TRUE)
     \/ \E base \in {Opaque} \cup ArraysOf(insert) : VisitIndexedVar(base)
     \/ tmp = Opaque /\ VisitArrayDecl
     \/ tmp = Opaque /\ VisitReturn
     \/ tmp = Opaque /\ \E hasElse \in BOOLEAN : EnterSelection(hasElse)
     \/ tmp = Opaque /\ (EnterIteration \/ EnterBody \/ LeaveBody)
     \/ tmp = Opaque /\ (LeaveIf \/ LeaveThen \/ LeaveElse \/ LeaveFunction)
  /\ UNCHANGED <<mem2regVars, loopVars, hoistVars>>

\* PM.run: Mem2Reg comes first
Mem2RegFirst ==
  /\ Done /\ TRUE \in WithMem2Reg /\ lpc = "idle" /\ nextBlock <= Mem2RegBlocks + 1
  /\ Mem2RegNext
  /\ UNCHANGED <<builderVars, loopVars, hoistVars>>

Search ==
  /\ Done /\ mpc \in {IF m THEN "end" ELSE "idle" : m \in WithMem2Reg}
  /\ LoopNext
  /\ UNCHANGED <<builderVars, mem2regVars, hoistVars>>

Hoist == HoistNext /\ UNCHANGED builderVars

Init == BuilderInit /\ Mem2RegInit /\ LoopInit /\ HoistInit
Next == Build \/ Mem2RegFirst \/ Search \/ Hoist

\* The search is sequential code: it goes on as long as it can change anything.
Spec == Init /\ [][Next]_vars /\ WF_vars(Search)

(* The search ends: the base is taken out of every component, so there are  *)
(* fewer nodes in every round.                                              *)
SearchEnds == lpc # "idle" ~> lpc = "end"
=============================================================================

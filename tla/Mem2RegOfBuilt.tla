--------------------------- MODULE Mem2RegOfBuilt ---------------------------
(***************************************************************************)
(* The builder, then Mem2Reg, ConstPropagation or both on the function it  *)
(* has built, as the options of the driver say (src/src/cminusfc/          *)
(* cminusfc.cpp), then a run of the function: an interpreter follows one   *)
(* path of the graph and executes the instructions from before the passes, *)
(* and those from after them, side by side.  The interpreter is not code   *)
(* of the compiler; it gives both instruction lists their meaning.         *)
(***************************************************************************)
EXTENDS FunctionBuilder, ConstPropagation

CONSTANTS
  Options,      \* the sets of options considered
  AloneBlocks   \* bound: blocks of a function given to ConstPropagation alone

ASSUME OptionsAssumption == /\ Options \subseteq SUBSET {"mem2reg", "const_propagation"}
                            /\ AloneBlocks \in Nat

VARIABLES
  at,        \* the block being executed, NoBlock before the run
  mem,       \* the memory before the passes: the value of each alloca
  memAfter,  \* the memory after them
  envBefore, \* the results of the instructions before the passes
  envAfter,  \* the results of the instructions and phis after them
  usedBefore, usedAfter   \* the operands used in block at, of every
                          \* instruction that is neither a load nor a store

runVars == <<at, mem, memAfter, envBefore, envAfter, usedBefore, usedAfter>>
vars    == <<graphVars, builderVars, mem2regVars, constVars, runVars>>

Undef   == 0 - 1

(***************************************************************************)
(* The bodies considered: assignments x = literal, x = y and, in the entry *)
(* block, x = call; returns of a variable; conditions of a variable or a   *)
(* call (of loops), of constants or of nothing the passes follow (both     *)
(* Opaque); in every nesting of if, if-else and while.  The argument of a  *)
(* call or an index is used like a condition.                              *)
(***************************************************************************)
Build ==
  /\ \/ tmp = Opaque /\ VisitNum
     \/ tmp = Opaque /\ \E v \in Vars : VisitVar(v)
     \/ tmp = Opaque /\ insert = Entry /\ VisitCall(FALSE)
     \/ tmp # Opaque /\ \E v \in Vars : VisitAssign(v, TRUE)
     \/ tmp \in 1..MaxInstrs /\ VisitReturn
     \/ tmp = Opaque /\ \E hasElse \in BOOLEAN : EnterSelection(hasElse)
     \/ ~IsLiteral(tmp) /\ EnterBody
     \/ tmp = Opaque /\ (EnterIteration \/ LeaveBody)
     \/ tmp = Opaque /\ (LeaveIf \/ LeaveThen \/ LeaveElse \/ LeaveFunction)
  /\ UNCHANGED <<mem2regVars, constVars, runVars>>

(* PM.run: the passes in the order the driver adds them.                    *)
Mem2RegFirst ==
  /\ Done /\ \E o \in Options : "mem2reg" \in o
  /\ cpc = "idle" /\ Mem2RegNext
  /\ UNCHANGED <<builderVars, constVars, runVars>>

ConstPropagationNext ==
  /\ Done
  /\ \E o \in Options : "const_propagation" \in o /\ ("mem2reg" \in o <=> mpc = "end")
  /\ mpc = "idle" => nextBlock <= AloneBlocks + 1
  /\ ConstNext
  /\ UNCHANGED <<builderVars, runVars>>

Optimised ==
  \/ cpc = "end"
  \/ cpc = "idle" /\ mpc = "end" /\ {"mem2reg"} \in Options
----------------------------------------------------------------------------
ValueOf(env, o) == IF o = Opaque \/ IsLiteral(o) THEN o ELSE env[o]

Exec(st, i) ==
  CASE i.op = "load"  -> [st EXCEPT !.env[i.id] = st.mem[i.var]]
    [] i.op = "store" -> [st EXCEPT !.mem[i.var] = ValueOf(st.env, i.arg)]
    [] i.op = "call"  -> [st EXCEPT !.env[i.id] = i.id,
                                    !.used = Append(@, ValueOf(st.env, i.arg))]
    [] OTHER -> [st EXCEPT !.used = Append(@, ValueOf(st.env, i.arg))]

\* After Mem2Reg no alloca is left: a load that is left reads nothing.
ExecAfter(st, i) ==
  IF mpc = "end" /\ i.op \in {"load", "store"} THEN st ELSE Exec(st, i)

\* A phi has the value of the operand listed for the block control comes
\* from; with none listed the printed IR says undef.
PhiValue(p, from) ==
  LET for == {o \in Range(phiOps[p[1]][p[2]]) : o.bb = from}
  IN  IF for = {} THEN Undef ELSE ValueOf(envAfter, (CHOOSE o \in for : TRUE).val)

\* control goes from block from to block b, and b is executed to its end
Execute(from, b) ==
  LET before == FoldLeft(Exec, [env |-> envBefore, mem |-> mem, used |-> << >>],
                         source[b])
      withPhis == [o \in Operand |-> IF \E v \in Vars : <<b, v>> \in phis /\ o = PhiOf(b, v)
                                     THEN PhiValue(<<b, CHOOSE v \in Vars : o = PhiOf(b, v)>>, from)
                                     ELSE envAfter[o]]
      after == FoldLeft(ExecAfter, [env |-> withPhis, mem |-> memAfter, used |-> << >>],
                        code[b])
  IN  /\ at' = b
      /\ mem' = before.mem /\ envBefore' = before.env /\ usedBefore' = before.used
      /\ memAfter' = after.mem /\ envAfter' = after.env /\ usedAfter' = after.used
      /\ UNCHANGED <<graphVars, builderVars, mem2regVars, constVars>>

Run ==
  /\ Optimised
  /\ \/ at = NoBlock /\ Execute(NoBlock, Entry)
     \/ at # NoBlock /\ \E b \in Succs(at) : Execute(at, b)

Init ==
  /\ BuilderInit /\ Mem2RegInit /\ ConstInit
  /\ at = NoBlock
  /\ mem = [v \in Vars |-> Undef] /\ memAfter = [v \in Vars |-> Undef]
  /\ envBefore = [o \in Operand |-> Undef] /\ envAfter = [o \in Operand |-> Undef]
  /\ usedBefore = << >> /\ usedAfter = << >>

Next == Build \/ Mem2RegFirst \/ ConstPropagationNext \/ Run
Spec == Init /\ [][Next]_vars
----------------------------------------------------------------------------
(* The constant the condition of block at was folded with is the value it   *)
(* has in the program as written, and the target that is left is the one    *)
(* the program goes to.                                                     *)
FoldedRightly ==
  /\ Last(usedBefore) \in {Undef, folded[at].operand}
  /\ Succs(at) = {Last(source[at]).tgt[IF folded[at].zero THEN 2 ELSE 1]}

(* On every path the function uses the same values after the passes as      *)
(* before, wherever the program as written uses a value it has assigned,    *)
(* and a branch that was folded goes where its condition says.  The entries *)
(* of ConstPropagation's maps survive the block they were made in, which is *)
(* wrong unless no load finds one (~stale) or Mem2Reg came first.           *)
SameValuesUsed ==
  at # NoBlock /\ (mpc = "end" \/ ~stale) =>
    /\ Len(usedBefore) = Len(usedAfter)
    /\ \A k \in DOMAIN usedBefore :
         (usedBefore[k] # Undef /\ ~(k = Len(usedBefore) /\ at \in DOMAIN folded))
            => usedAfter[k] = usedBefore[k]
    /\ at \in DOMAIN folded => FoldedRightly


(* A load that is left in a block execution can reach (its alloca is gone)  *)
(* reads a variable that no dominating block has stored to: the rest has    *)
(* been renamed, and no store is left there.                                *)
LoadsLeftReadNothing ==
  mpc = "end" /\ cpc = "idle" =>
    \A b \in Reachable : \A i \in DOMAIN code[b] :
      /\ code[b][i].op # "store"
      /\ code[b][i].op = "load" =>
           \A c \in Reachable : Dominates(c, b) /\ c # b =>
              ~\E j \in DOMAIN source[c] :
                 source[c][j].op = "store" /\ source[c][j].var = code[b][i].var
=============================================================================

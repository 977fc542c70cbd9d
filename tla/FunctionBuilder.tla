-------------------------- MODULE FunctionBuilder --------------------------
(***************************************************************************)
(* CminusfBuilder (src/src/cminusfc/cminusf_builder.cpp) emitting the      *)
(* LightIR of one function.  The visitor is a recursive descent over the   *)
(* AST; here its call stack is the explicit variable frames, and the AST   *)
(* is chosen as the visitor reaches it, so the model builds every function *)
(* body the bounds allow.  A handler that visits a child is split at the   *)
(* visit: the part before it pushes a frame, the part after it pops it.    *)
(*                                                                         *)
(* Names, scopes and the types of expressions are left out: a variable is  *)
(* its alloca, and the value of an expression is its last operand (tmp_val *)
(* is Opaque where a statement begins: every expression sets it first).    *)
(***************************************************************************)
EXTENDS FlowGraph

VARIABLES
  insert,      \* IRBuilder::BB_, the insert point
  frames,      \* the statement visitors that have been entered and not left
  tmp,         \* tmp_val
  nextBlock,   \* next block number
  nextInstr    \* next instruction number

builderVars == <<insert, frames, tmp, nextBlock, nextInstr>>

(***************************************************************************)
(* A frame is a visitor waiting for a child.  "cond" is an IterationStmt   *)
(* evaluating its condition, "body" the same in its body (other is exprBB  *)
(* in both); "if" a SelectionStmt with no else and "then" one with an else *)
(* in their first branch (other is falseBB), "else" one in its second.     *)
(***************************************************************************)
Frame == [kind : {"fun", "cond", "body", "if", "then", "else"},
          other : Block \cup {NoBlock}, cont : Block \cup {NoBlock}]

Frm(kind, other, cont) == [kind |-> kind, other |-> other, cont |-> cont]

Done  == frames = << >>
Top   == frames[Len(frames)]
Below == SubSeq(frames, 1, Len(frames) - 1)
InFrame(kind) == frames # << >> /\ Top.kind = kind

(* Bound: that many more blocks and instructions fit, with two blocks kept  *)
(* for a loop whose condition is pending, and fewer blocks the more         *)
(* instructions there are.                                                  *)
Fits(blocks, instrs) ==
  /\ nextBlock + blocks + (IF InFrame("cond") THEN 2 ELSE 0) <= MaxBlocks + 1
  /\ nextInstr + instrs <= MaxInstrs + 1
  /\ nextBlock + blocks + InstrCost * (nextInstr + instrs - 1) <= Budget + 1
----------------------------------------------------------------------------
(***************************************************************************)
(* Expressions.  They are visited in a statement list or in a loop         *)
(* condition.                                                              *)
(***************************************************************************)

\* Faulty variant: CompoundStmt goes on after a return.
VisitingPastReturn == ~Done

\* CompoundStmt leaves its loop as soon as the insert block has a terminator,
\* so nothing is visited while it has one.
Visiting == ~Done /\ ~Terminated(insert)

Emit(i) ==
  /\ code' = PushBack(code, insert, i)
  /\ UNCHANGED <<bbs, pre, succ, insert, frames, nextBlock>>

\* ASTNum.  Literals written at different places differ.
VisitNum ==
  /\ Visiting /\ Fits(0, 1)
  /\ tmp' = Literal(nextInstr)
  /\ UNCHANGED <<graphVars, insert, frames, nextBlock, nextInstr>>

\* ASTVar without an index, as an rvalue
VisitVar(v) ==
  /\ Visiting /\ Fits(0, 1)
  /\ Emit(Load(nextInstr, v))
  /\ tmp' = Result(nextInstr)
  /\ nextInstr' = nextInstr + 1

\* ASTCall, tmp being its argument.  dropped: the call is the expression of
\* an ASTExpressionStmt, so its value is not used.
VisitCall(dropped) ==
  /\ Visiting /\ Fits(0, 1)
  /\ Emit(Call(nextInstr, tmp))
  /\ tmp' = IF dropped THEN Opaque ELSE Result(nextInstr)
  /\ nextInstr' = nextInstr + 1

\* the allocas of the arrays declared in a block
ArraysOf(b) == {Result(i.id) : i \in {j \in Range(code[b]) : j.op = "alloca"}}

\* ASTVar with an index: the check of a negative index splits the block.
\* base is the array, if it is declared in the same block, and its index is
\* then none that is followed.
VisitIndexedVar(base) ==
  /\ Visiting /\ Fits(2, 0)
  /\ base = Opaque \/ tmp = Opaque
  /\ LET exceptBB == nextBlock
         contBB   == nextBlock + 1
     IN  /\ bbs' = bbs \cup {exceptBB, contBB}
         /\ pre' = PushBack(PushBack(pre, exceptBB, insert), contBB, insert)
         /\ succ' = PushBack(PushBack(succ, insert, contBB), insert, exceptBB)
         /\ code' = [code EXCEPT
                       ![insert]   = Append(@, CondBr(tmp, exceptBB, contBB)),
                       ![exceptBB] = <<Call(Opaque, Opaque), Ret(Opaque)>>,
                       ![contBB]   = <<Elem(IF base = Opaque THEN tmp ELSE base)>>]
         /\ insert' = contBB
  /\ tmp' = Opaque
  /\ nextBlock' = nextBlock + 2
  /\ UNCHANGED <<frames, nextInstr>>

\* ASTAssignExpression to a scalar, tmp being its right-hand side
VisitAssign(v, dropped) ==
  /\ Visiting /\ Fits(0, 1)
  /\ Emit(Store(nextInstr, v, tmp))
  /\ tmp' = IF dropped THEN Opaque ELSE tmp
  /\ nextInstr' = nextInstr + 1
----------------------------------------------------------------------------
(***************************************************************************)
(* Statements                                                              *)
(***************************************************************************)
Statement == Visiting /\ ~InFrame("cond")

\* ASTVarDeclaration of an array, at the head of a CompoundStmt.  (A scalar's
\* alloca is the variable itself.)
VisitArrayDecl ==
  /\ Statement /\ Fits(0, 1)
  /\ Emit(ArrayAlloca(nextInstr))
  /\ tmp' = Opaque
  /\ nextInstr' = nextInstr + 1

VisitReturn ==
  /\ Statement
  /\ Emit(Ret(tmp))
  /\ tmp' = Opaque
  /\ UNCHANGED nextInstr

\* ASTSelectionStmt, its condition visited, up to the visit of if_statement
EnterSelection(hasElse) ==
  /\ Statement /\ Fits(3, 0)
  /\ LET trueBB  == nextBlock
         falseBB == nextBlock + 1
         contBB  == nextBlock + 2
         other   == IF hasElse THEN falseBB ELSE contBB
     IN  /\ bbs' = bbs \cup {trueBB, falseBB, contBB}
         /\ pre' = PushBack(PushBack(pre, trueBB, insert), other, insert)
         /\ succ' = PushBack(PushBack(succ, insert, other), insert, trueBB)
         /\ code' = PushBack(code, insert, CondBr(tmp, trueBB, other))
         /\ insert' = trueBB
         /\ frames' = Append(frames, Frm(IF hasElse THEN "then" ELSE "if",
                                         falseBB, contBB))
  /\ tmp' = Opaque
  /\ nextBlock' = nextBlock + 3
  /\ UNCHANGED nextInstr

(* create_br(target) unless the insert block has a terminator: the three    *)
(* lists after it                                                           *)
\* Faulty variant of BrPre: add_pre_basic_block is called in any case.
BrPreAlways(target) == PushBack(pre, target, insert)

BrPre(target)  == IF Terminated(insert) THEN pre ELSE PushBack(pre, target, insert)
BrSucc(target) == IF Terminated(insert) THEN succ ELSE PushBack(succ, insert, target)
BrCode(target) == IF Terminated(insert) THEN code ELSE PushBack(code, insert, Br(target))

\* ... after if_statement, with no else: falseBB is erased from the function
LeaveIf ==
  /\ InFrame("if")
  /\ bbs' = bbs \ {Top.other}
  /\ pre' = Unlink(BrPre(Top.cont), Succs(Top.other), Top.other)
  /\ succ' = Unlink(BrSucc(Top.cont), Preds(Top.other), Top.other)
  /\ code' = BrCode(Top.cont)
  /\ insert' = Top.cont
  /\ frames' = Below
  /\ tmp' = Opaque
  /\ UNCHANGED <<nextBlock, nextInstr>>

\* Faulty variant: the branch to contBB is forgotten at the end of if_statement.
LeaveThenNoBranch ==
  /\ InFrame("then")
  /\ insert' = Top.other
  /\ frames' = Append(Below, Frm("else", NoBlock, Top.cont))
  /\ tmp' = Opaque
  /\ UNCHANGED <<graphVars, nextBlock, nextInstr>>

\* Faulty variant: the insert point is contBB before else_statement, not after it.
LeaveThenIntoCont ==
  /\ InFrame("then")
  /\ pre' = BrPre(Top.cont)
  /\ succ' = BrSucc(Top.cont)
  /\ code' = BrCode(Top.cont)
  /\ insert' = Top.cont
  /\ frames' = Append(Below, Frm("else", NoBlock, Top.cont))
  /\ tmp' = Opaque
  /\ UNCHANGED <<bbs, nextBlock, nextInstr>>

\* ... after if_statement, up to the visit of else_statement
LeaveThen ==
  /\ InFrame("then")
  /\ pre' = BrPre(Top.cont)
  /\ succ' = BrSucc(Top.cont)
  /\ code' = BrCode(Top.cont)
  /\ insert' = Top.other
  /\ frames' = Append(Below, Frm("else", NoBlock, Top.cont))
  /\ tmp' = Opaque
  /\ UNCHANGED <<bbs, nextBlock, nextInstr>>

\* Faulty variant: the insert point is taken from the wrong field of the frame.
LeaveElseWrongBlock ==
  /\ InFrame("else")
  /\ pre' = BrPre(Top.cont)
  /\ succ' = BrSucc(Top.cont)
  /\ code' = BrCode(Top.cont)
  /\ insert' = Top.other
  /\ frames' = Below
  /\ tmp' = Opaque
  /\ UNCHANGED <<bbs, nextBlock, nextInstr>>

\* ... after else_statement
LeaveElse ==
  /\ InFrame("else")
  /\ pre' = BrPre(Top.cont)
  /\ succ' = BrSucc(Top.cont)
  /\ code' = BrCode(Top.cont)
  /\ insert' = Top.cont
  /\ frames' = Below
  /\ tmp' = Opaque
  /\ UNCHANGED <<bbs, nextBlock, nextInstr>>

\* ASTIterationStmt, up to the visit of its condition
EnterIteration ==
  /\ Statement /\ Fits(3, 0)
  /\ bbs' = bbs \cup {nextBlock}
  /\ pre' = BrPre(nextBlock)
  /\ succ' = BrSucc(nextBlock)
  /\ code' = BrCode(nextBlock)
  /\ insert' = nextBlock
  /\ frames' = Append(frames, Frm("cond", nextBlock, NoBlock))
  /\ tmp' = Opaque
  /\ nextBlock' = nextBlock + 1
  /\ UNCHANGED nextInstr

\* ... after its condition, up to the visit of the body
EnterBody ==
  /\ InFrame("cond")
  /\ LET trueBB == nextBlock
         contBB == nextBlock + 1
     IN  /\ bbs' = bbs \cup {trueBB, contBB}
         /\ pre' = PushBack(PushBack(pre, trueBB, insert), contBB, insert)
         /\ succ' = PushBack(PushBack(succ, insert, contBB), insert, trueBB)
         /\ code' = PushBack(code, insert, CondBr(tmp, trueBB, contBB))
         /\ insert' = trueBB
         /\ frames' = Append(Below, Frm("body", Top.other, contBB))
  /\ tmp' = Opaque
  /\ nextBlock' = nextBlock + 2
  /\ UNCHANGED nextInstr

\* Faulty variant: exprBB is kept in a global, like tmp_val, so the loop that
\* ends branches to the header of the last loop that was closed inside it.
LastHeader ==
  LET closed == {h \in bbs : \E b \in Preds(h) : b > h} \cup {Top.other}
  IN  CHOOSE h \in closed : \A g \in closed : g <= h
LeaveBodyGlobalHeader ==
  /\ InFrame("body")
  /\ pre' = BrPre(LastHeader)
  /\ succ' = BrSucc(LastHeader)
  /\ code' = BrCode(LastHeader)
  /\ insert' = Top.cont
  /\ frames' = Below
  /\ tmp' = Opaque
  /\ UNCHANGED <<bbs, nextBlock, nextInstr>>

\* ... after the body
LeaveBody ==
  /\ InFrame("body")
  /\ pre' = BrPre(Top.other)
  /\ succ' = BrSucc(Top.other)
  /\ code' = BrCode(Top.other)
  /\ insert' = Top.cont
  /\ frames' = Below
  /\ tmp' = Opaque
  /\ UNCHANGED <<bbs, nextBlock, nextInstr>>

\* ASTFunDeclaration after compound_stmt: a missing return is added
LeaveFunction ==
  /\ InFrame("fun")
  /\ code' = IF Terminated(insert) THEN code ELSE PushBack(code, insert, Ret(Opaque))
  /\ frames' = Below
  /\ tmp' = Opaque
  /\ UNCHANGED <<bbs, pre, succ, insert, nextBlock, nextInstr>>
----------------------------------------------------------------------------
\* ASTFunDeclaration up to the visit of compound_stmt.  The stores of the
\* parameters into their allocas are the first assignments of the body.
BuilderInit ==
  /\ bbs = {Entry}
  /\ pre = [b \in Block |-> << >>]
  /\ succ = [b \in Block |-> << >>]
  /\ code = [b \in Block |-> << >>]
  /\ insert = Entry
  /\ frames = <<Frm("fun", NoBlock, NoBlock)>>
  /\ tmp = Opaque
  /\ nextBlock = Entry + 1
  /\ nextInstr = 1

BuilderNext ==
  \/ VisitNum
  \/ \E v \in Vars : VisitVar(v)
  \/ \E v \in Vars, dropped \in BOOLEAN : VisitAssign(v, dropped)
  \/ \E dropped \in BOOLEAN : VisitCall(dropped)
  \/ \E base \in {Opaque} \cup ArraysOf(insert) : VisitIndexedVar(base)
  \/ VisitArrayDecl
  \/ VisitReturn
  \/ \E hasElse \in BOOLEAN : EnterSelection(hasElse)
  \/ LeaveIf \/ LeaveThen \/ LeaveElse
  \/ EnterIteration \/ EnterBody \/ LeaveBody
  \/ LeaveFunction

builderAndGraph == <<graphVars, builderVars>>

\* The visitor runs on one thread and the AST is finite: it goes on to the end.
BuilderSpec == BuilderInit /\ [][BuilderNext]_builderAndGraph
----------------------------------------------------------------------------
(***************************************************************************)
(* Properties                                                              *)
(***************************************************************************)

\* The types of the builder's and the graph's variables.
BuilderTypeOK ==
  /\ bbs \subseteq Block
  /\ pre \in [Block -> Seq(Block)]
  /\ succ \in [Block -> Seq(Block)]
  /\ code \in [Block -> Seq(Instr)]
  /\ insert \in Block
  /\ frames \in Seq(Frame)
  /\ tmp \in Operand
  /\ nextBlock \in 2..MaxBlocks + 1
  /\ nextInstr \in 1..MaxInstrs + 1

(* No instruction follows a branch or a return in a block, whichever way    *)
(* the statement visitors nest: get_terminator looks at the last            *)
(* instruction only, so code emitted after a return would unterminate the   *)
(* block, and every pass would then see an edge the printed IR does not     *)
(* take.  It depends on the break of CompoundStmt and on the checks made    *)
(* by the visitors of the enclosing statements.                             *)
NoCodeAfterTerminator ==
  \A b \in Block : \A i \in 1..Len(code[b]) - 1 : ~IsTerminator(code[b][i])

Targets(b) == IF Terminated(b) THEN Range(code[b][Len(code[b])].tgt) ELSE {}

(* The two neighbour lists a block keeps by hand say what the branches say: *)
(* successors are the targets of the terminator, predecessors are the       *)
(* inverse, no edge is listed twice, and no list names an erased block.     *)
EdgesMatchBranches ==
  \A b \in Block :
    /\ Succs(b) = Targets(b)
    /\ \A c \in Block : c \in Succs(b) <=> b \in Preds(c)
    /\ IsInjective(succ[b]) /\ IsInjective(pre[b])
    /\ Succs(b) # {} => {b} \cup Succs(b) \subseteq bbs

\* A frame has the blocks of its kind, and they differ.
WellFormed(f) ==
  /\ f.other # NoBlock <=> f.kind \in {"if", "then", "cond", "body"}
  /\ f.cont # NoBlock <=> f.kind \in {"if", "then", "else", "body"}
  /\ f.kind # "fun" => f.other # f.cont

(* The shape of the stack of visitors: the function at the bottom and only  *)
(* there, a loop condition only on top.                                     *)
FrameShape ==
  \A i \in DOMAIN frames :
    /\ frames[i].kind = "fun" <=> i = 1
    /\ frames[i].kind = "cond" => i = Len(frames)
    /\ WellFormed(frames[i])
    /\ frames[i].other < nextBlock /\ frames[i].cont < nextBlock

\* No two visitors hold the same block.
FramesApart ==
  \A i, j \in DOMAIN frames : i # j =>
    /\ frames[i].other # NoBlock => frames[i].other \notin {frames[j].other, frames[j].cont}
    /\ frames[i].cont # NoBlock => frames[i].cont # frames[j].cont

\* The blocks that the visitors on the stack will still give a terminator
\* to, or erase.
AwaitedBy(f) ==
  {f.cont} \cup (IF f.kind \in {"if", "then"} THEN {f.other} ELSE {})
Awaited == UNION {AwaitedBy(frames[i]) : i \in DOMAIN frames}

\* They are blank, and the falseBB that will be erased is linked to nothing.
AwaitedBlank ==
  /\ \A b \in Awaited \ {NoBlock} :
       b # insert /\ code[b] = << >> /\ succ[b] = << >>
  /\ \A i \in DOMAIN frames : frames[i].kind = "if" => pre[frames[i].other] = << >>

(* The visitors that are nested keep out of each other's blocks: those that *)
(* a visitor on the stack will come back to are blank, are not the insert   *)
(* point and belong to no other visitor, at whatever depth the statement    *)
(* that is being visited is.  Erasing falseBB without looking at its users  *)
(* relies on it.                                                            *)
OpenStatementsApart == FrameShape /\ FramesApart /\ AwaitedBlank

(* No block is lost: a block without a terminator is the insert point or is *)
(* awaited by a visitor that has not returned.  When the function is built  *)
(* nothing is awaited, so every block ends with a branch or a return.       *)
OpenBlocksAwaited ==
  /\ \A b \in bbs : Terminated(b) \/ b = insert \/ b \in Awaited
  /\ Done => \A b \in bbs : Terminated(b)

(* The graph of a finished function is reducible: with the edges to a       *)
(* dominator of their source taken away, no cycle is left.  LoopSearch      *)
(* finds one base per loop and LoopInvHoist one preheader only because of   *)
(* this, and neither checks it.                                             *)
ReducibleWhenDone ==
  Done => LET forward == [b \in Reachable |-> {c \in Succs(b) : ~Dominates(c, b)}]
          IN  \A b \in Reachable : b \notin Onward(forward, b)
=============================================================================

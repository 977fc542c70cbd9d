---------------------------- MODULE LoopInvHoist ----------------------------
(***************************************************************************)
(* The LoopInvHoist pass, src/src/optimization/LoopInvHoist.cpp, on one    *)
(* function that the builder, or Mem2Reg after it, has left: for every     *)
(* loop LoopSearch has found, the instructions whose operands are not      *)
(* among the values defined in the loop move to the block before its base. *)
(*                                                                         *)
(* Loops and the blocks of a loop are sets of pointers: they are iterated  *)
(* in any order, a loop in the same order every time.  Of the instructions *)
(* the pass may move, the model has calls, element addresses and the       *)
(* allocas of arrays (module FlowGraph); the first two stand for the       *)
(* arithmetic it leaves out.  A scalar's alloca, which moves too, is left  *)
(* out, as nothing that uses it can move; so are the uses of an element    *)
(* address, which is not in defVal_set either.                             *)
(***************************************************************************)
EXTENDS LoopSearch, Mem2Reg

VARIABLES
  hpc,        \* "idle" before the pass has its loops, "hoist", "end" after it
  loopsLeft,  \* the loops it has not come to
  unhoisted   \* history: the instructions before it

hoistVars == <<hpc, loopsLeft, unhoisted>>

HoistInit ==
  /\ hpc = "idle" /\ loopsLeft = {}
  /\ unhoisted = [b \in Block |-> << >>]

\* run: loop_searcher.run(), then get_loops_in_func
StartHoist ==
  /\ hpc = "idle" /\ lpc = "end"
  /\ hpc' = "hoist" /\ loopsLeft' = loops
  /\ unhoisted' = code
  /\ UNCHANGED <<loopVars, mem2regVars, graphVars>>
----------------------------------------------------------------------------
\* Faulty variant: phis are forgotten among the values a loop defines.
DefValCalls(body) ==
  {Result(i.id) : i \in {j \in UNION {Range(code[b]) : b \in body} : j.op = "call"}}

\* defVal_set: the results of calls and phis, but not those of loads
DefVal(body) ==
  {Result(i.id) : i \in {j \in UNION {Range(code[b]) : b \in body} : j.op = "call"}}
    \cup {PhiOf(p[1], p[2]) : p \in {q \in phis : q[1] \in body}}

MayMove(i) == i.op \notin {"store", "load", "br", "ret"}

(* The turn of instruction n of block b in a sweep: it is added to          *)
(* move_instr_set, and is no longer one of the values the loop defines.     *)
Find(st, b, n) ==
  LET i == code[b][n]
  IN  IF /\ <<b, n>> \notin Range(st.queue)
         /\ MayMove(i) /\ i.arg \notin st.defVal
      THEN [queue |-> Append(st.queue, <<b, n>>), defVal |-> st.defVal \ {Result(i.id)}]
      ELSE st

SweepBlock(st, b) == FoldLeft(LAMBDA t, n : Find(t, b, n), st, [n \in DOMAIN code[b] |-> n])
Sweep(st, order)  == FoldLeft(SweepBlock, st, order)

\* Faulty variant: change_flag is not set, there is one sweep.
MoveSetOneSweep(body, order) ==
  Sweep([queue |-> << >>, defVal |-> DefVal(body)], order).queue

\* the instructions of some blocks, by their places
Places(lists, blocks) == UNION {{b} \X DOMAIN lists[b] : b \in blocks}

(* move_instr_set when a sweep has changed nothing, the blocks being swept  *)
(* in that order: there are as many sweeps as there are instructions, which *)
(* is enough.                                                               *)
MoveSet(body, order) ==
  LET count == Cardinality(Places(code, body))
      after[k \in 0..count] ==
        IF k = 0 THEN [queue |-> << >>, defVal |-> DefVal(body)] ELSE Sweep(after[k - 1], order)
  IN  after[count].queue

\* Faulty variant: the predecessor inside the loop is taken.
OutsideInside(l) == Keep(pre[l.base], LAMBDA p : p \in l.body)

\* the predecessors of the base that are not in the loop
Outside(l) == Keep(pre[l.base], LAMBDA p : p \notin l.body)

\* the instructions of block b that are not in the queue, by their numbers
Staying(queue, b) ==
  Keep([n \in DOMAIN code[b] |-> n], LAMBDA n : <<b, n>> \notin Range(queue))

\* Faulty variant: the branch is not taken away before the instructions are added.
MovedAfterBranch(queue, to) ==
  [b \in Block |->
     IF b = to
     THEN code[b] \o [k \in DOMAIN queue |-> code[queue[k][1]][queue[k][2]]]
     ELSE [k \in DOMAIN Staying(queue, b) |-> code[b][Staying(queue, b)[k]]]]

(* The instructions of the queue taken out of their blocks and put before   *)
(* the branch of block to (delete_instr and add_instruction of br_instr).   *)
Moved(queue, to) ==
  [b \in Block |->
     IF b = to
     THEN Front(code[b]) \o [k \in DOMAIN queue |-> code[queue[k][1]][queue[k][2]]]
                         \o <<Last(code[b])>>
     ELSE [k \in DOMAIN Staying(queue, b) |-> code[b][Staying(queue, b)[k]]]]

(* One loop.  The first predecessor outside gets all the instructions; the  *)
(* queue is empty for the next one, and nothing moves when there is none.   *)
HoistLoop ==
  /\ hpc = "hoist"
  /\ \E l \in loopsLeft :
       /\ \E order \in SetToSeqs({b \in l.body : \E i \in Range(code[b]) : MayMove(i)}) :
            code' = IF Outside(l) = << >> THEN code
                    ELSE Moved(MoveSet(l.body, order), Outside(l)[1])
       /\ loopsLeft' = loopsLeft \ {l}
  /\ UNCHANGED <<hpc, unhoisted, bbs, pre, succ, loopVars, mem2regVars>>

HoistDone ==
  /\ hpc = "hoist" /\ loopsLeft = {}
  /\ hpc' = "end"
  /\ UNCHANGED <<loopsLeft, unhoisted, graphVars, loopVars, mem2regVars>>

HoistNext == StartHoist \/ HoistLoop \/ HoistDone
----------------------------------------------------------------------------
(***************************************************************************)
(* Properties                                                              *)
(***************************************************************************)
CountIn(lists, i) == Cardinality({p \in Places(lists, Block) : lists[p[1]][p[2]] = i})

(* No instruction is lost or doubled by the moves, whatever order the loops *)
(* come in, and every block still ends with its terminator and has one.     *)
HoistKeepsInstructions ==
  hpc # "idle" =>
    /\ \A i \in UNION {Range(code[b]) \cup Range(unhoisted[b]) : b \in bbs} :
         CountIn(code, i) = CountIn(unhoisted, i)
    /\ \A b \in bbs : \A n \in DOMAIN code[b] :
         IsTerminator(code[b][n]) <=> n = Len(code[b])

\* the block where operand o is defined by a call or a phi, if any
DefinedIn(lists, o) ==
  {b \in bbs : \E i \in Range(lists[b]) : i.op = "call" /\ i.id # Opaque /\ o = Result(i.id)}
    \cup {p[1] : p \in {q \in phis : o = PhiOf(q[1], q[2])}}

\* position of the definition of o in a block, 0 for a phi
DefinedAt(b, o) ==
  LET at == {n \in DOMAIN code[b] : code[b][n].op # "store" /\ code[b][n].id # Opaque
                                    /\ o = Result(code[b][n].id)}
  IN  IF at = {} THEN 0 ELSE CHOOSE n \in at : TRUE

(* A result of a call, or a phi, is still defined before its uses: in an    *)
(* earlier place of the block or in a block that dominates it, for every    *)
(* order in which loops and blocks are iterated.  (Results of loads are     *)
(* not: LoadsStillDominate.  Nor are arrays: the alloca of one may move     *)
(* behind the address of an element that moves too.)                        *)
DefinitionsStillDominate ==
  hpc # "idle" /\ ~HalfDeadJoin =>
    \A b \in Reachable : \A n \in DOMAIN code[b] :
      \A d \in DefinedIn(code, code[b][n].arg) :
        IF d = b THEN DefinedAt(b, code[b][n].arg) < n ELSE Dominates(d, b)

(* Nothing that could still be moved is left in a loop when the pass ends,  *)
(* whichever loop comes first: an instruction taken out of an inner loop    *)
(* into an outer one leaves the outer one too if it can.                    *)
NothingMovableLeft ==
  hpc = "end" =>
    \A l \in loops : Outside(l) # << >> =>
      \A b \in l.body : \A i \in Range(code[b]) : MayMove(i) => i.arg \in DefVal(l.body)

LoopsAround(b) == {l \in loops : b \in l.body}

\* the blocks where the call or the array with a number is
PlacedIn(lists, i) ==
  {b \in bbs : \E x \in Range(lists[b]) : x.op \in {"call", "alloca"} /\ x.id = i}

(* A call, or the alloca of an array, that has moved is now where it        *)
(* dominates its old place, in some of the loops it was in and in no other. *)
HoistedUpwards ==
  hpc # "idle" /\ ~HalfDeadJoin =>
    \A i \in 1..MaxInstrs :
      \A from \in PlacedIn(unhoisted, i) \cap Reachable :
        \A to \in PlacedIn(code, i) :
          to # from => /\ Dominates(to, from)
                       /\ LoopsAround(to) \subseteq LoopsAround(from)
                       /\ LoopsAround(to) # LoopsAround(from)

(* The result of a load, too, is defined before its uses.                   *)
LoadsStillDominate ==
  hpc # "idle" =>
    \A b \in Reachable : \A n \in DOMAIN code[b] :
      \A d \in Reachable : \A m \in DOMAIN code[d] :
        code[d][m].op = "load" /\ code[b][n].arg = Result(code[d][m].id) =>
          IF d = b THEN m < n ELSE Dominates(d, b)
=============================================================================

------------------------------ MODULE UseLists ------------------------------
(***************************************************************************)
(* Operands and use lists: User and Value (src/src/lightir/User.cpp,       *)
(* Value.cpp), and the list of instructions of a BasicBlock.               *)
(*                                                                         *)
(* An instruction is named by its place in code, in the order of creation. *)
(* A Value is a constant, an instruction or a variable.  The use lists of  *)
(* instructions are followed, as the set uses of the entries in all of     *)
(* them; nothing reads the use lists of constants and of variables.        *)
(***************************************************************************)
EXTENDS Integers, Sequences, FiniteSetsExt, Functions

Const(ty, x) == [k |-> "const", ty |-> ty, val |-> x]
Reg(ty, n)   == [k |-> "reg",   ty |-> ty, val |-> n]
VarOf(ty, d) == [k |-> "var",   ty |-> ty, val |-> d]

\* The entry of v's use list for operand number no of instruction user.
UseOf(v, user, no) ==
  IF v.k = "reg" THEN {[val |-> v.val, user |-> user, no |-> no]} ELSE {}

NoInstrs == [code |-> << >>, listed |-> {}, uses |-> {}]

\* Faulty variant: the constructor of an instruction enters its first operand only.
CreateFirstUse(ir, op, how, ty, args) ==
  LET n == Len(ir.code) + 1
  IN  [code   |-> Append(ir.code, [op |-> op, how |-> how, ty |-> ty, args |-> args]),
       listed |-> ir.listed \cup {n},
       uses   |-> ir.uses \cup UNION {UseOf(args[i], n, i) : i \in DOMAIN args \cap {1}}]

(* The constructor of an instruction: set_operand for every operand, and    *)
(* add_instruction at the end of the insert block.                          *)
Create(ir, op, how, ty, args) ==
  LET n == Len(ir.code) + 1
  IN  [code   |-> Append(ir.code, [op |-> op, how |-> how, ty |-> ty, args |-> args]),
       listed |-> ir.listed \cup {n},
       uses   |-> ir.uses \cup UNION {UseOf(args[i], n, i) : i \in DOMAIN args}]

\* set_operand; the use list of the operand that was there is left as it is.
SetOperand(ir, user, no, v) ==
  [ir EXCEPT !.code[user].args[no] = v, !.uses = @ \cup UseOf(v, user, no)]

\* Every operand that old's use list names is set, whatever is there by now.
ReplaceAllUseWith(ir, old, new) ==
  FoldSet(LAMBDA u, r : SetOperand(r, u.user, u.no, new), ir, {u \in ir.uses : u.val = old})

(* remove_use_of_ops for each of ns: it leaves the use lists of the operands *)
(* it has now, whatever their numbers; lists of former operands keep it.    *)
UsesWithout(ir, ns) ==
  {u \in ir.uses : ~(u.user \in ns /\ \E v \in Range(ir.code[u.user].args) :
                                        UseOf(v, u.user, u.no) = {u})}

\* BasicBlock::delete_instr, for each of ns.
DeleteInstrs(ir, ns) == [ir EXCEPT !.listed = @ \ ns, !.uses = UsesWithout(ir, ns)]

(* Every operand that is an instruction is on the list, before its user,    *)
(* and has the user in its use list: a replacement reaches all its users.   *)
UsersAreKnown(ir) ==
  \A n \in ir.listed : \A i \in DOMAIN ir.code[n].args :
    LET v == ir.code[n].args[i]
    IN  v.k = "reg" => /\ v.val \in ir.listed /\ v.val < n
                       /\ UseOf(v, n, i) \subseteq ir.uses
=============================================================================

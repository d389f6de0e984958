------------------------------- MODULE Machine -------------------------------
(***************************************************************************)
(* The few instructions of which setjmp.s, longjmp.s, sigsetjmp.s and      *)
(* dlsym.s are made, for both word sizes.                                  *)
(*                                                                         *)
(* Memory is a function on words: the stack, which grows down, and a       *)
(* structure of the program.  Values are pairs of a kind and a number:     *)
(* <<"at", n>> is the address of word n, <<"int", n>> an integer; pairs    *)
(* with another kind are opaque.  Code addresses, and pc, are pairs of a   *)
(* routine and an index.  Offsets are in bytes, as in the source.          *)
(***************************************************************************)
EXTENDS Integers, Sequences

VARIABLES
  arch,   \* "nt32" or "nt64"
  regs,   \* registers, by their name without the letter of their width
  mem,
  pc      \* the next instruction

machine == <<arch, regs, mem, pc>>

WordSize == IF arch = "nt64" THEN 8 ELSE 4
Garbage == <<"garbage", 0>>
At(n) == <<"at", n>>
Num(n) == <<"int", n>>

\* Operands: a register, a word at an offset from a register, a constant.
R(r) == [kind |-> "reg", reg |-> r, n |-> 0]
M(offset, r) == [kind |-> "mem", reg |-> r, n |-> offset]
I(n) == [kind |-> "imm", reg |-> "", n |-> n]

\* The word that a memory operand names, 0 when its register is no address.
Word(rs, o) == IF rs[o.reg][1] = "at" THEN rs[o.reg][2] + (o.n \div WordSize) ELSE 0

Value(rs, o) ==
  CASE o.kind = "reg" -> rs[o.reg]
    [] o.kind = "imm" -> Num(o.n)
    [] o.kind = "mem" -> IF Word(rs, o) \in DOMAIN mem THEN mem[Word(rs, o)] ELSE Garbage

\* A value goes to an operand while the stack pointer goes to sp.
Assign(rs, o, v) ==
  IF o.kind = "reg"
  THEN regs' = [rs EXCEPT ![o.reg] = v] /\ mem' = mem
  ELSE /\ regs' = rs
       /\ mem' = IF Word(rs, o) \in DOMAIN mem THEN [mem EXCEPT ![Word(rs, o)] = v] ELSE mem

Moved(words) == [regs EXCEPT !["sp"] = At(regs["sp"][2] + words)]
Onto(value) ==
  /\ regs' = Moved(-1)
  /\ mem' = [mem EXCEPT ![regs["sp"][2] - 1] = value]
Following == <<pc[1], pc[2] + 1>>

-----------------------------------------------------------------------------
(* One instruction i: its name and its operands.                           *)

Mov(i) == i[1] = "mov" /\ Assign(regs, i[3], Value(regs, i[2])) /\ pc' = Following
Lea(i) == i[1] = "lea" /\ Assign(regs, i[3], At(Word(regs, i[2]))) /\ pc' = Following
Flip(i) ==
  /\ i[1] = "xor"
  /\ Assign(regs, i[3], Num(IF Value(regs, i[3]) = Num(0) THEN i[2].n ELSE 0))
  /\ pc' = Following

\* The operand of a pop is found with the stack pointer already moved, that
\* of a push before it moves.
Pop(i) ==
  /\ i[1] = "pop"
  /\ Assign(Moved(1), i[2], mem[regs["sp"][2]])
  /\ pc' = Following
Push(i) == i[1] = "push" /\ Onto(Value(regs, i[2])) /\ pc' = Following

Call(i) == i[1] = "call" /\ Onto(Following) /\ pc' = <<i[2], 1>>
Ret(i) == i[1] = "ret" /\ regs' = Moved(1) /\ mem' = mem /\ pc' = mem[regs["sp"][2]]
Jmp(i) == i[1] = "jmp" /\ UNCHANGED <<regs, mem>> /\ pc' = <<i[2], 1>>
JmpTo(i) == i[1] = "jmp*" /\ UNCHANGED <<regs, mem>> /\ pc' = Value(regs, i[2])

\* test r,r and the jne behind it
JumpNonzero(i) ==
  /\ i[1] = "jne"
  /\ UNCHANGED <<regs, mem>>
  /\ pc' = IF Value(regs, i[2]) # Num(0) THEN <<pc[1], i[3]>> ELSE Following

Instruction(i) ==
  /\ UNCHANGED arch
  /\ \/ Mov(i) \/ Lea(i) \/ Flip(i) \/ Pop(i) \/ Push(i)
     \/ Call(i) \/ Ret(i) \/ Jmp(i) \/ JmpTo(i) \/ JumpNonzero(i)
=============================================================================

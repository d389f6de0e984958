---------------------------- MODULE NativeProofs ----------------------------
(***************************************************************************)
(* Proofs about the calls in assembly of MCMachine (NativeCalls), for both *)
(* architectures and any values that are passed to longjmp.                *)
(***************************************************************************)
EXTENDS MCMachine, TLAPS

-----------------------------------------------------------------------------
(* The invariant: what each routine has done when it comes to its          *)
(* instruction i.                                                          *)

NativeTypes ==
  /\ arch \in {"nt32", "nt64"}
  /\ DOMAIN regs = Native!Registers
  /\ DOMAIN mem = 0..17 \cup 100..116
  /\ deep \in BOOLEAN /\ mask \in {0, 1}
  /\ armed = <<>> \/ armed \in {0, 1} \X {0, 1}
  /\ \A a \in {16, 17} : mem[a] = <<"local", a>>

\* The registers that a call preserves, as setjmp stores them.
Order ==
  IF arch = "nt64" THEN <<"bx", "bp", "di", "si", "r12", "r13", "r14", "r15">>
  ELSE <<"bx", "bp", "di", "si">>
Kept == 1..(IF arch = "nt64" THEN 8 ELSE 4)

\* Where sigsetjmp goes on, where it puts its return address and the caller's bx,
\* and where the mask is saved.
Resumed == <<"sigsetjmp", IF arch = "nt64" THEN 7 ELSE 9>>
Back == IF arch = "nt64" THEN 113 ELSE 109
SavedMask == IF arch = "nt64" THEN 111 ELSE 107

\* What setjmp is entered with: sigsetjmp calls it with its own return address,
\* and with the buffer in bx.
Saves == armed[1] = 1
Site == IF Saves THEN Resumed ELSE <<"landed", 0>>
Entry(k) == IF k = 1 /\ Saves THEN Native!At(100) ELSE <<Order[k], 1>>

Holds(k) == mem[101 + k] = Entry(k)
BackSaved == Saves => mem[Back] = <<"landed", 0>> /\ mem[Back + 1] = <<"bx", 1>>
Buffered ==
  /\ mem[100] = Site /\ mem[101] = Native!At(12)
  /\ \A k \in Kept : Holds(k)
  /\ BackSaved
MaskSaved == mem[SavedMask] = <<"mask", armed[2]>>
Filled == armed # <<>> => Buffered /\ (Saves => MaskSaved)

\* A jump is on its way to the caller of setjmp, the first time or again.
First == expected.value = Native!Num(0)
Pending ==
  /\ ~deep /\ armed \in {0, 1} \X {0, 1}
  /\ ~Saves \/ First => mask = expected.mask
  /\ Saves => expected.mask = armed[2]
  /\ Saves /\ ~First => MaskSaved

Setjmp64(i) ==
  /\ First /\ BackSaved
  /\ regs["cx"] = Native!At(100)
  /\ \A k \in Kept : regs[Order[k]] = Entry(k)
  /\ IF i \in {2, 3} THEN regs["sp"] = Native!At(12)
     ELSE regs["sp"] = Native!At(11) /\ mem[11] = Site
  /\ i > 1 => mem[100] = Site
  /\ i > 2 => mem[101] = Native!At(12)
  /\ \A k \in Kept : k + 3 < i => Holds(k)
  /\ i = 13 => regs["ax"] = Native!Num(0)

Setjmp32(i) ==
  /\ First /\ BackSaved
  /\ regs["sp"] = Native!At(11) /\ mem[11] = Site
  /\ mem[12] = Native!At(100) /\ (i > 1 => regs["dx"] = Native!At(100))
  /\ \A k \in Kept : regs[Order[k]] = Entry(k)
  /\ i = 3 => regs["ax"] = Site
  /\ i > 3 => mem[100] = Site
  /\ i = 5 => regs["cx"] = Native!At(12)
  /\ i > 5 => mem[101] = Native!At(12)
  /\ \A k \in Kept : k + 5 < i => Holds(k)
  /\ i = 11 => regs["ax"] = Native!Num(0)

AtSetjmp ==
  /\ Pending
  /\ \/ arch = "nt64" /\ \E i \in 1..13 : pc = <<"setjmp", i>> /\ Setjmp64(i)
     \/ arch = "nt32" /\ \E i \in 1..11 : pc = <<"setjmp", i>> /\ Setjmp32(i)

\* A value v that longjmp is given, and what it makes of it.
Given(v) ==
  \E n \in Nat : v = Native!Num(n) /\ expected.value = Native!Num(IF n = 0 THEN 1 ELSE n)
NotZero == \E n \in Nat \ {0} : expected.value = Native!Num(n)

Longjmp64(i) ==
  /\ regs["cx"] = Native!At(100)
  /\ IF i > 12 THEN regs["sp"] = Native!At(12)
     ELSE regs["sp"] \in {Native!At(6), Native!At(11)}
  /\ i = 1 => Given(regs["dx"])
  /\ i = 2 => regs["dx"] = Native!Num(0) /\ expected.value = Native!Num(1)
  /\ i = 3 => regs["dx"] = expected.value
  /\ i > 3 => regs["ax"] = expected.value
  /\ \A k \in Kept : k + 3 < i => regs[Order[k]] = Entry(k)
  /\ i = 14 => regs["dx"] = Site

Longjmp32(i) ==
  /\ IF i > 9 THEN regs["sp"] = Native!At(12)
     ELSE \E s \in {6, 11} :
            /\ regs["sp"] = Native!At(s)
            /\ i = 1 => mem[s + 1] = Native!At(100)
            /\ i < 3 => Given(mem[s + 2])
  /\ i > 1 => regs["cx"] = Native!At(100)
  /\ i = 3 => Given(regs["ax"])
  /\ i = 4 => regs["ax"] = Native!Num(0) /\ expected.value = Native!Num(1)
  /\ i > 4 => regs["ax"] = expected.value
  /\ \A k \in Kept : 9 < k + i => regs[Order[k]] = Entry(k)
  /\ i = 11 => regs["dx"] = Site

AtLongjmp ==
  /\ Pending /\ Buffered /\ NotZero
  /\ \/ arch = "nt64" /\ \E i \in 1..14 : pc = <<"longjmp", i>> /\ Longjmp64(i)
     \/ arch = "nt32" /\ \E i \in 1..11 : pc = <<"longjmp", i>> /\ Longjmp32(i)

\* The registers of the caller, bx among them or not.
Own(from) == \A k \in Kept : from <= k => regs[Order[k]] = <<Order[k], 1>>

Sigsetjmp64(i) ==
  /\ IF i \in 4..7 THEN regs["sp"] = Native!At(12)
     ELSE regs["sp"] = Native!At(11) /\ mem[11] = <<"landed", 0>>
  /\ i < 4 => First /\ regs["dx"] = Native!Num(armed[1])
  /\ i < 7 => First /\ regs["cx"] = Native!At(100)
  /\ i = 2 => ~Saves
  /\ i > 2 => Saves
  /\ i > 3 => mem[113] = <<"landed", 0>>
  /\ i > 4 => mem[114] = <<"bx", 1>>
  /\ IF i < 6 \/ i = 11 THEN Own(1) ELSE Own(2) /\ regs["bx"] = Native!At(100)
  /\ i > 6 => Buffered /\ regs["ax"] = expected.value
  /\ i > 8 => regs["cx"] = Native!At(100)
  /\ i > 9 => regs["dx"] = expected.value

Sigsetjmp32(i) ==
  /\ IF i \in 6..9 THEN regs["sp"] = Native!At(12)
     ELSE regs["sp"] = Native!At(11) /\ mem[11] = <<"landed", 0>>
  /\ i < 9 => First /\ mem[12] = Native!At(100)
  /\ i = 1 => mem[13] = Native!Num(armed[1])
  /\ i = 2 => regs["dx"] = Native!Num(armed[1])
  /\ i = 3 => ~Saves
  /\ i > 3 => Saves
  /\ i \in 5..8 => regs["cx"] = Native!At(100)
  /\ i > 5 => mem[109] = <<"landed", 0>>
  /\ i > 6 => mem[110] = <<"bx", 1>>
  /\ IF i < 8 \/ i = 13 THEN Own(1) ELSE Own(2) /\ regs["bx"] = Native!At(100)
  /\ i > 8 => Buffered /\ regs["ax"] = expected.value
  /\ i > 10 => mem[12] = Native!At(100)
  /\ i > 11 => mem[13] = expected.value

AtSigsetjmp ==
  /\ Pending
  /\ \/ arch = "nt64" /\ \E i \in 1..11 : pc = <<"sigsetjmp", i>> /\ Sigsetjmp64(i)
     \/ arch = "nt32" /\ \E i \in 1..13 : pc = <<"sigsetjmp", i>> /\ Sigsetjmp32(i)

\* musl has its turn, with the buffer and the result of setjmp as arguments.
AtTail ==
  /\ pc = <<"__sigsetjmp_tail", 1>>
  /\ Pending /\ Saves /\ Buffered
  /\ regs["sp"] = Native!At(11) /\ mem[11] = <<"landed", 0>>
  /\ Own(1)
  /\ IF arch = "nt64" THEN regs["cx"] = Native!At(100) /\ regs["dx"] = expected.value
     ELSE mem[12] = Native!At(100) /\ mem[13] = expected.value

\* The registers of the function that the program is in.
OfProgram == \A k \in Kept : regs[Order[k]] = <<Order[k], IF deep THEN 2 ELSE 1>>

AtDlsym ==
  /\ arch = "nt64" /\ pc \in {<<"dlsym", 1>>, <<"dlsym", 2>>, <<"__dlsym", 1>>}
  /\ OfProgram /\ Filled
  /\ \E s \in {6, 11} :
       /\ s = IF deep THEN 6 ELSE 11
       /\ regs["sp"] = Native!At(s) /\ mem[s] = <<"looked_up", 0>>
  /\ regs["cx"] = <<"handle", 0>> /\ regs["dx"] = <<"name", 0>>
  /\ pc # <<"dlsym", 1>> => regs["r8"] = <<"looked_up", 0>>

AtProgram ==
  /\ pc \in {<<"program", 0>>, <<"looked_up", 0>>, <<"landed", 0>>}
  /\ OfProgram /\ Filled
  /\ regs["sp"] = Native!At(IF deep THEN 7 ELSE 12)
  /\ pc[1] = "landed" => ~deep /\ regs["ax"] = expected.value /\ mask = expected.mask

NativeInv ==
  /\ NativeTypes
  /\ AtProgram \/ AtSetjmp \/ AtLongjmp \/ AtSigsetjmp \/ AtTail \/ AtDlsym

-----------------------------------------------------------------------------
(* What one instruction does.                                              *)

Continues(r, m) == regs' = r /\ mem' = m /\ pc' = Native!Following

\* An address is a pair.
LEMMA Addresses ==
  ASSUME NEW n
  PROVE  Native!At(n)[1] = "at" /\ Native!At(n)[2] = n
BY DEF Native!At


-----------------------------------------------------------------------------
(* What stays as it is.                                                    *)

Still == UNCHANGED <<arch, deep, mask, armed, expected>>

Constant ==
  /\ Order' = Order /\ Kept' = Kept /\ Site' = Site /\ Saves' = Saves
  /\ Back' = Back /\ SavedMask' = SavedMask /\ First' = First
  /\ \A k : Entry(k)' = Entry(k)

\* What depends on the architecture and on the call alone stays.
LEMMA Constants ==
  ASSUME Still
  PROVE  Constant
BY DEF Constant, Still, Order, Kept, Site, Saves, Resumed, Entry, Back, SavedMask, First

\* A step that leaves the locals and the saved mask alone.
Calm ==
  /\ \A a \in {16, 17, SavedMask} : mem'[a] = mem[a]
  /\ DOMAIN regs' = DOMAIN regs /\ DOMAIN mem' = DOMAIN mem

\* The types stay, and so does what the jump on its way promises.
LEMMA Stays ==
  ASSUME NativeTypes, Still, Calm
  PROVE  NativeTypes' /\ (Pending => Pending')
<1>1. NativeTypes'
  BY DEF NativeTypes, Still, Calm, Native!Registers, Native!Preserved
<1>2. Pending => Pending'
  BY Constants DEF Constant, Pending, MaskSaved, Still, Calm
<1> QED
  BY <1>1, <1>2

\* The words and the registers there are, and those that calls preserve.
LEMMA Shape64 ==
  ASSUME NativeTypes, arch = "nt64"
  PROVE  /\ DOMAIN mem = 0..17 \cup 100..116
         /\ {"sp", "ax", "bx", "cx", "dx", "r8"} \subseteq DOMAIN regs
BY DEF NativeTypes, Native!Registers, Native!Preserved

\* The registers of nt64, in the order in which setjmp stores them.
LEMMA Registers64 ==
  ASSUME NativeTypes, arch = "nt64"
  PROVE  /\ DOMAIN regs = {"sp", "ax", "cx", "dx", "r8", "bx", "bp", "di", "si",
                           "r12", "r13", "r14", "r15"}
         /\ Kept = 1..8 /\ SavedMask = 111 /\ Back = 113 /\ Order[1] = "bx"
         /\ \A k \in Kept : Order[k] \in {"bx", "bp", "di", "si", "r12", "r13", "r14", "r15"}
<1>1. /\ Order[1] = "bx" /\ Order[2] = "bp" /\ Order[3] = "di" /\ Order[4] = "si"
      /\ Order[5] = "r12" /\ Order[6] = "r13" /\ Order[7] = "r14" /\ Order[8] = "r15"
  BY DEF Order
<1>2. Kept = 1..8
  BY DEF Kept
<1>3. \A k \in Kept : Order[k] \in {"bx", "bp", "di", "si", "r12", "r13", "r14", "r15"}
  BY <1>1, <1>2
<1> QED
  BY <1>1, <1>2, <1>3 DEF NativeTypes, Native!Registers, Native!Preserved, SavedMask, Back

\* The same for nt32.
LEMMA Shape32 ==
  ASSUME NativeTypes, arch = "nt32"
  PROVE  /\ DOMAIN mem = 0..17 \cup 100..116
         /\ {"sp", "ax", "bx", "cx", "dx", "r8"} \subseteq DOMAIN regs
BY DEF NativeTypes, Native!Registers, Native!Preserved

\* The registers of nt32, in the order in which setjmp stores them.
LEMMA Registers32 ==
  ASSUME NativeTypes, arch = "nt32"
  PROVE  /\ DOMAIN regs = {"sp", "ax", "cx", "dx", "r8", "bx", "bp", "di", "si"}
         /\ Kept = 1..4 /\ SavedMask = 107 /\ Back = 109 /\ Order[1] = "bx"
         /\ \A k \in Kept : Order[k] \in {"bx", "bp", "di", "si"}
<1>1. Order[1] = "bx" /\ Order[2] = "bp" /\ Order[3] = "di" /\ Order[4] = "si"
  BY DEF Order
<1>2. Kept = 1..4
  BY DEF Kept
<1>3. \A k \in Kept : Order[k] \in {"bx", "bp", "di", "si"}
  BY <1>1, <1>2
<1> QED
  BY <1>1, <1>2, <1>3 DEF NativeTypes, Native!Registers, Native!Preserved, SavedMask, Back

\* No register is stored twice.
LEMMA Distinct ==
  ASSUME NativeTypes, NEW k \in Kept, NEW n \in Kept, Order[k] = Order[n]
  PROVE  k = n
<1>1. CASE arch = "nt64"
  <2>1. /\ Order[1] = "bx" /\ Order[2] = "bp" /\ Order[3] = "di" /\ Order[4] = "si"
        /\ Order[5] = "r12" /\ Order[6] = "r13" /\ Order[7] = "r14" /\ Order[8] = "r15"
    BY <1>1 DEF Order
  <2>2. k \in 1..8 /\ n \in 1..8
    BY <1>1 DEF Kept
  <2> QED
    BY <2>1, <2>2
<1>2. CASE arch = "nt32"
  <2>1. Order[1] = "bx" /\ Order[2] = "bp" /\ Order[3] = "di" /\ Order[4] = "si"
    BY <1>2 DEF Order
  <2>2. k \in 1..4 /\ n \in 1..4
    BY <1>2 DEF Kept
  <2> QED
    BY <2>1, <2>2
<1> QED
  BY <1>1, <1>2 DEF NativeTypes

\* A step carries out the instruction that pc is at.
Executes(i) == Native!Instruction(i)

\* A step is one of the instructions of Code, and leaves the program alone.
LEMMA StepOf ==
  ASSUME Native!Step, NEW name, NEW i, pc = <<name, i>>
  PROVE  Still /\ Executes(Native!Code[name][i])
BY DEF Native!Step, Native!Instruction, Still, Executes

\* The routines of each architecture.
LEMMA Routines64 ==
  ASSUME arch = "nt64"
  PROVE  /\ Native!Code["setjmp"] = Native!setjmp64 /\ Native!Code["longjmp"] = Native!longjmp64
         /\ Native!Code["sigsetjmp"] = Native!sigsetjmp64 /\ Native!Code["dlsym"] = Native!dlsym64
BY DEF Native!Code

LEMMA Routines32 ==
  ASSUME arch = "nt32"
  PROVE  /\ Native!Code["setjmp"] = Native!setjmp32 /\ Native!Code["longjmp"] = Native!longjmp32
         /\ Native!Code["sigsetjmp"] = Native!sigsetjmp32 /\ Native!Code["dlsym"] = Native!dlsym32
BY DEF Native!Code

\* setjmp or longjmp comes back to where setjmp was called: the program, or
\* sigsetjmp, which goes on.
LEMMA Lands ==
  ASSUME NativeTypes, Pending, Buffered, Still, Calm, mem' = mem,
         pc' = Site, regs'["sp"] = Native!At(12), regs'["ax"] = expected.value,
         \A k \in Kept : regs'[Order[k]] = Entry(k)
  PROVE  NativeInv'
<1>1. Constant
  BY Constants
<1>2. NativeTypes' /\ Pending'
  BY Stays
<1>3. Buffered'
  BY <1>1 DEF Constant, Buffered, Holds, BackSaved
<1>4. CASE ~Saves
  <2>1. \A k \in Kept : regs'[Order[k]] = <<Order[k], 1>>
    BY <1>4 DEF Entry
  <2>2. ~deep /\ mask = expected.mask
    BY <1>4 DEF Pending
  <2>3. OfProgram'
    BY <2>1, <2>2, <1>1 DEF OfProgram, Still, Constant
  <2>4. Filled'
    BY <1>3, <1>4, <1>1 DEF Filled, Constant
  <2>5. pc' = <<"landed", 0>>
    BY <1>4 DEF Site
  <2>6. AtProgram'
    BY <2>2, <2>3, <2>4, <2>5 DEF AtProgram, Still
  <2> QED
    BY <1>2, <2>6 DEF NativeInv
<1>5. CASE Saves
  <2>1. 1 \in Kept /\ \A k \in Kept : k \in Nat
    BY DEF Kept
  <2>2. regs'["bx"] = Native!At(100)
    BY <1>5, <2>1 DEF Entry, Order
  <2>3. Own(2)'
    <3>1. ASSUME NEW k \in Kept, 2 <= k PROVE regs'[Order[k]] = <<Order[k], 1>>
      <4>1. k # 1
        BY <2>1, <3>1
      <4>2. Entry(k) = <<Order[k], 1>>
        BY <4>1 DEF Entry
      <4> QED
        BY <4>2
    <3>2. Kept' = Kept /\ Order' = Order
      BY <1>1 DEF Constant
    <3> QED
      BY <3>1, <3>2, Zenon DEF Own
  <2>4. mem'[Back] = <<"landed", 0>> /\ mem'[Back + 1] = <<"bx", 1>>
    BY <1>5 DEF Buffered, BackSaved
  <2>5. CASE arch = "nt64"
    <3>1. pc' = <<"sigsetjmp", 7>> /\ Back = 113
      BY <1>5, <2>5 DEF Site, Resumed, Back
    <3>2. Sigsetjmp64(7)'
      BY <1>1, <1>3, <1>5, <2>2, <2>3, <2>4, <3>1 DEF Sigsetjmp64, Constant, Still
    <3> QED
      BY <1>2, <2>5, <3>1, <3>2 DEF NativeInv, AtSigsetjmp, Still
  <2>6. CASE arch = "nt32"
    <3>1. pc' = <<"sigsetjmp", 9>> /\ Back = 109
      BY <1>5, <2>6 DEF Site, Resumed, Back
    <3>2. Sigsetjmp32(9)'
      BY <1>1, <1>3, <1>5, <2>2, <2>3, <2>4, <3>1 DEF Sigsetjmp32, Constant, Still
    <3> QED
      BY <1>2, <2>6, <3>1, <3>2 DEF NativeInv, AtSigsetjmp, Still
  <2> QED
    BY <2>5, <2>6 DEF NativeTypes
<1> QED
  BY <1>4, <1>5

-----------------------------------------------------------------------------
(* setjmp.                                                                 *)

USE DEF Native!WordSize, Native!Word, Native!Moved, Native!Following, Native!Instruction,
        Native!Mov, Native!Lea, Native!Flip, Native!Pop, Native!Push, Native!Call, Native!Ret,
        Native!Jmp, Native!JmpTo, Native!JumpNonzero, Native!Onto, Native!M, Native!R,
        Native!I, Native!Assign, Native!Value

\* Every instruction of setjmp of nt64 keeps the invariant: the stores are taken
\* together, and the return lands.
LEMMA Setjmp64Steps ==
  ASSUME NativeTypes, Pending, arch = "nt64",
         NEW i \in 1..13, pc = <<"setjmp", i>>, Setjmp64(i), Native!Step
  PROVE  NativeInv'
<1>1. Executes(Native!setjmp64[i]) /\ Still
  BY StepOf, Routines64
<1>2. Constant
  BY <1>1, Constants
<1> DEFINE Goal(j) == pc' = <<"setjmp", j>> /\ Setjmp64(j)' /\ Calm
<1>3. ASSUME NEW j \in 1..13, Goal(j) PROVE NativeInv'
  BY <1>1, <1>2, <1>3, Stays DEF NativeInv, AtSetjmp, Still
<1>4. CASE i = 1
  <2>1. Executes(<<"pop", Native!M(0, "cx")>>)
    BY <1>1, <1>4 DEF Native!setjmp64
  <2>2. Continues([regs EXCEPT !["sp"] = Native!At(12)], [mem EXCEPT ![100] = mem[11]])
    BY <1>4, <2>1, Shape64, Addresses DEF Continues, Executes, Setjmp64
  <2>3. Goal(2)
    BY <1>2, <1>4, <2>2, Shape64, Registers64
    DEF Continues, Calm, Setjmp64, Constant, Holds, BackSaved
  <2> QED
    BY <1>3, <2>3
<1>5. CASE i = 2
  <2>1. Executes(<<"mov", Native!R("sp"), Native!M(8, "cx")>>)
    BY <1>1, <1>5 DEF Native!setjmp64
  <2>2. Continues(regs, [mem EXCEPT ![101] = regs["sp"]])
    BY <1>5, <2>1, Shape64, Addresses DEF Continues, Executes, Setjmp64
  <2>3. Goal(3)
    BY <1>2, <1>5, <2>2, Shape64, Registers64
    DEF Continues, Calm, Setjmp64, Constant, Holds, BackSaved
  <2> QED
    BY <1>3, <2>3
<1>6. CASE i = 3
  <2>1. Executes(<<"push", Native!M(0, "cx")>>)
    BY <1>1, <1>6 DEF Native!setjmp64, Native!PutBack
  <2>2. Continues([regs EXCEPT !["sp"] = Native!At(11)], [mem EXCEPT ![11] = mem[100]])
    BY <1>6, <2>1, Shape64, Addresses DEF Continues, Executes, Setjmp64
  <2>3. Goal(4)
    BY <1>2, <1>6, <2>2, Shape64, Registers64
    DEF Continues, Calm, Setjmp64, Constant, Holds, BackSaved
  <2> QED
    BY <1>3, <2>3
<1>7. ASSUME NEW k \in Kept, i = k + 3 PROVE NativeInv'
  <2> DEFINE F(n) ==
           Native!setjmp64[n + 3] = <<"mov", Native!R(Order[n]), Native!M(8 * (n + 1), "cx")>>
  <2>1. F(1) /\ F(2) /\ F(3) /\ F(4) /\ F(5) /\ F(6) /\ F(7) /\ F(8)
    BY DEF Native!setjmp64, Order
  <2> HIDE DEF F
  <2>2. F(k)
    BY <2>1, Registers64
  <2>3. Executes(<<"mov", Native!R(Order[k]), Native!M(8 * (k + 1), "cx")>>)
    BY <1>1, <1>7, <2>2 DEF F
  <2>4. Continues(regs, [mem EXCEPT ![101 + k] = regs[Order[k]]])
    BY <1>2, <1>7, <2>3, Shape64, Registers64, Addresses DEF Continues, Executes, Setjmp64
  <2>5. Goal(k + 4)
    BY <1>2, <1>7, <2>4, Shape64, Registers64
    DEF Continues, Calm, Setjmp64, Constant, Holds, BackSaved
  <2> QED
    BY <1>3, <2>5, Registers64
<1>8. CASE i = 12
  <2>1. Executes(<<"mov", Native!I(0), Native!R("ax")>>)
    BY <1>1, <1>8 DEF Native!setjmp64
  <2>2. Continues([regs EXCEPT !["ax"] = Native!Num(0)], mem)
    BY <1>8, <2>1, Shape64, Addresses DEF Continues, Executes, Setjmp64
  <2>3. Goal(13)
    BY <1>2, <1>8, <2>2, Shape64, Registers64
    DEF Continues, Calm, Setjmp64, Constant, Holds, BackSaved
  <2> QED
    BY <1>3, <2>3
<1>9. CASE i = 13
  <2>1. Executes(<<"ret">>)
    BY <1>1, <1>9 DEF Native!setjmp64
  <2>2. regs' = [regs EXCEPT !["sp"] = Native!At(12)] /\ mem' = mem /\ pc' = Site
    BY <1>9, <2>1, Shape64, Addresses DEF Executes, Setjmp64
  <2>3. /\ regs'["sp"] = Native!At(12) /\ regs'["ax"] = expected.value
        /\ \A k \in Kept : regs'[Order[k]] = Entry(k)
    BY <1>9, <2>2, Registers64 DEF Setjmp64, First
  <2>4. Buffered
    BY <1>9, Registers64 DEF Setjmp64, Buffered, Holds
  <2>5. Calm
    BY <2>2, Registers64 DEF Calm
  <2> QED
    BY <1>1, <2>2, <2>3, <2>4, <2>5, Lands
<1> QED
  <2>1. i \in {1, 2, 3, 12, 13} \/ i - 3 \in Kept
    BY Registers64
  <2>2. ASSUME i - 3 \in Kept PROVE \E k \in Kept : i = k + 3
    BY <2>2, Registers64
  <2> QED
    BY <1>4, <1>5, <1>6, <1>7, <1>8, <1>9, <2>1, <2>2


\* The same for setjmp of nt32.
LEMMA Setjmp32Steps ==
  ASSUME NativeTypes, Pending, arch = "nt32",
         NEW i \in 1..11, pc = <<"setjmp", i>>, Setjmp32(i), Native!Step
  PROVE  NativeInv'
<1>1. Executes(Native!setjmp32[i]) /\ Still
  BY StepOf, Routines32
<1>2. Constant
  BY <1>1, Constants
<1> DEFINE Goal(j) == pc' = <<"setjmp", j>> /\ Setjmp32(j)' /\ Calm
<1>3. ASSUME NEW j \in 1..11, Goal(j) PROVE NativeInv'
  BY <1>1, <1>2, <1>3, Stays DEF NativeInv, AtSetjmp, Still
<1>4. CASE i = 1
  <2>1. Executes(<<"mov", Native!M(4, "sp"), Native!R("dx")>>)
    BY <1>1, <1>4 DEF Native!setjmp32
  <2>2. Continues([regs EXCEPT !["dx"] = mem[12]], mem)
    BY <1>4, <2>1, Shape32, Addresses DEF Continues, Executes, Setjmp32
  <2>3. Goal(2)
    BY <1>2, <1>4, <2>2, Shape32, Registers32
    DEF Continues, Calm, Setjmp32, Constant, Holds, BackSaved
  <2> QED
    BY <1>3, <2>3
<1>5. CASE i = 2
  <2>1. Executes(<<"mov", Native!M(0, "sp"), Native!R("ax")>>)
    BY <1>1, <1>5 DEF Native!setjmp32
  <2>2. Continues([regs EXCEPT !["ax"] = mem[11]], mem)
    BY <1>5, <2>1, Shape32, Addresses DEF Continues, Executes, Setjmp32
  <2>3. Goal(3)
    BY <1>2, <1>5, <2>2, Shape32, Registers32
    DEF Continues, Calm, Setjmp32, Constant, Holds, BackSaved
  <2> QED
    BY <1>3, <2>3
<1>6. CASE i = 3
  <2>1. Executes(<<"mov", Native!R("ax"), Native!M(0, "dx")>>)
    BY <1>1, <1>6 DEF Native!setjmp32
  <2>2. Continues(regs, [mem EXCEPT ![100] = regs["ax"]])
    BY <1>6, <2>1, Shape32, Addresses DEF Continues, Executes, Setjmp32
  <2>3. Goal(4)
    BY <1>2, <1>6, <2>2, Shape32, Registers32
    DEF Continues, Calm, Setjmp32, Constant, Holds, BackSaved
  <2> QED
    BY <1>3, <2>3
<1>7. CASE i = 4
  <2>1. Executes(<<"lea", Native!M(4, "sp"), Native!R("cx")>>)
    BY <1>1, <1>7 DEF Native!setjmp32, Native!CallerSp
  <2>2. Continues([regs EXCEPT !["cx"] = Native!At(12)], mem)
    BY <1>7, <2>1, Shape32, Addresses DEF Continues, Executes, Setjmp32
  <2>3. Goal(5)
    BY <1>2, <1>7, <2>2, Shape32, Registers32
    DEF Continues, Calm, Setjmp32, Constant, Holds, BackSaved
  <2> QED
    BY <1>3, <2>3
<1>8. CASE i = 5
  <2>1. Executes(<<"mov", Native!R("cx"), Native!M(4, "dx")>>)
    BY <1>1, <1>8 DEF Native!setjmp32
  <2>2. Continues(regs, [mem EXCEPT ![101] = regs["cx"]])
    BY <1>8, <2>1, Shape32, Addresses DEF Continues, Executes, Setjmp32
  <2>3. Goal(6)
    BY <1>2, <1>8, <2>2, Shape32, Registers32
    DEF Continues, Calm, Setjmp32, Constant, Holds, BackSaved
  <2> QED
    BY <1>3, <2>3
<1>9. ASSUME NEW k \in Kept, i = k + 5 PROVE NativeInv'
  <2> DEFINE F(n) ==
           Native!setjmp32[n + 5] = <<"mov", Native!R(Order[n]), Native!M(4 * (n + 1), "dx")>>
  <2>1. F(1) /\ F(2) /\ F(3) /\ F(4)
    BY DEF Native!setjmp32, Order
  <2> HIDE DEF F
  <2>2. F(k)
    BY <2>1, Registers32
  <2>3. Executes(<<"mov", Native!R(Order[k]), Native!M(4 * (k + 1), "dx")>>)
    BY <1>1, <1>9, <2>2 DEF F
  <2>4. Continues(regs, [mem EXCEPT ![101 + k] = regs[Order[k]]])
    BY <1>2, <1>9, <2>3, Shape32, Registers32, Addresses DEF Continues, Executes, Setjmp32
  <2>5. Goal(k + 6)
    BY <1>2, <1>9, <2>4, Shape32, Registers32
    DEF Continues, Calm, Setjmp32, Constant, Holds, BackSaved
  <2> QED
    BY <1>3, <2>5, Registers32
<1>10. CASE i = 10
  <2>1. Executes(<<"mov", Native!I(0), Native!R("ax")>>)
    BY <1>1, <1>10 DEF Native!setjmp32
  <2>2. Continues([regs EXCEPT !["ax"] = Native!Num(0)], mem)
    BY <1>10, <2>1, Shape32, Addresses DEF Continues, Executes, Setjmp32
  <2>3. Goal(11)
    BY <1>2, <1>10, <2>2, Shape32, Registers32
    DEF Continues, Calm, Setjmp32, Constant, Holds, BackSaved
  <2> QED
    BY <1>3, <2>3
<1>11. CASE i = 11
  <2>1. Executes(<<"ret">>)
    BY <1>1, <1>11 DEF Native!setjmp32
  <2>2. regs' = [regs EXCEPT !["sp"] = Native!At(12)] /\ mem' = mem /\ pc' = Site
    BY <1>11, <2>1, Shape32, Addresses DEF Executes, Setjmp32
  <2>3. /\ regs'["sp"] = Native!At(12) /\ regs'["ax"] = expected.value
        /\ \A k \in Kept : regs'[Order[k]] = Entry(k)
    BY <1>11, <2>2, Registers32 DEF Setjmp32, First
  <2>4. Buffered
    BY <1>11, Registers32 DEF Setjmp32, Buffered, Holds
  <2>5. Calm
    BY <2>2, Registers32 DEF Calm
  <2> QED
    BY <1>1, <2>2, <2>3, <2>4, <2>5, Lands
<1> QED
  <2>1. i \in {1, 2, 3, 4, 5, 10, 11} \/ i - 5 \in Kept
    BY Registers32
  <2>2. ASSUME i - 5 \in Kept PROVE \E k \in Kept : i = k + 5
    BY <2>2, Registers32
  <2> QED
    BY <1>4, <1>5, <1>6, <1>7, <1>8, <1>9, <1>10, <1>11, <2>1, <2>2


-----------------------------------------------------------------------------
(* longjmp.                                                                *)

\* Every instruction of longjmp of nt64 keeps the invariant: the value is put in
\* ax, the loads are taken together, and the jump lands.
LEMMA Longjmp64Steps ==
  ASSUME NativeTypes, Pending, Buffered, NotZero, arch = "nt64",
         NEW i \in 1..14, pc = <<"longjmp", i>>, Longjmp64(i), Native!Step
  PROVE  NativeInv'
<1>1. Executes(Native!longjmp64[i]) /\ Still
  BY StepOf, Routines64
<1>2. Constant
  BY <1>1, Constants
<1> DEFINE Goal(j) ==
             /\ pc' = <<"longjmp", j>> /\ Longjmp64(j)'
             /\ mem' = mem /\ DOMAIN regs' = DOMAIN regs
<1>3. ASSUME NEW j \in 1..14, Goal(j) PROVE NativeInv'
  <2>1. Calm
    BY <1>3 DEF Calm
  <2>2. NotZero'
    BY <1>1 DEF NotZero, Still
  <2>3. Buffered'
    BY <1>2, <1>3 DEF Buffered, Holds, BackSaved, Constant
  <2> QED
    BY <1>1, <1>3, <2>1, <2>2, <2>3, Stays DEF NativeInv, AtLongjmp, Still
<1>4. CASE i = 1
  <2>1. Executes(<<"jne", Native!R("dx"), 3>>)
    BY <1>1, <1>4 DEF Native!longjmp64, Native!IsZero
  <2>2. PICK n \in Nat : /\ regs["dx"] = Native!Num(n)
                         /\ expected.value = Native!Num(IF n = 0 THEN 1 ELSE n)
    BY <1>4 DEF Longjmp64, Given
  <2>3. CASE n = 0
    <3>1. Continues(regs, mem)
      BY <1>4, <2>1, <2>2, <2>3 DEF Continues, Executes
    <3>2. Goal(2)
      BY <1>1, <1>2, <1>4, <2>2, <2>3, <3>1, Registers64
      DEF Continues, Longjmp64, Constant, Still
    <3> QED
      BY <1>3, <3>2
  <2>4. CASE n # 0
    <3>1. regs' = regs /\ mem' = mem /\ pc' = <<"longjmp", 3>>
      BY <1>4, <2>1, <2>2, <2>4 DEF Executes, Native!Num
    <3>2. Goal(3)
      BY <1>1, <1>2, <1>4, <2>2, <2>4, <3>1, Registers64 DEF Longjmp64, Constant, Still
    <3> QED
      BY <1>3, <3>2
  <2> QED
    BY <2>3, <2>4
<1>5. CASE i = 2
  <2>1. Executes(<<"xor", Native!I(1), Native!R("dx")>>)
    BY <1>1, <1>5 DEF Native!longjmp64
  <2>2. Continues([regs EXCEPT !["dx"] = Native!Num(1)], mem)
    BY <1>5, <2>1, Shape64, Addresses DEF Continues, Executes, Longjmp64
  <2>3. Goal(3)
    BY <1>2, <1>5, <2>2, Shape64, Registers64, <1>1
    DEF Continues, Longjmp64, Constant, Still
  <2> QED
    BY <1>3, <2>3
<1>6. CASE i = 3
  <2>1. Executes(<<"mov", Native!R("dx"), Native!R("ax")>>)
    BY <1>1, <1>6 DEF Native!longjmp64
  <2>2. Continues([regs EXCEPT !["ax"] = regs["dx"]], mem)
    BY <1>6, <2>1, Shape64, Addresses DEF Continues, Executes, Longjmp64
  <2>3. Goal(4)
    BY <1>2, <1>6, <2>2, Shape64, Registers64, <1>1
    DEF Continues, Longjmp64, Constant, Still
  <2> QED
    BY <1>3, <2>3
<1>7. ASSUME NEW k \in Kept, i = k + 3 PROVE NativeInv'
  <2> DEFINE F(n) ==
           Native!longjmp64[n + 3] = <<"mov", Native!M(8 * (n + 1), "cx"), Native!R(Order[n])>>
  <2>1. F(1) /\ F(2) /\ F(3) /\ F(4) /\ F(5) /\ F(6) /\ F(7) /\ F(8)
    BY DEF Native!longjmp64, Order
  <2> HIDE DEF F
  <2>2. F(k)
    BY <2>1, Registers64
  <2>3. Executes(<<"mov", Native!M(8 * (k + 1), "cx"), Native!R(Order[k])>>)
    BY <1>1, <1>7, <2>2 DEF F
  <2>4. Continues([regs EXCEPT ![Order[k]] = Entry(k)], mem)
    BY <1>2, <1>7, <2>3, Shape64, Registers64, Addresses
    DEF Continues, Executes, Longjmp64, Buffered, Holds
  <2>5. regs'[Order[k]] = Entry(k) /\ \A r \in DOMAIN regs : r # Order[k] => regs'[r] = regs[r]
    BY <2>4, Registers64 DEF Continues
  <2>6. \A j \in Kept : regs'[Order[j]] = IF j = k THEN Entry(k) ELSE regs[Order[j]]
    BY <2>5, Distinct, Registers64
  <2>7. Goal(k + 4)
    BY <1>1, <1>2, <1>7, <2>4, <2>5, <2>6, Registers64
    DEF Continues, Longjmp64, Constant, Still
  <2> QED
    BY <1>3, <2>7, Registers64
<1>8. CASE i = 12
  <2>1. Executes(<<"mov", Native!M(8, "cx"), Native!R("sp")>>)
    BY <1>1, <1>8 DEF Native!longjmp64
  <2>2. Continues([regs EXCEPT !["sp"] = Native!At(12)], mem)
    BY <1>8, <2>1, Shape64, Addresses DEF Continues, Executes, Longjmp64, Buffered
  <2>3. Goal(13)
    BY <1>2, <1>8, <2>2, Shape64, Registers64, <1>1
    DEF Continues, Longjmp64, Constant, Still
  <2> QED
    BY <1>3, <2>3
<1>9. CASE i = 13
  <2>1. Executes(<<"mov", Native!M(0, "cx"), Native!R("dx")>>)
    BY <1>1, <1>9 DEF Native!longjmp64
  <2>2. Continues([regs EXCEPT !["dx"] = Site], mem)
    BY <1>9, <2>1, Shape64, Addresses DEF Continues, Executes, Longjmp64, Buffered
  <2>3. Goal(14)
    BY <1>2, <1>9, <2>2, Shape64, Registers64, <1>1
    DEF Continues, Longjmp64, Constant, Still
  <2> QED
    BY <1>3, <2>3
<1>10. CASE i = 14
  <2>1. Executes(<<"jmp*", Native!R("dx")>>)
    BY <1>1, <1>10 DEF Native!longjmp64
  <2>2. regs' = regs /\ mem' = mem /\ pc' = Site
    BY <1>10, <2>1 DEF Executes, Longjmp64
  <2>3. /\ regs["sp"] = Native!At(12) /\ regs["ax"] = expected.value
        /\ \A k \in Kept : regs[Order[k]] = Entry(k)
    BY <1>10, Registers64 DEF Longjmp64
  <2>4. Calm
    BY <2>2 DEF Calm
  <2> QED
    BY <1>1, <2>2, <2>3, <2>4, Lands
<1> QED
  <2>1. i \in {1, 2, 3, 12, 13, 14} \/ i - 3 \in Kept
    BY Registers64
  <2>2. ASSUME i - 3 \in Kept PROVE \E k \in Kept : i = k + 3
    BY <2>2, Registers64
  <2> QED
    BY <1>4, <1>5, <1>6, <1>7, <1>8, <1>9, <1>10, <2>1, <2>2


\* The same for longjmp of nt32, which loads in the opposite order.
LEMMA Longjmp32Steps ==
  ASSUME NativeTypes, Pending, Buffered, NotZero, arch = "nt32",
         NEW i \in 1..11, pc = <<"longjmp", i>>, Longjmp32(i), Native!Step
  PROVE  NativeInv'
<1>1. Executes(Native!longjmp32[i]) /\ Still
  BY StepOf, Routines32
<1>2. Constant
  BY <1>1, Constants
<1> DEFINE Goal(j) ==
             /\ pc' = <<"longjmp", j>> /\ Longjmp32(j)'
             /\ mem' = mem /\ DOMAIN regs' = DOMAIN regs
<1>3. ASSUME NEW j \in 1..11, Goal(j) PROVE NativeInv'
  <2>1. Calm
    BY <1>3 DEF Calm
  <2>2. NotZero'
    BY <1>1 DEF NotZero, Still
  <2>3. Buffered'
    BY <1>2, <1>3 DEF Buffered, Holds, BackSaved, Constant
  <2> QED
    BY <1>1, <1>3, <2>1, <2>2, <2>3, Stays DEF NativeInv, AtLongjmp, Still
<1>4. CASE i = 1
  <2>1. Executes(<<"mov", Native!M(4, "sp"), Native!R("cx")>>)
    BY <1>1, <1>4 DEF Native!longjmp32
  <2>2. PICK s \in {6, 11} : /\ regs["sp"] = Native!At(s) /\ mem[s + 1] = Native!At(100)
                             /\ Given(mem[s + 2])
    BY <1>4 DEF Longjmp32
  <2>3. Continues([regs EXCEPT !["cx"] = Native!At(100)], mem)
    BY <1>4, <2>1, <2>2, Shape32, Addresses DEF Continues, Executes
  <2>4. Given(mem[s + 2])'
    BY <1>1, <2>2, <2>3 DEF Continues, Given, Still
  <2>5. Goal(2)
    BY <1>2, <1>4, <2>2, <2>3, <2>4, Registers32 DEF Continues, Longjmp32, Constant
  <2> QED
    BY <1>3, <2>5
<1>5. CASE i = 2
  <2>1. Executes(<<"mov", Native!M(8, "sp"), Native!R("ax")>>)
    BY <1>1, <1>5 DEF Native!longjmp32, Native!LongjmpValue
  <2>2. PICK s \in {6, 11} : regs["sp"] = Native!At(s) /\ Given(mem[s + 2])
    BY <1>5 DEF Longjmp32
  <2>3. Continues([regs EXCEPT !["ax"] = mem[s + 2]], mem)
    BY <1>5, <2>1, <2>2, Shape32, Addresses DEF Continues, Executes
  <2>4. Given(regs["ax"])'
    <3>1. regs'["ax"] = mem[s + 2]
      BY <2>3, Shape32 DEF Continues
    <3> QED
      BY <1>1, <2>2, <3>1 DEF Given, Still
  <2>5. Goal(3)
    BY <1>2, <1>5, <2>2, <2>3, <2>4, Registers32 DEF Continues, Longjmp32, Constant
  <2> QED
    BY <1>3, <2>5
<1>6. CASE i = 3
  <2>1. Executes(<<"jne", Native!R("ax"), 5>>)
    BY <1>1, <1>6 DEF Native!longjmp32
  <2>2. PICK n \in Nat : /\ regs["ax"] = Native!Num(n)
                         /\ expected.value = Native!Num(IF n = 0 THEN 1 ELSE n)
    BY <1>6 DEF Longjmp32, Given
  <2>3. CASE n = 0
    <3>1. Continues(regs, mem)
      BY <1>6, <2>1, <2>2, <2>3 DEF Continues, Executes
    <3>2. Goal(4)
      BY <1>1, <1>2, <1>6, <2>2, <2>3, <3>1, Registers32
      DEF Continues, Longjmp32, Constant, Still
    <3> QED
      BY <1>3, <3>2
  <2>4. CASE n # 0
    <3>1. regs' = regs /\ mem' = mem /\ pc' = <<"longjmp", 5>>
      BY <1>6, <2>1, <2>2, <2>4 DEF Executes, Native!Num
    <3>2. Goal(5)
      BY <1>1, <1>2, <1>6, <2>2, <2>4, <3>1, Registers32 DEF Longjmp32, Constant, Still
    <3> QED
      BY <1>3, <3>2
  <2> QED
    BY <2>3, <2>4
<1>7. CASE i = 4
  <2>1. Executes(<<"xor", Native!I(1), Native!R("ax")>>)
    BY <1>1, <1>7 DEF Native!longjmp32
  <2>2. Continues([regs EXCEPT !["ax"] = Native!Num(1)], mem)
    BY <1>7, <2>1, Shape32, Addresses DEF Continues, Executes, Longjmp32
  <2>3. Goal(5)
    BY <1>2, <1>7, <2>2, Shape32, Registers32, <1>1
    DEF Continues, Longjmp32, Constant, Still
  <2> QED
    BY <1>3, <2>3
<1>8. ASSUME NEW k \in Kept, i = 9 - k PROVE NativeInv'
  <2> DEFINE F(n) ==
           Native!longjmp32[9 - n] = <<"mov", Native!M(4 * (n + 1), "cx"), Native!R(Order[n])>>
  <2>1. F(1) /\ F(2) /\ F(3) /\ F(4)
    BY DEF Native!longjmp32, Order
  <2> HIDE DEF F
  <2>2. F(k)
    BY <2>1, Registers32
  <2>3. Executes(<<"mov", Native!M(4 * (k + 1), "cx"), Native!R(Order[k])>>)
    BY <1>1, <1>8, <2>2 DEF F
  <2>4. Continues([regs EXCEPT ![Order[k]] = Entry(k)], mem)
    BY <1>2, <1>8, <2>3, Shape32, Registers32, Addresses
    DEF Continues, Executes, Longjmp32, Buffered, Holds
  <2>5. regs'[Order[k]] = Entry(k) /\ \A r \in DOMAIN regs : r # Order[k] => regs'[r] = regs[r]
    BY <2>4, Registers32 DEF Continues
  <2>6. \A j \in Kept : regs'[Order[j]] = IF j = k THEN Entry(k) ELSE regs[Order[j]]
    BY <2>5, Distinct, Registers32
  <2>7. Goal(10 - k)
    BY <1>1, <1>2, <1>8, <2>4, <2>5, <2>6, Registers32
    DEF Continues, Longjmp32, Constant, Still
  <2> QED
    BY <1>3, <2>7, Registers32
<1>9. CASE i = 9
  <2>1. Executes(<<"mov", Native!M(4, "cx"), Native!R("sp")>>)
    BY <1>1, <1>9 DEF Native!longjmp32
  <2>2. Continues([regs EXCEPT !["sp"] = Native!At(12)], mem)
    BY <1>9, <2>1, Shape32, Addresses DEF Continues, Executes, Longjmp32, Buffered
  <2>3. Goal(10)
    BY <1>2, <1>9, <2>2, Shape32, Registers32, <1>1
    DEF Continues, Longjmp32, Constant, Still
  <2> QED
    BY <1>3, <2>3
<1>10. CASE i = 10
  <2>1. Executes(<<"mov", Native!M(0, "cx"), Native!R("dx")>>)
    BY <1>1, <1>10 DEF Native!longjmp32
  <2>2. Continues([regs EXCEPT !["dx"] = Site], mem)
    BY <1>10, <2>1, Shape32, Addresses DEF Continues, Executes, Longjmp32, Buffered
  <2>3. Goal(11)
    BY <1>2, <1>10, <2>2, Shape32, Registers32, <1>1
    DEF Continues, Longjmp32, Constant, Still
  <2> QED
    BY <1>3, <2>3
<1>11. CASE i = 11
  <2>1. Executes(<<"jmp*", Native!R("dx")>>)
    BY <1>1, <1>11 DEF Native!longjmp32
  <2>2. regs' = regs /\ mem' = mem /\ pc' = Site
    BY <1>11, <2>1 DEF Executes, Longjmp32
  <2>3. /\ regs["sp"] = Native!At(12) /\ regs["ax"] = expected.value
        /\ \A k \in Kept : regs[Order[k]] = Entry(k)
    BY <1>11, Registers32 DEF Longjmp32
  <2>4. Calm
    BY <2>2 DEF Calm
  <2> QED
    BY <1>1, <2>2, <2>3, <2>4, Lands
<1> QED
  <2>1. i \in {1, 2, 3, 4, 9, 10, 11} \/ 9 - i \in Kept
    BY Registers32
  <2>2. ASSUME 9 - i \in Kept PROVE \E k \in Kept : i = 9 - k
    BY <2>2, Registers32
  <2> QED
    BY <1>4, <1>5, <1>6, <1>7, <1>8, <1>9, <1>10, <1>11, <2>1, <2>2


-----------------------------------------------------------------------------
(* sigsetjmp.                                                              *)

\* A step that leaves the words of the buffer alone leaves what they hold alone.
LEMMA BufferStays ==
  ASSUME NativeTypes, Buffered, Constant, \A a \in 100..116 : mem'[a] = mem[a]
  PROVE  Buffered'
<1>1. Back \in 100..115 /\ \A k \in Kept : 101 + k \in 100..116
  BY DEF Back, Kept
<1>2. \A k \in Kept : Holds(k)'
  BY <1>1 DEF Buffered, Holds, Constant
<1>3. BackSaved'
  BY <1>1 DEF Buffered, BackSaved, Constant
<1> QED
  BY <1>2, <1>3 DEF Buffered, Constant

\* Every instruction of sigsetjmp of nt64 keeps the invariant: it goes on in setjmp,
\* or calls it with the buffer in bx and comes back from it, now or later.
LEMMA Sigsetjmp64Steps ==
  ASSUME NativeTypes, Pending, arch = "nt64",
         NEW i \in 1..11, pc = <<"sigsetjmp", i>>, Sigsetjmp64(i), Native!Step
  PROVE  NativeInv'
<1>1. Executes(Native!sigsetjmp64[i]) /\ Still
  BY StepOf, Routines64
<1>2. Constant
  BY <1>1, Constants
<1> DEFINE Goal(j) == pc' = <<"sigsetjmp", j>> /\ Sigsetjmp64(j)' /\ Calm
<1>3. ASSUME NEW j \in 1..11, Goal(j) PROVE NativeInv'
  BY <1>1, <1>2, <1>3, Stays DEF NativeInv, AtSigsetjmp, Still
<1>4. CASE i = 1
  <2>1. Executes(<<"jne", Native!R("dx"), 3>>)
    BY <1>1, <1>4 DEF Native!sigsetjmp64, Native!WantsMask
  <2>2. regs["dx"] = Native!Num(armed[1]) /\ armed[1] \in {0, 1}
    BY <1>4 DEF Sigsetjmp64, Pending
  <2>3. CASE Saves
    <3>1. regs' = regs /\ mem' = mem /\ pc' = <<"sigsetjmp", 3>>
      BY <1>4, <2>1, <2>2, <2>3 DEF Executes, Native!Num, Saves
    <3>2. Goal(3)
      BY <1>1, <1>2, <1>4, <2>3, <3>1 DEF Sigsetjmp64, Constant, Own, Calm, Still
    <3> QED
      BY <1>3, <3>2
  <2>4. CASE ~Saves
    <3>1. Continues(regs, mem)
      BY <1>4, <2>1, <2>2, <2>4 DEF Continues, Executes, Saves
    <3>2. Goal(2)
      BY <1>1, <1>2, <1>4, <2>2, <2>4, <3>1
      DEF Continues, Sigsetjmp64, Constant, Own, Calm, Still
    <3> QED
      BY <1>3, <3>2
  <2> QED
    BY <2>3, <2>4
<1>5. CASE i = 2
  <2>1. Executes(<<"jmp", "setjmp">>)
    BY <1>1, <1>5 DEF Native!sigsetjmp64
  <2>2. regs' = regs /\ mem' = mem /\ pc' = <<"setjmp", 1>>
    BY <2>1 DEF Executes
  <2>3. \A k \in Kept : regs[Order[k]] = Entry(k)
    BY <1>5, Registers64 DEF Sigsetjmp64, Own, Entry
  <2>4. Setjmp64(1)'
    BY <1>2, <1>5, <2>2, <2>3, Registers64
    DEF Sigsetjmp64, Setjmp64, BackSaved, Site, Constant
  <2>5. NativeTypes' /\ Pending'
    BY <1>1, <2>2, Stays DEF Calm
  <2> QED
    BY <1>1, <2>2, <2>4, <2>5 DEF NativeInv, AtSetjmp, Still
<1>6. CASE i = 3
  <2>1. Executes(<<"pop", Native!M(104, "cx")>>)
    BY <1>1, <1>6 DEF Native!sigsetjmp64
  <2>2. Continues([regs EXCEPT !["sp"] = Native!At(12)], [mem EXCEPT ![113] = mem[11]])
    BY <1>6, <2>1, Shape64, Addresses DEF Continues, Executes, Sigsetjmp64
  <2>3. Goal(4)
    BY <1>2, <1>6, <2>2, Shape64, Registers64, <1>1
    DEF Continues, Calm, Sigsetjmp64, Constant, Own, Still
  <2> QED
    BY <1>3, <2>3
<1>7. CASE i = 4
  <2>1. Executes(<<"mov", Native!R("bx"), Native!M(112, "cx")>>)
    BY <1>1, <1>7 DEF Native!sigsetjmp64
  <2>2. Continues(regs, [mem EXCEPT ![114] = regs["bx"]])
    BY <1>7, <2>1, Shape64, Addresses DEF Continues, Executes, Sigsetjmp64
  <2>3. Goal(5)
    BY <1>2, <1>7, <2>2, Shape64, Registers64, <1>1
    DEF Continues, Calm, Sigsetjmp64, Constant, Own, Still
  <2> QED
    BY <1>3, <2>3
<1>8. CASE i = 5
  <2>1. Executes(<<"mov", Native!R("cx"), Native!R("bx")>>)
    BY <1>1, <1>8 DEF Native!sigsetjmp64
  <2>2. Continues([regs EXCEPT !["bx"] = regs["cx"]], mem)
    BY <1>8, <2>1, Shape64, Addresses DEF Continues, Executes, Sigsetjmp64
  <2>0. \A k \in Kept : 2 <= k => Order[k] # "bx"
    BY Registers64, Distinct
  <2>3. Goal(6)
    BY <1>2, <1>8, <2>0, <2>2, Shape64, Registers64, <1>1
    DEF Continues, Calm, Sigsetjmp64, Constant, Own, Still
  <2> QED
    BY <1>3, <2>3
<1>9. CASE i = 6
  <2>1. Executes(<<"call", "setjmp">>)
    BY <1>1, <1>9 DEF Native!sigsetjmp64
  <2>2. /\ regs' = [regs EXCEPT !["sp"] = Native!At(11)]
        /\ mem' = [mem EXCEPT ![11] = <<"sigsetjmp", 7>>] /\ pc' = <<"setjmp", 1>>
    BY <1>9, <2>1, Shape64, Addresses DEF Executes, Sigsetjmp64
  <2>3. Site = <<"sigsetjmp", 7>> /\ Saves
    BY <1>9 DEF Site, Resumed, Sigsetjmp64
  <2>4. \A k \in Kept : regs[Order[k]] = Entry(k)
    BY <1>9, <2>3, Registers64 DEF Sigsetjmp64, Own, Entry
  <2>5. Setjmp64(1)'
    BY <1>2, <1>9, <2>2, <2>3, <2>4, Shape64, Registers64
    DEF Sigsetjmp64, Setjmp64, BackSaved, Constant
  <2>6. NativeTypes' /\ Pending'
    BY <1>1, <2>2, Shape64, Registers64, Stays DEF Calm
  <2> QED
    BY <1>1, <2>2, <2>5, <2>6 DEF NativeInv, AtSetjmp, Still
<1>10. CASE i = 7
  <2>1. Executes(<<"push", Native!M(104, "bx")>>)
    BY <1>1, <1>10 DEF Native!sigsetjmp64
  <2>2. Continues([regs EXCEPT !["sp"] = Native!At(11)], [mem EXCEPT ![11] = mem[113]])
    BY <1>10, <2>1, Shape64, Addresses DEF Continues, Executes, Sigsetjmp64
  <2>0. Buffered'
    BY <1>2, <1>10, <2>2, Shape64, BufferStays DEF Continues, Sigsetjmp64
  <2>3. Goal(8)
    BY <1>2, <1>10, <2>2, Shape64, Registers64, <1>1, <2>0
    DEF Continues, Calm, Sigsetjmp64, Constant, Own, Still, Buffered, BackSaved
  <2> QED
    BY <1>3, <2>3
<1>11. CASE i = 8
  <2>1. Executes(<<"mov", Native!R("bx"), Native!R("cx")>>)
    BY <1>1, <1>11 DEF Native!sigsetjmp64
  <2>2. Continues([regs EXCEPT !["cx"] = regs["bx"]], mem)
    BY <1>11, <2>1, Shape64, Addresses DEF Continues, Executes, Sigsetjmp64
  <2>0. Buffered'
    BY <1>2, <1>11, <2>2, Shape64, BufferStays DEF Continues, Sigsetjmp64
  <2>3. Goal(9)
    BY <1>2, <1>11, <2>2, Shape64, Registers64, <1>1, <2>0
    DEF Continues, Calm, Sigsetjmp64, Constant, Own, Still
  <2> QED
    BY <1>3, <2>3
<1>12. CASE i = 9
  <2>1. Executes(<<"mov", Native!R("ax"), Native!R("dx")>>)
    BY <1>1, <1>12 DEF Native!sigsetjmp64
  <2>2. Continues([regs EXCEPT !["dx"] = regs["ax"]], mem)
    BY <1>12, <2>1, Shape64, Addresses DEF Continues, Executes, Sigsetjmp64
  <2>0. Buffered'
    BY <1>2, <1>12, <2>2, Shape64, BufferStays DEF Continues, Sigsetjmp64
  <2>3. Goal(10)
    BY <1>2, <1>12, <2>2, Shape64, Registers64, <1>1, <2>0
    DEF Continues, Calm, Sigsetjmp64, Constant, Own, Still
  <2> QED
    BY <1>3, <2>3
<1>13. CASE i = 10
  <2>1. Executes(<<"mov", Native!M(112, "cx"), Native!R("bx")>>)
    BY <1>1, <1>13 DEF Native!sigsetjmp64
  <2>2. Continues([regs EXCEPT !["bx"] = mem[114]], mem)
    BY <1>13, <2>1, Shape64, Addresses DEF Continues, Executes, Sigsetjmp64
  <2>0. Buffered'
    BY <1>2, <1>13, <2>2, Shape64, BufferStays DEF Continues, Sigsetjmp64
  <2>3. Goal(11)
    BY <1>2, <1>13, <2>2, Shape64, Registers64, <1>1, <2>0
    DEF Continues, Calm, Sigsetjmp64, Constant, Own, Still, Buffered, BackSaved
  <2> QED
    BY <1>3, <2>3
<1>14. CASE i = 11
  <2>1. Executes(<<"jmp", "__sigsetjmp_tail">>)
    BY <1>1, <1>14 DEF Native!sigsetjmp64
  <2>2. regs' = regs /\ mem' = mem /\ pc' = <<"__sigsetjmp_tail", 1>>
    BY <2>1 DEF Executes
  <2>3. NativeTypes' /\ Pending'
    BY <1>1, <2>2, Stays DEF Calm
  <2>4. Buffered'
    BY <1>2, <1>14, <2>2, BufferStays DEF Sigsetjmp64
  <2>5. AtTail'
    BY <1>1, <1>2, <1>14, <2>2, <2>3, <2>4 DEF AtTail, Sigsetjmp64, Own, Constant, Still
  <2> QED
    BY <2>3, <2>5 DEF NativeInv
<1> QED
  BY <1>4, <1>5, <1>6, <1>7, <1>8, <1>9, <1>10, <1>11, <1>12, <1>13, <1>14


\* The same for sigsetjmp of nt32, whose arguments are on the stack.
LEMMA Sigsetjmp32Steps ==
  ASSUME NativeTypes, Pending, arch = "nt32",
         NEW i \in 1..13, pc = <<"sigsetjmp", i>>, Sigsetjmp32(i), Native!Step
  PROVE  NativeInv'
<1>1. Executes(Native!sigsetjmp32[i]) /\ Still
  BY StepOf, Routines32
<1>2. Constant
  BY <1>1, Constants
<1> DEFINE Goal(j) == pc' = <<"sigsetjmp", j>> /\ Sigsetjmp32(j)' /\ Calm
<1>3. ASSUME NEW j \in 1..13, Goal(j) PROVE NativeInv'
  BY <1>1, <1>2, <1>3, Stays DEF NativeInv, AtSigsetjmp, Still
<1>4. CASE i = 1
  <2>1. Executes(<<"mov", Native!M(8, "sp"), Native!R("dx")>>)
    BY <1>1, <1>4 DEF Native!sigsetjmp32
  <2>2. Continues([regs EXCEPT !["dx"] = mem[13]], mem)
    BY <1>4, <2>1, Shape32, Addresses DEF Continues, Executes, Sigsetjmp32
  <2>3. Goal(2)
    BY <1>2, <1>4, <2>2, Shape32, Registers32, <1>1
    DEF Continues, Calm, Sigsetjmp32, Constant, Own, Still
  <2> QED
    BY <1>3, <2>3
<1>5. CASE i = 2
  <2>1. Executes(<<"jne", Native!R("dx"), 4>>)
    BY <1>1, <1>5 DEF Native!sigsetjmp32
  <2>2. regs["dx"] = Native!Num(armed[1]) /\ armed[1] \in {0, 1}
    BY <1>5 DEF Sigsetjmp32, Pending
  <2>3. CASE Saves
    <3>1. regs' = regs /\ mem' = mem /\ pc' = <<"sigsetjmp", 4>>
      BY <1>5, <2>1, <2>2, <2>3 DEF Executes, Native!Num, Saves
    <3>2. Goal(4)
      BY <1>1, <1>2, <1>5, <2>3, <3>1 DEF Sigsetjmp32, Constant, Own, Calm, Still
    <3> QED
      BY <1>3, <3>2
  <2>4. CASE ~Saves
    <3>1. Continues(regs, mem)
      BY <1>5, <2>1, <2>2, <2>4 DEF Continues, Executes, Saves
    <3>2. Goal(3)
      BY <1>1, <1>2, <1>5, <2>2, <2>4, <3>1
      DEF Continues, Sigsetjmp32, Constant, Own, Calm, Still
    <3> QED
      BY <1>3, <3>2
  <2> QED
    BY <2>3, <2>4
<1>6. CASE i = 3
  <2>1. Executes(<<"jmp", "setjmp">>)
    BY <1>1, <1>6 DEF Native!sigsetjmp32
  <2>2. regs' = regs /\ mem' = mem /\ pc' = <<"setjmp", 1>>
    BY <2>1 DEF Executes
  <2>3. \A k \in Kept : regs[Order[k]] = Entry(k)
    BY <1>6, Registers32 DEF Sigsetjmp32, Own, Entry
  <2>4. Setjmp32(1)'
    BY <1>2, <1>6, <2>2, <2>3, Registers32
    DEF Sigsetjmp32, Setjmp32, BackSaved, Site, Constant
  <2>5. NativeTypes' /\ Pending'
    BY <1>1, <2>2, Stays DEF Calm
  <2> QED
    BY <1>1, <2>2, <2>4, <2>5 DEF NativeInv, AtSetjmp, Still
<1>7. CASE i = 4
  <2>1. Executes(<<"mov", Native!M(4, "sp"), Native!R("cx")>>)
    BY <1>1, <1>7 DEF Native!sigsetjmp32
  <2>2. Continues([regs EXCEPT !["cx"] = mem[12]], mem)
    BY <1>7, <2>1, Shape32, Addresses DEF Continues, Executes, Sigsetjmp32
  <2>3. Goal(5)
    BY <1>2, <1>7, <2>2, Shape32, Registers32, <1>1
    DEF Continues, Calm, Sigsetjmp32, Constant, Own, Still
  <2> QED
    BY <1>3, <2>3
<1>8. CASE i = 5
  <2>1. Executes(<<"pop", Native!M(36, "cx")>>)
    BY <1>1, <1>8 DEF Native!sigsetjmp32
  <2>2. Continues([regs EXCEPT !["sp"] = Native!At(12)], [mem EXCEPT ![109] = mem[11]])
    BY <1>8, <2>1, Shape32, Addresses DEF Continues, Executes, Sigsetjmp32
  <2>3. Goal(6)
    BY <1>2, <1>8, <2>2, Shape32, Registers32, <1>1
    DEF Continues, Calm, Sigsetjmp32, Constant, Own, Still
  <2> QED
    BY <1>3, <2>3
<1>9. CASE i = 6
  <2>1. Executes(<<"mov", Native!R("bx"), Native!M(40, "cx")>>)
    BY <1>1, <1>9 DEF Native!sigsetjmp32
  <2>2. Continues(regs, [mem EXCEPT ![110] = regs["bx"]])
    BY <1>9, <2>1, Shape32, Addresses DEF Continues, Executes, Sigsetjmp32
  <2>3. Goal(7)
    BY <1>2, <1>9, <2>2, Shape32, Registers32, <1>1
    DEF Continues, Calm, Sigsetjmp32, Constant, Own, Still
  <2> QED
    BY <1>3, <2>3
<1>10. CASE i = 7
  <2>1. Executes(<<"mov", Native!R("cx"), Native!R("bx")>>)
    BY <1>1, <1>10 DEF Native!sigsetjmp32
  <2>2. Continues([regs EXCEPT !["bx"] = regs["cx"]], mem)
    BY <1>10, <2>1, Shape32, Addresses DEF Continues, Executes, Sigsetjmp32
  <2>0. \A k \in Kept : 2 <= k => Order[k] # "bx"
    BY Registers32, Distinct
  <2>3. Goal(8)
    BY <1>2, <1>10, <2>0, <2>2, Shape32, Registers32, <1>1
    DEF Continues, Calm, Sigsetjmp32, Constant, Own, Still
  <2> QED
    BY <1>3, <2>3
<1>11. CASE i = 8
  <2>1. Executes(<<"call", "setjmp">>)
    BY <1>1, <1>11 DEF Native!sigsetjmp32
  <2>2. /\ regs' = [regs EXCEPT !["sp"] = Native!At(11)]
        /\ mem' = [mem EXCEPT ![11] = <<"sigsetjmp", 9>>] /\ pc' = <<"setjmp", 1>>
    BY <1>11, <2>1, Shape32, Addresses DEF Executes, Sigsetjmp32
  <2>3. Site = <<"sigsetjmp", 9>> /\ Saves
    BY <1>11 DEF Site, Resumed, Sigsetjmp32
  <2>4. \A k \in Kept : regs[Order[k]] = Entry(k)
    BY <1>11, <2>3, Registers32 DEF Sigsetjmp32, Own, Entry
  <2>5. Setjmp32(1)'
    BY <1>2, <1>11, <2>2, <2>3, <2>4, Shape32, Registers32
    DEF Sigsetjmp32, Setjmp32, BackSaved, Constant
  <2>6. NativeTypes' /\ Pending'
    BY <1>1, <2>2, Shape32, Registers32, Stays DEF Calm
  <2> QED
    BY <1>1, <2>2, <2>5, <2>6 DEF NativeInv, AtSetjmp, Still
<1>12. CASE i = 9
  <2>1. Executes(<<"push", Native!M(36, "bx")>>)
    BY <1>1, <1>12 DEF Native!sigsetjmp32
  <2>2. Continues([regs EXCEPT !["sp"] = Native!At(11)], [mem EXCEPT ![11] = mem[109]])
    BY <1>12, <2>1, Shape32, Addresses DEF Continues, Executes, Sigsetjmp32
  <2>0. Buffered'
    BY <1>2, <1>12, <2>2, Shape32, BufferStays DEF Continues, Sigsetjmp32
  <2>3. Goal(10)
    BY <1>2, <1>12, <2>2, Shape32, Registers32, <1>1, <2>0
    DEF Continues, Calm, Sigsetjmp32, Constant, Own, Still, Buffered, BackSaved
  <2> QED
    BY <1>3, <2>3
<1>13. CASE i = 10
  <2>1. Executes(<<"mov", Native!R("bx"), Native!M(4, "sp")>>)
    BY <1>1, <1>13 DEF Native!sigsetjmp32
  <2>2. Continues(regs, [mem EXCEPT ![12] = regs["bx"]])
    BY <1>13, <2>1, Shape32, Addresses DEF Continues, Executes, Sigsetjmp32
  <2>0. Buffered'
    BY <1>2, <1>13, <2>2, Shape32, BufferStays DEF Continues, Sigsetjmp32
  <2>3. Goal(11)
    BY <1>2, <1>13, <2>2, Shape32, Registers32, <1>1, <2>0
    DEF Continues, Calm, Sigsetjmp32, Constant, Own, Still
  <2> QED
    BY <1>3, <2>3
<1>14. CASE i = 11
  <2>1. Executes(<<"mov", Native!R("ax"), Native!M(8, "sp")>>)
    BY <1>1, <1>14 DEF Native!sigsetjmp32
  <2>2. Continues(regs, [mem EXCEPT ![13] = regs["ax"]])
    BY <1>14, <2>1, Shape32, Addresses DEF Continues, Executes, Sigsetjmp32
  <2>0. Buffered'
    BY <1>2, <1>14, <2>2, Shape32, BufferStays DEF Continues, Sigsetjmp32
  <2>3. Goal(12)
    BY <1>2, <1>14, <2>2, Shape32, Registers32, <1>1, <2>0
    DEF Continues, Calm, Sigsetjmp32, Constant, Own, Still
  <2> QED
    BY <1>3, <2>3
<1>15. CASE i = 12
  <2>1. Executes(<<"mov", Native!M(40, "bx"), Native!R("bx")>>)
    BY <1>1, <1>15 DEF Native!sigsetjmp32
  <2>2. Continues([regs EXCEPT !["bx"] = mem[110]], mem)
    BY <1>15, <2>1, Shape32, Addresses DEF Continues, Executes, Sigsetjmp32
  <2>0. Buffered'
    BY <1>2, <1>15, <2>2, Shape32, BufferStays DEF Continues, Sigsetjmp32
  <2>3. Goal(13)
    BY <1>2, <1>15, <2>2, Shape32, Registers32, <1>1, <2>0
    DEF Continues, Calm, Sigsetjmp32, Constant, Own, Still, Buffered, BackSaved
  <2> QED
    BY <1>3, <2>3
<1>16. CASE i = 13
  <2>1. Executes(<<"jmp", "__sigsetjmp_tail">>)
    BY <1>1, <1>16 DEF Native!sigsetjmp32
  <2>2. regs' = regs /\ mem' = mem /\ pc' = <<"__sigsetjmp_tail", 1>>
    BY <2>1 DEF Executes
  <2>3. NativeTypes' /\ Pending'
    BY <1>1, <2>2, Stays DEF Calm
  <2>4. Buffered'
    BY <1>2, <1>16, <2>2, BufferStays DEF Sigsetjmp32
  <2>5. AtTail'
    BY <1>1, <1>2, <1>16, <2>2, <2>3, <2>4 DEF AtTail, Sigsetjmp32, Own, Constant, Still
  <2> QED
    BY <2>3, <2>5 DEF NativeInv
<1> QED
  BY <1>4, <1>5, <1>6, <1>7, <1>8, <1>9, <1>10, <1>11, <1>12, <1>13, <1>14, <1>15, <1>16


-----------------------------------------------------------------------------
(* dlsym.                                                                  *)

\* What the program relies on after a call is not touched by a step that
\* leaves the buffer alone.
LEMMA FilledStays ==
  ASSUME NativeTypes, Filled, arch' = arch, armed' = armed,
         \A a \in 100..116 : mem'[a] = mem[a]
  PROVE  Filled'
<1>1. SUFFICES ASSUME armed # <<>> PROVE Buffered' /\ (Saves' => MaskSaved')
  BY DEF Filled
<1>2. /\ Order' = Order /\ Kept' = Kept /\ Site' = Site /\ Saves' = Saves
      /\ Back' = Back /\ SavedMask' = SavedMask
      /\ \A k : Entry(k)' = Entry(k)
  BY DEF Order, Kept, Site, Saves, Resumed, Entry, Back, SavedMask
<1>3. Back \in 100..115 /\ SavedMask \in 100..116 /\ \A k \in Kept : 101 + k \in 100..116
  BY DEF Back, Kept, SavedMask
<1>4. Buffered /\ (Saves => MaskSaved)
  BY <1>1 DEF Filled
<1>5. \A k \in Kept : Holds(k)'
  BY <1>2, <1>3, <1>4 DEF Buffered, Holds
<1>6. BackSaved'
  <2>1. ASSUME Saves PROVE mem'[Back] = <<"landed", 0>> /\ mem'[Back + 1] = <<"bx", 1>>
    BY <1>3, <1>4, <2>1 DEF Buffered, BackSaved
  <2> QED
    BY <1>2, <2>1 DEF BackSaved
<1>7. Buffered'
  BY <1>2, <1>4, <1>5, <1>6 DEF Buffered
<1>8. Saves' => MaskSaved'
  BY <1>2, <1>3, <1>4 DEF MaskSaved
<1> QED
  BY <1>7, <1>8

\* Both instructions of dlsym of nt64 keep the invariant.
LEMMA DlsymSteps ==
  ASSUME NativeTypes, AtDlsym, Native!Step, pc[1] = "dlsym"
  PROVE  NativeInv'
<1>1. PICK i \in 1..2 : pc = <<"dlsym", i>>
  BY DEF AtDlsym
<1>2. Executes(Native!dlsym64[i]) /\ Still /\ Constant
  BY <1>1, StepOf, Routines64, Constants DEF AtDlsym
<1>3. PICK s \in {6, 11} :
        /\ s = IF deep THEN 6 ELSE 11
        /\ regs["sp"] = Native!At(s) /\ mem[s] = <<"looked_up", 0>>
  BY DEF AtDlsym
<1>4. ASSUME mem' = mem, DOMAIN regs' = DOMAIN regs,
             \A r \in DOMAIN regs \ {"r8"} : regs'[r] = regs[r],
             pc' \in {<<"dlsym", 2>>, <<"__dlsym", 1>>}, regs'["r8"] = <<"looked_up", 0>>
      PROVE  NativeInv'
  <2>1. NativeTypes'
    BY <1>2, <1>4, Stays DEF Calm
  <2>2. Filled'
    BY <1>2, <1>4, FilledStays DEF AtDlsym, Still
  <2>3. OfProgram'
    BY <1>2, <1>4, Registers64 DEF OfProgram, AtDlsym, Constant, Still
  <2>4. AtDlsym'
    BY <1>2, <1>3, <1>4, <2>2, <2>3, Registers64 DEF AtDlsym, Still
  <2> QED
    BY <2>1, <2>4 DEF NativeInv
<1>5. CASE i = 1
  <2>1. Executes(<<"mov", Native!M(0, "sp"), Native!R("r8")>>)
    BY <1>2, <1>5 DEF Native!dlsym64
  <2>2. Continues([regs EXCEPT !["r8"] = <<"looked_up", 0>>], mem)
    BY <1>1, <1>3, <1>5, <2>1, Shape64, Addresses DEF Continues, Executes, AtDlsym
  <2> QED
    BY <1>1, <1>4, <1>5, <2>2, Registers64 DEF Continues, AtDlsym
<1>6. CASE i = 2
  <2>1. Executes(<<"jmp", "__dlsym">>)
    BY <1>2, <1>6 DEF Native!dlsym64
  <2>2. regs' = regs /\ mem' = mem /\ pc' = <<"__dlsym", 1>>
    BY <2>1 DEF Executes
  <2> QED
    BY <1>1, <1>4, <1>6, <2>2 DEF AtDlsym
<1> QED
  BY <1>5, <1>6

HIDE DEF Native!WordSize, Native!Word, Native!Moved, Native!Following, Native!Instruction,
         Native!Mov, Native!Lea, Native!Flip, Native!Pop, Native!Push, Native!Call, Native!Ret,
         Native!Jmp, Native!JmpTo, Native!JumpNonzero, Native!Onto, Native!M, Native!R,
         Native!I, Native!Assign, Native!Value

-----------------------------------------------------------------------------
(* The program calls.                                                      *)

\* The registers that are stored are those that a call preserves, and no other
\* register that the routines use is one of them.
LEMMA InOrder ==
  ASSUME NativeTypes
  PROVE  /\ Native!Preserved = {Order[k] : k \in Kept}
         /\ \A k \in Kept : Order[k] \in Native!Registers \ {"sp", "ax", "cx", "dx", "r8"}
<1>1. CASE arch = "nt64"
  <2>1. /\ Order[1] = "bx" /\ Order[2] = "bp" /\ Order[3] = "di" /\ Order[4] = "si"
        /\ Order[5] = "r12" /\ Order[6] = "r13" /\ Order[7] = "r14" /\ Order[8] = "r15"
    BY <1>1 DEF Order
  <2>2. Kept = 1..8 /\ Native!Preserved = {"bx", "bp", "di", "si", "r12", "r13", "r14", "r15"}
    BY <1>1 DEF Kept, Native!Preserved
  <2>3. \A k \in 1..8 : k \in {1, 2, 3, 4, 5, 6, 7, 8}
    OBVIOUS
  <2>4. \A k \in Kept : Order[k] \in Native!Preserved
    BY <2>1, <2>2
  <2>5. \A r \in Native!Preserved : \E k \in Kept : r = Order[k]
    BY <2>1, <2>2
  <2> QED
    BY <1>1, <2>2, <2>4, <2>5 DEF Native!Registers
<1>2. CASE arch = "nt32"
  <2>1. Order[1] = "bx" /\ Order[2] = "bp" /\ Order[3] = "di" /\ Order[4] = "si"
    BY <1>2 DEF Order
  <2>2. Kept = 1..4 /\ Native!Preserved = {"bx", "bp", "di", "si"}
    BY <1>2 DEF Kept, Native!Preserved
  <2>3. \A k \in Kept : Order[k] \in Native!Preserved
    BY <2>1, <2>2
  <2>4. \A r \in Native!Preserved : \E k \in Kept : r = Order[k]
    BY <2>1, <2>2
  <2> QED
    BY <1>2, <2>2, <2>3, <2>4 DEF Native!Registers
<1> QED
  BY <1>1, <1>2 DEF NativeTypes

\* A function is entered with its arguments and its return address, and with
\* the registers, the locals and the buffer of the program.
Entered(name, a, b, site, n) ==
  /\ pc' = <<name, 1>> /\ DOMAIN regs' = DOMAIN regs /\ DOMAIN mem' = DOMAIN mem
  /\ regs'["sp"] = Native!At(n - 1) /\ mem'[n - 1] = <<site, 0>>
  /\ \A k \in Kept : regs'[Order[k]] = regs[Order[k]]
  /\ \A w \in {16, 17} \cup 100..116 : mem'[w] = mem[w]
  /\ IF arch = "nt64" THEN regs'["cx"] = a /\ regs'["dx"] = b
     ELSE mem'[n] = a /\ mem'[n + 1] = b

\* What Enter does.
LEMMA Enters ==
  ASSUME NativeTypes, NEW n \in {7, 12}, regs["sp"] = Native!At(n),
         NEW name, NEW a, NEW b, NEW site, Native!Enter(name, <<a, b>>, site)
  PROVE  Entered(name, a, b, site, n)
<1> DEFINE Named == [nt64 |-> <<"cx", "dx">>, nt32 |-> <<>>][arch]
           Arg(r) == <<a, b>>[CHOOSE k \in DOMAIN Named : Named[k] = r]
<1>1. regs["sp"][2] = n /\ n \in {7, 12}
  BY Addresses
<1>2. /\ regs' = [r \in Native!Registers |->
                    IF r = "sp" THEN Native!At(n - 1)
                    ELSE IF \E k \in DOMAIN Named : Named[k] = r THEN Arg(r) ELSE regs[r]]
      /\ mem' = [w \in DOMAIN mem |->
                    IF w = n - 1 THEN <<site, 0>>
                    ELSE IF arch = "nt32" /\ w \in n..(n + 1) THEN <<a, b>>[w - n + 1]
                    ELSE mem[w]]
      /\ pc' = <<name, 1>>
  BY <1>1 DEF Native!Enter
<1>3. /\ arch = "nt64" => \A r : (\E k \in DOMAIN Named : Named[k] = r) <=> r \in {"cx", "dx"}
      /\ arch = "nt32" => \A r : ~\E k \in DOMAIN Named : Named[k] = r
  OBVIOUS
<1>4. arch = "nt64" => Arg("cx") = a /\ Arg("dx") = b
  OBVIOUS
<1> HIDE DEF Named, Arg
<1>5. /\ DOMAIN regs' = DOMAIN regs /\ DOMAIN mem' = DOMAIN mem
      /\ regs'["sp"] = Native!At(n - 1)
  BY <1>2 DEF NativeTypes, Native!Registers
<1>6. \A k \in Kept : regs'[Order[k]] = regs[Order[k]]
  BY <1>2, <1>3, InOrder DEF NativeTypes
<1>7. mem'[n - 1] = <<site, 0>> /\ \A w \in {16, 17} \cup 100..116 : mem'[w] = mem[w]
  <2>1. CASE n = 7
    BY <1>2, <2>1 DEF NativeTypes
  <2>2. CASE n = 12
    BY <1>2, <2>2 DEF NativeTypes
  <2> QED
    BY <2>1, <2>2
<1>8. arch = "nt64" => regs'["cx"] = a /\ regs'["dx"] = b
  BY <1>2, <1>3, <1>4 DEF Native!Registers
<1>9. arch = "nt32" => mem'[n] = a /\ mem'[n + 1] = b
  <2>1. ASSUME arch = "nt32", n = 7 PROVE mem'[7] = a /\ mem'[8] = b
    BY <1>2, <2>1 DEF NativeTypes
  <2>2. ASSUME arch = "nt32", n = 12 PROVE mem'[12] = a /\ mem'[13] = b
    BY <1>2, <2>2 DEF NativeTypes
  <2> QED
    BY <2>1, <2>2
<1> QED
  BY <1>2, <1>5, <1>6, <1>7, <1>8, <1>9 DEF Entered, NativeTypes


\* setjmp and sigsetjmp are called by the outer function.
LEMMA SetjmpCalled ==
  ASSUME NativeTypes, AtProgram, NEW name \in {"setjmp", "sigsetjmp"}, NEW save \in {0, 1},
         Native!CallSetjmp(name, save)
  PROVE  NativeInv'
<1>1. /\ ~deep /\ regs["sp"] = Native!At(12) /\ (name = "setjmp" => save = 0)
      /\ Native!Enter(name, <<Native!At(100), Native!Num(save)>>, "landed")
  BY DEF Native!CallSetjmp, AtProgram
<1>2. /\ armed' = <<save, mask>> /\ expected' = [value |-> Native!Num(0), mask |-> mask]
      /\ arch' = arch /\ deep' = deep /\ mask' = mask
  BY DEF Native!CallSetjmp
<1>3. Entered(name, Native!At(100), Native!Num(save), "landed", 12)
  BY <1>1, Enters
<1>4. /\ Order' = Order /\ Kept' = Kept /\ First' /\ (Saves' <=> save = 1)
      /\ (name = "setjmp" => ~Saves' /\ Site' = <<"landed", 0>>)
  BY <1>1, <1>2 DEF Order, Kept, First, Saves, Site
<1>5. NativeTypes'
  BY <1>2, <1>3 DEF NativeTypes, Entered, Native!Registers, Native!Preserved
<1>6. Pending'
  BY <1>1, <1>2, <1>4 DEF Pending, NativeTypes
<1>7. \A k \in Kept : regs'[Order[k]] = <<Order[k], 1>>
  BY <1>1, <1>3 DEF Entered, AtProgram, OfProgram
<1>8. CASE name = "setjmp"
  <2>1. BackSaved'
    BY <1>4, <1>8 DEF BackSaved
  <2>2. \A k \in Kept' : regs'[Order'[k]] = Entry(k)'
    BY <1>4, <1>7, <1>8 DEF Entry
  <2>3. Kept \subseteq Nat \ {0}
    BY DEF Kept
  <2>4. CASE arch = "nt64"
    <3>1. Setjmp64(1)'
      BY <1>3, <1>4, <1>8, <2>1, <2>2, <2>3, <2>4 DEF Setjmp64, Entered
    <3> QED
      BY <1>2, <1>3, <1>5, <1>6, <1>8, <2>4, <3>1 DEF NativeInv, AtSetjmp, Entered
  <2>5. CASE arch = "nt32"
    <3>1. Setjmp32(1)'
      BY <1>3, <1>4, <1>8, <2>1, <2>2, <2>3, <2>5 DEF Setjmp32, Entered
    <3> QED
      BY <1>2, <1>3, <1>5, <1>6, <1>8, <2>5, <3>1 DEF NativeInv, AtSetjmp, Entered
  <2> QED
    BY <2>4, <2>5 DEF NativeTypes
<1>9. CASE name = "sigsetjmp"
  <2>1. Own(1)'
    BY <1>4, <1>7, Zenon DEF Own
  <2>2. armed'[1] = save
    BY <1>2
  <2>3. CASE arch = "nt64"
    <3>1. Sigsetjmp64(1)'
      BY <1>3, <1>4, <2>1, <2>2, <2>3 DEF Sigsetjmp64, Entered
    <3> QED
      BY <1>2, <1>3, <1>5, <1>6, <1>9, <2>3, <3>1 DEF NativeInv, AtSigsetjmp, Entered
  <2>4. CASE arch = "nt32"
    <3>1. Sigsetjmp32(1)'
      BY <1>3, <1>4, <2>1, <2>2, <2>4 DEF Sigsetjmp32, Entered
    <3> QED
      BY <1>2, <1>3, <1>5, <1>6, <1>9, <2>4, <3>1 DEF NativeInv, AtSigsetjmp, Entered
  <2> QED
    BY <2>3, <2>4 DEF NativeTypes
<1> QED
  BY <1>8, <1>9

\* longjmp is called by either function, with any value.
LEMMA LongjmpCalled ==
  ASSUME NativeTypes, AtProgram, NEW value \in Nat, Native!CallLongjmp(value)
  PROVE  NativeInv'
<1> DEFINE n == IF deep THEN 7 ELSE 12
<1>1. /\ armed # <<>> /\ regs["sp"] = Native!At(n) /\ n \in {7, 12}
      /\ Native!Enter("longjmp", <<Native!At(100), Native!Num(value)>>, "program")
  BY DEF Native!CallLongjmp, AtProgram
<1>2. /\ expected'.value = Native!Num(IF value = 0 THEN 1 ELSE value)
      /\ expected'.mask = IF armed[1] = 1 THEN armed[2] ELSE mask
      /\ deep' = FALSE /\ arch' = arch /\ mask' = mask /\ armed' = armed
  BY DEF Native!CallLongjmp
<1>3. Entered("longjmp", Native!At(100), Native!Num(value), "program", n)
  BY <1>1, Enters
<1> HIDE DEF n
<1>4. Order' = Order /\ Kept' = Kept /\ Saves' = Saves /\ ~First'
  BY <1>2 DEF Order, Kept, First, Saves, Native!Num
<1>5. NativeTypes'
  BY <1>2, <1>3 DEF NativeTypes, Entered, Native!Registers, Native!Preserved
<1>6. Filled'
  BY <1>2, <1>3, FilledStays DEF Entered, AtProgram
<1>7. Buffered' /\ (Saves' => MaskSaved')
  BY <1>1, <1>2, <1>6 DEF Filled
<1>8. Pending'
  BY <1>1, <1>2, <1>4, <1>7 DEF Pending, Saves, NativeTypes
<1>9. NotZero'
  BY <1>2 DEF NotZero
<1>10. Given(Native!Num(value))'
  BY <1>2 DEF Given, Native!Num
<1>11. n - 1 \in {6, 11}
  BY <1>1
<1>12. Kept \subseteq 1..8 /\ (arch = "nt32" => Kept \subseteq 1..4)
  BY DEF Kept
<1>13. CASE arch = "nt64"
  <2>1. Longjmp64(1)'
    BY <1>3, <1>4, <1>10, <1>11, <1>12, <1>13 DEF Longjmp64, Entered
  <2> QED
    BY <1>2, <1>3, <1>5, <1>7, <1>8, <1>9, <1>13, <2>1 DEF NativeInv, AtLongjmp, Entered
<1>14. CASE arch = "nt32"
  <2>1. PICK s \in {6, 11} : s + 1 = n
    BY <1>1
  <2>2. /\ regs'["sp"] = Native!At(s) /\ mem'[s + 1] = Native!At(100)
        /\ mem'[s + 2] = Native!Num(value)
    BY <1>3, <1>14, <2>1 DEF Entered
  <2>3. Longjmp32(1)'
    BY <1>4, <1>10, <1>12, <1>14, <2>2 DEF Longjmp32
  <2> QED
    BY <1>2, <1>3, <1>5, <1>7, <1>8, <1>9, <1>14, <2>3 DEF NativeInv, AtLongjmp, Entered
<1> QED
  BY <1>13, <1>14 DEF NativeTypes

\* dlsym of nt64 is called by either function.
LEMMA DlsymCalled ==
  ASSUME NativeTypes, AtProgram, Native!CallDlsym
  PROVE  NativeInv'
<1> DEFINE n == IF deep THEN 7 ELSE 12
<1>1. /\ regs["sp"] = Native!At(n) /\ n \in {7, 12}
      /\ Native!Enter("dlsym", << <<"handle", 0>>, <<"name", 0>> >>, "looked_up")
      /\ UNCHANGED <<arch, deep, mask, armed, expected>>
  BY DEF Native!CallDlsym, AtProgram
<1>2. arch = "nt64"
  BY MachineAssumption DEF Native!CallDlsym, NativeTypes
<1>3. Entered("dlsym", <<"handle", 0>>, <<"name", 0>>, "looked_up", n)
  BY <1>1, Enters
<1>4. n - 1 = IF deep THEN 6 ELSE 11
  OBVIOUS
<1> HIDE DEF n
<1>5. Order' = Order /\ Kept' = Kept
  BY <1>1 DEF Order, Kept
<1>6. NativeTypes'
  BY <1>1, <1>3 DEF NativeTypes, Entered, Native!Registers, Native!Preserved
<1>7. Filled'
  BY <1>1, <1>3, FilledStays DEF Entered, AtProgram
<1>8. OfProgram'
  BY <1>1, <1>3, <1>5 DEF OfProgram, Entered, AtProgram
<1>9. AtDlsym'
  BY <1>1, <1>2, <1>3, <1>4, <1>7, <1>8 DEF AtDlsym, Entered
<1> QED
  BY <1>6, <1>9 DEF NativeInv

\* The program runs on.
LEMMA GoesOn ==
  ASSUME NativeTypes, AtProgram, NEW d \in BOOLEAN, NEW k \in {0, 1}, Native!GoOn(d, k)
  PROVE  NativeInv'
<1>1. /\ deep' = d /\ mask' = k /\ regs' = Native!Owned(d) /\ pc' = <<"program", 0>>
      /\ mem' = [a \in DOMAIN mem |-> IF a < 16 THEN Native!Garbage ELSE mem[a]]
      /\ arch' = arch /\ armed' = armed /\ expected' = expected
  BY DEF Native!GoOn
<1>2. ASSUME NEW a \in {16, 17} \cup 100..116 PROVE mem'[a] = mem[a]
  <2>1. a \in DOMAIN mem /\ ~(a < 16)
    BY DEF NativeTypes
  <2> QED
    BY <1>1, <2>1
<1>3. NativeTypes'
  <2>1. DOMAIN mem' = DOMAIN mem
    BY <1>1
  <2>2. DOMAIN regs' = Native!Registers'
    BY <1>1 DEF Native!Registers, Native!Preserved, Native!Owned
  <2> QED
    BY <1>1, <1>2, <2>1, <2>2 DEF NativeTypes
<1>4. Filled'
  BY <1>1, <1>2, FilledStays DEF AtProgram
<1>5. Order' = Order /\ Kept' = Kept
  BY <1>1 DEF Order, Kept
<1>6. ASSUME NEW n \in Kept PROVE regs'[Order[n]] = <<Order[n], IF d THEN 2 ELSE 1>>
  BY <1>1, InOrder DEF Native!Owned
<1>7. OfProgram'
  BY <1>1, <1>5, <1>6 DEF OfProgram
<1>8. regs'["sp"] = Native!At(IF d THEN 7 ELSE 12)
  BY <1>1 DEF Native!Owned, Native!Registers, Native!Inner, Native!Outer
<1> QED
  BY <1>1, <1>3, <1>4, <1>7, <1>8 DEF NativeInv, AtProgram


-----------------------------------------------------------------------------
(* Handlers, and compiled functions.                                       *)

\* The routines keep nothing below the stack pointer.
LEMMA Overwritten ==
  ASSUME NativeInv, ~AtProgram, Still, UNCHANGED <<regs, pc>>, DOMAIN mem' = DOMAIN mem,
         \A n \in {6, 11, 12} : regs["sp"] = Native!At(n) =>
           \A a \in n..17 \cup 100..116 : mem'[a] = mem[a]
  PROVE  NativeInv'
<1>1. Still /\ UNCHANGED <<regs, pc>> /\ DOMAIN mem' = DOMAIN mem
  OBVIOUS
<1>2. Constant
  BY Constants
<1>3. PICK n \in {6, 11, 12} : regs["sp"] = Native!At(n)
  <2>1. CASE AtSetjmp
    BY <2>1 DEF AtSetjmp, Setjmp64, Setjmp32
  <2>2. CASE AtLongjmp
    BY <2>2 DEF AtLongjmp, Longjmp64, Longjmp32
  <2>3. CASE AtSigsetjmp
    BY <2>3 DEF AtSigsetjmp, Sigsetjmp64, Sigsetjmp32
  <2>4. CASE AtTail
    BY <2>4 DEF AtTail
  <2>5. CASE AtDlsym
    BY <2>5 DEF AtDlsym
  <2> QED
    BY <2>1, <2>2, <2>3, <2>4, <2>5 DEF NativeInv
<1>4. \A a \in n..17 \cup 100..116 : mem'[a] = mem[a]
  BY <1>3
<1>5. Calm
  BY <1>1, <1>4 DEF Calm, SavedMask
<1>6. NativeTypes' /\ (Pending => Pending')
  BY <1>1, <1>5, Stays DEF NativeInv
<1>7. Buffered => Buffered'
  BY <1>2, <1>4, BufferStays DEF NativeInv
<1>8. Kept \subseteq 1..8 /\ Back \in 100..115
  BY DEF Kept, Back
<1>9. (\A k \in Kept : Holds(k)' <=> Holds(k)) /\ (BackSaved => BackSaved')
  BY <1>2, <1>4, <1>8 DEF Holds, BackSaved, Constant
<1>10. \A i : (Own(i) => Own(i)')
  BY <1>1, <1>2 DEF Own, Constant
<1>11. CASE AtSetjmp
  <2>1. CASE arch = "nt64" /\ \E i \in 1..13 : pc = <<"setjmp", i>> /\ Setjmp64(i)
    <3>1. PICK i \in 1..13 : pc = <<"setjmp", i>> /\ Setjmp64(i)
      BY <2>1
    <3>2. Setjmp64(i)'
      BY <1>1, <1>2, <1>3, <1>4, <1>9, <3>1, Addresses DEF Setjmp64, Constant
    <3> QED
      BY <1>1, <1>6, <1>11, <2>1, <3>1, <3>2 DEF NativeInv, AtSetjmp, Still
  <2>2. CASE arch = "nt32" /\ \E i \in 1..11 : pc = <<"setjmp", i>> /\ Setjmp32(i)
    <3>1. PICK i \in 1..11 : pc = <<"setjmp", i>> /\ Setjmp32(i)
      BY <2>2
    <3>2. n = 11
      BY <1>3, <3>1 DEF Setjmp32, Native!At
    <3>3. \A a \in {11, 12, 100, 101} : mem'[a] = mem[a]
      BY <1>4, <3>2
    <3>4. Setjmp32(i)'
      BY <1>1, <1>2, <1>9, <3>1, <3>3 DEF Setjmp32, Constant
    <3> QED
      BY <1>1, <1>6, <1>11, <2>2, <3>1, <3>4 DEF NativeInv, AtSetjmp, Still
  <2> QED
    BY <1>11, <2>1, <2>2 DEF AtSetjmp
<1>12. CASE AtLongjmp
  <2>1. Buffered' /\ NotZero' /\ \A v : (Given(v) => Given(v)')
    BY <1>1, <1>7, <1>12 DEF AtLongjmp, NotZero, Given, Still
  <2>2. CASE arch = "nt64" /\ \E i \in 1..14 : pc = <<"longjmp", i>> /\ Longjmp64(i)
    <3>1. PICK i \in 1..14 : pc = <<"longjmp", i>> /\ Longjmp64(i)
      BY <2>2
    <3>2. Longjmp64(i)'
      BY <1>1, <1>2, <1>3, <1>4, <2>1, <3>1 DEF Longjmp64, Constant, Given, Still
    <3> QED
      BY <1>1, <1>6, <1>12, <2>1, <2>2, <3>1, <3>2 DEF NativeInv, AtLongjmp, Still
  <2>3. CASE arch = "nt32" /\ \E i \in 1..11 : pc = <<"longjmp", i>> /\ Longjmp32(i)
    <3>1. PICK i \in 1..11 : pc = <<"longjmp", i>> /\ Longjmp32(i)
      BY <2>3
    <3>2. Longjmp32(i)'
      BY <1>1, <1>2, <1>3, <1>4, <2>1, <3>1, Addresses DEF Longjmp32, Constant, Given, Still
    <3> QED
      BY <1>1, <1>6, <1>12, <2>1, <2>3, <3>1, <3>2 DEF NativeInv, AtLongjmp, Still
  <2> QED
    BY <1>12, <2>2, <2>3 DEF AtLongjmp
<1>13. CASE AtSigsetjmp
  <2>1. CASE arch = "nt64" /\ \E i \in 1..11 : pc = <<"sigsetjmp", i>> /\ Sigsetjmp64(i)
    <3>1. PICK i \in 1..11 : pc = <<"sigsetjmp", i>> /\ Sigsetjmp64(i)
      BY <2>1
    <3>2. Sigsetjmp64(i)'
      BY <1>1, <1>2, <1>3, <1>4, <1>7, <1>10, <3>1, Addresses
      DEF Sigsetjmp64, Constant, Still
    <3> QED
      BY <1>1, <1>6, <1>13, <2>1, <3>1, <3>2 DEF NativeInv, AtSigsetjmp, Still
  <2>2. CASE arch = "nt32" /\ \E i \in 1..13 : pc = <<"sigsetjmp", i>> /\ Sigsetjmp32(i)
    <3>1. PICK i \in 1..13 : pc = <<"sigsetjmp", i>> /\ Sigsetjmp32(i)
      BY <2>2
    <3>2. Sigsetjmp32(i)'
      BY <1>1, <1>2, <1>3, <1>4, <1>7, <1>10, <3>1, Addresses
      DEF Sigsetjmp32, Constant, Still
    <3> QED
      BY <1>1, <1>6, <1>13, <2>2, <3>1, <3>2 DEF NativeInv, AtSigsetjmp, Still
  <2> QED
    BY <1>13, <2>1, <2>2 DEF AtSigsetjmp
<1>14. CASE AtTail
  <2>1. n = 11
    BY <1>3, <1>14 DEF AtTail, Native!At
  <2>2. \A a \in {11, 12, 13} : mem'[a] = mem[a]
    BY <1>4, <2>1
  <2>3. AtTail'
    BY <1>1, <1>2, <1>6, <1>7, <1>10, <1>14, <2>2 DEF AtTail, Constant, Still
  <2> QED
    BY <1>6, <2>3 DEF NativeInv
<1>15. CASE AtDlsym
  <2>1. Filled'
    BY <1>1, <1>4, <1>15, FilledStays DEF AtDlsym, NativeInv, Still
  <2>2. OfProgram'
    BY <1>1, <1>2, <1>15 DEF AtDlsym, OfProgram, Constant, Still
  <2>3. PICK s \in {6, 11} :
          /\ s = IF deep THEN 6 ELSE 11
          /\ regs["sp"] = Native!At(s) /\ mem[s] = <<"looked_up", 0>>
    BY <1>15 DEF AtDlsym
  <2>4. s = n
    BY <1>3, <2>3 DEF Native!At
  <2>5. mem'[s] = <<"looked_up", 0>>
    BY <1>4, <2>3, <2>4
  <2>6. AtDlsym'
    BY <1>1, <1>15, <2>1, <2>2, <2>3, <2>5 DEF AtDlsym, Still
  <2> QED
    BY <1>6, <2>6 DEF NativeInv
<1> QED
  BY <1>11, <1>12, <1>13, <1>14, <1>15 DEF NativeInv

\* A handler overwrites what is below the stack pointer.
LEMMA Interrupted ==
  ASSUME NativeInv, Native!Handler
  PROVE  NativeInv'
<1>1. Still /\ UNCHANGED <<regs, pc>> /\ DOMAIN mem' = DOMAIN mem
  BY DEF Native!Handler, Still
<1>2. ASSUME NEW n \in {6, 11, 12}, regs["sp"] = Native!At(n), NEW a \in n..17 \cup 100..116
      PROVE  mem'[a] = mem[a]
  <2>1. a \in DOMAIN mem /\ ~(a < n) /\ regs["sp"][2] = n
    BY <1>2, Addresses DEF NativeInv, NativeTypes
  <2> QED
    BY <2>1 DEF Native!Handler
<1>3. ~AtProgram
  BY DEF AtProgram, Native!Handler, Native!InProgram
<1> QED
  BY <1>1, <1>2, <1>3, Overwritten


\* musl saves the mask the first time and brings it back later.
LEMMA TailReturns ==
  ASSUME NativeTypes, AtTail, Native!SigsetjmpTail
  PROVE  NativeInv'
<1> DEFINE result == Native!Argument(2)
           stored == [a \in IF arch = "nt64" THEN {Native!Ss(0)}
                             ELSE {Native!Ss(0), Native!Ss(1)} |-> <<"mask", mask>>]
           Others == {b \in 100..116 : b # SavedMask /\ (arch = "nt32" => b # SavedMask + 1)}
<1>1. result = expected.value
  BY Addresses DEF AtTail, Native!Argument, NativeTypes
<1>2. UNCHANGED <<arch, deep, armed, expected>>
  BY DEF Native!SigsetjmpTail
<1>3. /\ ~deep /\ Saves /\ Buffered
      /\ armed # <<>> /\ armed \in {0, 1} \X {0, 1} /\ expected.mask = armed[2]
  BY DEF AtTail, Pending
<1>4. Native!Ss(0) = SavedMask /\ Native!Ss(1) = SavedMask + 1
  BY DEF Native!Ss, SavedMask
<1>5. /\ Order' = Order /\ Kept' = Kept /\ Site' = Site /\ Saves' = Saves
      /\ Back' = Back /\ SavedMask' = SavedMask /\ \A k : Entry(k)' = Entry(k)
  BY <1>2 DEF Order, Kept, Site, Saves, Resumed, Entry, Back, SavedMask
\* What is left to show once its return is understood.
<1>6. ASSUME regs' = [r \in Native!Registers |->
                        CASE r = "sp" -> Native!At(12) [] r = "ax" -> expected.value
                          [] r \in Native!Preserved -> regs[r] [] OTHER -> Native!Garbage],
             pc' = <<"landed", 0>>, DOMAIN mem' = DOMAIN mem,
             \A a \in {16, 17} \cup Others : mem'[a] = mem[a],
             mem'[SavedMask] = <<"mask", armed[2]>>, mask' = expected.mask
      PROVE  NativeInv'
  <2>1. NativeTypes'
    BY <1>2, <1>3, <1>6 DEF NativeTypes, Native!Registers, Native!Preserved
  <2>2. \A k \in Kept : Holds(k)'
    <3>1. \A k \in Kept : /\ 101 + k \in 100..116 /\ 101 + k # SavedMask
                          /\ arch = "nt32" => 101 + k # SavedMask + 1
      BY DEF Kept, SavedMask, NativeTypes
    <3> QED
      BY <1>3, <1>5, <1>6, <3>1 DEF Buffered, Holds
  <2>3. BackSaved'
    <3>1. /\ Back \in 100..115 /\ Back # SavedMask /\ Back + 1 # SavedMask
          /\ (arch = "nt32" => Back # SavedMask + 1 /\ Back + 1 # SavedMask + 1)
      BY DEF Back, SavedMask, NativeTypes
    <3>2. mem'[Back] = mem[Back] /\ mem'[Back + 1] = mem[Back + 1]
      BY <1>6, <3>1
    <3> QED
      BY <1>3, <1>5, <3>2 DEF Buffered, BackSaved
  <2>4. Filled'
    <3>1. 100 # SavedMask /\ 101 # SavedMask /\ 100 # SavedMask + 1 /\ 101 # SavedMask + 1
      BY DEF SavedMask
    <3>2. mem'[100] = mem[100] /\ mem'[101] = mem[101]
      BY <1>6, <3>1
    <3>3. MaskSaved'
      BY <1>2, <1>5, <1>6 DEF MaskSaved
    <3>4. Buffered'
      BY <1>3, <1>5, <2>2, <2>3, <3>2 DEF Buffered
    <3> QED
      BY <3>3, <3>4 DEF Filled
  <2>5. \A k \in Kept : regs'[Order[k]] = regs[Order[k]]
    BY <1>6, InOrder
  <2>6. OfProgram'
    <3>1. \A k \in Kept : 1 <= k
      BY DEF Kept
    <3>2. \A k \in Kept : regs[Order[k]] = <<Order[k], 1>>
      BY <3>1 DEF AtTail, Own
    <3> QED
      BY <1>2, <1>3, <1>5, <2>5, <3>2 DEF OfProgram
  <2>7. regs'["sp"] = Native!At(12) /\ regs'["ax"] = expected.value
    <3>1. "sp" \in Native!Registers /\ "ax" \in Native!Registers
      BY DEF Native!Registers
    <3> QED
      BY <1>6, <3>1 DEF Native!Preserved
  <2>8. AtProgram'
    BY <1>2, <1>3, <1>6, <2>4, <2>6, <2>7 DEF AtProgram
  <2> QED
    BY <2>1, <2>8 DEF NativeInv
<1>7. regs["sp"][2] = 11 /\ mem[11] = <<"landed", 0>>
  BY Addresses DEF AtTail
<1>8. ASSUME NEW value, NEW words, Native!Returns(value, words), DOMAIN words \cap {16, 17} = {}
      PROVE  /\ regs' = [r \in Native!Registers |->
                           CASE r = "sp" -> Native!At(12) [] r = "ax" -> value
                             [] r \in Native!Preserved -> regs[r] [] OTHER -> Native!Garbage]
             /\ pc' = <<"landed", 0>> /\ DOMAIN mem' = DOMAIN mem
             /\ \A a \in ({16, 17} \cup 100..116) \ DOMAIN words : mem'[a] = mem[a]
             /\ \A a \in DOMAIN words \cap DOMAIN mem : mem'[a] = words[a]
  <2>1. /\ regs' = [r \in Native!Registers |->
                           CASE r = "sp" -> Native!At(11 + 1) [] r = "ax" -> value
                             [] r \in Native!Preserved -> regs[r] [] OTHER -> Native!Garbage]
        /\ mem' = [a \in DOMAIN mem |->
                     IF a \in DOMAIN words THEN words[a]
                     ELSE IF a \in (11 + 1 .. 11 + (IF arch = "nt64" THEN 4 ELSE 3))
                                     \ Native!Locals
                     THEN Native!Garbage ELSE mem[a]]
        /\ pc' = mem[11]
    BY <1>7, <1>8 DEF Native!Returns
  <2>2. ASSUME NEW a \in ({16, 17} \cup 100..116) \ DOMAIN words PROVE mem'[a] = mem[a]
    <3>1. a \in DOMAIN mem
      BY DEF NativeTypes
    <3>2. a \notin (11 + 1 .. 11 + (IF arch = "nt64" THEN 4 ELSE 3)) \ Native!Locals
      BY DEF Native!Locals
    <3> QED
      BY <2>1, <3>1, <3>2
  <2>3. DOMAIN mem' = DOMAIN mem /\ \A a \in DOMAIN words \cap DOMAIN mem : mem'[a] = words[a]
    BY <2>1
  <2>4. pc' = <<"landed", 0>>
    BY <1>7, <2>1
  <2> QED
    BY <2>1, <2>2, <2>3, <2>4
<1>9. SavedMask \in 100..115 /\ {SavedMask, SavedMask + 1} \subseteq DOMAIN mem
  BY DEF SavedMask, NativeTypes
<1>10. CASE result = Native!Num(0)
  <2>1. Native!Returns(Native!Num(0), stored) /\ mask' = mask
    BY <1>10 DEF Native!SigsetjmpTail
  <2>2. DOMAIN stored = (IF arch = "nt64" THEN {SavedMask} ELSE {SavedMask, SavedMask + 1})
        /\ stored[SavedMask] = <<"mask", mask>>
    BY <1>4
  <2>3. mask = expected.mask
    BY <1>1, <1>10 DEF AtTail, Pending, First
  <2>4. DOMAIN stored \cap {16, 17} = {}
    BY <1>9, <2>2
  <2> HIDE DEF stored
  <2>5. /\ regs' = [r \in Native!Registers |->
                      CASE r = "sp" -> Native!At(12) [] r = "ax" -> Native!Num(0)
                        [] r \in Native!Preserved -> regs[r] [] OTHER -> Native!Garbage]
        /\ pc' = <<"landed", 0>> /\ DOMAIN mem' = DOMAIN mem
        /\ \A a \in ({16, 17} \cup 100..116) \ DOMAIN stored : mem'[a] = mem[a]
        /\ \A a \in DOMAIN stored \cap DOMAIN mem : mem'[a] = stored[a]
    BY <1>8, <2>1, <2>4
  <2>6. mem'[SavedMask] = <<"mask", armed[2]>>
    BY <1>3, <1>9, <2>2, <2>3, <2>5
  <2>7. \A a \in {16, 17} \cup Others : a \notin DOMAIN stored
    BY <1>9, <2>2 DEF NativeTypes
  <2>8. Native!Num(0) = expected.value /\ mask' = expected.mask
    BY <1>1, <1>10, <2>1, <2>3
  <2> QED
    BY <1>6, <2>5, <2>6, <2>7, <2>8
<1>11. CASE result # Native!Num(0)
  <2>1. /\ Native!Returns(result, <<>>)
        /\ mask' = IF mem[SavedMask][1] = "mask" THEN mem[SavedMask][2] ELSE 1 - mask
    BY <1>4, <1>11 DEF Native!SigsetjmpTail
  <2>2. mem[SavedMask] = <<"mask", armed[2]>>
    BY <1>1, <1>11 DEF AtTail, Pending, First, MaskSaved
  <2>3. mask' = expected.mask
    BY <1>3, <2>1, <2>2
  <2>4. DOMAIN <<>> = {}
    OBVIOUS
  <2>5. /\ regs' = [r \in Native!Registers |->
                      CASE r = "sp" -> Native!At(12) [] r = "ax" -> expected.value
                        [] r \in Native!Preserved -> regs[r] [] OTHER -> Native!Garbage]
        /\ pc' = <<"landed", 0>> /\ DOMAIN mem' = DOMAIN mem
        /\ \A a \in {16, 17} \cup 100..116 : mem'[a] = mem[a]
    <3> HIDE DEF result
    <3>1. DOMAIN <<>> \cap {16, 17} = {}
      BY <2>4
    <3> QED
      BY <1>1, <1>8, <2>1, <2>4, <3>1
  <2>6. mem'[SavedMask] = <<"mask", armed[2]>>
    BY <1>9, <2>2, <2>5
  <2> QED
    BY <1>6, <2>3, <2>5, <2>6
<1> QED
  BY <1>10, <1>11


\* __dlsym returns to where dlsym was called from.
LEMMA LooksUp ==
  ASSUME NativeTypes, AtDlsym, Native!LookUp
  PROVE  NativeInv'
<1>1. Still /\ Constant /\ Native!Returns(<<"symbol", 0>>, <<>>)
  BY Constants DEF Native!LookUp, Still
<1>2. PICK s \in {6, 11} :
        /\ s = IF deep THEN 6 ELSE 11
        /\ regs["sp"] = Native!At(s) /\ mem[s] = <<"looked_up", 0>>
  BY DEF AtDlsym
<1>3. regs["sp"][2] = s /\ arch = "nt64" /\ DOMAIN <<>> = {}
  BY <1>2, Addresses DEF AtDlsym
<1>4. /\ regs' = [r \in Native!Registers |->
                    CASE r = "sp" -> Native!At(s + 1) [] r = "ax" -> <<"symbol", 0>>
                      [] r \in Native!Preserved -> regs[r] [] OTHER -> Native!Garbage]
      /\ mem' = [a \in DOMAIN mem |->
                   IF a \in DOMAIN <<>> THEN <<>>[a]
                   ELSE IF a \in (s + 1 .. s + 4) \ Native!Locals
                   THEN Native!Garbage ELSE mem[a]]
      /\ pc' = <<"looked_up", 0>>
  BY <1>1, <1>2, <1>3 DEF Native!Returns
<1>5. ASSUME NEW a \in {16, 17} \cup 100..116 PROVE mem'[a] = mem[a]
  <2>1. a \in DOMAIN mem /\ a \notin (s + 1 .. s + 4) \ Native!Locals
    BY DEF NativeTypes, Native!Locals
  <2> QED
    BY <1>3, <1>4, <2>1
<1>6. Calm
  <2>1. SavedMask \in 100..116
    BY DEF SavedMask
  <2>2. DOMAIN mem' = DOMAIN mem
    BY <1>4
  <2>3. DOMAIN regs' = DOMAIN regs
    BY <1>4 DEF NativeTypes
  <2> QED
    BY <1>5, <2>1, <2>2, <2>3 DEF Calm
<1>7. NativeTypes'
  BY <1>1, <1>6, Stays
<1>8. Filled'
  BY <1>1, <1>5, FilledStays DEF AtDlsym, Still
<1>9. \A k \in Kept : regs'[Order[k]] = regs[Order[k]]
  BY <1>4, InOrder
<1>10. OfProgram'
  BY <1>1, <1>9 DEF AtDlsym, OfProgram, Constant, Still
<1>11. regs'["sp"] = Native!At(IF deep THEN 7 ELSE 12)
  <2>1. "sp" \in Native!Registers
    BY DEF Native!Registers
  <2>2. regs'["sp"] = Native!At(s + 1)
    BY <1>4, <2>1 DEF Native!Preserved
  <2> QED
    BY <1>2, <2>2
<1>12. AtProgram'
  BY <1>1, <1>4, <1>8, <1>10, <1>11 DEF AtProgram, Still
<1> QED
  BY <1>7, <1>12 DEF NativeInv

-----------------------------------------------------------------------------
(* The theorems.                                                           *)

\* The program begins within the invariant.
LEMMA NativeBegin ==
  ASSUME Native!Init
  PROVE  NativeInv
<1>1. arch \in {"nt32", "nt64"}
  BY MachineAssumption DEF Native!Init, Native!NativeCallsAssumption
<1>2. /\ regs = Native!Owned(FALSE) /\ pc = <<"program", 0>>
      /\ deep = FALSE /\ armed = <<>> /\ mask = 0
      /\ mem = [a \in 0..17 \cup 100..116 |->
                  IF a \in Native!Locals THEN <<"local", a>> ELSE Native!Garbage]
  BY DEF Native!Init, Native!Buffer
<1>3. NativeTypes
  <2>1. \A a \in {16, 17} : mem[a] = <<"local", a>>
    <3>1. \A a \in {16, 17} : a \in 0..17 \cup 100..116 /\ a \in Native!Locals
      BY DEF Native!Locals
    <3> QED
      BY <1>2, <3>1
  <2> QED
    BY <1>1, <1>2, <2>1 DEF NativeTypes, Native!Owned
<1>4. OfProgram
  BY <1>2, <1>3, InOrder DEF OfProgram, Native!Owned
<1>5. regs["sp"] = Native!At(12)
  BY <1>2 DEF Native!Owned, Native!Registers, Native!Outer
<1> QED
  BY <1>2, <1>3, <1>4, <1>5 DEF NativeInv, AtProgram, Filled

\* Every instruction.
LEMMA Instructions ==
  ASSUME NativeInv, Native!Step
  PROVE  NativeInv'
<1>1. pc[1] \in {"setjmp", "longjmp", "sigsetjmp", "dlsym"}
  BY DEF Native!Step, Native!InCode, Native!Code
<1>2. NativeTypes
  BY DEF NativeInv
<1>3. CASE AtProgram
  BY <1>1, <1>3 DEF AtProgram
<1>4. CASE AtTail
  BY <1>1, <1>4 DEF AtTail
<1>5. CASE AtSetjmp
  BY <1>2, <1>5, Setjmp64Steps, Setjmp32Steps DEF AtSetjmp
<1>6. CASE AtLongjmp
  BY <1>2, <1>6, Longjmp64Steps, Longjmp32Steps DEF AtLongjmp
<1>7. CASE AtSigsetjmp
  BY <1>2, <1>7, Sigsetjmp64Steps, Sigsetjmp32Steps DEF AtSigsetjmp
<1>8. CASE AtDlsym
  <2>1. pc[1] = "dlsym"
    BY <1>1, <1>8 DEF AtDlsym
  <2> QED
    BY <1>2, <1>8, <2>1, DlsymSteps
<1> QED
  BY <1>3, <1>4, <1>5, <1>6, <1>7, <1>8 DEF NativeInv

\* How long the routines are.
LEMMA Lengths ==
  /\ Len(Native!setjmp64) = 13 /\ Len(Native!longjmp64) = 14
  /\ Len(Native!sigsetjmp64) = 11 /\ Len(Native!dlsym64) = 2
  /\ Len(Native!setjmp32) = 11 /\ Len(Native!longjmp32) = 11 /\ Len(Native!sigsetjmp32) = 13
<1>1. Len(Native!setjmp64) = 13 /\ Len(Native!setjmp32) = 11
  BY DEF Native!setjmp64, Native!setjmp32
<1>2. Len(Native!longjmp64) = 14 /\ Len(Native!longjmp32) = 11
  BY DEF Native!longjmp64, Native!longjmp32
<1>3. Len(Native!sigsetjmp64) = 11 /\ Len(Native!sigsetjmp32) = 13
  BY DEF Native!sigsetjmp64, Native!sigsetjmp32
<1>4. Len(Native!dlsym64) = 2
  BY DEF Native!dlsym64
<1> QED
  BY <1>1, <1>2, <1>3, <1>4

\* The names of the routines.
LEMMA Routines == DOMAIN Native!Code = {"setjmp", "longjmp", "sigsetjmp", "dlsym"}
BY DEF Native!Code

\* An instruction of a routine is code.
LEMMA Inside ==
  ASSUME NEW name \in DOMAIN Native!Code, NEW n \in Nat, NEW i \in 1..n, pc = <<name, i>>,
         NEW routine, Native!Code[name] = routine, Len(routine) = n
  PROVE  Native!InCode
<1>1. pc[1] = name /\ pc[2] = i
  OBVIOUS
<1>2. Native!Code[pc[1]] = routine
  BY <1>1
<1>3. Len(Native!Code[pc[1]]) = n
  BY <1>2, Zenon
<1> QED
  BY <1>1, <1>3 DEF Native!InCode

\* Every step of the program, of a handler and of the routines keeps the invariant.
LEMMA NativeStep ==
  ASSUME NativeInv, [Native!Next]_nativeVars
  PROVE  NativeInv'
<1>1. NativeTypes
  BY DEF NativeInv
<1>2. ASSUME Native!InProgram PROVE AtProgram
  BY <1>2 DEF NativeInv, Native!InProgram, AtSetjmp, AtLongjmp, AtSigsetjmp, AtTail, AtDlsym
<1>3. ASSUME NEW name \in {"setjmp", "sigsetjmp"}, NEW save \in {0, 1},
             Native!CallSetjmp(name, save)
      PROVE  NativeInv'
  BY <1>1, <1>2, <1>3, SetjmpCalled DEF Native!CallSetjmp
<1>4. ASSUME NEW value \in Values, Native!CallLongjmp(value) PROVE NativeInv'
  <2>1. value \in Nat
    BY MachineAssumption DEF Native!NativeCallsAssumption
  <2> QED
    BY <1>1, <1>2, <1>4, <2>1, LongjmpCalled DEF Native!CallLongjmp
<1>5. CASE Native!CallDlsym
  BY <1>1, <1>2, <1>5, DlsymCalled DEF Native!CallDlsym
<1>6. ASSUME NEW d \in BOOLEAN, NEW k \in {0, 1}, Native!GoOn(d, k) PROVE NativeInv'
  BY <1>1, <1>2, <1>6, GoesOn DEF Native!GoOn
<1>7. CASE Native!Handler
  BY <1>7, Interrupted
<1>8. CASE Native!Step
  BY <1>8, Instructions
<1>9. CASE Native!SigsetjmpTail
  <2>1. AtTail
    BY <1>9
    DEF Native!SigsetjmpTail, NativeInv, AtProgram, AtSetjmp, AtLongjmp, AtSigsetjmp,
      AtDlsym
  <2> QED
    BY <1>1, <1>9, <2>1, TailReturns
<1>10. CASE Native!LookUp
  <2>1. AtDlsym
    BY <1>10
    DEF Native!LookUp, NativeInv, AtProgram, AtSetjmp, AtLongjmp, AtSigsetjmp, AtTail
  <2> QED
    BY <1>1, <1>10, <2>1, LooksUp
<1>11. CASE UNCHANGED nativeVars
  <2>1. Still /\ Calm /\ UNCHANGED <<regs, mem, pc>>
    BY <1>11 DEF nativeVars, Still, Calm
  <2>2. CASE ~AtProgram
    BY <2>1, <2>2, Overwritten
  <2>3. CASE AtProgram
    <3>1. NativeTypes' /\ Constant
      BY <1>1, <2>1, Stays, Constants
    <3>2. Filled'
      BY <1>1, <2>1, <2>3, FilledStays DEF AtProgram, Still
    <3>3. AtProgram'
      BY <2>1, <2>3, <3>1, <3>2 DEF AtProgram, OfProgram, Constant, Still
    <3> QED
      BY <3>1, <3>3 DEF NativeInv
  <2> QED
    BY <2>2, <2>3
<1> QED
  BY <1>3, <1>4, <1>5, <1>6, <1>7, <1>8, <1>9, <1>10, <1>11 DEF Native!Next

\* What the invariant says of the program and of the function behind dlsym.
LEMMA NativeFollows ==
  ASSUME NativeInv
  PROVE  NativeSound
<1>1. NativeTypes
  BY DEF NativeInv
<1>2. Native!TypeOK
  <2>1. regs["sp"] \in {Native!At(6), Native!At(7), Native!At(11), Native!At(12)}
    BY DEF NativeInv, AtProgram, AtSetjmp, AtLongjmp, AtSigsetjmp, AtTail, AtDlsym,
      Setjmp64, Setjmp32, Longjmp64, Longjmp32, Sigsetjmp64, Sigsetjmp32
  <2>2. regs["sp"] \in {Native!At(n) : n \in 3..Native!Outer}
    BY <2>1 DEF Native!Outer
  <2>3. Native!InProgram \/ Native!InCode \/ pc[1] \in {"__sigsetjmp_tail", "__dlsym"}
    <3>1. CASE AtProgram \/ AtTail
      BY <3>1 DEF AtProgram, AtTail, Native!InProgram
    <3>2. CASE AtSetjmp
      <4>1. ASSUME arch = "nt64", NEW i \in 1..13, pc = <<"setjmp", i>> PROVE Native!InCode
        BY <4>1, Lengths, Routines64, Routines, Inside
      <4>2. ASSUME arch = "nt32", NEW i \in 1..11, pc = <<"setjmp", i>> PROVE Native!InCode
        BY <4>2, Lengths, Routines32, Routines, Inside
      <4> QED
        BY <3>2, <4>1, <4>2 DEF AtSetjmp
    <3>3. CASE AtLongjmp
      <4>1. ASSUME arch = "nt64", NEW i \in 1..14, pc = <<"longjmp", i>> PROVE Native!InCode
        BY <4>1, Lengths, Routines64, Routines, Inside
      <4>2. ASSUME arch = "nt32", NEW i \in 1..11, pc = <<"longjmp", i>> PROVE Native!InCode
        BY <4>2, Lengths, Routines32, Routines, Inside
      <4> QED
        BY <3>3, <4>1, <4>2 DEF AtLongjmp
    <3>4. CASE AtSigsetjmp
      <4>1. ASSUME arch = "nt64", NEW i \in 1..11, pc = <<"sigsetjmp", i>> PROVE Native!InCode
        BY <4>1, Lengths, Routines64, Routines, Inside
      <4>2. ASSUME arch = "nt32", NEW i \in 1..13, pc = <<"sigsetjmp", i>> PROVE Native!InCode
        BY <4>2, Lengths, Routines32, Routines, Inside
      <4> QED
        BY <3>4, <4>1, <4>2 DEF AtSigsetjmp
    <3>5. CASE AtDlsym
      BY <3>5, Lengths DEF AtDlsym, Native!InCode, Native!Code
    <3> QED
      BY <3>1, <3>2, <3>3, <3>4, <3>5 DEF NativeInv
  <2> QED
    BY <2>2, <2>3 DEF Native!TypeOK
<1>3. ASSUME pc[1] = "landed" PROVE AtProgram /\ ~deep
  BY <1>3 DEF NativeInv, AtProgram, AtSetjmp, AtLongjmp, AtSigsetjmp, AtTail, AtDlsym
<1>4. Native!LandsAsItLeft
  <2>1. SUFFICES ASSUME pc[1] = "landed"
                 PROVE  /\ \A r \in Native!Preserved \cup {"sp"} :
                             regs[r] = Native!Owned(FALSE)[r]
                        /\ \A a \in Native!Locals : mem[a] = <<"local", a>>
    BY DEF Native!LandsAsItLeft
  <2>2. \A k \in Kept : regs[Order[k]] = Native!Owned(FALSE)[Order[k]]
    BY <1>1, <1>3, <2>1, InOrder DEF AtProgram, OfProgram, Native!Owned
  <2>3. regs["sp"] = Native!Owned(FALSE)["sp"]
    BY <1>3, <2>1 DEF AtProgram, Native!Owned, Native!Registers, Native!Outer
  <2>4. Native!Locals = {16, 17}
    BY DEF Native!Locals
  <2> QED
    BY <1>1, <2>2, <2>3, <2>4, InOrder DEF NativeTypes
<1>5. Native!ReturnsTheValue /\ Native!MaskComesBack
  BY <1>3 DEF Native!ReturnsTheValue, Native!MaskComesBack, AtProgram
<1>6. Native!DlsymSeesCaller
  <2>1. ASSUME pc[1] = "__dlsym" PROVE AtDlsym /\ pc # <<"dlsym", 1>>
    BY <2>1 DEF NativeInv, AtProgram, AtSetjmp, AtLongjmp, AtSigsetjmp, AtTail
  <2> QED
    BY <2>1 DEF Native!DlsymSeesCaller, Native!Argument, AtDlsym
<1> QED
  BY <1>2, <1>4, <1>5, <1>6 DEF NativeSound, Native!CallsSound

\* setjmp, sigsetjmp and longjmp of both architectures, and dlsym of nt64, give
\* the program back what was its own, whatever values it passes to longjmp and
\* wherever handlers run (setjmp.s:19-33, longjmp.s:19-38, sigsetjmp.s:20-42).
THEOREM NativeCorrect == MachineSpec => []NativeSound
<1>1. MachineInit => NativeInv
  BY NativeBegin DEF MachineInit
<1>2. NativeInv /\ [MachineNext]_machineVars => NativeInv'
  <2> SUFFICES ASSUME NativeInv, [MachineNext]_machineVars PROVE NativeInv'
    OBVIOUS
  <2>1. [Native!Next]_nativeVars
    BY Zenon DEF MachineNext, machineVars
  <2> QED
    BY <2>1, NativeStep
<1>3. NativeInv => NativeSound
  BY NativeFollows
<1> QED
  BY <1>1, <1>2, <1>3, PTL DEF MachineSpec

=============================================================================

----------------------------- MODULE NativeCalls -----------------------------
(***************************************************************************)
(* setjmp, longjmp, sigsetjmp (src/setjmp and src/signal) and dlsym        *)
(* (src/ldso), which are written in assembly, for nt32 and nt64, one       *)
(* instruction at a time, called by a program that is interrupted by       *)
(* signals.                                                                *)
(*                                                                         *)
(* The program has a function that calls setjmp, and a function that it    *)
(* calls, deeper on the stack and with other values in the registers that  *)
(* calls preserve.  Each may call longjmp and dlsym.  A signal handler     *)
(* runs on the interrupted stack: between any two instructions everything  *)
(* below the stack pointer may be overwritten.                             *)
(*                                                                         *)
(* External: the program, the handlers, __sigsetjmp_tail of musl, and      *)
(* __dlsym, the C function behind dlsym, which is compiled code that       *)
(* keeps the registers a call preserves and no others.  The offsets of     *)
(* sigjmp_buf are those of the comment in sigsetjmp.s.                     *)
(***************************************************************************)
EXTENDS Machine

CONSTANTS
  Calls,    \* the architectures, each with a function that the program calls
  Values    \* what it passes to longjmp

NativeCallsAssumption ==
  /\ Calls \subseteq {"nt32", "nt64"} \X {"setjmp", "sigsetjmp", "dlsym"}
  /\ Values \subseteq Nat

VARIABLES
  deep,     \* the program is in the inner function
  mask,     \* the signal mask of the thread
  armed,    \* what setjmp was called with: whether the mask is saved, and the mask
  expected  \* what the call under way has to return, and the mask it has to leave

vars == <<machine, deep, mask, armed, expected>>

\* The stack, and the buffer of the program with its __jb, __fl and __ss.
Outer == 12       \* the stack pointer of the function that calls setjmp
Inner == 7        \* and of the inner function
Locals == 16 .. 17
Buffer == 100 .. 116
Ss(i) == 100 + i + (IF arch = "nt64" THEN 11 ELSE 7)

Preserved == IF arch = "nt64" THEN {"bx", "bp", "di", "si", "r12", "r13", "r14", "r15"}
             ELSE {"bx", "bp", "di", "si"}
Registers == {"sp", "ax", "cx", "dx", "r8"} \cup Preserved

-----------------------------------------------------------------------------
(* The routines.                                                           *)

PutBackNot == <<"lea", M(-8, "sp"), R("sp")>>            \* mutant
\* push (%rcx): the return address goes back where a handler may overwrite it.
PutBack == <<"push", M(0, "cx")>>

\* setjmp.s of nt64
setjmp64 == <<
  <<"pop", M(0, "cx")>>, <<"mov", R("sp"), M(8, "cx")>>, PutBack,
  <<"mov", R("bx"), M(16, "cx")>>, <<"mov", R("bp"), M(24, "cx")>>,
  <<"mov", R("di"), M(32, "cx")>>, <<"mov", R("si"), M(40, "cx")>>,
  <<"mov", R("r12"), M(48, "cx")>>, <<"mov", R("r13"), M(56, "cx")>>,
  <<"mov", R("r14"), M(64, "cx")>>, <<"mov", R("r15"), M(72, "cx")>>,
  <<"mov", I(0), R("ax")>>, <<"ret">> >>

CallerSpOwn == <<"lea", M(0, "sp"), R("cx")>>            \* mutant
\* leal 4(%esp),%ecx: the stack pointer of the caller once setjmp has returned.
CallerSp == <<"lea", M(4, "sp"), R("cx")>>

\* setjmp.s of nt32
setjmp32 == <<
  <<"mov", M(4, "sp"), R("dx")>>, <<"mov", M(0, "sp"), R("ax")>>, <<"mov", R("ax"), M(0, "dx")>>,
  CallerSp, <<"mov", R("cx"), M(4, "dx")>>,
  <<"mov", R("bx"), M(8, "dx")>>, <<"mov", R("bp"), M(12, "dx")>>,
  <<"mov", R("di"), M(16, "dx")>>, <<"mov", R("si"), M(20, "dx")>>,
  <<"mov", I(0), R("ax")>>, <<"ret">> >>

\* test %edx,%edx; jne 1f
IsZero == <<"jne", R("dx"), 3>>

\* longjmp.s of nt64
longjmp64 == <<
  IsZero, <<"xor", I(1), R("dx")>>, <<"mov", R("dx"), R("ax")>>,
  <<"mov", M(16, "cx"), R("bx")>>, <<"mov", M(24, "cx"), R("bp")>>,
  <<"mov", M(32, "cx"), R("di")>>, <<"mov", M(40, "cx"), R("si")>>,
  <<"mov", M(48, "cx"), R("r12")>>, <<"mov", M(56, "cx"), R("r13")>>,
  <<"mov", M(64, "cx"), R("r14")>>, <<"mov", M(72, "cx"), R("r15")>>,
  <<"mov", M(8, "cx"), R("sp")>>, <<"mov", M(0, "cx"), R("dx")>>, <<"jmp*", R("dx")>> >>

ValueFirst == <<"mov", M(4, "sp"), R("ax")>>             \* mutant
\* movl 8(%esp),%eax, while esp is still that of longjmp
LongjmpValue == <<"mov", M(8, "sp"), R("ax")>>

\* longjmp.s of nt32
longjmp32 == <<
  <<"mov", M(4, "sp"), R("cx")>>, LongjmpValue,
  <<"jne", R("ax"), 5>>, <<"xor", I(1), R("ax")>>,
  <<"mov", M(20, "cx"), R("si")>>, <<"mov", M(16, "cx"), R("di")>>,
  <<"mov", M(12, "cx"), R("bp")>>, <<"mov", M(8, "cx"), R("bx")>>,
  <<"mov", M(4, "cx"), R("sp")>>, <<"mov", M(0, "cx"), R("dx")>>, <<"jmp*", R("dx")>> >>

WantsMaskAlways == <<"jne", R("cx"), 3>>                 \* mutant
\* test %edx,%edx; jnz 1f
WantsMask == <<"jne", R("dx"), 3>>

\* sigsetjmp.s of nt64
sigsetjmp64 == <<
  WantsMask, <<"jmp", "setjmp">>,
  <<"pop", M(104, "cx")>>, <<"mov", R("bx"), M(112, "cx")>>, <<"mov", R("cx"), R("bx")>>,
  <<"call", "setjmp">>,
  <<"push", M(104, "bx")>>, <<"mov", R("bx"), R("cx")>>, <<"mov", R("ax"), R("dx")>>,
  <<"mov", M(112, "cx"), R("bx")>>, <<"jmp", "__sigsetjmp_tail">> >>
\* sigsetjmp.s of nt32
sigsetjmp32 == <<
  <<"mov", M(8, "sp"), R("dx")>>, <<"jne", R("dx"), 4>>, <<"jmp", "setjmp">>,
  <<"mov", M(4, "sp"), R("cx")>>, <<"pop", M(36, "cx")>>, <<"mov", R("bx"), M(40, "cx")>>,
  <<"mov", R("cx"), R("bx")>>, <<"call", "setjmp">>,
  <<"push", M(36, "bx")>>, <<"mov", R("bx"), M(4, "sp")>>, <<"mov", R("ax"), M(8, "sp")>>,
  <<"mov", M(40, "bx"), R("bx")>>, <<"jmp", "__sigsetjmp_tail">> >>

dlsym64Above == << <<"mov", M(8, "sp"), R("r8")>>, <<"jmp", "__dlsym">> >>    \* mutant
\* dlsym.s of nt64, and of nt32, which ends with its sixth instruction
dlsym64 == << <<"mov", M(0, "sp"), R("r8")>>, <<"jmp", "__dlsym">> >>
dlsym32 == <<
  <<"mov", R("sp"), R("cx")>>, <<"push", M(0, "cx")>>, <<"push", M(12, "cx")>>,
  <<"push", M(12, "cx")>>, <<"call", "__dlsym">>, <<"mov", R("cx"), R("sp")>> >>

Code ==
  IF arch = "nt64"
  THEN [setjmp |-> setjmp64, longjmp |-> longjmp64, sigsetjmp |-> sigsetjmp64, dlsym |-> dlsym64]
  ELSE [setjmp |-> setjmp32, longjmp |-> longjmp32, sigsetjmp |-> sigsetjmp32, dlsym |-> dlsym32]

InCode == pc[1] \in DOMAIN Code /\ pc[2] <= Len(Code[pc[1]])
InProgram == pc[1] \in {"program", "looked_up", "landed"}

-----------------------------------------------------------------------------
(* The program.                                                            *)

\* The registers that a function of the program has when it calls.
Owned(d) ==
  [r \in Registers |->
     IF r = "sp" THEN At(IF d THEN Inner ELSE Outer)
     ELSE IF r \in Preserved THEN <<r, IF d THEN 2 ELSE 1>> ELSE Garbage]

Init ==
  /\ arch \in {c[1] : c \in Calls}
  /\ deep = FALSE /\ mask = 0 /\ armed = <<>>
  /\ expected = [value |-> Num(0), mask |-> 0]
  /\ regs = Owned(FALSE)
  /\ mem = [a \in 0 .. 17 \cup Buffer |-> IF a \in Locals THEN <<"local", a>> ELSE Garbage]
  /\ pc = <<"program", 0>>

\* What a call finds: its arguments in registers or on the stack, below them
\* the address that it returns to.
Enter(name, args, site) ==
  LET sp == regs["sp"][2]
      named == [nt64 |-> <<"cx", "dx">>, nt32 |-> <<>>][arch]
  IN  /\ regs' = [r \in Registers |->
                    IF r = "sp" THEN At(sp - 1)
                    ELSE IF \E k \in DOMAIN named : named[k] = r
                    THEN args[CHOOSE k \in DOMAIN named : named[k] = r]
                    ELSE regs[r]]
      /\ mem' = [a \in DOMAIN mem |->
                    IF a = sp - 1 THEN <<site, 0>>
                    ELSE IF arch = "nt32" /\ a \in sp .. sp + 1 THEN args[a - sp + 1]
                    ELSE mem[a]]
      /\ pc' = <<name, 1>>

CallSetjmp(name, save) ==
  /\ InProgram /\ ~deep
  /\ <<arch, name>> \in Calls /\ (name = "setjmp" => save = 0)
  /\ Enter(name, <<At(100), Num(save)>>, "landed")
  /\ armed' = <<save, mask>>
  /\ expected' = [value |-> Num(0), mask |-> mask]
  /\ UNCHANGED <<arch, deep, mask>>

\* A buffer that setjmp has filled may be used for as long as its function
\* has not returned, and any number of times.
CallLongjmp(value) ==
  /\ InProgram /\ armed # <<>>
  /\ Enter("longjmp", <<At(100), Num(value)>>, "program")
  /\ deep' = FALSE
  /\ expected' = [value |-> Num(IF value = 0 THEN 1 ELSE value),
                  mask |-> IF armed[1] = 1 THEN armed[2] ELSE mask]
  /\ UNCHANGED <<arch, mask, armed>>

CallDlsym ==
  /\ InProgram /\ <<arch, "dlsym">> \in Calls
  /\ Enter("dlsym", << <<"handle", 0>>, <<"name", 0>> >>, "looked_up")
  /\ UNCHANGED <<arch, deep, mask, armed, expected>>

\* The program goes on: it calls or leaves the inner function, blocks or
\* unblocks signals, and uses the stack below its locals.
GoOn(d, k) ==
  /\ InProgram
  /\ deep' = d /\ mask' = k
  /\ regs' = Owned(d)
  /\ mem' = [a \in DOMAIN mem |-> IF a < 16 THEN Garbage ELSE mem[a]]
  /\ pc' = <<"program", 0>>
  /\ UNCHANGED <<arch, armed, expected>>

\* A signal handler runs: what is below the stack pointer is lost.
Handler ==
  /\ ~InProgram
  /\ mem' = [a \in DOMAIN mem |-> IF a < regs["sp"][2] THEN Garbage ELSE mem[a]]
  /\ UNCHANGED <<arch, regs, pc, deep, mask, armed, expected>>

Step ==
  /\ InCode
  /\ Instruction(Code[pc[1]][pc[2]])
  /\ UNCHANGED <<deep, mask, armed, expected>>

-----------------------------------------------------------------------------
(* Compiled functions.                                                     *)

\* The k-th argument of a C function that is entered.
Argument(k) ==
  IF arch = "nt64" THEN regs[<<"cx", "dx", "r8">>[k]] ELSE mem[regs["sp"][2] + k]

\* It returns a value: registers that calls do not preserve and the words of
\* its arguments may have changed.
Returns(value, stored) ==
  LET sp == regs["sp"][2]
      words == sp + 1 .. sp + (IF arch = "nt64" THEN 4 ELSE 3)
  IN  /\ regs' = [r \in Registers |->
                    CASE r = "sp" -> At(sp + 1)
                      [] r = "ax" -> value
                      [] r \in Preserved -> regs[r]
                      [] OTHER -> Garbage]
      /\ mem' = [a \in DOMAIN mem |->
                    IF a \in DOMAIN stored THEN stored[a]
                    ELSE IF a \in words \ Locals THEN Garbage ELSE mem[a]]
      /\ pc' = mem[sp]

\* __sigsetjmp_tail(buffer, result) saves the mask in __ss the first time and
\* restores it from there later, and returns the result.
SigsetjmpTail ==
  /\ pc[1] = "__sigsetjmp_tail"
  /\ Argument(1) = At(100)
  /\ IF Argument(2) = Num(0)
     THEN /\ Returns(Num(0), [a \in IF arch = "nt64" THEN {Ss(0)} ELSE {Ss(0), Ss(1)} |->
                                <<"mask", mask>>])
          /\ mask' = mask
     ELSE /\ Returns(Argument(2), <<>>)
          /\ mask' = IF mem[Ss(0)][1] = "mask" THEN mem[Ss(0)][2] ELSE 1 - mask
  /\ UNCHANGED <<arch, deep, armed, expected>>

\* __dlsym(handle, name, caller)
LookUp ==
  /\ pc[1] = "__dlsym"
  /\ Returns(<<"symbol", 0>>, <<>>)
  /\ UNCHANGED <<arch, deep, mask, armed, expected>>

Next ==
  \/ \E name \in {"setjmp", "sigsetjmp"}, save \in {0, 1} : CallSetjmp(name, save)
  \/ \E value \in Values : CallLongjmp(value)
  \/ CallDlsym
  \/ \E d \in BOOLEAN, k \in {0, 1} : GoOn(d, k)
  \/ Handler \/ Step \/ SigsetjmpTail \/ LookUp

Spec == Init /\ [][Next]_vars

-----------------------------------------------------------------------------
\* The stack pointer stays in the stack, and what runs is code.
TypeOK ==
  /\ regs["sp"] \in {At(n) : n \in 3 .. Outer}
  /\ InProgram \/ InCode \/ pc[1] \in {"__sigsetjmp_tail", "__dlsym"}

\* Where setjmp or sigsetjmp comes back, the first time or through longjmp, the
\* function that called it finds its stack, its locals and its registers as
\* they were, whatever ran deeper or was interrupted since (setjmp.s:19-30,
\* longjmp.s:27-36, sigsetjmp.s:30-39).
LandsAsItLeft ==
  pc[1] = "landed" =>
    /\ \A r \in Preserved \cup {"sp"} : regs[r] = Owned(FALSE)[r]
    /\ \A a \in Locals : mem[a] = <<"local", a>>

\* setjmp returns 0 the first time; through longjmp it returns what longjmp was
\* given, or 1 for 0 (setjmp.s:32, longjmp.s:19-24).
ReturnsTheValue == pc[1] = "landed" => regs["ax"] = expected.value

\* A jump through sigsetjmp with a mask saved brings back the mask of that time,
\* any other leaves the mask that it finds: the words of __ss that hold the
\* return address and bx are not those of the mask (sigsetjmp.s:21-42).
MaskComesBack == pc[1] = "landed" => mask = expected.mask

\* The C function behind dlsym is given both arguments of dlsym and the address
\* in the program that dlsym was called from (dlsym.s of nt64:13-14; of nt32:14-16).
DlsymSeesCaller ==
  pc[1] = "__dlsym" =>
    /\ Argument(1) = <<"handle", 0>> /\ Argument(2) = <<"name", 0>>
    /\ Argument(3) = <<"looked_up", 0>>

\* What the program may rely on when it jumps and looks up symbols.
CallsSound ==
  /\ TypeOK
  /\ LandsAsItLeft /\ ReturnsTheValue /\ MaskComesBack
  /\ DlsymSeesCaller
=============================================================================

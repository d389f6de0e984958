---------------------------- MODULE MachineProofs ----------------------------
(***************************************************************************)
(* Proofs about the parts of MCMachine: the floating-point environment for *)
(* any flags and rounding modes, system calls for any threads, calls and   *)
(* answers of the framework, and the records that are shared, of either    *)
(* architecture.  NativeProofs has the calls in assembly.       *)
(***************************************************************************)
EXTENDS MCMachine, SequenceTheorems, TLAPS

-----------------------------------------------------------------------------
(* The floating-point environment.                                         *)

\* The actions keep the types of both units.
THEOREM TypeCorrect == Spec => []TypeOK
<1>1. Init => TypeOK
  BY FenvAssumption DEF Init, TypeOK, Call
<1>2. TypeOK /\ [Next]_vars => TypeOK'
  <2> SUFFICES ASSUME TypeOK, [Next]_vars PROVE TypeOK'
    OBVIOUS
  <2> USE FenvAssumption DEF TypeOK, SavedEnv, Call, fpu, sse
  <2>1. ASSUME NEW excepts \in SUBSET Flag, ComputeFpu(excepts) \/ ComputeSse(excepts)
        PROVE  TypeOK'
    BY <2>1 DEF ComputeFpu, ComputeSse
  <2>2. ASSUME NEW excepts \in SUBSET Flag,
               fetestexcept(excepts) \/ feclearexcept(excepts) \/ feraiseexcept(excepts)
        PROVE  TypeOK'
    BY <2>2 DEF fetestexcept, feclearexcept, feraiseexcept
  <2>3. CASE fegetround \/ \E m \in Mode : fesetround(m)
    BY <2>3 DEF fegetround, fesetround
  <2>4. CASE fegetenv
    BY <2>4 DEF fegetenv
  <2>5. CASE fesetenv \/ fesetenv_default
    BY <2>5 DEF fesetenv, fesetenv_default
  <2>6. CASE UNCHANGED vars
    BY <2>6 DEF vars
  <2> QED
    BY <2>1, <2>2, <2>3, <2>4, <2>5, <2>6 DEF Next
<1> QED
  BY <1>1, <1>2, PTL DEF Spec

\* The rounding modes of the two units are set together, and saved and
\* restored together.
THEOREM RoundingAgreement == Spec => []RoundingAgrees
<1>1. Init => RoundingAgrees
  BY DEF Init, RoundingAgrees
<1>2. RoundingAgrees /\ [Next]_vars => RoundingAgrees'
  <2> SUFFICES ASSUME RoundingAgrees, [Next]_vars PROVE RoundingAgrees'
    OBVIOUS
  <2> USE DEF RoundingAgrees, fpu, sse
  <2>1. ASSUME NEW excepts \in SUBSET Flag,
               \/ ComputeFpu(excepts) \/ ComputeSse(excepts)
               \/ fetestexcept(excepts) \/ feclearexcept(excepts) \/ feraiseexcept(excepts)
        PROVE  RoundingAgrees'
    BY <2>1 DEF ComputeFpu, ComputeSse, fetestexcept, feclearexcept, feraiseexcept
  <2>2. CASE fegetround \/ \E m \in Mode : fesetround(m)
    BY <2>2 DEF fegetround, fesetround
  <2>3. CASE fegetenv
    BY <2>3 DEF fegetenv
  <2>4. CASE fesetenv \/ fesetenv_default
    BY <2>4 DEF fesetenv, fesetenv_default
  <2>5. CASE UNCHANGED vars
    BY <2>5 DEF vars
  <2> QED
    BY <2>1, <2>2, <2>3, <2>4, <2>5 DEF Next
<1> QED
  BY <1>1, <1>2, PTL DEF Spec

\* Clearing the x87 flags as a whole and keeping the others in mxcsr removes
\* exactly the requested flags from the union of the two units.
LEMMA ClearRemovesMask ==
  ASSUME NEW excepts, feclearexcept(excepts)
  PROVE  (sw \cup mxFlags)' = (sw \cup mxFlags) \ excepts
BY DEF feclearexcept

\* The functions of fenv.S implement the single environment of FenvSpec.
THEOREM ImplementsOne == Spec => OneEnvironment
<1>1. Init => One!Init
  BY DEF Init, One!Init
<1>2. TypeOK /\ [Next]_vars => [One!Next]_(One!vars)
  <2> SUFFICES ASSUME TypeOK, [Next]_vars PROVE [One!Next]_(One!vars)
    OBVIOUS
  <2> USE DEF fpu, sse
  <2>1. ASSUME NEW excepts \in SUBSET Flag, ComputeFpu(excepts) \/ ComputeSse(excepts)
        PROVE  One!Compute(excepts)
    <3>1. CASE ComputeFpu(excepts)
      BY <3>1 DEF ComputeFpu, One!Compute
    <3>2. CASE ComputeSse(excepts)
      BY <3>2 DEF ComputeSse, One!Compute
    <3> QED
      BY <2>1, <3>1, <3>2
  <2>2. ASSUME NEW excepts \in SUBSET Flag, fetestexcept(excepts) PROVE One!Test(excepts)
    BY <2>2 DEF fetestexcept, One!Test
  <2>3. ASSUME NEW excepts \in SUBSET Flag, feclearexcept(excepts) PROVE One!Clear(excepts)
    <3>1. UNCHANGED <<mxRound, env>> /\ call' = [fn |-> "clear", flags |-> excepts]
      BY <2>3 DEF feclearexcept
    <3>2. (sw \cup mxFlags)' = (sw \cup mxFlags) \ excepts
      BY <2>3, ClearRemovesMask
    <3> QED
      BY <3>1, <3>2 DEF One!Clear
  <2>4. ASSUME NEW excepts \in SUBSET Flag, feraiseexcept(excepts) PROVE One!Raise(excepts)
    BY <2>4 DEF feraiseexcept, One!Raise
  <2>5. ASSUME fegetround PROVE One!GetRound
    BY <2>5 DEF fegetround, One!GetRound
  <2>6. ASSUME NEW m \in Mode, fesetround(m) PROVE One!SetRound(m)
    BY <2>6 DEF fesetround, One!SetRound
  <2>7. ASSUME fegetenv PROVE One!GetEnv
    <3>1. env' # NoEnv
      BY <2>7, FenvAssumption DEF fegetenv, TypeOK
    <3> QED
      BY <2>7, <3>1 DEF fegetenv, One!GetEnv
  <2>8. ASSUME fesetenv PROVE One!SetEnv
    <3>1. env \in SavedEnv /\ env # NoEnv
      BY <2>8 DEF fesetenv, TypeOK
    <3>2. [flags |-> env.sw \cup env.mxFlags, round |-> env.mxRound] # NoEnv
      BY <3>1, FenvAssumption DEF SavedEnv
    <3> QED
      BY <2>8, <3>1, <3>2 DEF fesetenv, One!SetEnv
  <2>9. ASSUME fesetenv_default PROVE One!SetDefaultEnv
    BY <2>9 DEF fesetenv_default, One!SetDefaultEnv
  <2>10. CASE UNCHANGED vars
    BY <2>10 DEF vars, One!vars
  <2> QED
    BY <2>1, <2>2, <2>3, <2>4, <2>5, <2>6, <2>7, <2>8, <2>9, <2>10
    DEF Next, One!Next
<1> QED
  BY <1>1, <1>2, TypeCorrect, PTL DEF Spec, OneEnvironment, One!Spec

-----------------------------------------------------------------------------
(* System calls.                                                           *)

\* The calls that reach the table.
Served == Names \ {"posix_fadvise"}

\* What their functions may have seen, and the paths that they may return.
Views == {<<>>} \cup {Answers!Seen(n) : n \in Served}
Paths == Answers!Calls \cup {<<>>}

FrameType ==
  [name: Names, pc: {"call", "ran", "return"}, res: Int, ret: Int, seen: Views, out: Paths,
   saved: Nat]

AnswersTypes ==
  /\ errno \in [Threads -> Nat]
  /\ frames \in [Threads -> Seq(FrameType)]
  /\ \A t \in Threads : Len(frames[t]) \in {0} \cup Depths
  /\ stack \in [Answers!Calls -> Answers!Calls \cup {<<>>}]
  /\ ~wild

\* What the call at depth d of thread t finds in errno when it goes on: a
\* handler above it puts back what it has found.
ErrnoAt(t, d) == IF d = Len(frames[t]) THEN errno[t] ELSE frames[t][2].saved

\* What a call knows of its results: where they come from,
ResultsKnown(f) ==
  /\ f.res \in Results \cup {0, -Answers!EINVAL, -Answers!ENOMEM, -Answers!ENOSYS}
  /\ f.ret \in Results \cup {0, -1}
  /\ f.pc = "call" => f.res = 0
  /\ f.pc # "return" => f.ret = 0
  /\ f.seen = <<>> \/ (f.name \in Served /\ f.seen = Answers!Seen(f.name))

\* that e, which it finds in errno, is its own,
ErrorKept(f, e) ==
  /\ f.pc = "return" /\ f.ret = -1 /\ f.res \in Answers!Errors => e = -f.res
  /\ f.pc = "ran" /\ f.name \in Absent => f.res \in {-Answers!ENOSYS, -Answers!EINVAL}
  /\ f.pc = "return" /\ f.name \in Absent /\ f.res # -Answers!EINVAL =>
       f.ret = -1 /\ e = Answers!ENOSYS

\* and that the path is, in its buffer and when it returns it.
PathKept(f, c, path) ==
  f.name = "realpath" =>
    /\ f.pc = "ran" /\ f.res >= 0 => path = c
    /\ f.pc = "return" /\ f.ret # -1 => f.out = c

CallSound(f, c, e, path) == ResultsKnown(f) /\ ErrorKept(f, e) /\ PathKept(f, c, path)

\* The invariant speaks of every call: of the one that is made, and of the one
\* that waits for a handler above it.
AnswersInv ==
  /\ AnswersTypes
  /\ \A t \in Threads : \A d \in 1..Len(frames[t]) :
       CallSound(frames[t][d], <<t, d>>, ErrnoAt(t, d), stack[<<t, d>>])

\* The functions of sys/fs.h are given all the parameters that they declare.
LEMMA FsIsPassed ==
  ASSUME NEW n \in Answers!FsNames
  PROVE  /\ Answers!Parameters(n) = Answers!Arguments(n)
         /\ DOMAIN Answers!Parameters(n) = 1..Len(Answers!Parameters(n))
         /\ Len(Answers!Parameters(n)) \in Nat
<1>1. Answers!Parameters(n) = Answers!FsDeclared(n)
  BY DEF Answers!Parameters, Answers!FsNames, Answers!DbgNames, Answers!UnwindNames
<1>2. Answers!Arguments(n) = Answers!FsArguments(n)
  BY DEF Answers!Arguments, Answers!FsNames, Answers!DbgNames, Answers!UnwindNames
<1>3. Answers!FsDeclared(n) = Answers!FsArguments(n)
  BY DEF Answers!FsDeclared, Answers!FsArguments, Answers!FsNames
<1>4. \/ Answers!FsDeclared(n) = <<"fdat", "path", "options", "buffer", "buflen">>
      \/ Answers!FsDeclared(n) = <<"fdat", "path", "mode", "ace_flags">>
      \/ Answers!FsDeclared(n) = <<"fdat", "path", "mode", "flags", "ace_flags">>
      \/ Answers!FsDeclared(n) = <<"flags">>
  BY DEF Answers!FsDeclared, Answers!FsNames
<1>5. /\ DOMAIN Answers!FsDeclared(n) = 1..Len(Answers!FsDeclared(n))
      /\ Len(Answers!FsDeclared(n)) \in Nat
  BY <1>4
<1> QED
  BY <1>1, <1>2, <1>3, <1>5

\* So are those of sys/debug.h.
LEMMA DbgIsPassed ==
  ASSUME NEW n \in Answers!DbgNames
  PROVE  /\ Answers!Parameters(n) = Answers!Arguments(n)
         /\ DOMAIN Answers!Parameters(n) = 1..Len(Answers!Parameters(n))
         /\ Len(Answers!Parameters(n)) \in Nat
<1>1. Answers!Parameters(n) = Answers!DbgDeclared(n)
  BY DEF Answers!Parameters, Answers!FsNames, Answers!DbgNames, Answers!UnwindNames
<1>2. Answers!Arguments(n) = Answers!DbgArguments(n)
  BY DEF Answers!Arguments, Answers!FsNames, Answers!DbgNames, Answers!UnwindNames
<1>3. Answers!DbgDeclared(n) = Answers!DbgArguments(n)
  BY DEF Answers!DbgDeclared, Answers!DbgArguments, Answers!VmArguments, Answers!DbgNames
<1>4. \/ Answers!DbgDeclared(n) = <<>>
      \/ Answers!DbgDeclared(n) = <<"pid">>
      \/ Answers!DbgDeclared(n) = <<"pfd">>
      \/ Answers!DbgDeclared(n) = <<"pfd", "tid">>
      \/ Answers!DbgDeclared(n) = <<"pfd", "evt">>
      \/ Answers!DbgDeclared(n) = <<"pfd", "evt", "nelem">>
      \/ Answers!DbgDeclared(n) = <<"pfd", "tid", "regctx">>
      \/ Answers!DbgDeclared(n) = <<"path", "argv", "envp", "strace">>
      \/ Answers!DbgDeclared(n) = <<"pfd", "buf", "len", "addr">>
      \/ Answers!DbgDeclared(n) = <<"pfd", "tid", "type", "buf", "len">>
  BY DEF Answers!DbgDeclared, Answers!DbgNames
<1>5. /\ DOMAIN Answers!DbgDeclared(n) = 1..Len(Answers!DbgDeclared(n))
      /\ Len(Answers!DbgDeclared(n)) \in Nat
  BY <1>4
<1> QED
  BY <1>1, <1>2, <1>3, <1>5

\* The members of the unwinder's table are called by their own functions, with all
\* their arguments.
LEMMA UnwindIsPassed ==
  ASSUME NEW n \in Answers!UnwindNames
  PROVE  /\ Answers!Parameters(n) = Answers!Arguments(n)
         /\ DOMAIN Answers!Parameters(n) = 1..Len(Answers!Parameters(n))
         /\ Len(Answers!Parameters(n)) \in Nat
<1>1. Answers!Parameters(n) = Answers!UnwindDeclared(n)
  BY DEF Answers!Parameters, Answers!FsNames, Answers!DbgNames, Answers!UnwindNames
<1>2. Answers!Arguments(n) = Answers!UnwindArguments(n)
  BY DEF Answers!Arguments, Answers!FsNames, Answers!DbgNames, Answers!UnwindNames
<1>3. Answers!UnwindDeclared(n) = Answers!UnwindArguments(n)
  BY DEF Answers!UnwindDeclared, Answers!UnwindArguments, Answers!Member, Answers!UnwindNames
<1>4. \/ Answers!UnwindDeclared(n) = <<n>>
      \/ Answers!UnwindDeclared(n) = <<n, "e">>
      \/ Answers!UnwindDeclared(n) = <<n, "uwctx">>
      \/ Answers!UnwindDeclared(n) = <<n, "addr">>
      \/ Answers!UnwindDeclared(n) = <<n, "trace_fn", "ctx">>
      \/ Answers!UnwindDeclared(n) = <<n, "uwctx", "value">>
      \/ Answers!UnwindDeclared(n) = <<n, "uwctx", "idx">>
      \/ Answers!UnwindDeclared(n) = <<n, "uwctx", "pinfo">>
      \/ Answers!UnwindDeclared(n) = <<n, "e", "stop_fn", "ctx">>
      \/ Answers!UnwindDeclared(n) = <<n, "uwctx", "idx", "value">>
      \/ Answers!UnwindDeclared(n) = <<n, "erec", "fbase", "tctx", "dctx">>
      \/ Answers!UnwindDeclared(n) = <<n, "erec", "fctx", "tctx", "dctx", "routine">>
  BY DEF Answers!UnwindDeclared, Answers!UnwindNames
<1>5. /\ DOMAIN Answers!UnwindDeclared(n) = 1..Len(Answers!UnwindDeclared(n))
      /\ Len(Answers!UnwindDeclared(n)) \in Nat
  BY <1>4
<1> QED
  BY <1>1, <1>2, <1>3, <1>5

\* And the others, but for open and openat, which leave out the mode, and
\* posix_fadvise, which makes no call.
LEMMA OthersArePassed ==
  ASSUME NEW n \in Answers!OtherNames \ {"open", "openat", "posix_fadvise"}
  PROVE  /\ Answers!Parameters(n) = Answers!Arguments(n)
         /\ DOMAIN Answers!Parameters(n) = 1..Len(Answers!Parameters(n))
         /\ Len(Answers!Parameters(n)) \in Nat
<1>1. CASE n = "cmd_args_to_argv"
  BY <1>1 DEF Answers!Parameters, Answers!Arguments, Answers!CmdDeclared, Answers!CmdArguments, Answers!FsNames,
              Answers!DbgNames, Answers!UnwindNames
<1>2. CASE n = "realpath"
  BY <1>2 DEF Answers!Parameters, Answers!Arguments, Answers!FsDeclared, Answers!Realpath,
              Answers!FsNames, Answers!DbgNames, Answers!UnwindNames
<1>3. CASE n \in {"fchmodat", "vfork", "accept4"}
  <2>1. Answers!Parameters(n) = Answers!Arguments(n)
    BY <1>3 DEF Answers!Parameters, Answers!FsNames, Answers!DbgNames, Answers!UnwindNames
  <2>2. \/ Answers!Arguments(n) = <<>>
        \/ Answers!Arguments(n) = <<"fd", "path", "mode", "flag">>
        \/ Answers!Arguments(n) = <<"fd", "addr", "len", "0", "0", "0">>
    BY <1>3 DEF Answers!Arguments, Answers!Accept, Answers!Fchmodat, Answers!Vfork,
                Answers!FsNames, Answers!DbgNames, Answers!UnwindNames
  <2> QED
    BY <2>1, <2>2
<1> QED
  BY <1>1, <1>2, <1>3 DEF Answers!OtherNames

\* open and openat leave out one argument, the third or the fourth.
LEMMA OpenLeavesModeOut ==
  ASSUME NEW n \in {"open", "openat"}
  PROVE  /\ Len(Answers!Parameters(n)) = Len(Answers!Arguments(n)) + 1
         /\ Len(Answers!Arguments(n)) \in {2, 3}
         /\ \A i \in 1..Len(Answers!Arguments(n)) :
              Answers!Parameters(n)[i] = Answers!Arguments(n)[i]
         /\ DOMAIN Answers!Parameters(n) = 1..Len(Answers!Parameters(n))
         /\ Len(Answers!Parameters(n)) \in Nat
<1>1. Answers!Parameters(n) = Append(Answers!Arguments(n), "mode")
  BY DEF Answers!Parameters, Answers!FsNames, Answers!DbgNames, Answers!UnwindNames
<1>2. Answers!Arguments(n) = <<"path", "flags">> \/ Answers!Arguments(n) = <<"fd", "path", "flags">>
  BY DEF Answers!Arguments, Answers!FsNames, Answers!DbgNames, Answers!UnwindNames
<1> QED
  BY <1>1, <1>2

\* No function finds anything in a parameter but its argument or zero: the two
\* calls that leave an argument out have as many as are padded.
LEMMA PaddingIsEnough ==
  ASSUME NEW n \in Served
  PROVE  \A i \in DOMAIN Answers!Seen(n) :
           Answers!Seen(n)[i] \in {Answers!Parameters(n)[i], "zero"}
<1> DEFINE A == Answers!Arguments(n)
           P == Answers!Parameters(n)
<1>1. Answers!Seen(n) =
        [i \in DOMAIN P |-> IF i <= Len(A) THEN A[i]
                            ELSE IF i <= Answers!Padded(Len(A)) THEN "zero" ELSE "garbage"]
  BY DEF Answers!Seen
<1>2. CASE n \notin {"open", "openat"}
  <2>1. P = A /\ DOMAIN P = 1..Len(P) /\ Len(P) \in Nat
    BY <1>2, FsIsPassed, DbgIsPassed, UnwindIsPassed, OthersArePassed, MachineAssumption
    DEF Served, Answers!SyscallsAssumption
  <2> HIDE DEF A, P
  <2>2. \A i \in DOMAIN Answers!Seen(n) : Answers!Seen(n)[i] \in {P[i], "zero"}
    BY <1>1, <2>1
  <2> QED
    BY <2>2 DEF P
<1>3. CASE n \in {"open", "openat"}
  <2>1. /\ Len(P) = Len(A) + 1 /\ Len(A) \in {2, 3}
        /\ \A i \in 1..Len(A) : P[i] = A[i]
        /\ DOMAIN P = 1..Len(P)
    BY <1>3, OpenLeavesModeOut
  <2>2. Answers!Padded(2) = 3 /\ Answers!Padded(3) = 4
    BY DEF Answers!Padded
  <2> HIDE DEF A, P
  <2>3. Answers!Padded(Len(A)) = Len(P)
    <3>1. Len(A) = 2 \/ Len(A) = 3
      BY <2>1
    <3>2. CASE Len(A) = 2
      <4>1. Len(P) = 3
        BY <2>1, <3>2
      <4> QED
        BY <2>2, <3>2, <4>1, Zenon
    <3>3. CASE Len(A) = 3
      <4>1. Len(P) = 4
        BY <2>1, <3>3
      <4> QED
        BY <2>2, <3>3, <4>1, Zenon
    <3> QED
      BY <3>1, <3>2, <3>3
  <2>4. \A i \in DOMAIN Answers!Seen(n) : Answers!Seen(n)[i] \in {P[i], "zero"}
    BY <1>1, <2>1, <2>3
  <2> QED
    BY <2>4 DEF P
<1> QED
  BY <1>2, <1>3

\* The first calls: there are none.
LEMMA AnswersBegin == Answers!Init => AnswersInv
BY MachineAssumption
DEF Answers!Init, AnswersInv, AnswersTypes, Answers!SyscallsAssumption

-----------------------------------------------------------------------------
\* A thread makes a call, or a call and one from a handler.
LEMMA Sizes ==
  ASSUME AnswersInv, NEW t \in Threads
  PROVE  /\ frames[t] \in Seq(FrameType) /\ 1 \in Depths
         /\ Len(frames[t]) \in {0, 1, 2}
         /\ \A d \in 1..Len(frames[t]) : d \in Depths /\ frames[t][d] \in FrameType
         /\ Len(frames[t]) + 1 \in Depths => Len(frames[t]) \in {0, 1}
<1> DEFINE size == Len(frames[t])
<1>1. frames[t] \in Seq(FrameType) /\ size \in {0} \cup Depths
  BY DEF AnswersInv, AnswersTypes
<1>2. \A d \in 1..size : frames[t][d] \in FrameType
  BY <1>1
<1>3. Depths = {1} \/ Depths = {1, 2}
  BY MachineAssumption DEF Answers!SyscallsAssumption
<1> HIDE DEF size
<1>4. CASE Depths = {1}
  BY <1>1, <1>2, <1>4 DEF size
<1>5. CASE Depths = {1, 2}
  <2>1. size \in {0, 1, 2}
    BY <1>1, <1>5
  <2>2. \A d \in 1..size : d \in Depths
    BY <1>5, <2>1
  <2>3. size + 1 \in Depths => size \in {0, 1}
    BY <1>5, <2>1
  <2> QED
    BY <1>1, <1>2, <1>5, <2>1, <2>2, <2>3 DEF size
<1> QED
  BY <1>3, <1>4, <1>5

\* A step of the call on top of t's stack that leaves the other calls what they
\* have, and what it knows of its own answer is true.
LEMMA CallSteps ==
  ASSUME AnswersInv, NEW t \in Threads, Answers!Depth(t) > 0,
         NEW g \in FrameType, Answers!Replace(t, g), g.saved = Answers!Top(t).saved,
         errno' \in [Threads -> Nat], \A u \in Threads : u # t => errno'[u] = errno[u],
         stack' \in [Answers!Calls -> Answers!Calls \cup {<<>>}],
         \A c \in Answers!Calls : c # Answers!Buf(t) => stack'[c] = stack[c],
         ~wild',
         CallSound(g, Answers!Buf(t), errno'[t], stack'[Answers!Buf(t)])
  PROVE  AnswersInv'
<1> DEFINE last == Len(frames[t])
<1>0. /\ frames \in [Threads -> Seq(FrameType)] /\ last > 0
      /\ \A u \in Threads : Len(frames[u]) \in {0} \cup Depths
      /\ Depths \in {{1}, {1, 2}}
  BY MachineAssumption DEF AnswersInv, AnswersTypes, Answers!Depth, Answers!SyscallsAssumption
<1>1. /\ frames[t] \in Seq(FrameType) /\ frames' = [frames EXCEPT ![t][last] = g]
      /\ \A u \in Threads : Len(frames[u]) \in {0, 1, 2}
      /\ last \in {1, 2}
  <2>1. \A u \in Threads : Len(frames[u]) \in {0, 1, 2}
    BY <1>0
  <2>2. frames' = [frames EXCEPT ![t][last] = g]
    BY DEF Answers!Replace, Answers!Depth
  <2> QED
    BY <1>0, <2>1, <2>2
<1>2. frames'[t] = [frames[t] EXCEPT ![last] = g] /\ \A u \in Threads : u # t => frames'[u] = frames[u]
  BY <1>0, <1>1
<1>3. /\ frames'[t] \in Seq(FrameType) /\ Len(frames'[t]) = last /\ frames'[t][last] = g
      /\ \A d \in 1..last : d # last => frames'[t][d] = frames[t][d]
  BY <1>1, <1>2
<1>4. frames' \in [Threads -> Seq(FrameType)]
  BY <1>0, <1>1, <1>3
<1>5. AnswersTypes'
  BY <1>0, <1>2, <1>3, <1>4 DEF AnswersTypes
<1>6. ASSUME NEW u \in Threads, u # t, NEW d \in 1..Len(frames'[u])
      PROVE  CallSound(frames'[u][d], <<u, d>>, ErrnoAt(u, d)', stack'[<<u, d>>])
  <2>1. d \in {1, 2} /\ Len(frames[u]) \in Depths /\ d \in Depths
    BY <1>0, <1>1, <1>2, <1>6
  <2>2. <<u, d>> \in Answers!Calls /\ <<u, d>> # Answers!Buf(t)
    BY <1>6, <2>1 DEF Answers!Calls, Answers!Buf
  <2>3. CallSound(frames[u][d], <<u, d>>, ErrnoAt(u, d), stack[<<u, d>>])
    BY <1>2, <1>6 DEF AnswersInv
  <2>4. ErrnoAt(u, d)' = ErrnoAt(u, d)
    BY <1>2, <1>6 DEF ErrnoAt
  <2> QED
    BY <1>2, <1>6, <2>2, <2>3, <2>4
<1>7. ASSUME NEW d \in 1..last, d # last
      PROVE  CallSound(frames'[t][d], <<t, d>>, ErrnoAt(t, d)', stack'[<<t, d>>])
  <2>1. d = 1 /\ last = 2 /\ 1 \in Depths
    BY <1>0, <1>1, <1>7
  <2>2. <<t, d>> \in Answers!Calls /\ <<t, d>> # Answers!Buf(t)
    BY <1>7, <2>1 DEF Answers!Calls, Answers!Buf, Answers!Depth
  <2>3. CallSound(frames[t][d], <<t, d>>, ErrnoAt(t, d), stack[<<t, d>>])
    BY DEF AnswersInv
  <2>4. ErrnoAt(t, d)' = ErrnoAt(t, d)
    BY <1>3, <2>1 DEF ErrnoAt, Answers!Top, Answers!Depth
  <2> QED
    BY <1>3, <1>7, <2>2, <2>3, <2>4
<1>8. CallSound(frames'[t][last], <<t, last>>, ErrnoAt(t, last)', stack'[<<t, last>>])
  BY <1>3 DEF ErrnoAt, Answers!Buf, Answers!Depth
<1> QED
  BY <1>3, <1>5, <1>6, <1>7, <1>8 DEF AnswersInv

\* What is known of the call on top of t's stack.
LEMMA TopSound ==
  ASSUME AnswersInv, NEW t \in Threads, Answers!Depth(t) > 0
  PROVE  /\ Answers!Top(t) \in FrameType /\ Answers!Depth(t) \in Depths
         /\ Answers!Buf(t) \in Answers!Calls
         /\ CallSound(Answers!Top(t), Answers!Buf(t), errno[t], stack[Answers!Buf(t)])
<1>1. /\ frames[t] \in Seq(FrameType)
      /\ Len(frames[t]) \in {0} \cup Depths /\ Len(frames[t]) > 0
  BY DEF AnswersInv, AnswersTypes, Answers!Depth
<1>2. Len(frames[t]) \in 1..Len(frames[t]) /\ Len(frames[t]) \in Depths
  BY <1>1
<1> QED
  BY <1>1, <1>2 DEF AnswersInv, Answers!Top, Answers!Depth, Answers!Buf, Answers!Calls, ErrnoAt

\* The numbers that are errors.
LEMMA ErrorsAreNegative ==
  ASSUME NEW r \in Answers!Errors
  PROVE  r \in Int /\ r < 0 /\ -r \in Nat
BY DEF Answers!Errors

\* Steps inside a call.
LEMMA CallActions ==
  ASSUME AnswersInv, NEW t \in Threads,
         \/ Answers!RealpathNull(t) \/ Answers!DispatchAbsent(t) \/ Answers!Dispatch(t)
         \/ Answers!posix_fadvise(t) \/ Answers!Convert(t) \/ Answers!RealpathFails(t)
         \/ Answers!RealpathCopies(t) \/ Answers!Unwind(t)
  PROVE  AnswersInv'
<1> DEFINE f == Answers!Top(t)
           c == Answers!Buf(t)
<1>1. Answers!Depth(t) > 0
  BY DEF Answers!RealpathNull, Answers!DispatchAbsent, Answers!Dispatch, Answers!posix_fadvise,
         Answers!Convert, Answers!RealpathFails, Answers!RealpathCopies, Answers!Unwind,
         Answers!At
<1>2. /\ f \in FrameType /\ c \in Answers!Calls
      /\ CallSound(f, c, errno[t], stack[c])
      /\ c = <<t, Answers!Depth(t)>>
  BY <1>1, TopSound DEF Answers!Buf
<1>3. /\ errno \in [Threads -> Nat] /\ ~wild
      /\ stack \in [Answers!Calls -> Paths]
      /\ Results \subseteq Int /\ "posix_fadvise" \notin Absent
      /\ Absent \cap Answers!UnwindNames = {}
  BY MachineAssumption DEF AnswersInv, AnswersTypes, Paths, Answers!SyscallsAssumption
\* It is enough to look at the call itself.
<1>4. ASSUME NEW g \in FrameType, Answers!Replace(t, g), g.saved = f.saved,
             errno' \in [Threads -> Nat], \A u \in Threads : u # t => errno'[u] = errno[u],
             stack' \in [Answers!Calls -> Paths],
             \A d \in Answers!Calls : d # c => stack'[d] = stack[d], wild' = wild,
             CallSound(g, c, errno'[t], stack'[c])
      PROVE  AnswersInv'
  BY <1>1, <1>3, <1>4, CallSteps DEF Paths
\* The negative numbers that the steps assign.
<1>5. PICK failed \in Int, einval \in Int, enomem \in Int, enosys \in Int :
        /\ failed = -1 /\ einval = -Answers!EINVAL
        /\ enomem = -Answers!ENOMEM /\ enosys = -Answers!ENOSYS
  BY DEF Answers!EINVAL, Answers!ENOMEM, Answers!ENOSYS
<1> HIDE DEF f, c
<1>6. CASE Answers!RealpathNull(t)
  <2> DEFINE g == [f EXCEPT !.pc = "ran", !.res = einval]
  <2>1. f.pc = "call" /\ f.name = "realpath" /\ Answers!Replace(t, g) /\ UNCHANGED <<errno, stack, wild>>
    BY <1>6, <1>5 DEF Answers!RealpathNull, Answers!At, f
  <2>2. /\ g \in FrameType
        /\ g.name = f.name /\ g.saved = f.saved /\ g.pc = "ran" /\ g.res = einval
        /\ g.ret = f.ret /\ g.seen = f.seen /\ g.out = f.out
    BY <1>2 DEF FrameType
  <2> HIDE DEF g
  <2>3. CallSound(g, c, errno[t], stack[c])
    BY <1>2, <1>3, <1>5, <2>1, <2>2
    DEF CallSound, ResultsKnown, ErrorKept, PathKept, Answers!EINVAL, Answers!ENOMEM,
             Answers!ENOSYS, Answers!Errors
  <2> QED
    BY <1>3, <1>4, <2>1, <2>2, <2>3
<1>7. CASE Answers!DispatchAbsent(t)
  <2> DEFINE g == [f EXCEPT !.pc = "ran", !.res = enosys]
  <2>1. f.pc = "call" /\ Answers!Replace(t, g) /\ UNCHANGED <<errno, stack, wild>>
    BY <1>7, <1>5 DEF Answers!DispatchAbsent, Answers!At, f, Answers!Alert
  <2>2. /\ g \in FrameType
        /\ g.name = f.name /\ g.saved = f.saved /\ g.pc = "ran" /\ g.res = enosys
        /\ g.ret = f.ret /\ g.seen = f.seen /\ g.out = f.out
    BY <1>2 DEF FrameType
  <2> HIDE DEF g
  <2>3. CallSound(g, c, errno[t], stack[c])
    BY <1>2, <1>3, <1>5, <2>1, <2>2
    DEF CallSound, ResultsKnown, ErrorKept, PathKept, Answers!EINVAL, Answers!ENOMEM,
             Answers!ENOSYS, Answers!Errors
  <2> QED
    BY <1>3, <1>4, <2>1, <2>2, <2>3
<1>8. CASE Answers!Dispatch(t)
  <2>1. PICK r \in Results \cup {0} :
          /\ Answers!Replace(t, [f EXCEPT !.pc = "ran", !.res = r,
                                          !.seen = Answers!Seen(f.name)])
          /\ stack' = IF f.name = "realpath" /\ r >= 0
                      THEN [stack EXCEPT ![c] = <<t, Answers!Depth(t)>>] ELSE stack
    BY <1>8 DEF Answers!Dispatch, f, c
  <2>2. f.pc = "call" /\ f.name \notin Absent \cup {"posix_fadvise"} /\ UNCHANGED <<errno, wild>>
    BY <1>8 DEF Answers!Dispatch, Answers!At, f
  <2> DEFINE view == Answers!Seen(f.name)
             g == [f EXCEPT !.pc = "ran", !.res = r, !.seen = view]
  <2>3. Answers!Replace(t, g)
    BY <2>1
  <2>4. f.name \in Served /\ view \in Views
    BY <1>2, <2>2 DEF Served, Views, FrameType
  <2>5. r \in Int
    BY <1>3, <2>1
  <2>6. f.name = "realpath" /\ r >= 0 => stack' = [stack EXCEPT ![c] = c]
    BY <1>2, <2>1
  <2>7. ~(f.name = "realpath" /\ r >= 0) => stack' = stack
    BY <2>1
  <2>8. /\ stack' \in [Answers!Calls -> Paths]
        /\ \A d \in Answers!Calls : d # c => stack'[d] = stack[d]
        /\ f.name = "realpath" /\ r >= 0 => stack'[c] = c
    BY <1>2, <1>3, <2>6, <2>7 DEF Paths
  <2> HIDE DEF view
  <2>9. /\ g \in FrameType
        /\ g.name = f.name /\ g.saved = f.saved /\ g.pc = "ran" /\ g.res = r
        /\ g.ret = f.ret /\ g.seen = view /\ g.out = f.out
    BY <1>2, <2>4, <2>5 DEF FrameType
  <2> HIDE DEF g
  <2>10. CallSound(g, c, errno[t], stack'[c])
    BY <1>2, <2>1, <2>2, <2>4, <2>8, <2>9
    DEF CallSound, ResultsKnown, ErrorKept, PathKept, view
  <2> QED
    BY <1>3, <1>4, <2>2, <2>3, <2>8, <2>9, <2>10
<1>9. CASE Answers!posix_fadvise(t)
  <2> DEFINE g == [f EXCEPT !.pc = "return"]
  <2>1. f.pc = "call" /\ f.name = "posix_fadvise" /\ Answers!Replace(t, g) /\ UNCHANGED <<errno, stack, wild>>
    BY <1>9, <1>5 DEF Answers!posix_fadvise, Answers!At, f
  <2>2. /\ g \in FrameType
        /\ g.name = f.name /\ g.saved = f.saved /\ g.pc = "return" /\ g.res = f.res
        /\ g.ret = f.ret /\ g.seen = f.seen /\ g.out = f.out
    BY <1>2 DEF FrameType
  <2> HIDE DEF g
  <2>3. CallSound(g, c, errno[t], stack[c])
    BY <1>2, <1>3, <1>5, <2>1, <2>2
    DEF CallSound, ResultsKnown, ErrorKept, PathKept, Answers!EINVAL, Answers!ENOMEM,
             Answers!ENOSYS, Answers!Errors
  <2> QED
    BY <1>3, <1>4, <2>1, <2>2, <2>3
<1>10. CASE Answers!Convert(t)
  <2>1. f.pc = "ran" /\ f.name # "realpath" /\ UNCHANGED <<stack, wild>>
    BY <1>10 DEF Answers!Convert, Answers!At, f
  <2>2. CASE f.res \in Answers!Errors
    <3> DEFINE g == [f EXCEPT !.pc = "return", !.ret = failed]
    <3>1. Answers!SetErrno(t, -f.res) /\ Answers!Replace(t, g)
      BY <1>5, <1>10, <2>2 DEF Answers!Convert, f
    <3>2. /\ g \in FrameType
          /\ g.name = f.name /\ g.saved = f.saved /\ g.pc = "return" /\ g.res = f.res
          /\ g.ret = failed /\ g.seen = f.seen /\ g.out = f.out
      BY <1>2 DEF FrameType
    <3> HIDE DEF g
    <3>3. -f.res \in Nat
      BY <2>2, ErrorsAreNegative
    <3>4. /\ errno' \in [Threads -> Nat] /\ errno'[t] = -f.res
          /\ \A u \in Threads : u # t => errno'[u] = errno[u]
      BY <1>3, <3>1, <3>3 DEF Answers!SetErrno
    <3>5. CallSound(g, c, -f.res, stack[c])
      BY <1>2, <1>5, <2>1, <2>2, <3>2
      DEF CallSound, ResultsKnown, ErrorKept, PathKept, Answers!EINVAL, Answers!ENOMEM,
               Answers!ENOSYS, Answers!Errors
    <3> QED
      BY <1>3, <1>4, <2>1, <3>1, <3>2, <3>4, <3>5
  <2>3. CASE f.res \notin Answers!Errors
    <3> DEFINE g == [f EXCEPT !.pc = "return", !.ret = f.res]
    <3>1. UNCHANGED errno /\ Answers!Replace(t, g)
      BY <1>10, <2>3, Zenon DEF Answers!Convert, f
    <3>2. /\ g \in FrameType
          /\ g.name = f.name /\ g.saved = f.saved /\ g.pc = "return" /\ g.res = f.res
          /\ g.ret = f.res /\ g.seen = f.seen /\ g.out = f.out
      BY <1>2 DEF FrameType
    <3> HIDE DEF g
    <3>3. {einval, enomem, enosys} \subseteq Answers!Errors
      BY <1>5 DEF Answers!EINVAL, Answers!ENOMEM, Answers!ENOSYS, Answers!Errors
    <3>4. f.name \notin Absent
      BY <1>2, <1>5, <2>1, <2>3, <3>3 DEF CallSound, ErrorKept
    <3>5. f.res \in Results \cup {0}
      BY <1>2, <1>5, <2>3, <3>3 DEF CallSound, ResultsKnown
    <3>6. CallSound(g, c, errno[t], stack[c])
      BY <1>2, <2>1, <2>3, <3>2, <3>4, <3>5 DEF CallSound, ResultsKnown, ErrorKept, PathKept
    <3> QED
      BY <1>3, <1>4, <2>1, <3>1, <3>2, <3>6
  <2> QED
    BY <2>2, <2>3
<1>11. CASE Answers!RealpathFails(t)
  <2> DEFINE g == [f EXCEPT !.pc = "return", !.ret = failed]
  <2>1. f.pc = "ran" /\ f.name = "realpath" /\ f.res < 0 /\ UNCHANGED <<stack, wild>>
    BY <1>11 DEF Answers!RealpathFails, Answers!At, f
  <2>2. Answers!SetErrno(t, -f.res) /\ Answers!Replace(t, g)
    BY <1>5, <1>11 DEF Answers!RealpathFails, f
  <2>3. /\ g \in FrameType
        /\ g.name = f.name /\ g.saved = f.saved /\ g.pc = "return" /\ g.res = f.res
        /\ g.ret = failed /\ g.seen = f.seen /\ g.out = f.out
    BY <1>2 DEF FrameType
  <2> HIDE DEF g
  <2>4. -f.res \in Nat
    <3>1. f.res \in Int
      BY <1>2 DEF FrameType
    <3> QED
      BY <2>1, <3>1
  <2>5. /\ errno' \in [Threads -> Nat] /\ errno'[t] = -f.res
        /\ \A u \in Threads : u # t => errno'[u] = errno[u]
    BY <1>3, <2>2, <2>4 DEF Answers!SetErrno
  <2>6. CallSound(g, c, -f.res, stack[c])
    BY <1>2, <1>5, <2>1, <2>3
    DEF CallSound, ResultsKnown, ErrorKept, PathKept, Answers!EINVAL, Answers!ENOMEM,
             Answers!ENOSYS, Answers!Errors
  <2> QED
    BY <1>3, <1>4, <2>1, <2>2, <2>3, <2>5, <2>6
<1>12. CASE Answers!RealpathCopies(t)
  <2>1. f.pc = "ran" /\ f.name = "realpath" /\ f.res >= 0 /\ UNCHANGED <<stack, wild>>
    BY <1>12 DEF Answers!RealpathCopies, Answers!At, f
  <2>2. f.name \notin Absent
    BY <1>2, <1>5, <2>1 DEF CallSound, ErrorKept, Answers!EINVAL, Answers!ENOSYS
  <2>3. stack[c] = c /\ stack[c] \in Paths
    BY <1>2, <1>3, <2>1 DEF CallSound, PathKept
  <2>4. ASSUME Answers!Replace(t, [f EXCEPT !.pc = "return", !.out = stack[c]]), UNCHANGED errno
        PROVE  AnswersInv'
    <3> DEFINE path == stack[c]
               g == [f EXCEPT !.pc = "return", !.out = path]
    <3>1. Answers!Replace(t, g)
      BY <2>4
    <3>2. path \in Paths
      BY <2>3
    <3> HIDE DEF path
    <3>3. /\ g \in FrameType
          /\ g.name = f.name /\ g.saved = f.saved /\ g.pc = "return" /\ g.res = f.res
          /\ g.ret = f.ret /\ g.seen = f.seen /\ g.out = path
      BY <1>2, <3>2 DEF FrameType
    <3> HIDE DEF g
    <3>4. CallSound(g, c, errno[t], stack[c])
      BY <1>2, <2>1, <2>2, <2>3, <3>3
      DEF CallSound, ResultsKnown, ErrorKept, PathKept, path
    <3> QED
      BY <1>3, <1>4, <2>1, <2>4, <3>1, <3>3, <3>4
  <2>5. ASSUME Answers!SetErrno(t, Answers!ENOMEM),
               Answers!Replace(t, [f EXCEPT !.pc = "return", !.res = enomem, !.ret = failed])
        PROVE  AnswersInv'
    <3> DEFINE g == [f EXCEPT !.pc = "return", !.res = enomem, !.ret = failed]
    <3>1. Answers!Replace(t, g)
      BY <2>5
    <3>2. /\ g \in FrameType
          /\ g.name = f.name /\ g.saved = f.saved /\ g.pc = "return" /\ g.res = enomem
          /\ g.ret = failed /\ g.seen = f.seen /\ g.out = f.out
      BY <1>2 DEF FrameType
    <3> HIDE DEF g
    <3>3. /\ errno' \in [Threads -> Nat] /\ errno'[t] = Answers!ENOMEM
          /\ \A u \in Threads : u # t => errno'[u] = errno[u]
      BY <1>3, <2>5 DEF Answers!SetErrno, Answers!ENOMEM
    <3>4. ResultsKnown(g)
      BY <1>2, <1>5, <3>2 DEF CallSound, ResultsKnown
    <3>5. ErrorKept(g, Answers!ENOMEM) /\ PathKept(g, c, stack[c])
      <4>1. Answers!ENOMEM = -enomem
        <5>1. enomem + Answers!ENOMEM = 0 /\ Answers!ENOMEM \in Int
          BY <1>5 DEF Answers!ENOMEM
        <5> QED
          BY <5>1
      <4> QED
        BY <1>5, <2>2, <3>2, <4>1 DEF ErrorKept, PathKept
    <3>6. CallSound(g, c, Answers!ENOMEM, stack[c])
      BY <3>4, <3>5 DEF CallSound
    <3> QED
      BY <1>3, <1>4, <2>1, <3>1, <3>2, <3>3, <3>6
  <2> QED
    BY <1>5, <1>12, <2>4, <2>5 DEF Answers!RealpathCopies, f, c
<1>13. CASE Answers!Unwind(t)
  <2>1. PICK r \in Results \cup {0} :
          Answers!Replace(t, [f EXCEPT !.pc = "return", !.ret = r, !.seen = Answers!Seen(f.name)])
    BY <1>13 DEF Answers!Unwind, f
  <2>2. f.pc = "call" /\ f.name \in Answers!UnwindNames /\ UNCHANGED <<errno, stack, wild>>
    BY <1>13 DEF Answers!Unwind, Answers!At, f
  <2> DEFINE view == Answers!Seen(f.name)
             g == [f EXCEPT !.pc = "return", !.ret = r, !.seen = view]
  <2>3. Answers!Replace(t, g)
    BY <2>1
  <2>4. f.name \in Served /\ view \in Views /\ f.name \notin Absent /\ f.name # "realpath"
    BY <1>2, <1>3, <2>2 DEF Served, Views, FrameType, Answers!UnwindNames
  <2>5. r \in Int /\ 0 \notin Answers!Errors
    BY <1>3, <2>1 DEF Answers!Errors
  <2> HIDE DEF view
  <2>6. /\ g \in FrameType
        /\ g.name = f.name /\ g.saved = f.saved /\ g.pc = "return" /\ g.res = f.res
        /\ g.ret = r /\ g.seen = view /\ g.out = f.out
    BY <1>2, <2>4, <2>5 DEF FrameType
  <2> HIDE DEF g
  <2>7. f.res = 0
    BY <1>2, <2>2 DEF CallSound, ResultsKnown
  <2>8. CallSound(g, c, errno[t], stack[c])
    BY <1>2, <2>1, <2>4, <2>5, <2>6, <2>7
    DEF CallSound, ResultsKnown, ErrorKept, PathKept, view
  <2> QED
    BY <1>3, <1>4, <2>2, <2>3, <2>6, <2>8
<1> QED
  BY <1>6, <1>7, <1>8, <1>9, <1>10, <1>11, <1>12, <1>13

\* A call begins, from a handler with the errno of the call that it interrupts.
LEMMA CallBegins ==
  ASSUME AnswersInv, NEW t \in Threads, NEW n \in Names, Answers!Call(t, n)
  PROVE  AnswersInv'
<1> DEFINE saved == IF Answers!Depth(t) = 1 THEN errno[t] ELSE 0
           g == Answers!Frame(n, saved)
           size == Len(frames[t])
<1>1. /\ errno \in [Threads -> Nat] /\ frames \in [Threads -> Seq(FrameType)]
      /\ \A u \in Threads : Len(frames[u]) \in {0} \cup Depths
      /\ Depths \in {{1}, {1, 2}}
  BY MachineAssumption DEF AnswersInv, AnswersTypes, Answers!SyscallsAssumption
<1>2. size + 1 \in Depths /\ frames' = [frames EXCEPT ![t] = Append(@, g)]
      /\ UNCHANGED <<errno, stack, wild>>
  BY DEF Answers!Call, Answers!Depth
<1>3. /\ g \in FrameType /\ g.saved = saved /\ g.pc = "call" /\ g.res = 0 /\ g.ret = 0
      /\ g.seen = <<>> /\ g.name = n
  <2>1. saved \in Nat
    BY <1>1
  <2> HIDE DEF saved
  <2> QED
    BY <2>1 DEF Answers!Frame, FrameType, Views, Paths
<1>4. frames[t] \in Seq(FrameType) /\ size \in {0, 1}
  BY <1>2, Sizes
<1>5. /\ frames'[t] = Append(frames[t], g)
      /\ \A u \in Threads : u # t => frames'[u] = frames[u]
  BY <1>1, <1>2
<1> HIDE DEF g
<1>6. /\ frames'[t] \in Seq(FrameType) /\ Len(frames'[t]) = size + 1
      /\ frames'[t][size + 1] = g
      /\ \A d \in 1..size : frames'[t][d] = frames[t][d]
  BY <1>3, <1>4, <1>5
<1>7. AnswersTypes'
  <2>1. frames' \in [Threads -> Seq(FrameType)]
    BY <1>1, <1>2, <1>5, <1>6
  <2>2. \A u \in Threads : Len(frames'[u]) \in {0} \cup Depths
    BY <1>1, <1>2, <1>5, <1>6
  <2> QED
    BY <1>2, <2>1, <2>2 DEF AnswersInv, AnswersTypes
<1>8. ASSUME NEW u \in Threads, u # t, NEW d \in 1..Len(frames'[u])
      PROVE  CallSound(frames'[u][d], <<u, d>>, ErrnoAt(u, d)', stack'[<<u, d>>])
  <2>1. ErrnoAt(u, d)' = ErrnoAt(u, d)
    BY <1>2, <1>5, <1>8 DEF ErrnoAt
  <2> QED
    BY <1>2, <1>5, <1>8, <2>1 DEF AnswersInv
<1>9. ASSUME NEW d \in 1..size
      PROVE  CallSound(frames'[t][d], <<t, d>>, ErrnoAt(t, d)', stack'[<<t, d>>])
  <2>1. d = 1 /\ size = 1
    <3>1. CASE size = 0
      BY <3>1
    <3>2. CASE size = 1
      BY <3>2
    <3> QED
      BY <1>4, <3>1, <3>2
  <2>2. ErrnoAt(t, d) = errno[t] /\ ErrnoAt(t, d)' = g.saved /\ saved = errno[t]
    BY <1>6, <2>1 DEF ErrnoAt, Answers!Depth
  <2>3. CallSound(frames[t][d], <<t, d>>, ErrnoAt(t, d), stack[<<t, d>>])
    BY DEF AnswersInv
  <2>4. ErrnoAt(t, d)' = ErrnoAt(t, d)
    BY <1>3, <2>2
  <2>5. frames'[t][d] = frames[t][d]
    BY <1>6
  <2>6. stack' = stack
    BY <1>2
  <2> QED
    BY <2>3, <2>4, <2>5, <2>6
<1>10. ASSUME NEW d, d = size + 1
       PROVE  CallSound(frames'[t][d], <<t, d>>, ErrnoAt(t, d)', stack'[<<t, d>>])
  <2>1. frames'[t][d] = g
    BY <1>6, <1>10
  <2>2. \A c, e, path : CallSound(g, c, e, path)
    BY <1>3 DEF CallSound, ResultsKnown, ErrorKept, PathKept
  <2> QED
    BY <2>1, <2>2
<1>11. ASSUME NEW d \in 1..Len(frames'[t])
       PROVE  CallSound(frames'[t][d], <<t, d>>, ErrnoAt(t, d)', stack'[<<t, d>>])
  <2>1. d \in 1..size \/ d = size + 1
    BY <1>4, <1>6
  <2>2. CASE d \in 1..size
    BY <1>9, <2>2
  <2>3. CASE d = size + 1
    BY <1>10, <2>3
  <2> QED
    BY <2>1, <2>2, <2>3
<1> QED
  BY <1>7, <1>8, <1>11 DEF AnswersInv

\* A call is over: a handler puts errno back for the call below.
LEMMA CallReturns ==
  ASSUME AnswersInv, NEW t \in Threads, Answers!Return(t)
  PROVE  AnswersInv'
<1> DEFINE size == Len(frames[t])
           c == <<t, size>>
<1>1. /\ errno \in [Threads -> Nat] /\ frames \in [Threads -> Seq(FrameType)]
      /\ stack \in [Answers!Calls -> Paths] /\ ~wild
      /\ \A u \in Threads : Len(frames[u]) \in {0} \cup Depths
      /\ Depths \in {{1}, {1, 2}}
  BY MachineAssumption DEF AnswersInv, AnswersTypes, Answers!SyscallsAssumption, Paths
<1>2. /\ size > 0 /\ frames' = [frames EXCEPT ![t] = SubSeq(@, 1, Len(@) - 1)]
      /\ errno' = [errno EXCEPT ![t] = IF size = 2 THEN frames[t][size].saved ELSE @]
      /\ stack' = [stack EXCEPT ![c] = <<>>] /\ UNCHANGED wild
  BY DEF Answers!Return, Answers!At, Answers!Depth, Answers!Top
<1>3. /\ frames[t] \in Seq(FrameType) /\ size \in {1, 2} /\ 1 \in Depths
      /\ frames[t][size] \in FrameType
  <2>1. size \in {0, 1, 2} /\ size > 0
    BY <1>2, Sizes
  <2>2. size \in 1..size
    BY <2>1
  <2> QED
    BY <2>1, <2>2, Sizes
<1>4. /\ frames'[t] = SubSeq(frames[t], 1, size - 1)
      /\ \A u \in Threads : u # t => frames'[u] = frames[u]
  BY <1>1, <1>2
<1>5. /\ frames'[t] \in Seq(FrameType) /\ Len(frames'[t]) = size - 1
      /\ \A d \in 1..(size - 1) : frames'[t][d] = frames[t][d]
  <2>1. size - 1 \in 0..size
    <3> HIDE DEF size
    <3> QED
      BY <1>3
  <2> QED
    BY <1>3, <1>4, <2>1
<1>6. /\ errno' \in [Threads -> Nat]
      /\ size = 2 => errno'[t] = frames[t][2].saved
      /\ \A u \in Threads : u # t => errno'[u] = errno[u]
  <2>2. frames[t][size].saved \in Nat
    BY <1>3 DEF FrameType
  <2> QED
    BY <1>1, <1>2, <2>2
<1>7. /\ stack' \in [Answers!Calls -> Paths]
      /\ \A d \in Answers!Calls : d # c => stack'[d] = stack[d]
  BY <1>1, <1>2 DEF Paths
<1>8. AnswersTypes'
  <2>1. frames' \in [Threads -> Seq(FrameType)]
    BY <1>1, <1>2, <1>4, <1>5
  <2>2. \A u \in Threads : Len(frames'[u]) \in {0} \cup Depths
    BY <1>1, <1>3, <1>4, <1>5
  <2> QED
    BY <1>1, <1>2, <1>6, <1>7, <2>1, <2>2 DEF AnswersTypes, Paths
<1>9. ASSUME NEW u \in Threads, u # t, NEW d \in 1..Len(frames'[u])
      PROVE  CallSound(frames'[u][d], <<u, d>>, ErrnoAt(u, d)', stack'[<<u, d>>])
  <2>1. ErrnoAt(u, d)' = ErrnoAt(u, d)
    BY <1>4, <1>6, <1>9 DEF ErrnoAt
  <2>2. d \in Depths
    BY <1>1, <1>4, <1>9
  <2>3. stack'[<<u, d>>] = stack[<<u, d>>]
    BY <1>7, <1>9, <2>2 DEF Answers!Calls
  <2> QED
    BY <1>4, <1>9, <2>1, <2>3 DEF AnswersInv
<1>10. ASSUME NEW d \in 1..(size - 1)
       PROVE  CallSound(frames'[t][d], <<t, d>>, ErrnoAt(t, d)', stack'[<<t, d>>])
  <2>1. d = 1 /\ size = 2
    <3>1. CASE size = 1
      BY <3>1
    <3>2. CASE size = 2
      BY <3>2
    <3> QED
      BY <1>3, <3>1, <3>2
  <2>2. ErrnoAt(t, d)' = ErrnoAt(t, d)
    BY <1>5, <1>6, <2>1 DEF ErrnoAt
  <2>3. stack'[<<t, d>>] = stack[<<t, d>>]
    BY <1>3, <1>7, <2>1 DEF Answers!Calls
  <2> QED
    BY <1>5, <2>1, <2>2, <2>3 DEF AnswersInv
<1> QED
  BY <1>5, <1>8, <1>9, <1>10 DEF AnswersInv

\* The invariant is kept by the calls and by the steps of the other parts.
LEMMA AnswersStep == AnswersInv /\ [Answers!Next]_answersVars => AnswersInv'
<1> SUFFICES ASSUME AnswersInv, [Answers!Next]_answersVars PROVE AnswersInv'
  OBVIOUS
<1>1. CASE UNCHANGED answersVars
  BY <1>1 DEF answersVars, AnswersInv, AnswersTypes, ErrnoAt
<1>2. CASE Answers!Next
  <2>1. PICK t \in Threads : Answers!Step(t)
    BY <1>2 DEF Answers!Next
  <2> QED
    BY <2>1, CallBegins, CallActions, CallReturns DEF Answers!Step
<1> QED
  BY <1>1, <1>2

\* What holds of every call makes the answers sound.
LEMMA AnswersFollow == AnswersInv => Answers!AnswersSound
<1> SUFFICES ASSUME AnswersInv PROVE Answers!AnswersSound
  OBVIOUS
<1>1. Answers!TypeOK
  <2>1. ASSUME NEW t \in Threads
        PROVE  Answers!Depth(t) <= 2 /\ \A d \in 1..Answers!Depth(t) : Answers!FrameOK(frames[t][d])
    <3>1. Len(frames[t]) <= 2
      BY Sizes
    <3>2. ASSUME NEW d \in 1..Len(frames[t]) PROVE Answers!FrameOK(frames[t][d])
      <4>1. frames[t][d] \in FrameType /\ ResultsKnown(frames[t][d])
        BY Sizes DEF AnswersInv, CallSound
      <4> QED
        BY <4>1 DEF ResultsKnown, FrameType, Paths, Answers!FrameOK
    <3> QED
      BY <3>1, <3>2 DEF Answers!Depth
  <2> QED
    BY <2>1 DEF AnswersInv, AnswersTypes, Answers!TypeOK
<1>2. ASSUME NEW t \in Threads, Answers!Depth(t) > 0
      PROVE  /\ Answers!Top(t) \in FrameType
             /\ ResultsKnown(Answers!Top(t)) /\ ErrorKept(Answers!Top(t), errno[t])
             /\ PathKept(Answers!Top(t), Answers!Buf(t), stack[Answers!Buf(t)])
  BY <1>2, TopSound DEF CallSound
<1>3. Answers!ErrorIsOwn
  BY <1>2 DEF Answers!ErrorIsOwn, Answers!At, ErrorKept
<1>4. Answers!PathIsOwn
  BY <1>2 DEF Answers!PathIsOwn, Answers!At, PathKept, Answers!Buf
<1>5. Answers!NoGarbage
  <2> SUFFICES ASSUME NEW t \in Threads, Answers!Depth(t) > 0,
                      NEW i \in DOMAIN Answers!Top(t).seen
               PROVE  Answers!Top(t).seen[i] \in {Answers!Parameters(Answers!Top(t).name)[i], "zero"}
    BY DEF Answers!NoGarbage
  <2>1. Answers!Top(t).seen # <<>>
    OBVIOUS
  <2>2. /\ Answers!Top(t).name \in Served
        /\ Answers!Top(t).seen = Answers!Seen(Answers!Top(t).name)
    BY <1>2, <2>1 DEF ResultsKnown
  <2> QED
    BY <2>2, PaddingIsEnough
<1>6. Answers!AbsentIsReported
  BY <1>2 DEF Answers!AbsentIsReported, Answers!At, ErrorKept
<1> QED
  BY <1>1, <1>3, <1>4, <1>5, <1>6 DEF Answers!AnswersSound

\* What the caller of a wrapper is told is about its own call, for any threads,
\* with handlers or without, whatever the framework returns and lacks: the error is
\* in errno and the path in its buffer, the framework finds in its parameters what
\* belongs there, and a call that it does not have is told as ENOSYS
\* (syscall_arch.h:8-75, vtbl.c:20-33, realpath.c:14-41, fs.h:38-44).
THEOREM AnswersCorrect == MachineSpec => []AnswersSound
<1>1. MachineInit => AnswersInv
  BY AnswersBegin DEF MachineInit
<1>2. AnswersInv /\ [MachineNext]_machineVars => AnswersInv'
  BY AnswersStep DEF MachineNext, machineVars, answersVars
<1>3. AnswersInv => AnswersSound
  BY AnswersFollow DEF AnswersSound
<1> QED
  BY <1>1, <1>2, <1>3, PTL DEF MachineSpec

\* The same of the calls by themselves, without the cuts that MCMachine makes:
\* every name, every thread and every handler at once.
THEOREM CallsCorrect == Answers!Spec => []Answers!AnswersSound
<1>1. Answers!Init => AnswersInv
  BY AnswersBegin
<1>2. AnswersInv /\ [Answers!Next]_(Answers!vars) => AnswersInv'
  BY AnswersStep DEF Answers!vars, answersVars
<1> QED
  BY <1>1, <1>2, AnswersFollow, PTL DEF Answers!Spec

-----------------------------------------------------------------------------
(* The records.                                                            *)

\* Where the runs of members of a record end, behind where the first begins.
Ends(r) ==
  CASE r = "mcontext" /\ target = "nt64" ->
         <<0, 48, 56, 68, 72, 120, 248, 256, 260, 262, 264, 268, 272, 276, 280, 288, 416, 672,
           768, 1184, 1192, 1232, 1280>>
    [] r = "mcontext" /\ target = "nt32" -> <<0, 4, 28, 56, 136, 140, 156, 184, 188, 204, 716>>
    [] r = "ucontext" /\ target = "nt64" -> <<0, 16, 48, 80, 352, 360, 364, 376, 384, 512, 520>>
    [] r = "ucontext" /\ target = "nt32" -> <<0, 16, 32, 64, 200, 204, 208, 212, 216, 344, 348>>
    [] r = "fenv" -> <<0, 12, 16, 18, 20, 24, 28, 32>>
    [] r = "strace" /\ target = "nt64" -> <<0, 16, 24, 88, 152, 280>>
    [] r = "strace" /\ target = "nt32" -> <<0, 8, 16, 80, 144, 272>>
    [] r = "erec" /\ target = "nt64" -> <<0, 8, 24, 28, 152>>
    [] r = "erec" /\ target = "nt32" -> <<0, 8, 16, 20, 80>>
    [] r = "dbg_event" /\ target = "nt64" ->
         <<0, 16, 32, 64, 104, 128, 136, 144, 152, 208, 232, 264, 280, 288, 320>>
    [] r = "dbg_event" /\ target = "nt32" ->
         <<0, 16, 32, 64, 84, 96, 100, 108, 116, 144, 156, 172, 180, 188, 204>>
    [] r = "dbg_module_info" /\ target = "nt64" -> <<0, 32, 40, 56>>
    [] r = "dbg_module_info" /\ target = "nt32" -> <<0, 16, 24, 40>>
    [] r = "psx_context" /\ target = "nt64" -> <<0, 8, 56, 64, 88>>
    [] r = "psx_context" /\ target = "nt32" -> <<0, 8, 32, 40, 52>>
    [] r = "kstat" -> <<0, 16, 24, 40, 48, 56, 64, 72, 120, 144>>

AlignOf(type) == Headers!Align(target, type)
SizeOf(type) == Headers!Size(target, type)

\* The run m of members of r lies between two offsets, where its users look for it.
Fits(r, m, from, to) ==
  LET begin == Headers!Up(from, AlignOf(m.type))
  IN  /\ from \in Nat /\ to \in Nat /\ from < to
      /\ begin + m.n * SizeOf(m.type) = to
      /\ AlignOf(m.type) \in {1, 2, 4, 8} /\ to % AlignOf(m.type) = 0
      /\ m.at # -1 => begin = m.at
      /\ m.name = "__mxcsr" => Headers!Up(from, AlignOf("u32")) = 28
      /\ m.name = "uc_mcontext" /\ target = "nt64" => Headers!Up(from, AlignOf("word")) % 16 = 0
      /\ m.name = "uc_rip" =>
           Headers!Up(from, AlignOf("word")) = Headers!CancelIndex64 * Headers!Word(target)
      /\ Headers!Left(r, to) = Headers!Left(r, from) + begin - from

Placed(r, members) ==
  /\ Len(members) \in Nat
  /\ \A k \in 1..Len(members) : Fits(r, members[k], Ends(r)[k], Ends(r)[k + 1])

\* Sizes and alignments of the types of members, for each architecture.
LEMMA Widths64 ==
  ASSUME target = "nt64"
  PROVE  /\ SizeOf("u8") = 1 /\ SizeOf("u16") = 2 /\ SizeOf("u32") = 4
         /\ SizeOf("u64") = 8 /\ SizeOf("word") = 8
         /\ AlignOf("u8") = 1 /\ AlignOf("u16") = 2 /\ AlignOf("u32") = 4
         /\ AlignOf("u64") = 8 /\ AlignOf("word") = 8
         /\ Headers!Word(target) = 8 /\ Headers!CancelIndex64 = 31
BY DEF SizeOf, AlignOf, Headers!Align, Headers!Size, Headers!Word, Headers!CancelIndex64

LEMMA Widths32 ==
  ASSUME target = "nt32", align64 \in {4, 8}
  PROVE  /\ SizeOf("u8") = 1 /\ SizeOf("u16") = 2 /\ SizeOf("u32") = 4
         /\ SizeOf("u64") = 8 /\ SizeOf("word") = 4
         /\ AlignOf("u8") = 1 /\ AlignOf("u16") = 2 /\ AlignOf("u32") = 4
         /\ AlignOf("u64") \in {4, 8} /\ AlignOf("word") = 4
         /\ Headers!Word(target) = 4
BY DEF SizeOf, AlignOf, Headers!Align, Headers!Size, Headers!Word

\* Each record, laid out run by run, has its members where Fits wants them.
LEMMA Mcontext64Fits ==
  ASSUME target = "nt64"
  PROVE  Placed("mcontext", Headers!mcontext64)
<1> DEFINE F(k) == Fits("mcontext", Headers!mcontext64[k], Ends("mcontext")[k], Ends("mcontext")[k + 1])
<1>1. Ends("mcontext") = <<0, 48, 56, 68, 72, 120, 248, 256, 260, 262, 264, 268, 272,
             276, 280, 288, 416, 672, 768, 1184, 1192, 1232, 1280>>
  BY DEF Ends
<1>2. /\ Fits("mcontext", Headers!At("word", 6, 0), 0, 48)
      /\ Fits("mcontext", Headers!At("u32", 2, 48), 48, 56)
      /\ Fits("mcontext", Headers!At("u16", 6, 56), 56, 68)
      /\ Fits("mcontext", Headers!At("u32", 1, 68), 68, 72)
      /\ Fits("mcontext", Headers!At("word", 6, 72), 72, 120)
      /\ Fits("mcontext", Headers!At("word", 16, 120), 120, 248)
      /\ Fits("mcontext", Headers!Named("word", 248, "uc_rip"), 248, 256)
      /\ Fits("mcontext", Headers!At("u16", 2, 256), 256, 260)
      /\ Fits("mcontext", Headers!At("u8", 2, 260), 260, 262)
      /\ Fits("mcontext", Headers!At("u16", 1, 262), 262, 264)
      /\ Fits("mcontext", Headers!At("u32", 1, 264), 264, 268)
      /\ Fits("mcontext", Headers!At("u16", 2, 268), 268, 272)
      /\ Fits("mcontext", Headers!At("u32", 1, 272), 272, 276)
      /\ Fits("mcontext", Headers!At("u16", 2, 276), 276, 280)
      /\ Fits("mcontext", Headers!At("u32", 2, 280), 280, 288)
      /\ Fits("mcontext", Headers!At("word", 16, 288), 288, 416)
      /\ Fits("mcontext", Headers!At("word", 32, 416), 416, 672)
      /\ Fits("mcontext", Headers!At("word", 12, 672), 672, 768)
      /\ Fits("mcontext", Headers!At("word", 52, 768), 768, 1184)
      /\ Fits("mcontext", Headers!At("word", 1, 1184), 1184, 1192)
      /\ Fits("mcontext", Headers!At("word", 5, 1192), 1192, 1232)
      /\ Fits("mcontext", Headers!At("word", 6, 1232), 1232, 1280)
  BY Widths64 DEF Fits, Headers!Up, Headers!Run, Headers!At, Headers!Named, Headers!Left
<1>3. Len(Headers!mcontext64) = 22
  BY DEF Headers!mcontext64
<1>4. F(1) /\ F(2) /\ F(3) /\ F(4) /\ F(5) /\ F(6) /\ F(7) /\ F(8) /\ F(9) /\ F(10)
      /\ F(11) /\ F(12) /\ F(13) /\ F(14) /\ F(15) /\ F(16) /\ F(17) /\ F(18) /\ F(19)
      /\ F(20) /\ F(21) /\ F(22)
  BY <1>1, <1>2 DEF Headers!mcontext64
<1> HIDE DEF F
<1>5. \A k \in 1..22 : F(k)
  BY <1>4
<1> QED
  BY <1>3, <1>5 DEF F, Placed

LEMMA Mcontext32Fits ==
  ASSUME target = "nt32", align64 \in {4, 8}
  PROVE  Placed("mcontext", Headers!mcontext32)
<1> DEFINE F(k) == Fits("mcontext", Headers!mcontext32[k], Ends("mcontext")[k], Ends("mcontext")[k + 1])
<1>1. Ends("mcontext") = <<0, 4, 28, 56, 136, 140, 156, 184, 188, 204, 716>>
  BY DEF Ends
<1>2. /\ Fits("mcontext", Headers!At("word", 1, 0), 0, 4)
      /\ Fits("mcontext", Headers!At("word", 6, 4), 4, 28)
      /\ Fits("mcontext", Headers!At("word", 7, 28), 28, 56)
      /\ Fits("mcontext", Headers!At("u8", 80, 56), 56, 136)
      /\ Fits("mcontext", Headers!At("word", 1, 136), 136, 140)
      /\ Fits("mcontext", Headers!At("word", 4, 140), 140, 156)
      /\ Fits("mcontext", Headers!At("word", 7, 156), 156, 184)
      /\ Fits("mcontext", Headers!Named("word", 184, "uc_eip"), 184, 188)
      /\ Fits("mcontext", Headers!At("word", 4, 188), 188, 204)
      /\ Fits("mcontext", Headers!At("u8", 512, 204), 204, 716)
  BY Widths32 DEF Fits, Headers!Up, Headers!Run, Headers!At, Headers!Named, Headers!Left
<1>3. Len(Headers!mcontext32) = 10
  BY DEF Headers!mcontext32
<1>4. F(1) /\ F(2) /\ F(3) /\ F(4) /\ F(5) /\ F(6) /\ F(7) /\ F(8) /\ F(9) /\ F(10)
  BY <1>1, <1>2 DEF Headers!mcontext32
<1> HIDE DEF F
<1>5. \A k \in 1..10 : F(k)
  BY <1>4
<1> QED
  BY <1>3, <1>5 DEF F, Placed

LEMMA Ucontext64Fits ==
  ASSUME target = "nt64"
  PROVE  Placed("ucontext", Headers!ucontext)
<1> DEFINE F(k) == Fits("ucontext", Headers!ucontext[k], Ends("ucontext")[k], Ends("ucontext")[k + 1])
<1>1. Ends("ucontext") = <<0, 16, 48, 80, 352, 360, 364, 376, 384, 512, 520>>
  BY DEF Ends
<1>2. /\ Fits("ucontext", Headers!Run("u32", 4), 0, 16)
      /\ Fits("ucontext", Headers!Run("word", 4), 16, 48)
      /\ Fits("ucontext", Headers!Run("u32", 8), 48, 80)
      /\ Fits("ucontext", Headers!Run("word", 34), 80, 352)
      /\ Fits("ucontext", Headers!Run("word", 1), 352, 360)
      /\ Fits("ucontext", Headers!Run("u32", 1), 360, 364)
      /\ Fits("ucontext", Headers!Run("word", 1), 364, 376)
      /\ Fits("ucontext", Headers!Run("word", 1), 376, 384)
      /\ Fits("ucontext", Headers!Run("word", 16), 384, 512)
      /\ Fits("ucontext", Headers!Named("word", -1, "uc_mcontext"), 512, 520)
  BY Widths64 DEF Fits, Headers!Up, Headers!Run, Headers!Named, Headers!Left
<1>3. Len(Headers!ucontext) = 10
  BY DEF Headers!ucontext
<1>4. F(1) /\ F(2) /\ F(3) /\ F(4) /\ F(5) /\ F(6) /\ F(7) /\ F(8) /\ F(9) /\ F(10)
  BY <1>1, <1>2 DEF Headers!ucontext, Headers!Word
<1> HIDE DEF F
<1>5. \A k \in 1..10 : F(k)
  BY <1>4
<1> QED
  BY <1>3, <1>5 DEF F, Placed

LEMMA Ucontext32Fits ==
  ASSUME target = "nt32", align64 \in {4, 8}
  PROVE  Placed("ucontext", Headers!ucontext)
<1> DEFINE F(k) == Fits("ucontext", Headers!ucontext[k], Ends("ucontext")[k], Ends("ucontext")[k + 1])
<1>1. Ends("ucontext") = <<0, 16, 32, 64, 200, 204, 208, 212, 216, 344, 348>>
  BY DEF Ends
<1>2. /\ Fits("ucontext", Headers!Run("u32", 4), 0, 16)
      /\ Fits("ucontext", Headers!Run("word", 4), 16, 32)
      /\ Fits("ucontext", Headers!Run("u32", 8), 32, 64)
      /\ Fits("ucontext", Headers!Run("word", 34), 64, 200)
      /\ Fits("ucontext", Headers!Run("word", 1), 200, 204)
      /\ Fits("ucontext", Headers!Run("u32", 1), 204, 208)
      /\ Fits("ucontext", Headers!Run("word", 1), 208, 212)
      /\ Fits("ucontext", Headers!Run("word", 1), 212, 216)
      /\ Fits("ucontext", Headers!Run("word", 32), 216, 344)
      /\ Fits("ucontext", Headers!Named("word", -1, "uc_mcontext"), 344, 348)
  BY Widths32 DEF Fits, Headers!Up, Headers!Run, Headers!Named, Headers!Left
<1>3. Len(Headers!ucontext) = 10
  BY DEF Headers!ucontext
<1>4. F(1) /\ F(2) /\ F(3) /\ F(4) /\ F(5) /\ F(6) /\ F(7) /\ F(8) /\ F(9) /\ F(10)
  BY <1>1, <1>2 DEF Headers!ucontext, Headers!Word
<1> HIDE DEF F
<1>5. \A k \in 1..10 : F(k)
  BY <1>4
<1> QED
  BY <1>3, <1>5 DEF F, Placed

LEMMA Fenv64Fits ==
  ASSUME target = "nt64"
  PROVE  Placed("fenv", Headers!fenv64)
<1> DEFINE F(k) == Fits("fenv", Headers!fenv64[k], Ends("fenv")[k], Ends("fenv")[k + 1])
<1>1. Ends("fenv") = <<0, 12, 16, 18, 20, 24, 28, 32>>
  BY DEF Ends
<1>2. /\ Fits("fenv", Headers!Run("u16", 6), 0, 12)
      /\ Fits("fenv", Headers!Run("u32", 1), 12, 16)
      /\ Fits("fenv", Headers!Run("u16", 1), 16, 18)
      /\ Fits("fenv", Headers!Run("u16", 1), 18, 20)
      /\ Fits("fenv", Headers!Run("u32", 1), 20, 24)
      /\ Fits("fenv", Headers!Run("u16", 2), 24, 28)
      /\ Fits("fenv", Headers!Named("u32", -1, "__mxcsr"), 28, 32)
  BY Widths64 DEF Fits, Headers!Up, Headers!Run, Headers!Named, Headers!Left
<1>3. Len(Headers!fenv64) = 7
  BY DEF Headers!fenv64
<1>4. F(1) /\ F(2) /\ F(3) /\ F(4) /\ F(5) /\ F(6) /\ F(7)
  BY <1>1, <1>2 DEF Headers!fenv64
<1> HIDE DEF F
<1>5. \A k \in 1..7 : F(k)
  BY <1>4
<1> QED
  BY <1>3, <1>5 DEF F, Placed

LEMMA Strace64Fits ==
  ASSUME target = "nt64"
  PROVE  Placed("strace", Headers!strace)
<1> DEFINE F(k) == Fits("strace", Headers!strace[k], Ends("strace")[k], Ends("strace")[k + 1])
<1>1. Ends("strace") = <<0, 16, 24, 88, 152, 280>>
  BY DEF Ends
<1>2. /\ Fits("strace", Headers!Run("word", 2), 0, 16)
      /\ Fits("strace", Headers!Run("u32", 2), 16, 24)
      /\ Fits("strace", Headers!Run("u32", 16), 24, 88)
      /\ Fits("strace", Headers!Run("u32", 16), 88, 152)
      /\ Fits("strace", Headers!Run("u32", 32), 152, 280)
  BY Widths64 DEF Fits, Headers!Up, Headers!Run, Headers!Left
<1>3. Len(Headers!strace) = 5
  BY DEF Headers!strace
<1>4. F(1) /\ F(2) /\ F(3) /\ F(4) /\ F(5)
  BY <1>1, <1>2 DEF Headers!strace
<1> HIDE DEF F
<1>5. \A k \in 1..5 : F(k)
  BY <1>4
<1> QED
  BY <1>3, <1>5 DEF F, Placed

LEMMA Strace32Fits ==
  ASSUME target = "nt32", align64 \in {4, 8}
  PROVE  Placed("strace", Headers!strace)
<1> DEFINE F(k) == Fits("strace", Headers!strace[k], Ends("strace")[k], Ends("strace")[k + 1])
<1>1. Ends("strace") = <<0, 8, 16, 80, 144, 272>>
  BY DEF Ends
<1>2. /\ Fits("strace", Headers!Run("word", 2), 0, 8)
      /\ Fits("strace", Headers!Run("u32", 2), 8, 16)
      /\ Fits("strace", Headers!Run("u32", 16), 16, 80)
      /\ Fits("strace", Headers!Run("u32", 16), 80, 144)
      /\ Fits("strace", Headers!Run("u32", 32), 144, 272)
  BY Widths32 DEF Fits, Headers!Up, Headers!Run, Headers!Left
<1>3. Len(Headers!strace) = 5
  BY DEF Headers!strace
<1>4. F(1) /\ F(2) /\ F(3) /\ F(4) /\ F(5)
  BY <1>1, <1>2 DEF Headers!strace
<1> HIDE DEF F
<1>5. \A k \in 1..5 : F(k)
  BY <1>4
<1> QED
  BY <1>3, <1>5 DEF F, Placed

LEMMA Erec64Fits ==
  ASSUME target = "nt64"
  PROVE  Placed("erec", Headers!erec)
<1> DEFINE F(k) == Fits("erec", Headers!erec[k], Ends("erec")[k], Ends("erec")[k + 1])
<1>1. Ends("erec") = <<0, 8, 24, 28, 152>>
  BY DEF Ends
<1>2. /\ Fits("erec", Headers!Run("u32", 2), 0, 8)
      /\ Fits("erec", Headers!Run("word", 2), 8, 24)
      /\ Fits("erec", Headers!Run("u32", 1), 24, 28)
      /\ Fits("erec", Headers!Run("word", 15), 28, 152)
  BY Widths64 DEF Fits, Headers!Up, Headers!Run, Headers!Left
<1>3. Len(Headers!erec) = 4
  BY DEF Headers!erec
<1>4. F(1) /\ F(2) /\ F(3) /\ F(4)
  BY <1>1, <1>2 DEF Headers!erec
<1> HIDE DEF F
<1>5. \A k \in 1..4 : F(k)
  BY <1>4
<1> QED
  BY <1>3, <1>5 DEF F, Placed

LEMMA Erec32Fits ==
  ASSUME target = "nt32", align64 \in {4, 8}
  PROVE  Placed("erec", Headers!erec)
<1> DEFINE F(k) == Fits("erec", Headers!erec[k], Ends("erec")[k], Ends("erec")[k + 1])
<1>1. Ends("erec") = <<0, 8, 16, 20, 80>>
  BY DEF Ends
<1>2. /\ Fits("erec", Headers!Run("u32", 2), 0, 8)
      /\ Fits("erec", Headers!Run("word", 2), 8, 16)
      /\ Fits("erec", Headers!Run("u32", 1), 16, 20)
      /\ Fits("erec", Headers!Run("word", 15), 20, 80)
  BY Widths32 DEF Fits, Headers!Up, Headers!Run, Headers!Left
<1>3. Len(Headers!erec) = 4
  BY DEF Headers!erec
<1>4. F(1) /\ F(2) /\ F(3) /\ F(4)
  BY <1>1, <1>2 DEF Headers!erec
<1> HIDE DEF F
<1>5. \A k \in 1..4 : F(k)
  BY <1>4
<1> QED
  BY <1>3, <1>5 DEF F, Placed

LEMMA DbgEvent64Fits ==
  ASSUME target = "nt64"
  PROVE  Placed("dbg_event", Headers!dbg_event)
<1> DEFINE F(k) == Fits("dbg_event", Headers!dbg_event[k], Ends("dbg_event")[k], Ends("dbg_event")[k + 1])
<1>1. Ends("dbg_event") = <<0, 16, 32, 64, 104, 128, 136, 144, 152, 208, 232, 264, 280,
             288, 320>>
  BY DEF Ends
<1>2. /\ Fits("dbg_event", Headers!Run("u32", 4), 0, 16)
      /\ Fits("dbg_event", Headers!Run("u64", 2), 16, 32)
      /\ Fits("dbg_event", Headers!Run("u32", 8), 32, 64)
      /\ Fits("dbg_event", Headers!Run("word", 5), 64, 104)
      /\ Fits("dbg_event", Headers!Run("word", 3), 104, 128)
      /\ Fits("dbg_event", Headers!Run("word", 1), 128, 136)
      /\ Fits("dbg_event", Headers!Run("u32", 2), 136, 144)
      /\ Fits("dbg_event", Headers!Run("u32", 2), 144, 152)
      /\ Fits("dbg_event", Headers!Run("word", 7), 152, 208)
      /\ Fits("dbg_event", Headers!Run("word", 3), 208, 232)
      /\ Fits("dbg_event", Headers!Run("word", 4), 232, 264)
      /\ Fits("dbg_event", Headers!Run("word", 2), 264, 280)
      /\ Fits("dbg_event", Headers!Run("u32", 2), 280, 288)
      /\ Fits("dbg_event", Headers!Run("word", 4), 288, 320)
  BY Widths64 DEF Fits, Headers!Up, Headers!Run, Headers!Left
<1>3. Len(Headers!dbg_event) = 14
  BY DEF Headers!dbg_event
<1>4. F(1) /\ F(2) /\ F(3) /\ F(4) /\ F(5) /\ F(6) /\ F(7) /\ F(8) /\ F(9) /\ F(10)
      /\ F(11) /\ F(12) /\ F(13) /\ F(14)
  BY <1>1, <1>2 DEF Headers!dbg_event
<1> HIDE DEF F
<1>5. \A k \in 1..14 : F(k)
  BY <1>4
<1> QED
  BY <1>3, <1>5 DEF F, Placed

LEMMA DbgEvent32Fits ==
  ASSUME target = "nt32", align64 \in {4, 8}
  PROVE  Placed("dbg_event", Headers!dbg_event)
<1> DEFINE F(k) == Fits("dbg_event", Headers!dbg_event[k], Ends("dbg_event")[k], Ends("dbg_event")[k + 1])
<1>1. Ends("dbg_event") = <<0, 16, 32, 64, 84, 96, 100, 108, 116, 144, 156, 172, 180,
             188, 204>>
  BY DEF Ends
<1>2. /\ Fits("dbg_event", Headers!Run("u32", 4), 0, 16)
      /\ Fits("dbg_event", Headers!Run("u64", 2), 16, 32)
      /\ Fits("dbg_event", Headers!Run("u32", 8), 32, 64)
      /\ Fits("dbg_event", Headers!Run("word", 5), 64, 84)
      /\ Fits("dbg_event", Headers!Run("word", 3), 84, 96)
      /\ Fits("dbg_event", Headers!Run("word", 1), 96, 100)
      /\ Fits("dbg_event", Headers!Run("u32", 2), 100, 108)
      /\ Fits("dbg_event", Headers!Run("u32", 2), 108, 116)
      /\ Fits("dbg_event", Headers!Run("word", 7), 116, 144)
      /\ Fits("dbg_event", Headers!Run("word", 3), 144, 156)
      /\ Fits("dbg_event", Headers!Run("word", 4), 156, 172)
      /\ Fits("dbg_event", Headers!Run("word", 2), 172, 180)
      /\ Fits("dbg_event", Headers!Run("u32", 2), 180, 188)
      /\ Fits("dbg_event", Headers!Run("word", 4), 188, 204)
  BY Widths32 DEF Fits, Headers!Up, Headers!Run, Headers!Left
<1>3. Len(Headers!dbg_event) = 14
  BY DEF Headers!dbg_event
<1>4. F(1) /\ F(2) /\ F(3) /\ F(4) /\ F(5) /\ F(6) /\ F(7) /\ F(8) /\ F(9) /\ F(10)
      /\ F(11) /\ F(12) /\ F(13) /\ F(14)
  BY <1>1, <1>2 DEF Headers!dbg_event
<1> HIDE DEF F
<1>5. \A k \in 1..14 : F(k)
  BY <1>4
<1> QED
  BY <1>3, <1>5 DEF F, Placed

LEMMA DbgModuleInfo64Fits ==
  ASSUME target = "nt64"
  PROVE  Placed("dbg_module_info", Headers!dbg_module_info)
<1> DEFINE F(k) == Fits("dbg_module_info", Headers!dbg_module_info[k], Ends("dbg_module_info")[k], Ends("dbg_module_info")[k + 1])
<1>1. Ends("dbg_module_info") = <<0, 32, 40, 56>>
  BY DEF Ends
<1>2. /\ Fits("dbg_module_info", Headers!Run("word", 4), 0, 32)
      /\ Fits("dbg_module_info", Headers!Run("u32", 2), 32, 40)
      /\ Fits("dbg_module_info", Headers!Run("u64", 2), 40, 56)
  BY Widths64 DEF Fits, Headers!Up, Headers!Run, Headers!Left
<1>3. Len(Headers!dbg_module_info) = 3
  BY DEF Headers!dbg_module_info
<1>4. F(1) /\ F(2) /\ F(3)
  BY <1>1, <1>2 DEF Headers!dbg_module_info
<1> HIDE DEF F
<1>5. \A k \in 1..3 : F(k)
  BY <1>4
<1> QED
  BY <1>3, <1>5 DEF F, Placed

LEMMA DbgModuleInfo32Fits ==
  ASSUME target = "nt32", align64 \in {4, 8}
  PROVE  Placed("dbg_module_info", Headers!dbg_module_info)
<1> DEFINE F(k) == Fits("dbg_module_info", Headers!dbg_module_info[k], Ends("dbg_module_info")[k], Ends("dbg_module_info")[k + 1])
<1>1. Ends("dbg_module_info") = <<0, 16, 24, 40>>
  BY DEF Ends
<1>2. /\ Fits("dbg_module_info", Headers!Run("word", 4), 0, 16)
      /\ Fits("dbg_module_info", Headers!Run("u32", 2), 16, 24)
      /\ Fits("dbg_module_info", Headers!Run("u64", 2), 24, 40)
  BY Widths32 DEF Fits, Headers!Up, Headers!Run, Headers!Left
<1>3. Len(Headers!dbg_module_info) = 3
  BY DEF Headers!dbg_module_info
<1>4. F(1) /\ F(2) /\ F(3)
  BY <1>1, <1>2 DEF Headers!dbg_module_info
<1> HIDE DEF F
<1>5. \A k \in 1..3 : F(k)
  BY <1>4
<1> QED
  BY <1>3, <1>5 DEF F, Placed

LEMMA PsxContext64Fits ==
  ASSUME target = "nt64"
  PROVE  Placed("psx_context", Headers!psx_context)
<1> DEFINE F(k) == Fits("psx_context", Headers!psx_context[k], Ends("psx_context")[k], Ends("psx_context")[k + 1])
<1>1. Ends("psx_context") = <<0, 8, 56, 64, 88>>
  BY DEF Ends
<1>2. /\ Fits("psx_context", Headers!Run("u32", 2), 0, 8)
      /\ Fits("psx_context", Headers!Run("word", 6), 8, 56)
      /\ Fits("psx_context", Headers!Run("u32", 2), 56, 64)
      /\ Fits("psx_context", Headers!Run("word", 3), 64, 88)
  BY Widths64 DEF Fits, Headers!Up, Headers!Run, Headers!Left
<1>3. Len(Headers!psx_context) = 4
  BY DEF Headers!psx_context
<1>4. F(1) /\ F(2) /\ F(3) /\ F(4)
  BY <1>1, <1>2 DEF Headers!psx_context
<1> HIDE DEF F
<1>5. \A k \in 1..4 : F(k)
  BY <1>4
<1> QED
  BY <1>3, <1>5 DEF F, Placed

LEMMA PsxContext32Fits ==
  ASSUME target = "nt32", align64 \in {4, 8}
  PROVE  Placed("psx_context", Headers!psx_context)
<1> DEFINE F(k) == Fits("psx_context", Headers!psx_context[k], Ends("psx_context")[k], Ends("psx_context")[k + 1])
<1>1. Ends("psx_context") = <<0, 8, 32, 40, 52>>
  BY DEF Ends
<1>2. /\ Fits("psx_context", Headers!Run("u32", 2), 0, 8)
      /\ Fits("psx_context", Headers!Run("word", 6), 8, 32)
      /\ Fits("psx_context", Headers!Run("u32", 2), 32, 40)
      /\ Fits("psx_context", Headers!Run("word", 3), 40, 52)
  BY Widths32 DEF Fits, Headers!Up, Headers!Run, Headers!Left
<1>3. Len(Headers!psx_context) = 4
  BY DEF Headers!psx_context
<1>4. F(1) /\ F(2) /\ F(3) /\ F(4)
  BY <1>1, <1>2 DEF Headers!psx_context
<1> HIDE DEF F
<1>5. \A k \in 1..4 : F(k)
  BY <1>4
<1> QED
  BY <1>3, <1>5 DEF F, Placed

LEMMA Kstat64Fits ==
  ASSUME target = "nt64"
  PROVE  Placed("kstat", Headers!kstat)
<1> DEFINE F(k) == Fits("kstat", Headers!kstat[k], Ends("kstat")[k], Ends("kstat")[k + 1])
<1>1. Ends("kstat") = <<0, 16, 24, 40, 48, 56, 64, 72, 120, 144>>
  BY DEF Ends
<1>2. /\ Fits("kstat", Headers!Run("u64", 2), 0, 16)
      /\ Fits("kstat", Headers!Run("word", 1), 16, 24)
      /\ Fits("kstat", Headers!Run("u32", 4), 24, 40)
      /\ Fits("kstat", Headers!Run("u64", 1), 40, 48)
      /\ Fits("kstat", Headers!Run("u64", 1), 48, 56)
      /\ Fits("kstat", Headers!Run("word", 1), 56, 64)
      /\ Fits("kstat", Headers!Run("u64", 1), 64, 72)
      /\ Fits("kstat", Headers!Run("u64", 6), 72, 120)
      /\ Fits("kstat", Headers!Run("word", 3), 120, 144)
  BY Widths64 DEF Fits, Headers!Up, Headers!Run, Headers!Left
<1>3. Len(Headers!kstat) = 9
  BY DEF Headers!kstat
<1>4. F(1) /\ F(2) /\ F(3) /\ F(4) /\ F(5) /\ F(6) /\ F(7) /\ F(8) /\ F(9)
  BY <1>1, <1>2 DEF Headers!kstat
<1> HIDE DEF F
<1>5. \A k \in 1..9 : F(k)
  BY <1>4
<1> QED
  BY <1>3, <1>5 DEF F, Placed

\* Every record is placed so, for either architecture and alignment.
LEMMA MembersFit ==
  ASSUME target \in {"nt64", "nt32"}, align64 \in {4, 8}, NEW r \in Headers!Records,
         r \in {"fenv", "kstat"} => target = "nt64"
  PROVE  Placed(r, Headers!Members(r))
<1>1. CASE target = "nt64"
  BY <1>1, Mcontext64Fits, Ucontext64Fits, Fenv64Fits, Strace64Fits, Erec64Fits,
     DbgEvent64Fits, DbgModuleInfo64Fits, PsxContext64Fits, Kstat64Fits
  DEF Headers!Members, Headers!Records
<1>2. CASE target = "nt32"
  BY <1>2, Mcontext32Fits, Ucontext32Fits, Strace32Fits, Erec32Fits,
     DbgEvent32Fits, DbgModuleInfo32Fits, PsxContext32Fits
  DEF Headers!Members, Headers!Records
<1> QED
  BY <1>1, <1>2

\* The members laid out so far end where the table has them.
LaidOut ==
  /\ offset \in Nat /\ offset = Ends(record)[done + 1]
  /\ offset >= done
  /\ largest \in {1, 2, 4, 8}
  /\ holes = Headers!Left(record, offset)

HeadersInv ==
  /\ target \in {"nt32", "nt64"} /\ align64 \in {4, 8}
  /\ record \in Headers!Records /\ (record \in {"fenv", "kstat"} => target = "nt64")
  /\ done \in 0..Len(Headers!Members(record))
  /\ LaidOut

\* A record begins at offset 0.
LEMMA StartsAtZero ==
  ASSUME target \in {"nt64", "nt32"}, NEW r \in Headers!Records,
         r \in {"fenv", "kstat"} => target = "nt64"
  PROVE  Ends(r)[1] = 0
BY DEF Ends, Headers!Records

\* A layout begins within the invariant.
LEMMA HeadersBegin == Headers!Init => HeadersInv
<1> SUFFICES ASSUME Headers!Init PROVE HeadersInv
  OBVIOUS
<1>1. target \in {"nt64", "nt32"} /\ align64 \in {4, 8} /\ record \in Headers!Records
  BY DEF Headers!Init
<1>2. record \in {"fenv", "kstat"} => target = "nt64"
  BY DEF Headers!Init
<1>3. Len(Headers!Members(record)) \in Nat
  BY <1>1, <1>2, MembersFit DEF Placed
<1>4. done = 0 /\ offset = 0 /\ largest = 1 /\ holes = 0
  BY DEF Headers!Init
<1>5. Ends(record)[done + 1] = 0 /\ Headers!Left(record, 0) = 0
  BY <1>1, <1>2, <1>4, StartsAtZero DEF Headers!Left
<1> QED
  BY <1>1, <1>2, <1>3, <1>4, <1>5 DEF HeadersInv, LaidOut

\* The run of members that comes next fits behind those laid out.
LEMMA NextFits ==
  ASSUME HeadersInv, done < Len(Headers!Members(record))
  PROVE  Fits(record, Headers!Upcoming, offset, Ends(record)[done + 2])
<1>1. Placed(record, Headers!Members(record))
  BY MembersFit DEF HeadersInv
<1>2. done + 1 \in 1..Len(Headers!Members(record)) /\ done + 1 + 1 = done + 2
  BY <1>1 DEF HeadersInv, Placed
<1> QED
  BY <1>1, <1>2 DEF HeadersInv, LaidOut, Placed, Headers!Upcoming

\* The next run goes where the list of ends says.
LEMMA HeadersStep == HeadersInv /\ [Headers!Next]_headersVars => HeadersInv'
<1> SUFFICES ASSUME HeadersInv, [Headers!Next]_headersVars PROVE HeadersInv'
  OBVIOUS
<1>1. CASE UNCHANGED headersVars
  BY <1>1 DEF headersVars, HeadersInv, LaidOut, Ends, Headers!Members, Headers!ucontext, Headers!Word,
              Headers!Left
<1>2. CASE Headers!Lay
  <2> DEFINE m == Headers!Upcoming
  <2>1. Fits(record, m, offset, Ends(record)[done + 2])
    BY <1>2, NextFits DEF Headers!Lay
  <2>2. UNCHANGED <<target, align64, record>> /\ done' = done + 1
    BY <1>2 DEF Headers!Lay
  <2>3. /\ offset' = Headers!Up(offset, AlignOf(m.type)) + m.n * SizeOf(m.type)
        /\ holes' = holes + Headers!Up(offset, AlignOf(m.type)) - offset
    BY <1>2 DEF Headers!Lay, Headers!Begins, AlignOf, SizeOf
  <2>4. offset' = Ends(record)[done + 2] /\ offset' \in Nat /\ offset < offset'
    BY <2>1, <2>3 DEF Fits
  <2>5. Headers!Members(record)' = Headers!Members(record) /\ Ends(record)' = Ends(record)
    BY <2>2 DEF Headers!Members, Ends, Headers!ucontext, Headers!Word
  <2>6. largest' \in {1, 2, 4, 8}
    BY <1>2, <2>1 DEF Headers!Lay, Fits, AlignOf, HeadersInv, LaidOut
  <2>7. holes' = Headers!Left(record, offset)'
    BY <2>1, <2>2, <2>3, <2>4 DEF Fits, HeadersInv, LaidOut, Headers!Left
  <2>8. Len(Headers!Members(record)) \in Nat /\ done' \in 0..Len(Headers!Members(record))
    BY <1>2, <2>2, MembersFit DEF Headers!Lay, HeadersInv, Placed
  <2>9. offset' >= done' /\ done' + 1 = done + 2
    BY <2>2, <2>4, <2>8 DEF HeadersInv, LaidOut
  <2> QED
    BY <2>2, <2>4, <2>5, <2>6, <2>7, <2>8, <2>9 DEF HeadersInv, LaidOut
<1> QED
  BY <1>1, <1>2 DEF Headers!Next

\* What the invariant says of offsets, holes and alignments.
LEMMA HeadersFollow == HeadersInv => Headers!LayoutsSound
<1> SUFFICES ASSUME HeadersInv PROVE Headers!LayoutsSound
  OBVIOUS
<1>1. Placed(record, Headers!Members(record))
  BY MembersFit DEF HeadersInv
<1>2. Headers!TypeOK
  <2>1. ASSUME done > 0
        PROVE  offset % Headers!Align(target, Headers!Members(record)[done].type) = 0
    <3>1. done \in 1..Len(Headers!Members(record))
      BY <1>1, <2>1 DEF HeadersInv, Placed
    <3>2. Fits(record, Headers!Members(record)[done], Ends(record)[done], offset)
      BY <1>1, <3>1 DEF HeadersInv, LaidOut, Placed
    <3> QED
      BY <3>2 DEF Fits, AlignOf
  <2> QED
    BY <2>1 DEF HeadersInv, LaidOut, Headers!TypeOK
<1>3. ASSUME done < Len(Headers!Members(record))
      PROVE  Fits(record, Headers!Upcoming, offset, Ends(record)[done + 2])
  BY <1>3, NextFits
<1>4. Headers!CommentsTell
  BY <1>3 DEF Headers!CommentsTell, Headers!Begins, Fits, AlignOf
<1>5. Headers!MxcsrIsMember
  BY <1>3 DEF Headers!MxcsrIsMember, Headers!Coming, Headers!Begins, Fits, AlignOf
<1>6. Headers!ContextIsAligned
  BY <1>3 DEF Headers!ContextIsAligned, Headers!Coming, Headers!Begins, Fits, AlignOf
<1>7. Headers!HolesKnown
  BY DEF Headers!HolesKnown, HeadersInv, LaidOut
<1>8. Headers!CancelFindsRip
  BY <1>3 DEF Headers!CancelFindsRip, Headers!Coming, Headers!Begins, Fits, AlignOf
<1> QED
  BY <1>2, <1>4, <1>5, <1>6, <1>7, <1>8 DEF Headers!LayoutsSound

\* In the records of Layouts, with either alignment of 64-bit integers: the members
\* of both contexts are where the comments say, the sse control word of nt64 where
\* fenv.S stores it, the context of nt64 on a 16-byte boundary, uc_rip at the word
\* that CANCEL_REG_IP of nt64 counts to, and no holes but the two of Left.
THEOREM LayoutsCorrect == MachineSpec => []LayoutsSound
<1>1. MachineInit => HeadersInv
  BY HeadersBegin DEF MachineInit
<1>2. HeadersInv /\ [MachineNext]_machineVars => HeadersInv'
  BY HeadersStep DEF MachineNext, machineVars, headersVars
<1>3. HeadersInv => LayoutsSound
  BY HeadersFollow DEF LayoutsSound
<1> QED
  BY <1>1, <1>2, <1>3, PTL DEF MachineSpec
=============================================================================

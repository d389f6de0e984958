----------------------------- MODULE MCMachine -----------------------------
(* Instances for TLC of what a thread has to do with the machine and the     *)
(* framework: the floating-point environment, the calls in assembly, system  *)
(* calls and the unwinder's, and the records they share.  They are           *)
(* independent: a behaviour is one of the part that Init chooses, and the    *)
(* other parts stay as they begin.                                           *)
EXTENDS Fenv, Integers, Sequences

CONSTANTS Entries, Values, Threads, Depths, Names, Absent, Results

VARIABLES
  part,
  arch, regs, mem, pc, deep, mask, armed, expected,                 \* NativeCalls
  errno, frames, stack, wild,                                       \* Syscalls
  target, align64, record, done, offset, largest, holes             \* Layouts

Native == INSTANCE NativeCalls WITH Calls <- Entries

\* All calls but dlsym of nt32, which has a run of its own (MCNativeCalls.cfg).
ButDlsymOfNt32 ==
  ({"nt32", "nt64"} \X {"setjmp", "sigsetjmp"}) \cup {<<"nt64", "dlsym">>}

Answers == INSTANCE Syscalls

\* What the framework returns: an error, the last value that is one, the first that
\* is not, a code of the system (0xC0000005) and a count.
Returned == {-2, -4095, -4096, -1073741819, 7}

Headers ==
  INSTANCE Layouts WITH
    Arches <- {"nt32", "nt64"}, Aligns64 <- {4, 8}, arch <- target

ASSUME MachineAssumption ==
  /\ Native!NativeCallsAssumption /\ <<"nt32", "dlsym">> \notin Entries
  /\ Answers!SyscallsAssumption
  /\ Headers!LayoutsAssumption

-----------------------------------------------------------------------------
nativeVars == <<arch, regs, mem, pc, deep, mask, armed, expected>>
answersVars == <<errno, frames, stack, wild>>
headersVars == <<target, align64, record, done, offset, largest, holes>>

MachineInit ==
  /\ part \in {"fenv", "native", "answers", "wrappers", "headers"}
  /\ Init
  /\ Native!Init /\ (part # "native" => arch = "nt64")
  /\ Answers!Init
  /\ Headers!Init /\ (part # "headers" => <<target, align64, record>> = <<"nt64", 8, "strace">>)

\* A record has all its members.
Over == part = "headers" /\ done = Len(Headers!Members(record))

\* The calls are looked at twice: a few of them from all threads and their
\* handlers, and all of them, with all answers, from one thread.
FewCalls ==
  \A t \in Threads : \A d \in DOMAIN frames[t] :
    frames[t][d].name \in {"realpath", "fs_rpath"} /\ frames[t][d].res \notin Results \ {-2}
OneThread ==
  \E t \in Threads : Len(frames[t]) <= 1 /\ \A u \in Threads \ {t} : frames[u] = <<>>

MachineNext ==
  /\ UNCHANGED part
  /\ \/ /\ part = "fenv" /\ Next
        /\ UNCHANGED <<nativeVars, answersVars, headersVars>>
     \/ /\ part = "native" /\ Native!Next
        /\ UNCHANGED <<vars, answersVars, headersVars>>
     \/ /\ part = "answers" /\ Answers!Next /\ FewCalls'
        /\ UNCHANGED <<vars, nativeVars, headersVars>>
     \/ /\ part = "wrappers" /\ Answers!Next /\ OneThread'
        /\ UNCHANGED <<vars, nativeVars, headersVars>>
     \/ /\ part = "headers" /\ Headers!Next
        /\ UNCHANGED <<vars, nativeVars, answersVars>>
     \/ /\ Over
        /\ UNCHANGED <<vars, nativeVars, answersVars, headersVars>>

machineVars == <<part, vars, nativeVars, answersVars, headersVars>>

MachineSpec == MachineInit /\ [][MachineNext]_machineVars

-----------------------------------------------------------------------------
\* setjmp, sigsetjmp and dlsym give the program back what was its own
\* (setjmp.s:19-33, longjmp.s:19-38, sigsetjmp.s:20-42, nt64 dlsym.s:13-14).
NativeSound == Native!CallsSound

\* The caller of a wrapper is told of its own call, and the framework is given
\* its arguments (syscall_arch.h:8-75, vtbl.c:20-33, realpath.c:14-41, unwind.c:15-153).
AnswersSound == Answers!AnswersSound

\* In the contexts, fenv_t, and the records of debug.h, psxglue.h and kstat.h, the
\* members that assembly, the framework and comments look for lie there, but for
\* the program counter of nt32 (LayoutsCancel.cfg), and the holes are known.
LayoutsSound == Headers!LayoutsSound
=============================================================================

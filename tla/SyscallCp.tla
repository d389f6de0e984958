----------------------------- MODULE SyscallCp -----------------------------
(***************************************************************************)
(* A cancellation point on nt64: __syscall_cp_asm of src/thread/nt64/      *)
(* syscall_cp.s, the jump through __syscall to __syscall_disp, and the     *)
(* table lookup of arch/nt64/syscall_arch.h.                               *)
(*                                                                         *)
(* One thread runs, instruction by instruction; another calls              *)
(* pthread_cancel, which sets self->cancel and then sends SIGCANCEL, in    *)
(* two steps.  The handler may run between any two instructions.  musl's   *)
(* handler, __cancel and __syscall_cp_c, and the framework's system calls, *)
(* are external.  Cancellation is deferred.                                *)
(***************************************************************************)
EXTENDS Naturals, Sequences

CONSTANT MaxCalls    (* bound: system calls in a behaviour                 *)

ASSUME MaxCallsAssumption == MaxCalls \in Nat

VARIABLES
  place,     (* what the thread is in                                      *)
  ip,        (* instruction of the window [__cp_begin, __cp_end)           *)
  loc,       (* argument and scratch registers, stack slots off rsp        *)
  entries,   (* whether the table has an entry for the call                *)
  disable,   (* self->canceldisable                                        *)
  request,   (* progress of the other thread's pthread_cancel              *)
  signal,    (* SIGCANCEL is outstanding                                   *)
  masked,    (* SIGCANCEL is blocked in the context of the thread          *)
  effect,    (* history: the call has acted                                *)
  entered,   (* history: self->cancel when the call began                  *)
  gap,       (* history: the handler ran between the window and the kernel *)
  calls      (* number of system calls begun                               *)

cancelVars == <<request, signal, masked>>
history == <<effect, entered, gap>>
cpVars == <<place, ip, loc, entries, disable, cancelVars, history, calls>>

Place == {"user", "window", "disp", "kernel", "cancel", "gone"}
Reg == {"rcx", "rdx", "r8", "r9", "rax", "r10", "s28", "s30", "s38", "s40"}
Value == {"ptr", "set", "clear", "nr", "u", "v", "w", "x", "y", "z", "junk"}

\* self->cancel
cancel == request # "none"

\* The moves follow the load and the test with its branch; the jump ends the window.
FirstMove == 2
JumpAt == FirstMove + 10

\* Where the Windows calling convention has
\* __syscall_cp_asm(&self->cancel, nr, u, v, w, x, y, z).
CpEntry == [rcx |-> "ptr", rdx |-> "nr", r8 |-> "u", r9 |-> "v", s28 |-> "w",
          s30 |-> "x", s38 |-> "y", s40 |-> "z", rax |-> "junk", r10 |-> "junk"]

\* Shape of the state.
CpTypeOK ==
  /\ place \in Place
  /\ ip \in 0 .. JumpAt
  /\ loc \in [Reg -> Value]
  /\ entries \in BOOLEAN
  /\ disable \in {"enable", "masked", "disable"}
  /\ request \in {"none", "flagged", "sent"}
  /\ signal \in BOOLEAN /\ masked \in BOOLEAN
  /\ effect \in BOOLEAN /\ entered \in BOOLEAN /\ gap \in BOOLEAN
  /\ calls \in 0 .. MaxCalls

CpInit ==
  /\ place = "user" /\ ip = 0 /\ loc = CpEntry
  /\ entries = TRUE
  /\ disable = "enable"
  /\ request = "none" /\ signal = FALSE /\ masked = FALSE
  /\ effect = FALSE /\ entered = FALSE /\ gap = FALSE
  /\ calls = 0

InWindow(n) == place = "window" /\ ip = n

-----------------------------------------------------------------------------
(* Instructions with a slip in them, for mutation runs.                    *)

\* another word than the flag is loaded
LoadOther ==
  /\ InWindow(0)
  /\ loc' = [loc EXCEPT !["rcx"] = "clear"]
  /\ ip' = 1
  /\ UNCHANGED <<place, entries, disable, cancelVars, history, calls>>

\* the water is moved to a full glass
MovesSwapped == <<
  <<"rdx", "r8">>, <<"rcx", "rdx">>, <<"r8", "r9">>, <<"r9", "s28">>,
  <<"rax", "s30">>, <<"s28", "rax">>,
  <<"r10", "s38">>, <<"s30", "r10">>,
  <<"r10", "s40">>, <<"s38", "r10">> >>

\* a call instead of a jump: the return address is in the window
JumpWithinWindow ==
  /\ InWindow(JumpAt)
  /\ effect' = entries
  /\ UNCHANGED <<place, ip, loc, entries, disable, cancelVars, entered, gap, calls>>

\* the flag is waited for
BranchSpins ==
  /\ InWindow(1)
  /\ IF loc["rcx"] = "set"
     THEN place' = "cancel" /\ ip' = 0
     ELSE place' = "window" /\ ip' = 0
  /\ UNCHANGED <<loc, entries, disable, cancelVars, history, calls>>

\* the branch is never taken
BranchFallsThrough ==
  /\ InWindow(1)
  /\ ip' = FirstMove
  /\ UNCHANGED <<place, loc, entries, disable, cancelVars, history, calls>>

-----------------------------------------------------------------------------
(* The code of this repository.                                            *)

\* The moves, destination first.
Moves == <<
  <<"rcx", "rdx">>, <<"rdx", "r8">>, <<"r8", "r9">>, <<"r9", "s28">>,
  <<"rax", "s30">>, <<"s28", "rax">>,
  <<"r10", "s38">>, <<"s30", "r10">>,
  <<"r10", "s40">>, <<"s38", "r10">> >>

\* movq (%rcx),%rcx
LoadFlag ==
  /\ InWindow(0)
  /\ loc' = [loc EXCEPT !["rcx"] = IF cancel THEN "set" ELSE "clear"]
  /\ ip' = 1
  /\ UNCHANGED <<place, entries, disable, cancelVars, history, calls>>

\* test %ecx,%ecx; jnz __cp_cancel
Branch ==
  /\ InWindow(1)
  /\ IF loc["rcx"] = "set"
     THEN place' = "cancel" /\ ip' = 0
     ELSE place' = "window" /\ ip' = FirstMove
  /\ UNCHANGED <<loc, entries, disable, cancelVars, history, calls>>

Move ==
  /\ place = "window" /\ ip \in FirstMove .. JumpAt - 1
  /\ LET move == Moves[ip - FirstMove + 1] IN
     loc' = [loc EXCEPT ![move[1]] = loc[move[2]]]
  /\ ip' = ip + 1
  /\ UNCHANGED <<place, entries, disable, cancelVars, history, calls>>

\* jmp __syscall, which is outside the window
Jump ==
  /\ InWindow(JumpAt)
  /\ place' = "disp" /\ ip' = 0
  /\ UNCHANGED <<loc, entries, disable, cancelVars, history, calls>>

\* sysfn ? sysfn(a1, ..., a6) : __syscall_alert(n)
Dispatch ==
  /\ place = "disp"
  /\ place' = IF entries THEN "kernel" ELSE "user"      (* -ENOSYS         *)
  /\ UNCHANGED <<ip, loc, entries, disable, cancelVars, history, calls>>

-----------------------------------------------------------------------------
(* The rest of the thread: the program, musl, the framework.               *)

\* __syscall_cp_c: a thread that disabled cancellation takes another way.
Call(there) ==
  /\ place = "user" /\ disable # "disable" /\ calls < MaxCalls
  /\ place' = "window" /\ ip' = 0 /\ loc' = CpEntry
  /\ entries' = there
  /\ effect' = FALSE /\ entered' = cancel /\ gap' = FALSE
  /\ calls' = calls + 1
  /\ UNCHANGED <<disable, cancelVars>>

SetCancelState(new) ==
  /\ place = "user" /\ disable # new
  /\ disable' = new
  /\ UNCHANGED <<place, ip, loc, entries, cancelVars, history, calls>>

\* The call acts once and may take for ever to do so.
KernelActs ==
  /\ place = "kernel" /\ ~effect
  /\ effect' = TRUE
  /\ UNCHANGED <<place, ip, loc, entries, disable, cancelVars, entered, gap, calls>>

KernelReturns ==
  /\ place = "kernel" /\ effect
  /\ place' = "user"
  /\ UNCHANGED <<ip, loc, entries, disable, cancelVars, history, calls>>

\* A signal ends a call that has not acted: the handler finds rip outside of the
\* window and sends the signal again; -EINTR and the flag lead to __cancel.
KernelInterrupted ==
  /\ place = "kernel" /\ ~effect
  /\ signal /\ ~masked
  /\ masked' = TRUE
  /\ place' = "cancel"
  /\ UNCHANGED <<ip, loc, entries, disable, request, signal, history, calls>>

\* __cancel
CpCancel ==
  /\ place = "cancel"
  /\ IF disable = "enable"
     THEN place' = "gone" /\ UNCHANGED disable
     ELSE place' = "user" /\ disable' = "disable"       (* -ECANCELED      *)
  /\ UNCHANGED <<ip, loc, entries, cancelVars, history, calls>>

\* pthread_cancel in the other thread
SetFlag ==
  /\ request = "none" /\ place # "gone"
  /\ request' = "flagged"
  /\ UNCHANGED <<place, ip, loc, entries, disable, signal, masked, history, calls>>

SendSignal ==
  /\ request = "flagged" /\ place # "gone"
  /\ request' = "sent" /\ signal' = TRUE
  /\ UNCHANGED <<place, ip, loc, entries, disable, masked, history, calls>>

\* The handler, anywhere but in the kernel.
Handler ==
  /\ signal /\ ~masked /\ place \notin {"kernel", "gone"}
  /\ IF disable = "disable"
     THEN signal' = FALSE /\ UNCHANGED <<place, ip, masked, gap>>
     ELSE /\ masked' = TRUE
          /\ IF place = "window"
             THEN place' = "cancel" /\ ip' = 0 /\ signal' = FALSE /\ UNCHANGED gap
             ELSE gap' = (gap \/ place = "disp") /\ UNCHANGED <<place, ip, signal>>
  /\ UNCHANGED <<loc, entries, disable, request, effect, entered, calls>>

\* The thread has exited.
Over == place = "gone" /\ UNCHANGED cpVars

Cp == LoadFlag \/ Branch \/ Move \/ Jump \/ Dispatch

CpNext ==
  \/ Cp
  \/ \E there \in BOOLEAN : Call(there)
  \/ \E new \in {"enable", "masked", "disable"} : SetCancelState(new)
  \/ KernelActs \/ KernelReturns \/ KernelInterrupted \/ CpCancel
  \/ SetFlag \/ SendSignal \/ Handler \/ Over

\* The thread is scheduled.  The system call itself need not return.
CpFairness == WF_cpVars(Cp) /\ WF_cpVars(CpCancel) /\ WF_cpVars(KernelInterrupted)

CpSpec == CpInit /\ [][CpNext]_cpVars /\ CpFairness

-----------------------------------------------------------------------------
(* Properties.                                                             *)

\* The call gets its number and six arguments where the calling convention of
\* __syscall_disp has them, through moves that overwrite each other's sources.
ArgsInOrder ==
  place \in {"disp", "kernel"} =>
    /\ loc["rcx"] = "nr" /\ loc["rdx"] = "u" /\ loc["r8"] = "v" /\ loc["r9"] = "w"
    /\ loc["s28"] = "x" /\ loc["s30"] = "y" /\ loc["s38"] = "z"

\* A thread on its way to __cancel has not done what the call is for: the
\* window ends before the call can act.
CancelledWithoutEffect == place = "cancel" => ~effect

\* A request that was there before the call began keeps it from being made
\* ("thread is pending cancellation"), whether its signal has arrived or not.
RequestKeepsFromCall == entered => place \notin {"disp", "kernel"}

\* A thread with a request does not wait in the kernel with the signal blocked,
\* except if the handler ran in the few instructions between the window and
\* the kernel, which the window does not cover.
DeafOnlyFromGap == place = "kernel" /\ cancel /\ masked => gap

\* Whoever begins the sequence ends it: in the kernel, cancelled, or back with
\* an error.
WindowIsLeft == place = "window" ~> place \in {"kernel", "user", "gone"}

-----------------------------------------------------------------------------
(* The inductive invariant behind the safety properties (SyscallCpProofs). *)

\* Slots that a move has filled, and the ones still to be read, after the moves
\* before n.
Shuffled(n) ==
  /\ n > FirstMove => loc["rcx"] = "nr"
  /\ loc["rdx"] = IF n > FirstMove + 1 THEN "u" ELSE "nr"
  /\ loc["r8"] = IF n > FirstMove + 2 THEN "v" ELSE "u"
  /\ loc["r9"] = IF n > FirstMove + 3 THEN "w" ELSE "v"
  /\ n > FirstMove + 4 /\ n <= FirstMove + 6 => loc["rax"] = "x"
  /\ loc["s28"] = IF n > FirstMove + 5 THEN "x" ELSE "w"
  /\ n > FirstMove + 6 /\ n <= FirstMove + 8 => loc["r10"] = "y"
  /\ loc["s30"] = IF n > FirstMove + 7 THEN "y" ELSE "x"
  /\ n > FirstMove + 8 => loc["r10"] = "z"
  /\ loc["s38"] = IF n > FirstMove + 9 THEN "z" ELSE "y"
  /\ loc["s40"] = "z"

WindowShape ==
  /\ place = "window" => Shuffled(ip)
  /\ place \in {"window", "disp"} => ~effect

\* The flag was clear when it was loaded, so it was when the call began.
FlagSeen ==
  /\ entered => cancel
  /\ place = "window" /\ ip = 1 /\ entered => loc["rcx"] = "set"
  /\ place = "window" /\ ip >= FirstMove => ~entered

\* In the window the signal is blocked only if the request is older than the
\* call: a handler that runs there leaves for __cancel.
BlockedBefore ==
  /\ signal \/ masked => cancel
  /\ place \in {"window", "disp"} /\ masked /\ ~gap => entered
  /\ place \in {"window", "disp", "kernel"} => disable # "disable"

CpInv == /\ CpTypeOK /\ WindowShape /\ FlagSeen /\ BlockedBefore
        /\ ArgsInOrder /\ CancelledWithoutEffect /\ RequestKeepsFromCall
        /\ DeafOnlyFromGap

=============================================================================

------------------------------ MODULE Dynlink ------------------------------
(***************************************************************************)
(* The locking of dlopen, __dldopen and __dlsopen in                       *)
(* src/ldso/nt64/dynlink.c (src/ldso/nt32/dynlink.c is the same file).     *)
(*                                                                         *)
(* All three run the same steps: disable cancellation, write-lock          *)
(* __ldso_lock, inhibit pthread_create, call the framework loader through  *)
(* __ldso_vtbl, undo the two locks, run the global constructors of what    *)
(* was loaded, restore the cancellation state.  Constructors are arbitrary *)
(* user code: they may call dlopen again, create threads, toggle their     *)
(* cancellation state and be cancelled.  Each thread therefore has a stack *)
(* of activation records, indexed by 1..depth[t].                          *)
(*                                                                         *)
(* The calls that dynlink.c forwards to __ldso_vtbl without taking a lock  *)
(* (dlopen(NULL), dlsym, dlclose, dladdr, dlinfo, dlerror) change no state *)
(* of this module and are not actions of it.                               *)
(***************************************************************************)
EXTENDS Naturals

CONSTANTS
  Thread,    (* pthreads of the process                                    *)
  Lib,       (* libraries the loader can map                               *)
  NoThread,  (* owner of a free lock                                       *)
  NoLib,     (* the null base address                                      *)
  MaxDepth,  (* bound: nesting of dlopen within constructors               *)
  MaxCalls   (* bound: dlopen and pthread_create calls in a behaviour      *)

ASSUME ConstantsAssumption ==
  /\ NoThread \notin Thread
  /\ NoLib \notin Lib
  /\ MaxDepth \in Nat \ {0}
  /\ MaxCalls \in Nat

VARIABLES
  status,    (* life cycle of a thread; "creating" and "spawning" are the  *)
             (* two stages of musl's pthread_create                        *)
  cancel,    (* cancelability state of a thread                            *)
  pending,   (* threads with an undelivered cancellation request           *)
  ldsoLock,  (* __ldso_lock, which is only ever write-locked               *)
  ptcWriter, (* the thread that inhibits pthread_create                    *)
  depth,     (* activations of dlopen on a thread's stack                  *)
  pc,        (* next step of an activation                                 *)
  saved,     (* the local variable cs of an activation                     *)
  base,      (* the local variable base of an activation                   *)
  entry,     (* history: cancelability state when the activation began     *)
  loaded,    (* libraries the loader has mapped                            *)
  uninit,    (* mapped libraries whose constructors nobody has taken up    *)
  calls      (* number of bounded calls made so far                        *)

threadVars == <<status, cancel, pending>>
lockVars   == <<ldsoLock, ptcWriter>>
libVars    == <<loaded, uninit>>
vars == <<threadVars, lockVars, depth, pc, saved, base, entry, libVars, calls>>

CancelState == {"enabled", "disabled"}
Status == {"unborn", "running", "creating", "spawning", "exited"}
Step == {"none", "disable", "wrlock", "inhibit", "open", "release", "unlock",
         "claim", "ctors", "restore", "return"}
Activation == 1 .. MaxDepth

-----------------------------------------------------------------------------
(* Where a thread is.                                                      *)

At(t, step) == /\ status[t] = "running"
               /\ depth[t] > 0
               /\ pc[t][depth[t]] = step

\* The program's own code: outside any dlopen, or in a constructor.
InUserCode(t) == /\ status[t] = "running"
                 /\ depth[t] > 0 => pc[t][depth[t]] = "ctors"

Goto(t, step) == pc' = [pc EXCEPT ![t][depth[t]] = step]

\* pthread_create holds the read side of the lock __inhibit_ptc write-locks.
NoPtcReader == \A t \in Thread : status[t] # "spawning"

TypeOK ==
  /\ status \in [Thread -> Status]
  /\ cancel \in [Thread -> CancelState]
  /\ pending \subseteq Thread
  /\ ldsoLock \in Thread \cup {NoThread}
  /\ ptcWriter \in Thread \cup {NoThread}
  /\ depth \in [Thread -> 0 .. MaxDepth]
  /\ pc \in [Thread -> [Activation -> Step]]
  /\ saved \in [Thread -> [Activation -> CancelState]]
  /\ base \in [Thread -> [Activation -> Lib \cup {NoLib}]]
  /\ entry \in [Thread -> [Activation -> CancelState]]
  /\ loaded \subseteq Lib
  /\ uninit \subseteq loaded
  /\ calls \in 0 .. MaxCalls

Init ==
  /\ \E main \in Thread :
       status = [t \in Thread |-> IF t = main THEN "running" ELSE "unborn"]
  /\ cancel = [t \in Thread |-> "enabled"]
  /\ pending = {}
  /\ ldsoLock = NoThread
  /\ ptcWriter = NoThread
  /\ depth = [t \in Thread |-> 0]
  /\ pc = [t \in Thread |-> [d \in Activation |-> "none"]]
  /\ saved = [t \in Thread |-> [d \in Activation |-> "enabled"]]
  /\ base = [t \in Thread |-> [d \in Activation |-> NoLib]]
  /\ entry = [t \in Thread |-> [d \in Activation |-> "enabled"]]
  /\ loaded = {}
  /\ uninit = {}
  /\ calls = 0

-----------------------------------------------------------------------------
(* Steps with a slip in them, for mutation runs; no action of this module. *)

\* the lock is taken without waiting for it
WrLockNoWait(t) ==
  /\ At(t, "wrlock")
  /\ ldsoLock' = t
  /\ Goto(t, "inhibit")
  /\ UNCHANGED <<threadVars, ptcWriter, depth, saved, base, entry, libVars, calls>>

\* cs is read after the state has changed
DisableThenSave(t) ==
  /\ At(t, "disable")
  /\ saved' = [saved EXCEPT ![t][depth[t]] = "disabled"]
  /\ cancel' = [cancel EXCEPT ![t] = "disabled"]
  /\ Goto(t, "wrlock")
  /\ UNCHANGED <<status, pending, lockVars, depth, base, entry, libVars, calls>>

\* the prolog leaves cancellation alone
SaveOnly(t) ==
  /\ At(t, "disable")
  /\ saved' = [saved EXCEPT ![t][depth[t]] = cancel[t]]
  /\ Goto(t, "wrlock")
  /\ UNCHANGED <<threadVars, lockVars, depth, base, entry, libVars, calls>>

\* a failed open keeps pthread_create inhibited
ReleasePtcIfOpened(t) ==
  /\ At(t, "release")
  /\ ptcWriter' = IF base[t][depth[t]] # NoLib THEN NoThread ELSE t
  /\ Goto(t, "unlock")
  /\ UNCHANGED <<threadVars, ldsoLock, depth, saved, base, entry, libVars, calls>>

\* a failed open keeps the lock
UnlockIfOpened(t) ==
  /\ At(t, "unlock")
  /\ ldsoLock' = IF base[t][depth[t]] # NoLib THEN NoThread ELSE t
  /\ Goto(t, IF base[t][depth[t]] # NoLib THEN "claim" ELSE "restore")
  /\ UNCHANGED <<threadVars, ptcWriter, depth, saved, base, entry, libVars, calls>>

\* the constructors run under the lock
UnlockIfFailed(t) ==
  /\ At(t, "unlock")
  /\ ldsoLock' = IF base[t][depth[t]] # NoLib THEN t ELSE NoThread
  /\ Goto(t, IF base[t][depth[t]] # NoLib THEN "claim" ELSE "restore")
  /\ UNCHANGED <<threadVars, ptcWriter, depth, saved, base, entry, libVars, calls>>

-----------------------------------------------------------------------------
(* dlopen(file, mode) with a file name, __dldopen, __dlsopen.              *)

Call(t) ==
  /\ InUserCode(t)
  /\ depth[t] < MaxDepth
  /\ calls < MaxCalls
  /\ calls' = calls + 1
  /\ depth' = [depth EXCEPT ![t] = depth[t] + 1]
  /\ pc' = [pc EXCEPT ![t][depth[t] + 1] = "disable"]
  /\ entry' = [entry EXCEPT ![t][depth[t] + 1] = cancel[t]]
  /\ UNCHANGED <<threadVars, lockVars, saved, base, libVars>>

\* pthread_setcancelstate(PTHREAD_CANCEL_DISABLE, &cs)
DisableCancel(t) ==
  /\ At(t, "disable")
  /\ saved' = [saved EXCEPT ![t][depth[t]] = cancel[t]]
  /\ cancel' = [cancel EXCEPT ![t] = "disabled"]
  /\ Goto(t, "wrlock")
  /\ UNCHANGED <<status, pending, lockVars, depth, base, entry, libVars, calls>>

\* pthread_rwlock_wrlock(&__ldso_lock)
WrLock(t) ==
  /\ At(t, "wrlock")
  /\ ldsoLock = NoThread
  /\ ldsoLock' = t
  /\ Goto(t, "inhibit")
  /\ UNCHANGED <<threadVars, ptcWriter, depth, saved, base, entry, libVars, calls>>

\* __inhibit_ptc()
InhibitPtc(t) ==
  /\ At(t, "inhibit")
  /\ ptcWriter = NoThread
  /\ NoPtcReader
  /\ ptcWriter' = t
  /\ Goto(t, "open")
  /\ UNCHANGED <<threadVars, ldsoLock, depth, saved, base, entry, libVars, calls>>

\* The call of the loader, which takes place while the thread is at "open".
\* NoLib is the null base of a failed call and, in dlopen, of a failed
\* allocation of the path vector, when the loader is not called.
LoaderOpen(t, lib) ==
  /\ At(t, "open")
  /\ base' = [base EXCEPT ![t][depth[t]] = lib]
  /\ loaded' = loaded \cup ({lib} \ {NoLib})
  /\ uninit' = uninit \cup ({lib} \ (loaded \cup {NoLib}))
  /\ Goto(t, "release")
  /\ UNCHANGED <<threadVars, lockVars, depth, saved, entry, calls>>

\* __release_ptc()
ReleasePtc(t) ==
  /\ At(t, "release")
  /\ ptcWriter' = NoThread
  /\ Goto(t, "unlock")
  /\ UNCHANGED <<threadVars, ldsoLock, depth, saved, base, entry, libVars, calls>>

\* pthread_rwlock_unlock(&__ldso_lock), and the test of base that follows
Unlock(t) ==
  /\ At(t, "unlock")
  /\ ldsoLock' = NoThread
  /\ Goto(t, IF base[t][depth[t]] # NoLib THEN "claim" ELSE "restore")
  /\ UNCHANGED <<threadVars, ptcWriter, depth, saved, base, entry, libVars, calls>>

\* Entry of __psx_vtbl->do_global_ctors_fn(): no argument says what was
\* opened, so it takes up whatever constructors are outstanding.
RunCtors(t) ==
  /\ At(t, "claim")
  /\ uninit' = {}
  /\ Goto(t, "ctors")
  /\ UNCHANGED <<threadVars, lockVars, depth, saved, base, entry, loaded, calls>>

CtorsReturn(t) ==
  /\ At(t, "ctors")
  /\ Goto(t, "restore")
  /\ UNCHANGED <<threadVars, lockVars, depth, saved, base, entry, libVars, calls>>

\* pthread_setcancelstate(cs, 0)
RestoreCancel(t) ==
  /\ At(t, "restore")
  /\ cancel' = [cancel EXCEPT ![t] = saved[t][depth[t]]]
  /\ Goto(t, "return")
  /\ UNCHANGED <<status, pending, lockVars, depth, saved, base, entry, libVars, calls>>

\* return base
Return(t) ==
  /\ At(t, "return")
  /\ depth' = [depth EXCEPT ![t] = depth[t] - 1]
  /\ pc' = [pc EXCEPT ![t][depth[t]] = "none"]
  /\ saved' = [saved EXCEPT ![t][depth[t]] = "enabled"]
  /\ base' = [base EXCEPT ![t][depth[t]] = NoLib]
  /\ entry' = [entry EXCEPT ![t][depth[t]] = "enabled"]
  /\ UNCHANGED <<threadVars, lockVars, libVars, calls>>

-----------------------------------------------------------------------------
(* What the program and musl do around it.                                 *)

\* pthread_create, up to __acquire_ptc
CreateCall(t) ==
  /\ InUserCode(t)
  /\ calls < MaxCalls
  /\ calls' = calls + 1
  /\ status' = [status EXCEPT ![t] = "creating"]
  /\ UNCHANGED <<cancel, pending, lockVars, depth, pc, saved, base, entry, libVars>>

AcquirePtc(t) ==
  /\ status[t] = "creating"
  /\ ptcWriter = NoThread
  /\ status' = [status EXCEPT ![t] = "spawning"]
  /\ UNCHANGED <<cancel, pending, lockVars, depth, pc, saved, base, entry, libVars,
                 calls>>

\* The thread exists when clone returns, and the creator lets go of the lock.
Spawn(t, u) ==
  /\ status[t] = "spawning"
  /\ status[u] = "unborn"
  /\ status' = [status EXCEPT ![t] = "running", ![u] = "running"]
  /\ UNCHANGED <<cancel, pending, lockVars, depth, pc, saved, base, entry, libVars,
                 calls>>

SpawnFails(t) ==
  /\ status[t] = "spawning"
  /\ status' = [status EXCEPT ![t] = "running"]
  /\ UNCHANGED <<cancel, pending, lockVars, depth, pc, saved, base, entry, libVars,
                 calls>>

SetCancelState(t, state) ==
  /\ InUserCode(t)
  /\ cancel[t] # state
  /\ cancel' = [cancel EXCEPT ![t] = state]
  /\ UNCHANGED <<status, pending, lockVars, depth, pc, saved, base, entry, libVars,
                 calls>>

CancelRequest(t) ==
  /\ status[t] \notin {"unborn", "exited"}
  /\ t \notin pending
  /\ pending' = pending \cup {t}
  /\ UNCHANGED <<status, cancel, lockVars, depth, pc, saved, base, entry, libVars,
                 calls>>

\* Asynchronous cancelability is the worst case: the thread may go between
\* any two steps at which its state is enabled.
ActOnCancel(t) ==
  /\ status[t] = "running"
  /\ cancel[t] = "enabled"
  /\ t \in pending
  /\ status' = [status EXCEPT ![t] = "exited"]
  /\ UNCHANGED <<cancel, pending, lockVars, depth, pc, saved, base, entry, libVars,
                 calls>>

\* pthread_exit, from the start routine or from a constructor
Exit(t) ==
  /\ InUserCode(t)
  /\ status' = [status EXCEPT ![t] = "exited"]
  /\ UNCHANGED <<cancel, pending, lockVars, depth, pc, saved, base, entry, libVars,
                 calls>>

-----------------------------------------------------------------------------

Opening(t) ==
  \/ Call(t) \/ DisableCancel(t) \/ WrLock(t) \/ InhibitPtc(t)
  \/ \E lib \in Lib \cup {NoLib} : LoaderOpen(t, lib)
  \/ ReleasePtc(t) \/ Unlock(t) \/ RunCtors(t) \/ CtorsReturn(t)
  \/ RestoreCancel(t) \/ Return(t)

Environment(t) ==
  \/ CreateCall(t) \/ AcquirePtc(t) \/ SpawnFails(t)
  \/ \E u \in Thread : Spawn(t, u)
  \/ \E state \in CancelState : SetCancelState(t, state)
  \/ CancelRequest(t) \/ ActOnCancel(t) \/ Exit(t)

\* The process is over when no thread is left.
Over == /\ \A t \in Thread : status[t] \in {"unborn", "exited"}
        /\ UNCHANGED vars

Next == (\E t \in Thread : Opening(t) \/ Environment(t)) \/ Over

Spec == Init /\ [][Next]_vars

\* The scheduler runs every thread that can take its next step; the loader
\* and the constructors come back; clone comes back, with a thread or not.
\* Nothing obliges the program to call, to cancel or to exit.
Progress(t) ==
  \/ DisableCancel(t) \/ WrLock(t) \/ InhibitPtc(t)
  \/ \E lib \in Lib \cup {NoLib} : LoaderOpen(t, lib)
  \/ ReleasePtc(t) \/ Unlock(t) \/ RunCtors(t) \/ CtorsReturn(t)
  \/ RestoreCancel(t) \/ Return(t)
  \/ AcquirePtc(t) \/ SpawnFails(t) \/ (\E u \in Thread : Spawn(t, u))

FairSpec == Spec /\ \A t \in Thread : WF_vars(Progress(t))

-----------------------------------------------------------------------------
(* Properties.                                                             *)

\* The framework loader is entered through an open call by at most one thread
\* at a time, and that thread has __ldso_lock and inhibits pthread_create.
OpenExclusive ==
  \A t \in Thread : At(t, "open") =>
    /\ ldsoLock = t
    /\ ptcWriter = t
    /\ \A u \in Thread \ {t} : ~At(u, "open")

\* Whoever runs program code, waits in pthread_create or is gone has neither
\* lock: a constructor that calls dlopen cannot wait for its own thread, and a
\* cancelled thread leaves nothing locked.
UserCodeHoldsNoLock ==
  \A t \in Thread :
    InUserCode(t) \/ status[t] \in {"creating", "spawning", "exited"} =>
      t \notin {ldsoLock, ptcWriter}

\* A call comes back with the cancelability state it was entered with,
\* whatever the constructors, and the calls nested in them, did to it.
CancelStateRestored ==
  \A t \in Thread : At(t, "return") => cancel[t] = entry[t][depth[t]]

\* No call returns the base of a library whose constructors nobody took up.
HandleInitialised ==
  \A t \in Thread : At(t, "return") => base[t][depth[t]] \notin uninit

\* No thread comes to life while the loader is at work (the loader lays out
\* the TLS of the threads that exist, see __inhibit_ptc).
NoBirthDuringOpen ==
  [][\A u \in Thread : status[u] = "unborn" /\ status'[u] # "unborn" =>
       \A t \in Thread : ~At(t, "open")]_vars

\* Every open call returns, or its thread is cancelled or exits.
CallReturns ==
  \A t \in Thread : depth[t] > 0 ~> depth[t] = 0 \/ status[t] = "exited"

\* A pthread_create held up by an open call gets through.
CreateReturns ==
  \A t \in Thread : status[t] = "creating" ~> status[t] \in {"running", "exited"}

\* What the open calls promise to the rest of the process.
Monitor == INSTANCE LoaderMonitor WITH
  alive <- {t \in Thread : status[t] \in {"running", "creating", "spawning"}},
  dead <- {t \in Thread : status[t] = "exited"},
  opener <- ptcWriter

MonitorSpec == Monitor!Spec

-----------------------------------------------------------------------------
(* The inductive invariant behind the safety properties (DynlinkProofs).   *)

Locked == {"inhibit", "open", "release", "unlock"}
Uncancelable == {"wrlock", "claim"} \cup Locked

\* Only the youngest activation moves: the others wait for their constructors.
StackShape ==
  \A t \in Thread :
    /\ \A d \in Activation : d < depth[t] => pc[t][d] = "ctors"
    /\ status[t] = "unborn" => depth[t] = 0
    /\ status[t] \in {"creating", "spawning"} /\ depth[t] > 0 =>
         pc[t][depth[t]] = "ctors"

\* The locks are owned exactly over the stretch of code between taking and
\* releasing them.
LockOwners ==
  \A t \in Thread :
    /\ ldsoLock = t <=> \E step \in Locked : At(t, step)
    /\ ptcWriter = t <=> At(t, "open") \/ At(t, "release")

PtcExclusion == ptcWriter # NoThread => NoPtcReader

CancelOff ==
  \A t \in Thread : \A step \in Uncancelable :
    At(t, step) => cancel[t] = "disabled"

SavedIsEntry ==
  \A t \in Thread :
    /\ At(t, "disable") => cancel[t] = entry[t][depth[t]]
    /\ At(t, "return") => cancel[t] = entry[t][depth[t]]
    /\ \A d \in Activation :
         d <= depth[t] /\ pc[t][d] # "disable" => saved[t][d] = entry[t][d]

CtorsTakenUp ==
  \A t \in Thread : \A d \in Activation :
    /\ base[t][d] \in loaded \cup {NoLib}
    /\ d <= depth[t] /\ pc[t][d] \in {"ctors", "restore", "return"} =>
         base[t][d] \notin uninit

IInv == /\ TypeOK /\ StackShape /\ LockOwners /\ PtcExclusion
        /\ CancelOff /\ SavedIsEntry /\ CtorsTakenUp

=============================================================================

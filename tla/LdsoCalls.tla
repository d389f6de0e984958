------------------------------ MODULE LdsoCalls ------------------------------
(***************************************************************************)
(* The calls of src/ldso/nt32/dynlink.c against each other and against     *)
(* fork: the three that open a library and take __ldso_lock (their steps   *)
(* are those of Dynlink, without cancellation and nesting), and those that *)
(* are handed to the framework's table as they come: dlclose, dlsym,       *)
(* dladdr, dlinfo, dlerror and dlopen(0).  The nt64 file is the same.      *)
(*                                                                         *)
(* After a fork the child is followed: it has the thread that called fork, *)
(* and the memory of the parent, __ldso_lock and the library tables with   *)
(* it.  dynlink.c has no handler for fork.                                 *)
(*                                                                         *)
(* External: the framework, which counts the opens of a library, and the   *)
(* program, whose threads close what they have opened.                     *)
(***************************************************************************)
EXTENDS Integers

CONSTANTS
  Threads,
  Libs,
  Nobody,   \* owner of a free lock
  NoLib,    \* the null base
  MaxOpens  \* bound: calls that open, in a behaviour

LdsoCallsAssumption ==
  Nobody \notin Threads /\ NoLib \notin Libs /\ MaxOpens \in Nat

VARIABLES
  alive,    \* the threads of the process
  pc,       \* where each is
  base,     \* what its open has found
  ldsoLock, \* the owner of __ldso_lock
  refs,     \* the count that the framework keeps for a library
  ctors,    \* "none", "due", "running" or "done", for each library
  running_ctors, \* the libraries whose constructors a thread runs
  owned,    \* the handles of each thread: a count for each library
  opens,    \* opens so far
  info,     \* what the last dlinfo returned
  orphaned, \* after a fork: where the owner of the lock was in the parent
  lost      \* after a fork: the libraries whose constructors were under way

threadVars == <<alive, pc, base, running_ctors, owned>>
libVars == <<refs, ctors>>
forkVars == <<orphaned, lost>>
vars == <<threadVars, ldsoLock, libVars, opens, info, forkVars>>

Go(t, p) == pc' = [pc EXCEPT ![t] = p]
At(t, p) == t \in alive /\ pc[t] = p

\* The program runs: outside of the calls, or in a constructor.
InUserCode(t) == t \in alive /\ pc[t] \in {"user", "ctors"}

Init ==
  /\ alive = Threads
  /\ pc = [t \in Threads |-> "user"]
  /\ base = [t \in Threads |-> NoLib]
  /\ ldsoLock = Nobody
  /\ refs = [l \in Libs |-> 0]
  /\ ctors = [l \in Libs |-> "none"]
  /\ running_ctors = [t \in Threads |-> {}]
  /\ owned = [t \in Threads |-> [l \in Libs |-> 0]]
  /\ opens = 0 /\ info = 0
  /\ orphaned = "no" /\ lost = {}

-----------------------------------------------------------------------------
(* dlopen(file), __dldopen, __dlsopen.                                     *)

Open(t) ==
  /\ At(t, "user") /\ opens < MaxOpens
  /\ opens' = opens + 1
  /\ Go(t, "wrlock")
  /\ UNCHANGED <<alive, base, running_ctors, owned, ldsoLock, libVars, info, forkVars>>

\* mutant: the lock is not waited for
LockNoWait(t) ==
  /\ At(t, "wrlock")
  /\ ldsoLock' = t
  /\ Go(t, "open")
  /\ UNCHANGED <<alive, base, running_ctors, owned, libVars, opens, info, forkVars>>
\* mutant: an open waits until no constructors run
LockIdle(t) ==
  /\ At(t, "wrlock") /\ ldsoLock = Nobody /\ \A l \in Libs : ctors[l] # "running"
  /\ ldsoLock' = t
  /\ Go(t, "open")
  /\ UNCHANGED <<alive, base, running_ctors, owned, libVars, opens, info, forkVars>>
\* pthread_rwlock_wrlock; the loader is entered
Lock(t) ==
  /\ At(t, "wrlock") /\ ldsoLock = Nobody
  /\ ldsoLock' = t
  /\ Go(t, "open")
  /\ UNCHANGED <<alive, base, running_ctors, owned, libVars, opens, info, forkVars>>

\* The loader returns a base or null.
LoaderOpen(t, lib) ==
  /\ At(t, "open")
  /\ base' = [base EXCEPT ![t] = lib]
  /\ refs' = [l \in Libs |-> refs[l] + IF l = lib THEN 1 ELSE 0]
  /\ ctors' = [l \in Libs |-> IF l = lib /\ refs[l] = 0 THEN "due" ELSE ctors[l]]
  /\ Go(t, "unlock")
  /\ UNCHANGED <<alive, running_ctors, owned, ldsoLock, opens, info, forkVars>>

\* mutant: constructors run under the lock, which the return gives back
UnlockLate(t) ==
  /\ At(t, "unlock")
  /\ ldsoLock' = IF base[t] # NoLib THEN ldsoLock ELSE Nobody
  /\ Go(t, IF base[t] # NoLib THEN "claim" ELSE "user")
  /\ UNCHANGED <<alive, base, running_ctors, owned, libVars, opens, info, forkVars>>
\* pthread_rwlock_unlock, and the test of base
Unlock(t) ==
  /\ At(t, "unlock")
  /\ ldsoLock' = Nobody
  /\ Go(t, IF base[t] # NoLib THEN "claim" ELSE "user")
  /\ UNCHANGED <<alive, base, running_ctors, owned, libVars, opens, info, forkVars>>

DueOfOthers(t) == {l \in Libs \ {base[t]} : ctors[l] = "due"}      \* mutant
\* What do_global_ctors_fn takes up: it is not told what was opened.
Due(t) == {l \in Libs : ctors[l] = "due"}

RunCtors(t) ==
  /\ At(t, "claim")
  /\ running_ctors' = [running_ctors EXCEPT ![t] = Due(t)]
  /\ ctors' = [l \in Libs |-> IF l \in Due(t) THEN "running" ELSE ctors[l]]
  /\ Go(t, "ctors")
  /\ UNCHANGED <<alive, base, owned, ldsoLock, refs, opens, info, forkVars>>

\* The constructors are done, and the call returns its base.
CtorsReturn(t) ==
  /\ At(t, "ctors")
  /\ ctors' = [l \in Libs |-> IF l \in running_ctors[t] THEN "done" ELSE ctors[l]]
  /\ running_ctors' = [running_ctors EXCEPT ![t] = {}]
  /\ owned' = [owned EXCEPT ![t][base[t]] = owned[t][base[t]] + 1]
  /\ base' = [base EXCEPT ![t] = NoLib]
  /\ Go(t, "user")
  /\ UNCHANGED <<alive, ldsoLock, refs, opens, info, forkVars>>

-----------------------------------------------------------------------------
(* The calls that take no lock.                                            *)

\* dlclose, of a handle that the thread has.
Close(t) ==
  /\ At(t, "user") /\ \E l \in Libs : owned[t][l] > 0
  /\ Go(t, "close")
  /\ UNCHANGED <<alive, base, running_ctors, owned, ldsoLock, libVars, opens, info, forkVars>>

\* The last close unmaps the library, even from under its constructors, which
\* another thread may have taken up and still run.
LoaderClose(t, lib) ==
  LET last == refs[lib] = 1
  IN  /\ At(t, "close") /\ owned[t][lib] > 0
      /\ owned' = [owned EXCEPT ![t][lib] = owned[t][lib] - 1]
      /\ refs' = [refs EXCEPT ![lib] = refs[lib] - 1]
      /\ ctors' = IF last THEN [ctors EXCEPT ![lib] = "none"] ELSE ctors
      /\ running_ctors' = IF last THEN [u \in Threads |-> running_ctors[u] \ {lib}] ELSE running_ctors
      /\ lost' = IF last THEN lost \ {lib} ELSE lost
      /\ Go(t, "user")
      /\ UNCHANGED <<alive, base, ldsoLock, opens, info, orphaned>>

\* dlsym, dladdr, dlerror and dlopen(0) read the tables of the loader.
LookUp(t) ==
  /\ At(t, "user")
  /\ Go(t, "look")
  /\ UNCHANGED <<alive, base, running_ctors, owned, ldsoLock, libVars, opens, info, forkVars>>

LookedUp(t) ==
  /\ At(t, "look")
  /\ Go(t, "user")
  /\ UNCHANGED <<alive, base, running_ctors, owned, ldsoLock, libVars, opens, info, forkVars>>

InfoRaw(status) == status                                          \* mutant
\* __dlinfo: any failure of the loader is -1.
InfoResult(status) == IF status # 0 THEN -1 ELSE 0

Info(t, status) ==
  /\ At(t, "user")
  /\ info' = InfoResult(status)
  /\ UNCHANGED <<threadVars, ldsoLock, libVars, opens, forkVars>>

\* fork: the child has this thread only, and every word of the parent.
Fork(t) ==
  /\ InUserCode(t) /\ alive = Threads
  /\ alive' = {t}
  /\ orphaned' = IF ldsoLock = Nobody THEN "no" ELSE pc[ldsoLock]
  /\ lost' = {l \in Libs : ctors[l] \in {"due", "running"}} \ running_ctors[t]
  /\ UNCHANGED <<pc, base, running_ctors, owned, ldsoLock, libVars, opens, info>>

-----------------------------------------------------------------------------
Progress(t) ==
  \/ Lock(t) \/ Unlock(t) \/ RunCtors(t) \/ CtorsReturn(t) \/ LookedUp(t)
  \/ \E l \in Libs \cup {NoLib} : LoaderOpen(t, l)
  \/ \E l \in Libs : LoaderClose(t, l)

Next ==
  \E t \in Threads :
    \/ Progress(t)
    \/ Open(t) \/ Close(t) \/ LookUp(t) \/ Fork(t)
    \/ \E status \in {0, 1, -22} : Info(t, status)

Spec == Init /\ [][Next]_vars

\* Threads run, and the loader and the constructors come back.  With a bound on
\* the opens the lock is in the end free for whoever waits for it.
Fairness == \A t \in Threads : WF_vars(Progress(t))

-----------------------------------------------------------------------------
\* The state keeps its shape: dlinfo says 0 or -1, and the count of a library is
\* that of the handles and of the opens that are about to return one.
TypeOK ==
  /\ alive \subseteq Threads /\ ldsoLock \in Threads \cup {Nobody}
  /\ info \in {0, -1}
  /\ \A l \in Libs : (refs[l] = 0) <=> (ctors[l] = "none")

\* No two opens are in the loader at once.  What may meet an open there is a
\* dlclose or a lookup, in a process that has not forked (dynlink.c:42, 104, 183).
OpensMeetNoOpen ==
  \A t, u \in alive : t # u /\ At(t, "open") => ~At(u, "open")

\* A thread that has the handle of a library whose constructors have not all
\* run has it while another thread runs them: nobody's are forgotten, whichever
\* of two opens of a library unlocks first.  After a fork, libraries that the
\* parent was initialising are the exception (dynlink.c:104-107).
EarlyOnlyWhileRun ==
  \A t \in alive, l \in Libs \ lost :
    owned[t][l] > 0 /\ ctors[l] # "done" =>
      \E u \in alive : l \in running_ctors[u] \/ At(u, "claim")

\* A child finds the lock taken for good only when another thread was at the
\* loader at the fork; a thread that forks from a constructor, and a fork while
\* another runs constructors, leave it free (dynlink.c:42, 91-104, 107).
OrphanedInLoader == orphaned \in {"no", "open", "unlock"}

\* An open returns, unless it is made by a child that found the lock taken.
OpensReturn ==
  \A t \in Threads : pc[t] = "wrlock" ~> pc[t] = "user" \/ t \notin alive \/ orphaned # "no"

\* What holds of the loader and of its lock between the calls.
LoaderSound == TypeOK /\ OpensMeetNoOpen /\ OrphanedInLoader
=============================================================================

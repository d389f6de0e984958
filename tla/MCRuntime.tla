----------------------------- MODULE MCRuntime -----------------------------
(* Instances for TLC of the process and its threads: how a program comes to  *)
(* libc, what a new thread is given, its thread-local memory, how it is      *)
(* cancelled in a system call, the list of threads, and the loader's calls   *)
(* against each other and fork.  They are independent: a behaviour is one of *)
(* the part that Init chooses, and the other parts stay as they begin.       *)
EXTENDS CloneStack, EmuTls, SyscallCp

CONSTANTS Main, Surrogates, Nobody, Libs, NoLib, MaxOpens, Optional, AppDir, Places

VARIABLES
  part,
  variant, stage, word, cleared, lock, next, prev, joins, joined, faulted,  \* ThreadList
  alive, pc, base, ldsoLock, refs, ctors, running_ctors, owned, opens, info,
  orphaned, lost,                                                           \* LdsoCalls
  line, files, exports, phase, hroot, hdsodir, ldso, libc, status, options, ctty
                                                                            \* StartFiles

List ==
  INSTANCE ThreadList WITH
    Variants <- {"TID", "JOIN_FUTEX", "DETACH_STATE", "THREAD_LIST_LOCK"}

Loader == INSTANCE LdsoCalls

Start == INSTANCE StartFiles

\* A program in <root>\bin, with room for a tree around it, one further up, and
\* the files beside it.
BinDir == <<"c:", "midipix", "bin">>
TwoTrees ==
  {<<"c:", "midipix", "lib", "libpsxscl.so">>, <<"c:", "midipix", "lib", "libc.so">>,
   <<"c:", "lib", "libpsxscl.so">>, <<"c:", "lib", "libc.so">>,
   <<"c:", "midipix", "bin", "libpsxscl.so">>, <<"c:", "midipix", "bin", "libc.so">>}

ASSUME RuntimeAssumption ==
  /\ List!ThreadListAssumption
  /\ Loader!LdsoCallsAssumption
  /\ Start!StartFilesAssumption

-----------------------------------------------------------------------------
listVars == <<variant, stage, word, cleared, lock, next, prev, joins, joined, faulted>>
loaderVars ==
  <<alive, pc, base, ldsoLock, refs, ctors, running_ctors, owned, opens, info, orphaned,
    lost>>
startVars ==
  <<line, files, exports, phase, hroot, hdsodir, ldso, libc, status, options, ctty>>

RuntimeInit ==
  /\ part \in {"clone", "tls", "cancel", "list", "loader", "start"}
  /\ Init /\ (part # "clone" => arch = "nt64")
  /\ TlsInit
  /\ CpInit
  /\ List!Init /\ (part # "list" => variant = "TID")
  /\ Loader!Init
  /\ Start!Init
  /\ part # "start" => line = {"crt1", "crtidata"} /\ files = {} /\ exports = {}

RuntimeNext ==
  /\ UNCHANGED part
  /\ \/ /\ part = "clone" /\ Next
        /\ UNCHANGED <<tlsVars, cpVars, listVars, loaderVars, startVars>>
     \/ /\ part = "tls" /\ TlsNext
        /\ UNCHANGED <<vars, cpVars, listVars, loaderVars, startVars>>
     \/ /\ part = "cancel" /\ CpNext
        /\ UNCHANGED <<vars, tlsVars, listVars, loaderVars, startVars>>
     \/ /\ part = "list" /\ List!Next
        /\ UNCHANGED <<vars, tlsVars, cpVars, loaderVars, startVars>>
     \/ /\ part = "loader" /\ Loader!Next
        /\ UNCHANGED <<vars, tlsVars, cpVars, listVars, startVars>>
     \/ /\ part = "start" /\ Start!Next
        /\ UNCHANGED <<vars, tlsVars, cpVars, listVars, loaderVars>>

runtimeVars == <<part, vars, tlsVars, cpVars, listVars, loaderVars, startVars>>

\* A part that stays as it begins has no step that the fairness asks for.
RuntimeSpec ==
  /\ RuntimeInit /\ [][RuntimeNext]_runtimeVars
  /\ CpFairness /\ List!Fairness /\ Loader!Fairness

-----------------------------------------------------------------------------
\* The memory of a thread is released only after its end, and the ring of the
\* threads is whole, for each generation of musl (crt_glue.c:48-76).
ThreadsSound == List!ThreadsSound

\* A library that a thread has the handle of is initialised, or being so
\* (dynlink.c:104-107).
EarlyOnlyWhileRun == Loader!EarlyOnlyWhileRun

\* Opens exclude each other, and a fork leaves the child a lock taken for good
\* only while another thread was at the loader (dynlink.c:42, 91-107).
LoaderSound == Loader!LoaderSound

\* libc is entered with the libraries, the options and the server of one tree, or
\* not at all (crt1.c, Scrt1.c, crtldso.c, crtvrfs.c, crt_glue.c:95-117).
StartSound == Start!StartSound

\* Whoever waits gets through: for a thread that ended, unless the main thread has
\* taken the lock of the list along, and for the lock of the loader, unless a
\* fork has orphaned it (crt_glue.c:63-72, dynlink.c:42, 104).
WaitersReturn == List!JoinReturns /\ Loader!OpensReturn
=============================================================================

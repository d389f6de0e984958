------------------------------ MODULE Process ------------------------------
(***************************************************************************)
(* A process from _start to exit, and the thread pointers of its threads.  *)
(*                                                                         *)
(* Startup: the four __libc_loader_init (crt/nt64: Scrt1.c static,         *)
(* crtidata.c dynamic, crtldso.c and crtvrfs.c with a loader of their      *)
(* own), then __libc_entry_routine, __init_tls, _init and _fini of         *)
(* src/arch/nt64/crt_glue.c.  Threads: __get_tp of arch/nt64/              *)
(* pthread_arch.h, __set_thread_area, the pointer __clone hands to a new   *)
(* thread, and __emutls_get_address of crt_tls.c.                          *)
(*                                                                         *)
(* The framework loader, __psx_init, mm_start_main, musl's                 *)
(* __libc_start_main and the framework's part of clone are external.  A    *)
(* foreign thread is made by a third-party library behind libc's back.     *)
(***************************************************************************)

CONSTANTS
  Thread,    (* threads of the process                                     *)
  Main,      (* the thread that runs _start                                *)
  NoThread,  (* a null struct pthread pointer                              *)
  Foreign    (* whether third-party libraries create threads               *)

ASSUME ProcessAssumption == /\ Main \in Thread
                            /\ NoThread \notin Thread
                            /\ Foreign \in BOOLEAN

VARIABLES
  flavour,   (* the __libc_loader_init linked in                           *)
  phase,     (* progress of Main                                           *)
  tables,    (* __syscall_vtbl ... __teb_libc_idx and the init/fini        *)
             (* pointers have been written                                 *)
  kind,      (* who made a thread                                          *)
  slot,      (* TEB slot 0 and the slot psxscl allocated, of each thread   *)
  tlca,      (* pthread_self member of a thread's tlca                     *)
  self,      (* what a thread's last __get_tp returned                     *)
  dead       (* how the process died, and by which thread                  *)

startVars == <<flavour, phase, tables>>
threadVars == <<kind, slot, tlca, self>>
vars == <<startVars, threadVars, dead>>

Flavour == {"static", "dynamic", "ldso", "vrfs"}
Phase == {"load_loader", "load_libc", "find_psx_init", "find_entry", "entry",
          "publish", "start_main", "init_tls", "init", "main", "fini", "exited"}
Kind == {"none", "posix", "foreign"}

\* What a TEB slot holds: nothing, another library's pointer, a tlca, or the
\* expansion array it belongs to does not exist.
Content == {"null", "alien", "tlca", "unmapped"}
Slot == {"zero", "psx"}

\* Deaths: a_crash, and an invalid access in __get_tp, in __emutls_get_address
\* or through a global function pointer.
Fault == {"self", "emutls", "global"}
Alive == dead = <<"no", NoThread>>

\* Shape of the state.
TypeOK ==
  /\ flavour \in Flavour
  /\ phase \in Phase
  /\ tables \in BOOLEAN
  /\ kind \in [Thread -> Kind]
  /\ slot \in [Thread -> [Slot -> Content]]
  /\ tlca \in [Thread -> Thread \cup {NoThread}]
  /\ self \in [Thread -> Thread \cup {NoThread}]
  /\ dead \in ({"no", "crash", "terminated"} \cup Fault) \X (Thread \cup {NoThread})

Init ==
  /\ flavour \in Flavour
  /\ phase = IF flavour \in {"ldso", "vrfs"} THEN "load_loader" ELSE "entry"
  /\ tables = FALSE
  /\ kind = [t \in Thread |-> IF t = Main THEN "posix" ELSE "none"]
  /\ slot \in [Thread -> [Slot -> {"null"}]]
  /\ tlca = [t \in Thread |-> NoThread]
  /\ self = [t \in Thread |-> NoThread]
  /\ dead = <<"no", NoThread>>

Die(how, by) == dead' = <<how, by>>

-----------------------------------------------------------------------------
(* Steps with a slip in them, for mutation runs.                           *)

\* the main routine of a loader goes back to its first step
TerminateAndRetry(from) ==
  /\ Alive /\ phase = from
  /\ phase' = "load_loader"
  /\ UNCHANGED <<flavour, tables, threadVars, dead>>

\* the tables are written before the test of envp
PsxInitThenPublish ==
  /\ Alive /\ phase = "entry"
  /\ \/ /\ phase' = "publish"
        /\ slot' = [slot EXCEPT ![Main]["psx"] = "tlca"]
        /\ tables' = TRUE
        /\ UNCHANGED dead
     \/ /\ Die("crash", Main)
        /\ UNCHANGED <<phase, slot, tables>>
     \/ /\ Die("crash", Main)
        /\ slot' = [slot EXCEPT ![Main]["psx"] = "tlca"]
        /\ tables' = TRUE
        /\ UNCHANGED phase
  /\ UNCHANGED <<flavour, kind, tlca, self>>

\* __teb_sys_idx is never used
PsxTlcaZero(t) == slot[t]["zero"]

\* the child finds its parent's pthread
CloneOfParent(t, u) ==
  /\ Alive /\ phase = "main" /\ kind[t] = "posix" /\ kind[u] = "none"
  /\ kind' = [kind EXCEPT ![u] = "posix"]
  /\ slot' = [slot EXCEPT ![u]["psx"] = "tlca"]
  /\ tlca' = [tlca EXCEPT ![u] = tlca[t]]
  /\ UNCHANGED <<startVars, self, dead>>

-----------------------------------------------------------------------------
(* __libc_loader_init of crtldso.c and crtvrfs.c.                          *)

Step(from, to) == Alive /\ phase = from /\ phase' = to

\* __ldso_terminate_current_process does not return.
Terminate(from) ==
  /\ Alive /\ phase = from
  /\ Die("terminated", Main)
  /\ UNCHANGED <<startVars, threadVars>>

\* Each call of the loader moves on, or ends the process with its status
\* (NT_STATUS_NOINTERFACE for a missing procedure).
LoaderCall(from, to) ==
  \/ /\ Step(from, to)
     /\ UNCHANGED <<flavour, tables, threadVars, dead>>
  \/ Terminate(from)

LoadLoader == LoaderCall("load_loader", "load_libc")
LoadLibc == LoaderCall("load_libc", "find_psx_init")
FindPsxInit == LoaderCall("find_psx_init", "find_entry")
FindEntry == LoaderCall("find_entry", "entry")

-----------------------------------------------------------------------------
(* __libc_entry_routine and what mm_start_main makes happen.               *)

\* __psx_init must succeed (and then the main thread has a tlca) and conform.
PsxInit ==
  /\ Alive /\ phase = "entry"
  /\ \/ /\ phase' = "publish"
        /\ slot' = [slot EXCEPT ![Main]["psx"] = "tlca"]
        /\ UNCHANGED dead
     \/ /\ Die("crash", Main)            (* nonzero status                 *)
        /\ UNCHANGED <<phase, slot>>
     \/ /\ Die("crash", Main)            (* envp # argv + (argc + 1)       *)
        /\ slot' = [slot EXCEPT ![Main]["psx"] = "tlca"]
        /\ UNCHANGED phase
  /\ UNCHANGED <<flavour, tables, kind, tlca, self>>

\* "write once"
Publish ==
  /\ Step("publish", "start_main")
  /\ tables' = TRUE
  /\ UNCHANGED <<flavour, threadVars, dead>>

\* mm_start_main calls __libc_start_main; the guard catches its return.
StartMain ==
  /\ Alive /\ phase = "start_main"
  /\ \/ phase' = "init_tls" /\ UNCHANGED dead
     \/ Die("crash", Main) /\ UNCHANGED phase
  /\ UNCHANGED <<flavour, tables, threadVars>>

\* __psx_tlca: before the tables are written __teb_sys_idx is 0.
PsxTlca(t) == slot[t][IF tables THEN "psx" ELSE "zero"]

\* The tlca members after the call by t: unchanged, with -ESRCH, without a tlca.
set_thread_area(t, pt) ==
  IF PsxTlca(t) = "null" THEN tlca ELSE [tlca EXCEPT ![t] = pt]

\* __set_thread_area(&T.pt), whose result nobody looks at
InitTls ==
  /\ Step("init_tls", "init")
  /\ tlca' = set_thread_area(Main, Main)
  /\ UNCHANGED <<flavour, tables, kind, slot, self, dead>>

\* Calling a global constructor or destructor pointer that is still 0 faults.
CallGlobal(from, to) ==
  /\ Alive /\ phase = from
  /\ IF tables
     THEN phase' = to /\ UNCHANGED dead
     ELSE Die("global", Main) /\ UNCHANGED phase
  /\ UNCHANGED <<flavour, tables, threadVars>>

_init == CallGlobal("init", "main")
_fini == CallGlobal("fini", "exited")

MainReturns ==
  /\ Step("main", "fini")
  /\ UNCHANGED <<flavour, tables, threadVars, dead>>

-----------------------------------------------------------------------------
(* Threads.                                                                *)

\* The threads that run code of the program or of libc's API.
Runs(t) == /\ Alive
           /\ kind[t] # "none"
           /\ t = Main => phase \in {"main", "fini"}

\* The record of clone: the child finds the parent's new pthread in rdx, and
\* the framework stores it in the tlca it allocates for the child.
regs(u) == [rdx |-> u]

Clone(t, u) ==
  /\ Runs(t) /\ kind[t] = "posix" /\ phase = "main"
  /\ kind[u] = "none"
  /\ kind' = [kind EXCEPT ![u] = "posix"]
  /\ slot' = [slot EXCEPT ![u]["psx"] = "tlca"]
  /\ tlca' = [tlca EXCEPT ![u] = regs(u).rdx]
  /\ UNCHANGED <<startVars, self, dead>>

\* Slot 0 belongs to whoever allocated it; the slot of psxscl is empty, or in
\* an expansion array that this thread does not have.
ForeignThread(u) ==
  /\ Foreign /\ Alive /\ phase # "exited"
  /\ kind[u] = "none"
  /\ kind' = [kind EXCEPT ![u] = "foreign"]
  /\ \E zero \in {"null", "alien"}, psx \in {"null", "unmapped"} :
       slot' = [slot EXCEPT ![u] = [zero |-> zero, psx |-> psx]]
  /\ UNCHANGED <<startVars, tlca, self, dead>>

\* struct __psx_vtbl, in the order of its members
PsxVtbl == <<"do_global_ctors_fn", "do_global_dtors_fn", "mm_start_main",
             "mm_convert_thread", "mm_unmapself", "mm_log_output">>

\* call *(%rax), with the address of the table in rax: its first member
ConvertCalls == PsxVtbl[1]

\* __get_tp of a thread whose slot is readable: *ptlca, else convert and try
\* again.  Only mm_convert_thread would give the thread a tlca.
Converts(t) ==
  /\ PsxTlca(t) = "null"
  /\ IF tables /\ ConvertCalls = "mm_convert_thread"
     THEN /\ slot' = [slot EXCEPT ![t]["psx"] = "tlca"]
          /\ tlca' = [tlca EXCEPT ![t] = t]
          /\ self' = [self EXCEPT ![t] = t]
          /\ UNCHANGED dead
     ELSE Die("self", t) /\ UNCHANGED <<slot, tlca, self>>

GetTp(t) ==
  /\ Runs(t)
  /\ \/ /\ PsxTlca(t) = "tlca"
        /\ self' = [self EXCEPT ![t] = tlca[t]]
        /\ UNCHANGED <<slot, tlca, dead>>
     \/ Converts(t)
     \/ /\ PsxTlca(t) \in {"alien", "unmapped"}
        /\ Die("self", t)
        /\ UNCHANGED <<slot, tlca, self>>
  /\ UNCHANGED <<startVars, kind>>

\* __emutls_get_address dereferences the tlca without a test.
EmutlsGetAddress(t) ==
  /\ Runs(t)
  /\ PsxTlca(t) # "tlca"
  /\ Die("emutls", t)
  /\ UNCHANGED <<startVars, threadVars>>

Startup ==
  \/ LoadLoader \/ LoadLibc \/ FindPsxInit \/ FindEntry
  \/ PsxInit \/ Publish \/ StartMain \/ InitTls \/ _init

Threads == \E t \in Thread :
  \/ GetTp(t) \/ EmutlsGetAddress(t) \/ ForeignThread(t)
  \/ \E u \in Thread : Clone(t, u)

Over == (~Alive \/ phase = "exited") /\ UNCHANGED vars

Next == Startup \/ MainReturns \/ _fini \/ Threads \/ Over

\* Main is scheduled, and the external startup calls come back; main itself
\* need not return.
Spec == Init /\ [][Next]_vars /\ WF_vars(Startup)

-----------------------------------------------------------------------------
(* Properties.                                                             *)

\* pthread_self of a thread that libc made is that thread, from its first call
\* on: main through __init_tls, the others through the register clone passes.
SelfIsOwn ==
  \A t \in Thread : kind[t] = "posix" => self[t] \in {t, NoThread}

\* No thread that libc made faults on a table, a slot or a pointer that startup
\* or clone should have filled.
OnlyForeignFault ==
  dead[1] \in Fault => kind[dead[2]] = "foreign"

\* A process that startup gives up on has not published any table, unless it
\* was mm_start_main that came back.
FailedStartPublishesNothing ==
  dead[1] \in {"terminated", "crash"} => ~tables \/ phase = "start_main"

\* Startup reaches main, or ends the process.
StartupEnds == <>(phase = "main" \/ ~Alive)

\* "the purpose of this mecahnism is to support a scenario where a third-party
\* library creates a non-posix thread which then calls [...] a libc api that
\* depends on a valid pthread_self" (crt_glue.c:134-138): once libc is up, and
\* the thread's slot can be read, __get_tp does not fault.
ThirdPartySelf ==
  dead[1] = "self" => ~tables \/ slot[dead[2]]["psx"] = "unmapped"

-----------------------------------------------------------------------------
(* The inductive invariant behind the safety properties (ProcessProofs).   *)

\* A thread of the program that can run has a tlca that points to it.
ThreadPointerSet ==
  \A t \in Thread : kind[t] = "posix" =>
    /\ t # Main => slot[t]["psx"] = "tlca" /\ tlca[t] = t
    /\ t = Main /\ phase \in {"publish", "start_main", "init_tls", "init", "main",
                             "fini", "exited"} => slot[t]["psx"] = "tlca"
    /\ t = Main /\ phase \in {"init", "main", "fini", "exited"} => tlca[t] = t

\* The tables are written between psx_init and start_main; other threads of the
\* program exist only after that.
PublishedInTime ==
  /\ tables <=> phase \in {"start_main", "init_tls", "init", "main", "fini", "exited"}
  /\ kind[Main] = "posix"
  /\ \A t \in Thread \ {Main} : kind[t] = "posix" => tables

\* A thread that does not exist has asked for nothing.
UnbornIsBlank == \A t \in Thread : kind[t] = "none" => self[t] = NoThread

IInv == /\ TypeOK /\ ThreadPointerSet /\ PublishedInTime /\ UnbornIsBlank
        /\ SelfIsOwn /\ OnlyForeignFault /\ FailedStartPublishesNothing

=============================================================================

# A formal model of mmglue

mmglue is the part of midipix's libc that musl leaves to the port: the C runtime
start files, the glue between musl and the framework (`psxscl`, reached through
tables of function pointers), and the assembly that is specific to the
architecture.  This directory holds TLA+ models of that code, the TLC
configurations that check them, and TLAPS proofs of the main results.

Paths are relative to the repository.  `nt64` files are the reference; where the
`nt32` twin is identical (`dynlink.c`) or has the same control flow
(`crt_glue.c`, `pthread_arch.h`, the `crt*.c`), the model speaks for both.

## Inventory

| Component | State | Operations | Interacts with | Hard behaviour | What makes it correct | Status |
|---|---|---|---|---|---|---|
| loader front end, `src/ldso/*/dynlink.c` | `__ldso_lock`; musl's thread-creation lock; a thread's cancelability | `dlopen`, `__dldopen`, `__dlsopen` | framework loader, constructors, musl threads | three copies of one prolog and epilog; constructors re-enter; cancellation; thread creation; failure of the loader | one open at a time; no lock in user code; cancelability restored; nothing born during an open; every call returns | `Dynlink` |
| its unlocked calls, same files and `dlsym.s` | none of their own | `dlclose`, `dlsym`, `dladdr`, `dlinfo`, `dlerror`, `dlopen(0)` | the opens, `fork` | lookups and closes beside an open; a lock inherited over a fork | handles are initialised; opens meet no open; waiters return; `dlsym` passes its own caller | `LdsoCalls`, `NativeCalls` |
| `LD_LIBRARY_PATH`, `dynlink.c` | `lpathbuf[2048]`, `lpathvbuf[64]`, pointers into them | the parse in `dlopen` | framework loader | in-place parse that rewrites its separators; two buffers with limits; `calloc` fails | reads stay inside; the vector fits; every directory is in it | `LoaderPath` |
| floating-point environment, `src/fenv/nt64/fenv.S` | x87 and SSE control and status of a thread | `fe*` functions | arithmetic of the program | two units, one of which only clears all of its flags at once | one environment, whatever unit computes | `Fenv` |
| start files, `crt/*/*.c` | what the linker takes in; roots and names found | `_start`, `__libc_loader_init` | framework loader, file system, libc | weak symbols of separately chosen objects; several trees of libraries | one tree; the options tell of it; libc is reached, or the program ends with a status | `StartFiles` |
| startup of libc, `src/arch/*/crt_glue.c` | tables and indices written once; init and fini pointers | `__libc_entry_routine`, `__init_tls`, `_init`, `_fini` | `__psx_init`, musl start | order of publication; partial failure | nothing used before it is written; a failed start uses nothing; startup ends | `Process` |
| threads of libc, `crt_glue.c`, `project/config/cfgdefs.sh` | a word that the end of a thread clears; the ring of threads | `__init_tls`, `__pthread_surrogate_init` | musl's `pthread_create`, `_join`, `_exit` | four generations of musl wait on different words | a join returns, and after the end; the ring is whole | `ThreadList` |
| thread pointer, `arch/*/pthread_arch.h`, `__set_thread_area.c` | TEB slots, the tlca of a thread | `__get_tp`, `__set_thread_area` | every libc call | threads libc did not make; a slot index not yet known; expansion slots | `pthread_self` is one's own and never faults | `Process` |
| thread-local memory, `crt_tls.c`, `__copy_tls.c`, `__reset_tls.c` | area, struct pthread and blocks of a thread | `__copy_tls`, `__emutls_get_address`; `__reset_tls` | loader | rounding inside a reserved area; an index in half of a word | a thread finds its own variable, in a block of its own | `EmuTls`; `__reset_tls` is a bare forward, not modelled |
| clone, `src/thread/*/clone.c` | the register record for the child | `__clone` | framework, `pthread_create`, `posix_spawn` | child runs at once; stack bounds from a caller's size; arguments that a caller leaves out | child finds its own pthread; bounds inside its stack | `Process`, `CloneStack` |
| cancellation points, `src/thread/nt64/syscall_cp.s` | instruction pointer, argument registers | `__syscall_cp_asm` | musl's cancel signal handler | the window ends in a jump | no cancellation after a side effect; an early request is honoured; arguments in order | `SyscallCp` (nt64) |
| system calls, `arch/*/syscall_arch.h`, `vtbl.c` and the wrappers `debug.c`, `fs.c`, `cmd.c`, `realpath.c`, ... | `__syscall_vtbl`; `errno`; buffers on the stack | `__syscall0`-`6`, `__syscall_alert`, each wrapper | framework, signal handlers, threads | empty entries; short calls of long functions; reentrancy | the answer, error and path are those of one's own call | `Syscalls`, `SyscallCp` |
| `setjmp`, `longjmp`, `sigsetjmp` | `jmp_buf` | assembly | signal mask, handlers | second return; return addresses popped into a buffer | every preserved register, the stack and the mask come back | `Machine`, `NativeCalls` |
| exceptions, `unwind.c`, `psxseh.h` | none of its own | `__unwind_*`, twenty forwards to members of a table | framework, personality routines | members with like names and like arguments | a call reaches the member of its name, with its arguments in their order | `Syscalls`; unwinding itself is the framework's |
| shared records, `bits/signal.h`, `bits/fenv.h`, `sys/debug.h`, `psxglue.h`, `kstat.h` | layouts | – | framework, assembly, the system's context record | offsets used by name in one place and by number in another | the comments' offsets, the known holes and no others, aligned contexts, `CANCEL_REG_IP` | `Layouts` |
| configuration tests, `sofort/cfgtest/cfgtest.sh` | shell variables, `cfgdefs.mk` | `cfgtest_*` | a project's `cfgdefs.sh`, compiler, pkgconf | variables that survive from one test to the next; `set -e` | the flags of a section are true of its compiler; a result goes where it was asked for | `Cfgtest` |
| tool detection, `sofort/ccenv/ccenv.sh`; `configure` | shell variables, `ccenv/*.mk`, `cfgdefs.mk` | searches, options | cfgtest, compiler | – | host and compiler agree | not modelled |
| import stubs, section tables (`crtend.s`, `crte.s`, `.got$` stanzas), make rules, headers of constants | – | – | – | – | declarative data | not modelled |

`PROJECT.json` lists the hazards at their lines, and the properties that cover
each.

## Modules

| Module | What it is |
|---|---|
| `LoaderMonitor` | abstract: what the open calls promise to the process |
| `Dynlink`, `MCDynlink`, `DynlinkProofs` | the locking of the open calls, with threads, cancellation and constructors; instances; theorems |
| `LdsoCalls` | opens against closes, lookups and fork |
| `LoaderPath`, `LoaderPathProofs` | the parse of `LD_LIBRARY_PATH`; theorems |
| `FenvSpec` | abstract: one floating-point environment |
| `Fenv` | `fenv.S`: two units |
| `Process`, `ProcessProofs` | startup, thread pointers and the ways a thread faults; theorems |
| `StartFiles` | what is linked, where libraries are found, what libc is started with |
| `ThreadList` | the end of threads and the ring of threads in four generations of musl |
| `CloneStack` | stacks, bounds and the record of a child |
| `EmuTls` | thread-local memory |
| `SyscallCp`, `SyscallCpProofs` | a cancellation point, instruction by instruction; theorems |
| `Syscalls` | the dispatch and every wrapper, those of `unwind.c` included |
| `Machine`, `NativeCalls`, `MCNativeCalls` | a small machine; `setjmp`, `longjmp`, `sigsetjmp`, `dlsym` on it; an instance for `dlsym` of nt32 |
| `Layouts` | offsets of the shared records |
| `Cfgtest`, `CfgtestProofs` | the configuration tests and the shell variables they share; theorems |
| `MCMachine` | composes `Fenv`, `NativeCalls`, `Syscalls` (in two parts), `Layouts` for TLC |
| `MachineProofs`, `NativeProofs` | theorems about the parts of `MCMachine`; those about `NativeCalls` have a module of their own |
| `MCRuntime` | composes `CloneStack`, `EmuTls`, `SyscallCp`, `ThreadList`, `LdsoCalls`, `StartFiles` for TLC |
| `RuntimeProofs` | theorems about the parts of `MCRuntime` |

The two composing modules put independent parts side by side: `part` chooses
one of them at the start, the others stay as they begin.  A behaviour of the
composition is therefore a behaviour of one part, and a property of a part holds
of the composition exactly if it holds of the part.  They exist so that one run
answers one question (what a thread has to do with the machine; what threads
share) over several small modules.

### Dynlink

Every thread has a stack of activations of the open calls, since a constructor
may call `dlopen` again.  An activation has a step (`pc`) and the C locals `cs`
(`saved`) and `base`; `entry` is a history variable, the cancelability the call
was entered with.  The actions follow `dlopen` line by line: `Call` (22),
`DisableCancel` (41), `WrLock` (42), `InhibitPtc` (43), `LoaderOpen` (91-101),
`ReleasePtc` (103), `Unlock` (104), `RunCtors` and `CtorsReturn` (107),
`RestoreCancel` (109), `Return` (111).  `__dldopen` (114-138) and `__dlsopen`
(140-164) are the same steps.  A failed `calloc` in `dlopen` is a `LoaderOpen`
that yields `NoLib`.

The environment is musl and the program: `pthread_create` in its two stages
(it takes the read side of the lock that `__inhibit_ptc` write-locks),
cancellation in its worst, asynchronous form, `pthread_exit` also from a
constructor, and a program or constructor that changes its own cancelability.

`do_global_ctors_fn` takes no argument; the model lets it take up every
outstanding constructor at its entry.  Whether a second caller waits for a run
in progress is the framework's business and nothing here depends on it:
`HandleInitialised` says that *somebody* has taken the constructors up.

`Dynlink` implements `LoaderMonitor` under the mapping `opener <- ptcWriter`,
threads by life cycle.

### LoaderPath

The buffer is an array of colon, ordinary character and null, with any of three
contents before the copy; `next` and the slots of the vector are indices.  One
`Component` is one round of the outer loop, which includes the inner loop.  A
read outside the buffer ends in the state `"undefined"`.  `Names` and `Denotes`
are the reference definition: the non-empty names of the variable, and what the
loader reads in a slot.

The step `*++ch` over a terminator reads one more byte, so `ReadsInBounds` holds
of variables of at most `BufSize - 2` characters; in the code, 2046.  Names that
contain more than one ordinary character are told apart by position only.

### FenvSpec and Fenv

A bit mask is a set of flags, a rounding-control field a mode; the shifts and
masks of the code are what keeps these apart and are not repeated.  A function
is one step, as the registers are a thread's own.  `call` records the last call
and its result in both modules, so that each function has to implement its own
abstract step, for its own argument.  The mapping of the refinement
is `flags <- sw \cup mxFlags`, `round <- mxRound`.  Exceptions stay masked: the
model has no trap.

### Process

One `Main` thread goes through `phase`.  The flavours differ in their first
phase: `Scrt1.c` and `crtidata.c` enter libc directly, `crtldso.c` and
`crtvrfs.c` load the framework and libc first.  `tables` stands for everything
written between "write once" and "enter libc" in `__libc_entry_routine`,
including the init and fini pointers.  A thread has two TEB slots of interest:
slot 0, which `__psx_tlca` reads while `__teb_sys_idx` is still 0, and the slot
the framework allocated.  A slot may hold nothing, another library's pointer,
a tlca, or lie in an expansion array that the thread does not have.  `dead`
records the first fault, as the process ends there.

`Clone` gives the child the pointer that `clone.c` puts in `rdx`.
`ForeignThread` makes a thread behind libc's back; with `Foreign = FALSE` there
are none.  `__pthread_convert` calls the first member of `__psx_vtbl`, and
`PsxVtbl` lists the members in the order of `psxglue.h`.

### SyscallCp

`ip` counts the instructions of `__syscall_cp_asm`: the load of the flag (20),
the test and branch (21-22), ten moves (24-36), the jump (38).  `loc` is what
the argument registers, the two scratch registers and the stack slots above
`rsp` hold, by name: the pointer, the number, `u` to `z`.  `Dispatch` is
`__syscall`, `__syscall_disp` and the lookup of `__syscall6`; an empty table
entry returns to the program.

Another thread's `pthread_cancel` is two steps, `SetFlag` and `SendSignal`, and
`Handler` may run between any two instructions.  musl's handler looks at the
instruction pointer: in `[__cp_begin, __cp_end)` it moves the thread to
`__cp_cancel`; elsewhere it leaves the signal blocked and sends it again, for
`KernelInterrupted` to take up.  `effect` says whether the call has acted.

There is a gap: a handler that runs after the jump and before the system call
finds the instruction pointer outside the window, and the call may then wait
with the signal blocked.  `gap` records it, and `DeafOnlyFromGap` says that
nothing else leads there.

### Cfgtest

One action per kind of caller's use: `Recording` (a test that adds a define),
`Asking` (a test that only answers), `Configuring` (`cfgtest_package_config`),
the two sections, and `SetMakevar`; each function of `cfgtest.sh` is an operator
of its name.  `unit` is `cfgtest_internal_unit_test`, `makevar` is
`mb_cfgtest_makevar`, `mk` the pairs of make variable and define in
`cfgdefs.mk`.  The parameter `u` says that the call is a `cfgtest_unit_*` one,
which sets the flag before the test, and `t` that the caller tests the status;
where he does not, `set -e` (`configure:6`) stops the script, and `stopped` says what
failed: a test of the compiler, a package test, or the `make` that a section asks for
its flags.  `accepts` holds all the answers of compilers and pkgconf and is any set.

`asked` is what the caller means: results of ordinary tests in the flags of the
section, results of unit tests in `meant`, the variable that he named last.  The
code differs from it in two ways.  Only an append unsets the flag, so that a unit
test without a result hands its flag to the next test; and `cfgtest_package_config`
leaves its last variable name in `mb_cfgtest_makevar`.  `slips` counts the unit tests
that meet one or the other.  `OneLinePerSlip` says what a slip costs, through all the
tests that follow it: one line of `cfgdefs.mk` that the caller did not mean, and one
that he meant and does not get.  A caller without slips has every result in its place,
and a compiler's flags are true in any case (`FlagsAreTrue`).

### LdsoCalls

The steps of an open are those of `Dynlink`, without cancellation and nesting;
beside them a thread may close, look up, ask (`dlinfo`, whose result is reduced
to 0 or -1) and fork.  After a fork the behaviour follows the child: it has one
thread, and the memory of the parent, the lock included, since `dynlink.c` has no
handler for fork.  `refs` counts the opens of a library as the framework does,
`owned` the handles of the program.  Two results are worth stating.  A thread may
have the handle of a library whose constructors have not finished, but only while
another thread runs them (`EarlyOnlyWhileRun`).  A child can find the lock taken
for good, but only if another thread was between taking and releasing it at the
fork (`OrphanedInLoader`).

### StartFiles

`line` is the set of objects that the link line takes in: a start file for the
kind of program and option objects.  The weak symbols of `crt1.c` and `Scrt1.c`
resolve to what the line has.  `files` is any subset of `Places`, paths as
sequences of names; `exports` are the two routines that the libraries may lack.
The actions follow `_start` and the four `__libc_loader_init` call by call:
search from the root upwards (`crtldso.c`) or beside the program (`crtvrfs.c`),
then libc from the same tree, the routines by name, libc, the option word and the
context of `__psx_init`.  One tree, the options and the controlling terminal are stated
of starts that look for libraries; a start linked with libc itself looks for none.

### ThreadList

`variant` is one of the four generations of musl that `cfgdefs.sh` tells apart.
`word` is what a thread has registered with the framework to be cleared at its
end, `next` and `prev` the ring.  The glue's part is `InitTls` and
`SurrogateInit`; `pthread_create`, the exit of a thread and `pthread_join` are
musl's, each modelled for its generation as far as it reads what the glue wrote.
`JoinReturns` exempts the one case that the glue does not serve: the main thread
of a musl with `__thread_list_lock` registers its own `detach_state` and takes the
lock of the list along when it exits.

### CloneStack

Addresses are numbers modulo `Word`.  `Map` is musl's preparation of a stack
(top, size, guard); `Create`, `Spawn` and `PlainClone` are the three callers.  What
a caller does not set of the registers and slots that `__clone` reads is
`Garbage`.  `entry` is the record that a thread starts with, `child` that of a
process on its parent's stack.  A call for a process without the vfork flags reads
through a pointer that is none; `crashed` records it, and the system stops.  Both
architectures share the arithmetic and differ in the registers.

### EmuTls

`CopyTls` is the rounding of `__copy_tls.c`, `Subscript` the shift and mask of
`crt_tls.c` on a word whose low half is the alignment and whose high half is the
index.  `AlignWord` is what the loader stores there.  A library may be loaded
after a thread was made; the loader then gives every thread its block.

### Syscalls

One step per call of the framework's table, with `frames` the calls of a thread
that signal handlers interrupt and `stack` the buffers of `realpath` in them.
A wrapper is the list of names that it passes, `FsDeclared`, `CmdDeclared` and
`DbgDeclared` are the lists that the headers declare; the numbers behind the
names play no role.  `Dispatch` fills short calls up as `syscall_arch.h` does.
`wild` says that a call went through a null entry.  The functions of `unwind.c` are
calls too, of members of another table and with nothing between the member's result
and their own: `UnwindDeclared` is that table as `psxseh.h` declares it,
`UnwindArguments` what each function passes, and the member that it names is compared
like an argument.

### Machine and NativeCalls

`Machine` gives a dozen instructions a meaning over registers, a stack and a
structure of the program; a value is an address, an integer or opaque. `NativeCalls`
holds the routines as they stand in the files, for both word sizes, and a program of
two functions that call them. Between any two instructions a signal handler may run
on the same stack, and what lies below the stack pointer is lost then. Which calls
the program makes (`Calls`, `Entries` in `MCMachine`) and what it passes to `longjmp`
(`Values`) are constants. `MCMachine` takes all calls but `dlsym` of nt32, which its
assumption leaves out: that stub does not do what its comments say, and
`MCNativeCalls` shows it.

### Layouts

A record is a list of runs of members; one step lays out one run at the next
multiple of its alignment.  An offset that a comment gives is in the list beside
the member.  The alignment of a 64-bit integer inside a record is 8 on nt64 and
unknown on nt32, where 4 and 8 are both looked at.  `Left` lists the holes, which are
two, both on nt64: in front of `exception_info` of `__erec` (`debug.h:108`) and of
`ss_size` in the signal stack (`signal.h:110`).  `CancelFindsRip` and `CancelFindsEip`
compare `CANCEL_REG_IP` of nt64 and of nt32 with the context of each; the second does
not hold, and a run of its own shows it.  One thing is assumed of the compiler: the two
bit fields of nt64's `fenv.h:26-27` share 16 bits.  With the bit-field layout of
Microsoft's compiler they would not (`fenv64Wide`), and `fenv.S` would store the SSE
control word beside its member.

## Runs

| Run | Instance | Shows |
|---|---|---|
| `dynlink` | 3 threads, 2 libraries, nesting 2, 5 calls | `OpenExclusive`, `UserCodeHoldsNoLock`, `CancelStateRestored`, implements `LoaderMonitor` |
| `dynlink_live` | 2 threads, 1 library, nesting 2, 4 calls | `CallReturns`, `CreateReturns` |
| `loader_path` | buffer 8, vector 3, variables up to 9 | type, bounds, capacity, split, no empty slot, termination |
| `loader_path_empty` | buffer 8, vector 3, variables up to 5 | violation: a name after an empty one is lost |
| `loader_path_long` | buffer 4, vector 3, variables up to 6 | violation: a variable that fills the buffer |
| `process` | 4 threads, foreign ones allowed | `SelfIsOwn`, `OnlyForeignFault`, `FailedStartPublishesNothing`, `StartupEnds` |
| `process_foreign` | 4 threads | violation: a foreign thread faults in `__get_tp` |
| `cfgtest` | 2 names, 1 project variable, 3 tests, every set of answers | `FlagsAreTrue`, `OneLinePerSlip`, `StopsForARefusal` |
| `machine` | floating point: 2 flags, 3 modes; native calls: both architectures, 3 values; answers: 2 threads with a handler each, `realpath` and one wrapper; wrappers: each one, 5 results; headers: every record, 2 alignments | `RoundingAgrees`, implements `FenvSpec` (`OneEnvironment`), `NativeSound`, `AnswersSound`, `LayoutsSound` |
| `runtime` | clone: 2 threads, words of 8 bits, 5 tops, 4 sizes; tls: 2 threads, 6 places, 3 indices; cancel: 3 calls, one request; list: 4 threads in 4 generations of musl; loader: 2 threads, 2 libraries, 3 opens; start: every link line, every subset of 6 files | `BoundsInside`, `TdInside`, `VariableIsOwn`, `ArgsInOrder`, `CancelledWithoutEffect`, `RequestKeepsFromCall`, `DeafOnlyFromGap`, `ThreadsSound`, `EarlyOnlyWhileRun`, `LoaderSound`, `StartSound`, `WaitersReturn`, `WindowIsLeft` |
| `native_calls_dlsym32` | one call of nt32's `dlsym` at a time | violation: the stub passes a word of its caller's frame, twice |
| `layouts_cancel32` | every record, both architectures, 2 alignments | violation: `CANCEL_REG_IP` of nt32 is not the word of `uc_eip` |

`NativeSound`, `AnswersSound`, `LayoutsSound`, `ThreadsSound`,
`LoaderSound` and `StartSound` are conjunctions, in the module of the part, of the
properties stated there one by one.  The type invariants of the modules with
proofs, `HandleInitialised`, `NoBirthDuringOpen`, `StacksApart`, `StartsInBounds`
and `MissingArgumentsUnused` are proved and in no run.

Why these bounds are enough:

* `Dynlink`: three threads give a thread that opens, one that waits for the
  lock and one that creates or is created; nesting of two gives an inner call
  between the two halves of an outer one; five calls let two threads open,
  nest, and a third create.  Threads and libraries are interchangeable in the
  safety run (symmetry); the liveness run uses none.
* `LoaderPath`: the buffer is small enough that variables shorter than it, of
  exactly its size less two, less one, equal and longer all occur, and three
  slots put the heap vector within reach.
* `Process`: main, a child, a child of a child and a foreign thread.
* `SyscallCp`: a call before the request, one that meets it, and one after a
  cancellation that was answered with an error.
* `Cfgtest`: a test that leaves something behind, one that falls for it and one
  after that, about the same or another name, with the section and the variable
  changed in between.
* `Fenv`: `feclearexcept` tells apart flags in and outside the mask in either
  unit, which two flags provide.
* `NativeCalls`: values 0, 1 and another are those that `longjmp` tells apart;
  one function deeper than the caller of `setjmp` is what overwrites a stack.
* `Syscalls`: the results are an error, the last value that is one, the first that
  is not, a code of the system and a count.  A handler may run inside a call of
  either thread.
* `CloneStack`: tops and sizes are multiples of 16 and one off, stacks touch, and
  the largest top is the last that `CloneAssumption` allows.
* `EmuTls`: every position relative to a multiple of 16; the first index, the
  second, and the last that a signed half word holds.
* `ThreadList`: a creator, a thread created, one that waits for it and a surrogate.
* `LdsoCalls`: two opens of one library, or of two, with a close or a fork in
  every place between their steps.
* `StartFiles`: the files are those of two trees and those beside the program;
  each library may be missing from each.

`MaxDepth`, `MaxCalls`, `MaxTests`, `MaxLen` and `MaxOpens` are bounds of the model
and named as such in the modules; the theorems hold for every value of them.

`runtime`, `native_calls_dlsym32` and `layouts_cancel32` do not look for deadlocks:
threads end, a crash is an end, a program that was not started has no step, a record
that is laid out has no step left, and a forked child that inherits a taken lock waits
for ever.  What must not wait is `WaitersReturn`.

### Fairness

`Dynlink!FairSpec`: each thread weakly fair in its own next step (`Progress`),
the scheduler of the system.  It includes the return of the loader, of the
constructors and of `clone`, which are external and have to come back for
anything to hold.  Nobody is obliged to call, cancel or exit.  The wait for
`__ldso_lock` and for the thread-creation lock is only weakly fair: calls are
bounded, so that a waiter is not overtaken for ever; under endless overtaking
the locks of musl make no promise and neither does this model.
`CallReturns` allows a thread that is cancelled or exits in a constructor.

`Process!Spec`: `Main` and the external startup calls progress (`WF` of
`Startup`).  `LoaderPath!Spec`: the sequential program runs on.
`SyscallCp!CpFairness`: the thread is scheduled (`Cp`, `CpCancel`), and an unblocked
signal ends a wait in the kernel; a system call need not return.
`LdsoCalls!Fairness`: weak, as in `Dynlink`; nobody has to open, close or fork.
`ThreadList!Fairness`: the framework ends threads that exit and `pthread_create`
comes to an end (weak); a waiter in `pthread_join` is woken at each release of the
lock of the list, so that a release that recurs is not missed for ever (strong).
In `MCRuntime` the fairness of these three asks nothing of a part that was not
chosen, since no step of it is enabled.

## What is proved

Each proof holds for every value of the constants, under the named assumptions
`ConstantsAssumption`, `SizesAssumption`, `FenvAssumption`, `ProcessAssumption`,
`MaxCallsAssumption`, `CfgtestAssumption`, `CloneAssumption`, `EmuTlsAssumption`,
`RuntimeAssumption` and `MachineAssumption` (a null value is not an ordinary one, sizes
and bounds are natural numbers, the main thread is a thread, tops of stacks are words,
indices fit a signed half word and alignments a half word, `longjmp` is given integers,
and `dlsym` of nt32 is left out).

* `DynlinkProofs`.  `IInv` is the conjunction of the type invariant,
  `StackShape` (only the youngest activation moves; older ones wait for their
  constructors), `LockOwners` (each lock is owned exactly over the stretch of
  code between taking and releasing it), `PtcExclusion`, `CancelOff` (with a
  lock, cancellation is off), `SavedIsEntry` and `CtorsTakenUp`.
  `OpenExclusive` is not inductive: it needs `LockOwners` to know that nobody
  else can be past the lock, and that needs `CancelOff`, since a cancelled
  owner would keep a lock without being anywhere in the code.  From `IInv`:
  `TypeCorrect`, `Exclusion`, `NoLockInUserCode`, `CancelRestoration`,
  `Initialisation`, the action property `NoBirth`, and `ImplementsMonitor`,
  which maps each step to a step of `LoaderMonitor` or to a stutter.
* `LoaderPathProofs`.  `TypeCorrect`, `BoundsKept`, `VectorHolds` and
  `SlotsAreNames`, for buffers, vectors and variables of any size.  None of them
  is inductive.  `Progressing` relates the buffer to the variable: behind `next`
  there is still the copy (`Original`), and there are at most as many slots as
  separators in front of `next`.  `Chosen` says that the copy is closed by a null
  and that the vector has room for a name more than there are separators, and for
  the null; lemma `CountsColons` is the counting loop.  The step over a name rests
  on `NextStop`: it ends at a separator or at the end of the variable, never
  behind it.  `NamesInOrder` (`VectorIsSplit`) needs `Splitting`: the slots so far
  denote exactly the names in front of `next`, and each of these ends before `next`,
  so that the null that is written next shortens none of them (lemmas `FindsName` and
  `NameByFirst`).
* `MachineProofs`, floating point.  `TypeCorrect`; `RoundingAgreement`;
  `ImplementsOne`, whose only case that is not a rewriting is `feclearexcept`
  (lemma `ClearRemovesMask`).
* `MachineProofs`, system calls.  `AnswersCorrect` (`AnswersSound`).  The properties
  speak of the call on top of a thread's stack, and when a handler returns the call
  below is on top again; `AnswersInv` therefore says of every call, the interrupted
  one included, where its result is from (`ResultsKnown`), that its error is in the
  `errno` it will find, which is the one that the handler has saved (`ErrnoAt`,
  `ErrorKept`), and that its own path is in its own buffer (`PathKept`).  What each
  wrapper passes on is the lemmas `FsIsPassed`, `DbgIsPassed`, `UnwindIsPassed`,
  `OthersArePassed` and `PaddingIsEnough`.  `CallsCorrect` is the same without the filters of `MCMachine`.
* `RuntimeProofs`, calls of the loader.  `LoaderInv` has `LockHeld` (whoever is in the
  loader for an open has the lock, and a taken lock has an owner there, alive or
  not), `BaseHeld`, `RefsCount` (the framework's count of a library is the number of
  handles that threads own or are about to be returned; as a cardinality, since
  the count of each thread is unbounded), `RunningOnce` and `CtorsCared` (due
  constructors have a thread that will take them up).  `LoaderCorrect` follows from
  the first, `NobodyForgotten` (`EarlyOnlyWhileRun`) from the others: a library with
  handles and due constructors is one whose opener has not let go of the lock, or
  somebody is about to run them.
* `RuntimeProofs`, list of threads.  `ListInv` has `RingClosed` (members, and nobody
  else, are in the ring, which can be walked both ways), `SurrogatesApart`,
  `ListLockHeld`, `WordStays` (the word that `pthread_join` waits for stays as long as
  the thread, in each generation of musl) and `JoinsBorn`; `ListCorrect`
  (`ThreadsSound`) follows.
* `RuntimeProofs`, start files.  `StartInv` says how far the program has found its
  libraries in each phase, and with which options; `StartCorrect` (`StartSound`) follows
  for every link line, every directory of the program and every set of files.  What the
  search upwards comes to is lemmas `UpwardsAre` and `FrontOfSnoc`.
* `ProcessProofs`.  `IInv` adds `ThreadPointerSet` (a thread of libc's that can
  run has a tlca that points to it), `PublishedInTime` (tables are written
  exactly from `start_main` on) and `UnbornIsBlank`.  `SelfCorrect`,
  `FaultsAreForeign` and `FailedStart` follow: a libc thread never takes the
  branches of `__get_tp` that can fault.
* `SyscallCpProofs`.  `CpInv` adds `WindowShape` (`Shuffled`: what each register
  and slot holds before each move), `FlagSeen` (past the branch, no request is
  older than the call) and `BlockedBefore` (in the window the signal is blocked
  only by a request older than the call).  `Arguments` follows from the moves one
  by one (lemma `MoveShuffles`); `GapOnly` needs both of the others: a thread that
  reaches the kernel had no request at the branch, so a block can only stem from
  a handler that ran since, and in the window that one leaves for `__cp_cancel`.
* `CfgtestProofs`.  `IInv` adds `SlipsAhead`, which counts a flag that is set as a
  slip still to cost its line, and `OwnVariable`: only a package takes the variable
  from the project.  `OneLinePerSlip` is not inductive without the first, since the
  line is written by a test that makes no slip itself.  The tests that record something
  share one lemma, `ResultStep`, which says for any define what follows from its being
  written or not.
  `TrueFlags`, `Astray` and `StopReason` follow.
* `RuntimeProofs`, stacks.  `IInv` adds `AreasApart` (what musl sets aside for two
  threads, guard areas included, does not overlap) and `LimitsAligned`.
  `BoundsCorrect` is arithmetic on the record of one thread, and then
  `StacksDisjoint` follows from `AreasApart`: bounds are rounded inward.
  `StartPoint` says that every thread and every spawned child starts aligned, every
  thread at or below its base, and above its limit if its size leaves 31 bytes for the
  roundings, and `SpawnArguments` that nothing unset is used on the vfork path.
* `RuntimeProofs`, thread-local memory.  `AreaHoldsTd` rests on the rounding (lemma
  `CopyTlsRounds`), `OwnVariable` on the index that comes back out of the word (lemma
  `SubscriptIsIndex`).
* `MachineProofs`, records.  `LayoutsCorrect` (`LayoutsSound`) for the records listed in
  `Layouts`, under its assumption about bit fields and without `CancelFindsEip`, which is
  false.  `LaidOut` ties the
  offset to the number of runs laid out: `Ends` lists for each record and word size
  where every run ends, and `Fits` says of one run that it begins where the comments,
  the assembly or the framework have it and ends where the list says.  The list
  assumes nothing: the lemmas `Mcontext64Fits` to `Kstat64Fits` derive each of its
  numbers from the run before, the sizes and the alignments, and `HeadersStep` is then
  one step for all records.
* `NativeProofs`.  `NativeCorrect` (`NativeSound`) for every set of natural numbers that
  the program passes to `longjmp`, and both architectures.  What the program relies on
  holds only where a call comes back; `NativeInv` says for every instruction of every
  routine what the registers, the stack and the buffer hold when control gets there
  (`Setjmp64`, `Setjmp32`, `Longjmp64` and so on, each by the number of the instruction),
  and reads of memory only words that are not below the stack pointer.  That is the
  point of the handlers: lemma `Overwritten` takes any change below the stack pointer,
  and fails for a routine that keeps anything there.  Three ideas carry the proof.
  `Entry` is what `setjmp` is entered with, which is the program's own registers or,
  out of `sigsetjmp`, the same with the buffer in `bx`; so `setjmp` and `longjmp` have
  one invariant for both callers.  `Buffered` says what a filled buffer holds, `__ss`
  with the return address and `bx` of `sigsetjmp` included (`BackSaved`), for as long as
  the program may jump.  `Pending` follows a jump to its end: first or again, and with
  which mask.  `Lands` is shared by the `ret` of `setjmp` and the jump of `longjmp`: it
  comes to the program, or to the instruction of `sigsetjmp` behind its call, and both
  times of return go through the same tail (`TailReturns`).  The stores and the loads
  of the registers are taken together, by their place in `Order`.

Every safety property of a passing run, every action property and both refinements are
the subject of a theorem.  Only model-checked are the liveness properties (`CallReturns`,
`CreateReturns`, `ParseEnds`, `StartupEnds`, `WindowIsLeft`, `WaitersReturn`), which are
outside what the prover supports: it has neither `ENABLED` nor fairness.
## Where code and its own words disagree

A run shows each of these:

1. `dynlink.c:71-75` (`loader_path_empty`): a name that follows an empty name is
   skipped.  The slot for the empty name is `"."`, and the scan for its end starts
   behind the colon.
2. `dynlink.c:47-49` (`loader_path_long`): the test that should select `strdup`
   compares the result of `strncpy`, which is its first argument, with the end of
   the buffer; the branch is dead and a long variable is parsed without a
   terminator.
3. `pthread_arch.h:34` (`process_foreign`): the conversion of a foreign thread calls
   the first member of `__psx_vtbl`, which `psxglue.h` makes `do_global_ctors_fn`;
   `mm_convert_thread` is the fourth.  The slot stays empty and `__get_tp`
   dereferences it.
4. `dlsym.s:15-16` of nt32 (`native_calls_dlsym32`): both pushes read `12(%ecx)`,
   although the comments name the second and the first argument.
5. `pthread_arch.h:4` of nt32 (`layouts_cancel32`): `CANCEL_REG_IP` is 16, and the
   `uc_eip` that the next line calls the program counter is word 46 of the
   `mcontext_t` of `signal.h`.

Met while modelling, and not the subject of a run:

* `crt_glue.c:71`: with a musl that has `__thread_list_lock`, the main thread
  registers a word of its own where musl's threads register the lock, which its
  exit leaves taken.  `ThreadList!JoinReturns` states the exception.
* `crt_glue.c:131-151`: a surrogate thread is not put into the ring, although the
  comment says that it may call `pthread_create`.  `faulted` records what happens.
* `Scrt1.c:15` declares `__ctty` as a pointer, `Scrtldso.c:14` defines it as an array.
* `dlsym.s:18` of nt32 relies on `ecx` after a call of C code, which need not keep it.
* `ccenv.sh:534` and `569` store what slibtool says of the machine in `ccenv`, and
  read `ccenv_host`; `cfgtest.sh:673` and `850` test a constant string where the
  variable of that name is meant.

## Not modelled

* The nt32 cancellation point.  Its four instructions read the flag through a
  register and leave the arguments where they are; whether that is right depends on
  how musl's C code passes them, which is not in this repository.
* The offsets into the TEB on nt32, which only the operating system can confirm,
  and which alignment the nt32 compiler gives 64-bit integers (`Layouts` takes both).
* Vector and floating-point registers in `setjmp`, which no routine touches, and
  the three instructions of `feraiseexcept` that keep a value below the stack
  pointer: whether a handler can reach it there is the framework's decision.
* `ccenv.sh` is a search through names of tools, one pass to a section and with no
  state but its answers; what outlives it and matters to the tests is which
  compilers read standard input, and every combination of that is an initial state
  of `Cfgtest`.  `configure` is option parsing and text output, in a straight line
  under `set -e`.
* `__reset_tls`, which calls the framework's `tlsreset` and returns: what that does to
  a thread's variables is not in this repository.
* The two phases of unwinding, and whether the framework fills its table of routines in
  the order in which `psxseh.h` declares it: both are the framework's.  Here a call is
  followed to the member that it names.
* Import stubs, section tables, make rules, and headers that hold constants alone
  (`ioctl.h`, `termios.h`, `errno.h`, `fcntl.h` and others): nothing happens in them,
  and nothing here gives a second source to compare their values with.
* Wording of messages.  External code (the framework, musl, the program, the
  personality routines, compilers) appears only as far as this code uses it.

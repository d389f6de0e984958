------------------------------- MODULE Syscalls -------------------------------
(***************************************************************************)
(* The dispatch of system calls through __syscall_vtbl                     *)
(* (arch/nt32/syscall_arch.h, the nt64 file is the same), the alert for    *)
(* the calls that the framework does not have, and the wrappers that are   *)
(* one call each: src/arch/nt64/{debug,fs,cmd}.c, fchmodat, vfork, accept, *)
(* realpath and posix_fadvise; and unwind.c, whose functions call a member *)
(* each of another table of the framework, without a look at it.  A signal *)
(* handler may interrupt a call and make calls of its own; threads run at  *)
(* once.                                                                   *)
(*                                                                         *)
(* External: the framework behind the table, musl's __syscall_ret, which   *)
(* turns -4095..-1 into errno and -1, and strdup.                          *)
(***************************************************************************)
EXTENDS Integers, Sequences

CONSTANTS
  Threads,
  Depths,     \* {1}, or {1, 2} with signal handlers
  Names,      \* the calls that are made
  Absent,     \* those that the framework has no function for
  Results     \* what its functions return when they fail, or codes

ENOENT == 2
ENOMEM == 12
EINVAL == 22
ENOSYS == 38

\* What musl's __syscall_ret takes for an error, and turns into errno and -1.
Errors == -4095..-1

\* The calls of sys/fs.h, of sys/debug.h, and the others.
FsNames  == {"fs_rpath", "fs_apath", "fs_npath", "fs_dpath", "fs_mkdir", "fs_chmod",
             "fs_tmpfile", "fs_tmpdir"}
DbgNames == {"dbg_fork", "dbg_common_error", "dbg_native_error", "dbg_attach", "dbg_detach",
             "dbg_kill", "dbg_rbreak", "dbg_tbreak", "dbg_lbreak", "dbg_query_cpid",
             "dbg_query_syspid", "dbg_suspend_thread", "dbg_resume_thread",
             "dbg_event_query_one", "dbg_event_acquire", "dbg_event_respond",
             "dbg_regs_fetch", "dbg_regs_store", "dbg_event_query_all", "dbg_spawn",
             "dbg_vm_read", "dbg_vm_write", "dbg_info_get", "dbg_info_set"}
OtherNames == {"cmd_args_to_argv", "fchmodat", "vfork", "accept4", "open", "openat",
               "realpath", "posix_fadvise"}

\* The functions __unwind_<name> of sys/unwind.h.
UnwindNames == {"exception_filter", "exception_handler", "raise_exception",
                "delete_exception", "resume", "resume_or_rethrow", "force",
                "get_language_specific_data", "backtrace", "calltrace", "get_ip", "set_ip",
                "get_gr", "set_gr", "get_data_rel_base", "get_text_rel_base", "get_cfa",
                "get_ip_info", "get_region_start", "find_enclosing_function"}

SyscallsAssumption ==
  /\ Names \subseteq FsNames \cup DbgNames \cup OtherNames \cup UnwindNames
  /\ Absent \subseteq Names \ ({"posix_fadvise"} \cup UnwindNames)    \* no look at the table
  /\ Depths \in {{1}, {1, 2}}
  /\ Results \subseteq Int

VARIABLES
  errno,      \* for each thread
  frames,     \* for each thread, its call and that of a handler above it
  stack,      \* the buffers of the calls: the call whose path they hold
  wild        \* a jump through a null entry of the table

vars == <<errno, frames, stack, wild>>

Calls  == Threads \X Depths      \* who calls, and from a handler or not

-----------------------------------------------------------------------------
\* The parameters that the headers declare for the framework's functions and
\* for the wrappers of the same names, in their order: sys/fs.h,
FsDeclared(n) ==
  CASE n \in {"fs_rpath", "fs_apath", "fs_npath", "fs_dpath"} ->
         <<"fdat", "path", "options", "buffer", "buflen">>
    [] n = "fs_mkdir" -> <<"fdat", "path", "mode", "ace_flags">>
    [] n = "fs_chmod" -> <<"fdat", "path", "mode", "flags", "ace_flags">>
    [] n \in {"fs_tmpfile", "fs_tmpdir"} -> <<"flags">>

\* sys/cmd.h,
CmdDeclared == <<"args", "argbuf", "buflen", "argv", "nptrs">>

\* and sys/debug.h.
DbgDeclared(n) ==
  CASE n \in {"dbg_fork", "dbg_common_error", "dbg_native_error"} -> <<>>
    [] n = "dbg_attach" -> <<"pid">>
    [] n = "dbg_spawn" -> <<"path", "argv", "envp", "strace">>
    [] n \in {"dbg_detach", "dbg_kill", "dbg_rbreak", "dbg_tbreak", "dbg_lbreak",
              "dbg_query_cpid", "dbg_query_syspid"} -> <<"pfd">>
    [] n \in {"dbg_vm_read", "dbg_vm_write"} -> <<"pfd", "buf", "len", "addr">>
    [] n \in {"dbg_regs_fetch", "dbg_regs_store"} -> <<"pfd", "tid", "regctx">>
    [] n \in {"dbg_info_get", "dbg_info_set"} -> <<"pfd", "tid", "type", "buf", "len">>
    [] n \in {"dbg_suspend_thread", "dbg_resume_thread"} -> <<"pfd", "tid">>
    [] n \in {"dbg_event_query_one", "dbg_event_acquire", "dbg_event_respond"} ->
         <<"pfd", "evt">>
    [] n = "dbg_event_query_all" -> <<"pfd", "evt", "nelem">>

\* The members of struct __seh_vtbl, seh_<n> or seh_unwind_<n>, each with what it takes.
UnwindDeclared(n) ==
  CASE n = "exception_filter" -> <<n, "erec", "fctx", "tctx", "dctx", "routine">>
    [] n = "exception_handler" -> <<n, "erec", "fbase", "tctx", "dctx">>
    [] n \in {"raise_exception", "delete_exception", "resume", "resume_or_rethrow"} -> <<n, "e">>
    [] n = "force" -> <<n, "e", "stop_fn", "ctx">>
    [] n = "backtrace" -> <<n, "trace_fn", "ctx">>
    [] n = "calltrace" -> <<n>>
    [] n = "set_ip" -> <<n, "uwctx", "value">>
    [] n = "set_gr" -> <<n, "uwctx", "idx", "value">>
    [] n = "get_gr" -> <<n, "uwctx", "idx">>
    [] n = "get_ip_info" -> <<n, "uwctx", "pinfo">>
    [] n = "find_enclosing_function" -> <<n, "addr">>
    [] n \in {"get_language_specific_data", "get_ip", "get_data_rel_base",
              "get_text_rel_base", "get_cfa", "get_region_start"} -> <<n, "uwctx">>

\* What each wrapper passes to syscall: fs.c,
FsArguments(n) ==
  CASE n \in {"fs_rpath", "fs_apath", "fs_npath", "fs_dpath"} ->
         <<"fdat", "path", "options", "buffer", "buflen">>
    [] n = "fs_mkdir" -> <<"fdat", "path", "mode", "ace_flags">>
    [] n = "fs_chmod" -> <<"fdat", "path", "mode", "flags", "ace_flags">>
    [] OTHER -> <<"flags">>

VmArgumentsSwapped == <<"pfd", "len", "buf", "addr">>    \* mutant
VmArguments == <<"pfd", "buf", "len", "addr">>

\* debug.c,
DbgArguments(n) ==
  CASE n \in {"dbg_fork", "dbg_common_error", "dbg_native_error"} -> <<>>
    [] n = "dbg_attach" -> <<"pid">>
    [] n = "dbg_spawn" -> <<"path", "argv", "envp", "strace">>
    [] n \in {"dbg_suspend_thread", "dbg_resume_thread"} -> <<"pfd", "tid">>
    [] n \in {"dbg_regs_fetch", "dbg_regs_store"} -> <<"pfd", "tid", "regctx">>
    [] n \in {"dbg_vm_read", "dbg_vm_write"} -> VmArguments
    [] n \in {"dbg_info_get", "dbg_info_set"} -> <<"pfd", "tid", "type", "buf", "len">>
    [] n = "dbg_event_query_all" -> <<"pfd", "evt", "nelem">>
    [] n \in {"dbg_event_query_one", "dbg_event_acquire", "dbg_event_respond"} ->
         <<"pfd", "evt">>
    [] OTHER -> <<"pfd">>

\* cmd.c,
CmdArguments == <<"args", "argbuf", "buflen", "argv", "nptrs">>

\* and unwind.c: first the member that is called, then its arguments.
MemberBeside(n) ==                                       \* mutant
  CASE n = "get_cfa" -> "get_region_start" [] n = "get_region_start" -> "get_cfa" [] OTHER -> n
Member(n) == n

UnwindArguments(n) ==
  CASE n \in {"raise_exception", "delete_exception", "resume", "resume_or_rethrow"} ->
         <<Member(n), "e">>
    [] n = "force" -> <<Member(n), "e", "stop_fn", "ctx">>
    [] n = "exception_filter" -> <<Member(n), "erec", "fctx", "tctx", "dctx", "routine">>
    [] n = "exception_handler" -> <<Member(n), "erec", "fbase", "tctx", "dctx">>
    [] n = "backtrace" -> <<Member(n), "trace_fn", "ctx">>
    [] n = "calltrace" -> <<Member(n)>>
    [] n = "find_enclosing_function" -> <<Member(n), "addr">>
    [] n = "get_gr" -> <<Member(n), "uwctx", "idx">>
    [] n = "set_gr" -> <<Member(n), "uwctx", "idx", "value">>
    [] n = "set_ip" -> <<Member(n), "uwctx", "value">>
    [] n = "get_ip_info" -> <<Member(n), "uwctx", "pinfo">>
    [] OTHER -> <<Member(n), "uwctx">>

Vfork == <<>>
Fchmodat == <<"fd", "path", "mode", "flag">>
Accept == <<"fd", "addr", "len", "0", "0", "0">>
Realpath == <<"fdat", "path", "options", "buffer", "buflen">>

\* open and openat are libc's own: without O_CREAT they leave the mode out.
Arguments(n) ==
  CASE n \in FsNames -> FsArguments(n)
    [] n \in DbgNames -> DbgArguments(n)
    [] n \in UnwindNames -> UnwindArguments(n)
    [] n = "cmd_args_to_argv" -> CmdArguments
    [] n = "fchmodat" -> Fchmodat
    [] n = "vfork" -> Vfork
    [] n = "accept4" -> Accept
    [] n = "open" -> <<"path", "flags">>
    [] n = "openat" -> <<"fd", "path", "flags">>
    [] n = "realpath" -> Realpath

\* The framework's function, where it is a member of a table, and its parameters.
Parameters(n) ==
  CASE n \in FsNames -> FsDeclared(n)
    [] n \in DbgNames -> DbgDeclared(n)
    [] n \in UnwindNames -> UnwindDeclared(n)
    [] n = "cmd_args_to_argv" -> CmdDeclared
    [] n = "realpath" -> FsDeclared("fs_rpath")
    [] n \in {"open", "openat"} -> Append(Arguments(n), "mode")
    [] OTHER -> Arguments(n)

PaddedNot(k) == k                                        \* mutant
\* The arguments that __syscall<k> calls the function with.
Padded(k) == CASE k = 2 -> 3 [] k = 3 -> 4 [] OTHER -> k

\* What the function finds in its parameters.
Seen(n) ==
  [i \in DOMAIN Parameters(n) |->
     IF i <= Len(Arguments(n)) THEN Arguments(n)[i]
     ELSE IF i <= Padded(Len(Arguments(n))) THEN "zero" ELSE "garbage"]

AlertPositive(n) == ENOSYS                               \* mutant
\* __syscall_alert
Alert(n) == -ENOSYS

-----------------------------------------------------------------------------
Frame(n, saved) ==
  [name |-> n, pc |-> "call", res |-> 0, ret |-> 0, seen |-> <<>>, out |-> <<>>,
   saved |-> saved]

Init ==
  /\ errno = [t \in Threads |-> 0]
  /\ frames = [t \in Threads |-> <<>>]
  /\ stack = [c \in Calls |-> <<>>]
  /\ wild = FALSE

Depth(t) == Len(frames[t])
Top(t)   == frames[t][Depth(t)]
At(t, pc) == Depth(t) > 0 /\ Top(t).pc = pc

\* The frame on top of t's stack becomes f.
Replace(t, f) == frames' = [frames EXCEPT ![t][Depth(t)] = f]

ErrnoShared(t, e) == errno' = [u \in Threads |-> e]      \* mutant
\* *__errno_location() = e in thread t
SetErrno(t, e) == errno' = [errno EXCEPT ![t] = e]

BufStatic(t) == <<CHOOSE u \in Threads : TRUE, 1>>       \* mutant
\* The buffer of the call on top of t's stack.
Buf(t) == <<t, Depth(t)>>

-----------------------------------------------------------------------------
\* A call, from the thread itself or from a handler that interrupts its call.
Call(t, n) ==
  /\ Depth(t) + 1 \in Depths
  /\ frames' = [frames EXCEPT ![t] = Append(@, Frame(n, IF Depth(t) = 1 THEN errno[t] ELSE 0))]
  /\ UNCHANGED <<errno, stack, wild>>

\* realpath(0, ...) makes no call.
RealpathNull(t) ==
  /\ At(t, "call") /\ Top(t).name = "realpath"
  /\ Replace(t, [Top(t) EXCEPT !.pc = "ran", !.res = -EINVAL])
  /\ UNCHANGED <<errno, stack, wild>>

DispatchUnchecked(t) ==                                  \* mutant
  /\ At(t, "call") /\ Top(t).name \in Absent
  /\ wild' = TRUE
  /\ UNCHANGED <<errno, frames, stack>>
\* __syscall<k>: no function in the table.
DispatchAbsent(t) ==
  /\ At(t, "call") /\ Top(t).name \in Absent
  /\ Replace(t, [Top(t) EXCEPT !.pc = "ran", !.res = Alert(Top(t).name)])
  /\ UNCHANGED <<errno, stack, wild>>

\* __syscall<k>: the framework's function runs.
Dispatch(t) ==
  /\ At(t, "call") /\ Top(t).name \notin Absent \cup {"posix_fadvise"} \cup UnwindNames
  /\ \E r \in Results \cup {0} :
       /\ Replace(t, [Top(t) EXCEPT !.pc = "ran", !.res = r, !.seen = Seen(Top(t).name)])
       /\ stack' = IF Top(t).name = "realpath" /\ r >= 0
                   THEN [stack EXCEPT ![Buf(t)] = <<t, Depth(t)>>] ELSE stack
  /\ UNCHANGED <<errno, wild>>

\* posix_fadvise(fd, base, len, advice) returns 0 and makes no call.
posix_fadvise(t) ==
  /\ At(t, "call") /\ Top(t).name = "posix_fadvise"
  /\ Replace(t, [Top(t) EXCEPT !.pc = "return"])
  /\ UNCHANGED <<errno, stack, wild>>

\* __unwind_<name>: the member runs, and what it returns is returned as it is.
Unwind(t) ==
  /\ At(t, "call") /\ Top(t).name \in UnwindNames
  /\ \E r \in Results \cup {0} :
       Replace(t, [Top(t) EXCEPT !.pc = "return", !.ret = r, !.seen = Seen(Top(t).name)])
  /\ UNCHANGED <<errno, stack, wild>>

\* The end of a wrapper: return syscall(...).
Convert(t) ==
  /\ At(t, "ran") /\ Top(t).name # "realpath"
  /\ IF Top(t).res \in Errors
     THEN SetErrno(t, -Top(t).res) /\ Replace(t, [Top(t) EXCEPT !.pc = "return", !.ret = -1])
     ELSE UNCHANGED errno /\ Replace(t, [Top(t) EXCEPT !.pc = "return", !.ret = Top(t).res])
  /\ UNCHANGED <<stack, wild>>

\* realpath, if (ecode < 0)
RealpathFails(t) ==
  /\ At(t, "ran") /\ Top(t).name = "realpath" /\ Top(t).res < 0
  /\ SetErrno(t, -Top(t).res)
  /\ Replace(t, [Top(t) EXCEPT !.pc = "return", !.ret = -1])
  /\ UNCHANGED <<stack, wild>>

\* realpath, the path to the caller's buffer or to one of its own, for which
\* there may be no memory.  A handler gives its buffer: strdup is not for it.
RealpathCopies(t) ==
  /\ At(t, "ran") /\ Top(t).name = "realpath" /\ Top(t).res >= 0
  /\ \/ /\ Replace(t, [Top(t) EXCEPT !.pc = "return", !.out = stack[Buf(t)]])
        /\ UNCHANGED errno
     \/ /\ Depth(t) = 1
        /\ SetErrno(t, ENOMEM)
        /\ Replace(t, [Top(t) EXCEPT !.pc = "return", !.res = -ENOMEM, !.ret = -1])
  /\ UNCHANGED <<stack, wild>>

\* The caller has its result; a handler puts back the errno that it found.
Return(t) ==
  /\ At(t, "return")
  /\ frames' = [frames EXCEPT ![t] = SubSeq(@, 1, Len(@) - 1)]
  /\ errno' = [errno EXCEPT ![t] = IF Depth(t) = 2 THEN Top(t).saved ELSE @]
  /\ stack' = [stack EXCEPT ![<<t, Depth(t)>>] = <<>>]
  /\ UNCHANGED wild

Step(t) ==
  \/ \E n \in Names : Call(t, n)
  \/ RealpathNull(t)
  \/ DispatchAbsent(t) \/ Dispatch(t) \/ posix_fadvise(t) \/ Unwind(t)
  \/ Convert(t) \/ RealpathFails(t) \/ RealpathCopies(t)
  \/ Return(t)

Next == ~wild /\ \E t \in Threads : Step(t)

Spec == Init /\ [][Next]_vars

-----------------------------------------------------------------------------
FrameOK(f) ==
  /\ f.name \in Names
  /\ f.pc \in {"call", "ran", "return"}
  /\ f.res \in Results \cup {0, -EINVAL, -ENOMEM, -ENOSYS}
  /\ f.ret \in Results \cup {0, -1}
  /\ f.out \in Calls \cup {<<>>}
  /\ f.saved >= 0

\* The state keeps its shape, and no call goes through a null entry.
TypeOK ==
  /\ errno \in [Threads -> Nat]
  /\ \A t \in Threads : Depth(t) <= 2 /\ \A d \in 1..Depth(t) : FrameOK(frames[t][d])
  /\ stack \in [Calls -> Calls \cup {<<>>}]
  /\ ~wild

\* Whoever is told of a failure finds the error of that very call in errno,
\* whatever other threads and its own signal handlers have called in between
\* (fs.h:38-44, realpath.c:28-31).
ErrorIsOwn ==
  \A t \in Threads :
    At(t, "return") /\ Top(t).ret = -1 /\ Top(t).res \in Errors => errno[t] = -Top(t).res

\* A path is the one of the call that returns it, in threads and in handlers:
\* "async-safe, thread-safe, and re-entrant" (fs.h:41, realpath.c:19).
PathIsOwn ==
  \A t \in Threads :
    At(t, "return") /\ Top(t).name = "realpath" /\ Top(t).ret # -1
      => Top(t).out = <<t, Depth(t)>>

\* The framework finds in each parameter what its header says belongs there, or
\* zero where a call leaves its last one out, and it is the member that was meant
\* that finds it: members beside each other have the same type (syscall_arch.h:27-37,
\* debug.h:190-243, fs.h:17-55, cmd.h:12-35, psxseh.h:29-86).
NoGarbage ==
  \A t \in Threads : Depth(t) > 0 =>
    \A i \in DOMAIN Top(t).seen : Top(t).seen[i] \in {Parameters(Top(t).name)[i], "zero"}

\* A call that the framework does not have is reported as such to the caller
\* (vtbl.c:20-33).
AbsentIsReported ==
  \A t \in Threads :
    At(t, "return") /\ Top(t).name \in Absent /\ Top(t).res # -EINVAL
      => Top(t).ret = -1 /\ errno[t] = ENOSYS

\* What the caller of a wrapper is told is about its own call.
AnswersSound == TypeOK /\ ErrorIsOwn /\ PathIsOwn /\ NoGarbage /\ AbsentIsReported
=============================================================================

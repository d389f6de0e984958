SPECIFICATION MachineSpec
CONSTANTS
  Entries <- ButDlsymOfNt32
  Values = {0, 1, 2}
  Threads = {t1, t2}
  Depths = {1, 2}
  Names = {
    "fs_rpath", "fs_apath", "fs_npath", "fs_dpath", "fs_mkdir", "fs_chmod", "fs_tmpfile",
    "fs_tmpdir", "dbg_fork", "dbg_common_error", "dbg_native_error", "dbg_attach",
    "dbg_detach", "dbg_kill", "dbg_rbreak", "dbg_tbreak", "dbg_lbreak", "dbg_query_cpid",
    "dbg_query_syspid", "dbg_suspend_thread", "dbg_resume_thread", "dbg_event_query_one",
    "dbg_event_acquire", "dbg_event_respond", "dbg_regs_fetch", "dbg_regs_store",
    "dbg_event_query_all", "dbg_spawn", "dbg_vm_read", "dbg_vm_write", "dbg_info_get",
    "dbg_info_set", "cmd_args_to_argv", "fchmodat", "vfork", "accept4", "open", "openat",
    "realpath", "posix_fadvise", "exception_filter", "exception_handler", "raise_exception",
    "delete_exception", "resume", "resume_or_rethrow", "force",
    "get_language_specific_data", "backtrace", "calltrace", "get_ip", "set_ip", "get_gr",
    "set_gr", "get_data_rel_base", "get_text_rel_base", "get_cfa", "get_ip_info",
    "get_region_start", "find_enclosing_function"}
  Absent = {"dbg_fork", "vfork"}
  Results <- Returned
  Flag = {invalid, inexact}
  Mode = {nearest, upward, downward}
  Nearest = nearest
  NoEnv = noEnv
INVARIANTS
  RoundingAgrees
  NativeSound
  AnswersSound
  LayoutsSound
PROPERTIES
  OneEnvironment

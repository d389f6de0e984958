----------------------------- MODULE MCNativeCalls -----------------------------
(***************************************************************************)
(* The dlsym of nt32 alone, called by the program of NativeCalls from both *)
(* of its functions.                                                       *)
(***************************************************************************)
EXTENDS NativeCalls

DlsymOfNt32 == {<<"nt32", "dlsym">>}
=============================================================================

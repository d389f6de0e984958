------------------------------ MODULE StartFiles ------------------------------
(***************************************************************************)
(* From a link line to libc: which of the start files of crt/nt64 (the     *)
(* nt32 ones are the same) end up in a program, what their weak symbols    *)
(* resolve to, how _start and __libc_loader_init find the framework and    *)
(* libc, and the context that __libc_entry_routine hands to __psx_init.    *)
(* The loader calls of peldso.h, the files of the installation and what    *)
(* the two libraries export are external.                                  *)
(***************************************************************************)
EXTENDS Naturals, Sequences, FiniteSets, SequencesExt

CONSTANTS
  Optional,    \* the option objects that a link line may carry
  AppDir,      \* directory of the program, a sequence of names
  Places       \* the files that may be there

Objects == {"crt1", "Scrt1", "crtidata", "crtldso", "crtvrfs", "Scrtldso", "Scrtvrfs",
            "crtposix", "crtdinga"}

StartFilesAssumption ==
  /\ Optional \subseteq {"crtposix", "crtdinga"}
  /\ AppDir \in Seq(STRING) /\ AppDir # <<>>

VARIABLES
  line,        \* the objects of the program
  files,       \* the files that are there
  exports,     \* what the loader and libc export
  phase,       \* how far the program has come
  hroot,       \* directory handles set by the first loader call
  hdsodir,
  ldso, libc,  \* the two libraries, by the place they were loaded from
  status,      \* status that the process was ended with
  options, ctty   \* what the context handed to __psx_init says

vars == <<line, files, exports, phase, hroot, hdsodir, ldso, libc, status, options, ctty>>

\* A null pointer, and a variable that is not set yet.
Null == <<>>

-----------------------------------------------------------------------------
\* Linking.

\* The symbols that an object defines.
Defines(o) ==
  CASE o = "crt1"     -> {"_start"}
    [] o = "Scrt1"    -> {"_start", "__libc_loader_init"}
    [] o = "crtidata" -> {"__libc_loader_init"}
    [] o = "crtldso"  -> {"__libc_loader_init", "__crtopt_ldso"}
    [] o = "crtvrfs"  -> {"__libc_loader_init", "__crtopt_vrfs"}
    [] o = "Scrtldso" -> {"__crtopt_ldso", "__ctty"}
    [] o = "Scrtvrfs" -> {"__crtopt_vrfs", "__ctty"}
    [] o = "crtposix" -> {"__crtopt_posix"}
    [] o = "crtdinga" -> {"__crtopt_dinga"}

\* The symbols that crt1.c and Scrt1.c have a weak definition of.
Weak == {"__crtopt_posix", "__crtopt_dinga", "__crtopt_ldso", "__crtopt_vrfs", "__ctty"}

\* Static programs take Scrt1 and the objects named after it, others crt1.
Mixed(l) == "crt1" \in l /\ l \cap {"Scrt1", "Scrtldso", "Scrtvrfs"} # {}

\* The link lines that the linker takes: nothing undefined, nothing twice.
Linkable(l) ==
  /\ \A s \in {"_start", "__libc_loader_init"} : \E o \in l : s \in Defines(o)
  /\ \A o, p \in l : o # p => Defines(o) \cap Defines(p) = {}
  /\ ~Mixed(l)

Lines == {l \in SUBSET ((Objects \ {"crtposix", "crtdinga"}) \cup Optional) : Linkable(l)}

Linked(s) == \E o \in line : s \in Defines(o)

\* The symbol that holds the bit of an option.
OptionSymbol ==
  [posix |-> "__crtopt_posix", dinga |-> "__crtopt_dinga",
   ldso |-> "__crtopt_ldso", vrfs |-> "__crtopt_vrfs"]

OptionsFirst ==                                          \* mutant
  IF Linked("__crtopt_posix") THEN {"posix"}
  ELSE {o \in {"dinga", "ldso", "vrfs"} : Linked(OptionSymbol[o])}

\* The flags that _start hands on: a bit for each option with an object of its
\* own in the program, the others are the zero of __disabled.
Options == {o \in {"posix", "dinga", "ldso", "vrfs"} : Linked(OptionSymbol[o])}

\* What Scrt1 reads in __ctty, which it declares as a pointer: its own null
\* pointer, or the first characters of the array that another object defines.
StaticCtty == IF Linked("__ctty") THEN <<"characters">> ELSE Null

-----------------------------------------------------------------------------
\* The loader calls of peldso.h.

\* The directories above a directory and the directory itself, nearest first.
Upwards(d) == [i \in 1..Len(d) |-> SubSeq(d, 1, Len(d) - i + 1)]

\* The nearest directory above the program that has a root-relative name.
RootOf(name) == SelectInSeq(Upwards(AppDir), LAMBDA d : d \o name \in files)

Root(name) == IF RootOf(name) = 0 THEN Null ELSE Upwards(AppDir)[RootOf(name)]

rrldso == <<"lib", "libpsxscl.so">>
rrlibc == <<"lib", "libc.so">>
rrctty == <<"bin", "ntctty.exe">>
sdldso == <<"libpsxscl.so">>
sdlibc == <<"libc.so">>
sdctty == <<"ntctty.exe">>

-----------------------------------------------------------------------------
Init ==
  /\ line \in Lines
  /\ files \in SUBSET Places
  /\ exports \in SUBSET {"__psx_init", "__libc_entry_routine"}
  /\ phase = "_start"
  /\ hroot = Null /\ hdsodir = Null
  /\ ldso = Null /\ libc = Null
  /\ status = "none"
  /\ options = {} /\ ctty = Null

Constant == UNCHANGED <<line, files, exports>>

\* __libc_entry_routine: the context is made from its arguments, and handed to
\* the __psx_init that came with them.
EntryRoutine(name) ==
  /\ phase' = "psx_init"
  /\ options' = Options /\ ctty' = name

TerminateZero(s) == phase' = "ended" /\ UNCHANGED status     \* mutant
\* __ldso_terminate_current_process(status)
Terminate(s) == phase' = "ended" /\ status' = s

\* Scrt1: the framework and libc are part of the program.
StartStatic ==
  /\ phase = "_start" /\ "Scrt1" \in line
  /\ EntryRoutine(StaticCtty)
  /\ ldso' = <<"program">> /\ libc' = <<"program">>
  /\ UNCHANGED <<hroot, hdsodir, status>> /\ Constant

\* crtidata: the system's loader has resolved the imports before _start.
StartImports ==
  /\ phase = "_start" /\ "crtidata" \in line
  /\ EntryRoutine(Null)
  /\ ldso' = <<"imports">> /\ libc' = <<"imports">>
  /\ UNCHANGED <<hroot, hdsodir, status>> /\ Constant

\* crtldso: the framework by its name below the root of the tree.
LoadByRoot ==
  /\ phase = "_start" /\ "crtldso" \in line
  /\ IF Root(rrldso) = Null
     THEN /\ Terminate("not_found")
          /\ UNCHANGED <<hroot, hdsodir, ldso>>
     ELSE /\ hroot' = Root(rrldso)
          /\ hdsodir' = Root(rrldso) \o <<"lib">>
          /\ ldso' = Root(rrldso) \o rrldso
          /\ phase' = "libc"
          /\ UNCHANGED status
  /\ UNCHANGED <<libc, options, ctty>> /\ Constant

\* crtvrfs: the framework by its name beside the program.
LoadBeside ==
  /\ phase = "_start" /\ "crtvrfs" \in line
  /\ IF AppDir \o sdldso \notin files
     THEN /\ Terminate("not_found")
          /\ UNCHANGED <<hdsodir, ldso>>
     ELSE /\ hdsodir' = AppDir
          /\ ldso' = AppDir \o sdldso
          /\ phase' = "libc"
          /\ UNCHANGED status
  /\ UNCHANGED <<hroot, libc, options, ctty>> /\ Constant

\* __ldso_load_framework_library(&libcbase, at, name, ...)
LoadLibc(at, name) ==
  /\ phase = "libc"
  /\ IF at \o name \notin files
     THEN Terminate("not_found") /\ UNCHANGED libc
     ELSE libc' = at \o name /\ phase' = "symbols" /\ UNCHANGED status
  /\ UNCHANGED <<hroot, hdsodir, ldso, options, ctty>> /\ Constant

LibcByRootSearched ==                                    \* mutant
  "crtldso" \in line /\ LoadLibc(Root(rrlibc), rrlibc)
LibcByRoot == "crtldso" \in line /\ LoadLibc(hroot, rrlibc)

LibcBesideRoot ==                                        \* mutant
  "crtvrfs" \in line /\ LoadLibc(hroot, sdlibc)
LibcBeside == "crtvrfs" \in line /\ LoadLibc(hdsodir, sdlibc)

CttyNameRoot ==                                          \* mutant
  rrctty
\* The name of the pty server that crtldso and crtvrfs hand on.
CttyName == IF "crtldso" \in line THEN rrctty ELSE sdctty

EnterUnchecked ==                                        \* mutant
  /\ phase = "symbols"
  /\ EntryRoutine(CttyName) /\ UNCHANGED status
  /\ UNCHANGED <<hroot, hdsodir, ldso, libc>> /\ Constant
\* Both routines looked up by name, and libc entered.
Enter ==
  /\ phase = "symbols"
  /\ IF exports = {"__psx_init", "__libc_entry_routine"}
     THEN EntryRoutine(CttyName) /\ UNCHANGED status
     ELSE Terminate("NT_STATUS_NOINTERFACE") /\ UNCHANGED <<options, ctty>>
  /\ UNCHANGED <<hroot, hdsodir, ldso, libc>> /\ Constant

Next ==
  \/ StartStatic \/ StartImports
  \/ LoadByRoot \/ LoadBeside
  \/ LibcByRoot \/ LibcBeside
  \/ Enter

Spec == Init /\ [][Next]_vars

-----------------------------------------------------------------------------
Loaded == line \cap {"crtldso", "crtvrfs"} # {}

\* The state keeps its shape.
TypeOK ==
  /\ line \in Lines /\ files \subseteq Places
  /\ phase \in {"_start", "libc", "symbols", "psx_init", "ended"}
  /\ status = "none" <=> phase # "ended"
  /\ ldso \in files \cup {Null, <<"program">>, <<"imports">>}
  /\ libc \in files \cup {Null, <<"program">>, <<"imports">>}
  /\ options \subseteq {"posix", "dinga", "ldso", "vrfs"}

\* libc and the framework of a process come from the same directory, whatever
\* other copies lie on the way (crtldso.c:61, crtvrfs.c:58).
OneTree == phase = "psx_init" /\ Loaded => Front(ldso) = Front(libc)

\* The options tell the framework where it was found, below a root or beside
\* the program, and every option object of the line (crt1.c:26-31).
OptionsTell ==
  phase = "psx_init" =>
    /\ ~{"ldso", "vrfs"} \subseteq options
    /\ Loaded => Front(ldso) = IF "vrfs" \in options THEN AppDir ELSE hroot \o <<"lib">>
    /\ Loaded => ("ldso" \in options \/ "vrfs" \in options)
    /\ \A o \in line \cap Optional : \E b \in options : OptionSymbol[b] \in Defines(o)

\* The pty servers of the trees that have a framework.
Servers ==
  {d \o rrctty : d \in {e \in ToSet(Upwards(AppDir)) : e \o rrldso \in files}}
    \cup (IF AppDir \o sdldso \in files THEN {AppDir \o sdctty} ELSE {})

\* The framework looks for the pty server at the root, or beside the program,
\* as the options say; the name it is handed leads it to the server of a tree
\* that was found (crtldso.c:29-31, crtvrfs.c:27-28).
CttyInTree ==
  phase = "psx_init" /\ Loaded =>
    (IF "ldso" \in options THEN hroot ELSE hdsodir) \o ctty \in Servers

\* libc is entered through routines that the two libraries have.
EnteredByExport ==
  phase = "psx_init" /\ Loaded => exports = {"__psx_init", "__libc_entry_routine"}

\* A program whose libraries are all in its place comes to its __psx_init.
Complete ==
  /\ exports = {"__psx_init", "__libc_entry_routine"}
  /\ "crtldso" \in line => \A d \in ToSet(Upwards(AppDir)) :
       d \o rrldso \in files => d \o rrlibc \in files
  /\ "crtldso" \in line => \E d \in ToSet(Upwards(AppDir)) : d \o rrldso \in files
  /\ "crtvrfs" \in line => {AppDir \o sdldso, AppDir \o sdlibc} \subseteq files
ReachesLibc == Complete => phase # "ended"

\* What a program is started with, or that it is not.
StartSound ==
  /\ TypeOK
  /\ OneTree /\ OptionsTell /\ CttyInTree /\ EnteredByExport /\ ReachesLibc
=============================================================================

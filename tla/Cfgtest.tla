------------------------------ MODULE Cfgtest ------------------------------
(***************************************************************************)
(* sofort's configuration tests (sofort/cfgtest/cfgtest.sh): the script of *)
(* a project asks a compiler questions, and the answers become lines of    *)
(* cfgdefs.mk.  The state is shell variables that outlive a test.          *)
(*                                                                         *)
(* A test is one step: configure runs nothing beside it.  A question is a  *)
(* name, and what the compilers and pkgconf answer is fixed in accepts.    *)
(* Headers for ad-hoc inclusion and a.out, which nothing reads, are left   *)
(* out; the source file of a compiler without standard input is there only *)
(* during a test, so that all of it is that a test without one cannot      *)
(* remove it.                                                              *)
(***************************************************************************)
EXTENDS Naturals, FiniteSets

CONSTANTS
  Name,      (* what is asked for                                          *)
  MakeVar,   (* make variables of the project                              *)
  MaxTests   (* bound: tests in a behaviour                                *)

ASSUME CfgtestAssumption == MaxTests \in Nat

VARIABLES
  cfgtype,   (* mb_cfgtest_cfgtype                                         *)
  input,     (* ccenv's findings: which compilers read standard input      *)
  accepts,   (* the answers: sections and names                            *)
  makevar,   (* mb_cfgtest_makevar                                         *)
  unit,      (* cfgtest_internal_unit_test is set                          *)
  mk,        (* cfgdefs.mk: make variables and what was added to them      *)
  stopped,   (* what failed under set -e, if the script has stopped        *)
  meant,     (* history: the variable that the project named last          *)
  asked,     (* history: mk as the caller means it                         *)
  slips,     (* history: unit tests without a result or without the project's
                variable in mb_cfgtest_makevar                             *)
  tests      (* number of tests made                                       *)

files == <<input, accepts>>
caller == <<meant, asked, slips>>
vars == <<cfgtype, files, makevar, unit, mk, stopped, caller, tests>>

Section == {"host", "native"}
Prefix == {"HAVE", "HAVE_NO", "HAVE_DECL", "SIZEOF", "PKG"}
Part == {"PKGCONF", "CFLAGS", "LDFLAGS"}
Stop == {"no", "test", "package", "make"}

\* Make variables: the compiler flags of a section, the project's own, and the
\* ones that a package gets.  <<"project", "">> is the empty name.
Flags == {"flags"} \X Section
Project == {"project"} \X (MakeVar \cup {""})
Package == Part \X (Section \X Name)
Line == (Flags \cup Project \cup Package) \X (Prefix \X Name)

\* Shape of the state.
TypeOK ==
  /\ cfgtype \in Section
  /\ input \in [Section -> BOOLEAN]
  /\ accepts \subseteq Section \X Name
  /\ makevar \in Project \cup Package
  /\ unit \in BOOLEAN
  /\ mk \subseteq Line /\ asked \subseteq Line
  /\ stopped \in Stop
  /\ meant \in Project /\ slips \in 0 .. tests
  /\ tests \in 0 .. MaxTests

\* configure has run ccenv, and now reads the project's cfgdefs.sh.
Init ==
  /\ cfgtype \in Section
  /\ input \in [Section -> BOOLEAN]
  /\ accepts \in SUBSET (Section \X Name)
  /\ makevar = <<"project", "">>
  /\ unit = FALSE
  /\ mk = {} /\ asked = {}
  /\ stopped = "no"
  /\ meant = <<"project", "">> /\ slips = 0
  /\ tests = 0

\* The compiler, or pkgconf, of the section accepts what a test feeds it.
Accepts(n) == <<cfgtype, n>> \in accepts

\* cfgtest_cflags_append: the variable of the section.
cflags == <<"flags", cfgtype>>

-----------------------------------------------------------------------------
(* Code with a slip in it, for mutation runs.                              *)

\* the result goes to mb_cfgtest_makevar whoever asks, and the flag stays
record_sticky(flag, define) ==
  /\ mk' = mk \cup {<<IF flag THEN makevar ELSE cflags, define>>}
  /\ unit' = flag

\* the verdict is not looked at
header_absence_any(n, u, t) ==
  /\ mk' = mk \cup {<<IF unit \/ u THEN makevar ELSE cflags, <<"HAVE_NO", n>> >>}
  /\ unit' = FALSE
  /\ UNCHANGED stopped

\* the epilog removes a source file that is not there
attr_visibility_removes(n, t) ==
  /\ unit' = unit /\ mk' = mk
  /\ stopped' = IF t THEN "no" ELSE "test"

-----------------------------------------------------------------------------
(* The tests: n is asked about; u says that the call is one of             *)
(* cfgtest_unit_*, which set the flag first; t that the caller tests the   *)
(* result, which keeps set -e from acting on it.                           *)

\* cfgtest_cflags_append or cfgtest_makevar_append, both of which unset the flag.
record(flag, define) ==
  /\ mk' = mk \cup {<<IF flag THEN makevar ELSE cflags, define>>}
  /\ unit' = FALSE

\* A test that ends without an append.
keep(flag) == unit' = flag /\ mk' = mk

\* The status of a function, where set -e looks at it.
return(ok, t, what) == stopped' = IF ok \/ t THEN "no" ELSE what

header_presence(n, u, t) ==
  /\ IF Accepts(n) THEN record(unit \/ u, <<"HAVE", n>>) ELSE keep(unit \/ u)
  /\ return(Accepts(n), t, "test")

\* The status is that of the last epilog: success if the header is there.
header_absence(n, u, t) ==
  /\ IF Accepts(n) THEN keep(unit \/ u) ELSE record(unit \/ u, <<"HAVE_NO", n>>)
  /\ return(Accepts(n), t, "test")

interface_presence(n, u, t) ==
  /\ IF Accepts(n) THEN record(unit \/ u, <<"HAVE", n>>) ELSE keep(unit \/ u)
  /\ return(Accepts(n), t, "test")

\* An expression that is more than a name is not recorded.
decl_presence(n, plain, u, t) ==
  /\ IF Accepts(n) /\ plain
     THEN record(unit \/ u, <<"HAVE_DECL", n>>)
     ELSE keep(unit \/ u)
  /\ return(Accepts(n), t, "test")

\* Of the guesses at most one compiles.
type_size(n, u, t) ==
  /\ IF Accepts(n) THEN record(unit \/ u, <<"SIZEOF", n>>) ELSE keep(unit \/ u)
  /\ return(Accepts(n), t, "test")

attr_visibility(n, t) == keep(unit) /\ return(Accepts(n), t, "test")
code_snippet_asm(n, t) == keep(unit) /\ return(Accepts(n), t, "test")
macro_definition(n, t) == keep(unit) /\ return(Accepts(n), t, "test")
library_presence(n, t) == keep(unit) /\ return(Accepts(n), t, "test")
compiler_switch(n, t) == keep(unit) /\ return(Accepts(n), t, "test")
compiler_switch_arg(n, t) == compiler_switch(n, t)

\* The epilog removes a source file that this test did not write: set -e acts
\* on it where nobody tests the result.
package_exists(n, t) ==
  keep(unit) /\ return(Accepts(n) /\ input[cfgtype], t, "package")

package_lines(n) == {<< <<p, <<cfgtype, n>> >>, <<"PKG", n>> >> : p \in Part}

\* Three times cfgtest_makevar_set, each with a name in mb_cfgtest_makevar.
package_config(n) ==
  /\ IF Accepts(n)
     THEN /\ mk' = mk \cup package_lines(n)
          /\ makevar' = <<"LDFLAGS", <<cfgtype, n>> >>
          /\ unit' = FALSE
     ELSE UNCHANGED <<mk, makevar, unit>>
  /\ UNCHANGED stopped

-----------------------------------------------------------------------------
(* The caller.                                                             *)

Running == stopped = "no"

Begin == Running /\ tests < MaxTests /\ tests' = tests + 1

\* What a test with a result is meant to write, and where.
Means(found, u, define) ==
  /\ asked' = IF found THEN asked \cup {<<IF u THEN meant ELSE cflags, define>>}
                       ELSE asked
  /\ slips' = IF u /\ ~(found /\ makevar \in Project) THEN slips + 1 ELSE slips

Recording(n, u, t) ==
  /\ Begin
  /\ \/ header_presence(n, u, t) /\ Means(Accepts(n), u, <<"HAVE", n>>)
     \/ header_absence(n, u, t) /\ Means(~Accepts(n), u, <<"HAVE_NO", n>>)
     \/ interface_presence(n, u, t) /\ Means(Accepts(n), u, <<"HAVE", n>>)
     \/ \E plain \in BOOLEAN :
          /\ decl_presence(n, plain, u, t)
          /\ Means(Accepts(n) /\ plain, u, <<"HAVE_DECL", n>>)
     \/ type_size(n, u, t) /\ Means(Accepts(n), u, <<"SIZEOF", n>>)
  /\ UNCHANGED <<cfgtype, files, makevar, meant>>

Asking(n, t) ==
  /\ Begin
  /\ \/ attr_visibility(n, t)
     \/ code_snippet_asm(n, t)
     \/ macro_definition(n, t)
     \/ library_presence(n, t)
     \/ compiler_switch(n, t)
     \/ compiler_switch_arg(n, t)
     \/ package_exists(n, t)
  /\ UNCHANGED <<cfgtype, files, makevar, caller>>

Configuring(n) ==
  /\ Begin
  /\ package_config(n)
  /\ asked' = IF Accepts(n) THEN asked \cup package_lines(n) ELSE asked
  /\ UNCHANGED <<cfgtype, files, meant, slips>>

\* The section is set before make is asked for its flags, in assignments that
\* set -e looks at.  The caller does not test the call.
host_section ==
  /\ Running
  /\ cfgtype' = "host"
  /\ stopped' \in {"no", "make"}
  /\ UNCHANGED <<files, makevar, unit, mk, caller, tests>>

native_section ==
  /\ Running
  /\ cfgtype' = "native"
  /\ stopped' \in {"no", "make"}
  /\ UNCHANGED <<files, makevar, unit, mk, caller, tests>>

\* The project names the variable for the unit tests that follow.
SetMakevar(v) ==
  /\ Running /\ makevar # <<"project", v>>
  /\ makevar' = <<"project", v>> /\ meant' = makevar'
  /\ UNCHANGED <<cfgtype, files, unit, mk, stopped, asked, slips, tests>>

\* The script has ended.
Over == (~Running \/ tests = MaxTests) /\ UNCHANGED vars

Next ==
  \/ \E n \in Name, u, t \in BOOLEAN : Recording(n, u, t)
  \/ \E n \in Name, t \in BOOLEAN : Asking(n, t)
  \/ \E n \in Name : Configuring(n)
  \/ host_section \/ native_section
  \/ \E v \in MakeVar : SetMakevar(v)
  \/ Over

Spec == Init /\ [][Next]_vars

-----------------------------------------------------------------------------
(* Properties.                                                             *)

\* What the compiler flags of a section say is so for that section's compiler,
\* however flags and variables were left behind: a misplaced result is missing
\* where it belongs and never wrong there.
FlagsAreTrue ==
  \A s \in Section, n \in Name :
    /\ \A p \in {"HAVE", "HAVE_DECL", "SIZEOF"} :
         << <<"flags", s>>, <<p, n>> >> \in mk => <<s, n>> \in accepts
    /\ << <<"flags", s>>, <<"HAVE_NO", n>> >> \in mk => <<s, n>> \notin accepts

\* Results go astray one by one: a unit test that slips, because it finds nothing
\* and leaves its flag, or because a package test has left the name of its own
\* variable, puts one line of cfgdefs.mk at most where the caller did not mean it,
\* and keeps one at most from where he did, through all tests that follow.  A
\* caller who never slips has every result in its place.
OneLinePerSlip ==
  /\ Cardinality(mk \ asked) <= slips
  /\ Cardinality(asked \ mk) <= slips

\* What stops a project's script.  A test of the compiler stops it only if the
\* compiler of the section refuses something, whether or not it reads standard
\* input.  A package test also stops it where the compiler does not.
StopsForARefusal ==
  LET refused == \E n \in Name : <<cfgtype, n>> \notin accepts
  IN  /\ stopped = "test" => refused
      /\ stopped = "package" => refused \/ ~input[cfgtype]

-----------------------------------------------------------------------------
(* The inductive invariant (CfgtestProofs).                                *)

\* A flag that is left behind is a slip that has not cost anything yet.
SlipsAhead ==
  LET flag == IF unit THEN 1 ELSE 0
  IN  /\ IsFiniteSet(mk) /\ IsFiniteSet(asked)
      /\ Cardinality(mk \ asked) + flag <= slips
      /\ Cardinality(asked \ mk) + flag <= slips

\* Only a package takes the variable from the project.
OwnVariable == makevar \in Project => makevar = meant

IInv == TypeOK /\ FlagsAreTrue /\ SlipsAhead /\ OwnVariable /\ StopsForARefusal

=============================================================================

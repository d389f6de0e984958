--------------------------- MODULE CfgtestProofs ---------------------------
(***************************************************************************)
(* Proofs about Cfgtest: whatever is asked, in whatever order, of whatever *)
(* compilers.                                                              *)
(***************************************************************************)
EXTENDS Cfgtest, Integers, FiniteSetTheorems, TLAPS

\* One more element on either side of a difference costs one at most, and none
\* if both sides get it.
LEMMA OneMore ==
  ASSUME NEW A, NEW B, IsFiniteSet(A), IsFiniteSet(B), NEW x, NEW y
  PROVE  /\ IsFiniteSet(A \cup {x})
         /\ Cardinality(A \ B) \in Nat
         /\ Cardinality((A \cup {x}) \ (B \cup {y})) \in Nat
         /\ Cardinality((A \cup {x}) \ (B \cup {y})) <= Cardinality(A \ B) + 1
         /\ x = y => Cardinality((A \cup {x}) \ (B \cup {y})) <= Cardinality(A \ B)
<1> DEFINE D == A \ B
           E == (A \cup {x}) \ (B \cup {y})
<1>1. IsFiniteSet(A \cup {x})
  BY FS_AddElement
<1>2. IsFiniteSet(D) /\ Cardinality(D) \in Nat
  <2>1. D \in SUBSET A
    OBVIOUS
  <2> QED
    BY <2>1, FS_Subset, FS_CardinalityType
<1>3. /\ IsFiniteSet(D \cup {x})
      /\ Cardinality(D \cup {x}) \in Nat
      /\ Cardinality(D \cup {x}) <= Cardinality(D) + 1
  <2>1. Cardinality(D \cup {x}) = IF x \in D THEN Cardinality(D) ELSE Cardinality(D) + 1
    BY <1>2, FS_AddElement
  <2> QED
    BY <1>2, <2>1, FS_AddElement, FS_CardinalityType
<1>4. Cardinality(E) \in Nat /\ Cardinality(E) <= Cardinality(D \cup {x})
  <2>1. E \in SUBSET (D \cup {x})
    OBVIOUS
  <2> QED
    BY <1>3, <2>1, FS_Subset, FS_CardinalityType
<1>5. x = y => Cardinality(E) <= Cardinality(D)
  <2>1. x = y => E \in SUBSET D
    OBVIOUS
  <2> QED
    BY <1>2, <2>1, FS_Subset
<1> HIDE DEF D, E
<1>6. Cardinality(E) <= Cardinality(D) + 1
  BY <1>2, <1>3, <1>4
<1> QED
  BY <1>1, <1>2, <1>4, <1>5, <1>6 DEF D, E

\* What both sides get leaves no difference that was not there.
LEMMA BothGet ==
  ASSUME NEW A, NEW B, NEW P, IsFiniteSet(A), IsFiniteSet(P)
  PROVE  /\ IsFiniteSet(A \cup P)
         /\ Cardinality(A \ B) \in Nat
         /\ Cardinality((A \cup P) \ (B \cup P)) \in Nat
         /\ Cardinality((A \cup P) \ (B \cup P)) <= Cardinality(A \ B)
<1>1. IsFiniteSet(A \cup P)
  BY FS_Union
<1>2. IsFiniteSet(A \ B) /\ Cardinality(A \ B) \in Nat
  <2>1. A \ B \in SUBSET A
    OBVIOUS
  <2> QED
    BY <2>1, FS_Subset, FS_CardinalityType
<1>3. (A \cup P) \ (B \cup P) \in SUBSET (A \ B)
  OBVIOUS
<1> QED
  BY <1>1, <1>2, <1>3, FS_Subset, FS_CardinalityType

LEMMA InvInit == Init => IInv
<1> SUFFICES ASSUME Init PROVE IInv
  OBVIOUS
<1>1. TypeOK
  <2>1. makevar \in Project /\ meant \in Project
    BY DEF Init, Project
  <2>2. tests \in 0 .. MaxTests
    <3>1. 0 \in 0 .. MaxTests
      BY CfgtestAssumption
    <3> QED
      BY <3>1 DEF Init
  <2>3. slips \in 0 .. tests
    <3>1. slips = 0 /\ tests = 0
      BY DEF Init
    <3> QED
      BY <3>1
  <2>4. stopped \in Stop
    BY DEF Init, Stop
  <2> QED
    BY <2>1, <2>2, <2>3, <2>4 DEF Init, TypeOK
<1>2. FlagsAreTrue
  BY DEF Init, FlagsAreTrue
<1>3. SlipsAhead
  <2>1. mk \ asked = {} /\ asked \ mk = {}
    BY DEF Init
  <2>2. slips = 0 /\ ~unit /\ mk = {} /\ asked = {}
    BY DEF Init
  <2>3. Cardinality(mk \ asked) = 0 /\ Cardinality(asked \ mk) = 0
    BY <2>1, FS_EmptySet
  <2>4. IsFiniteSet(mk) /\ IsFiniteSet(asked)
    BY <2>2, FS_EmptySet
  <2> QED
    BY <2>2, <2>3, <2>4 DEF SlipsAhead
<1>4. StopsForARefusal /\ OwnVariable
  BY DEF Init, StopsForARefusal, OwnVariable
<1> QED
  BY <1>1, <1>2, <1>3, <1>4 DEF IInv

\* Where a line goes is a variable that exists.
LEMMA LineShape ==
  ASSUME TypeOK, NEW flag \in BOOLEAN, NEW p \in Prefix, NEW n \in Name
  PROVE  /\ <<IF flag THEN makevar ELSE cflags, <<p, n>> >> \in Line
         /\ <<IF flag THEN meant ELSE cflags, <<p, n>> >> \in Line
<1>1. cflags \in Flags
  BY DEF TypeOK, cflags, Flags
<1>2. makevar \in Project \cup Package /\ meant \in Project
  BY DEF TypeOK
<1> QED
  BY <1>1, <1>2 DEF Line

\* What a test with a result does, whichever it is: found says that it has one.
LEMMA ResultStep ==
  ASSUME IInv, Begin, NEW n \in Name, NEW u \in BOOLEAN, NEW t \in BOOLEAN,
         NEW p \in {"HAVE", "HAVE_NO", "HAVE_DECL", "SIZEOF"}, NEW found \in BOOLEAN,
         IF found THEN record(unit \/ u, <<p, n>>) ELSE keep(unit \/ u),
         found => (Accepts(n) <=> p # "HAVE_NO"),
         return(Accepts(n), t, "test"), Means(found, u, <<p, n>>),
         UNCHANGED <<cfgtype, files, makevar, meant>>
  PROVE  IInv'
<1> USE DEF IInv
<1> DEFINE flag == unit \/ u
<1>1. flag \in BOOLEAN /\ unit \in BOOLEAN
  BY DEF TypeOK
<1>2. UNCHANGED <<cfgtype, input, accepts, makevar, meant>>
  BY DEF files
<1>3. tests' \in 0 .. MaxTests
  BY CfgtestAssumption DEF Begin, TypeOK
<1>4. stopped' \in Stop /\ slips' \in 0 .. tests' /\ unit' \in BOOLEAN
  <2>1. stopped' \in Stop
    BY DEF return, Stop
  <2>2. unit' \in BOOLEAN
    BY <1>1 DEF record, keep
  <2>3. tests \in Nat /\ tests' = tests + 1 /\ slips \in 0 .. tests
    BY CfgtestAssumption DEF Begin, TypeOK
  <2>4. slips' = slips \/ slips' = slips + 1
    BY DEF Means
  <2> QED
    BY <2>1, <2>2, <2>3, <2>4
<1>5. mk' \subseteq Line
  BY <1>1, LineShape DEF record, keep, TypeOK, Prefix
<1>6. asked' \subseteq Line
  BY <1>1, LineShape DEF Means, TypeOK, Prefix
<1>7. TypeOK'
  BY <1>2, <1>3, <1>4, <1>5, <1>6 DEF TypeOK
<1>8. FlagsAreTrue'
  <2>1. CASE ~found
    BY <1>2, <2>1 DEF FlagsAreTrue, keep
  <2>2. CASE found
    <3> DEFINE line == <<IF flag THEN makevar ELSE cflags, <<p, n>> >>
    <3>1. mk' = mk \cup {line}
      BY <2>2 DEF record
    <3>2. ASSUME NEW s \in Section, NEW m \in Name, NEW q \in Prefix,
                 << <<"flags", s>>, <<q, m>> >> = line
          PROVE  s = cfgtype /\ q = p /\ m = n
      <4>1. makevar # <<"flags", s>>
        <5>1. makevar[1] \in {"project", "PKGCONF", "CFLAGS", "LDFLAGS"}
          BY DEF TypeOK, Project, Package, Part
        <5>2. makevar[1] # "flags"
          BY <5>1
        <5> QED
          BY <5>2
      <4>2. <<"flags", s>> = <<"flags", cfgtype>> /\ <<q, m>> = <<p, n>>
        BY <3>2, <4>1 DEF cflags
      <4> QED
        BY <4>2
    <3>3. <<cfgtype, n>> \in accepts <=> p # "HAVE_NO"
      BY <2>2 DEF Accepts
    <3>4. ASSUME NEW s \in Section, NEW m \in Name, NEW q \in Prefix \ {"PKG"},
                 << <<"flags", s>>, <<q, m>> >> \in mk'
          PROVE  <<s, m>> \in accepts <=> q # "HAVE_NO"
      <4>1. CASE << <<"flags", s>>, <<q, m>> >> \in mk
        BY <4>1 DEF FlagsAreTrue, Prefix
      <4>2. CASE << <<"flags", s>>, <<q, m>> >> = line
        BY <3>2, <3>3, <4>2
      <4> QED
        BY <3>1, <3>4, <4>1, <4>2
    <3> QED
      BY <1>2, <3>4 DEF FlagsAreTrue, Prefix
  <2> QED
    BY <2>1, <2>2
<1>9. SlipsAhead'
  <2>1. slips \in Nat /\ Cardinality(mk \ asked) \in Nat /\ Cardinality(asked \ mk) \in Nat
    <3>1. slips \in 0 .. tests /\ tests \in 0 .. MaxTests
      BY DEF TypeOK
    <3>2. slips \in Nat
      BY <3>1, CfgtestAssumption
    <3>3. IsFiniteSet(mk) /\ IsFiniteSet(asked)
      BY DEF SlipsAhead
    <3> QED
      BY <3>2, <3>3, OneMore
  <2>2. CASE ~found
    <3>1. mk' = mk /\ asked' = asked /\ unit' = (unit \/ u)
      BY <2>2 DEF keep, Means
    <3>2. slips' = IF u THEN slips + 1 ELSE slips
      BY <2>2 DEF Means
    <3> QED
      BY <1>1, <2>1, <3>1, <3>2 DEF SlipsAhead
  <2>3. CASE found
    <3> DEFINE x == <<IF flag THEN makevar ELSE cflags, <<p, n>> >>
               y == <<IF u THEN meant ELSE cflags, <<p, n>> >>
               over == Cardinality(mk' \ asked')
               under == Cardinality(asked' \ mk')
    <3>1. mk' = mk \cup {x} /\ asked' = asked \cup {y} /\ ~unit'
      BY <2>3 DEF record, Means
    <3>2. slips' = IF u /\ makevar \notin Project THEN slips + 1 ELSE slips
      BY <2>3 DEF Means
    <3>3. /\ IsFiniteSet(mk') /\ IsFiniteSet(asked')
          /\ over \in Nat /\ over <= Cardinality(mk \ asked) + 1
          /\ under \in Nat /\ under <= Cardinality(asked \ mk) + 1
      BY <3>1, OneMore DEF SlipsAhead
    <3>4. x = y => over <= Cardinality(mk \ asked) /\ under <= Cardinality(asked \ mk)
      BY <3>1, OneMore DEF SlipsAhead
    <3>5. x = y \/ unit \/ slips' = slips + 1
      <4>1. CASE u /\ makevar \in Project
        BY <4>1 DEF OwnVariable
      <4>2. CASE u /\ makevar \notin Project
        BY <3>2, <4>2
      <4>3. CASE ~u
        BY <4>3, <1>1
      <4> QED
        BY <4>1, <4>2, <4>3
    <3> HIDE DEF x, y, over, under
    <3>6. over <= slips' /\ under <= slips'
      BY <2>1, <3>2, <3>3, <3>4, <3>5 DEF SlipsAhead
    <3> QED
      BY <3>1, <3>3, <3>6 DEF SlipsAhead, over, under
  <2> QED
    BY <2>2, <2>3
<1>10. StopsForARefusal' /\ OwnVariable'
  BY <1>2 DEF StopsForARefusal, OwnVariable, return, Accepts
<1> QED
  BY <1>7, <1>8, <1>9, <1>10

LEMMA RecordingStep ==
  ASSUME IInv, NEW n \in Name, NEW u \in BOOLEAN, NEW t \in BOOLEAN, Recording(n, u, t)
  PROVE  IInv'
<1>1. Begin /\ UNCHANGED <<cfgtype, files, makevar, meant>>
  BY DEF Recording
<1>2. Accepts(n) \in BOOLEAN
  BY DEF Accepts
<1>3. CASE header_presence(n, u, t) /\ Means(Accepts(n), u, <<"HAVE", n>>)
  BY <1>1, <1>2, <1>3, ResultStep DEF header_presence
<1>4. CASE header_absence(n, u, t) /\ Means(~Accepts(n), u, <<"HAVE_NO", n>>)
  BY <1>1, <1>2, <1>4, ResultStep DEF header_absence
<1>5. CASE interface_presence(n, u, t) /\ Means(Accepts(n), u, <<"HAVE", n>>)
  BY <1>1, <1>2, <1>5, ResultStep DEF interface_presence
<1>6. ASSUME NEW plain \in BOOLEAN, decl_presence(n, plain, u, t),
             Means(Accepts(n) /\ plain, u, <<"HAVE_DECL", n>>)
      PROVE  IInv'
  BY <1>1, <1>2, <1>6, ResultStep DEF decl_presence
<1>7. CASE type_size(n, u, t) /\ Means(Accepts(n), u, <<"SIZEOF", n>>)
  BY <1>1, <1>2, <1>7, ResultStep DEF type_size
<1> QED
  BY <1>3, <1>4, <1>5, <1>6, <1>7 DEF Recording

LEMMA AskingStep ==
  ASSUME IInv, NEW n \in Name, NEW t \in BOOLEAN, Asking(n, t)
  PROVE  IInv'
<1> USE DEF IInv
<1>1. UNCHANGED <<cfgtype, input, accepts, makevar, unit, mk, meant, asked, slips>>
  BY DEF Asking, attr_visibility, code_snippet_asm, macro_definition,
         library_presence, compiler_switch, compiler_switch_arg, package_exists, keep, files, caller
<1>2. return(Accepts(n), t, "test") \/ return(Accepts(n) /\ input[cfgtype], t, "package")
  BY DEF Asking, attr_visibility, code_snippet_asm, macro_definition,
         library_presence, compiler_switch, compiler_switch_arg, package_exists
<1>3. TypeOK'
  <2>1. tests' \in 0 .. MaxTests /\ slips \in 0 .. tests'
    BY CfgtestAssumption DEF Asking, Begin, TypeOK
  <2>2. stopped' \in Stop
    BY <1>2 DEF return, Stop
  <2> QED
    BY <1>1, <2>1, <2>2 DEF TypeOK
<1>4. FlagsAreTrue' /\ SlipsAhead' /\ OwnVariable'
  BY <1>1 DEF FlagsAreTrue, SlipsAhead, OwnVariable
<1>5. StopsForARefusal'
  BY <1>1, <1>2 DEF StopsForARefusal, return, Accepts
<1> QED
  BY <1>3, <1>4, <1>5

LEMMA ConfiguringStep ==
  ASSUME IInv, NEW n \in Name, Configuring(n)
  PROVE  IInv'
<1> USE DEF IInv
<1>1. UNCHANGED <<cfgtype, input, accepts, meant, slips, stopped>>
  BY DEF Configuring, package_config, files
<1>2. package_lines(n) \subseteq Line
  BY DEF package_lines, Line, Package, Prefix, TypeOK
<1>3. TypeOK'
  <2>1. tests' \in 0 .. MaxTests /\ slips \in 0 .. tests'
    BY CfgtestAssumption DEF Configuring, Begin, TypeOK
  <2>2. mk' \subseteq Line /\ asked' \subseteq Line
    BY <1>2 DEF Configuring, package_config, TypeOK
  <2>3. makevar' \in Project \cup Package
    <3>1. <<"LDFLAGS", <<cfgtype, n>> >> \in Package
      BY DEF TypeOK, Package, Part
    <3> QED
      BY <3>1 DEF Configuring, package_config, TypeOK
  <2>4. unit' \in BOOLEAN
    BY DEF Configuring, package_config, TypeOK
  <2> QED
    BY <1>1, <2>1, <2>2, <2>3, <2>4 DEF TypeOK
<1>4. FlagsAreTrue'
  <2>1. ASSUME NEW s \in Section, NEW d
        PROVE  << <<"flags", s>>, d>> \notin package_lines(n)
    BY DEF package_lines, Part
  <2>2. ASSUME NEW s \in Section, NEW d, << <<"flags", s>>, d>> \in mk'
        PROVE  << <<"flags", s>>, d>> \in mk
    BY <2>1, <2>2 DEF Configuring, package_config
  <2> QED
    BY <1>1, <2>2 DEF FlagsAreTrue
<1>5. SlipsAhead'
  <2>1. CASE ~Accepts(n)
    BY <1>1, <2>1 DEF SlipsAhead, Configuring, package_config
  <2>2. CASE Accepts(n)
    <3> DEFINE lines == package_lines(n)
    <3>1. mk' = mk \cup lines /\ asked' = asked \cup lines /\ ~unit'
      BY <2>2 DEF Configuring, package_config
    <3>2. IsFiniteSet(lines)
      <4> DEFINE at(q) == << <<q, <<cfgtype, n>> >>, <<"PKG", n>> >>
      <4>1. lines = {at("PKGCONF"), at("CFLAGS"), at("LDFLAGS")}
        BY DEF package_lines, Part
      <4>2. {at("PKGCONF"), at("CFLAGS"), at("LDFLAGS")}
            = (({} \cup {at("PKGCONF")}) \cup {at("CFLAGS")}) \cup {at("LDFLAGS")}
        OBVIOUS
      <4> HIDE DEF lines, at
      <4>3. IsFiniteSet((({} \cup {at("PKGCONF")}) \cup {at("CFLAGS")}) \cup {at("LDFLAGS")})
        BY FS_EmptySet, FS_AddElement
      <4> QED
        BY <4>1, <4>2, <4>3
    <3> HIDE DEF lines
    <3>3. IsFiniteSet(mk) /\ IsFiniteSet(asked)
      BY DEF SlipsAhead
    <3>4. /\ IsFiniteSet(mk') /\ IsFiniteSet(asked')
          /\ Cardinality(mk \ asked) \in Nat /\ Cardinality(asked \ mk) \in Nat
          /\ Cardinality(mk' \ asked') \in Nat /\ Cardinality(asked' \ mk') \in Nat
          /\ Cardinality(mk' \ asked') <= Cardinality(mk \ asked)
          /\ Cardinality(asked' \ mk') <= Cardinality(asked \ mk)
      BY <3>1, <3>2, <3>3, BothGet
    <3>5. slips \in Nat /\ slips' = slips
      BY <1>1, CfgtestAssumption DEF TypeOK
    <3>6. Cardinality(mk \ asked) <= slips /\ Cardinality(asked \ mk) <= slips
      BY <3>4, <3>5 DEF SlipsAhead
    <3> QED
      BY <3>1, <3>4, <3>5, <3>6 DEF SlipsAhead
  <2> QED
    BY <2>1, <2>2
<1>6. StopsForARefusal' /\ OwnVariable'
  <2>1. <<"LDFLAGS", <<cfgtype, n>> >> \notin Project
    BY DEF Project
  <2> QED
    BY <1>1, <2>1 DEF StopsForARefusal, OwnVariable, Configuring, package_config
<1> QED
  BY <1>3, <1>4, <1>5, <1>6

\* The caller turns to another section or variable while the script runs.
LEMMA TurningStep ==
  ASSUME IInv,
         \/ host_section \/ native_section
         \/ \E v \in MakeVar : SetMakevar(v)
         \/ UNCHANGED vars
  PROVE  IInv'
<1> USE DEF IInv
<1>1. UNCHANGED <<input, accepts, unit, mk, asked, slips, tests>>
  BY DEF host_section, native_section, SetMakevar, vars, files, caller
<1>2. /\ cfgtype' \in Section /\ makevar' \in Project \cup Package
      /\ meant' \in Project /\ stopped' \in Stop
      /\ OwnVariable'
  <2>1. CASE host_section \/ native_section
    BY <2>1 DEF host_section, native_section, caller, TypeOK, Section, Stop, OwnVariable
  <2>2. ASSUME NEW v \in MakeVar, SetMakevar(v)
        PROVE  /\ cfgtype' \in Section /\ makevar' \in Project \cup Package
               /\ meant' \in Project /\ stopped' \in Stop
               /\ OwnVariable'
    BY <2>2 DEF SetMakevar, TypeOK, Project, OwnVariable
  <2>3. CASE UNCHANGED vars
    BY <2>3 DEF vars, caller, TypeOK, OwnVariable
  <2> QED
    BY <2>1, <2>2, <2>3
<1>3. TypeOK'
  BY <1>1, <1>2 DEF TypeOK
<1>4. FlagsAreTrue' /\ SlipsAhead'
  BY <1>1 DEF FlagsAreTrue, SlipsAhead
<1>5. StopsForARefusal'
  <2>1. stopped' \in {"no", "make"} \/ UNCHANGED <<cfgtype, stopped>>
    BY DEF host_section, native_section, SetMakevar, Running, vars
  <2> QED
    BY <1>1, <2>1 DEF StopsForARefusal
<1> QED
  BY <1>2, <1>3, <1>4, <1>5

\* IInv holds of every state.
THEOREM Invariance == Spec => []IInv
<1>1. IInv /\ [Next]_vars => IInv'
  <2> SUFFICES ASSUME IInv, [Next]_vars PROVE IInv'
    OBVIOUS
  <2>1. ASSUME NEW n \in Name, NEW u \in BOOLEAN, NEW t \in BOOLEAN, Recording(n, u, t)
        PROVE  IInv'
    BY <2>1, RecordingStep
  <2>2. ASSUME NEW n \in Name, NEW t \in BOOLEAN, Asking(n, t) PROVE IInv'
    BY <2>2, AskingStep
  <2>3. ASSUME NEW n \in Name, Configuring(n) PROVE IInv'
    BY <2>3, ConfiguringStep
  <2>4. CASE host_section \/ native_section \/ (\E v \in MakeVar : SetMakevar(v))
             \/ UNCHANGED vars
    BY <2>4, TurningStep
  <2> QED
    BY <2>1, <2>2, <2>3, <2>4 DEF Next, Over
<1> QED
  BY <1>1, InvInit, PTL DEF Spec

\* The state keeps its shape.
THEOREM TypeCorrect == Spec => []TypeOK
<1>1. IInv => TypeOK
  BY DEF IInv
<1> QED
  BY <1>1, Invariance, PTL

\* No compiler is said to have what it refused, nor to lack what it accepted.
THEOREM TrueFlags == Spec => []FlagsAreTrue
<1>1. IInv => FlagsAreTrue
  BY DEF IInv
<1> QED
  BY <1>1, Invariance, PTL

\* Whatever is asked in whatever order, the lines that went astray are no more
\* than the unit tests that slipped.
THEOREM Astray == Spec => []OneLinePerSlip
<1>1. IInv => OneLinePerSlip
  <2> SUFFICES ASSUME IInv PROVE OneLinePerSlip
    OBVIOUS
  <2>1. slips \in Nat
    BY CfgtestAssumption DEF IInv, TypeOK
  <2>2. Cardinality(mk \ asked) \in Nat /\ Cardinality(asked \ mk) \in Nat
    BY OneMore DEF IInv, SlipsAhead
  <2> QED
    BY <2>1, <2>2 DEF IInv, SlipsAhead, OneLinePerSlip
<1> QED
  BY <1>1, Invariance, PTL

\* No script is stopped by a test of a compiler that refuses nothing, nor by one
\* of a package where the compiler reads standard input too.
THEOREM StopReason == Spec => []StopsForARefusal
<1>1. IInv => StopsForARefusal
  BY DEF IInv
<1> QED
  BY <1>1, Invariance, PTL

=============================================================================

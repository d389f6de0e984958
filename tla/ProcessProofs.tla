--------------------------- MODULE ProcessProofs ---------------------------
(***************************************************************************)
(* Proofs about Process: for any number of threads, libc's and foreign,    *)
(* pthread_self of a thread that libc made is right and never faults.      *)
(***************************************************************************)
EXTENDS Process, TLAPS

LEMMA InvInit == Init => IInv
<1> SUFFICES ASSUME Init
             PROVE  IInv
  OBVIOUS
<1> USE ProcessAssumption DEF Init
<1>1. slot \in [Thread -> [Slot -> Content]]
  BY DEF Slot, Content
<1>2. TypeOK
  <2>1. flavour \in Flavour /\ phase \in Phase /\ tables \in BOOLEAN
    BY DEF Flavour, Phase
  <2>2. kind \in [Thread -> Kind]
    BY DEF Kind
  <2>3. /\ tlca \in [Thread -> Thread \cup {NoThread}]
        /\ self \in [Thread -> Thread \cup {NoThread}]
    OBVIOUS
  <2>4. dead \in ({"no", "crash", "terminated"} \cup Fault) \X (Thread \cup {NoThread})
    BY DEF Fault
  <2> QED
    BY <1>1, <2>1, <2>2, <2>3, <2>4 DEF TypeOK
<1>3. \A t \in Thread : kind[t] = "posix" <=> t = Main
  OBVIOUS
<1>4. phase \in {"load_loader", "entry"}
  OBVIOUS
<1>5. ThreadPointerSet /\ PublishedInTime /\ UnbornIsBlank
  BY <1>3, <1>4 DEF ThreadPointerSet, PublishedInTime, UnbornIsBlank
<1>6. SelfIsOwn /\ OnlyForeignFault /\ FailedStartPublishesNothing
  BY DEF SelfIsOwn, OnlyForeignFault, FailedStartPublishesNothing, Fault
<1> QED
  BY <1>2, <1>5, <1>6 DEF IInv

\* Startup fills the table of pointers before it sets the thread pointer, and
\* that before anything of the program runs.
LEMMA StartupStep == IInv /\ (Startup \/ MainReturns \/ _fini) => IInv'
<1> SUFFICES ASSUME IInv, Startup \/ MainReturns \/ _fini
             PROVE  IInv'
  OBVIOUS
<1> USE ProcessAssumption
    DEF IInv, TypeOK, ThreadPointerSet, PublishedInTime, UnbornIsBlank, SelfIsOwn,
        OnlyForeignFault, FailedStartPublishesNothing, Flavour, Phase, Kind, Slot, Content, Fault,
        startVars, threadVars, Step, Die, Alive
<1>1. ASSUME LoadLoader \/ LoadLibc \/ FindPsxInit \/ FindEntry PROVE IInv'
  BY <1>1 DEF LoadLoader, LoadLibc, FindPsxInit, FindEntry, LoaderCall, Terminate
<1>2. ASSUME PsxInit PROVE IInv'
  BY <1>2 DEF PsxInit
<1>3. ASSUME Publish PROVE IInv'
  BY <1>3 DEF Publish
<1>4. ASSUME StartMain PROVE IInv'
  BY <1>4 DEF StartMain
<1>5. ASSUME InitTls PROVE IInv'
  BY <1>5 DEF InitTls, set_thread_area, PsxTlca
<1>6. ASSUME _init \/ MainReturns \/ _fini PROVE IInv'
  BY <1>6 DEF _init, MainReturns, _fini, CallGlobal
<1> QED
  BY <1>1, <1>2, <1>3, <1>4, <1>5, <1>6 DEF Startup

\* A thread that is cloned gets its own pthread, a foreign one none.
LEMMA ThreadStep == IInv /\ Threads => IInv'
<1> SUFFICES ASSUME IInv, Threads
             PROVE  IInv'
  OBVIOUS
<1> USE ProcessAssumption
    DEF IInv, TypeOK, ThreadPointerSet, PublishedInTime, UnbornIsBlank, SelfIsOwn,
        OnlyForeignFault, FailedStartPublishesNothing, Flavour, Phase, Kind, Slot, Content, Fault,
        startVars, threadVars, Die, Alive, Runs
<1>1. ASSUME NEW t \in Thread, kind[t] = "posix", Runs(t)
      PROVE  PsxTlca(t) = "tlca" /\ tlca[t] = t
  BY <1>1 DEF PsxTlca
<1>2. ASSUME NEW t \in Thread, GetTp(t) PROVE IInv'
  <2>1. CASE PsxTlca(t) = "tlca" /\ self' = [self EXCEPT ![t] = tlca[t]]
             /\ UNCHANGED <<slot, tlca, dead>>
    BY <1>1, <1>2, <2>1 DEF GetTp
  <2>2. CASE Converts(t)
    <3>1. kind[t] = "foreign" /\ t # Main
      BY <1>1, <1>2, <2>2 DEF GetTp, Converts
    <3>2. CASE tables /\ ConvertCalls = "mm_convert_thread"
      <4>1. /\ slot' = [slot EXCEPT ![t]["psx"] = "tlca"]
            /\ tlca' = [tlca EXCEPT ![t] = t]
            /\ self' = [self EXCEPT ![t] = t]
            /\ UNCHANGED <<flavour, phase, tables, kind, dead>>
        BY <1>2, <2>2, <3>2 DEF GetTp, Converts
      <4>2. TypeOK'
        BY <4>1
      <4>3. ThreadPointerSet' /\ PublishedInTime'
        BY <3>1, <4>1
      <4>4. UnbornIsBlank' /\ SelfIsOwn' /\ OnlyForeignFault' /\ FailedStartPublishesNothing'
        BY <3>1, <4>1
      <4> QED
        BY <4>2, <4>3, <4>4
    <3>3. CASE ~(tables /\ ConvertCalls = "mm_convert_thread")
      BY <1>2, <2>2, <3>1, <3>3 DEF GetTp, Converts
    <3> QED
      BY <3>2, <3>3
  <2>3. CASE PsxTlca(t) \in {"alien", "unmapped"} /\ Die("self", t)
             /\ UNCHANGED <<slot, tlca, self>>
    BY <1>1, <1>2, <2>3 DEF GetTp
  <2> QED
    BY <1>2, <2>1, <2>2, <2>3 DEF GetTp
<1>3. ASSUME NEW t \in Thread, EmutlsGetAddress(t) PROVE IInv'
  BY <1>1, <1>3 DEF EmutlsGetAddress
<1>4. ASSUME NEW u \in Thread, ForeignThread(u) PROVE IInv'
  BY <1>4 DEF ForeignThread
<1>5. ASSUME NEW t \in Thread, NEW u \in Thread, Clone(t, u) PROVE IInv'
  <2>1. /\ kind' = [kind EXCEPT ![u] = "posix"]
        /\ slot' = [slot EXCEPT ![u]["psx"] = "tlca"]
        /\ tlca' = [tlca EXCEPT ![u] = u]
        /\ UNCHANGED <<flavour, phase, tables, self, dead>>
        /\ kind[u] = "none" /\ kind[t] = "posix" /\ phase = "main"
    BY <1>5 DEF Clone, regs
  <2>2. u # Main /\ tables
    BY <2>1
  <2>3. self[u] = NoThread
    BY <2>1
  <2>4. TypeOK'
    BY <2>1
  <2>5. ThreadPointerSet'
    BY <2>1, <2>2
  <2>6. PublishedInTime'
    BY <2>1, <2>2
  <2>7. UnbornIsBlank'
    BY <2>1
  <2>8. SelfIsOwn' /\ OnlyForeignFault' /\ FailedStartPublishesNothing'
    BY <2>1, <2>2, <2>3
  <2> QED
    BY <2>4, <2>5, <2>6, <2>7, <2>8
<1> QED
  BY <1>2, <1>3, <1>4, <1>5 DEF Threads

\* IInv holds from _start to exit.
THEOREM Invariance == Spec => []IInv
<1>1. IInv /\ [Next]_vars => IInv'
  <2>1. IInv /\ UNCHANGED vars => IInv'
    BY DEF vars, startVars, threadVars, IInv, TypeOK, ThreadPointerSet,
           PublishedInTime, UnbornIsBlank, SelfIsOwn, OnlyForeignFault,
           FailedStartPublishesNothing
  <2> QED
    BY <2>1, StartupStep, ThreadStep DEF Next, Over
<1> QED
  BY <1>1, InvInit, PTL DEF Spec

\* A thread of libc's own making is never told to be another one.
THEOREM SelfCorrect == Spec => []SelfIsOwn
<1>1. IInv => SelfIsOwn
  BY DEF IInv
<1> QED
  BY <1>1, Invariance, PTL

\* Nor does such a thread fault in __get_tp, in __emutls_get_address or
\* through the init and fini pointers.
THEOREM FaultsAreForeign == Spec => []OnlyForeignFault
<1>1. IInv => OnlyForeignFault
  BY DEF IInv
<1> QED
  BY <1>1, Invariance, PTL

\* A startup that fails, whichever call fails, has published no table.
THEOREM FailedStart == Spec => []FailedStartPublishesNothing
<1>1. IInv => FailedStartPublishesNothing
  BY DEF IInv
<1> QED
  BY <1>1, Invariance, PTL

\* The state keeps its shape.
THEOREM TypeCorrect == Spec => []TypeOK
<1>1. IInv => TypeOK
  BY DEF IInv
<1> QED
  BY <1>1, Invariance, PTL

=============================================================================

---------------------------- MODULE RuntimeProofs ----------------------------
(***************************************************************************)
(* Proofs about the parts of MCRuntime: the stack of a thread, as __clone  *)
(* describes it to the framework, for any word size, stacks and number of  *)
(* threads; the area of its struct pthread with the emulated variables     *)
(* that hang from it, for any places, sizes and libraries; the loader's    *)
(* calls against each other and fork, and the list of threads, for any     *)
(* number of threads and libraries; and the start files, for every link    *)
(* line and set of files.                                                  *)
(***************************************************************************)
EXTENDS MCRuntime, FiniteSetTheorems, SequenceTheorems, NaturalsInduction,
        WellFoundedInduction, TLAPS

-----------------------------------------------------------------------------
(* The stack of a thread.                                                  *)

\* What the masks of __clone do to an address.
LEMMA Rounding ==
  ASSUME NEW a \in Nat
  PROVE  /\ AlignDown(a) \in Nat /\ AlignDown(a) % 16 = 0
         /\ AlignDown(a) <= a /\ a < AlignDown(a) + 16
  BY DEF AlignDown

\* A number that fits a word is not changed by being put in one.
LEMMA SmallWord == ASSUME NEW a \in Nat, a < Word PROVE a % Word = a
  BY CloneAssumption

\* An aligned address below another one is not above what that is rounded to.
LEMMA RoundingKeepsLimit ==
  ASSUME NEW a \in Nat, NEW l \in Nat, l % 16 = 0, l <= a
  PROVE  l <= AlignDown(a)
  BY DEF AlignDown

\* What __clone computes for a stack that musl has set aside.
LEMMA BoundsOfStack ==
  ASSUME NEW p \in [stack: Nat, size: Nat, guard: Nat], p.stack \in Tops, 0 <= Low(p)
  PROVE  LET b == Bounds(p)
         IN  /\ b.base \in Uintptr /\ b.limit \in Uintptr /\ b.bottom \in Uintptr
             /\ b.bottom = Low(p) /\ b.limit % 16 = 0
             /\ p.stack - p.size <= b.limit /\ b.limit < p.stack - p.size + 16
             /\ p.stack - 16 < b.base /\ b.base <= p.stack
<1> DEFINE l == p.stack - p.size
<1> USE CloneAssumption
<1>1. p.stack \in Nat /\ p.size \in Nat /\ p.guard \in Nat /\ p.stack + 16 <= Word
  OBVIOUS
<1>2. l \in Nat /\ l - p.guard \in Nat /\ l <= p.stack
  BY <1>1 DEF Low
<1>3. Minus(p.stack, p.size) = l /\ Minus(l, p.guard) = l - p.guard
  BY <1>1, <1>2, SmallWord DEF Minus
<1>4. AlignUp(l) = AlignDown(l + 15)
  BY <1>1, <1>2, SmallWord DEF AlignUp
<1>5. AlignUp(l) \in Nat /\ AlignUp(l) % 16 = 0 /\ l <= AlignUp(l) /\ AlignUp(l) <= l + 15
  BY <1>2, <1>4, Rounding
<1>6. AlignDown(p.stack) \in Nat /\ AlignDown(p.stack) <= p.stack /\ p.stack - 16 < AlignDown(p.stack)
  BY <1>1, Rounding
<1>7. Bounds(p) = [base |-> AlignDown(p.stack), limit |-> AlignUp(l), bottom |-> l - p.guard]
  BY <1>3 DEF Bounds
<1> HIDE DEF l
<1>8. p.stack - p.size = l /\ Low(p) = l - p.guard
  BY <1>1, <1>2 DEF l, Low
<1> QED
  BY <1>1, <1>2, <1>5, <1>6, <1>7, <1>8 DEF Uintptr

\* Both architectures hand the framework the same.
LEMMA CloneEntry ==
  ASSUME arch \in Arches, NEW flags, NEW sp, NEW self, NEW ids, NEW p
  PROVE  Clone(flags, sp, self, ids, p) =
           LET v == IsVfork(flags)
               b == IF v THEN NoBounds ELSE Bounds(p)
           IN  [sp |-> AlignDown(sp), self |-> self, ids |-> IF v THEN Null ELSE ids,
                base |-> b.base, limit |-> b.limit, bottom |-> b.bottom]
  BY DEF Clone, Clone64, Clone32, Entered, Regs64, Regs32, Arches, ChildStack, NoIds

\* A thread is not made with the flags of vfork.
LEMMA FlagsDiffer == ~IsVfork(ThreadFlags) /\ IsVfork(VforkFlags)
<1>1. "CLONE_THREAD" \in ThreadFlags /\ "CLONE_THREAD" \notin VforkFlags
  BY DEF ThreadFlags, VforkFlags
<1> QED
  BY <1>1 DEF IsVfork

\* The stacks begin within the invariant.
LEMMA InvInit == Init => IInv
<1> SUFFICES ASSUME Init
             PROVE  IInv
  OBVIOUS
<1> USE CloneAssumption DEF Init
<1>1. NoEntry \in Entry
  BY DEF NoEntry, Entry, Uintptr, Pointer
<1>2. Blank \in [stack: Nat, size: Nat, guard: Nat]
  BY DEF Blank
<1>3. TypeOK
  BY <1>1, <1>2 DEF TypeOK
<1> QED
  BY <1>3 DEF IInv, AreasApart, LimitsAligned, BoundsInside, StacksApart, StartsInBounds,
              MissingArgumentsUnused, Alive, None

\* A stack that musl sets aside touches no other.
LEMMA MapStep == ASSUME IInv, NEW t \in Threads, Map(t) PROVE IInv'
<1> USE CloneAssumption
<1> PICK s \in Tops, z \in Sizes, g \in Guards :
      LET p == [stack |-> s, size |-> z, guard |-> g]
      IN  /\ 0 <= Low(p)
          /\ \A u \in Threads : state[u] # "free" => Apart(p, pthread[u])
          /\ pthread' = [pthread EXCEPT ![t] = p]
  BY DEF Map
<1> DEFINE p == [stack |-> s, size |-> z, guard |-> g]
<1>0. /\ state[t] = "free" /\ state' = [state EXCEPT ![t] = "mapped"]
      /\ UNCHANGED <<arch, entry, child, crashed>>
  BY DEF Map
<1>1. p \in [stack: Nat, size: Nat, guard: Nat] /\ p.stack \in Tops
  OBVIOUS
<1>2. pthread' = [pthread EXCEPT ![t] = p] /\ 0 <= Low(p)
  OBVIOUS
<1>3. \A u \in Threads : state[u] # "free" => Apart(p, pthread[u]) /\ Apart(pthread[u], p)
  BY DEF Apart
<1> HIDE DEF p
<1>4. TypeOK'
  BY <1>0, <1>1, <1>2 DEF IInv, TypeOK
<1>5. \A u \in Threads : /\ pthread'[u] = IF u = t THEN p ELSE pthread[u]
                         /\ state'[u] = IF u = t THEN "mapped" ELSE state[u]
  BY <1>0, <1>2 DEF IInv, TypeOK
<1>6. AreasApart'
  BY <1>0, <1>1, <1>2, <1>3, <1>5 DEF IInv, AreasApart, Apart, Low
<1>7. \A u \in Threads : Alive(u)' <=> Alive(u) /\ u # t
  BY <1>0, <1>5 DEF Alive
<1>8. (LimitsAligned /\ BoundsInside /\ StacksApart /\ StartsInBounds /\ MissingArgumentsUnused)'
  BY <1>0, <1>5, <1>7 DEF IInv, LimitsAligned, BoundsInside, StacksApart, StartsInBounds,
                          MissingArgumentsUnused
<1> QED
  BY <1>4, <1>6, <1>8 DEF IInv

\* A thread that starts gets the bounds of its own stack.
LEMMA StackCreateStep == ASSUME IInv, NEW t \in Threads, Create(t) PROVE IInv'
<1> USE CloneAssumption
<1> DEFINE p == pthread[t]
           b == Bounds(p)
<1>0. /\ state[t] = "mapped" /\ UNCHANGED <<arch, child, crashed>>
      /\ p \in [stack: Nat, size: Nat, guard: Nat] /\ p.stack \in Tops /\ 0 <= Low(p)
      /\ arch \in Arches /\ state \in [Threads -> {"free", "mapped", "running", "waiting"}]
  BY DEF Create, IInv, TypeOK, AreasApart
<1>1. CASE /\ state' = [state EXCEPT ![t] = "free"]
           /\ pthread' = [pthread EXCEPT ![t] = Blank]
           /\ UNCHANGED entry
  <2>1. \A u \in Threads : /\ pthread'[u] = IF u = t THEN Blank ELSE pthread[u]
                           /\ state'[u] = IF u = t THEN "free" ELSE state[u]
                           /\ Alive(u)' => Alive(u) /\ u # t
    BY <1>0, <1>1 DEF IInv, TypeOK, Alive
  <2>2. TypeOK'
    BY <1>0, <1>1 DEF IInv, TypeOK, Blank
  <2> QED
    BY <1>0, <1>1, <2>1, <2>2 DEF IInv, AreasApart, LimitsAligned, BoundsInside, StacksApart,
                                  StartsInBounds, MissingArgumentsUnused
<1>2. CASE /\ state' = [state EXCEPT ![t] = "running"]
           /\ \E f \in Frames :
                /\ f < pthread[t].size
                /\ entry' = [entry EXCEPT ![t] = Clone(ThreadFlags, pthread[t].stack - f, t, t, pthread[t])]
           /\ UNCHANGED pthread
  <2> PICK f \in Frames :
        /\ f < p.size
        /\ entry' = [entry EXCEPT ![t] = Clone(ThreadFlags, p.stack - f, t, t, p)]
    BY <1>2
  <2> DEFINE e == Clone(ThreadFlags, p.stack - f, t, t, p)
             sp == AlignDown(p.stack - f)
  <2>1. p.stack \in Nat /\ p.size \in Nat /\ p.guard \in Nat /\ f \in Nat /\ f < p.size /\ p.size <= p.stack
    <3>1. p.stack \in Nat /\ p.size \in Nat /\ p.guard \in Nat
      BY <1>0
    <3>2. f \in Nat /\ f < p.size
      OBVIOUS
    <3>3. 0 <= p.stack - p.size - p.guard
      BY <1>0 DEF Low
    <3> HIDE DEF p
    <3> QED
      BY <3>1, <3>2, <3>3
  <2>2. p.stack - f \in Nat /\ p.stack - f <= p.stack
    BY <2>1
  <2>3. sp \in Nat /\ sp <= p.stack - f /\ p.stack - f < sp + 16 /\ sp % 16 = 0 /\ sp \in Uintptr
    <3>1. sp \in Nat /\ sp <= p.stack - f /\ p.stack - f < sp + 16 /\ sp % 16 = 0
      BY <2>2, Rounding
    <3>2. p.stack + 16 <= Word /\ Word \in Nat
      BY <1>0, CloneAssumption
    <3> HIDE DEF sp, p
    <3> QED
      BY <2>1, <2>2, <3>1, <3>2 DEF Uintptr
  <2>4. sp <= AlignDown(p.stack)
    BY <2>1, <2>2 DEF AlignDown
  <2>5. /\ b.base \in Uintptr /\ b.limit \in Uintptr /\ b.bottom \in Uintptr
        /\ b.bottom = Low(p) /\ b.limit % 16 = 0
        /\ p.stack - p.size <= b.limit /\ b.limit < p.stack - p.size + 16
        /\ p.stack - 16 < b.base /\ b.base <= p.stack /\ b.base = AlignDown(p.stack)
    BY <1>0, BoundsOfStack DEF Bounds
  <2>6. e = [sp |-> sp, self |-> t, ids |-> t, base |-> b.base, limit |-> b.limit, bottom |-> b.bottom]
    BY <1>0, CloneEntry, FlagsDiffer
  <2>7. entry' = [entry EXCEPT ![t] = e] /\ UNCHANGED pthread
    BY <1>2
  <2> HIDE DEF e, sp, b
  <2>8. e \in Entry /\ e.sp = sp /\ e.base = b.base /\ e.limit = b.limit /\ e.bottom = b.bottom
    BY <2>3, <2>5, <2>6 DEF Entry, Pointer
  <2>9. TypeOK'
    BY <1>0, <1>2, <2>7, <2>8 DEF IInv, TypeOK
  <2>10. \A u \in Threads : /\ entry'[u] = IF u = t THEN e ELSE entry[u]
                            /\ state'[u] = IF u = t THEN "running" ELSE state[u]
                            /\ Alive(u)' <=> Alive(u) \/ u = t
    BY <1>0, <1>2, <2>7 DEF IInv, TypeOK, Alive
  <2>11. AreasApart'
    BY <1>0, <2>7, <2>10 DEF IInv, AreasApart
  <2>12. LimitsAligned'
    BY <2>5, <2>8, <2>10 DEF IInv, LimitsAligned
  <2>13. BoundsInside'
    BY <2>1, <2>5, <2>7, <2>8, <2>10 DEF IInv, BoundsInside, Low
  <2>14. StacksApart'
    <3> SUFFICES ASSUME NEW u \in Threads, NEW v \in Threads, u # v, Alive(u)', Alive(v)'
                 PROVE  entry'[u].base <= entry'[v].bottom \/ entry'[v].base <= entry'[u].bottom
      BY DEF StacksApart
    <3>1. /\ entry'[u].base <= pthread[u].stack /\ entry'[u].bottom = Low(pthread[u])
          /\ entry'[v].base <= pthread[v].stack /\ entry'[v].bottom = Low(pthread[v])
      BY <2>7, <2>13 DEF BoundsInside, Low
    <3>2. Apart(pthread[u], pthread[v])
      BY <2>7, <2>11 DEF AreasApart, Alive
    <3>3. /\ pthread[u].stack \in Nat /\ pthread[v].stack \in Nat
          /\ entry'[u].base \in Nat /\ entry'[v].base \in Nat
      BY <2>9 DEF TypeOK, Entry, Uintptr, IInv
    <3>4. Low(pthread[u]) \in Int /\ Low(pthread[v]) \in Int
      BY DEF IInv, TypeOK, Low
    <3> QED
      BY <3>1, <3>2, <3>3, <3>4 DEF Apart
  <2>15. /\ e.sp % 16 = 0 /\ e.sp <= e.base
         /\ (\A g \in Frames : p.size >= g + 31) => e.limit < e.sp
    BY <2>1, <2>3, <2>4, <2>5, <2>8 DEF Uintptr
  <2>16. StartsInBounds'
    BY <1>0, <2>7, <2>10, <2>15 DEF IInv, StartsInBounds
  <2>17. MissingArgumentsUnused'
    BY <1>0, <2>10 DEF IInv, MissingArgumentsUnused
  <2> QED
    BY <2>9, <2>11, <2>12, <2>13, <2>14, <2>16, <2>17 DEF IInv
<1> QED
  BY <1>1, <1>2 DEF Create

\* A call without a struct pthread: the child of posix_spawn, or the end.
LEMMA ProcessStep ==
  ASSUME IInv, NEW t \in Threads, NEW flags, NEW caller,
         CloneProcess(t, flags, caller),
         caller = "clone" \/ (caller = "posix_spawn" /\ IsVfork(flags))
  PROVE  IInv'
<1> USE CloneAssumption
<1>0. state[t] = "running" /\ UNCHANGED <<arch, pthread, entry>> /\ arch \in Arches
  BY DEF CloneProcess, IInv, TypeOK
<1>1. CASE IsVfork(flags)
  <2> PICK f \in Frames :
        /\ entry[t].limit <= entry[t].sp - f
        /\ child' = [child EXCEPT ![t] = Clone(flags, entry[t].sp - f, Garbage, Garbage, Blank)]
    BY <1>1 DEF CloneProcess
  <2> DEFINE c == Clone(flags, entry[t].sp - f, Garbage, Garbage, Blank)
             sp == AlignDown(entry[t].sp - f)
  <2>1. state' = [state EXCEPT ![t] = "waiting"] /\ UNCHANGED crashed
    BY <1>1 DEF CloneProcess
  <2>2. c = [sp |-> sp, self |-> Garbage, ids |-> Null, base |-> 0, limit |-> 0, bottom |-> 0]
    BY <1>0, <1>1, CloneEntry DEF NoBounds
  <2>3. /\ entry[t].limit \in Nat /\ entry[t].sp \in Nat /\ entry[t].sp < Word
        /\ entry[t].limit % 16 = 0 /\ f \in Nat
    BY <1>0 DEF IInv, TypeOK, Entry, Uintptr, LimitsAligned, Alive
  <2>4. entry[t].sp - f \in Nat
    BY <2>3
  <2>5. sp \in Uintptr /\ entry[t].limit <= sp /\ sp <= entry[t].sp /\ sp % 16 = 0
    <3>1. sp \in Nat /\ sp <= entry[t].sp - f /\ sp % 16 = 0
      BY <2>4, Rounding
    <3>2. entry[t].limit <= sp
      BY <2>3, <2>4, RoundingKeepsLimit
    <3> QED
      BY <2>3, <3>1, <3>2 DEF Uintptr
  <2>6. child' = [child EXCEPT ![t] = c]
    OBVIOUS
  <2> HIDE DEF c, sp
  <2>7. /\ c \in Entry /\ c.ids = Null /\ c.sp = sp
        /\ <<c.base, c.limit, c.bottom>> = <<0, 0, 0>>
    BY <2>2, <2>5 DEF Entry, Uintptr, Pointer
  <2>8. TypeOK'
    BY <1>0, <2>1, <2>6, <2>7 DEF IInv, TypeOK
  <2>9. \A u \in Threads : /\ child'[u] = IF u = t THEN c ELSE child[u]
                           /\ state'[u] = IF u = t THEN "waiting" ELSE state[u]
                           /\ Alive(u)' <=> Alive(u)
                           /\ state'[u] # "free" <=> state[u] # "free"
    BY <1>0, <2>1, <2>6 DEF IInv, TypeOK, Alive
  <2>10. (AreasApart /\ LimitsAligned /\ BoundsInside /\ StacksApart /\ StartsInBounds)'
    BY <1>0, <2>1, <2>5, <2>7, <2>9 DEF IInv, AreasApart, LimitsAligned, BoundsInside, StacksApart,
                                        StartsInBounds
  <2>11. MissingArgumentsUnused'
    BY <1>0, <2>1, <2>5, <2>7, <2>9 DEF IInv, MissingArgumentsUnused
  <2> QED
    BY <2>8, <2>10, <2>11 DEF IInv
<1>2. CASE ~IsVfork(flags)
  <2>1. crashed' = "clone" /\ UNCHANGED <<child, state>>
    BY <1>2 DEF CloneProcess
  <2> QED
    BY <1>0, <2>1 DEF IInv, TypeOK, AreasApart, LimitsAligned, BoundsInside, StacksApart,
                      StartsInBounds, MissingArgumentsUnused, Alive
<1> QED
  BY <1>1, <1>2

\* What ends takes nothing of another's along.
LEMMA LeaveStep == ASSUME IInv, NEW t \in Threads, ChildLeaves(t) \/ Exit(t) PROVE IInv'
<1> USE CloneAssumption
<1>1. NoEntry \in Entry /\ Blank \in [stack: Nat, size: Nat, guard: Nat]
  BY DEF NoEntry, Entry, Uintptr, Pointer, Blank
<1>2. CASE ChildLeaves(t)
  <2>1. TypeOK'
    BY <1>1, <1>2 DEF ChildLeaves, IInv, TypeOK
  <2>2. \A u \in Threads : /\ state'[u] = IF u = t THEN "running" ELSE state[u]
                           /\ Alive(u)' <=> Alive(u)
                           /\ u # t => child'[u] = child[u]
                           /\ state'[u] # "free" <=> state[u] # "free"
    BY <1>2 DEF ChildLeaves, IInv, TypeOK, Alive
  <2> QED
    BY <1>2, <2>1, <2>2 DEF ChildLeaves, IInv, AreasApart, LimitsAligned, BoundsInside, StacksApart,
                            StartsInBounds, MissingArgumentsUnused
<1>3. CASE Exit(t)
  <2>1. TypeOK'
    BY <1>1, <1>3 DEF Exit, IInv, TypeOK
  <2>2. \A u \in Threads : /\ state'[u] = IF u = t THEN "free" ELSE state[u]
                           /\ Alive(u)' <=> Alive(u) /\ u # t
                           /\ u # t => entry'[u] = entry[u] /\ pthread'[u] = pthread[u]
    BY <1>3 DEF Exit, IInv, TypeOK, Alive
  <2> QED
    BY <1>3, <2>1, <2>2 DEF Exit, IInv, AreasApart, LimitsAligned, BoundsInside, StacksApart,
                            StartsInBounds, MissingArgumentsUnused
<1> QED
  BY <1>2, <1>3

\* Every step of musl and of __clone keeps it.
LEMMA InvNext == IInv /\ [Next]_vars => IInv'
<1> SUFFICES ASSUME IInv, [Next]_vars
             PROVE  IInv'
  OBVIOUS
<1>1. CASE Next
  <2> PICK t \in Threads : Step(t)
    BY <1>1 DEF Next
  <2>1. CASE Map(t)
    BY <2>1, MapStep
  <2>2. CASE Create(t)
    BY <2>2, StackCreateStep
  <2>3. CASE Spawn(t)
    BY <2>3, ProcessStep, FlagsDiffer DEF Spawn
  <2>4. CASE PlainClone(t)
    <3> PICK flags \in {VforkFlags, {"SIGCHLD"}, {"CLONE_VM", "SIGCHLD"}} : CloneProcess(t, flags, "clone")
      BY <2>4 DEF PlainClone
    <3> QED
      BY ProcessStep
  <2>5. CASE ChildLeaves(t) \/ Exit(t)
    BY <2>5, LeaveStep
  <2> QED
    BY <2>1, <2>2, <2>3, <2>4, <2>5 DEF Step
<1>2. CASE UNCHANGED vars
  BY <1>2 DEF vars, IInv, TypeOK, AreasApart, LimitsAligned, BoundsInside, StacksApart,
              StartsInBounds, MissingArgumentsUnused, Alive
<1> QED
  BY <1>1, <1>2

\* Every state of CloneStack satisfies the invariant.
THEOREM StackInvariance == Spec => []IInv
  BY InvInit, InvNext, PTL DEF Spec

\* The state of CloneStack keeps its shape.
THEOREM StackTypeCorrect == Spec => []TypeOK
<1>1. IInv => TypeOK
  BY DEF IInv
<1> QED
  BY <1>1, StackInvariance, PTL

\* The framework's idea of a thread's stack is what musl set aside, for any
\* alignment of what the program or musl passes (clone.c:93-100).
THEOREM BoundsCorrect == Spec => []BoundsInside
<1>1. IInv => BoundsInside
  BY DEF IInv
<1> QED
  BY <1>1, StackInvariance, PTL

\* No two threads share an address between bottom and base (clone.c:93-95).
THEOREM StacksDisjoint == Spec => []StacksApart
<1>1. IInv => StacksApart
  BY DEF IInv
<1> QED
  BY <1>1, StackInvariance, PTL

\* Every thread and every spawned child starts aligned and not above its base,
\* and 31 bytes are enough for the two roundings (clone.c:77-79, 97-100).
THEOREM StartPoint == Spec => []StartsInBounds
<1>1. IInv => StartsInBounds
  BY DEF IInv
<1> QED
  BY <1>1, StackInvariance, PTL

\* What posix_spawn leaves out has no effect (clone.c:81-90).
THEOREM SpawnArguments == Spec => []MissingArgumentsUnused
<1>1. IInv => MissingArgumentsUnused
  BY DEF IInv
<1> QED
  BY <1>1, StackInvariance, PTL

-----------------------------------------------------------------------------
(* Thread-local memory.                                                    *)

\* The rounding of __copy_tls: up, by at most 15, to a multiple of 16.
LEMMA CopyTlsRounds ==
  ASSUME NEW mem \in Nat
  PROVE  /\ CopyTls(mem) \in Nat
         /\ mem <= CopyTls(mem) /\ CopyTls(mem) <= mem + 15
         /\ CopyTls(mem) % 16 = 0
BY DEF CopyTls

\* Division drops what is below the divisor.
LEMMA HighHalf ==
  ASSUME NEW i \in Nat, NEW a \in Nat, a < 65536
  PROVE  (i * 65536 + a) \div 65536 = i
OBVIOUS

\* The high half of an align word is the index it was made from, while the
\* index fits a signed half.
LEMMA SubscriptIsIndex ==
  ASSUME NEW i \in Indices
  PROVE  Subscript(AlignWord(i)) = i
<1>1. i \in Nat /\ i < 32768
  BY EmuTlsAssumption
<1>2. AlignWord(i) \div 65536 = i
  BY <1>1, EmuTlsAssumption, HighHalf DEF AlignWord
<1> QED
  BY <1>1, <1>2 DEF Subscript

\* A running thread finds the block of the library that it asks for.
LEMMA BlockIsOwn ==
  ASSUME TlsTypeOK, NEW t \in running, NEW i \in loaded
  PROVE  GetAddress(t, i) = <<t, i>>
<1>1. i \in Indices /\ dtls[t] = Vector(t, loaded)
  BY DEF TlsTypeOK
<1>2. Subscript(AlignWord(i)) = i
  BY <1>1, SubscriptIsIndex
<1>3. DOMAIN dtls[t] = loaded /\ dtls[t][i] = <<t, i>>
  BY <1>1 DEF Vector
<1> QED
  BY <1>2, <1>3 DEF GetAddress

\* The areas begin in their shape, and keep it.
LEMMA TlsTypeInit == TlsInit => TlsTypeOK
BY DEF TlsInit, TlsTypeOK

LEMMA TlsTypeStep == TlsTypeOK /\ [TlsNext]_tlsVars => TlsTypeOK'
<1> SUFFICES ASSUME TlsTypeOK, [TlsNext]_tlsVars
             PROVE  TlsTypeOK'
  OBVIOUS
<1> USE EmuTlsAssumption DEF TlsTypeOK
<1>1. CASE UNCHANGED tlsVars
  BY <1>1 DEF tlsVars
<1>2. ASSUME NEW t \in Users, NEW mem \in Starts, TlsCreate(t, mem)
      PROVE  TlsTypeOK'
  <2>1. mem \in Nat /\ CopyTls(mem) \in Nat
    BY CopyTlsRounds
  <2>2. dtls' = [u \in Users |-> Vector(u, IF u \in running' THEN loaded' ELSE {})]
    BY <1>2, <2>1 DEF TlsCreate
  <2> QED
    BY <1>2, <2>1, <2>2 DEF TlsCreate
<1>3. ASSUME NEW t \in Users, TlsExit(t)
      PROVE  TlsTypeOK'
  <2>1. dtls' = [u \in Users |-> Vector(u, IF u \in running' THEN loaded' ELSE {})]
    BY <1>3 DEF TlsExit
  <2> QED
    BY <1>3, <2>1 DEF TlsExit
<1>4. ASSUME NEW i \in Indices, Load(i)
      PROVE  TlsTypeOK'
  BY <1>4 DEF Load
<1> QED
  BY <1>1, <1>2, <1>3, <1>4 DEF TlsNext

\* A running thread has an area, a struct pthread and a block of every loaded
\* library (__copy_tls.c:27-35).
THEOREM TlsTypeCorrect == TlsSpec => []TlsTypeOK
BY TlsTypeInit, TlsTypeStep, PTL DEF TlsSpec

-----------------------------------------------------------------------------
\* What TdInside rests on: a struct pthread is where __copy_tls put it.
Placed == \A t \in running : td[t] = CopyTls(start[t])

\* No step moves a struct pthread.
LEMMA PlacedStep == TlsTypeOK /\ Placed /\ [TlsNext]_tlsVars => Placed'
<1> SUFFICES ASSUME TlsTypeOK, Placed, [TlsNext]_tlsVars
             PROVE  Placed'
  OBVIOUS
<1> USE EmuTlsAssumption DEF TlsTypeOK, Placed
<1>1. ASSUME NEW t \in Users, NEW mem \in Starts, TlsCreate(t, mem)
      PROVE  Placed'
  BY <1>1 DEF TlsCreate
<1>2. ASSUME NEW t \in Users, TlsExit(t)
      PROVE  Placed'
  BY <1>2 DEF TlsExit
<1>3. CASE UNCHANGED <<running, start, td>>
  BY <1>3
<1> QED
  BY <1>1, <1>2, <1>3 DEF TlsNext, Load, tlsVars

\* Where __copy_tls puts it, a struct pthread is inside its area.
LEMMA PlacedIsInside == TlsTypeOK /\ Placed => TdInside
<1> SUFFICES ASSUME TlsTypeOK, Placed, NEW t \in running
             PROVE  /\ start[t] <= td[t] /\ td[t] + TdSize <= start[t] + tls_size
                    /\ td[t] % 16 = 0
  BY DEF TdInside
<1>1. start[t] \in Nat /\ TdSize \in Nat
  BY EmuTlsAssumption DEF TlsTypeOK
<1>2. td[t] = CopyTls(start[t])
  BY DEF Placed
<1> QED
  BY <1>1, <1>2, CopyTlsRounds DEF tls_size

\* Every struct pthread lies inside the area that was reserved for it and is
\* aligned, for any place and size (crt_glue.c:41-44 and 61, __copy_tls.c:27-30).
THEOREM AreaHoldsTd == TlsSpec => []TdInside
<1>1. TlsInit => Placed
  BY DEF TlsInit, Placed
<1> QED
  BY <1>1, TlsTypeCorrect, PlacedStep, PlacedIsInside, PTL DEF TlsSpec

\* A thread finds its own block of every loaded library, for any indices below
\* 0x8000 and any alignment (crt_tls.c:26-28).
THEOREM OwnVariable == TlsSpec => []VariableIsOwn
<1>1. TlsTypeOK => VariableIsOwn
  BY BlockIsOwn DEF VariableIsOwn
<1> QED
  BY <1>1, TlsTypeCorrect, PTL

-----------------------------------------------------------------------------
(* The calls of the loader.                                                *)

Pcs == {"user", "wrlock", "open", "unlock", "claim", "ctors", "close", "look"}

LoaderTypes ==
  /\ alive \subseteq Threads
  /\ pc \in [Threads -> Pcs]
  /\ base \in [Threads -> Libs \cup {NoLib}]
  /\ ldsoLock \in Threads \cup {Nobody}
  /\ refs \in [Libs -> Nat]
  /\ ctors \in [Libs -> {"none", "due", "running", "done"}]
  /\ running_ctors \in [Threads -> SUBSET Libs]
  /\ owned \in [Threads -> [Libs -> Nat]]
  /\ info \in {0, -1}
  /\ orphaned \in {"no", "open", "unlock"}

\* The lock is with whoever is in the loader to open a library, alive or not.
LockHeld ==
  /\ \A t \in alive : pc[t] \in {"open", "unlock"} => ldsoLock = t
  /\ ldsoLock # Nobody => pc[ldsoLock] \in {"open", "unlock"}

\* An open has a base from the loader's answer to its return.
BaseHeld ==
  \A t \in Threads :
    /\ pc[t] \in {"claim", "ctors"} => base[t] # NoLib
    /\ base[t] # NoLib => pc[t] \in {"unlock", "claim", "ctors"}

\* What counts for a library: the handles of the threads, and the opens that
\* are about to return one.
Counts(l) == [t \in Threads |-> owned[t][l] + IF base[t] = l THEN 1 ELSE 0]
Tokens(c) == {h \in Threads \X Nat : h[2] < c[h[1]]}
Handles(l) == Tokens(Counts(l))

RefsCount ==
  \A l \in Libs :
    /\ IsFiniteSet(Handles(l)) /\ refs[l] = Cardinality(Handles(l))
    /\ refs[l] = 0 <=> ctors[l] = "none"

\* A constructor runs in one thread, which is where it runs constructors.
RunningOnce ==
  \A t \in Threads : \A l \in running_ctors[t] :
    /\ pc[t] = "ctors" /\ ctors[l] = "running"
    /\ \A u \in Threads : l \in running_ctors[u] => u = t

\* Whose constructors are not done has them run, or is the only open of them and
\* still under the lock, or there is a thread that takes them up next.
Opening(u, l) == Loader!At(u, "unlock") /\ base[u] = l /\ refs[l] = 1
CtorsCared ==
  \A l \in Libs \ lost :
    /\ ctors[l] = "due" => \E u \in alive : Loader!At(u, "claim") \/ Opening(u, l)
    /\ ctors[l] = "running" => \E u \in alive : l \in running_ctors[u]

LoaderInv ==
  LoaderTypes /\ LockHeld /\ BaseHeld /\ RefsCount /\ RunningOnce /\ CtorsCared

\* One handle more, and one less.
LEMMA TokensAdd ==
  ASSUME NEW c \in [Threads -> Nat], NEW t \in Threads, IsFiniteSet(Tokens(c))
  PROVE  LET d == [c EXCEPT ![t] = @ + 1]
         IN  IsFiniteSet(Tokens(d)) /\ Cardinality(Tokens(d)) = Cardinality(Tokens(c)) + 1
<1> DEFINE d == [c EXCEPT ![t] = @ + 1]
<1>1. Tokens(d) = Tokens(c) \cup {<<t, c[t]>>}
  BY DEF Tokens
<1>2. <<t, c[t]>> \notin Tokens(c)
  BY DEF Tokens
<1> HIDE DEF d
<1>3. IsFiniteSet(Tokens(d)) /\ Cardinality(Tokens(d)) = Cardinality(Tokens(c)) + 1
  BY <1>1, <1>2, FS_AddElement
<1> QED
  BY <1>3 DEF d

\* A handle is given back.
LEMMA TokensDrop ==
  ASSUME NEW c \in [Threads -> Nat], NEW t \in Threads, c[t] > 0, IsFiniteSet(Tokens(c))
  PROVE  LET d == [c EXCEPT ![t] = @ - 1]
         IN  IsFiniteSet(Tokens(d)) /\ Cardinality(Tokens(d)) = Cardinality(Tokens(c)) - 1
<1> DEFINE d == [c EXCEPT ![t] = @ - 1]
           h == <<t, c[t] - 1>>
<1>1. Tokens(d) = Tokens(c) \ {h}
  BY DEF Tokens
<1>2. h \in Tokens(c)
  BY DEF Tokens
<1> HIDE DEF d, h
<1>3. IsFiniteSet(Tokens(d)) /\ Cardinality(Tokens(d)) = Cardinality(Tokens(c)) - 1
  BY <1>1, <1>2, FS_RemoveElement
<1> QED
  BY <1>3 DEF d

\* A library with a handle counts, and one with two counts twice.
LEMMA TokensOne ==
  ASSUME NEW c \in [Threads -> Nat], NEW t \in Threads, c[t] > 0, IsFiniteSet(Tokens(c))
  PROVE  Cardinality(Tokens(c)) # 0
<1>1. <<t, 0>> \in Tokens(c)
  BY DEF Tokens
<1> QED
  BY <1>1, FS_EmptySet

\* Two handles are not one, of two threads or of the same.
LEMMA TokensTwo ==
  ASSUME NEW c \in [Threads -> Nat], NEW t \in Threads, NEW u \in Threads,
         c[t] > 0, c[u] > 0, t # u \/ c[t] > 1,
         IsFiniteSet(Tokens(c))
  PROVE  Cardinality(Tokens(c)) # 1
<1>1. PICK g \in Tokens(c), h \in Tokens(c) : g # h
  <2>1. CASE t # u
    <3>1. <<t, 0>> \in Tokens(c) /\ <<u, 0>> \in Tokens(c) /\ <<t, 0>> # <<u, 0>>
      BY <2>1 DEF Tokens
    <3> QED
      BY <3>1
  <2>2. CASE c[t] > 1
    <3>1. <<t, 0>> \in Tokens(c) /\ <<t, 1>> \in Tokens(c) /\ <<t, 0>> # <<t, 1>>
      BY <2>2 DEF Tokens
    <3> QED
      BY <3>1
  <2> QED
    BY <2>1, <2>2
<1>2. ASSUME Cardinality(Tokens(c)) = 1 PROVE FALSE
  <2>1. PICK x : Tokens(c) = {x}
    BY <1>2, FS_Singleton
  <2> QED
    BY <1>1, <2>1
<1> QED
  BY <1>2

\* A thread has a number of handles of each library.
LEMMA CountsType == ASSUME LoaderTypes, NEW l \in Libs PROVE Counts(l) \in [Threads -> Nat]
  BY DEF LoaderTypes, Counts

\* The loader's calls begin within the invariant.
LEMMA LoaderInit == Loader!Init => LoaderInv
<1> SUFFICES ASSUME Loader!Init PROVE LoaderInv
  OBVIOUS
<1> USE RuntimeAssumption DEF Loader!LdsoCallsAssumption, Loader!Init
<1>1. LoaderTypes
  BY DEF LoaderTypes, Pcs
<1>2. LockHeld /\ BaseHeld
  BY DEF LockHeld, BaseHeld
<1>3. RefsCount
  <2> SUFFICES ASSUME NEW l \in Libs PROVE Handles(l) = {}
    BY FS_EmptySet DEF RefsCount
  <2>1. \A t \in Threads : base[t] # l /\ owned[t][l] = 0
    OBVIOUS
  <2>2. ASSUME NEW t \in Threads PROVE Counts(l)[t] = owned[t][l]
    <3>1. Counts(l)[t] = owned[t][l] + 0
      BY <2>1 DEF Counts
    <3> QED
      BY <2>1, <3>1
  <2>3. \A t \in Threads : Counts(l)[t] = 0
    BY <2>1, <2>2
  <2> QED
    BY <2>3 DEF Handles, Tokens
<1>4. RunningOnce /\ CtorsCared
  BY DEF RunningOnce, CtorsCared
<1> QED
  BY <1>1, <1>2, <1>3, <1>4 DEF LoaderInv

\* A thread goes between the program and a call that has not come to the loader
\* or has left it, and dlinfo.
LEMMA QuietStep ==
  ASSUME LoaderInv, NEW t \in Threads,
         \/ Loader!Open(t) \/ Loader!Close(t) \/ Loader!LookUp(t) \/ Loader!LookedUp(t)
         \/ \E s \in {0, 1, -22} : Loader!Info(t, s)
  PROVE  LoaderInv'
<1> USE DEF LoaderInv, Loader!libVars, Loader!threadVars, Loader!forkVars
<1>1. PICK p \in Pcs \ {"open", "unlock", "claim", "ctors"} :
        /\ t \in alive /\ pc[t] \in {"user", "look"} /\ pc' = [pc EXCEPT ![t] = p]
        /\ info' \in {0, -1}
        /\ UNCHANGED <<alive, base, running_ctors, owned, ldsoLock, refs, ctors, orphaned, lost>>
  <2>1. CASE \/ Loader!Open(t) \/ Loader!Close(t) \/ Loader!LookUp(t) \/ Loader!LookedUp(t)
    BY <2>1 DEF Loader!Open, Loader!Close, Loader!LookUp, Loader!LookedUp, Loader!Go, Loader!At,
                LoaderTypes, Pcs
  <2>2. ASSUME NEW s \in {0, 1, -22}, Loader!Info(t, s)
        PROVE  pc' = [pc EXCEPT ![t] = "user"] /\ info' \in {0, -1}
    BY <2>2 DEF Loader!Info, Loader!InfoResult, Loader!At, LoaderTypes
  <2> QED
    BY <2>1, <2>2 DEF Loader!Info, Loader!At, Pcs
<1>2. LoaderTypes' /\ LockHeld' /\ BaseHeld'
  BY <1>1 DEF LoaderTypes, LockHeld, BaseHeld
<1>3. RefsCount'
  BY <1>1 DEF RefsCount, Handles, Tokens, Counts
<1>4. RunningOnce'
  BY <1>1 DEF RunningOnce
<1>5. CtorsCared'
  BY <1>1 DEF CtorsCared, Opening, Loader!At, LoaderTypes
<1> QED
  BY <1>2, <1>3, <1>4, <1>5

\* The lock is taken.
LEMMA LockStep ==
  ASSUME LoaderInv, NEW t \in Threads, Loader!Lock(t)
  PROVE  LoaderInv'
<1> USE RuntimeAssumption
    DEF LoaderInv, Loader!Lock, Loader!Go, Loader!At, Loader!libVars, Loader!forkVars,
        Loader!LdsoCallsAssumption
<1>1. LoaderTypes' /\ LockHeld' /\ BaseHeld'
  BY DEF LoaderTypes, LockHeld, BaseHeld, Pcs
<1>2. RefsCount'
  BY DEF RefsCount, Handles, Tokens, Counts
<1>3. RunningOnce'
  BY DEF RunningOnce
<1>4. CtorsCared'
  BY DEF CtorsCared, Opening, LoaderTypes
<1> QED
  BY <1>1, <1>2, <1>3, <1>4

\* The lock is given back, and the base tested.
LEMMA UnlockStep ==
  ASSUME LoaderInv, NEW t \in Threads, Loader!Unlock(t)
  PROVE  LoaderInv'
<1> USE RuntimeAssumption
    DEF LoaderInv, Loader!Unlock, Loader!Go, Loader!At, Loader!libVars, Loader!forkVars,
        Loader!LdsoCallsAssumption
<1>1. LoaderTypes' /\ LockHeld' /\ BaseHeld'
  BY DEF LoaderTypes, LockHeld, BaseHeld, Pcs
<1>2. RefsCount'
  BY DEF RefsCount, Handles, Tokens, Counts
<1>3. RunningOnce'
  BY DEF RunningOnce
<1>4. CtorsCared'
  BY DEF CtorsCared, Opening, LoaderTypes
<1> QED
  BY <1>1, <1>2, <1>3, <1>4

\* The loader answers with a base or with null.
LEMMA OpenStep ==
  ASSUME LoaderInv, NEW t \in Threads, NEW lib \in Libs \cup {NoLib}, Loader!LoaderOpen(t, lib)
  PROVE  LoaderInv'
<1> USE RuntimeAssumption
    DEF LoaderInv, Loader!LoaderOpen, Loader!Go, Loader!At, Loader!forkVars,
        Loader!LdsoCallsAssumption
<1>1. LoaderTypes' /\ LockHeld' /\ BaseHeld'
  BY DEF LoaderTypes, LockHeld, BaseHeld, Pcs
<1>2. base[t] = NoLib /\ \A u \in alive : u # t => pc[u] \notin {"open", "unlock"}
  BY DEF LoaderTypes, BaseHeld, LockHeld
<1>3. ASSUME NEW l \in Libs
      PROVE  IsFiniteSet(Handles(l)') /\ refs'[l] = Cardinality(Handles(l)')
  <2>1. CASE l = lib
    <3>1. Counts(l)' = [Counts(l) EXCEPT ![t] = @ + 1]
      <4>1. ASSUME NEW u \in Threads
            PROVE  Counts(l)'[u] = [Counts(l) EXCEPT ![t] = @ + 1][u]
        BY <1>2, <2>1 DEF Counts, LoaderTypes
      <4> QED
        BY <4>1 DEF Counts
    <3>2. Counts(l) \in [Threads -> Nat] /\ IsFiniteSet(Handles(l)) /\ refs[l] = Cardinality(Handles(l))
      BY CountsType DEF RefsCount
    <3>3. IsFiniteSet(Handles(l)') /\ Cardinality(Handles(l)') = Cardinality(Handles(l)) + 1
      BY <3>1, <3>2, TokensAdd DEF Handles
    <3> QED
      BY <2>1, <3>2, <3>3
  <2>2. CASE l # lib
    <3>1. Counts(l)' = Counts(l) /\ refs'[l] = refs[l]
      BY <1>2, <2>2 DEF Counts, LoaderTypes
    <3> QED
      BY <3>1 DEF Handles, Tokens, RefsCount
  <2> QED
    BY <2>1, <2>2
<1>4. RefsCount'
  <2>1. \A l \in Libs : refs'[l] = 0 <=> ctors'[l] = "none"
    BY DEF RefsCount, LoaderTypes
  <2> QED
    BY <1>3, <2>1 DEF RefsCount
<1>5. RunningOnce'
  BY DEF RunningOnce, RefsCount, LoaderTypes
<1>6. CtorsCared'
  <2> SUFFICES ASSUME NEW l \in Libs \ lost
               PROVE  /\ ctors'[l] = "due" => \E u \in alive :
                            (pc'[u] = "claim" \/ Opening(u, l)')
                      /\ ctors'[l] = "running" => \E u \in alive : l \in running_ctors[u]
    BY DEF CtorsCared
  <2>1. CASE l = lib /\ refs[l] = 0
    BY <2>1 DEF Opening, LoaderTypes
  <2>2. CASE ~(l = lib /\ refs[l] = 0)
    <3>1. ctors'[l] = ctors[l]
      BY <2>2
    <3>2. ASSUME ctors[l] = "due" PROVE \E u \in alive : pc[u] = "claim"
      BY <1>2, <3>2 DEF CtorsCared, Opening
    <3>3. \A u \in alive : pc[u] = "claim" => pc'[u] = "claim"
      BY DEF LoaderTypes
    <3> QED
      BY <3>1, <3>2, <3>3 DEF CtorsCared
  <2> QED
    BY <2>1, <2>2
<1> QED
  BY <1>1, <1>4, <1>5, <1>6

\* A thread takes up what is due.
LEMMA ClaimStep ==
  ASSUME LoaderInv, NEW t \in Threads, Loader!RunCtors(t)
  PROVE  LoaderInv'
<1> USE RuntimeAssumption
    DEF LoaderInv, Loader!RunCtors, Loader!Go, Loader!At, Loader!Due, Loader!forkVars,
        Loader!LdsoCallsAssumption
<1>1. LoaderTypes' /\ LockHeld' /\ BaseHeld'
  BY DEF LoaderTypes, LockHeld, BaseHeld, Pcs
<1>2. RefsCount'
  BY DEF RefsCount, Handles, Tokens, Counts, LoaderTypes
<1>3. RunningOnce'
  BY DEF RunningOnce, LoaderTypes
<1>4. CtorsCared'
  <2> SUFFICES ASSUME NEW l \in Libs \ lost
               PROVE  /\ ctors'[l] # "due"
                      /\ ctors'[l] = "running" => \E u \in alive : l \in running_ctors'[u]
    BY DEF CtorsCared
  <2>1. ctors'[l] # "due" /\ (ctors[l] = "due" => l \in running_ctors'[t])
    BY DEF LoaderTypes
  <2>2. ASSUME NEW u \in alive, l \in running_ctors[u] PROVE l \in running_ctors'[u]
    BY <2>2 DEF LoaderTypes, RunningOnce
  <2> QED
    BY <2>1, <2>2 DEF CtorsCared, LoaderTypes
<1> QED
  BY <1>1, <1>2, <1>3, <1>4

\* Constructors come back, and the call returns its base.
LEMMA ReturnStep ==
  ASSUME LoaderInv, NEW t \in Threads, Loader!CtorsReturn(t)
  PROVE  LoaderInv'
<1> USE RuntimeAssumption
    DEF LoaderInv, Loader!CtorsReturn, Loader!Go, Loader!At, Loader!forkVars,
        Loader!LdsoCallsAssumption
<1>1. base[t] \in Libs
  BY DEF LoaderTypes, BaseHeld
<1>2. LoaderTypes' /\ LockHeld' /\ BaseHeld'
  BY <1>1 DEF LoaderTypes, LockHeld, BaseHeld, Pcs
<1>3. ASSUME NEW l \in Libs PROVE Counts(l)' = Counts(l)
  BY <1>1 DEF Counts, LoaderTypes
<1>4. RefsCount'
  <2>1. \A l \in Libs : Handles(l)' = Handles(l)
    BY <1>3 DEF Handles, Tokens
  <2>2. \A l \in Libs : ctors'[l] = "none" <=> ctors[l] = "none"
    BY DEF RunningOnce, LoaderTypes
  <2> QED
    BY <2>1, <2>2 DEF RefsCount
<1>5. RunningOnce'
  BY DEF RunningOnce, LoaderTypes
<1>6. CtorsCared'
  <2> SUFFICES ASSUME NEW l \in Libs \ lost
               PROVE  /\ ctors'[l] = "due" => \E u \in alive : (pc'[u] = "claim" \/ Opening(u, l)')
                      /\ ctors'[l] = "running" => \E u \in alive : l \in running_ctors'[u]
    BY DEF CtorsCared
  <2>1. ASSUME NEW u \in alive, u # t
        PROVE  pc'[u] = pc[u] /\ base'[u] = base[u] /\ running_ctors'[u] = running_ctors[u]
    BY <2>1 DEF LoaderTypes
  <2>2. ctors'[l] \in {"due", "running"} => ctors'[l] = ctors[l] /\ l \notin running_ctors[t]
    BY DEF LoaderTypes
  <2>3. ASSUME ctors[l] = "due" PROVE \E u \in alive : pc'[u] = "claim" \/ Opening(u, l)'
    BY <2>1, <2>3 DEF CtorsCared, Opening
  <2>4. ASSUME ctors[l] = "running", l \notin running_ctors[t]
        PROVE  \E u \in alive : l \in running_ctors'[u]
    BY <2>1, <2>4 DEF CtorsCared
  <2> QED
    BY <2>2, <2>3, <2>4
<1> QED
  BY <1>2, <1>4, <1>5, <1>6

\* A handle is closed.
LEMMA CloseStep ==
  ASSUME LoaderInv, NEW t \in Threads, NEW lib \in Libs, Loader!LoaderClose(t, lib)
  PROVE  LoaderInv'
<1> USE RuntimeAssumption
    DEF LoaderInv, Loader!LoaderClose, Loader!Go, Loader!At, Loader!LdsoCallsAssumption
<1>1. base[t] = NoLib /\ Counts(lib)[t] = owned[t][lib] /\ owned[t][lib] > 0
  BY DEF LoaderTypes, BaseHeld, Counts
<1>2. ASSUME NEW l \in Libs
      PROVE  IsFiniteSet(Handles(l)) /\ Counts(l) \in [Threads -> Nat] /\ refs[l] = Cardinality(Handles(l))
  BY <1>2, CountsType DEF RefsCount
<1>3. refs[lib] \in Nat /\ refs[lib] > 0
  <2>1. Cardinality(Handles(lib)) # 0
    BY <1>1, <1>2, TokensOne DEF Handles
  <2> QED
    BY <1>2, <2>1 DEF LoaderTypes
<1>4. LoaderTypes' /\ LockHeld' /\ BaseHeld'
  BY <1>1, <1>3 DEF LoaderTypes, LockHeld, BaseHeld, Pcs
<1>5. ASSUME NEW l \in Libs
      PROVE  IsFiniteSet(Handles(l)') /\ refs'[l] = Cardinality(Handles(l)')
  <2>1. CASE l = lib
    <3>1. Counts(l)' = [Counts(l) EXCEPT ![t] = @ - 1]
      <4>1. ASSUME NEW u \in Threads
            PROVE  Counts(l)'[u] = [Counts(l) EXCEPT ![t] = @ - 1][u]
        BY <1>1, <2>1 DEF Counts, LoaderTypes
      <4> QED
        BY <4>1 DEF Counts
    <3>2. IsFiniteSet(Handles(l)') /\ Cardinality(Handles(l)') = Cardinality(Handles(l)) - 1
      BY <1>1, <1>2, <2>1, <3>1, TokensDrop DEF Handles
    <3> QED
      BY <1>2, <2>1, <3>2 DEF LoaderTypes
  <2>2. CASE l # lib
    <3>1. Counts(l)' = Counts(l) /\ refs'[l] = refs[l]
      BY <2>2 DEF Counts, LoaderTypes
    <3> QED
      BY <3>1, <1>2 DEF Handles, Tokens
  <2> QED
    BY <2>1, <2>2
<1>6. RefsCount'
  <2>1. \A l \in Libs : refs'[l] = 0 <=> ctors'[l] = "none"
    BY <1>3 DEF RefsCount, LoaderTypes
  <2> QED
    BY <1>5, <2>1 DEF RefsCount
<1>7. RunningOnce'
  BY DEF RunningOnce, LoaderTypes
<1>8. CtorsCared'
  BY <1>3 DEF CtorsCared, Opening, LoaderTypes
<1> QED
  BY <1>4, <1>6, <1>7, <1>8

\* After a fork the child is followed.
LEMMA ForkStep ==
  ASSUME LoaderInv, NEW t \in Threads, Loader!Fork(t)
  PROVE  LoaderInv'
<1> USE RuntimeAssumption
    DEF LoaderInv, Loader!Fork, Loader!InUserCode, Loader!At, Loader!libVars,
        Loader!LdsoCallsAssumption
<1>1. LoaderTypes' /\ LockHeld' /\ BaseHeld'
  BY DEF LoaderTypes, LockHeld, BaseHeld, Pcs
<1>2. RefsCount'
  BY DEF RefsCount, Handles, Tokens, Counts
<1>3. RunningOnce'
  BY DEF RunningOnce
<1>4. CtorsCared'
  BY DEF CtorsCared, RunningOnce, LoaderTypes
<1> QED
  BY <1>1, <1>2, <1>3, <1>4

\* Every step of an open, a close, a lookup and a fork keeps it.
LEMMA LoaderNext == LoaderInv /\ [Loader!Next]_loaderVars => LoaderInv'
<1> SUFFICES ASSUME LoaderInv, [Loader!Next]_loaderVars PROVE LoaderInv'
  OBVIOUS
<1>1. ASSUME NEW t \in Threads, Loader!Progress(t) PROVE LoaderInv'
  BY <1>1, LockStep, UnlockStep, ClaimStep, ReturnStep, QuietStep, OpenStep, CloseStep
  DEF Loader!Progress
<1>2. CASE UNCHANGED loaderVars
  <2> USE <1>2 DEF loaderVars
  <2>1. LoaderTypes' /\ LockHeld' /\ BaseHeld' /\ RunningOnce'
    BY DEF LoaderInv, LoaderTypes, LockHeld, BaseHeld, RunningOnce
  <2>2. RefsCount'
    BY DEF LoaderInv, RefsCount, Handles, Tokens, Counts
  <2>3. CtorsCared'
    BY DEF LoaderInv, CtorsCared, Opening, Loader!At
  <2> QED
    BY <2>1, <2>2, <2>3 DEF LoaderInv
<1>3. ASSUME NEW t \in Threads,
             \/ Loader!Open(t) \/ Loader!Close(t) \/ Loader!LookUp(t)
             \/ \E s \in {0, 1, -22} : Loader!Info(t, s)
      PROVE  LoaderInv'
  BY <1>3, QuietStep
<1>4. ASSUME NEW t \in Threads, Loader!Fork(t) PROVE LoaderInv'
  BY <1>4, ForkStep
<1> QED
  BY <1>1, <1>2, <1>3, <1>4 DEF Loader!Next

\* What the invariant says of the program.
LEMMA LoaderInvSound == LoaderInv => LoaderSound
  BY DEF LoaderInv, LoaderTypes, LockHeld, RefsCount, LoaderSound, Loader!LoaderSound,
         Loader!TypeOK, Loader!OpensMeetNoOpen, Loader!OrphanedInLoader, Loader!At

\* Nobody has a library whose constructors were forgotten.
LEMMA LoaderInvEarly == LoaderInv => EarlyOnlyWhileRun
<1> SUFFICES ASSUME LoaderInv, NEW t \in alive, NEW l \in Libs \ lost,
                    owned[t][l] > 0, ctors[l] # "done"
             PROVE  \E u \in alive : l \in running_ctors[u] \/ Loader!At(u, "claim")
  BY DEF EarlyOnlyWhileRun, Loader!EarlyOnlyWhileRun
<1> USE DEF LoaderInv
<1>1. IsFiniteSet(Handles(l)) /\ Counts(l) \in [Threads -> Nat] /\ refs[l] = Cardinality(Handles(l))
  BY CountsType DEF RefsCount
<1>2. t \in Threads /\ Counts(l)[t] > 0
  BY DEF Counts, LoaderTypes
<1>3. ctors[l] # "none"
  <2>1. Cardinality(Handles(l)) # 0
    BY <1>1, <1>2, TokensOne DEF Handles
  <2> QED
    BY <1>1, <2>1 DEF RefsCount
<1>4. ASSUME NEW u \in alive PROVE ~Opening(u, l)
  <2> SUFFICES ASSUME base[u] = l, refs[l] = 1 PROVE FALSE
    BY DEF Opening
  <2>1. u \in Threads /\ Counts(l)[u] > 0 /\ (u = t => Counts(l)[u] > 1)
    BY DEF Counts, LoaderTypes
  <2>2. Cardinality(Handles(l)) # 1
    BY <1>1, <1>2, <2>1, TokensTwo DEF Handles
  <2> QED
    BY <1>1, <2>2
<1> QED
  BY <1>3, <1>4 DEF CtorsCared, LoaderTypes

\* The invariant holds in every behaviour of MCRuntime.
LEMMA LoaderInvariance == RuntimeSpec => []LoaderInv
<1>1. RuntimeInit => LoaderInv
  BY LoaderInit DEF RuntimeInit
<1>2. [RuntimeNext]_runtimeVars => [Loader!Next]_loaderVars
  BY DEF RuntimeNext, runtimeVars
<1> QED
  BY <1>1, <1>2, LoaderNext, PTL DEF RuntimeSpec

\* Opens exclude each other, the counts of the libraries are those of the
\* handles, and a lock that a fork leaves taken was taken in the loader
\* (dynlink.c:42, 91-107).
THEOREM LoaderCorrect == RuntimeSpec => []LoaderSound
  BY LoaderInvariance, LoaderInvSound, PTL

\* Nobody's constructors are forgotten: a library that a thread has the handle of
\* is initialised, or a thread is about it (dynlink.c:104-107).
THEOREM NobodyForgotten == RuntimeSpec => []EarlyOnlyWhileRun
  BY LoaderInvariance, LoaderInvEarly, PTL

-----------------------------------------------------------------------------
(* The list of threads.                                                    *)

\* The threads of libc that are not at their end.
Member(t) == t \in List!All \ Surrogates /\ stage[t] \in {"running", "creating"}

\* Members and nobody else are in the ring, and it can be walked both ways.
RingClosed ==
  List!Listed => \A t \in List!All : Member(t) =>
    /\ Member(next[t]) /\ Member(prev[t])
    /\ prev[next[t]] = t /\ next[prev[t]] = t

\* A thread that a third party has made has no place in the ring.
SurrogatesApart == \A t \in Surrogates : next[t] = Nobody /\ stage[t] \notin {"exiting", "gone"}

\* The lock of the list is with whoever creates or exits.
ListLockHeld ==
  List!Listed => \A t \in List!All : stage[t] \in {"creating", "exiting"} => lock = t

\* The word that pthread_join waits for stays as long as the thread.
JoinWord == IF List!Listed THEN "detach_state" ELSE List!LibcWord
WordStays ==
  \A t \in List!All \ Surrogates :
    /\ stage[t] \in {"running", "creating"} => JoinWord \in word[t]
    /\ stage[t] = "exiting" /\ ~List!Listed => JoinWord \in word[t]

\* What is joined is a thread of libc.
JoinsBorn ==
  \A t \in List!All : joins[t] # Nobody =>
    joins[t] \in List!All \ Surrogates /\ stage[joins[t]] # "unborn"

ListInv ==
  /\ List!TypeOK /\ List!JoinedAreGone
  /\ RingClosed /\ SurrogatesApart /\ ListLockHeld /\ WordStays /\ JoinsBorn

\* The threads of libc and those of others are kept apart.
LEMMA AllThreads ==
  /\ Main \in List!All \ Surrogates /\ Nobody \notin List!All
  /\ Surrogates \subseteq List!All /\ Threads \subseteq List!All \ Surrogates
  BY RuntimeAssumption DEF List!ThreadListAssumption, List!All

\* The list begins within the invariant.
LEMMA ListInit == List!Init => ListInv
<1> SUFFICES ASSUME List!Init PROVE ListInv
  OBVIOUS
<1> USE AllThreads DEF List!Init
<1>1. List!TypeOK /\ List!JoinedAreGone
  BY DEF List!TypeOK, List!JoinedAreGone, List!Stages, List!Words
<1>2. RingClosed /\ SurrogatesApart /\ ListLockHeld /\ WordStays /\ JoinsBorn
  BY DEF RingClosed, Member, SurrogatesApart, ListLockHeld, WordStays, JoinsBorn
<1> QED
  BY <1>1, <1>2 DEF ListInv

\* The word that a join waits for is one that a thread has, in each generation.
LEMMA WordTypes ==
  ASSUME List!TypeOK
  PROVE  /\ List!LibcWord \in List!Words \cup {"thread_list_lock"}
         /\ List!GlueWord \in List!Words
         /\ List!MainWords \in SUBSET List!Words
         /\ JoinWord \in List!MainWords /\ JoinWord \in List!Words
         /\ List!Listed <=> List!LibcWord = "thread_list_lock"
         /\ ~List!Listed => JoinWord = List!LibcWord
  BY DEF List!TypeOK, List!LibcWord, List!GlueWord, List!MainWords, List!Words, List!Listed, JoinWord

\* The main thread becomes a thread of libc.
LEMMA InitTlsStep == ListInv /\ List!InitTls => ListInv'
<1> SUFFICES ASSUME ListInv, List!InitTls PROVE ListInv'
  OBVIOUS
<1> USE AllThreads, WordTypes DEF ListInv, List!InitTls
<1>1. List!TypeOK' /\ List!JoinedAreGone'
  BY DEF List!TypeOK, List!JoinedAreGone, List!Stages
<1>2. RingClosed'
  BY DEF RingClosed, Member, List!TypeOK, List!Listed
<1>3. SurrogatesApart' /\ ListLockHeld'
  BY DEF SurrogatesApart, ListLockHeld, List!TypeOK, List!Listed
<1>4. WordStays' /\ JoinsBorn'
  BY DEF WordStays, JoinsBorn, JoinWord, List!Listed, List!LibcWord, List!TypeOK
<1> QED
  BY <1>1, <1>2, <1>3, <1>4

\* A thread of a third party, and pthread_create and pthread_join up to where
\* they wait.
LEMMA EnterStep ==
  ASSUME ListInv, NEW t \in List!All,
         List!SurrogateInit(t) \/ List!CreateEnter(t) \/ List!CreateFails(t)
  PROVE  ListInv'
<1> USE AllThreads
    DEF ListInv, List!SurrogateInit, List!CreateEnter, List!CreateFails, List!TakeLock
<1>1. List!TypeOK' /\ List!JoinedAreGone'
  BY DEF List!TypeOK, List!JoinedAreGone, List!Stages
<1>2. RingClosed'
  BY DEF RingClosed, Member, List!TypeOK, List!Listed
<1>3. SurrogatesApart' /\ ListLockHeld'
  BY DEF SurrogatesApart, ListLockHeld, List!TypeOK, List!Listed
<1>4. WordStays' /\ JoinsBorn'
  BY DEF WordStays, JoinsBorn, JoinWord, List!Listed, List!LibcWord, List!TypeOK
<1> QED
  BY <1>1, <1>2, <1>3, <1>4

\* pthread_create puts the new thread behind its creator.
LEMMA CreateStep ==
  ASSUME ListInv, NEW t \in List!All, List!CreateLeave(t)
  PROVE  ListInv'
<1> USE AllThreads, WordTypes DEF ListInv
<1>1. CASE List!Listed /\ next[t] = Nobody
  <2>1. t \in Surrogates
    BY <1>1 DEF RingClosed, Member, List!CreateLeave
  <2>2. UNCHANGED <<variant, stage, word, cleared, lock, next, prev, joins, joined>> /\ faulted' = t
    BY <1>1 DEF List!CreateLeave
  <2>3. List!TypeOK' /\ List!JoinedAreGone' /\ RingClosed' /\ SurrogatesApart'
    BY <2>1, <2>2 DEF List!TypeOK, List!JoinedAreGone, RingClosed, Member, SurrogatesApart, List!Listed
  <2>4. ListLockHeld' /\ WordStays' /\ JoinsBorn'
    BY <2>2 DEF ListLockHeld, WordStays, JoinsBorn, JoinWord, List!Listed, List!LibcWord
  <2> QED
    BY <2>3, <2>4
<1>2. CASE ~(List!Listed /\ next[t] = Nobody)
  <2>1. PICK u \in Threads :
          /\ stage[t] = "creating" /\ stage[u] = "unborn"
          /\ stage' = [stage EXCEPT ![t] = "running", ![u] = "running"]
          /\ word' = [word EXCEPT ![u] = List!Words]
          /\ cleared' = [cleared EXCEPT ![u] = List!LibcWord]
          /\ IF List!Listed THEN List!Insert(t, u) ELSE UNCHANGED <<next, prev>>
          /\ lock' = Nobody
          /\ UNCHANGED <<variant, joins, joined, faulted>>
    BY <1>2 DEF List!CreateLeave
  <2>2. List!Listed => Member(t)
    BY <1>2, <2>1 DEF SurrogatesApart, Member
  <2>3. List!TypeOK' /\ List!JoinedAreGone'
    BY <2>1, <2>2 DEF List!TypeOK, List!JoinedAreGone, List!Stages, List!Insert, RingClosed, Member
  <2>4. RingClosed'
    <3> SUFFICES ASSUME List!Listed, NEW s \in List!All, Member(s)'
                 PROVE  /\ Member(next[s])' /\ Member(prev[s])'
                        /\ prev'[next'[s]] = s /\ next'[prev'[s]] = s
      BY <2>1 DEF RingClosed, List!Listed
    <3>1. /\ u # t /\ Member(t) /\ ~Member(u) /\ Member(next[t]) /\ prev[next[t]] = t
          /\ next' = [next EXCEPT ![u] = next[t], ![t] = u]
          /\ prev' = [prev EXCEPT ![next[t]] = u, ![u] = t]
      BY <2>1, <2>2 DEF RingClosed, Member, List!Insert
    <3>2. \A x : Member(x)' <=> Member(x) \/ x = u
      BY <2>1, <2>2 DEF Member, List!TypeOK
    <3>3. s # u => Member(s) /\ Member(next[s]) /\ Member(prev[s]) /\ prev[next[s]] = s /\ next[prev[s]] = s
      BY <3>2 DEF RingClosed
    <3>4. \A x : Member(x) => x \in List!All
      BY DEF Member
    <3>5. CASE s = u
      BY <3>1, <3>2, <3>4, <3>5 DEF List!TypeOK
    <3>6. CASE s # u
      BY <3>1, <3>2, <3>3, <3>4, <3>6 DEF List!TypeOK
    <3> QED
      BY <3>5, <3>6
  <2>5. SurrogatesApart'
    BY <2>1, <2>2 DEF SurrogatesApart, List!TypeOK, List!Insert, Member
  <2>6. ListLockHeld'
    BY <2>1 DEF ListLockHeld, List!TypeOK, List!Listed
  <2>7. WordStays'
    BY <2>1 DEF WordStays, JoinWord, List!Listed, List!LibcWord, List!TypeOK
  <2>8. JoinsBorn'
    BY <2>1 DEF JoinsBorn, List!TypeOK
  <2> QED
    BY <2>3, <2>4, <2>5, <2>6, <2>7, <2>8
<1> QED
  BY <1>1, <1>2

\* A thread leaves the ring.
LEMMA ExitStep ==
  ASSUME ListInv, NEW t \in List!All, List!ExitEnter(t)
  PROVE  ListInv'
<1> USE AllThreads, WordTypes DEF ListInv, List!ExitEnter, List!TakeLock
<1>1. Member(t)
  BY DEF Member
<1>2. List!TypeOK' /\ List!JoinedAreGone'
  BY <1>1 DEF List!TypeOK, List!JoinedAreGone, List!Stages, RingClosed, Member
<1>3. RingClosed'
  <2> SUFFICES ASSUME List!Listed, NEW s \in List!All, Member(s)'
               PROVE  /\ Member(next[s])' /\ Member(prev[s])'
                      /\ prev'[next'[s]] = s /\ next'[prev'[s]] = s
    BY DEF RingClosed, List!Listed
  <2>1. /\ next' = [next EXCEPT ![prev[t]] = next[t], ![t] = t]
        /\ prev' = [prev EXCEPT ![next[t]] = prev[t], ![t] = t]
    OBVIOUS
  <2>2. \A x : Member(x)' <=> Member(x) /\ x # t
    BY DEF Member, List!TypeOK
  <2>3. \A x \in {s, t} : Member(x) /\ Member(next[x]) /\ Member(prev[x]) /\ prev[next[x]] = x /\ next[prev[x]] = x
    BY <1>1, <2>2 DEF RingClosed
  <2>4. \A x : Member(x) => x \in List!All
    BY DEF Member
  <2>5. s # t
    BY <2>2
  <2> QED
    BY <2>1, <2>2, <2>3, <2>4, <2>5 DEF List!TypeOK
<1>4. SurrogatesApart'
  BY <1>1 DEF SurrogatesApart, List!TypeOK, Member, RingClosed
<1>5. ListLockHeld'
  BY DEF ListLockHeld, List!TypeOK, List!Listed
<1>6. WordStays'
  BY DEF WordStays, JoinWord, List!Listed, List!LibcWord, List!TypeOK
<1>7. JoinsBorn'
  BY DEF JoinsBorn, List!TypeOK
<1> QED
  BY <1>2, <1>3, <1>4, <1>5, <1>6, <1>7

\* The framework ends a thread.
LEMMA GoneStep ==
  ASSUME ListInv, NEW t \in List!All, List!Gone(t)
  PROVE  ListInv'
<1> USE AllThreads DEF ListInv, List!Gone
<1>1. List!TypeOK' /\ List!JoinedAreGone'
  BY DEF List!TypeOK, List!JoinedAreGone, List!Stages
<1>2. RingClosed'
  BY DEF RingClosed, Member, List!TypeOK, List!Listed
<1>3. t \notin Surrogates
  BY DEF SurrogatesApart
<1>4. SurrogatesApart'
  BY <1>3 DEF SurrogatesApart, List!TypeOK
<1>5. ListLockHeld'
  BY DEF ListLockHeld, List!TypeOK, List!Listed
<1>6. WordStays'
  BY DEF WordStays, JoinWord, List!Listed, List!LibcWord, List!TypeOK
<1>7. JoinsBorn'
  BY DEF JoinsBorn, List!TypeOK
<1> QED
  BY <1>1, <1>2, <1>4, <1>5, <1>6, <1>7

\* A thread begins to wait for another.
LEMMA JoinEnterStep ==
  ASSUME ListInv, NEW t \in List!All, NEW u \in List!All, List!JoinEnter(t, u)
  PROVE  ListInv'
<1> USE AllThreads DEF ListInv, List!JoinEnter
<1>1. List!TypeOK' /\ List!JoinedAreGone'
  BY DEF List!TypeOK, List!JoinedAreGone
<1>2. RingClosed' /\ SurrogatesApart' /\ ListLockHeld'
  BY DEF RingClosed, Member, SurrogatesApart, ListLockHeld, List!Listed
<1>3. WordStays' /\ JoinsBorn'
  BY DEF WordStays, JoinWord, List!Listed, List!LibcWord, JoinsBorn, List!TypeOK
<1> QED
  BY <1>1, <1>2, <1>3

\* A thread that waits finds the word cleared: the other one is gone.
LEMMA JoinLeaveStep ==
  ASSUME ListInv, NEW t \in List!All, List!JoinLeave(t)
  PROVE  ListInv'
<1> USE AllThreads DEF ListInv, List!JoinLeave
<1> DEFINE u == joins[t]
<1>1. u \in List!All \ Surrogates /\ stage[u] # "unborn" /\ stage[u] \in List!Stages
  BY DEF JoinsBorn, List!TypeOK
<1>2. JoinWord \notin word[u] /\ (List!Listed => lock = Nobody)
  BY DEF JoinWord
<1>3. stage[u] = "gone"
  BY <1>1, <1>2 DEF WordStays, ListLockHeld, List!Stages
<1>4. List!TypeOK' /\ List!JoinedAreGone'
  BY <1>1, <1>3 DEF List!TypeOK, List!JoinedAreGone
<1>5. RingClosed' /\ SurrogatesApart' /\ ListLockHeld'
  BY DEF RingClosed, Member, SurrogatesApart, ListLockHeld, List!Listed
<1>6. WordStays' /\ JoinsBorn'
  BY DEF WordStays, JoinWord, List!Listed, List!LibcWord, JoinsBorn, List!TypeOK
<1> QED
  BY <1>4, <1>5, <1>6

\* Every step of a thread keeps it.
LEMMA ListNext == ListInv /\ [List!Next]_listVars => ListInv'
<1> SUFFICES ASSUME ListInv, [List!Next]_listVars PROVE ListInv'
  OBVIOUS
<1>1. ASSUME NEW t \in List!All, List!Step(t) PROVE ListInv'
  BY <1>1, EnterStep, CreateStep, ExitStep, GoneStep, JoinEnterStep, JoinLeaveStep DEF List!Step
<1>2. CASE UNCHANGED listVars
  <2> USE <1>2 DEF listVars, ListInv
  <2>1. List!TypeOK' /\ List!JoinedAreGone' /\ RingClosed' /\ SurrogatesApart'
    BY DEF List!TypeOK, List!JoinedAreGone, RingClosed, Member, SurrogatesApart, List!Listed
  <2>2. ListLockHeld' /\ WordStays' /\ JoinsBorn'
    BY DEF ListLockHeld, WordStays, JoinsBorn, JoinWord, List!Listed, List!LibcWord
  <2> QED
    BY <2>1, <2>2
<1> QED
  BY <1>1, <1>2, InitTlsStep DEF List!Next

\* What the invariant says of the ring and of joins.
LEMMA ListInvSound == ListInv => ThreadsSound
<1> SUFFICES ASSUME ListInv, List!Listed, NEW t \in List!All, Member(t)
             PROVE  /\ next[t] # Nobody /\ stage[next[t]] \in {"running", "creating"}
                    /\ prev[next[t]] = t /\ next[prev[t]] = t
  BY DEF ListInv, ThreadsSound, List!ThreadsSound, List!RingIsWhole, Member
<1> QED
  BY AllThreads DEF ListInv, RingClosed, Member

\* The memory of a thread is released only after the framework has ended it, and
\* the ring of threads is whole, in every generation of musl (crt_glue.c:48-76).
THEOREM ListCorrect == RuntimeSpec => []ThreadsSound
<1>1. RuntimeInit => ListInv
  BY ListInit DEF RuntimeInit
<1>2. [RuntimeNext]_runtimeVars => [List!Next]_listVars
  BY DEF RuntimeNext, runtimeVars
<1> QED
  BY <1>1, <1>2, ListNext, ListInvSound, PTL DEF RuntimeSpec

-----------------------------------------------------------------------------
(* From a link line to libc.                                               *)

\* A program that loads the framework has one of the two loaders and no other
\* start file that speaks for one of them.
LEMMA LineFacts ==
  ASSUME line \in Start!Lines
  PROVE  /\ Start!Loaded => "Scrt1" \notin line /\ "crtidata" \notin line
         /\ ~("crtldso" \in line /\ "crtvrfs" \in line)
         /\ "crtldso" \in line => "ldso" \in Start!Options /\ "vrfs" \notin Start!Options
         /\ "crtvrfs" \in line => "vrfs" \in Start!Options /\ "ldso" \notin Start!Options
         /\ ~({"ldso", "vrfs"} \subseteq Start!Options)
         /\ \A o \in line \cap Optional :
              \E b \in Start!Options : Start!OptionSymbol[b] \in Start!Defines(o)
<1> USE RuntimeAssumption DEF Start!StartFilesAssumption
<1>1. Start!Linkable(line) /\ line \subseteq Start!Objects
  BY DEF Start!Lines, Start!Objects
<1>2. /\ "Scrt1" \notin line => "crt1" \in line
      /\ "crt1" \in line => "Scrt1" \notin line /\ "Scrtldso" \notin line /\ "Scrtvrfs" \notin line
  BY <1>1 DEF Start!Linkable, Start!Mixed, Start!Objects, Start!Defines
<1>3. ASSUME NEW o \in line, NEW p \in line, NEW s, s \in Start!Defines(o), s \in Start!Defines(p)
      PROVE  o = p
  BY <1>1, <1>3 DEF Start!Linkable
<1>4. /\ "Scrt1" \in line => "crtldso" \notin line /\ "crtvrfs" \notin line
      /\ "crtidata" \in line => "crtldso" \notin line /\ "crtvrfs" \notin line
      /\ ~("crtldso" \in line /\ "crtvrfs" \in line)
      /\ ~("Scrtldso" \in line /\ "Scrtvrfs" \in line)
  BY <1>3 DEF Start!Defines
<1>5. /\ "ldso" \in Start!Options <=> "crtldso" \in line \/ "Scrtldso" \in line
      /\ "vrfs" \in Start!Options <=> "crtvrfs" \in line \/ "Scrtvrfs" \in line
      /\ "crtposix" \in line => "posix" \in Start!Options
      /\ "crtdinga" \in line => "dinga" \in Start!Options
  BY <1>1 DEF Start!Options, Start!OptionSymbol, Start!Linked, Start!Defines, Start!Objects
<1>6. /\ "crtldso" \in line => "ldso" \in Start!Options /\ "vrfs" \notin Start!Options
      /\ "crtvrfs" \in line => "vrfs" \in Start!Options /\ "ldso" \notin Start!Options
      /\ ~({"ldso", "vrfs"} \subseteq Start!Options)
  BY <1>2, <1>4, <1>5
<1>7. ASSUME NEW o \in line \cap Optional
      PROVE  \E b \in Start!Options : Start!OptionSymbol[b] \in Start!Defines(o)
  BY <1>5 DEF Start!OptionSymbol, Start!Defines
<1> QED
  BY <1>2, <1>4, <1>6, <1>7 DEF Start!Loaded

\* What is left when the last name of a path is taken off.
LEMMA FrontOfSnoc ==
  ASSUME NEW S, NEW e \in Seq(S), NEW c \in S
  PROVE  Start!Front(e \o <<c>>) = e
<1> DEFINE t == <<c>>
           s == e \o t
<1>1. t \in Seq(S) /\ Len(t) = 1 /\ t[1] = c
  OBVIOUS
<1> HIDE DEF t
<1>2. /\ s \in Seq(S) /\ Len(s) = Len(e) + 1 /\ Len(e) \in Nat
      /\ \A i \in 1..Len(e) : s[i] = e[i] /\ s[i] \in S
  <2>1. /\ s \in Seq(S) /\ Len(s) = Len(e) + Len(t)
        /\ \A i \in 1..(Len(e) + Len(t)) : s[i] = IF i <= Len(e) THEN e[i] ELSE t[i - Len(e)]
    BY <1>1, ConcatProperties
  <2>2. Len(e) \in Nat /\ \A i \in 1..Len(e) : e[i] \in S
    BY ElementOfSeq, LenProperties
  <2> QED
    BY <1>1, <2>1, <2>2
<1> HIDE DEF s
<1>3. /\ SubSeq(s, 1, Len(e)) \in Seq(S) /\ Len(SubSeq(s, 1, Len(e))) = Len(e)
      /\ \A i \in 1..Len(e) : SubSeq(s, 1, Len(e))[i] = s[i]
  BY <1>2, SubSeqProperties
<1>4. SubSeq(s, 1, Len(e)) = e /\ Len(s) - 1 = Len(e)
  BY <1>2, <1>3, SeqEqual
<1> QED
  BY <1>4 DEF Start!Front, s, t

\* A path of two names is the one and then the other.
LEMMA PairIsConcat ==
  ASSUME NEW S, NEW a \in S, NEW b \in S
  PROVE  <<a>> \o <<b>> = <<a, b>>
<1> DEFINE s == <<a>>
           t == <<b>>
           v == <<a, b>>
<1>1. /\ s \in Seq(S) /\ Len(s) = 1 /\ s[1] = a
      /\ t \in Seq(S) /\ Len(t) = 1 /\ t[1] = b
      /\ v \in Seq(S) /\ Len(v) = 2 /\ v[1] = a /\ v[2] = b
  OBVIOUS
<1> HIDE DEF s, t, v
<1>2. s \o t \in Seq(S) /\ Len(s \o t) = 2 /\ (s \o t)[1] = a /\ (s \o t)[2] = b
  <2>1. /\ s \o t \in Seq(S) /\ Len(s \o t) = Len(s) + Len(t)
        /\ \A i \in 1..(Len(s) + Len(t)) :
             (s \o t)[i] = IF i <= Len(s) THEN s[i] ELSE t[i - Len(s)]
    BY <1>1, ConcatProperties
  <2> QED
    BY <1>1, <2>1
<1>3. \A i \in 1..2 : (s \o t)[i] = v[i]
  BY <1>1, <1>2
<1>4. s \o t = v
  BY <1>1, <1>2, <1>3, SeqEqual
<1> QED
  BY <1>4 DEF s, t, v

\* The directory of a file, in a directory d or in one below it.
LEMMA FrontOfConcat ==
  ASSUME NEW S, NEW d \in Seq(S), NEW a, NEW b
  PROVE  Start!Front(d \o <<a, b>>) = d \o <<a>> /\ Start!Front(d \o <<a>>) = d
<1> DEFINE T == S \cup {a, b}
<1>1. d \in Seq(T) /\ a \in T /\ b \in T
  BY SeqMonotonic
<1> HIDE DEF T
<1>2. <<a>> \in Seq(T) /\ <<b>> \in Seq(T)
  BY <1>1
<1>3. d \o <<a>> \in Seq(T) /\ (d \o <<a>>) \o <<b>> = d \o (<<a>> \o <<b>>)
  BY <1>1, <1>2, ConcatAssociative, ConcatProperties
<1>4. d \o <<a, b>> = (d \o <<a>>) \o <<b>>
  BY <1>1, <1>3, PairIsConcat
<1> QED
  BY <1>1, <1>3, <1>4, FrontOfSnoc

\* The least element of a set of positions.
LEMMA LeastOf ==
  ASSUME NEW S \in SUBSET Nat, S # {}
  PROVE  Start!Min(S) \in S
<1> DEFINE Less == {ss \in Nat \X Nat : ss[1] < ss[2]}
<1>1. IsWellFoundedOn(Less, Nat)
  BY NatLessThanWellFounded DEF OpToRel
<1>2. PICK x \in S : \A y \in S : ~ (<<y, x>> \in Less)
  <2> HIDE DEF Less
  <2> QED BY <1>1, WFMin
<1>3. \A y \in S : x <= y
  <2> TAKE y \in S
  <2>1. y < x => <<y, x>> \in Less
    OBVIOUS
  <2>2. ~ (<<y, x>> \in Less)
    BY <1>2
  <2> HIDE DEF Less
  <2> QED BY <2>1, <2>2
<1> QED BY <1>3, Zenon DEF Start!Min

\* The search goes through the directories of the program's path, none of them empty.
LEMMA UpwardsAre ==
  /\ Start!Upwards(AppDir) \in [1..Len(AppDir) -> Seq(STRING) \ {<<>>}]
  /\ Len(Start!Upwards(AppDir)) = Len(AppDir)
<1> USE RuntimeAssumption DEF Start!StartFilesAssumption
<1>1. ASSUME NEW i \in 1..Len(AppDir)
      PROVE  SubSeq(AppDir, 1, Len(AppDir) - i + 1) \in Seq(STRING) \ {<<>>}
  <2> DEFINE n == Len(AppDir) - i + 1
  <2>1. Len(AppDir) \in Nat /\ n \in 1..Len(AppDir)
    BY LenProperties
  <2>2. \A j \in 1..n : AppDir[j] \in STRING
    BY <2>1, ElementOfSeq
  <2> HIDE DEF n
  <2>3. SubSeq(AppDir, 1, n) \in Seq(STRING) /\ Len(SubSeq(AppDir, 1, n)) = n
    BY <2>1, <2>2, SubSeqProperties
  <2>4. n # 0 /\ Len(<<>>) = 0
    BY <2>1
  <2>5. SubSeq(AppDir, 1, n) \in Seq(STRING) \ {<<>>}
    BY <2>3, <2>4
  <2> QED
    BY <2>5 DEF n
<1> QED
  BY <1>1 DEF Start!Upwards

\* The search for a root finds a directory above the program that has the file,
\* if there is one.
LEMMA RootIs ==
  ASSUME NEW name
  PROVE  LET ups == Start!ToSet(Start!Upwards(AppDir))
         IN  /\ Start!Root(name) # Start!Null =>
                  Start!Root(name) \in ups /\ Start!Root(name) \o name \in files
             /\ (\E d \in ups : d \o name \in files) => Start!Root(name) # Start!Null
<1> DEFINE ups == Start!Upwards(AppDir)
           I == {i \in 1..Len(ups) : ups[i] \o name \in files}
<1>1. I \subseteq Nat /\ I \subseteq DOMAIN ups
  BY UpwardsAre
<1>2. Start!RootOf(name) = IF I # {} THEN Start!Min(I) ELSE 0
  BY DEF Start!RootOf, Start!SelectInSeq
<1>3. CASE I = {}
  <2>1. Start!Root(name) = Start!Null
    BY <1>2, <1>3 DEF Start!Root
  <2>2. ~ \E d \in Start!ToSet(ups) : d \o name \in files
    BY <1>3, UpwardsAre DEF Start!ToSet
  <2> QED
    BY <2>1, <2>2
<1>4. CASE I # {}
  <2>1. Start!RootOf(name) \in I
    BY <1>1, <1>2, <1>4, LeastOf
  <2>2. Start!Root(name) = ups[Start!RootOf(name)]
    BY <2>1 DEF Start!Root
  <2> QED
    BY <1>1, <2>1, <2>2, UpwardsAre DEF Start!ToSet, Start!Null
<1> QED
  BY <1>3, <1>4

\* Where the two loaders have found the framework, and where libc is to be.
LdsoFound ==
  IF "crtldso" \in line
  THEN hroot \in Start!ToSet(Start!Upwards(AppDir)) /\ ldso = hroot \o Start!rrldso
  ELSE hdsodir = AppDir /\ ldso = AppDir \o Start!sdldso
LibcPlace == IF "crtldso" \in line THEN hroot \o Start!rrlibc ELSE AppDir \o Start!sdlibc

StartTypes ==
  /\ line \in Start!Lines /\ files \subseteq Places
  /\ phase \in {"_start", "libc", "symbols", "psx_init", "ended"}
  /\ status = "none" <=> phase # "ended"
  /\ ldso \in files \cup {Start!Null, <<"program">>, <<"imports">>}
  /\ libc \in files \cup {Start!Null, <<"program">>, <<"imports">>}

StartInv ==
  /\ StartTypes
  /\ phase \in {"libc", "symbols"} => Start!Loaded
  /\ phase \in {"libc", "symbols", "psx_init"} /\ Start!Loaded => LdsoFound /\ ldso \in files
  /\ phase \in {"symbols", "psx_init"} /\ Start!Loaded => libc = LibcPlace
  /\ phase = "psx_init" /\ Start!Loaded =>
       ctty = Start!CttyName /\ exports = {"__psx_init", "__libc_entry_routine"}
  /\ options = IF phase = "psx_init" THEN Start!Options ELSE {}
  /\ Start!Complete => phase # "ended"

\* A start begins within the invariant, whatever was linked.
LEMMA StartInit == Start!Init => StartInv
  BY DEF Start!Init, StartInv, StartTypes

\* What no step changes.
LEMMA StartConstant ==
  ASSUME Start!Constant
  PROVE  /\ UNCHANGED <<line, files, exports>>
         /\ Start!Loaded' = Start!Loaded /\ Start!Options' = Start!Options
         /\ Start!CttyName' = Start!CttyName /\ Start!Complete' = Start!Complete
  BY DEF Start!Constant, Start!Loaded, Start!Options, Start!Linked, Start!CttyName, Start!Complete

\* The program and libc are linked to each other, or the system has resolved the
\* imports.
LEMMA LinkedStep ==
  ASSUME StartInv, Start!StartStatic \/ Start!StartImports
  PROVE  StartInv'
<1> USE StartConstant, LineFacts DEF StartInv, StartTypes, Start!StartStatic, Start!StartImports
<1>1. ~Start!Loaded
  OBVIOUS
<1>2. /\ phase' = "psx_init" /\ options' = Start!Options /\ UNCHANGED status
      /\ ldso' = libc' /\ ldso' \in {<<"program">>, <<"imports">>} /\ Start!Constant
  BY DEF Start!EntryRoutine
<1> QED
  BY <1>1, <1>2

\* The framework is found, or the program ends.
LEMMA LoadStep ==
  ASSUME StartInv, Start!LoadByRoot \/ Start!LoadBeside
  PROVE  StartInv'
<1> USE StartConstant, LineFacts DEF StartInv, StartTypes, Start!Loaded
<1>1. CASE Start!LoadByRoot
  <2>1. Start!Constant /\ "crtldso" \in line /\ UNCHANGED <<libc, options, ctty>> /\ phase = "_start"
    BY <1>1 DEF Start!LoadByRoot
  <2>2. CASE Start!Root(Start!rrldso) = Start!Null
    <3>1. phase' = "ended" /\ status' = "not_found" /\ UNCHANGED ldso
      BY <1>1, <2>2 DEF Start!LoadByRoot, Start!Terminate
    <3>2. ~Start!Complete
      BY <2>1, <2>2, RootIs DEF Start!Complete
    <3> QED
      BY <2>1, <3>1, <3>2
  <2>3. CASE Start!Root(Start!rrldso) # Start!Null
    <3>1. /\ hroot' \in Start!ToSet(Start!Upwards(AppDir)) /\ hroot' \o Start!rrldso \in files
          /\ ldso' = hroot' \o Start!rrldso /\ phase' = "libc" /\ UNCHANGED status
      BY <1>1, <2>3, RootIs DEF Start!LoadByRoot
    <3>2. LdsoFound'
      BY <2>1, <3>1 DEF LdsoFound
    <3> QED
      BY <2>1, <3>1, <3>2
  <2> QED
    BY <2>2, <2>3
<1>2. CASE Start!LoadBeside
  <2>1. /\ Start!Constant /\ "crtvrfs" \in line /\ "crtldso" \notin line
        /\ UNCHANGED <<libc, options, ctty>> /\ phase = "_start"
    BY <1>2 DEF Start!LoadBeside
  <2>2. CASE AppDir \o Start!sdldso \notin files
    <3>1. phase' = "ended" /\ status' = "not_found" /\ UNCHANGED ldso /\ ~Start!Complete
      BY <1>2, <2>1, <2>2 DEF Start!LoadBeside, Start!Terminate, Start!Complete
    <3> QED
      BY <2>1, <3>1
  <2>3. CASE AppDir \o Start!sdldso \in files
    <3>1. hdsodir' = AppDir /\ ldso' = AppDir \o Start!sdldso /\ phase' = "libc" /\ UNCHANGED status
      BY <1>2, <2>3 DEF Start!LoadBeside
    <3>2. LdsoFound'
      BY <2>1, <3>1 DEF LdsoFound
    <3> QED
      BY <2>1, <2>3, <3>1, <3>2
  <2> QED
    BY <2>2, <2>3
<1> QED
  BY <1>1, <1>2

\* libc is taken from where the framework is, or the program ends.
LEMMA LibcStep ==
  ASSUME StartInv, Start!LibcByRoot \/ Start!LibcBeside
  PROVE  StartInv'
<1> USE StartConstant, LineFacts DEF StartInv, StartTypes
<1>1. PICK at, name :
        /\ Start!LoadLibc(at, name) /\ at \o name = LibcPlace
        /\ Start!Loaded /\ LdsoFound /\ ldso \in files
  BY DEF Start!LibcByRoot, Start!LibcBeside, Start!Loaded, Start!LoadLibc, LibcPlace, LdsoFound
<1>2. Start!Constant /\ UNCHANGED <<hroot, hdsodir, ldso, options, ctty>> /\ phase = "libc"
  BY <1>1 DEF Start!LoadLibc
<1>3. LdsoFound' /\ LibcPlace' = LibcPlace
  BY <1>1, <1>2 DEF LdsoFound, LibcPlace
<1>4. CASE LibcPlace \notin files
  <2>1. phase' = "ended" /\ status' = "not_found" /\ UNCHANGED libc
    BY <1>1, <1>4 DEF Start!LoadLibc, Start!Terminate
  <2>2. ~Start!Complete
    BY <1>1, <1>4 DEF Start!Complete, LibcPlace, LdsoFound, Start!Loaded
  <2> QED
    BY <1>1, <1>2, <1>3, <2>1, <2>2
<1>5. CASE LibcPlace \in files
  <2>1. phase' = "symbols" /\ libc' = LibcPlace /\ UNCHANGED status
    BY <1>1, <1>5 DEF Start!LoadLibc
  <2> QED
    BY <1>1, <1>2, <1>3, <1>5, <2>1
<1> QED
  BY <1>4, <1>5

\* libc is entered, or the program ends.
LEMMA EntryStep ==
  ASSUME StartInv, Start!Enter
  PROVE  StartInv'
<1> USE StartConstant, LineFacts DEF StartInv, StartTypes
<1>1. Start!Constant /\ UNCHANGED <<hroot, hdsodir, ldso, libc>> /\ phase = "symbols"
  BY DEF Start!Enter
<1>2. LdsoFound' /\ LibcPlace' = LibcPlace
  BY <1>1 DEF LdsoFound, LibcPlace
<1>3. CASE exports = {"__psx_init", "__libc_entry_routine"}
  <2>1. phase' = "psx_init" /\ options' = Start!Options /\ ctty' = Start!CttyName /\ UNCHANGED status
    BY <1>3 DEF Start!Enter, Start!EntryRoutine
  <2> QED
    BY <1>1, <1>2, <1>3, <2>1
<1>4. CASE exports # {"__psx_init", "__libc_entry_routine"}
  <2>1. /\ phase' = "ended" /\ status' = "NT_STATUS_NOINTERFACE" /\ UNCHANGED <<options, ctty>>
        /\ ~Start!Complete
    BY <1>4 DEF Start!Enter, Start!Terminate, Start!Complete
  <2> QED
    BY <1>1, <2>1
<1> QED
  BY <1>3, <1>4

\* Every step of a start keeps it.
LEMMA StartNext == StartInv /\ [Start!Next]_startVars => StartInv'
<1> SUFFICES ASSUME StartInv, [Start!Next]_startVars PROVE StartInv'
  OBVIOUS
<1>1. CASE UNCHANGED startVars
  <2>1. UNCHANGED <<Start!Loaded, Start!Options, Start!CttyName, Start!Complete>>
    BY <1>1, StartConstant DEF startVars, Start!Constant
  <2>2. UNCHANGED <<LdsoFound, LibcPlace>>
    BY <1>1 DEF startVars, LdsoFound, LibcPlace
  <2> QED
    BY <1>1, <2>1, <2>2 DEF startVars, StartInv, StartTypes
<1> QED
  BY <1>1, LinkedStep, LoadStep, LibcStep, EntryStep DEF Start!Next

\* What the invariant says of the libraries, the options and the end.
LEMMA StartInvSound == StartInv => StartSound
<1> SUFFICES ASSUME StartInv PROVE StartSound
  OBVIOUS
<1> USE LineFacts DEF StartInv, StartTypes
<1>1. Start!TypeOK
  BY DEF Start!TypeOK, Start!Options
<1>2. Start!EnteredByExport /\ Start!ReachesLibc
  BY DEF Start!EnteredByExport, Start!ReachesLibc
<1>3. ASSUME phase = "psx_init", Start!Loaded
      PROVE  /\ Start!Front(ldso) = Start!Front(libc)
             /\ Start!Front(ldso) = IF "vrfs" \in options THEN AppDir ELSE hroot \o <<"lib">>
             /\ "ldso" \in options \/ "vrfs" \in options
             /\ (IF "ldso" \in options THEN hroot ELSE hdsodir) \o ctty \in Start!Servers
  <2> USE <1>3
  <2>1. /\ LdsoFound /\ ldso \in files /\ libc = LibcPlace /\ ctty = Start!CttyName
        /\ options = Start!Options
    OBVIOUS
  <2>2. AppDir \in Seq(STRING)
    BY RuntimeAssumption DEF Start!StartFilesAssumption
  <2>3. CASE "crtldso" \in line
    <3>1. hroot \in Seq(STRING)
      BY <2>1, <2>3, UpwardsAre DEF LdsoFound, Start!ToSet
    <3>2. ldso = hroot \o <<"lib", "libpsxscl.so">> /\ libc = hroot \o <<"lib", "libc.so">>
      BY <2>1, <2>3 DEF LdsoFound, LibcPlace, Start!rrldso, Start!rrlibc
    <3>3. Start!Front(ldso) = hroot \o <<"lib">> /\ Start!Front(libc) = hroot \o <<"lib">>
      BY <3>1, <3>2, FrontOfConcat
    <3>4. hroot \o Start!rrctty \in Start!Servers
      BY <2>1, <2>3 DEF LdsoFound, Start!Servers
    <3> QED
      BY <2>1, <2>3, <3>3, <3>4 DEF Start!CttyName
  <2>4. CASE "crtldso" \notin line
    <3>1. "crtvrfs" \in line
      BY <2>4 DEF Start!Loaded
    <3>2. ldso = AppDir \o <<"libpsxscl.so">> /\ libc = AppDir \o <<"libc.so">>
      BY <2>1, <2>4 DEF LdsoFound, LibcPlace, Start!sdldso, Start!sdlibc
    <3>3. Start!Front(ldso) = AppDir /\ Start!Front(libc) = AppDir
      BY <2>2, <3>2, FrontOfConcat
    <3>4. AppDir \o Start!sdctty \in Start!Servers
      BY <2>1, <2>4 DEF LdsoFound, Start!Servers
    <3> QED
      BY <2>1, <2>4, <3>1, <3>3, <3>4 DEF Start!CttyName, LdsoFound
  <2> QED
    BY <2>3, <2>4
<1>4. Start!OneTree /\ Start!CttyInTree /\ Start!OptionsTell
  BY <1>3 DEF Start!OneTree, Start!CttyInTree, Start!OptionsTell
<1> QED
  BY <1>1, <1>2, <1>4 DEF StartSound, Start!StartSound

\* Wherever the program lies and whatever files are there, libc is entered with
\* the libraries, the options and the server of one tree, or not at all
\* (crt1.c, Scrt1.c, crtldso.c, crtvrfs.c, crt_glue.c:95-117).
THEOREM StartCorrect == RuntimeSpec => []StartSound
<1>1. RuntimeInit => StartInv
  BY StartInit DEF RuntimeInit
<1>2. [RuntimeNext]_runtimeVars => [Start!Next]_startVars
  BY DEF RuntimeNext, runtimeVars
<1> QED
  BY <1>1, <1>2, StartNext, StartInvSound, PTL DEF RuntimeSpec

=============================================================================

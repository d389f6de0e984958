-------------------------- MODULE SyscallCpProofs --------------------------
(***************************************************************************)
(* Proofs about SyscallCp, for any number of calls and any interleaving    *)
(* with a cancellation request.                                            *)
(***************************************************************************)
EXTENDS SyscallCp, TLAPS

\* The registers and slots at the entry.
LEMMA EntryShape ==
  /\ CpEntry \in [Reg -> Value]
  /\ CpEntry["rdx"] = "nr" /\ CpEntry["r8"] = "u" /\ CpEntry["r9"] = "v"
  /\ CpEntry["s28"] = "w" /\ CpEntry["s30"] = "x" /\ CpEntry["s38"] = "y"
  /\ CpEntry["s40"] = "z"
<1>1. DOMAIN CpEntry = Reg
  BY DEF CpEntry, Reg
<1>2. CpEntry = [r \in Reg |-> CpEntry[r]]
  BY <1>1 DEF CpEntry
<1>3. ASSUME NEW r \in Reg PROVE CpEntry[r] \in Value
  BY DEF CpEntry, Reg, Value
<1> QED
  BY <1>2, <1>3 DEF CpEntry

LEMMA InvInit == CpInit => CpInv
<1> SUFFICES ASSUME CpInit PROVE CpInv
  OBVIOUS
<1>1. CpTypeOK
  <2>1. loc \in [Reg -> Value]
    BY EntryShape DEF CpInit
  <2>2. place \in Place /\ disable \in {"enable", "masked", "disable"}
        /\ request \in {"none", "flagged", "sent"}
    BY DEF CpInit, Place
  <2>3. ip \in 0 .. JumpAt /\ calls \in 0 .. MaxCalls
    BY MaxCallsAssumption DEF CpInit, FirstMove, JumpAt
  <2> QED
    BY <2>1, <2>2, <2>3 DEF CpTypeOK, CpInit
<1>2. WindowShape /\ ArgsInOrder /\ CancelledWithoutEffect /\ RequestKeepsFromCall
  BY DEF CpInit, WindowShape, ArgsInOrder, CancelledWithoutEffect, RequestKeepsFromCall
<1>3. FlagSeen /\ BlockedBefore /\ DeafOnlyFromGap
  BY DEF CpInit, FlagSeen, BlockedBefore, DeafOnlyFromGap
<1> QED
  BY <1>1, <1>2, <1>3 DEF CpInv

\* A move fills its destination and leaves the other slots alone.
LEMMA MoveShuffles ==
  ASSUME loc \in [Reg -> Value], ip \in 0 .. JumpAt, Shuffled(ip), Move
  PROVE  Shuffled(ip)' /\ loc' \in [Reg -> Value]
<1> USE DEF Move, Moves, Shuffled, FirstMove, JumpAt, Reg
<1>1. CASE ip = 2
  BY <1>1
<1>2. CASE ip = 3
  BY <1>2
<1>3. CASE ip = 4
  BY <1>3
<1>4. CASE ip = 5
  BY <1>4
<1>5. CASE ip = 6
  BY <1>5
<1>6. CASE ip = 7
  BY <1>6
<1>7. CASE ip = 8
  BY <1>7
<1>8. CASE ip = 9
  BY <1>8
<1>9. CASE ip = 10
  BY <1>9
<1>10. CASE ip = 11
  BY <1>10
<1>11. ip \in 2 .. 11
  OBVIOUS
<1>12. ip \in {2, 3, 4, 5, 6, 7, 8, 9, 10, 11}
  BY <1>11
<1> QED
  BY <1>1, <1>2, <1>3, <1>4, <1>5, <1>6, <1>7, <1>8, <1>9, <1>10, <1>12

\* The instructions of the sequence, and the dispatch.
LEMMA CpStep == CpInv /\ Cp => CpInv'
<1> SUFFICES ASSUME CpInv, Cp
             PROVE  CpInv'
  OBVIOUS
<1> USE MaxCallsAssumption
    DEF CpInv, CpTypeOK, WindowShape, FlagSeen, BlockedBefore, ArgsInOrder,
        CancelledWithoutEffect, RequestKeepsFromCall, DeafOnlyFromGap, Place,
        cancel, cancelVars, history, FirstMove, JumpAt, InWindow
<1>1. ASSUME LoadFlag PROVE CpInv'
  BY <1>1 DEF LoadFlag, Reg, Value, Shuffled
<1>2. ASSUME Branch PROVE CpInv'
  BY <1>2 DEF Branch, Shuffled
<1>3. ASSUME Move PROVE CpInv'
  <2>1. Shuffled(ip)' /\ loc' \in [Reg -> Value]
    BY <1>3, MoveShuffles DEF Move
  <2> QED
    BY <1>3, <2>1 DEF Move
<1>4. ASSUME Jump PROVE CpInv'
  BY <1>4 DEF Jump, Shuffled
<1>5. ASSUME Dispatch PROVE CpInv'
  BY <1>5 DEF Dispatch
<1> QED
  BY <1>1, <1>2, <1>3, <1>4, <1>5 DEF Cp

\* What musl, the framework and the other thread do.
LEMMA OtherStep == CpInv /\ [CpNext]_cpVars /\ ~Cp => CpInv'
<1> SUFFICES ASSUME CpInv, [CpNext]_cpVars, ~Cp
             PROVE  CpInv'
  OBVIOUS
<1> USE MaxCallsAssumption
    DEF CpInv, CpTypeOK, WindowShape, FlagSeen, BlockedBefore, ArgsInOrder,
        CancelledWithoutEffect, RequestKeepsFromCall, DeafOnlyFromGap, Place,
        cancel, cancelVars, history, FirstMove, JumpAt, InWindow, Shuffled
<1>1. ASSUME NEW there \in BOOLEAN, Call(there) PROVE CpInv'
  <2>1. Shuffled(ip)' /\ loc' \in [Reg -> Value]
    BY <1>1, EntryShape DEF Call
  <2>2. entered' = cancel /\ entered' \in BOOLEAN
    BY <1>1 DEF Call
  <2>3. ip' \in 0 .. JumpAt /\ calls' \in 0 .. MaxCalls
    BY <1>1 DEF Call
  <2>4. CpTypeOK'
    BY <1>1, <2>1, <2>2, <2>3 DEF Call
  <2>5. WindowShape' /\ ArgsInOrder' /\ CancelledWithoutEffect'
    BY <1>1, <2>1 DEF Call
  <2>6. FlagSeen' /\ RequestKeepsFromCall'
    BY <1>1, <2>2 DEF Call
  <2>7. BlockedBefore' /\ DeafOnlyFromGap'
    BY <1>1, <2>2 DEF Call
  <2> QED
    BY <2>4, <2>5, <2>6, <2>7
<1>2. ASSUME NEW new \in {"enable", "masked", "disable"}, SetCancelState(new)
      PROVE  CpInv'
  BY <1>2 DEF SetCancelState
<1>3. CASE KernelActs
  BY <1>3 DEF KernelActs
<1>4. CASE KernelReturns
  BY <1>4 DEF KernelReturns
<1>5. CASE KernelInterrupted
  BY <1>5 DEF KernelInterrupted
<1>6. CASE CpCancel
  BY <1>6 DEF CpCancel
<1>8. CASE SetFlag
  BY <1>8 DEF SetFlag
<1>9. CASE SendSignal
  BY <1>9 DEF SendSignal
<1>10. CASE Handler
  <2>1. CASE disable = "disable"
    BY <1>10, <2>1 DEF Handler
  <2>2. CASE disable # "disable" /\ place = "window"
    <3>1. /\ place' = "cancel" /\ ip' = 0 /\ signal' = FALSE /\ masked' = TRUE
          /\ gap' = gap
          /\ UNCHANGED <<loc, entries, disable, request, effect, entered, calls>>
      BY <1>10, <2>2 DEF Handler
    <3>2. CpTypeOK'
      <4>1. ip' \in 0 .. JumpAt
        BY <3>1
      <4> QED
        BY <3>1, <4>1
    <3>3. cancel /\ ~effect
      BY <1>10, <2>2 DEF Handler
    <3> QED
      BY <3>1, <3>2, <3>3
  <2>3. CASE disable # "disable" /\ place = "disp"
    <3>1. gap' = TRUE /\ masked' = TRUE
      BY <1>10, <2>3 DEF Handler
    <3> QED
      BY <1>10, <2>3, <3>1 DEF Handler
  <2>4. CASE disable # "disable" /\ place \in {"user", "cancel"}
    <3>1. gap' = gap /\ masked' = TRUE
      BY <1>10, <2>4 DEF Handler
    <3> QED
      BY <1>10, <2>4, <3>1 DEF Handler
  <2> QED
    BY <1>10, <2>1, <2>2, <2>3, <2>4 DEF Handler
<1>7. CASE Over \/ UNCHANGED cpVars
  BY <1>7 DEF Over, cpVars
<1> QED
  BY <1>1, <1>2, <1>3, <1>4, <1>5, <1>6, <1>7, <1>8, <1>9, <1>10 DEF CpNext

\* CpInv holds of every state.
THEOREM Invariance == CpSpec => []CpInv
<1>1. CpInv /\ [CpNext]_cpVars => CpInv'
  BY CpStep, OtherStep
<1> QED
  BY <1>1, InvInit, PTL DEF CpSpec

\* The state keeps its shape.
THEOREM TypeCorrect == CpSpec => []CpTypeOK
<1>1. CpInv => CpTypeOK
  BY DEF CpInv
<1> QED
  BY <1>1, Invariance, PTL

\* The ten moves deliver the number and the six arguments in their places.
THEOREM Arguments == CpSpec => []ArgsInOrder
<1>1. CpInv => ArgsInOrder
  BY DEF CpInv
<1> QED
  BY <1>1, Invariance, PTL

\* Nobody is cancelled out of a call that has acted.
THEOREM CancelBeforeEffect == CpSpec => []CancelledWithoutEffect
<1>1. CpInv => CancelledWithoutEffect
  BY DEF CpInv
<1> QED
  BY <1>1, Invariance, PTL

\* A request that precedes a call keeps it from being made.
THEOREM RequestHonoured == CpSpec => []RequestKeepsFromCall
<1>1. CpInv => RequestKeepsFromCall
  BY DEF CpInv
<1> QED
  BY <1>1, Invariance, PTL

\* Only the gap behind the window can leave a thread in the kernel with its
\* request blocked.
THEOREM GapOnly == CpSpec => []DeafOnlyFromGap
<1>1. CpInv => DeafOnlyFromGap
  BY DEF CpInv
<1> QED
  BY <1>1, Invariance, PTL

=============================================================================

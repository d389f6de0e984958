------------------------------ MODULE CloneStack ------------------------------
(***************************************************************************)
(* __clone, src/thread/nt64/clone.c and src/thread/nt32/clone.c: the stack *)
(* bounds and the register record that a child is given, for the three     *)
(* callers in musl: pthread_create, which fills a struct pthread first,    *)
(* posix_spawn, which passes four of the seven arguments, and clone(),     *)
(* which passes on what the program gave it.                               *)
(***************************************************************************)
EXTENDS Integers

CONSTANTS
  Threads,      \* threads that pthread_create may make
  Word,         \* number of values of a uintptr_t: 2^64 or 2^32
  Tops,         \* values of pthread->stack
  Sizes,        \* values of pthread->stack_size
  Guards,       \* values of pthread->guard_size
  Frames        \* bytes that musl keeps between a stack's top and child_stack

ASSUME CloneAssumption ==
  /\ Word \in Nat \ {0} /\ Word % 16 = 0
  /\ Tops \subseteq Nat /\ Sizes \subseteq Nat /\ Guards \subseteq Nat
  /\ Frames \subseteq Nat
  /\ Threads \cap {"none", "null", "garbage"} = {}
  /\ \A s \in Tops : s + 16 <= Word

VARIABLES
  arch,     \* the architecture of the build
  state,    \* stage of a thread
  pthread,  \* stack, stack_size and guard_size in its struct pthread
  entry,    \* what the framework got for a thread
  child,    \* what it got for the process that a thread spawned
  crashed   \* whose call of __clone read through a pointer that is none

vars == <<arch, state, pthread, entry, child, crashed>>

Arches  == {"nt64", "nt32"}
Garbage == "garbage"   \* a register or stack slot the caller did not set
None    == "none"
Null    == "null"      \* a pointer argument of 0
NoEntry == [sp |-> 0, self |-> None, ids |-> None, base |-> 0, limit |-> 0, bottom |-> 0]
Blank   == [stack |-> 0, size |-> 0, guard |-> 0]

-----------------------------------------------------------------------------
\* Unsigned arithmetic.

Minus(a, b) == (a - b) % Word

\* x &= ~0xf
AlignDown(a) == a - (a % 16)

AlignUpNot(a) == AlignDown(a)                            \* mutant

\* x += 0xf; x |= 0xf; x ^= 0xf
AlignUp(a) == AlignDown((a + 15) % Word)

\* sbase, slimit and sbottom of a thread.
Bounds(p) ==
  LET limit == Minus(p.stack, p.size)
  IN  [base |-> AlignDown(p.stack), limit |-> AlignUp(limit), bottom |-> Minus(limit, p.guard)]

NoBounds == [base |-> 0, limit |-> 0, bottom |-> 0]

\* The members of struct pt_regs that __clone sets; the others keep what the
\* stack held.
Regs64(self, b) == [rdx |-> self, sbase |-> b.base, slimit |-> b.limit, sbottom |-> b.bottom]
Regs32(self, b) == [edx |-> self, sbase |-> b.base, slimit |-> b.limit, sbottom |-> b.bottom]

\* The framework reads a record of its own architecture.
Entered(regs, sp, ids) ==
  [sp |-> sp, self |-> IF arch = "nt64" THEN regs.rdx ELSE regs.edx, ids |-> ids,
   base |-> regs.sbase, limit |-> regs.slimit, bottom |-> regs.sbottom]

VforkFlags == {"CLONE_VM", "CLONE_VFORK", "SIGCHLD"}
IsVfork(flags) == flags = VforkFlags

\* The child's stack pointer, on either path.
ChildStack(sp) == AlignDown(sp)

\* ptid and ctid on the vfork path.
NoIds(ids) == Null

\* __clone on either architecture, with the struct pthread p if self is one.
Clone64(flags, sp, self, ids, p) ==
  IF IsVfork(flags) THEN Entered(Regs64(self, NoBounds), ChildStack(sp), NoIds(ids))
  ELSE Entered(Regs64(self, Bounds(p)), ChildStack(sp), ids)

Clone32(flags, sp, self, ids, p) ==
  IF IsVfork(flags) THEN Entered(Regs32(self, NoBounds), ChildStack(sp), NoIds(ids))
  ELSE Entered(Regs32(self, Bounds(p)), ChildStack(sp), ids)

Clone(flags, sp, self, ids, p) ==
  IF arch = "nt64" THEN Clone64(flags, sp, self, ids, p) ELSE Clone32(flags, sp, self, ids, p)

-----------------------------------------------------------------------------
Init ==
  /\ arch \in Arches
  /\ state = [t \in Threads |-> "free"]
  /\ pthread = [t \in Threads |-> Blank]
  /\ entry = [t \in Threads |-> NoEntry]
  /\ child = [t \in Threads |-> NoEntry]
  /\ crashed = None

\* What belongs to a thread, its guard area and its stack: from Low to stack.
Low(p) == p.stack - p.size - p.guard
Apart(p, q) == p.stack <= Low(q) \/ q.stack <= Low(p)

\* pthread_create: the stack is mapped, or taken from the program's attributes,
\* and described in the struct pthread.
Map(t) ==
  /\ state[t] = "free"
  /\ \E s \in Tops, z \in Sizes, g \in Guards :
       LET p == [stack |-> s, size |-> z, guard |-> g]
       IN  /\ 0 <= Low(p)
           /\ \A u \in Threads : state[u] # "free" => Apart(p, pthread[u])
           /\ pthread' = [pthread EXCEPT ![t] = p]
  /\ state' = [state EXCEPT ![t] = "mapped"]
  /\ UNCHANGED <<arch, entry, child, crashed>>

ThreadFlags == {"CLONE_VM", "CLONE_THREAD", "CLONE_SETTLS"}

\* pthread_create: the call of __clone, and its failure.
Create(t) ==
  /\ state[t] = "mapped"
  /\ \/ /\ state' = [state EXCEPT ![t] = "running"]
        /\ \E f \in Frames :
             /\ f < pthread[t].size
             /\ entry' = [entry EXCEPT ![t] =
                            Clone(ThreadFlags, pthread[t].stack - f, t, t, pthread[t])]
        /\ UNCHANGED pthread
     \/ /\ state' = [state EXCEPT ![t] = "free"]
        /\ pthread' = [pthread EXCEPT ![t] = Blank]
        /\ UNCHANGED entry
  /\ UNCHANGED <<arch, child, crashed>>

\* A call with no struct pthread behind it: on the vfork path nothing is read
\* through self, on the other the process ends.
CloneProcess(t, flags, caller) ==
  /\ state[t] = "running"
  /\ IF IsVfork(flags)
     THEN /\ \E f \in Frames :
               /\ entry[t].limit <= entry[t].sp - f
               /\ child' = [child EXCEPT ![t] = Clone(flags, entry[t].sp - f, Garbage, Garbage, Blank)]
          /\ state' = [state EXCEPT ![t] = "waiting"]
          /\ UNCHANGED crashed
     ELSE /\ crashed' = caller
          /\ UNCHANGED <<child, state>>
  /\ UNCHANGED <<arch, pthread, entry>>

\* posix_spawn: a child stack inside the caller's frame, four arguments.
Spawn(t) == CloneProcess(t, VforkFlags, "posix_spawn")

\* clone() called by the program without a thread to set up.
PlainClone(t) ==
  \E flags \in {VforkFlags, {"SIGCHLD"}, {"CLONE_VM", "SIGCHLD"}} : CloneProcess(t, flags, "clone")

\* The child executes its program or exits, and its parent goes on.
ChildLeaves(t) ==
  /\ state[t] = "waiting"
  /\ state' = [state EXCEPT ![t] = "running"]
  /\ child' = [child EXCEPT ![t] = NoEntry]
  /\ UNCHANGED <<arch, pthread, entry, crashed>>

Exit(t) ==
  /\ state[t] = "running"
  /\ state' = [state EXCEPT ![t] = "free"]
  /\ pthread' = [pthread EXCEPT ![t] = Blank]
  /\ entry' = [entry EXCEPT ![t] = NoEntry]
  /\ UNCHANGED <<arch, child, crashed>>

Step(t) == Map(t) \/ Create(t) \/ Spawn(t) \/ PlainClone(t) \/ ChildLeaves(t) \/ Exit(t)

Next == crashed = None /\ \E t \in Threads : Step(t)

Spec == Init /\ [][Next]_vars

-----------------------------------------------------------------------------
Uintptr == 0 .. Word - 1
Pointer == Threads \cup {None, Null, Garbage}
Entry   == [sp: Uintptr, self: Pointer, ids: Pointer, base: Uintptr, limit: Uintptr, bottom: Uintptr]

\* The state keeps its shape: registers hold words, and a thread that is not
\* there has no struct pthread (clone.c:62-69).
TypeOK ==
  /\ arch \in Arches
  /\ state \in [Threads -> {"free", "mapped", "running", "waiting"}]
  /\ pthread \in [Threads -> [stack: Nat, size: Nat, guard: Nat]]
  /\ entry \in [Threads -> Entry]
  /\ child \in [Threads -> Entry]
  /\ crashed \in {None, "clone", "posix_spawn"}

Alive(t) == state[t] \in {"running", "waiting"}

\* What the framework takes for a thread's stack lies inside what musl set
\* aside for it, the guard area stays below the limit, and rounding costs less
\* than 16 bytes at either end (clone.c:93-100, 89-96 on nt32).
BoundsInside ==
  \A t \in Threads : Alive(t) =>
    LET p == pthread[t]
        e == entry[t]
    IN  /\ e.bottom = p.stack - p.size - p.guard
        /\ p.stack - p.size <= e.limit /\ e.limit < p.stack - p.size + 16
        /\ p.stack - 16 < e.base /\ e.base <= p.stack

\* No address between bottom and base is shared by two threads, although each
\* is computed from an address that need not be aligned (clone.c:93-95).
StacksApart ==
  \A t, u \in Threads : t # u /\ Alive(t) /\ Alive(u) =>
    entry[t].base <= entry[u].bottom \/ entry[u].base <= entry[t].bottom

\* A thread starts with its stack pointer aligned and not above its base, and so
\* does the child of a spawn; and above its limit, if its stack has 31 bytes more
\* than musl keeps at the top: for a smaller one the limit, rounded up, can
\* pass the pointer, rounded down (clone.c:77-79, 97-100).
StartsInBounds ==
  \A t \in Threads :
    /\ Alive(t) =>
         /\ entry[t].sp % 16 = 0 /\ entry[t].sp <= entry[t].base
         /\ (\A f \in Frames : pthread[t].size >= f + 31) => entry[t].limit < entry[t].sp
    /\ state[t] = "waiting" => child[t].sp % 16 = 0

\* The arguments that posix_spawn does not pass reach nobody but the register
\* that the child's function ignores: no bounds, no thread id address, nothing
\* read through them; and the child starts on its caller's stack
\* (clone.c:81-90).
MissingArgumentsUnused ==
  /\ crashed # "posix_spawn"
  /\ \A t \in Threads : state[t] = "waiting" =>
       /\ child[t].ids = Null
       /\ <<child[t].base, child[t].limit, child[t].bottom>> = <<0, 0, 0>>
       /\ entry[t].limit <= child[t].sp /\ child[t].sp <= entry[t].sp

-----------------------------------------------------------------------------
\* The inductive invariant: the areas that musl sets aside do not overlap, and
\* limits are aligned.
AreasApart ==
  /\ \A t \in Threads : state[t] # "free" => pthread[t].stack \in Tops /\ 0 <= Low(pthread[t])
  /\ \A t, u \in Threads : t # u /\ state[t] # "free" /\ state[u] # "free" => Apart(pthread[t], pthread[u])

LimitsAligned == \A t \in Threads : Alive(t) => entry[t].limit % 16 = 0

IInv ==
  /\ TypeOK /\ AreasApart /\ LimitsAligned
  /\ BoundsInside /\ StacksApart /\ StartsInBounds /\ MissingArgumentsUnused
=============================================================================

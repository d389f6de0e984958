-------------------------------- MODULE EmuTls --------------------------------
(***************************************************************************)
(* The thread-local memory of a thread: where src/env/nt32/__copy_tls.c    *)
(* puts its struct pthread inside the area that pthread_create reserves,   *)
(* and how __emutls_get_address of src/arch/nt32/crt_tls.c finds a         *)
(* variable of a library.  The nt64 files are the same.                    *)
(*                                                                         *)
(* External: pthread_create, and the loader, which numbers the libraries   *)
(* that have thread-local variables and allocates their blocks.            *)
(***************************************************************************)
EXTENDS Integers, FiniteSets

CONSTANTS
  Users,      \* the threads
  Starts,     \* addresses at which an area may begin
  TdSize,     \* size of struct pthread
  Indices,    \* the indices that the loader gives
  Alignment   \* the alignment of the variables, in the low half of the word

ASSUME EmuTlsAssumption ==
  /\ Starts \subseteq Nat
  /\ TdSize \in Nat
  /\ Indices \subseteq Nat /\ \A i \in Indices : i < 32768
  /\ Alignment \in Nat /\ Alignment < 65536

VARIABLES
  running,    \* the threads that run
  start,      \* where the area of each begins
  td,         \* and its struct pthread
  loaded,     \* the indices of the libraries that are loaded
  dtls        \* for each thread, its vector of blocks

tlsVars == <<running, start, td, loaded, dtls>>

\* What __init_tls reserves for each thread: 16 bytes and a struct pthread.
tls_size == 16 + TdSize

CopyTlsDown(mem) == mem - (mem % 16)                     \* mutant
\* __copy_tls: addr += 0xf; addr |= 0xf; addr ^= 0xf
CopyTls(mem) ==
  LET addr == mem + 15
      ones == (addr - (addr % 16)) + 15
  IN  ones - 15

SubscriptShifted(align) == (align \div 65536) \div 2       \* mutant
\* int dsoidx = obj->align & 0xFFFF0000; ... dsoidx >> 16, with the sign.
Subscript(align) ==
  LET dsoidx == align \div 65536
  IN  IF dsoidx >= 32768 THEN dsoidx - 65536 ELSE dsoidx

\* The align word of the variable of a library.
AlignWord(i) == i * 65536 + Alignment

\* __emutls_get_address: the block that a thread finds, if there is one.
GetAddress(t, i) ==
  LET n == Subscript(AlignWord(i))
  IN  IF n \in DOMAIN dtls[t] THEN dtls[t][n] ELSE <<"wild", n>>

-----------------------------------------------------------------------------
\* The vector of a thread for a set of libraries.
Vector(t, is) == [i \in is |-> <<t, i>>]

TlsInit ==
  /\ running = {} /\ loaded = {}
  /\ start = [t \in Users |-> 0]
  /\ td = [t \in Users |-> 0]
  /\ dtls = [t \in Users |-> Vector(t, {})]

\* pthread_create: the area behind the stack, and the blocks of the libraries.
TlsCreate(t, mem) ==
  /\ t \notin running
  /\ running' = running \cup {t}
  /\ start' = [start EXCEPT ![t] = mem]
  /\ td' = [td EXCEPT ![t] = CopyTls(mem)]
  /\ dtls' = [dtls EXCEPT ![t] = Vector(t, loaded)]
  /\ UNCHANGED loaded

TlsExit(t) ==
  /\ t \in running
  /\ running' = running \ {t}
  /\ start' = [start EXCEPT ![t] = 0]
  /\ td' = [td EXCEPT ![t] = 0]
  /\ dtls' = [dtls EXCEPT ![t] = Vector(t, {})]
  /\ UNCHANGED loaded

\* The loader numbers a library and gives every thread its block.
Load(i) ==
  /\ i \notin loaded
  /\ loaded' = loaded \cup {i}
  /\ dtls' = [t \in Users |-> Vector(t, IF t \in running THEN loaded' ELSE {})]
  /\ UNCHANGED <<running, start, td>>

TlsNext ==
  \/ \E t \in Users :
       \/ \E mem \in Starts : TlsCreate(t, mem)
       \/ TlsExit(t)
  \/ \E i \in Indices : Load(i)

TlsSpec == TlsInit /\ [][TlsNext]_tlsVars

-----------------------------------------------------------------------------
\* A running thread has an area, a struct pthread and a block of every loaded
\* library (__copy_tls.c:27-35).
TlsTypeOK ==
  /\ running \subseteq Users
  /\ start \in [Users -> Nat]
  /\ td \in [Users -> Nat]
  /\ loaded \subseteq Indices
  /\ dtls = [t \in Users |-> Vector(t, IF t \in running THEN loaded ELSE {})]

\* The struct pthread lies inside the area that was reserved for it and is
\* aligned, wherever the area begins: the stack ends below the area and the
\* keys begin above it (crt_glue.c:41-44 and 61, __copy_tls.c:27-30).
TdInside ==
  \A t \in running :
    /\ start[t] <= td[t] /\ td[t] + TdSize <= start[t] + tls_size
    /\ td[t] % 16 = 0

\* A thread finds its own block of the library whose variable it asks for, also
\* of a library that was loaded after the thread was made, up to the last index
\* that a signed half word holds (crt_tls.c:26-28).
VariableIsOwn ==
  \A t \in running, i \in loaded : GetAddress(t, i) = <<t, i>>
=============================================================================

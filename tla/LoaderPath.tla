---------------------------- MODULE LoaderPath -----------------------------
(***************************************************************************)
(* How dlopen in src/ldso/nt64/dynlink.c turns LD_LIBRARY_PATH into the    *)
(* vector of directories it hands to the loader.  The parse works in place *)
(* in lpathbuf, so the model keeps the buffer, with 0-based indices for    *)
(* the pointers next and ch; a directory name is told apart only by where  *)
(* it stands, so one ordinary character is enough.                         *)
(***************************************************************************)
EXTENDS Integers, FiniteSetsExt, SequencesExt

CONSTANTS
  BufSize,   (* bytes of lpathbuf, 2048 in the code                        *)
  VecSlots,  (* slots of lpathvbuf, 64 in the code                         *)
  MaxLen     (* bound: length of LD_LIBRARY_PATH                           *)

ASSUME SizesAssumption == /\ BufSize \in Nat \ {0}
                          /\ VecSlots \in Nat \ {0, 1}
                          /\ MaxLen \in Nat

Colon == ":"
Letter == "a"
Nul == "0"
Dot == -1      (* the constant string "." in a slot of the vector          *)
NoNext == -1   (* next == 0                                                *)
Unset == <<"unset">>

Paths == UNION {[1 .. n -> {Colon, Letter}] : n \in 0 .. MaxLen}

VARIABLES
  path,      (* what getenv returned                                       *)
  mem,       (* lpathbuf                                                   *)
  capacity,  (* slots of lpathv                                            *)
  heap,      (* lpathv was allocated                                       *)
  vec,       (* slots written so far: indices into lpathbuf, or Dot        *)
  next,
  pc         (* "undefined" once the code has read outside lpathbuf        *)

vars == <<path, mem, capacity, heap, vec, next, pc>>

Buffer == 0 .. BufSize - 1

Init ==
  /\ path \in Paths \cup {Unset}
  /\ mem \in {[i \in Buffer |-> c] : c \in {Letter, Colon, Nul}}
  /\ capacity = VecSlots
  /\ heap = FALSE
  /\ vec = <<>>
  /\ next = NoNext
  /\ pc = "copy"

-----------------------------------------------------------------------------
(* Steps with a slip in them, for mutation runs.                           *)

\* the copy is closed with a null behind the buffer
CopyAndClose ==
  /\ pc = "copy"
  /\ mem' = IF path = Unset
            THEN [mem EXCEPT ![0] = Nul]
            ELSE [i \in 0 .. BufSize |->
                   IF i < Min({Len(path), BufSize}) THEN path[i + 1] ELSE Nul]
  /\ pc' = IF path = Unset THEN "first" ELSE "count"
  /\ UNCHANGED <<path, capacity, heap, vec, next>>

\* the characters are copied without their null
CopyOpen ==
  /\ pc = "copy"
  /\ mem' = IF path = Unset
            THEN [mem EXCEPT ![0] = Nul]
            ELSE [i \in Buffer |-> IF i < Len(path) THEN path[i + 1] ELSE mem[i]]
  /\ pc' = IF path = Unset THEN "first" ELSE "count"
  /\ UNCHANGED <<path, capacity, heap, vec, next>>

\* a name ends at the end of the variable only
StopsAtNul(k) == {j \in Buffer : j >= k /\ mem[j] = Nul}

\* an empty variable is taken for a name
FirstAlways ==
  /\ pc = "first"
  /\ next' = 0
  /\ pc' = "component"
  /\ UNCHANGED <<path, mem, capacity, heap, vec>>

\* a failed allocation is tried again
ReleaseOrRetry ==
  /\ pc \in {"done", "failed"}
  /\ heap' = FALSE
  /\ pc' = IF pc = "done" THEN "released" ELSE "count"
  /\ UNCHANGED <<path, mem, capacity, vec, next>>

-----------------------------------------------------------------------------
(* The parse.                                                              *)

\* strncpy pads with nulls, and leaves a copy that fills the buffer open; its
\* result is always lpathbuf, so the strdup branch is never taken.  Without the
\* variable only lpath[0] is written.
Copy ==
  /\ pc = "copy"
  /\ mem' = IF path = Unset
            THEN [mem EXCEPT ![0] = Nul]
            ELSE [i \in Buffer |-> IF i < Len(path) THEN path[i + 1] ELSE Nul]
  /\ pc' = IF path = Unset THEN "first" ELSE "count"
  /\ UNCHANGED <<path, capacity, heap, vec, next>>

\* i, after the loop over the colons of a terminated buffer
Count == 1 + Cardinality({k \in Buffer : /\ mem[k] = Colon
                                         /\ \A j \in 0 .. k : mem[j] # Nul})

\* Size with a slip: a vector that the names fill leaves no slot for the null.
SizeOfNames ==
  /\ pc = "count"
  /\ \E k \in Buffer : mem[k] = Nul
  /\ capacity' = IF Count <= VecSlots THEN VecSlots ELSE Count
  /\ heap' = (Count > VecSlots)
  /\ pc' = "first"
  /\ UNCHANGED <<path, mem, vec, next>>

\* lpathvbuf has room for the names and the final null, or the heap gives it.
Size ==
  /\ pc = "count"
  /\ IF \A k \in Buffer : mem[k] # Nul
     THEN /\ pc' = "undefined"
          /\ UNCHANGED <<capacity, heap>>
     ELSE IF Count + 1 < VecSlots
     THEN /\ pc' = "first"
          /\ UNCHANGED <<capacity, heap>>
     ELSE \/ /\ capacity' = Count + 2
             /\ heap' = TRUE
             /\ pc' = "first"
          \/ /\ pc' = "failed"       (* calloc: lpathv = 0, base = 0       *)
             /\ UNCHANGED <<capacity, heap>>
  /\ UNCHANGED <<path, mem, vec, next>>

First ==
  /\ pc = "first"
  /\ next' = IF mem[0] # Nul THEN 0 ELSE NoNext
  /\ pc' = "component"
  /\ UNCHANGED <<path, mem, capacity, heap, vec>>

\* Where the inner loop stops: the first separator or null at or after k.
Stops(k) == {j \in Buffer : j >= k /\ mem[j] \in {Colon, Nul}}

\* *(++ch) for a ch that points at a null
Following(stop) == IF mem[stop + 1] # Nul THEN stop + 1 ELSE NoNext

\* One round of the outer loop: store the name at next, find its end, make the
\* end a null, and go to what follows it.
Component ==
  /\ pc = "component"
  /\ next # NoNext
  /\ vec' = Append(vec, IF mem[next] = Colon THEN Dot ELSE next)
  /\ IF Stops(next + 1) = {}
     THEN pc' = "undefined" /\ UNCHANGED <<mem, next>>
     ELSE LET stop == Min(Stops(next + 1)) IN
          /\ mem' = [mem EXCEPT ![stop] = Nul]
          /\ IF stop + 1 \in Buffer
             THEN next' = Following(stop) /\ UNCHANGED pc
             ELSE pc' = "undefined" /\ UNCHANGED next
  /\ UNCHANGED <<path, capacity, heap>>

\* *epathv = 0, and the call of the loader
Finish ==
  /\ pc = "component"
  /\ next = NoNext
  /\ pc' = "done"
  /\ UNCHANGED <<path, mem, capacity, heap, vec, next>>

\* The epilog: free what is not on the stack.
Release ==
  /\ pc \in {"done", "failed"}
  /\ heap' = FALSE
  /\ pc' = "released"
  /\ UNCHANGED <<path, mem, capacity, vec, next>>

Ended == pc \in {"released", "undefined"} /\ UNCHANGED vars

Next == Copy \/ Size \/ First \/ Component \/ Finish \/ Release \/ Ended

Spec == Init /\ [][Next]_vars /\ WF_vars(Next)

-----------------------------------------------------------------------------
(* What the vector should be.                                              *)

\* The non-empty names of the variable, as intervals of positions in it.
Names ==
  {name \in (1 .. Len(path)) \X (1 .. Len(path)) :
     LET first == name[1]
         last == name[2]
     IN  /\ first <= last
         /\ \A k \in first .. last : path[k] # Colon
         /\ first = 1 \/ path[first - 1] = Colon
         /\ last = Len(path) \/ path[last + 1] = Colon}

HasEmptyName ==
  \/ Head(path) = Colon \/ Last(path) = Colon
  \/ \E k \in 1 .. Len(path) - 1 : path[k] = Colon /\ path[k + 1] = Colon

\* The name the loader reads in a slot, as such an interval; "." is nowhere in
\* the variable.
Denotes(slot) ==
  IF slot = Dot THEN <<0, 0>>
  ELSE <<slot + 1, Min({k \in Buffer : k >= slot /\ mem[k] = Nul})>>

Earlier(x, y) == x[1] < y[1]

-----------------------------------------------------------------------------
(* Properties.                                                             *)

\* Shape of the parser's state.
TypeOK ==
  /\ path \in Paths \cup {Unset}
  /\ mem \in [Buffer -> {Colon, Letter, Nul}]
  /\ capacity \in Nat /\ heap \in BOOLEAN
  /\ vec \in Seq(Buffer \cup {Dot})
  /\ next \in Buffer \cup {NoNext}
  /\ pc \in {"copy", "count", "first", "component", "done", "failed", "released",
             "undefined"}

\* The step over a terminator reads the byte behind it, so a variable has to
\* leave two bytes of lpathbuf free: the parse of such a one reads nothing
\* that is not in lpathbuf, whatever the buffer held before.
ReadsInBounds == pc = "undefined" => path # Unset /\ Len(path) > BufSize - 2

\* The names and the null that ends the vector fit in its slots.
VectorFits == Len(vec) + 1 <= capacity

\* A variable without empty names becomes the vector of its names, every one
\* once and in order (dynlink.c:68-88).
VectorIsSplit ==
  pc = "done" =>
    IF path = Unset \/ path = <<>> THEN vec = <<>>
    ELSE ~HasEmptyName =>
      LET names == [n \in DOMAIN vec |-> Denotes(vec[n])]
      IN  /\ Range(names) = Names
          /\ \A m, n \in DOMAIN vec : m < n => Earlier(names[m], names[n])

\* Whatever the variable holds, no slot is the empty string, which the loader
\* would take for no directory at all: an empty name is "." or is left out.
NoEmptySlot ==
  pc = "done" => \A n \in DOMAIN vec :
                   vec[n] # Dot => LET name == Denotes(vec[n]) IN name[1] <= name[2]

\* The parse ends.
ParseEnds == <>(pc \in {"released", "undefined"})

\* Every directory named in the variable is searched (dynlink.c:45, "loader
\* path environment variable to loader path vector").
EveryNameListed ==
  pc = "done" /\ path # Unset =>
    \A name \in Names : \E n \in DOMAIN vec : Denotes(vec[n]) = name

\* The same of a variable that does not fit in lpathbuf, for which the code
\* has a strdup.
LongVariableListed ==
  path # Unset /\ Len(path) >= BufSize =>
    /\ pc # "undefined"
    /\ pc = "done" => \A name \in Names : \E n \in DOMAIN vec : Denotes(vec[n]) = name

=============================================================================

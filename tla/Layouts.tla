-------------------------------- MODULE Layouts --------------------------------
(***************************************************************************)
(* Where the members of the records lie that programs share with the       *)
(* framework and with code in assembly: the headers give their members in  *)
(* order, the compiler lays them out one after the other.  A layout is     *)
(* computed member by member, so that it can be compared with what the     *)
(* headers' comments, CANCEL_REG_IP and fenv.S say of it, on nt64 and on   *)
(* nt32, where the alignment of 64-bit integers in a record depends on the *)
(* compiler's options.                                                     *)
(***************************************************************************)
EXTENDS Integers, Sequences, FiniteSets

CONSTANTS
  Arches,      \* {"nt32", "nt64"}, or one of them
  Aligns64     \* alignments of a 64-bit integer on nt32

LayoutsAssumption ==
  Arches \subseteq {"nt32", "nt64"} /\ Aligns64 \subseteq {4, 8} /\ Aligns64 # {}

VARIABLES
  arch, align64,
  record,      \* the record that is laid out
  done,        \* the members laid out so far
  offset,      \* the first byte behind them
  largest,     \* the largest alignment among them
  holes        \* bytes left between them

vars == <<arch, align64, record, done, offset, largest, holes>>

Word(a) == IF a = "nt64" THEN 8 ELSE 4

Size(a, type) ==
  CASE type = "u8" -> 1 [] type = "u16" -> 2 [] type = "u32" -> 4
    [] type = "u64" -> 8 [] type = "word" -> Word(a)
Align(a, type) == IF type = "u64" /\ a = "nt32" THEN align64 ELSE Size(a, type)

-----------------------------------------------------------------------------
(* Runs of members of a type: the type, how many, and the offset that a      *)
(* comment gives the first one, or -1; a name is given where it is used.     *)

Run(type, n)         == [type |-> type, n |-> n, at |-> -1, name |-> ""]
At(type, n, at)      == [type |-> type, n |-> n, at |-> at, name |-> ""]
Named(type, at, nam) == [type |-> type, n |-> 1, at |-> at, name |-> nam]

\* mcontext_t, with the records in it member by member; a 128-bit member is a
\* pair of words.
mcontext64 ==
  <<At("word", 6, 0), At("u32", 2, 48), At("u16", 6, 56), At("u32", 1, 68),
    At("word", 6, 72), At("word", 16, 120), Named("word", 248, "uc_rip"),
    At("u16", 2, 256), At("u8", 2, 260), At("u16", 1, 262), At("u32", 1, 264),
    At("u16", 2, 268), At("u32", 1, 272), At("u16", 2, 276), At("u32", 2, 280),
    At("word", 16, 288),
    At("word", 32, 416), At("word", 12, 672), At("word", 52, 768), At("word", 1, 1184),
    At("word", 5, 1192), At("word", 6, 1232)>>

mcontext32Debug ==                                       \* mutant
  <<At("word", 1, 0), At("word", 5, 4),
    At("word", 7, 28), At("u8", 80, 56), At("word", 1, 136)>>
mcontext32 ==
  <<At("word", 1, 0), At("word", 6, 4),
    At("word", 7, 28), At("u8", 80, 56), At("word", 1, 136),
    At("word", 4, 140), At("word", 7, 156), Named("word", 184, "uc_eip"),
    At("word", 4, 188), At("u8", 512, 204)>>

ucontextUnaligned ==                                     \* mutant
  <<Run("u32", 4), Run("word", 4), Run("u32", 8), Run("word", 33),
    Run("word", 1), Run("u32", 1), Run("word", 1),
    Run("word", 1), Run("word", 128 \div Word(arch)), Named("word", -1, "uc_mcontext")>>
\* ucontext_t up to its uc_mcontext; the signal set has 128 bytes.
ucontext ==
  <<Run("u32", 4), Run("word", 4), Run("u32", 8), Run("word", 34),
    Run("word", 1), Run("u32", 1), Run("word", 1),
    Run("word", 1), Run("word", 128 \div Word(arch)), Named("word", -1, "uc_mcontext")>>

\* fenv_t of nt64: fnstenv's 28 bytes and the control word of the sse unit.  The
\* two bit fields (fenv.h:26-27) are taken to share the 16 bits behind the selector,
\* as gcc lays them out where it is not told to do as Microsoft's compiler does.
fenv64Wide ==                                            \* mutant
  <<Run("u16", 6), Run("u32", 1), Run("u16", 1), Run("u16", 1), Run("u32", 1),
    Run("u16", 1), Run("u32", 1), Named("u32", -1, "__mxcsr")>>
fenv64 ==
  <<Run("u16", 6), Run("u32", 1), Run("u16", 1), Run("u16", 1), Run("u32", 1),
    Run("u16", 2), Named("u32", -1, "__mxcsr")>>

\* The records of sys/debug.h.
strace == <<Run("word", 2), Run("u32", 2), Run("u32", 16), Run("u32", 16), Run("u32", 32)>>

erec == <<Run("u32", 2), Run("word", 2), Run("u32", 1), Run("word", 15)>>

dbg_event ==
  <<Run("u32", 4), Run("u64", 2), Run("u32", 8),
    Run("word", 5), Run("word", 3), Run("word", 1), Run("u32", 2),
    Run("u32", 2), Run("word", 7), Run("word", 3), Run("word", 4), Run("word", 2),
    Run("u32", 2), Run("word", 4)>>

dbg_module_info == <<Run("word", 4), Run("u32", 2), Run("u64", 2)>>

psx_contextShort ==                                      \* mutant
  <<Run("u32", 2), Run("word", 6), Run("u32", 1), Run("word", 3)>>
\* The context of __psx_init.
psx_context == <<Run("u32", 2), Run("word", 6), Run("u32", 2), Run("word", 3)>>

\* struct kstat of nt64.
kstat == <<Run("u64", 2), Run("word", 1), Run("u32", 4), Run("u64", 1), Run("u64", 1),
           Run("word", 1), Run("u64", 1), Run("u64", 6), Run("word", 3)>>

Records == {"mcontext", "ucontext", "fenv", "strace", "erec", "dbg_event", "dbg_module_info",
            "psx_context", "kstat"}

Members(r) ==
  CASE r = "mcontext" /\ arch = "nt64" -> mcontext64
    [] r = "mcontext" /\ arch = "nt32" -> mcontext32
    [] r = "ucontext" -> ucontext
    [] r = "fenv" -> fenv64
    [] r = "strace" -> strace
    [] r = "erec" -> erec
    [] r = "dbg_event" -> dbg_event
    [] r = "dbg_module_info" -> dbg_module_info
    [] r = "psx_context" -> psx_context
    [] r = "kstat" -> kstat

\* CANCEL_REG_IP: the word of the context that a cancelled thread's program
\* counter is taken from.
CancelIndex64Zero == 30                                  \* mutant
CancelIndex64 == 31
CancelIndex32 == 16

-----------------------------------------------------------------------------
\* fenv.S and the kstat looked at are those of nt64.
Init ==
  /\ arch \in Arches /\ align64 \in Aligns64
  /\ record \in Records /\ (record \in {"fenv", "kstat"} => arch = "nt64")
  /\ done = 0 /\ offset = 0 /\ largest = 1 /\ holes = 0

Up(a, b) == ((a + b - 1) \div b) * b

Upcoming == Members(record)[done + 1]

UpNone(type) == offset                                   \* mutant
\* Where the next member begins.
Begins(type) == Up(offset, Align(arch, type))

\* The next run of members behind those laid out.
Lay ==
  /\ done < Len(Members(record))
  /\ done' = done + 1
  /\ offset' = Begins(Upcoming.type) + Upcoming.n * Size(arch, Upcoming.type)
  /\ holes' = holes + Begins(Upcoming.type) - offset
  /\ largest' = IF Align(arch, Upcoming.type) > largest THEN Align(arch, Upcoming.type) ELSE largest
  /\ UNCHANGED <<arch, align64, record>>

Next == Lay
Spec == Init /\ [][Next]_vars

-----------------------------------------------------------------------------
\* A member is about to be laid out.
Coming(name) == done < Len(Members(record)) /\ Upcoming.name = name

\* Offsets grow, and what has been laid out leaves no member out of line.
TypeOK ==
  /\ arch \in Arches /\ record \in Records
  /\ done \in 0..Len(Members(record))
  /\ offset >= done
  /\ largest \in {1, 2, 4, 8}
  /\ done > 0 => offset % Align(arch, Members(record)[done].type) = 0

\* The members of mcontext_t lie where the comments of signal.h say that the
\* system's own record has them (nt64 signal.h:14-105, nt32 signal.h:9-49).
CommentsTell ==
  done < Len(Members(record)) /\ Upcoming.at # -1 => Begins(Upcoming.type) = Upcoming.at

\* fenv.S stores the sse control word at MXCSR_MEMBER_OFFSET (fenv.S:43, 256,
\* 306): that is its member of fenv_t, right behind what fnstenv writes.
MxcsrIsMember == Coming("__mxcsr") => Begins("u32") = 28

\* The context of a signal lies on a 16-byte boundary of an aligned ucontext_t
\* on nt64, as the 128-bit registers in it ask for (nt64 signal.h:121).
ContextIsAligned ==
  Coming("uc_mcontext") /\ arch = "nt64" => Begins("word") % 16 = 0

\* The bytes that a compiler leaves out before offset o of a record.
Left(r, o) ==
  IF arch = "nt64" /\ ((r = "erec" /\ o > 28) \/ (r = "ucontext" /\ o > 364)) THEN 4 ELSE 0

\* Every record has the holes that its users know: four bytes in front of
\* exception_info (debug.h:108) and of ss_size (nt64 signal.h:110) on nt64, and no
\* others, with either alignment of 64-bit integers (debug.h:91-188,
\* psxglue.h:41-55, kstat.h:1-26).
HolesKnown == holes = Left(record, offset)

\* CANCEL_REG_IP of nt64 is the index of uc_rip, which MC_PC names
\* (nt64 pthread_arch.h:4-5).
CancelFindsRip == Coming("uc_rip") => Begins("word") = CancelIndex64 * Word(arch)

\* And that of nt32 the index of uc_eip (nt32 pthread_arch.h:4-5).
CancelFindsEip == Coming("uc_eip") => Begins("word") = CancelIndex32 * Word(arch)

\* What assembly, the framework and the comments take for granted of the records
\* above.  CancelFindsEip is not among it, and does not hold.
LayoutsSound ==
  /\ TypeOK
  /\ CommentsTell /\ MxcsrIsMember /\ ContextIsAligned /\ HolesKnown /\ CancelFindsRip
=============================================================================

-------------------------------- MODULE Fenv --------------------------------
(***************************************************************************)
(* src/fenv/nt64/fenv.S: the floating-point environment over two units,    *)
(* the x87 FPU (long double) and SSE (float, double), each with its own    *)
(* flags and rounding mode.  The state is a thread's, so each function is  *)
(* one step.  An integer of flag bits is the set of flags it stands for,   *)
(* normalised by FE_ALL_EXCEPT; all exceptions stay masked.                *)
(***************************************************************************)

CONSTANTS Flag, Mode, Nearest, NoEnv

\* NoEnv is no fenv_t, neither of the code nor of FenvSpec.
ASSUME FenvAssumption ==
  /\ Nearest \in Mode
  /\ NoEnv \notin [flags : SUBSET Flag, round : Mode]
  /\ NoEnv \notin [sw : SUBSET Flag, cwRound : Mode, mxFlags : SUBSET Flag,
                   mxRound : Mode]

VARIABLES
  sw,       (* flags of the x87 status word                                *)
  cwRound,  (* rounding control of the x87 control word                    *)
  mxFlags,  (* flags of mxcsr                                              *)
  mxRound,  (* rounding control of mxcsr                                   *)
  env,      (* an fenv_t of the program                                    *)
  call      (* history: last call, its argument and what it returned       *)

fpu == <<sw, cwRound>>
sse == <<mxFlags, mxRound>>
vars == <<fpu, sse, env, call>>

SavedEnv == [sw : SUBSET Flag, cwRound : Mode, mxFlags : SUBSET Flag,
             mxRound : Mode]

Call == [fn : {"start", "getenv", "setenv", "default"}]
        \cup [fn : {"compute", "clear", "raise"}, flags : SUBSET Flag]
        \cup [fn : {"test"}, flags : SUBSET Flag, found : SUBSET Flag]
        \cup [fn : {"getround", "setround"}, mode : Mode]

\* Shape of the two units, of a saved environment and of the results.
TypeOK ==
  /\ sw \in SUBSET Flag /\ cwRound \in Mode
  /\ mxFlags \in SUBSET Flag /\ mxRound \in Mode
  /\ env \in SavedEnv \cup {NoEnv}
  /\ call \in Call

\* _start loads 0x37f into the control word; mxcsr is the system's default.
Init ==
  /\ sw = {} /\ cwRound = Nearest
  /\ mxFlags = {} /\ mxRound = Nearest
  /\ env = NoEnv
  /\ call = [fn |-> "start"]

-----------------------------------------------------------------------------
(* Functions with a slip in them, for mutation runs.                       *)

\* only the unit that fegetround reads is set
fesetround_sse(m) == /\ call' = [fn |-> "setround", mode |-> m]
                     /\ mxRound' = m
                     /\ UNCHANGED <<fpu, mxFlags, env>>

\* the x87 flags that are to stay are dropped
feclearexcept_drop(mask) ==
  /\ call' = [fn |-> "clear", flags |-> mask]
  /\ sw' = IF sw \cap mask # {} THEN {} ELSE sw
  /\ mxFlags' = mxFlags \ mask
  /\ UNCHANGED <<cwRound, mxRound, env>>

-----------------------------------------------------------------------------
(* The program computes.                                                   *)

ComputeFpu(raised) == /\ call' = [fn |-> "compute", flags |-> raised]
                      /\ sw' = sw \cup raised
                      /\ UNCHANGED <<cwRound, sse, env>>

ComputeSse(raised) == /\ call' = [fn |-> "compute", flags |-> raised]
                      /\ mxFlags' = mxFlags \cup raised
                      /\ UNCHANGED <<mxRound, fpu, env>>

-----------------------------------------------------------------------------
(* The functions of fenv.S.                                                *)

fetestexcept(mask) ==
  /\ call' = [fn |-> "test", flags |-> mask, found |-> (mxFlags \cup sw) \cap mask]
  /\ UNCHANGED <<fpu, sse, env>>

\* fnclex clears every x87 flag, so those that are to stay move to mxcsr.
feclearexcept(mask) ==
  LET state == mxFlags \cup sw IN
  /\ call' = [fn |-> "clear", flags |-> mask]
  /\ sw' = IF sw \cap mask # {} THEN {} ELSE sw
  /\ mxFlags' = IF state \cap mask # {} THEN state \ mask ELSE mxFlags
  /\ UNCHANGED <<cwRound, mxRound, env>>

feraiseexcept(mask) ==
  /\ call' = [fn |-> "raise", flags |-> mask]
  /\ mxFlags' = mxFlags \cup mask
  /\ UNCHANGED <<mxRound, fpu, env>>

fegetround == /\ call' = [fn |-> "getround", mode |-> mxRound]
              /\ UNCHANGED <<fpu, sse, env>>

fesetround(m) == /\ call' = [fn |-> "setround", mode |-> m]
                 /\ cwRound' = m
                 /\ mxRound' = m
                 /\ UNCHANGED <<sw, mxFlags, env>>

fegetenv ==
  /\ call' = [fn |-> "getenv"]
  /\ env' = [sw |-> sw, cwRound |-> cwRound, mxFlags |-> mxFlags, mxRound |-> mxRound]
  /\ UNCHANGED <<fpu, sse>>

\* fesetenv with an environment that fegetenv filled
fesetenv ==
  /\ env # NoEnv
  /\ call' = [fn |-> "setenv"]
  /\ sw' = env.sw /\ cwRound' = env.cwRound
  /\ mxFlags' = env.mxFlags /\ mxRound' = env.mxRound
  /\ UNCHANGED env

\* fesetenv(FE_DFL_ENV)
fesetenv_default ==
  /\ call' = [fn |-> "default"]
  /\ sw' = {} /\ cwRound' = Nearest
  /\ mxFlags' = {} /\ mxRound' = Nearest
  /\ UNCHANGED env

Next ==
  \/ \E mask \in SUBSET Flag :
       \/ ComputeFpu(mask) \/ ComputeSse(mask)
       \/ fetestexcept(mask) \/ feclearexcept(mask) \/ feraiseexcept(mask)
  \/ fegetround \/ (\E m \in Mode : fesetround(m))
  \/ fegetenv \/ fesetenv \/ fesetenv_default

Spec == Init /\ [][Next]_vars

-----------------------------------------------------------------------------
(* Properties.                                                             *)

\* "It thus suffices to obtain the mode from either": the two units always
\* round alike, also after an environment comes back.
RoundingAgrees ==
  /\ cwRound = mxRound
  /\ env # NoEnv => env.cwRound = env.mxRound

\* The two units together are the one environment of FenvSpec, call by call: no
\* flag is lost, invented or kept when it moves between them.
One == INSTANCE FenvSpec WITH
  flags <- sw \cup mxFlags,
  round <- mxRound,
  env <- IF env = NoEnv THEN NoEnv
         ELSE [flags |-> env.sw \cup env.mxFlags, round |-> env.mxRound]

OneEnvironment == One!Spec

=============================================================================

------------------------------ MODULE FenvSpec ------------------------------
(***************************************************************************)
(* The floating-point environment as <fenv.h> presents it to a thread: one *)
(* set of exception flags and one rounding mode, whatever unit computes.   *)
(* The last call and its result are part of the interface, so that an      *)
(* implementation has to do what it was called for.                        *)
(***************************************************************************)

CONSTANTS
  Flag,     (* exception flags                                             *)
  Mode,     (* rounding modes                                              *)
  Nearest,  (* the default mode                                            *)
  NoEnv     (* an fenv_t that was never filled                             *)

VARIABLES
  flags,    (* flags that are raised                                       *)
  round,    (* current rounding mode                                       *)
  env,      (* an fenv_t of the program                                    *)
  call      (* last call: function, argument and result                    *)

vars == <<flags, round, env, call>>

Init == /\ flags = {} /\ round = Nearest /\ env = NoEnv
        /\ call = [fn |-> "start"]

Compute(raised) == /\ call' = [fn |-> "compute", flags |-> raised]
                   /\ flags' = flags \cup raised
                   /\ UNCHANGED <<round, env>>

Test(mask) == /\ call' = [fn |-> "test", flags |-> mask, found |-> flags \cap mask]
              /\ UNCHANGED <<flags, round, env>>

Clear(mask) == /\ call' = [fn |-> "clear", flags |-> mask]
               /\ flags' = flags \ mask
               /\ UNCHANGED <<round, env>>

Raise(mask) == /\ call' = [fn |-> "raise", flags |-> mask]
               /\ flags' = flags \cup mask
               /\ UNCHANGED <<round, env>>

GetRound == /\ call' = [fn |-> "getround", mode |-> round]
            /\ UNCHANGED <<flags, round, env>>

SetRound(m) == /\ call' = [fn |-> "setround", mode |-> m]
               /\ round' = m
               /\ UNCHANGED <<flags, env>>

GetEnv == /\ call' = [fn |-> "getenv"]
          /\ env' = [flags |-> flags, round |-> round]
          /\ UNCHANGED <<flags, round>>

SetEnv == /\ env # NoEnv
          /\ call' = [fn |-> "setenv"]
          /\ flags' = env.flags
          /\ round' = env.round
          /\ UNCHANGED env

SetDefaultEnv == /\ call' = [fn |-> "default"]
                 /\ flags' = {}
                 /\ round' = Nearest
                 /\ UNCHANGED env

Next ==
  \/ \E mask \in SUBSET Flag : Compute(mask) \/ Test(mask) \/ Clear(mask) \/ Raise(mask)
  \/ GetRound \/ (\E m \in Mode : SetRound(m))
  \/ GetEnv \/ SetEnv \/ SetDefaultEnv

Spec == Init /\ [][Next]_vars

=============================================================================

--------------------------- MODULE LoaderMonitor ---------------------------
(***************************************************************************)
(* What a process may rely on while libraries are opened (the prolog and   *)
(* epilog that dlopen, __dldopen and __dlsopen in dynlink.c share): one    *)
(* thread opens at a time, the population of threads does not grow         *)
(* meanwhile, and the opener survives until it is done.                    *)
(***************************************************************************)

CONSTANTS Thread, NoThread

VARIABLES
  alive,   (* threads that exist                                           *)
  dead,    (* threads that existed                                         *)
  opener   (* the thread that is opening a library, if any                 *)

vars == <<alive, dead, opener>>

Init == /\ \E main \in Thread : alive = {main}
        /\ dead = {}
        /\ opener = NoThread

BeginOpen(t) == /\ t \in alive
                /\ opener = NoThread
                /\ opener' = t
                /\ UNCHANGED <<alive, dead>>

EndOpen(t) == /\ opener = t
              /\ t \in alive
              /\ opener' = NoThread
              /\ UNCHANGED <<alive, dead>>

Birth(t) == /\ t \notin alive \cup dead
            /\ opener = NoThread
            /\ alive' = alive \cup {t}
            /\ UNCHANGED <<dead, opener>>

Death(t) == /\ t \in alive
            /\ opener # t
            /\ alive' = alive \ {t}
            /\ dead' = dead \cup {t}
            /\ UNCHANGED opener

Next == \E t \in Thread : BeginOpen(t) \/ EndOpen(t) \/ Birth(t) \/ Death(t)

Spec == Init /\ [][Next]_vars

=============================================================================

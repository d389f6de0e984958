------------------------------ MODULE ThreadList ------------------------------
(***************************************************************************)
(* What __init_tls and __pthread_surrogate_init of                         *)
(* src/arch/nt32/crt_glue.c (the nt64 file is the same) leave in a struct  *)
(* pthread, for each of the four generations of musl that                  *)
(* project/config/cfgdefs.sh tells apart: how the end of a thread is       *)
(* announced, and the list of threads.                                     *)
(***************************************************************************)
EXTENDS Naturals, FiniteSets

CONSTANTS
  Main,         \* the thread that runs __init_tls
  Threads,      \* threads made by pthread_create
  Surrogates,   \* threads of a third-party library
  Nobody,       \* no thread, and a null pointer
  Variants      \* the generations of musl to look at

ThreadListAssumption ==
  /\ Main \notin Threads \cup Surrogates /\ Threads \cap Surrogates = {}
  /\ Nobody \notin Threads \cup Surrogates \cup {Main}
  /\ Variants \subseteq {"TID", "JOIN_FUTEX", "DETACH_STATE", "THREAD_LIST_LOCK"}

VARIABLES
  variant,      \* the musl that this libc is built with
  stage,        \* how far each thread is
  word,         \* for each thread, which of its three words are not zero
  cleared,      \* set_tid_address: the word the framework clears at its end
  lock,         \* owner of __thread_list_lock
  next, prev,   \* the ring of threads
  joins,        \* the thread that a thread waits for in pthread_join
  joined,       \* threads whose memory a pthread_join has released
  faulted       \* a thread that wrote through a null pointer

vars == <<variant, stage, word, cleared, lock, next, prev, joins, joined, faulted>>

All    == {Main} \cup Threads \cup Surrogates
Words  == {"tid", "join_futex", "detach_state"}
Stages == {"unborn", "running", "creating", "exiting", "gone"}
Listed == variant = "THREAD_LIST_LOCK"

\* The word that musl registers for the main thread and for those it creates.
LibcWord ==
  CASE variant = "TID"              -> "tid"
    [] variant = "JOIN_FUTEX"       -> "join_futex"
    [] variant = "DETACH_STATE"     -> "detach_state"
    [] variant = "THREAD_LIST_LOCK" -> "thread_list_lock"

GlueWordTid ==                                           \* mutant
  IF variant = "JOIN_FUTEX" THEN "tid" ELSE LibcWord

\* The word that __init_tls registers.
GlueWord ==
  CASE variant = "TID"              -> "tid"
    [] variant = "JOIN_FUTEX"       -> "join_futex"
    [] variant = "DETACH_STATE"     -> "detach_state"
    [] variant = "THREAD_LIST_LOCK" -> "detach_state"

-----------------------------------------------------------------------------
Init ==
  /\ variant \in Variants
  /\ stage = [t \in All |-> "unborn"]
  /\ word = [t \in All |-> {}]
  /\ cleared = [t \in All |-> "none"]
  /\ lock = Nobody
  /\ next = [t \in All |-> Nobody]
  /\ prev = [t \in All |-> Nobody]
  /\ joins = [t \in All |-> Nobody]
  /\ joined = {}
  /\ faulted = Nobody

MainWordsUnset == {"tid"}                                \* mutant
\* The words of the main thread after __init_tls.
MainWords == {"tid", "detach_state"} \cup (IF variant = "JOIN_FUTEX" THEN {"join_futex"} ELSE {})

InitTlsUnlinked ==                                       \* mutant
  /\ stage[Main] = "unborn"
  /\ stage' = [stage EXCEPT ![Main] = "running"]
  /\ word' = [word EXCEPT ![Main] = MainWords]
  /\ cleared' = [cleared EXCEPT ![Main] = GlueWord]
  /\ UNCHANGED <<variant, lock, next, prev, joins, joined, faulted>>

\* __init_tls: the main thread becomes a thread of libc.
InitTls ==
  /\ stage[Main] = "unborn"
  /\ stage' = [stage EXCEPT ![Main] = "running"]
  /\ word' = [word EXCEPT ![Main] = MainWords]
  /\ cleared' = [cleared EXCEPT ![Main] = GlueWord]
  /\ next' = [next EXCEPT ![Main] = IF Listed THEN Main ELSE Nobody]
  /\ prev' = [prev EXCEPT ![Main] = IF Listed THEN Main ELSE Nobody]
  /\ UNCHANGED <<variant, lock, joins, joined, faulted>>

\* __pthread_surrogate_init: a thread of a third-party library gets a zeroed
\* struct pthread and nothing more.
SurrogateInit(t) ==
  /\ stage[Main] # "unborn" /\ t \in Surrogates /\ stage[t] = "unborn"
  /\ stage' = [stage EXCEPT ![t] = "running"]
  /\ UNCHANGED <<variant, word, cleared, lock, next, prev, joins, joined, faulted>>

\* pthread_create and pthread_exit of a musl with a list take its lock.
TakeLock(t) ==
  IF Listed THEN lock = Nobody /\ lock' = t ELSE UNCHANGED lock

\* pthread_create, up to the call of __clone.
CreateEnter(t) ==
  /\ stage[t] = "running" /\ joins[t] = Nobody
  /\ \E u \in Threads : stage[u] = "unborn"
  /\ TakeLock(t)
  /\ stage' = [stage EXCEPT ![t] = "creating"]
  /\ UNCHANGED <<variant, word, cleared, next, prev, joins, joined, faulted>>

\* The new thread behind its creator in the ring.
Insert(t, u) ==
  /\ next' = [next EXCEPT ![u] = next[t], ![t] = u]
  /\ prev' = [prev EXCEPT ![next[t]] = u, ![u] = t]

\* pthread_create, after it: the creator links the new thread.
CreateLeave(t) ==
  /\ stage[t] = "creating"
  /\ IF Listed /\ next[t] = Nobody
     THEN /\ faulted' = t
          /\ UNCHANGED <<stage, word, cleared, lock, next, prev>>
     ELSE /\ \E u \in Threads :
               /\ stage[u] = "unborn"
               /\ stage' = [stage EXCEPT ![t] = "running", ![u] = "running"]
               /\ word' = [word EXCEPT ![u] = Words]
               /\ cleared' = [cleared EXCEPT ![u] = LibcWord]
               /\ IF Listed THEN Insert(t, u) ELSE UNCHANGED <<next, prev>>
          /\ lock' = Nobody
          /\ UNCHANGED faulted
  /\ UNCHANGED <<variant, joins, joined>>

\* pthread_create finds nobody left to be: __clone has failed.
CreateFails(t) ==
  /\ stage[t] = "creating"
  /\ stage' = [stage EXCEPT ![t] = "running"]
  /\ lock' = Nobody
  /\ UNCHANGED <<variant, word, cleared, next, prev, joins, joined, faulted>>

\* pthread_exit of a thread that is not the last one: with a list, it leaves
\* the ring, wakes whoever joins it, and keeps the lock for the framework.
ExitEnter(t) ==
  /\ stage[t] = "running" /\ t \notin Surrogates /\ joins[t] = Nobody
  /\ \E u \in All \ Surrogates : u # t /\ stage[u] \in {"running", "creating"}
  /\ TakeLock(t)
  /\ stage' = [stage EXCEPT ![t] = "exiting"]
  /\ IF Listed
     THEN /\ next' = [next EXCEPT ![prev[t]] = next[t], ![t] = t]
          /\ prev' = [prev EXCEPT ![next[t]] = prev[t], ![t] = t]
          /\ word' = [word EXCEPT ![t] = @ \ {"detach_state"}]
     ELSE UNCHANGED <<next, prev, word>>
  /\ UNCHANGED <<variant, cleared, joins, joined, faulted>>

\* The framework ends the thread and clears the word it was told.
Gone(t) ==
  /\ stage[t] = "exiting"
  /\ stage' = [stage EXCEPT ![t] = "gone"]
  /\ word' = [word EXCEPT ![t] = @ \ {cleared[t]}]
  /\ lock' = IF cleared[t] = "thread_list_lock" THEN Nobody ELSE lock
  /\ UNCHANGED <<variant, cleared, next, prev, joins, joined, faulted>>

\* pthread_join waits for the word and, with a list, for its lock.
JoinEnter(t, u) ==
  /\ stage[t] = "running" /\ t \notin Surrogates /\ u # t
  /\ joins[t] = Nobody /\ u \notin joined
  /\ u \in Threads \cup {Main} /\ stage[u] # "unborn"
  /\ \A s \in All : joins[s] # u
  /\ joins[u] # t
  /\ joins' = [joins EXCEPT ![t] = u]
  /\ UNCHANGED <<variant, stage, word, cleared, lock, next, prev, joined, faulted>>

JoinLeave(t) ==
  /\ joins[t] # Nobody
  /\ IF Listed THEN "detach_state" \notin word[joins[t]] /\ lock = Nobody
               ELSE LibcWord \notin word[joins[t]]
  /\ joined' = joined \cup {joins[t]}
  /\ joins' = [joins EXCEPT ![t] = Nobody]
  /\ UNCHANGED <<variant, stage, word, cleared, lock, next, prev, faulted>>

Step(t) ==
  \/ SurrogateInit(t)
  \/ CreateEnter(t) \/ CreateLeave(t) \/ CreateFails(t)
  \/ ExitEnter(t) \/ Gone(t)
  \/ (\E u \in All : JoinEnter(t, u)) \/ JoinLeave(t)

Next ==
  /\ faulted = Nobody
  /\ InitTls \/ \E t \in All : Step(t)

Spec == Init /\ [][Next]_vars

Running(A) == faulted = Nobody /\ A

\* The framework ends the threads that exit, a call of pthread_create ends, and
\* each release of the lock wakes whoever waits for it.
Fairness ==
  \A t \in All :
    /\ WF_vars(Running(Gone(t)))
    /\ WF_vars(Running(CreateLeave(t) \/ CreateFails(t)))
    /\ SF_vars(Running(JoinLeave(t)))

-----------------------------------------------------------------------------
\* The state keeps its shape.
TypeOK ==
  /\ variant \in Variants
  /\ stage \in [All -> Stages]
  /\ word \in [All -> SUBSET Words]
  /\ cleared \in [All -> Words \cup {"none", "thread_list_lock"}]
  /\ lock \in All \cup {Nobody}
  /\ next \in [All -> All \cup {Nobody}]
  /\ prev \in [All -> All \cup {Nobody}]
  /\ joins \in [All -> All \cup {Nobody}]
  /\ joined \subseteq All
  /\ faulted \in Surrogates \cup {Nobody}

\* The memory of a thread is released only after the framework has ended it,
\* in every generation of musl (crt_glue.c:56, 63-73).
JoinedAreGone == \A t \in joined : stage[t] = "gone"

\* The ring can be walked both ways from every thread in it, whoever creates
\* and exits: it starts with the main thread alone (crt_glue.c:72-73).
RingIsWhole ==
  Listed => \A t \in All \ Surrogates : stage[t] \in {"running", "creating"} =>
    /\ next[t] # Nobody /\ stage[next[t]] \in {"running", "creating"}
    /\ prev[next[t]] = t /\ next[prev[t]] = t

\* Whoever joins a thread that has ended gets through, in every generation of
\* musl, unless the main thread has taken the lock of the list along
\* (crt_glue.c:64-71).
JoinReturns ==
  \A t \in Threads \cup {Main} :
    (\E u \in All : joins[u] = t) /\ stage[t] = "gone"
      ~> t \in joined \/ (Listed /\ lock = Main /\ stage[Main] = "gone") \/ faulted # Nobody

\* What musl relies on when it joins, creates and lists threads.
ThreadsSound == TypeOK /\ JoinedAreGone /\ RingIsWhole
=============================================================================

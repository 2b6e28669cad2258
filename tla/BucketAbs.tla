------------------------------ MODULE BucketAbs ------------------------------
(***************************************************************************)
(* What fev_timers.c asks of a bucket of timers, be it the binary heap or   *)
(* the red-black tree: a set of timers with a first element, none of which  *)
(* is earlier, that a call changes only if it has to, and says so.          *)
(***************************************************************************)
EXTENDS Integers

CONSTANTS Timers, Times, NULL

VARIABLES timers, time, first, changed

absVars == <<timers, time, first, changed>>

AbsInit ==
  /\ timers = {} /\ first = NULL /\ changed = FALSE
  /\ time \in [Timers -> Times]

IsFirst(t, s) ==
  IF s = {} THEN t = NULL ELSE t \in s /\ \A u \in s : time'[t] <= time'[u]

\* `first` stays unless it is removed or the new timer is earlier.
Becomes(s) ==
  /\ timers' = s
  /\ IsFirst(first', s)
  /\ changed' = (first' # first)
  /\ \A t \in s \cap timers : time'[t] = time[t]

Add(t) == t \notin timers /\ Becomes(timers \cup {t})

Del(t) ==
  /\ t \in timers
  /\ Becomes(timers \ {t})
  /\ t # first => first' = first

AbsNext == \E t \in Timers : Add(t) \/ Del(t)

AbsSpec == AbsInit /\ [][AbsNext]_absVars
==============================================================================

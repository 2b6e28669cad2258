------------------------------- MODULE MCSocket -------------------------------
(***************************************************************************)
(* The cases of Socket for TLC: one end with timeouts and two workers, so   *)
(* that wakers of earlier waits meet later ones, and both ends at once.     *)
(***************************************************************************)
EXTENDS Socket

CONSTANTS p1, p2

Backends == {"epoll", "kqueue"}

AllSetups ==
  [backend : Backends, ends : {{"in"}}, pollers : {{p1, p2}}, timeouts : {TRUE}]
    \cup [backend : Backends, ends : {Ends}, pollers : {{p1}}, timeouts : {FALSE}]
===============================================================================

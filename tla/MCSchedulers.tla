---------------------------- MODULE MCSchedulers -----------------------------
EXTENDS Schedulers

CONSTANTS f1, f2, f3

\* Three fibers overflow a bounded queue of two.  The default strategy, work
\* stealing with locks, has more to do.
AllStrategies ==
  [sharing : {TRUE}, queue : {"mpmc", "locking"}, capacity : {2},
   initial : {<<f1, f2, f3>>}, ops : {1}]
    \cup [sharing : {FALSE}, queue : {"mpmc", "spmc"}, capacity : {2},
          initial : {<<f1, f2, f3>>}, ops : {1}]
    \cup [sharing : {FALSE}, queue : {"locking"}, capacity : {2},
          initial : {<<f1>>}, ops : {2}]
==============================================================================

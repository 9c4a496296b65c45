----------------------------- MODULE MCThreadPool -----------------------------
(* Instances of ThreadPool for TLC. *)
EXTENDS ThreadPool

CONSTANT HwThreads     \* hardware_concurrency(): the slots of EpochDomain

\* steal_front is only called with an id its epoch domain has a slot for: the
\* assertion of src/src/builder/deque.cpp:177.
StealerIdInRange == \A w \in Worker : pc[w] \in {"probe", "batch"} => w < HwThreads
=============================================================================

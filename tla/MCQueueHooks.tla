---------------------------- MODULE MCQueueHooks ------------------------------
(***************************************************************************)
(* The requests of the instances of QueueHooks that TLC checks. Each set   *)
(* is the same for every job of an instance.                               *)
(***************************************************************************)
EXTENDS QueueHooks

\* Every job asks for a backend that can be served, with a slot count.
Served == {[qpu |-> "served", slots |-> "count"]}

\* Every request but a malformed slot count.
GoodSlots == {r \in Request : r.slots # "malformed"}

\* A servable backend with a malformed slot count.
BadSlots == {[qpu |-> "served", slots |-> "malformed"]}

\* Jobs with and without a QPU request.
Mixed == Served \cup {[qpu |-> "none", slots |-> "none"]}
===============================================================================

---------------------------- MODULE ReadinessView -----------------------------
(***************************************************************************)
(* What the load sensor promises the scheduler, without configuration,     *)
(* providers, requests or pipes: it reports once per poll, and a report    *)
(* that says ready repeats what the backend itself offered at some moment  *)
(* since that poll was taken up. Anything else it has to say is "not       *)
(* ready, no slots".                                                       *)
(***************************************************************************)
EXTENDS Naturals, Sequences

CONSTANTS Slots,     \* slot counts a backend can offer
          NoValue    \* in place of a count: slots are not reported

VARIABLES
    truth,      \* the counts the backend offers now: none, or one
    window,     \* counts it has offered since a poll not yet reported on
    pending,    \* reports the scheduler has not read yet
    view        \* the report the scheduler goes by

viewVars == <<truth, window, pending, view>>

Report == [ready : {0, 1}, slots : Slots \cup {NoValue}]

Backed(r) ==
    IF r.ready = 1 THEN window # {} /\ r.slots \in window \cup {NoValue}
                   ELSE r.slots \in {0, NoValue}

Init ==
    /\ truth = {} /\ window = {} /\ pending = <<>>
    /\ view = [ready |-> 0, slots |-> NoValue]

Change ==
    /\ truth' \in SUBSET Slots
    /\ window' \in {window, window \cup truth'}
    /\ UNCHANGED <<pending, view>>

TakePoll == window' = truth /\ UNCHANGED <<truth, pending, view>>

Publish ==
    \E r \in Report :
        /\ Backed(r)
        /\ pending' = Append(pending, r)
        /\ window' = {}
        /\ UNCHANGED <<truth, view>>

Deliver ==
    /\ pending # <<>>
    /\ view' = Head(pending)
    /\ pending' = Tail(pending)
    /\ UNCHANGED <<truth, window>>

\* The scheduler starts another sensor: what the last one wrote, or was about
\* to write, is gone.
Lose == pending' = <<>> /\ window' = {} /\ UNCHANGED <<truth, view>>

Next == Change \/ TakePoll \/ Publish \/ Deliver \/ Lose

Spec == Init /\ [][Next]_viewVars
===============================================================================

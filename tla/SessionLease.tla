---------------------------- MODULE SessionLease ------------------------------
(***************************************************************************)
(* What the hooks promise about backend sessions, without hooks, files or  *)
(* hosts: a session is opened with somebody holding its token, is closed   *)
(* only by a holder, and its token is let go only when the session is      *)
(* closed or a record of its job has been put aside for an administrator.  *)
(***************************************************************************)
CONSTANTS Jobs, Token

VARIABLES
    open,     \* tokens whose session is open
    held,     \* tokens somebody will still act on
    parked    \* jobs with a record put aside

leaseVars == <<open, held, parked>>

Init == open = {} /\ held = {} /\ parked = {}

Acquire(t) ==
    /\ t \notin open \cup held
    /\ open' = open \cup {t}
    /\ held' = held \cup {t}
    /\ UNCHANGED parked

\* A release: the holder may let go of the token with it, or later.
Close(t) ==
    /\ t \in held
    /\ open' = open \ {t}
    /\ held' \in {held, held \ {t}}
    /\ UNCHANGED parked

LetGo(t) ==
    /\ t \in held
    /\ t \notin open \/ t[1] \in parked
    /\ held' = held \ {t}
    /\ UNCHANGED <<open, parked>>

Park(t) ==
    /\ t \in held
    /\ parked' = parked \cup {t[1]}
    /\ held' \in {held, held \ {t}}
    /\ UNCHANGED open

Next == \E t \in Token : Acquire(t) \/ Close(t) \/ LetGo(t) \/ Park(t)

Spec == Init /\ [][Next]_leaseVars
===============================================================================

----------------------------- MODULE MCLoadSensor -----------------------------
(***************************************************************************)
(* The configurations and Warden answers of the instances of LoadSensor    *)
(* that TLC checks.                                                        *)
(***************************************************************************)
EXTENDS LoadSensor

Usual == [file |-> "whole", enabled |-> TRUE, scope |-> "global",
          resource |-> "qpu_ready", slots |-> "qpu_slots", provider |-> "warden",
          ready |-> TRUE, stateFile |-> FALSE]

StaticFile == [Usual EXCEPT !.provider = "static", !.stateFile = TRUE, !.slots = ""]

\* Warden and static configurations as documented, one that yields readiness
\* by itself, and the ways one can be wrong: damaged, switched off, names the
\* protocol cannot carry.
VariedConfigs ==
    {Usual,
     [StaticFile EXCEPT !.scope = "", !.resource = ""],
     [StaticFile EXCEPT !.stateFile = FALSE, !.provider = "", !.slots = "bad"],
     [Usual EXCEPT !.file = "damaged", !.scope = "bad"],
     [StaticFile EXCEPT !.enabled = FALSE, !.resource = "bad", !.stateFile = FALSE]}

Yes == [ok |-> TRUE, json |-> "one", accessible |-> "yes", slots |-> 1]

\* Accessible with and without a slot count, not accessible, and the ways an
\* answer that seems to say accessible can be no answer.
VariedAnswers ==
    {Yes,
     [Yes EXCEPT !.slots = Absent],
     [Yes EXCEPT !.accessible = "no"],
     [Yes EXCEPT !.slots = -1],
     [Yes EXCEPT !.ok = FALSE],
     [Yes EXCEPT !.json = "more"]}
===============================================================================

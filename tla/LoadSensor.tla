------------------------------ MODULE LoadSensor ------------------------------
(***************************************************************************)
(* The load sensor: a process that execd starts, asks for a report with    *)
(* every line it writes to its standard input, and stops. For each line    *)
(* the sensor consults its availability provider and writes one frame.     *)
(* Execd and Warden run on while the sensor is between any two steps; an   *)
(* administrator may change the configuration, which is read only at       *)
(* start. Execd is modelled from the protocol the sensor implements.       *)
(***************************************************************************)
EXTENDS Integers, Sequences

CONSTANTS
    Configs,      \* contents the configuration file can have
    Answers,      \* answers Warden can give
    MaxSlots,     \* bound on the slot count in an answer
    MaxPolls,     \* bound on poll lines waiting in the sensor's input
    MaxReports,   \* bound on frames waiting in its output
    MaxStarts,    \* bound on how often execd starts a sensor
    StuckFiles,   \* TRUE if a read of the state file may never return
    Absent,       \* a value that is not there: a missing field, no request
    Pending       \* a request without its answer

\* "other": 0, or an error: no file, an unreadable one, neither 1 nor 0 in it.
StateFile == {"1", "other"}

\* "damaged": yaml.Unmarshal fails and leaves the fields it got to.
Config == [file      : {"missing", "damaged", "whole"},
           enabled   : BOOLEAN,
           scope     : {"", "bad", "global"},
           resource  : {"", "bad", "qpu_ready"},
           slots     : {"", "bad", "qpu_slots"},
           provider  : {"", "static", "warden", "unknown"},
           ready     : BOOLEAN,
           stateFile : BOOLEAN]

\* ok: a 2xx status; json: the body is one value, not JSON, or goes on after it.
Answer == [ok         : BOOLEAN,
           json       : {"one", "broken", "more"},
           accessible : {"yes", "no", "absent"},
           slots      : (-1 .. MaxSlots) \cup {Absent}]

Status == [ready : BOOLEAN, slots : (-1 .. MaxSlots) \cup {Absent}]

ASSUME SensorAssumption ==
    /\ Configs \subseteq Config
    /\ Answers \subseteq Answer
    /\ MaxSlots \in Nat /\ MaxPolls \in Nat /\ MaxReports \in Nat /\ MaxStarts \in Nat
    /\ StuckFiles \in BOOLEAN
    /\ Absent \notin Int
    /\ Pending \notin Answer \cup {Absent}

VARIABLES
    file,      \* the configuration file
    warden,    \* the answer Warden would give now
    state,     \* the state file of the static provider
    loaded,    \* the configuration file as the running sensor found it
    proc,      \* where the sensor is
    status,    \* what the provider returned in this cycle; FailClosed before
    request,   \* the cycle's request to Warden: Absent, Pending or its answer
    frame,     \* lines of the frame being written
    polls,     \* poll lines in the sensor's input
    closing,   \* how execd has ended the input: "no", "quit", "eof", "hangup"
    out,       \* frames in its output
    load,      \* last frame execd has read
    owed,      \* polls since the sensor's start that execd has no report for
    starts,    \* sensors started
    window     \* slot counts truly on offer since the cycle began; {} outside

envVars   == <<file, warden, state>>
execdVars == <<polls, closing, out, load, owed, starts>>
vars == <<envVars, loaded, proc, status, request, frame, execdVars, window>>

----------------------------------------------------------------------------
(* Configuration *)

ApplyDefaults(c) ==
    [c EXCEPT !.scope    = IF @ = "" THEN "global" ELSE @,
              !.resource = IF @ = "" THEN "qpu_ready" ELSE @,
              !.provider = IF @ = "" THEN "static" ELSE @]

DefaultConfig ==
    ApplyDefaults([file |-> "missing", enabled |-> FALSE, scope |-> "",
                   resource |-> "", slots |-> "", provider |-> "",
                   ready |-> FALSE, stateFile |-> FALSE])

LoadConfig(c) == IF c.file = "missing" THEN DefaultConfig ELSE ApplyDefaults(c)

\* A configuration that cannot be used leaves the sensor with failedProvider.
StartupFails(c) ==
    c.file # "whole" \/ ~c.enabled \/ c.provider \notin {"static", "warden"}

\* Faulty variant: a slots name that the protocol cannot carry is used as it is.
protocolFieldsUnchecked(c) ==
    [scope |-> "global", resource |-> "qpu_ready", slots |-> c.slots]


protocolFields(c) ==
    [scope    |-> IF c.scope = "bad" THEN "global" ELSE c.scope,
     resource |-> IF c.resource = "bad" THEN "qpu_ready" ELSE c.resource,
     slots    |-> IF c.slots = "bad" THEN "" ELSE c.slots]

Fields == protocolFields(LoadConfig(loaded))

----------------------------------------------------------------------------
(* Providers *)

\* What a cycle goes on with after an error of the provider.
FailClosed == [ready |-> FALSE, slots |-> Absent]

\* An error ends as FailClosed, which is also the status that "0" yields.
StaticStatus(content) == [ready |-> content = "1", slots |-> Absent]

WardenStatus(a) ==
    CASE ~a.ok \/ a.json # "one" \/ a.accessible = "absent" -> FailClosed
      [] OTHER ->
           IF a.accessible = "no" THEN [ready |-> FALSE, slots |-> 0]
           ELSE IF a.slots # Absent /\ a.slots < 0 THEN FailClosed
           ELSE [ready |-> TRUE, slots |-> a.slots]

----------------------------------------------------------------------------
(* What is really on offer, for the ghost variable window *)

\* The slot counts on offer to a sensor started with configuration c, when
\* Warden would answer a and the state file holds s: one count or none. An
\* offer without a count offers no slots.
Offer(c, a, s) ==
    LET static == IF c.stateFile THEN s = "1" ELSE c.ready
        remote == a.ok /\ a.json = "one" /\ a.accessible = "yes"
    IN  IF c.file # "whole" \/ ~c.enabled THEN {}
        ELSE CASE c.provider \in {"", "static"} -> IF static THEN {0} ELSE {}
               [] c.provider = "warden" ->
                    IF ~remote THEN {}
                    ELSE IF a.slots = Absent THEN {0} ELSE {a.slots} \cap Nat
               [] OTHER -> {}

OfferNow == Offer(loaded, warden, state)

----------------------------------------------------------------------------
Init ==
    /\ file \in Configs
    /\ warden \in Answers
    /\ state \in StateFile
    /\ loaded = DefaultConfig
    /\ proc = "none"
    /\ status = FailClosed
    /\ request = Absent
    /\ frame = <<>>
    /\ polls = 0
    /\ closing = "no"
    /\ out = <<>>
    /\ load = <<>>
    /\ owed = 0
    /\ starts = 0
    /\ window = {}

----------------------------------------------------------------------------
(* The sensor *)

\* run: the configuration is read once; whatever is wrong with it, the
\* protocol loop starts.
Run ==
    /\ proc = "start"
    /\ loaded' = file
    /\ proc' = "scan"
    /\ UNCHANGED <<envVars, status, request, frame, execdVars, window>>

\* runProtocol: the next line of the input starts a cycle.
Scan ==
    /\ proc = "scan"
    /\ polls > 0
    /\ polls' = polls - 1
    /\ proc' = "ask"
    /\ window' = OfferNow
    /\ UNCHANGED <<envVars, loaded, status, request, frame,
                   closing, out, load, owed, starts>>

\* runProtocol: "quit", or the input is at its end.
Leave ==
    /\ proc = "scan"
    /\ polls = 0
    /\ closing # "no"
    /\ proc' = "none"
    /\ UNCHANGED <<envVars, loaded, status, request, frame, execdVars, window>>

\* The provider returns; an error is replaced by FailClosed.
Returns(s) ==
    /\ status' = s
    /\ proc' = "write"
    /\ UNCHANGED <<envVars, loaded, frame, execdVars, window>>

AskFailed ==
    /\ proc = "ask"
    /\ StartupFails(LoadConfig(loaded))
    /\ Returns(FailClosed)
    /\ UNCHANGED request

AskStatic ==
    LET c == LoadConfig(loaded) IN
    /\ proc = "ask"
    /\ ~StartupFails(c)
    /\ c.provider = "static"
    /\ IF c.stateFile
       THEN proc' = "read" /\ UNCHANGED <<envVars, loaded, status, frame, execdVars, window>>
       ELSE Returns([ready |-> c.ready, slots |-> Absent])
    /\ UNCHANGED request

\* os.ReadFile of the state file, with no regard to the cycle's deadline.
ReadStateFile ==
    /\ proc = "read"
    /\ Returns(StaticStatus(state))
    /\ UNCHANGED request

\* The request to Warden, under the cycle's deadline.
AskWarden ==
    LET c == LoadConfig(loaded) IN
    /\ proc = "ask"
    /\ ~StartupFails(c)
    /\ c.provider = "warden"
    /\ proc' = "wait"
    /\ request' = Pending
    /\ UNCHANGED <<envVars, loaded, status, frame, execdVars, window>>

\* client.Do and the decoding of the answer.
ReceiveAnswer ==
    /\ proc = "wait"
    /\ request \in Answers
    /\ Returns(WardenStatus(request))
    /\ request' = Absent

\* Faulty variant: no deadline, a request fails only with what Warden has answered.
RequestFailsNoDeadline ==
    /\ proc = "wait"
    /\ request \in Answers
    /\ Returns(FailClosed)
    /\ request' = Absent

\* Faulty variant: the cycle is given up without a report.
RequestFailsSilently ==
    /\ proc = "wait"
    /\ proc' = "scan"
    /\ request' = Absent
    /\ window' = {}
    /\ UNCHANGED <<envVars, loaded, status, frame, execdVars>>

\* Faulty variant: the last report is repeated.
RequestFailsRepeats ==
    /\ proc = "wait"
    /\ Returns([ready |-> load # <<>> /\ load[1].value = 1, slots |-> Absent])
    /\ request' = Absent

\* The deadline has passed, the connection fails or the URL is not one: the
\* request is given up, and with it an answer under way.
RequestFails ==
    /\ proc = "wait"
    /\ Returns(FailClosed)
    /\ request' = Absent

\* writeReport, one action per write. A write to an execd that is gone fails
\* and ends the process.
WriteValue(name, value, next) ==
    IF closing = "hangup"
    THEN proc' = "none" /\ UNCHANGED frame
    ELSE /\ frame' = Append(frame, [scope |-> Fields.scope, name |-> name, value |-> value])
         /\ proc' = next

WriteReady ==
    /\ proc = "write"
    /\ WriteValue(Fields.resource, IF status.ready THEN 1 ELSE 0,
                  IF Fields.slots = "" THEN "end" ELSE "slots")
    /\ UNCHANGED <<envVars, loaded, status, request, execdVars, window>>

\* Faulty variant: the pointer is not checked.
SlotsValueUnchecked == status.slots


SlotsValue == IF status.slots = Absent \/ status.slots < 0 THEN 0 ELSE status.slots

WriteSlots ==
    /\ proc = "slots"
    /\ WriteValue(Fields.slots, SlotsValue, "end")
    /\ UNCHANGED <<envVars, loaded, status, request, execdVars, window>>

WriteEnd ==
    /\ proc = "end"
    /\ IF closing = "hangup"
       THEN proc' = "none" /\ UNCHANGED <<status, frame, out, window>>
       ELSE /\ Len(out) < MaxReports
            /\ out' = Append(out, frame)
            /\ frame' = <<>>
            /\ proc' = "scan"
            /\ status' = FailClosed
            /\ window' = {}
    /\ UNCHANGED <<envVars, loaded, request, polls, closing, load, owed, starts>>

Sensor == Run \/ Scan \/ Leave \/ AskFailed \/ AskStatic \/ AskWarden
          \/ ReceiveAnswer \/ RequestFails \/ WriteReady \/ WriteSlots \/ WriteEnd

----------------------------------------------------------------------------
(* Execd *)

\* A sensor with new pipes. The last frame read stays in force.
Start ==
    /\ proc = "none"
    /\ starts < MaxStarts
    /\ starts' = starts + 1
    /\ proc' = "start"
    /\ polls' = 0 /\ closing' = "no" /\ out' = <<>> /\ frame' = <<>> /\ owed' = 0
    /\ request' = Absent /\ status' = FailClosed /\ window' = {}
    /\ UNCHANGED <<envVars, loaded, load>>

\* Execd polls at its interval, whether or not the last poll was answered.
Poll ==
    /\ proc # "none"
    /\ closing = "no"
    /\ polls < MaxPolls
    /\ polls' = polls + 1
    /\ owed' = owed + 1
    /\ UNCHANGED <<envVars, loaded, proc, status, request, frame,
                   closing, out, load, starts, window>>

ReadReport ==
    /\ closing # "hangup"
    /\ out # <<>>
    /\ load' = Head(out)
    /\ out' = Tail(out)
    /\ owed' = owed - 1
    /\ UNCHANGED <<envVars, loaded, proc, status, request, frame,
                   polls, closing, starts, window>>

\* Execd ends the sensor: a quit line, its end of the input closed, or execd
\* itself gone. Another start is possible.
Stop ==
    /\ proc # "none"
    /\ closing = "no"
    /\ starts < MaxStarts
    /\ closing' \in {"quit", "eof", "hangup"}
    /\ UNCHANGED <<envVars, loaded, proc, status, request, frame,
                   polls, out, load, owed, starts, window>>

----------------------------------------------------------------------------
(* Surroundings *)

\* Warden answers the request it has: what it says is true at this moment.
WardenAnswers ==
    /\ request = Pending
    /\ request' = warden
    /\ UNCHANGED <<envVars, loaded, proc, status, frame, execdVars, window>>

InCycle == proc \notin {"none", "start", "scan"}

Changes(c, a, s) ==
    /\ file' = c /\ warden' = a /\ state' = s
    /\ window' = IF InCycle THEN window \cup Offer(loaded, a, s) ELSE window
    /\ UNCHANGED <<loaded, proc, status, request, frame, execdVars>>

\* An edit that no further sensor will read changes nothing, and is left out.
EditConfig ==
    /\ starts < MaxStarts
    /\ \E c \in Configs \ {file} : Changes(c, warden, state)

ChangeWarden    == \E a \in Answers \ {warden} : Changes(file, a, state)
ChangeStateFile == \E s \in StateFile \ {state} : Changes(file, warden, s)

Next == Sensor \/ ReadStateFile \/ Start \/ Poll \/ ReadReport \/ Stop
        \/ WardenAnswers \/ EditConfig \/ ChangeWarden \/ ChangeStateFile

Spec == Init /\ [][Next]_vars

\* The sensor runs on: each of its steps ends, those that wait for Warden by
\* the cycle's deadline. Only the read of the state file has no deadline.
\* Execd restarts a sensor, polls it and reads its reports. Warden owes nothing.
FairSpec ==
    /\ Spec
    /\ WF_vars(Sensor)
    /\ StuckFiles \/ WF_vars(ReadStateFile)
    /\ WF_vars(Start) /\ WF_vars(Poll) /\ WF_vars(ReadReport)

----------------------------------------------------------------------------
(* Properties *)

Procs == {"none", "start", "scan", "ask", "read", "wait", "write", "slots", "end"}

Names == {"", "bad", "global", "qpu_ready", "qpu_slots"}

Line == [scope : Names, name : Names, value : Nat]

\* Types of the sensor's state.
TypeOK ==
    /\ file \in Configs /\ warden \in Answers /\ state \in StateFile
    /\ loaded \in Config
    /\ proc \in Procs
    /\ status \in Status
    /\ request \in Answers \cup {Pending, Absent}
    /\ frame \in Seq(Line) /\ out \in Seq(Seq(Line)) /\ load \in Seq(Line)
    /\ polls \in 0 .. MaxPolls
    /\ closing \in {"no", "quit", "eof", "hangup"}
    /\ owed \in Nat /\ starts \in 0 .. MaxStarts
    /\ window \subseteq 0 .. MaxSlots

\* Every frame in the output, whatever is configured and whatever failed, is
\* complete: the readiness value under a name the protocol can carry, and the
\* slots value exactly if its name is configured and can be carried.
ReportsAreWhole ==
    \A i \in 1 .. Len(out) :
        /\ Len(out[i]) = IF Fields.slots = "" THEN 1 ELSE 2
        /\ \A k \in 1 .. Len(out[i]) :
               /\ out[i][k].scope = "global"
               /\ out[i][k].name = IF k = 1 THEN "qpu_ready" ELSE "qpu_slots"

\* While a sensor runs, every poll it was sent is waiting, being served or
\* answered by one frame: no failure of the configuration or the provider costs
\* a report, and none adds one, so a report is never taken for that of another
\* poll.
OneReportPerPoll ==
    proc # "none" =>
        owed = polls + Len(out) + IF InCycle THEN 1 ELSE 0

\* A frame as the scheduler understands it.
Summary(f) ==
    [ready |-> IF f = <<>> THEN 0 ELSE f[1].value,
     slots |-> IF Len(f) < 2 THEN Absent ELSE f[2].value]

View == INSTANCE ReadinessView
            WITH Slots <- 0 .. MaxSlots, NoValue <- Absent, truth <- OfferNow,
                 pending <- [i \in 1 .. Len(out) |-> Summary(out[i])],
                 view <- Summary(load)

\* The sensor implements ReadinessView: a report of readiness, and its slot
\* count, repeat an offer made during the cycle of the report. A late answer, an
\* answer with an error status, a broken body or an unusable configuration is
\* never reported as readiness, and neither is what an earlier cycle saw.
ReadinessIsBacked == View!Spec

\* Once nothing is on offer any more, the scheduler's value is not ready in the
\* end and stays so, even if Warden never answers again and execd stops and
\* starts the sensor.
LossReachesScheduler ==
    <>[](OfferNow = {}) => <>[](Summary(load).ready = 0)
===============================================================================

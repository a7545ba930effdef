--------------------------- MODULE LoadSensorProofs ---------------------------
(***************************************************************************)
(* The load sensor answers each poll with one whole report, and what it    *)
(* reports is backed: for every set of configurations and of answers, any  *)
(* slot counts, queues of any length and any number of starts.             *)
(***************************************************************************)
EXTENDS LoadSensor, SequenceTheorems, TLAPS

ReadyLine == [scope |-> Fields.scope, name |-> Fields.resource,
              value |-> IF status.ready THEN 1 ELSE 0]
SlotsLine == [scope |-> Fields.scope, name |-> Fields.slots, value |-> SlotsValue]

\* How far the report of the cycle has been written.
FrameInv ==
    /\ proc \in {"start", "scan", "ask", "read", "wait", "write"} => frame = <<>>
    /\ proc = "slots" => Fields.slots # "" /\ frame = <<ReadyLine>>
    /\ proc = "end" => frame = IF Fields.slots = "" THEN <<ReadyLine>>
                                                    ELSE <<ReadyLine, SlotsLine>>

\* Polls and reports: a sensor that has not read its configuration has written
\* nothing, and execd never reads more reports than it has asked for.
QueueInv ==
    /\ OneReportPerPoll
    /\ owed >= Len(out)
    /\ proc = "start" => out = <<>>

\* The slot count of a report with status st.
ValueOf(st) == IF st.slots = Absent \/ st.slots < 0 THEN 0 ELSE st.slots

\* A status repeats one of the counts in w, or reports nothing.
BackedBy(st, w) == IF st.ready THEN ValueOf(st) \in w ELSE ValueOf(st) = 0

\* Where the evidence for readiness is at each step of a cycle: in the window,
\* in an answer that was an offer when it was given, in the status.
EvidenceInv ==
    /\ InCycle => OfferNow \subseteq window
    /\ proc \in {"start", "scan"} => window = {}
    /\ proc # "wait" => request = Absent
    /\ proc = "wait" =>
          /\ ~StartupFails(LoadConfig(loaded)) /\ LoadConfig(loaded).provider = "warden"
          /\ request # Pending =>
                request \in Answers /\ Offer(loaded, request, state) \subseteq window
    /\ proc = "read" =>
          /\ ~StartupFails(LoadConfig(loaded)) /\ LoadConfig(loaded).provider = "static"
          /\ LoadConfig(loaded).stateFile
    /\ proc \in {"write", "slots", "end"} => BackedBy(status, window)

SensorInv == TypeOK /\ QueueInv /\ FrameInv /\ EvidenceInv /\ ReportsAreWhole

----------------------------------------------------------------------------
(* Configuration, providers, offers *)

\* Whatever is configured, the names that are written can be carried.
LEMMA FieldsKnown ==
    ASSUME NEW c \in Config
    PROVE  /\ protocolFields(LoadConfig(c)).scope = "global"
           /\ protocolFields(LoadConfig(c)).resource = "qpu_ready"
           /\ protocolFields(LoadConfig(c)).slots \in {"", "qpu_slots"}
BY DEF Config, protocolFields, LoadConfig, DefaultConfig, ApplyDefaults

\* A usable configuration is a whole one, and says which provider is meant.
LEMMA UsableConfig ==
    ASSUME NEW c \in Config, ~StartupFails(LoadConfig(c))
    PROVE  /\ c.file = "whole" /\ c.enabled
           /\ LoadConfig(c).provider \in {"static", "warden"}
           /\ LoadConfig(c).provider = "warden" => c.provider = "warden"
           /\ LoadConfig(c).provider = "static" => c.provider \in {"", "static"}
           /\ LoadConfig(c).ready = c.ready
           /\ LoadConfig(c).stateFile = c.stateFile
BY DEF Config, StartupFails, LoadConfig, DefaultConfig, ApplyDefaults

\* An offer is a set of slot counts.
LEMMA OfferType ==
    ASSUME NEW c \in Config, NEW a \in Answer, NEW s \in StateFile
    PROVE  Offer(c, a, s) \subseteq 0 .. MaxSlots
<1>1. MaxSlots \in Nat /\ Absent \notin Int
  BY SensorAssumption
<1>2. a.slots \in (-1 .. MaxSlots) \cup {Absent}
  BY DEF Answer
<1>3. Offer(c, a, s) \in {{}, {0}} \/ (a.slots # Absent /\ Offer(c, a, s) = {a.slots} \cap Nat)
  BY DEF Offer
<1> QED BY <1>1, <1>2, <1>3

\* What a provider returns is a status.
LEMMA StatusType ==
    /\ FailClosed \in Status
    /\ \A x : StaticStatus(x) \in Status
    /\ \A a \in Answer : WardenStatus(a) \in Status
<1>1. FailClosed \in Status
  BY DEF FailClosed, Status
<1>2. \A x : StaticStatus(x) \in Status
  BY DEF StaticStatus, Status
<1>3. ASSUME NEW a \in Answer PROVE WardenStatus(a) \in Status
  BY <1>1, SensorAssumption DEF WardenStatus, Status, Answer
<1> QED BY <1>1, <1>2, <1>3

\* Failing closed needs no evidence.
LEMMA FailClosedBacked == ASSUME NEW w PROVE BackedBy(FailClosed, w)
BY DEF BackedBy, ValueOf, FailClosed

\* An answer of Warden yields readiness only as the offer that it is.
LEMMA AnswerIsOffer ==
    ASSUME NEW c \in Config, NEW a \in Answer, NEW s \in StateFile,
           c.file = "whole", c.enabled, c.provider = "warden"
    PROVE  BackedBy(WardenStatus(a), Offer(c, a, s))
<1>1. MaxSlots \in Nat /\ Absent \notin Int
  BY SensorAssumption
<1>2. /\ a.slots \in (-1 .. MaxSlots) \cup {Absent}
      /\ a.json \in {"one", "broken", "more"}
      /\ a.accessible \in {"yes", "no", "absent"}
  BY DEF Answer
<1>3. CASE ~a.ok \/ a.json # "one" \/ a.accessible = "absent"
  <2>1. WardenStatus(a) = FailClosed
    BY <1>3 DEF WardenStatus
  <2> QED BY <2>1, FailClosedBacked
<1>4. CASE a.ok /\ a.json = "one" /\ a.accessible = "no"
  <2>1. WardenStatus(a) = [ready |-> FALSE, slots |-> 0]
    BY <1>4 DEF WardenStatus
  <2> QED BY <2>1, <1>1 DEF BackedBy, ValueOf
<1>5. CASE a.ok /\ a.json = "one" /\ a.accessible = "yes"
  <2>1. Offer(c, a, s) = IF a.slots = Absent THEN {0} ELSE {a.slots} \cap Nat
    BY <1>5 DEF Offer
  <2>2. CASE a.slots # Absent /\ a.slots < 0
    <3>1. WardenStatus(a) = FailClosed
      BY <1>5, <2>2 DEF WardenStatus
    <3> QED BY <3>1, FailClosedBacked
  <2>3. CASE ~(a.slots # Absent /\ a.slots < 0)
    <3>1. WardenStatus(a) = [ready |-> TRUE, slots |-> a.slots]
      BY <1>5, <2>3 DEF WardenStatus
    <3>2. ValueOf(WardenStatus(a)) \in Offer(c, a, s)
      BY <3>1, <2>1, <2>3, <1>1, <1>2 DEF ValueOf
    <3> QED BY <3>1, <3>2 DEF BackedBy
  <2> QED BY <2>2, <2>3
<1> QED BY <1>2, <1>3, <1>4, <1>5

\* So does the static provider, with its state file or without.
LEMMA StaticIsOffer ==
    ASSUME NEW c \in Config, NEW a \in Answer, NEW s \in StateFile,
           c.file = "whole", c.enabled, c.provider \in {"", "static"}
    PROVE  /\ c.stateFile => BackedBy(StaticStatus(s), Offer(c, a, s))
           /\ ~c.stateFile => BackedBy([ready |-> c.ready, slots |-> Absent], Offer(c, a, s))
<1>1. Offer(c, a, s) = IF (IF c.stateFile THEN s = "1" ELSE c.ready) THEN {0} ELSE {}
  BY DEF Offer
<1>2. c.stateFile => BackedBy(StaticStatus(s), Offer(c, a, s))
  BY <1>1 DEF BackedBy, ValueOf, StaticStatus
<1>3. ~c.stateFile => BackedBy([ready |-> c.ready, slots |-> Absent], Offer(c, a, s))
  BY <1>1 DEF BackedBy, ValueOf
<1> QED BY <1>2, <1>3

----------------------------------------------------------------------------
(* Types *)

\* Steps outside the sensor and execd.
EnvironmentStep == EditConfig \/ ChangeWarden \/ ChangeStateFile

\* Edits of the configuration, of the state file and changes of Warden have one form.
LEMMA EnvironmentChanges ==
    ASSUME TypeOK, EnvironmentStep
    PROVE  \E c \in Configs, a \in Answers, st \in StateFile : Changes(c, a, st)
BY DEF TypeOK, EnvironmentStep, EditConfig, ChangeWarden, ChangeStateFile

\* A line is a line.
LEMMA LinesTyped ==
    ASSUME TypeOK
    PROVE  /\ Fields.scope = "global" /\ Fields.resource = "qpu_ready"
           /\ Fields.slots \in {"", "qpu_slots"}
           /\ SlotsValue \in 0 .. MaxSlots
           /\ ReadyLine \in Line /\ SlotsLine \in Line
<1>1. /\ Fields.scope = "global" /\ Fields.resource = "qpu_ready"
      /\ Fields.slots \in {"", "qpu_slots"}
  BY FieldsKnown DEF TypeOK, Fields
<1>2. SlotsValue \in 0 .. MaxSlots
  BY SensorAssumption DEF SlotsValue, TypeOK, Status
<1>3. Fields.scope \in Names /\ Fields.resource \in Names /\ Fields.slots \in Names
  BY <1>1 DEF Names
<1>4. SlotsValue \in Nat
  BY <1>2, SensorAssumption
<1>5. (IF status.ready THEN 1 ELSE 0) \in Nat
  OBVIOUS
<1>6. ReadyLine \in Line
  BY <1>3, <1>5 DEF ReadyLine, Line
<1>7. SlotsLine \in Line
  BY <1>3, <1>4 DEF SlotsLine, Line
<1> QED BY <1>1, <1>2, <1>6, <1>7

\* The writes of a report append one line each, or end the sensor.
LEMMA WritesAppend ==
    ASSUME TypeOK
    PROVE  /\ WriteReady => \/ closing = "hangup" /\ proc' = "none" /\ frame' = frame
                            \/ /\ closing # "hangup" /\ frame' = Append(frame, ReadyLine)
                               /\ proc' = IF Fields.slots = "" THEN "end" ELSE "slots"
           /\ WriteSlots => \/ closing = "hangup" /\ proc' = "none" /\ frame' = frame
                            \/ closing # "hangup" /\ frame' = Append(frame, SlotsLine) /\ proc' = "end"
BY DEF WriteReady, WriteSlots, WriteValue, ReadyLine, SlotsLine

\* TypeOK is kept. An owed poll for every report read is what QueueInv is for.
LEMMA TypeStep ==
    ASSUME TypeOK, QueueInv, [Next]_vars
    PROVE  TypeOK'
<1> USE SensorAssumption
<1>1. CASE Run
  BY <1>1 DEF Run, TypeOK, envVars, execdVars, Procs
<1>2. CASE Scan
  <2>1. OfferNow \subseteq 0 .. MaxSlots
    BY OfferType DEF OfferNow, TypeOK
  <2> QED BY <1>2, <2>1 DEF Scan, TypeOK, envVars, Procs
<1>3. CASE Leave
  BY <1>3 DEF Leave, TypeOK, envVars, execdVars, Procs
<1>4. CASE AskFailed \/ RequestFails
  BY <1>4, StatusType DEF AskFailed, RequestFails, Returns, TypeOK, envVars, execdVars, Procs
<1>5. CASE AskStatic
  <2>1. LoadConfig(loaded).ready \in BOOLEAN
    BY DEF TypeOK, Config, LoadConfig, DefaultConfig, ApplyDefaults
  <2>2. [ready |-> LoadConfig(loaded).ready, slots |-> Absent] \in Status
    BY <2>1 DEF Status
  <2> QED BY <1>5, <2>2 DEF AskStatic, Returns, TypeOK, envVars, execdVars, Procs
<1>6. CASE ReadStateFile
  BY <1>6, StatusType DEF ReadStateFile, Returns, TypeOK, envVars, execdVars, Procs
<1>7. CASE AskWarden
  BY <1>7 DEF AskWarden, TypeOK, envVars, execdVars, Procs
<1>8. CASE ReceiveAnswer
  BY <1>8, StatusType DEF ReceiveAnswer, Returns, TypeOK, envVars, execdVars, Procs
<1>9. CASE WriteReady \/ WriteSlots
  <2>1. frame' \in Seq(Line) /\ proc' \in Procs
    <3>1. frame \in Seq(Line) /\ ReadyLine \in Line /\ SlotsLine \in Line
      BY LinesTyped DEF TypeOK
    <3>2. Append(frame, ReadyLine) \in Seq(Line) /\ Append(frame, SlotsLine) \in Seq(Line)
      BY <3>1, AppendProperties
    <3> QED BY <1>9, <3>1, <3>2, WritesAppend DEF Procs
  <2> QED BY <1>9, <2>1 DEF WriteReady, WriteSlots, TypeOK, envVars, execdVars
<1>10. CASE WriteEnd
  <2>1. Append(out, frame) \in Seq(Seq(Line)) /\ <<>> \in Seq(Line)
    BY AppendProperties, EmptySeq DEF TypeOK
  <2>2. CASE closing = "hangup"
    BY <1>10, <2>2 DEF WriteEnd, TypeOK, envVars, Procs
  <2>3. CASE closing # "hangup"
    <3>1. /\ out' = Append(out, frame) /\ frame' = <<>> /\ proc' = "scan"
          /\ status' = FailClosed /\ window' = {}
          /\ UNCHANGED <<file, warden, state, loaded, request, polls, closing, load, owed, starts>>
      BY <1>10, <2>3 DEF WriteEnd, envVars
    <3> QED BY <3>1, <2>1, StatusType DEF TypeOK, Procs
  <2> QED BY <2>2, <2>3
<1>11. CASE Start
  BY <1>11, StatusType, EmptySeq DEF Start, TypeOK, envVars, Procs
<1>12. CASE Poll
  BY <1>12 DEF Poll, TypeOK, envVars
<1>13. CASE ReadReport
  <2>1. owed - 1 \in Nat
    BY <1>13, LenProperties, EmptySeq DEF ReadReport, QueueInv, TypeOK
  <2> QED BY <1>13, <2>1, HeadTailProperties DEF ReadReport, TypeOK, envVars
<1>14. CASE Stop
  BY <1>14 DEF Stop, TypeOK, envVars
<1>15. CASE WardenAnswers
  BY <1>15 DEF WardenAnswers, TypeOK, envVars, execdVars
<1>16. CASE EnvironmentStep
  <2>1. PICK c \in Configs, a \in Answers, st \in StateFile : Changes(c, a, st)
    BY <1>16, EnvironmentChanges
  <2>2. Offer(loaded, a, st) \subseteq 0 .. MaxSlots
    BY OfferType DEF TypeOK
  <2> QED BY <2>1, <2>2 DEF Changes, TypeOK, execdVars
<1>17. CASE UNCHANGED vars
  BY <1>17 DEF vars, envVars, execdVars, TypeOK
<1> QED
  BY <1>1, <1>2, <1>3, <1>4, <1>5, <1>6, <1>7, <1>8, <1>9, <1>10, <1>11, <1>12,
     <1>13, <1>14, <1>15, <1>16, <1>17 DEF Next, Sensor, EnvironmentStep

----------------------------------------------------------------------------
(* Polls and frames *)

\* Every step keeps the balance of polls, reports and the cycle under way.
LEMMA QueueStep ==
    ASSUME TypeOK, QueueInv, [Next]_vars
    PROVE  QueueInv'
<1>0. Len(out) \in Nat /\ polls \in Nat /\ owed \in Nat
  BY SensorAssumption, LenProperties DEF TypeOK
<1>1. CASE Run \/ Leave \/ AskFailed \/ AskStatic \/ ReadStateFile \/ AskWarden \/ ReceiveAnswer
           \/ RequestFails \/ WriteReady \/ WriteSlots \/ WardenAnswers \/ Stop
  <2>1. UNCHANGED <<polls, out, owed>>
    BY <1>1
    DEF Run, Leave, AskFailed, AskStatic, ReadStateFile, AskWarden, ReceiveAnswer, RequestFails,
        WriteReady, WriteSlots, WardenAnswers, Stop, Returns, execdVars
  <2>2. /\ proc # "none" \/ proc' = proc
        /\ proc' = "start" => proc = "start"
        /\ proc' # "none" => (InCycle' <=> InCycle)
    BY <1>1, WritesAppend
    DEF Run, Leave, AskFailed, AskStatic, ReadStateFile, AskWarden, ReceiveAnswer, RequestFails,
        WriteReady, WriteSlots, WardenAnswers, Stop, Returns, InCycle
  <2> QED BY <2>1, <2>2, <1>0 DEF QueueInv, OneReportPerPoll
<1>2. CASE Scan
  BY <1>2, <1>0 DEF Scan, QueueInv, OneReportPerPoll, InCycle
<1>3. CASE WriteEnd
  <2>1. CASE closing = "hangup"
    BY <1>3, <2>1, <1>0 DEF WriteEnd, QueueInv, OneReportPerPoll
  <2>2. CASE closing # "hangup"
    <3>1. Len(Append(out, frame)) = Len(out) + 1
      BY AppendProperties DEF TypeOK
    <3> QED BY <1>3, <2>2, <3>1, <1>0 DEF WriteEnd, QueueInv, OneReportPerPoll, InCycle
  <2> QED BY <2>1, <2>2
<1>4. CASE Start
  BY <1>4, EmptySeq DEF Start, QueueInv, OneReportPerPoll, InCycle
<1>5. CASE Poll
  BY <1>5, <1>0 DEF Poll, QueueInv, OneReportPerPoll, InCycle
<1>6. CASE ReadReport
  <2>1. Len(out') = Len(out) - 1
    BY <1>6, HeadTailProperties DEF ReadReport, TypeOK
  <2>2. proc # "start"
    BY <1>6 DEF ReadReport, QueueInv
  <2> QED BY <1>6, <2>1, <2>2, <1>0 DEF ReadReport, QueueInv, OneReportPerPoll, InCycle
<1>7. CASE EnvironmentStep
  <2>1. UNCHANGED <<polls, out, owed, proc>>
    BY <1>7, EnvironmentChanges DEF Changes, execdVars
  <2> QED BY <2>1 DEF QueueInv, OneReportPerPoll, InCycle
<1>8. CASE UNCHANGED vars
  BY <1>8 DEF vars, execdVars, QueueInv, OneReportPerPoll, InCycle
<1> QED
  BY <1>1, <1>2, <1>3, <1>4, <1>5, <1>6, <1>7, <1>8 DEF Next, Sensor, EnvironmentStep

\* A second line after the first.
LEMMA AppendTwo ==
    ASSUME NEW x, NEW y
    PROVE  Append(<<x>>, y) = <<x, y>>
<1> DEFINE S == {x, y}
<1>1. <<x>> \in Seq(S) /\ <<x, y>> \in Seq(S) /\ y \in S
  OBVIOUS
<1>2. Len(<<x>>) = 1 /\ Len(<<x, y>>) = 2
  OBVIOUS
<1>3. /\ Append(<<x>>, y) \in Seq(S)
      /\ Len(Append(<<x>>, y)) = 2
      /\ Append(<<x>>, y)[1] = x
      /\ Append(<<x>>, y)[2] = y
  BY <1>1, <1>2, AppendProperties
<1>4. Len(Append(<<x>>, y)) = Len(<<x, y>>)
  BY <1>2, <1>3
<1>5. \A i \in 1 .. Len(Append(<<x>>, y)) : Append(<<x>>, y)[i] = <<x, y>>[i]
  <2>1. \A i \in 1 .. 2 : i = 1 \/ i = 2
    OBVIOUS
  <2>2. <<x, y>>[1] = x /\ <<x, y>>[2] = y
    OBVIOUS
  <2> QED BY <1>3, <2>1, <2>2
<1> HIDE DEF S
<1> QED BY <1>1, <1>3, <1>4, <1>5, SeqEqual

\* A cycle under way keeps to one configuration and, once the provider has
\* returned, to one status.
LEMMA LinesKept ==
    ASSUME UNCHANGED <<loaded, status>>
    PROVE  UNCHANGED <<Fields, ReadyLine, SlotsLine>>
BY DEF Fields, ReadyLine, SlotsLine, SlotsValue

\* Every step keeps track of the lines written.
LEMMA FrameStep ==
    ASSUME TypeOK, FrameInv, [Next]_vars
    PROVE  FrameInv'
<1>1. CASE Run \/ Scan \/ AskFailed \/ AskStatic \/ ReadStateFile \/ AskWarden \/ ReceiveAnswer
           \/ RequestFails
  <2>1. /\ frame' = frame /\ proc \in {"start", "scan", "ask", "read", "wait"}
        /\ proc' \notin {"slots", "end"}
    BY <1>1
    DEF Run, Scan, AskFailed, AskStatic, ReadStateFile, AskWarden, ReceiveAnswer, RequestFails, Returns
  <2> QED BY <2>1 DEF FrameInv
<1>2. CASE Leave
  BY <1>2 DEF Leave, FrameInv
<1>3. CASE WriteReady
  <2>1. frame = <<>> /\ UNCHANGED <<Fields, ReadyLine, SlotsLine>>
    BY <1>3, LinesKept DEF WriteReady, FrameInv
  <2>2. Append(<<>>, ReadyLine) = <<ReadyLine>>
    OBVIOUS
  <2> QED BY <1>3, <2>1, <2>2, WritesAppend, LinesTyped DEF FrameInv
<1>4. CASE WriteSlots
  <2>1. frame = <<ReadyLine>> /\ Fields.slots # "" /\ UNCHANGED <<Fields, ReadyLine, SlotsLine>>
    BY <1>4, LinesKept DEF WriteSlots, FrameInv
  <2>2. Append(<<ReadyLine>>, SlotsLine) = <<ReadyLine, SlotsLine>>
    BY AppendTwo
  <2> QED BY <1>4, <2>1, <2>2, WritesAppend DEF FrameInv
<1>5. CASE WriteEnd
  BY <1>5 DEF WriteEnd, FrameInv
<1>6. CASE Start
  BY <1>6 DEF Start, FrameInv
<1>7. CASE Poll \/ ReadReport \/ Stop \/ WardenAnswers \/ EnvironmentStep \/ UNCHANGED vars
  <2>1. UNCHANGED <<frame, proc, loaded, status>>
    BY <1>7, EnvironmentChanges DEF Poll, ReadReport, Stop, WardenAnswers, Changes, vars
  <2> QED BY <2>1, LinesKept DEF FrameInv
<1> QED
  BY <1>1, <1>2, <1>3, <1>4, <1>5, <1>6, <1>7 DEF Next, Sensor, EnvironmentStep

----------------------------------------------------------------------------
(* Evidence *)

\* More evidence backs what less does.
LEMMA BackedGrows ==
    ASSUME NEW st, NEW v, NEW w, v \subseteq w, BackedBy(st, v)
    PROVE  BackedBy(st, w)
BY DEF BackedBy

\* What the provider returns is backed by the window.
LEMMA ReturnsBacked ==
    ASSUME TypeOK, EvidenceInv
    PROVE  /\ AskFailed \/ RequestFails => BackedBy(status', window)
           /\ AskStatic /\ proc' = "write" => BackedBy(status', window)
           /\ ReadStateFile => BackedBy(status', window)
           /\ ReceiveAnswer => BackedBy(status', window)
<1>0. loaded \in Config /\ warden \in Answer /\ state \in StateFile /\ Answers \subseteq Answer
  BY SensorAssumption DEF TypeOK
<1>1. AskFailed \/ RequestFails => BackedBy(status', window)
  BY FailClosedBacked DEF AskFailed, RequestFails, Returns
<1>2. ASSUME AskStatic, proc' = "write" PROVE BackedBy(status', window)
  <2>1. ~StartupFails(LoadConfig(loaded)) /\ LoadConfig(loaded).provider = "static" /\ proc = "ask"
    BY <1>2 DEF AskStatic
  <2>2. /\ loaded.file = "whole" /\ loaded.enabled /\ loaded.provider \in {"", "static"}
        /\ LoadConfig(loaded).ready = loaded.ready
        /\ LoadConfig(loaded).stateFile = loaded.stateFile
    BY <1>0, <2>1, UsableConfig
  <2>3. ~loaded.stateFile /\ status' = [ready |-> loaded.ready, slots |-> Absent]
    BY <1>2, <2>2 DEF AskStatic, Returns
  <2>4. BackedBy(status', OfferNow)
    BY <1>0, <2>2, <2>3, StaticIsOffer DEF OfferNow
  <2>5. OfferNow \subseteq window
    BY <2>1 DEF EvidenceInv, InCycle
  <2> QED BY <2>4, <2>5, BackedGrows
<1>3. ASSUME ReadStateFile PROVE BackedBy(status', window)
  <2>1. /\ ~StartupFails(LoadConfig(loaded)) /\ LoadConfig(loaded).provider = "static"
        /\ LoadConfig(loaded).stateFile /\ OfferNow \subseteq window
    BY <1>3 DEF ReadStateFile, EvidenceInv, InCycle
  <2>2. /\ loaded.file = "whole" /\ loaded.enabled /\ loaded.provider \in {"", "static"}
        /\ loaded.stateFile
    BY <1>0, <2>1, UsableConfig
  <2>3. status' = StaticStatus(state)
    BY <1>3 DEF ReadStateFile, Returns
  <2>4. BackedBy(status', OfferNow)
    BY <1>0, <2>2, <2>3, StaticIsOffer DEF OfferNow
  <2> QED BY <2>1, <2>4, BackedGrows
<1>4. ASSUME ReceiveAnswer PROVE BackedBy(status', window)
  <2>1. /\ ~StartupFails(LoadConfig(loaded)) /\ LoadConfig(loaded).provider = "warden"
        /\ request \in Answers /\ request # Pending
        /\ status' = WardenStatus(request)
    BY <1>4, <1>0, SensorAssumption DEF ReceiveAnswer, Returns, EvidenceInv
  <2>2. loaded.file = "whole" /\ loaded.enabled /\ loaded.provider = "warden"
    BY <1>0, <2>1, UsableConfig
  <2>3. Offer(loaded, request, state) \subseteq window
    BY <1>4, <2>1 DEF ReceiveAnswer, EvidenceInv
  <2>4. BackedBy(status', Offer(loaded, request, state))
    BY <1>0, <2>1, <2>2, AnswerIsOffer
  <2> QED BY <2>3, <2>4, BackedGrows
<1> QED BY <1>1, <1>2, <1>3, <1>4

\* What Warden would answer later, and what the state file says then, do not
\* change what an answer once given is worth.
LEMMA OfferOfAnswer ==
    ASSUME NEW c \in Config, ~StartupFails(LoadConfig(c)),
           LoadConfig(c).provider = "warden", NEW a, NEW s, NEW t
    PROVE  Offer(c, a, s) = Offer(c, a, t)
<1>1. c.provider = "warden"
  BY UsableConfig
<1> QED BY <1>1 DEF Offer

\* Every step keeps the evidence for what will be reported.
LEMMA EvidenceStep ==
    ASSUME TypeOK, QueueInv, EvidenceInv, [Next]_vars
    PROVE  EvidenceInv'
<1>0. Pending \notin Answers /\ Pending # Absent /\ loaded \in Config
  BY SensorAssumption DEF TypeOK
<1>1. CASE Run
  BY <1>1 DEF Run, EvidenceInv, InCycle
<1>2. CASE Scan
  BY <1>2 DEF Scan, EvidenceInv, InCycle, OfferNow, envVars
<1>3. CASE Leave
  BY <1>3 DEF Leave, EvidenceInv, InCycle
<1>4. CASE AskFailed \/ AskStatic \/ ReadStateFile \/ ReceiveAnswer \/ RequestFails
  <2>1. /\ UNCHANGED <<loaded, warden, state, window>> /\ InCycle
        /\ request' = Absent /\ proc' \in {"read", "write"}
    BY <1>4
    DEF AskFailed, AskStatic, ReadStateFile, ReceiveAnswer, RequestFails, Returns, envVars,
        InCycle, EvidenceInv
  <2>2. proc' = "write" => BackedBy(status', window)
    BY <1>4, ReturnsBacked
  <2>3. proc' = "read" => /\ ~StartupFails(LoadConfig(loaded))
                          /\ LoadConfig(loaded).provider = "static"
                          /\ LoadConfig(loaded).stateFile
    BY <1>4 DEF AskFailed, AskStatic, ReadStateFile, ReceiveAnswer, RequestFails, Returns
  <2> QED BY <2>1, <2>2, <2>3 DEF EvidenceInv, InCycle, OfferNow
<1>5. CASE AskWarden
  BY <1>5 DEF AskWarden, EvidenceInv, InCycle, OfferNow, envVars
<1>6. CASE WriteReady \/ WriteSlots
  <2>1. /\ UNCHANGED <<loaded, warden, state, window, request, status>>
        /\ proc \in {"write", "slots"} /\ proc' \in {"slots", "end", "none"}
    BY <1>6, WritesAppend DEF WriteReady, WriteSlots, envVars
  <2> QED BY <2>1 DEF EvidenceInv, InCycle, OfferNow
<1>7. CASE WriteEnd
  BY <1>7 DEF WriteEnd, EvidenceInv, InCycle
<1>8. CASE Start
  BY <1>8 DEF Start, EvidenceInv, InCycle
<1>9. CASE Poll \/ ReadReport \/ Stop \/ UNCHANGED vars
  <2>1. UNCHANGED <<loaded, warden, state, window, request, status, proc>>
    BY <1>9 DEF Poll, ReadReport, Stop, vars, envVars
  <2> QED BY <2>1 DEF EvidenceInv, InCycle, OfferNow
<1>10. CASE WardenAnswers
  <2>1. /\ proc = "wait" /\ request' = warden /\ warden \in Answers
        /\ UNCHANGED <<loaded, warden, state, window, status, proc>>
    BY <1>10, <1>0 DEF WardenAnswers, EvidenceInv, envVars, TypeOK
  <2> QED BY <2>1 DEF EvidenceInv, InCycle, OfferNow
<1>11. CASE EnvironmentStep
  <2>1. PICK c \in Configs, a \in Answers, s \in StateFile : Changes(c, a, s)
    BY <1>11, EnvironmentChanges
  <2>2. /\ window' = (IF InCycle THEN window \cup Offer(loaded, a, s) ELSE window)
        /\ OfferNow' = Offer(loaded, a, s) /\ state' = s
        /\ UNCHANGED <<loaded, proc, status, request>>
    BY <2>1 DEF Changes, OfferNow
  <2>3. /\ InCycle' => OfferNow' \subseteq window'
        /\ proc' \in {"start", "scan"} => window' = {}
        /\ window \subseteq window'
    BY <2>2 DEF EvidenceInv, InCycle
  <2>4. ASSUME proc = "wait", request # Pending
        PROVE  request \in Answers /\ Offer(loaded, request, s) \subseteq window'
    <3>1. Offer(loaded, request, s) = Offer(loaded, request, state)
      BY <1>0, <2>4, OfferOfAnswer DEF EvidenceInv
    <3> QED BY <2>3, <2>4, <3>1 DEF EvidenceInv
  <2>5. proc \in {"write", "slots", "end"} => BackedBy(status, window')
    BY <2>3, BackedGrows DEF EvidenceInv
  <2> QED BY <2>2, <2>3, <2>4, <2>5 DEF EvidenceInv
<1> QED
  BY <1>1, <1>2, <1>3, <1>4, <1>5, <1>6, <1>7, <1>8, <1>9, <1>10, <1>11
  DEF Next, Sensor, EnvironmentStep

----------------------------------------------------------------------------
(* Reports *)

\* A frame with the lines that the configuration asks for.
WholeFrame(f) ==
    /\ Len(f) = IF Fields.slots = "" THEN 1 ELSE 2
    /\ \A k \in 1 .. Len(f) :
          /\ f[k].scope = "global"
          /\ f[k].name = IF k = 1 THEN "qpu_ready" ELSE "qpu_slots"

\* The frame that WriteEnd completes is whole.
LEMMA FrameWhole ==
    ASSUME TypeOK, FrameInv, proc = "end"
    PROVE  WholeFrame(frame)
<1>1. /\ ReadyLine.scope = "global" /\ ReadyLine.name = "qpu_ready"
      /\ SlotsLine.scope = "global" /\ SlotsLine.name = Fields.slots
      /\ Fields.slots \in {"", "qpu_slots"}
  BY LinesTyped DEF ReadyLine, SlotsLine
<1>2. CASE Fields.slots = ""
  <2>1. frame = <<ReadyLine>>
    BY <1>2 DEF FrameInv
  <2>2. Len(frame) = 1 /\ frame[1] = ReadyLine /\ \A k \in 1 .. 1 : k = 1
    BY <2>1
  <2> QED BY <1>1, <1>2, <2>2 DEF WholeFrame
<1>3. CASE Fields.slots = "qpu_slots"
  <2>1. frame = <<ReadyLine, SlotsLine>>
    BY <1>3 DEF FrameInv
  <2>2. /\ Len(frame) = 2 /\ frame[1] = ReadyLine /\ frame[2] = SlotsLine
        /\ \A k \in 1 .. 2 : k = 1 \/ k = 2
    BY <2>1
  <2> QED BY <1>1, <1>3, <2>2 DEF WholeFrame
<1> QED BY <1>1, <1>2, <1>3

\* Reports stay whole: only a sensor without reports reads a configuration.
LEMMA WholeStep ==
    ASSUME TypeOK, QueueInv, FrameInv, ReportsAreWhole, [Next]_vars
    PROVE  ReportsAreWhole'
<1>0. ReportsAreWhole <=> \A i \in 1 .. Len(out) : WholeFrame(out[i])
  BY DEF ReportsAreWhole, WholeFrame
<1>1. CASE Run
  <2>1. out' = <<>> /\ Len(out') = 0
    BY <1>1 DEF Run, QueueInv, execdVars
  <2>2. ~\E i \in 1 .. Len(out') : TRUE
    BY <2>1
  <2> QED BY <2>2 DEF ReportsAreWhole
<1>2. CASE Start
  <2>1. out' = <<>> /\ Len(out') = 0
    BY <1>2 DEF Start
  <2>2. ~\E i \in 1 .. Len(out') : TRUE
    BY <2>1
  <2> QED BY <2>2 DEF ReportsAreWhole
<1>3. CASE WriteEnd /\ closing # "hangup"
  <2>1. out' = Append(out, frame) /\ loaded' = loaded /\ proc = "end"
    BY <1>3 DEF WriteEnd
  <2>2. Fields' = Fields
    BY <2>1 DEF Fields
  <2>3. /\ Len(out') = Len(out) + 1 /\ out'[Len(out) + 1] = frame
        /\ \A i \in 1 .. Len(out) : out'[i] = out[i]
        /\ Len(out) \in Nat
    BY <2>1, AppendProperties, LenProperties DEF TypeOK
  <2>4. \A i \in 1 .. Len(out') : i \in 1 .. Len(out) \/ i = Len(out) + 1
    BY <2>3
  <2>5. \A i \in 1 .. Len(out') : WholeFrame(out'[i])
    BY <1>0, <2>1, <2>3, <2>4, FrameWhole
  <2> QED BY <2>2, <2>5 DEF ReportsAreWhole, WholeFrame
<1>4. CASE ReadReport
  <2>1. out # <<>> /\ out' = Tail(out) /\ loaded' = loaded
    BY <1>4 DEF ReadReport
  <2>2. Fields' = Fields
    BY <2>1 DEF Fields
  <2>3. /\ Len(out') = Len(out) - 1 /\ Len(out) \in Nat
        /\ \A i \in 1 .. Len(out') : out'[i] = out[i + 1]
    BY <2>1, HeadTailProperties, LenProperties DEF TypeOK
  <2>4. \A i \in 1 .. Len(out') : i + 1 \in 1 .. Len(out)
    BY <2>3
  <2>5. \A i \in 1 .. Len(out') : WholeFrame(out'[i])
    BY <1>0, <2>3, <2>4
  <2> QED BY <2>2, <2>5 DEF ReportsAreWhole, WholeFrame
<1>5. ASSUME UNCHANGED <<out, loaded>> PROVE ReportsAreWhole'
  <2>1. Fields' = Fields
    BY <1>5 DEF Fields
  <2> QED BY <1>5, <2>1 DEF ReportsAreWhole
<1>6. CASE Scan \/ Leave \/ AskFailed \/ AskStatic \/ ReadStateFile \/ AskWarden \/ ReceiveAnswer
           \/ RequestFails \/ WriteReady \/ WriteSlots
  BY <1>5, <1>6
  DEF Scan, Leave, AskFailed, AskStatic, ReadStateFile, AskWarden, ReceiveAnswer, RequestFails,
      WriteReady, WriteSlots, Returns, execdVars
<1>7. CASE (WriteEnd /\ closing = "hangup") \/ Poll \/ Stop \/ WardenAnswers \/ UNCHANGED vars
  BY <1>5, <1>7 DEF WriteEnd, Poll, Stop, WardenAnswers, vars, execdVars
<1>8. CASE EnvironmentStep
  BY <1>5, <1>8, EnvironmentChanges DEF Changes, execdVars
<1> QED
  BY <1>1, <1>2, <1>3, <1>4, <1>6, <1>7, <1>8 DEF Next, Sensor, EnvironmentStep

----------------------------------------------------------------------------
(* Invariance *)

\* The invariant holds before the first sensor is started.
LEMMA InitSensorInv == Init => SensorInv
<1> SUFFICES ASSUME Init PROVE SensorInv
  OBVIOUS
<1>1. DefaultConfig \in Config
  BY DEF DefaultConfig, ApplyDefaults, Config
<1>2. TypeOK
  BY <1>1, SensorAssumption, StatusType, EmptySeq DEF Init, TypeOK, Procs
<1>3. QueueInv
  BY DEF Init, QueueInv, OneReportPerPoll, InCycle
<1>4. FrameInv
  BY DEF Init, FrameInv
<1>5. EvidenceInv
  BY DEF Init, EvidenceInv, InCycle
<1>6. ReportsAreWhole
  <2>1. Len(out) = 0
    BY DEF Init
  <2>2. ~\E i \in 1 .. Len(out) : TRUE
    BY <2>1
  <2> QED BY <2>2 DEF ReportsAreWhole
<1> QED BY <1>2, <1>3, <1>4, <1>5, <1>6 DEF SensorInv

\* Every step keeps the invariant.
LEMMA StepSensorInv == SensorInv /\ [Next]_vars => SensorInv'
BY TypeStep, QueueStep, FrameStep, EvidenceStep, WholeStep DEF SensorInv

\* The strengthening holds in every state of the sensor.
LEMMA SensorInvariant == Spec => []SensorInv
BY InitSensorInv, StepSensorInv, PTL DEF Spec

\* Types of the sensor's state.
THEOREM SensorTypeCorrect == Spec => []TypeOK
<1>1. SensorInv => TypeOK
  BY DEF SensorInv
<1> QED BY SensorInvariant, <1>1, PTL

\* Every poll of runProtocol is answered by one frame.
THEOREM PollsAnswered == Spec => []OneReportPerPoll
<1>1. SensorInv => OneReportPerPoll
  BY DEF SensorInv, QueueInv
<1> QED BY SensorInvariant, <1>1, PTL

\* Every frame of writeReport is complete and its names can be carried.
THEOREM FramesWhole == Spec => []ReportsAreWhole
<1>1. SensorInv => ReportsAreWhole
  BY DEF SensorInv
<1> QED BY SensorInvariant, <1>1, PTL

----------------------------------------------------------------------------
(* The refinement *)

Reports == [i \in 1 .. Len(out) |-> Summary(out[i])]

\* What WriteEnd publishes is a report, backed by the window.
LEMMA FrameBacked ==
    ASSUME TypeOK, FrameInv, EvidenceInv, proc = "end"
    PROVE  Summary(frame) \in View!Report /\ View!Backed(Summary(frame))
<1>0. /\ SlotsValue \in 0 .. MaxSlots /\ status.ready \in BOOLEAN
      /\ MaxSlots \in Nat /\ Absent \notin Int
  BY LinesTyped, SensorAssumption DEF TypeOK, Status
<1>1. IF status.ready THEN SlotsValue \in window ELSE SlotsValue = 0
  BY DEF EvidenceInv, BackedBy, ValueOf, SlotsValue
<1>2. \/ frame = <<ReadyLine>>
      \/ frame = <<ReadyLine, SlotsLine>>
  BY DEF FrameInv
<1>3. /\ ReadyLine.value = IF status.ready THEN 1 ELSE 0
      /\ SlotsLine.value = SlotsValue
  BY DEF ReadyLine, SlotsLine
<1>4. \/ Summary(frame) = [ready |-> ReadyLine.value, slots |-> Absent]
      \/ Summary(frame) = [ready |-> ReadyLine.value, slots |-> SlotsLine.value]
  <2>1. CASE frame = <<ReadyLine>>
    <3>1. frame # <<>> /\ Len(frame) = 1 /\ frame[1] = ReadyLine
      BY <2>1
    <3> QED BY <3>1 DEF Summary
  <2>2. CASE frame = <<ReadyLine, SlotsLine>>
    <3>1. frame # <<>> /\ Len(frame) = 2 /\ frame[1] = ReadyLine /\ frame[2] = SlotsLine
      BY <2>2
    <3> QED BY <3>1 DEF Summary
  <2> QED BY <1>2, <2>1, <2>2
<1>5. Summary(frame) \in View!Report
  BY <1>0, <1>3, <1>4 DEF View!Report
<1>6. View!Backed(Summary(frame))
  BY <1>0, <1>1, <1>3, <1>4 DEF View!Backed
<1> QED BY <1>5, <1>6

\* Every frame in the output has a summary, which is all that is needed to
\* treat the reports as a sequence.
LEMMA ReportsSeq ==
    ASSUME TypeOK
    PROVE  Reports \in Seq({Summary(f) : f \in Seq(Line)}) /\ Len(Reports) = Len(out)
<1>1. out \in Seq(Seq(Line)) /\ Len(out) \in Nat
  BY LenProperties DEF TypeOK
<1>2. \A i \in 1 .. Len(out) : out[i] \in Seq(Line)
  BY <1>1, LenProperties
<1> QED BY <1>1, <1>2 DEF Reports

\* The same after a step.
LEMMA NextReports ==
    ASSUME TypeOK'
    PROVE  /\ Reports' \in Seq({Summary(f) : f \in Seq(Line)}) /\ Len(Reports') = Len(out')
           /\ \A i \in 1 .. Len(out') : Reports'[i] = Summary(out'[i])
<1>1. Reports' = [i \in 1 .. Len(out') |-> Summary(out'[i])]
  BY DEF Reports, Summary
<1>2. \A i \in 1 .. Len(out') : out'[i] \in Seq(Line)
  BY LenProperties DEF TypeOK
<1>3. Len(out') \in Nat
  BY LenProperties DEF TypeOK
<1> QED BY <1>1, <1>2, <1>3

\* The sensor adds a report.
LEMMA ReportsAppend ==
    ASSUME TypeOK, TypeOK', out' = Append(out, frame)
    PROVE  Reports' = Append(Reports, Summary(frame))
<1> DEFINE S == {Summary(f) : f \in Seq(Line)}
<1>1. /\ Reports \in Seq(S) /\ Len(Reports) = Len(out) /\ Len(out) \in Nat
      /\ \A i \in 1 .. Len(out) : Reports[i] = Summary(out[i])
  BY ReportsSeq, LenProperties DEF Reports, TypeOK
<1>2. /\ Reports' \in Seq(S) /\ Len(Reports') = Len(out')
      /\ \A i \in 1 .. Len(out') : Reports'[i] = Summary(out'[i])
  BY NextReports
<1>3. Summary(frame) \in S
  BY DEF TypeOK
<1>4. /\ Len(out') = Len(out) + 1 /\ out'[Len(out) + 1] = frame
      /\ \A i \in 1 .. Len(out) : out'[i] = out[i]
  BY AppendProperties DEF TypeOK
<1> HIDE DEF S
<1>5. /\ Append(Reports, Summary(frame)) \in Seq(S)
      /\ Len(Append(Reports, Summary(frame))) = Len(out) + 1
      /\ \A i \in 1 .. Len(out) : Append(Reports, Summary(frame))[i] = Reports[i]
      /\ Append(Reports, Summary(frame))[Len(out) + 1] = Summary(frame)
  BY <1>1, <1>3, AppendProperties
<1>6. \A i \in 1 .. Len(Reports') : i \in 1 .. Len(out) \/ i = Len(out) + 1
  BY <1>1, <1>2, <1>4
<1>7. \A i \in 1 .. Len(Reports') : Reports'[i] = Append(Reports, Summary(frame))[i]
  BY <1>1, <1>2, <1>4, <1>5, <1>6
<1> QED BY <1>2, <1>4, <1>5, <1>7, SeqEqual

\* Execd reads the oldest report.
LEMMA ReportsTail ==
    ASSUME TypeOK, TypeOK', out # <<>>, out' = Tail(out)
    PROVE  Reports # <<>> /\ Reports' = Tail(Reports) /\ Head(Reports) = Summary(Head(out))
<1> DEFINE S == {Summary(f) : f \in Seq(Line)}
<1>1. /\ Reports \in Seq(S) /\ Len(Reports) = Len(out) /\ Len(out) \in Nat \ {0}
      /\ \A i \in 1 .. Len(out) : Reports[i] = Summary(out[i])
  BY ReportsSeq, EmptySeq DEF Reports, TypeOK
<1>2. /\ Reports' \in Seq(S) /\ Len(Reports') = Len(out')
      /\ \A i \in 1 .. Len(out') : Reports'[i] = Summary(out'[i])
  BY NextReports
<1>3. /\ Len(out') = Len(out) - 1
      /\ \A i \in 1 .. Len(out') : out'[i] = out[i + 1]
  BY HeadTailProperties DEF TypeOK
<1> HIDE DEF S
<1>4. Reports # <<>>
  BY <1>1
<1>5. /\ Tail(Reports) \in Seq(S) /\ Len(Tail(Reports)) = Len(out) - 1
      /\ \A i \in 1 .. Len(Tail(Reports)) : Tail(Reports)[i] = Reports[i + 1]
  BY <1>1, <1>4, HeadTailProperties
<1>6. \A i \in 1 .. Len(Reports') : i + 1 \in 1 .. Len(out)
  BY <1>1, <1>2, <1>3
<1>7. \A i \in 1 .. Len(Reports') : Reports'[i] = Tail(Reports)[i]
  BY <1>1, <1>2, <1>3, <1>5, <1>6
<1>8. Reports' = Tail(Reports)
  BY <1>2, <1>3, <1>5, <1>7, SeqEqual
<1>9. Head(Reports) = Reports[1] /\ Head(out) = out[1] /\ 1 \in 1 .. Len(out)
  BY <1>1, <1>4 DEF TypeOK
<1> QED BY <1>1, <1>4, <1>8, <1>9

\* No frames, no reports.
LEMMA ReportsEmpty ==
    ASSUME out = <<>>
    PROVE  Reports = <<>>
BY DEF Reports

\* Before the first start nothing is offered, pending or reported.
LEMMA ViewInit == Init => View!Init
<1> SUFFICES ASSUME Init PROVE View!Init
  OBVIOUS
<1>1. OfferNow = {}
  BY DEF Init, OfferNow, Offer, DefaultConfig, ApplyDefaults
<1>2. Reports = <<>>
  BY ReportsEmpty DEF Init
<1>3. Summary(load) = [ready |-> 0, slots |-> Absent]
  BY DEF Init, Summary
<1> QED BY <1>1, <1>2, <1>3 DEF View!Init, Reports, Init

\* A step that leaves the configuration read, the surroundings, the window and
\* the reports alone is a stutter of the view.
LEMMA ViewStutters ==
    ASSUME UNCHANGED <<loaded, warden, state, window, out, load>>
    PROVE  UNCHANGED View!viewVars
<1>1. OfferNow' = OfferNow
  BY DEF OfferNow
<1>2. Reports' = Reports
  BY DEF Reports, Summary
<1>3. Summary(load)' = Summary(load)
  BY DEF Summary
<1> QED BY <1>1, <1>2, <1>3 DEF View!viewVars, Reports

\* Every step of the sensor, of execd or of the surroundings is a step of the view or a stutter.
LEMMA ViewStep ==
    ASSUME SensorInv, SensorInv', [Next]_vars
    PROVE  [View!Next]_View!viewVars
<1> USE DEF SensorInv
<1>0. OfferNow \subseteq 0 .. MaxSlots /\ OfferNow' \subseteq 0 .. MaxSlots
  <2>1. Answers \subseteq Answer
    BY SensorAssumption
  <2>2. OfferNow \subseteq 0 .. MaxSlots
    BY <2>1, OfferType DEF OfferNow, TypeOK
  <2>3. OfferNow' = Offer(loaded', warden', state')
    BY DEF OfferNow, Offer
  <2>4. OfferNow' \subseteq 0 .. MaxSlots
    BY <2>1, <2>3, OfferType DEF TypeOK
  <2> QED BY <2>2, <2>4
<1>1. CASE Run
  <2>1. UNCHANGED <<out, load, window>>
    BY <1>1 DEF Run, execdVars
  <2>2. Reports' = Reports /\ Summary(load)' = Summary(load)
    BY <2>1 DEF Reports, Summary
  <2>3. View!Change
    BY <1>0, <2>1, <2>2 DEF View!Change, Reports
  <2> QED BY <2>3 DEF View!Next
<1>2. CASE Scan
  <2>1. UNCHANGED <<out, load, loaded, warden, state>> /\ window' = OfferNow
    BY <1>2 DEF Scan, envVars
  <2>2. Reports' = Reports /\ Summary(load)' = Summary(load) /\ OfferNow' = OfferNow
    BY <2>1 DEF Reports, Summary, OfferNow
  <2>3. View!TakePoll
    BY <2>1, <2>2 DEF View!TakePoll, Reports
  <2> QED BY <2>3 DEF View!Next
<1>3. CASE WriteEnd /\ closing # "hangup"
  <2>1. /\ proc = "end" /\ out' = Append(out, frame) /\ window' = {}
        /\ UNCHANGED <<load, loaded, warden, state>>
    BY <1>3 DEF WriteEnd, envVars
  <2>2. Summary(load)' = Summary(load) /\ OfferNow' = OfferNow
    BY <2>1 DEF Summary, OfferNow
  <2>3. Reports' = Append(Reports, Summary(frame))
    BY <2>1, ReportsAppend
  <2>4. Summary(frame) \in View!Report /\ View!Backed(Summary(frame))
    BY <2>1, FrameBacked
  <2>5. View!Publish
    BY <2>1, <2>2, <2>3, <2>4 DEF View!Publish, Reports
  <2> QED BY <2>5 DEF View!Next
<1>4. CASE ReadReport
  <2>1. /\ out # <<>> /\ out' = Tail(out) /\ load' = Head(out)
        /\ UNCHANGED <<loaded, warden, state, window>>
    BY <1>4 DEF ReadReport, envVars
  <2>2. OfferNow' = OfferNow /\ Summary(load)' = Summary(Head(out))
    BY <2>1 DEF OfferNow, Summary
  <2>3. Reports # <<>> /\ Reports' = Tail(Reports) /\ Head(Reports) = Summary(Head(out))
    BY <2>1, ReportsTail
  <2>4. View!Deliver
    BY <2>1, <2>2, <2>3 DEF View!Deliver, Reports
  <2> QED BY <2>4 DEF View!Next
<1>5. CASE Start
  <2>1. out' = <<>> /\ window' = {} /\ UNCHANGED <<load, loaded, warden, state>>
    BY <1>5 DEF Start, envVars
  <2>2. OfferNow' = OfferNow /\ Summary(load)' = Summary(load)
    BY <2>1 DEF OfferNow, Summary
  <2>3. Reports' = <<>>
    BY <2>1 DEF Reports
  <2>4. View!Lose
    BY <2>1, <2>2, <2>3 DEF View!Lose, Reports
  <2> QED BY <2>4 DEF View!Next
<1>6. CASE EnvironmentStep
  <2>1. PICK c \in Configs, a \in Answers, s \in StateFile : Changes(c, a, s)
    BY <1>6, EnvironmentChanges
  <2>2. /\ UNCHANGED <<out, load, loaded>> /\ warden' = a /\ state' = s
        /\ window' \in {window, window \cup Offer(loaded, a, s)}
    BY <2>1 DEF Changes, execdVars
  <2>3. OfferNow' = Offer(loaded, a, s)
    BY <2>2 DEF OfferNow
  <2>4. Reports' = Reports /\ Summary(load)' = Summary(load)
    BY <2>2 DEF Reports, Summary
  <2>5. View!Change
    BY <1>0, <2>2, <2>3, <2>4 DEF View!Change, Reports
  <2> QED BY <2>5 DEF View!Next
<1>7. CASE Leave \/ AskFailed \/ AskStatic \/ ReadStateFile \/ AskWarden \/ ReceiveAnswer
           \/ RequestFails \/ WriteReady \/ WriteSlots \/ (WriteEnd /\ closing = "hangup")
  <2>1. UNCHANGED <<loaded, warden, state, window, out, load>>
    BY <1>7
    DEF Leave, AskFailed, AskStatic, ReadStateFile, AskWarden, ReceiveAnswer, RequestFails,
        WriteReady, WriteSlots, WriteEnd, Returns, envVars, execdVars
  <2> QED BY <2>1, ViewStutters
<1>8. CASE Poll \/ Stop \/ WardenAnswers \/ UNCHANGED vars
  <2>1. UNCHANGED <<loaded, warden, state, window, out, load>>
    BY <1>8 DEF Poll, Stop, WardenAnswers, vars, envVars, execdVars
  <2> QED BY <2>1, ViewStutters
<1> QED
  BY <1>1, <1>2, <1>3, <1>4, <1>5, <1>6, <1>7, <1>8 DEF Next, Sensor, EnvironmentStep

\* The load sensor implements ReadinessView: whatever the configuration, the
\* answers of Warden and their delays, what the scheduler is told repeats an
\* offer made since the poll that it answers.
THEOREM SensorFailsClosed == Spec => ReadinessIsBacked
<1>1. Init => View!Init
  BY ViewInit
<1>2. SensorInv /\ SensorInv' /\ [Next]_vars => [View!Next]_View!viewVars
  BY ViewStep
<1> QED BY <1>1, <1>2, SensorInvariant, PTL DEF Spec, ReadinessIsBacked, View!Spec

=============================================================================

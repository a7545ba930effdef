---------------------------- MODULE ExitCodeProofs ----------------------------
(***************************************************************************)
(* Who the exit codes of the hooks blame: the job only for its own         *)
(* request, the host only for a fault of the host.                         *)
(***************************************************************************)
EXTENDS QueueHooksProofs

\* The job's request is at fault, or a refused start may condemn it.
AtFault(j) ==
    \/ req[j].qpu \in {"malformed", "foreign", "unconfigured"}
    \/ "start" \in Faults

\* Code 100 and what OCS makes of it befall only such a job.
Blamed(j) ==
    \/ AtFault(j)
    \/ /\ code[j] # ExitJobError
       /\ outcome[j] # "joberror"
       /\ phase[j] # "joberror"

\* No value a C prolog looks up can be lost for want of memory.
ValuesKept == PrologImpl = "go" \/ "memory" \notin Faults

\* No fault of a host can occur.
SoundHosts == Faults \cap {"host", "memory", "disk", "read", "start", "kill"} = {}

\* Every slot count can be parsed: a malformed one is a plain error in both
\* prologs, and so a host error.
SlotsParse == \A r \in Requests : r.slots # "malformed"

\* The second qstat, whose failure is a host error in the C prolog, succeeds.
SlotQueryAnswers == PrologImpl = "c" => "qmaster" \notin Faults

\* Without faults of the host the hooks blame no host, no write has failed,
\* and metadata is partial only while the C prolog has it open.
HostCleared(j) ==
    /\ code[j] \in {ExitOK, ExitReschedule, ExitJobError}
    /\ ~envBroken[j]
    /\ spool[j] # TornFile
    /\ spool[j] = EmptyFile => PrologImpl = "c" /\ At(j, "prolog", "write")

CodeJob(j) ==
    /\ ValuesKept => Blamed(j)
    /\ (SoundHosts /\ SlotsParse /\ SlotQueryAnswers) => HostCleared(j)

CodeInv ==
    /\ \A j \in Jobs : CodeJob(j)
    /\ (SoundHosts /\ SlotsParse /\ SlotQueryAnswers) => qerr = {}

\* A step of another job's hook keeps the invariant of this job.
LEMMA CodeOthers ==
    ASSUME Shape, NEW j \in Jobs, HookStep(j), NEW k \in Jobs, k # j, CodeJob(k)
    PROVE CodeJob(k)'
<1>1. Untouched(k) /\ UNCHANGED ocsVars
  BY OthersUntouched, HookFrame DEF Shape
<1> QED BY <1>1
       DEF CodeJob, Blamed, AtFault, HostCleared, ValuesKept, SoundHosts, SlotsParse,
           SlotQueryAnswers, Untouched, ocsVars, At

\* The steps of the Go prolog keep the invariant of their job.
LEMMA CodeGoProlog ==
    ASSUME Shape, NEW j \in Jobs, GoPrologStep(j), CodeJob(j)
    PROVE CodeJob(j)'
<1>0. /\ UNCHANGED ocsVars /\ phase[j] = "prolog"
      /\ CurrentToken(j) \notin {NoFile, EmptyFile, TornFile}
      /\ NoFile \notin {EmptyFile, TornFile} /\ EmptyFile # TornFile
  BY HookFrame, CurrentTokenType, HookAssumption DEF HookStep
<1>1. /\ TypeOK
      /\ spool[j] \in {NoFile, EmptyFile, TornFile, CurrentToken(j)}
      /\ (phase[j] = "prolog" /\ pc[j] \in Holding) => tok[j] = CurrentToken(j)
      /\ SlotsParse => req[j].slots # "malformed"
  BY DEF Shape, SpoolOwn, HookMemory, SlotsParse, TypeOK, OcsTypeOK
<1> USE DEF TypeOK, OcsTypeOK, HookTypeOK, FileTypeOK, CodeJob, Blamed, AtFault,
            HostCleared, ValuesKept, SoundHosts, SlotQueryAnswers, Holding, GoAt, At,
            Goto, FailTo, Exit, ExitClean, ocsVars, jobFiles, ExitOK, ExitHostError,
            ExitReschedule, ExitJobError
<1>2. CASE GoPrologStart(j)
  BY <1>0, <1>1, <1>2 DEF GoPrologStart
<1>3. CASE GoReadGranted(j)
  BY <1>0, <1>1, <1>3 DEF GoReadGranted, GoRunSchedulerCommand,
        GoSchedulerExit, Answer, GoParsesBackend
<1>4. CASE GoCheckHostOffers(j)
  BY <1>0, <1>1, <1>4 DEF GoCheckHostOffers, GoRunSchedulerCommand,
        GoSchedulerExit, Answer, GoHostOffers
<1>5. CASE GoOpenJobEnv(j)
  BY <1>0, <1>1, <1>5 DEF GoOpenJobEnv, GoSetAnswer, Answer
<1>6. CASE GoLoadConfig(j)
  BY <1>0, <1>1, <1>6 DEF GoLoadConfig, GoConfigHas, GoSetAnswer, Answer
<1>7. CASE GoExportSchedulerJobEnv(j)
  BY <1>0, <1>1, <1>7 DEF GoExportSchedulerJobEnv, GoRunSchedulerCommand,
        GoSchedulerExit, GoParsesSlots, GoSetAnswer, Answer
<1>8. CASE GoNewResource(j)
  BY <1>0, <1>1, <1>8 DEF GoNewResource, Answer
<1>9. CASE GoAcquire(j)
  BY <1>0, <1>1, <1>9 DEF GoAcquire, Answer
<1>10. CASE GoExportRuntimeEnv(j)
  BY <1>0, <1>1, <1>10 DEF GoExportRuntimeEnv, GoSetAnswer, Answer
<1>11. CASE GoWriteAtomic(j)
  BY <1>0, <1>1, <1>11 DEF GoWriteAtomic
<1>12. CASE GoSetStatus(j)
  BY <1>0, <1>1, <1>12 DEF GoSetStatus, GoSetAnswer, Answer
<1>13. CASE GoAbort(j)
  BY <1>0, <1>1, <1>13 DEF GoAbort
<1>14. CASE GoReportError(j)
  BY <1>0, <1>1, <1>14 DEF GoReportError
<1> QED BY <1>2, <1>3, <1>4, <1>5, <1>6, <1>7, <1>8, <1>9, <1>10, <1>11, <1>12,
        <1>13, <1>14 DEF GoPrologStep

\* The steps of the C prolog keep the invariant of their job.
LEMMA CodeCProlog ==
    ASSUME Shape, NEW j \in Jobs, CPrologStep(j), CodeJob(j)
    PROVE CodeJob(j)'
<1>0. /\ UNCHANGED ocsVars /\ phase[j] = "prolog"
      /\ CurrentToken(j) \notin {NoFile, EmptyFile, TornFile}
      /\ NoFile \notin {EmptyFile, TornFile} /\ EmptyFile # TornFile
  BY HookFrame, CurrentTokenType, HookAssumption DEF HookStep
<1>1. /\ TypeOK
      /\ spool[j] \in {NoFile, EmptyFile, TornFile, CurrentToken(j)}
      /\ (phase[j] = "prolog" /\ pc[j] \in Holding) => tok[j] = CurrentToken(j)
      /\ SlotsParse => req[j].slots # "malformed"
  BY DEF Shape, SpoolOwn, HookMemory, SlotsParse, TypeOK, OcsTypeOK
<1> USE DEF TypeOK, OcsTypeOK, HookTypeOK, FileTypeOK, CodeJob, Blamed, AtFault,
            HostCleared, ValuesKept, SoundHosts, SlotQueryAnswers, Holding, CAt, At,
            Goto, FailTo, Exit, ExitClean, ocsVars, jobFiles, ExitOK, ExitHostError,
            ExitReschedule, ExitJobError
<1>2. CASE CPrologStart(j)
  BY <1>0, <1>1, <1>2 DEF CPrologStart
<1>3. CASE CReadGranted(j)
  BY <1>0, <1>1, <1>3 DEF CReadGranted, CRunSchedulerCommand, CSchedulerExit,
        CParsesBackend, CMayLoseValue, Answer
<1>4. CASE CCheckHostOffers(j)
  BY <1>0, <1>1, <1>4 DEF CCheckHostOffers, CRunSchedulerCommand,
        CSchedulerExit, CHostOffers, CMayLoseValue, Answer
<1>5. CASE COpenJobEnv(j)
  BY <1>0, <1>1, <1>5 DEF COpenJobEnv, CSetAnswer
<1>6. CASE CExportSchedulerEnv(j)
  BY <1>0, <1>1, <1>6 DEF CExportSchedulerEnv, CRunSchedulerCommand,
        CSetAnswer, Answer
<1>7. CASE CLoadConfig(j)
  BY <1>0, <1>1, <1>7 DEF CLoadConfig, CConfigHas, CSetAnswer
<1>8. CASE CNewResource(j)
  BY <1>0, <1>1, <1>8 DEF CNewResource, Answer
<1>9. CASE CAcquire(j)
  BY <1>0, <1>1, <1>9 DEF CAcquire, Answer
<1>10. CASE CRecordAcquired(j)
  BY <1>0, <1>1, <1>10 DEF CRecordAcquired
<1>11. CASE CExportRuntimeEnv(j)
  BY <1>0, <1>1, <1>11 DEF CExportRuntimeEnv, CSetAnswer
<1>12. CASE CSetStatus(j)
  BY <1>0, <1>1, <1>12 DEF CSetStatus, CSetAnswer
<1>13. CASE COpenMetadata(j)
  BY <1>0, <1>1, <1>13 DEF COpenMetadata
<1>14. CASE CWriteMetadata(j)
  BY <1>0, <1>1, <1>14 DEF CWriteMetadata
<1>15. CASE CSetPluginError(j)
  BY <1>0, <1>1, <1>15 DEF CSetPluginError
<1>16. CASE CReleaseAcquired(j)
  BY <1>0, <1>1, <1>16 DEF CReleaseAcquired
<1> QED BY <1>2, <1>3, <1>4, <1>5, <1>6, <1>7, <1>8, <1>9, <1>10, <1>11, <1>12,
        <1>13, <1>14, <1>15, <1>16 DEF CPrologStep

\* The steps of the Go epilog keep the invariant of their job.
LEMMA CodeGoEpilog ==
    ASSUME Shape, NEW j \in Jobs, GoEpilogStep(j), CodeJob(j)
    PROVE CodeJob(j)'
<1>0. /\ UNCHANGED ocsVars /\ phase[j] = "epilog"
      /\ CurrentToken(j) \notin {NoFile, EmptyFile, TornFile}
      /\ NoFile \notin {EmptyFile, TornFile} /\ EmptyFile # TornFile
  BY HookFrame, CurrentTokenType, HookAssumption DEF HookStep
<1>1. /\ TypeOK
      /\ spool[j] \in {NoFile, EmptyFile, TornFile, CurrentToken(j)}
      /\ (phase[j] = "prolog" /\ pc[j] \in Holding) => tok[j] = CurrentToken(j)
      /\ SlotsParse => req[j].slots # "malformed"
  BY DEF Shape, SpoolOwn, HookMemory, SlotsParse, TypeOK, OcsTypeOK
<1> USE DEF TypeOK, OcsTypeOK, HookTypeOK, FileTypeOK, CodeJob, Blamed, AtFault,
            HostCleared, ValuesKept, SoundHosts, SlotQueryAnswers, Holding, GoEpilogAt, At,
            Goto, FailTo, Exit, ExitClean, ocsVars, jobFiles, ExitOK, ExitHostError,
            ExitReschedule, ExitJobError
<1>2. CASE GoEpilogStart(j)
  BY <1>0, <1>1, <1>2 DEF GoEpilogStart
<1>3. CASE GoReadMetadata(j)
  BY <1>0, <1>1, <1>3 DEF GoReadMetadata, GoReadStrictSingle
<1>4. CASE GoReleaseRecord(j)
  BY <1>0, <1>1, <1>4 DEF GoReleaseRecord
<1>5. CASE GoRemoveMetadata(j)
  BY <1>0, <1>1, <1>5 DEF GoRemoveMetadata
<1>6. CASE GoPreserveFailedRelease(j)
  BY <1>0, <1>1, <1>6 DEF GoPreserveFailedRelease
<1>7. CASE GoPublishSummary(j)
  BY <1>0, <1>1, <1>7 DEF GoPublishSummary
<1> QED BY <1>2, <1>3, <1>4, <1>5, <1>6, <1>7 DEF GoEpilogStep

\* The steps of the C epilog keep the invariant of their job.
LEMMA CodeCEpilog ==
    ASSUME Shape, NEW j \in Jobs, CEpilogStep(j), CodeJob(j)
    PROVE CodeJob(j)'
<1>0. /\ UNCHANGED ocsVars /\ phase[j] = "epilog"
      /\ CurrentToken(j) \notin {NoFile, EmptyFile, TornFile}
      /\ NoFile \notin {EmptyFile, TornFile} /\ EmptyFile # TornFile
  BY HookFrame, CurrentTokenType, HookAssumption DEF HookStep
<1>1. /\ TypeOK
      /\ spool[j] \in {NoFile, EmptyFile, TornFile, CurrentToken(j)}
      /\ (phase[j] = "prolog" /\ pc[j] \in Holding) => tok[j] = CurrentToken(j)
      /\ SlotsParse => req[j].slots # "malformed"
  BY DEF Shape, SpoolOwn, HookMemory, SlotsParse, TypeOK, OcsTypeOK
<1> USE DEF TypeOK, OcsTypeOK, HookTypeOK, FileTypeOK, CodeJob, Blamed, AtFault,
            HostCleared, ValuesKept, SoundHosts, SlotQueryAnswers, Holding, CEpilogAt, At,
            Goto, FailTo, Exit, ExitClean, ocsVars, jobFiles, ExitOK, ExitHostError,
            ExitReschedule, ExitJobError
<1>2. CASE CEpilogStart(j)
  BY <1>0, <1>1, <1>2 DEF CEpilogStart
<1>3. CASE CReadMetadata(j)
  BY <1>0, <1>1, <1>3 DEF CReadMetadata, CReadRecords
<1>4. CASE CReleaseRecord(j)
  BY <1>0, <1>1, <1>4 DEF CReleaseRecord
<1>5. CASE CRemoveMetadata(j)
  BY <1>0, <1>1, <1>5 DEF CRemoveMetadata
<1>6. CASE CPreserveFailedRelease(j)
  BY <1>0, <1>1, <1>6 DEF CPreserveFailedRelease
<1>7. CASE CPublishSummary(j)
  BY <1>0, <1>1, <1>7 DEF CPublishSummary
<1> QED BY <1>2, <1>3, <1>4, <1>5, <1>6, <1>7 DEF CEpilogStep

\* Every step of a hook keeps the invariant.
LEMMA CodeHooks ==
    ASSUME Shape, CodeInv, NEW j \in Jobs, HookStep(j)
    PROVE CodeInv'
<1>1. ASSUME NEW k \in Jobs, k # j PROVE CodeJob(k)'
  BY <1>1, CodeOthers DEF CodeInv
<1>2. CodeJob(j)'
  BY CodeGoProlog, CodeCProlog, CodeGoEpilog, CodeCEpilog DEF HookStep, CodeInv
<1>3. qerr' = qerr
  BY HookFrame DEF ocsVars
<1> QED BY <1>1, <1>2, <1>3 DEF CodeInv, SoundHosts, SlotsParse, SlotQueryAnswers

\* Every other step keeps the invariant: OCS turns only code 100 into a job
\* error and only the codes of a host fault into a queue error.
LEMMA CodeScheduler ==
    ASSUME Shape, CodeInv,
           \/ \E j \in Jobs : OcsStep(j) \/ FaultStep(j)
           \/ \E h \in Hosts : ClearQueueError(h)
    PROVE CodeInv'
<1>0. Shape /\ TypeOK /\ NoFile \notin {EmptyFile, TornFile}
  BY HookAssumption DEF Shape
<1> USE DEF TypeOK, OcsTypeOK, HookTypeOK, FileTypeOK, CodeInv, CodeJob, Blamed,
            AtFault, HostCleared, ValuesKept, SoundHosts, SlotsParse, SlotQueryAnswers,
            At, ocsVars, hookVars, jobFiles, ExitOK, ExitReschedule, ExitJobError
<1>1. ASSUME NEW j \in Jobs, NEW h \in Hosts, Dispatch(j, h) PROVE CodeInv'
  BY <1>0, <1>1 DEF Dispatch, StartHook, Shape, SpoolOwn
<1>2. ASSUME NEW j \in Jobs, PrologExits(j) PROVE CodeInv'
  <2>1. outcome'[j] = "joberror" => code[j] = ExitJobError
    BY <1>0, <1>2 DEF PrologExits, OutcomeOf
  <2>2. \A k \in Jobs : k # j => outcome'[k] = outcome[k]
    BY <1>0, <1>2 DEF PrologExits
  <2> QED BY <1>0, <1>2, <2>1, <2>2 DEF PrologExits, StartHook, MarkQueue
<1>3. ASSUME NEW j \in Jobs, JobEnds(j) PROVE CodeInv'
  BY <1>0, <1>3 DEF JobEnds, StartHook
<1>4. ASSUME NEW j \in Jobs, EpilogExits(j) PROVE CodeInv'
  <2>1. outcome'[j] = "joberror" => code[j] = ExitJobError \/ outcome[j] = "joberror"
    BY <1>0, <1>4 DEF EpilogExits, OutcomeOf
  <2>2. \A k \in Jobs : k # j => outcome'[k] = outcome[k]
    BY <1>0, <1>4 DEF EpilogExits
  <2> QED BY <1>0, <1>4, <2>1, <2>2 DEF EpilogExits, MarkQueue
<1>5. ASSUME NEW j \in Jobs, Reap(j) PROVE CodeInv'
  <2>1. phase'[j] = "joberror" => outcome[j] = "joberror"
    BY <1>0, <1>5 DEF Reap
  <2>2. \A k \in Jobs : k # j => phase'[k] = phase[k]
    BY <1>0, <1>5 DEF Reap
  <2> QED BY <1>0, <1>5, <2>1, <2>2 DEF Reap
<1>6. ASSUME NEW j \in Jobs, KillHook(j) PROVE CodeInv'
  BY <1>0, <1>6 DEF KillHook, Exit, FailTo, Killed
<1>7. ASSUME NEW j \in Jobs, HostCrash(j) PROVE CodeInv'
  BY <1>0, <1>7 DEF HostCrash
<1>8. ASSUME NEW h \in Hosts, ClearQueueError(h) PROVE CodeInv'
  BY <1>0, <1>8 DEF ClearQueueError
<1> QED BY <1>1, <1>2, <1>3, <1>4, <1>5, <1>6, <1>7, <1>8 DEF OcsStep, FaultStep

\* CodeInv is an invariant of every instance.
THEOREM CodeInvariant == Spec => [](Shape /\ CodeInv)
<1>1. Init => CodeInv
  BY HookAssumption
     DEF Init, CodeInv, CodeJob, Blamed, HostCleared, ExitOK, ExitJobError
<1>2. Shape /\ CodeInv /\ [Next]_vars => CodeInv'
  <2> SUFFICES ASSUME Shape, CodeInv, [Next]_vars PROVE CodeInv'
    OBVIOUS
  <2>1. CASE UNCHANGED vars
    BY <2>1 DEF CodeInv, CodeJob, Blamed, AtFault, HostCleared, ValuesKept, SoundHosts,
                SlotsParse, SlotQueryAnswers, At, vars, ocsVars, hookVars, jobFiles
  <2> QED BY <2>1, CodeHooks, CodeScheduler DEF Next, Terminated
<1> QED BY <1>1, <1>2, ShapeInvariant, PTL DEF Spec

-----------------------------------------------------------------------------
\* A job is put into error state only when its own request is at fault or a
\* start is refused: no fault of the backend, of qmaster, of a disk or of the
\* host ends in code 100. The C prolog needs its allocations to succeed,
\* because a value it cannot copy looks like a bad request.
THEOREM OnlyBadRequestsCondemned ==
    ASSUME PrologImpl = "go" \/ "memory" \notin Faults
    PROVE Spec => []JobErrorMeansBadRequest
<1>1. Shape /\ CodeInv => JobErrorMeansBadRequest
  BY DEF CodeInv, CodeJob, ValuesKept, Blamed, AtFault, JobErrorMeansBadRequest
<1> QED BY <1>1, CodeInvariant, PTL

\* A queue instance goes into error state only for a fault of its host, as
\* long as slot counts can be parsed and, with the C prolog, qmaster answers
\* its second query: both prologs take a malformed slot count, and the C
\* prolog a failed second qstat, for a host error.
THEOREM OnlyHostFaultsStopQueues ==
    ASSUME \A r \in Requests : r.slots # "malformed",
           PrologImpl = "c" => "qmaster" \notin Faults
    PROVE Spec => []QueueErrorMeansHostFault
<1>1. Shape /\ CodeInv => QueueErrorMeansHostFault
  BY DEF CodeInv, SoundHosts, SlotsParse, SlotQueryAnswers, QueueErrorMeansHostFault
<1> QED BY <1>1, CodeInvariant, PTL
=============================================================================

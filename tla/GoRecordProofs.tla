---------------------------- MODULE GoRecordProofs ----------------------------
(***************************************************************************)
(* With the Go prolog, whatever faults occur and whichever epilog is       *)
(* installed: a running QPU job is recorded, status success is on disk     *)
(* only with the record, and every record is whole.                        *)
(***************************************************************************)
EXTENDS QueueHooksProofs

\* The session of the job's current run is open, and both the metadata file
\* and the job environment name it, with status success.
Recorded(j) ==
    /\ CurrentToken(j) \in sessions
    /\ spool[j] = CurrentToken(j)
    /\ envTok[j] = CurrentToken(j)
    /\ envStatus[j] = "success"

\* What the Go prolog has achieved once it is at a given label.
Achieved(j) ==
    /\ pc[j] \in {"runtime", "metadata", "status"} => CurrentToken(j) \in sessions
    /\ pc[j] \in {"metadata", "status"} => envTok[j] = CurrentToken(j)
    /\ pc[j] = "status" => spool[j] = CurrentToken(j)
    /\ pc[j] \in {"abort", "report"} => code[j] # ExitOK
    /\ envStatus[j] = "success" => pc[j] = "exit" /\ spool[j] = CurrentToken(j)
    /\ (pc[j] = "exit" /\ code[j] = ExitOK /\ req[j].qpu # "none") => Recorded(j)

\* The inductive invariant for one job: what the prolog has achieved it
\* hands over to the running job, and no file is partial.
GoJob(j) ==
    /\ phase[j] = "prolog" => Achieved(j)
    /\ (phase[j] = "running" /\ req[j].qpu # "none") => Recorded(j)
    /\ (phase[j] = "running" /\ envStatus[j] = "success") => spool[j] = CurrentToken(j)
    /\ spool[j] \in {NoFile, CurrentToken(j)}
    /\ \A h \in Hosts : kept[h][j] \in Token \cup {NoFile}

GoInv == \A j \in Jobs : GoJob(j)

\* A step of another job's hook keeps the invariant of this job.
LEMMA GoOthers ==
    ASSUME Shape, NEW j \in Jobs, HookStep(j), NEW k \in Jobs, k # j, GoJob(k)
    PROVE GoJob(k)'
<1>1. Untouched(k)
  BY OthersUntouched DEF Shape
<1>2. UNCHANGED ocsVars /\ CurrentToken(k)' = CurrentToken(k)
  BY HookFrame DEF ocsVars, CurrentToken
<1>3. phase[k] # "pending" /\ CurrentToken(k) \in sessions => CurrentToken(k) \in sessions'
  BY OthersSessions
<1> QED BY <1>1, <1>2, <1>3 DEF GoJob, Achieved, Recorded, Untouched, ocsVars

\* The steps of the Go prolog keep the invariant of their job.
LEMMA GoJobProlog ==
    ASSUME Shape, NEW j \in Jobs, GoPrologStep(j), GoJob(j)
    PROVE GoJob(j)'
<1>0. UNCHANGED ocsVars /\ CurrentToken(j)' = CurrentToken(j) /\ phase[j] = "prolog"
  BY HookFrame DEF ocsVars, CurrentToken, HookStep
<1>t. TypeOK /\ (pc[j] \in {"runtime", "metadata", "status"} => tok[j] = CurrentToken(j))
  BY <1>0 DEF Shape, HookMemory, Holding
<1> USE DEF GoJob, Achieved, Recorded, GoAt, At, Goto, FailTo, Exit, ExitClean,
            ocsVars, jobFiles, TypeOK, OcsTypeOK, HookTypeOK, FileTypeOK,
            ExitOK, ExitHostError, ExitReschedule, ExitJobError
<1>1. CASE GoPrologStart(j)
  BY <1>0, <1>t, <1>1 DEF GoPrologStart
<1>2. CASE GoReadGranted(j)
  BY <1>0, <1>t, <1>2 DEF GoReadGranted, GoSchedulerExit, GoRequestsBackend
<1>3. CASE GoCheckHostOffers(j)
  BY <1>0, <1>t, <1>3 DEF GoCheckHostOffers, GoSchedulerExit
<1>4. CASE GoOpenJobEnv(j)
  BY <1>0, <1>t, <1>4 DEF GoOpenJobEnv
<1>5. CASE GoLoadConfig(j)
  BY <1>0, <1>t, <1>5 DEF GoLoadConfig
<1>6. CASE GoExportSchedulerJobEnv(j)
  BY <1>0, <1>t, <1>6 DEF GoExportSchedulerJobEnv, GoSchedulerExit
<1>7. CASE GoNewResource(j)
  BY <1>0, <1>t, <1>7 DEF GoNewResource
<1>8. CASE GoAcquire(j)
  BY <1>0, <1>t, <1>8 DEF GoAcquire
<1>9. CASE GoExportRuntimeEnv(j)
  BY <1>0, <1>t, <1>9 DEF GoExportRuntimeEnv
<1>10. CASE GoWriteAtomic(j)
  BY <1>0, <1>t, <1>10 DEF GoWriteAtomic
<1>11. CASE GoSetStatus(j)
  BY <1>0, <1>t, <1>11 DEF GoSetStatus
<1>12. CASE GoAbort(j)
  BY <1>0, <1>t, <1>12 DEF GoAbort
<1>13. CASE GoReportError(j)
  BY <1>0, <1>t, <1>13 DEF GoReportError
<1> QED BY <1>1, <1>2, <1>3, <1>4, <1>5, <1>6, <1>7, <1>8, <1>9, <1>10, <1>11,
        <1>12, <1>13 DEF GoPrologStep

\* The steps of either epilog keep the invariant of their job.
LEMMA GoJobEpilog ==
    ASSUME Shape, NEW j \in Jobs, GoEpilogStep(j) \/ CEpilogStep(j), GoJob(j)
    PROVE GoJob(j)'
<1>0. UNCHANGED ocsVars /\ CurrentToken(j)' = CurrentToken(j) /\ phase[j] = "epilog"
  BY HookFrame DEF ocsVars, CurrentToken, HookStep
<1>t. TypeOK /\ CurrentToken(j) \in Token /\ host[j] \in Hosts
  BY <1>0, CurrentTokenType DEF Shape
<1> USE DEF TypeOK, HookTypeOK, FileTypeOK, ExitClean, jobFiles
<1>1. spool'[j] \in {spool[j], NoFile}
  BY <1>t DEF GoEpilogStep, CEpilogStep, GoEpilogStart, GoReadMetadata,
        GoReleaseRecord, GoRemoveMetadata, GoPreserveFailedRelease,
        GoPublishSummary, CEpilogStart, CReadMetadata, CReleaseRecord,
        CRemoveMetadata, CPreserveFailedRelease, CPublishSummary
<1>2. \A h \in Hosts : kept'[h][j] \in {kept[h][j], spool[j]}
  BY <1>t DEF GoEpilogStep, CEpilogStep, GoEpilogStart, GoReadMetadata,
        GoReleaseRecord, GoRemoveMetadata, GoPreserveFailedRelease,
        GoPublishSummary, CEpilogStart, CReadMetadata, CReleaseRecord,
        CRemoveMetadata, CPreserveFailedRelease, CPublishSummary
<1> QED BY <1>0, <1>t, <1>1, <1>2 DEF GoJob, ocsVars

\* Every step of a hook keeps the invariant.
LEMMA GoInvHooks ==
    ASSUME PrologImpl = "go", Shape, GoInv, NEW j \in Jobs, HookStep(j)
    PROVE GoInv'
<1>1. ASSUME NEW k \in Jobs, k # j PROVE GoJob(k)'
  BY <1>1, GoOthers DEF GoInv
<1>2. ~CPrologStep(j)
  BY DEF CPrologStep, CAt, CPrologStart, CReadGranted, CCheckHostOffers,
        COpenJobEnv, CExportSchedulerEnv, CLoadConfig, CNewResource, CAcquire,
        CRecordAcquired, CExportRuntimeEnv, CSetStatus, COpenMetadata,
        CWriteMetadata, CSetPluginError, CReleaseAcquired
<1>3. GoJob(j)'
  BY <1>2, GoJobProlog, GoJobEpilog DEF HookStep, GoInv
<1> QED BY <1>1, <1>3 DEF GoInv

\* Every other step keeps the invariant.
LEMMA GoInvScheduler ==
    ASSUME PrologImpl = "go", Shape, GoInv,
           \/ \E j \in Jobs : OcsStep(j) \/ FaultStep(j)
           \/ \E h \in Hosts : ClearQueueError(h)
    PROVE GoInv'
<1> USE DEF Shape, TypeOK, OcsTypeOK, HookTypeOK, FileTypeOK, GoInv, GoJob,
            Achieved, Recorded, At, ocsVars, hookVars, jobFiles
<1>1. ASSUME NEW j \in Jobs, NEW h \in Hosts, Dispatch(j, h) PROVE GoInv'
  <2>1. ASSUME NEW k \in Jobs, k # j PROVE GoJob(k)'
    BY <1>1, <2>1 DEF Dispatch, StartHook, CurrentToken
  <2>2. GoJob(j)'
    BY <1>1 DEF Dispatch, StartHook, SpoolOwn
  <2> QED BY <2>1, <2>2
<1>2. ASSUME NEW j \in Jobs, PrologExits(j) PROVE GoInv'
  BY <1>2 DEF PrologExits, StartHook, CurrentToken
<1>3. ASSUME NEW j \in Jobs, JobEnds(j) PROVE GoInv'
  BY <1>3 DEF JobEnds, StartHook, CurrentToken
<1>4. ASSUME NEW j \in Jobs, EpilogExits(j) PROVE GoInv'
  BY <1>4 DEF EpilogExits, CurrentToken
<1>5. ASSUME NEW j \in Jobs, Reap(j) PROVE GoInv'
  BY <1>5 DEF Reap, CurrentToken
<1>6. ASSUME NEW j \in Jobs, KillHook(j) PROVE GoInv'
  BY <1>6 DEF KillHook, Exit, FailTo, CurrentToken, ExitOK, Killed
<1>7. ASSUME NEW j \in Jobs, HostCrash(j) PROVE GoInv'
  BY <1>7 DEF HostCrash, CurrentToken
<1>8. ASSUME NEW h \in Hosts, ClearQueueError(h) PROVE GoInv'
  BY <1>8 DEF ClearQueueError, CurrentToken
<1> QED BY <1>1, <1>2, <1>3, <1>4, <1>5, <1>6, <1>7, <1>8 DEF OcsStep, FaultStep

\* GoInv is an invariant of every instance with the Go prolog.
THEOREM GoInvariant ==
    ASSUME PrologImpl = "go" PROVE Spec => [](Shape /\ GoInv)
<1>1. Init => GoInv
  BY DEF Init, GoInv, GoJob, Achieved, Recorded
<1>2. Shape /\ GoInv /\ [Next]_vars => GoInv'
  <2> SUFFICES ASSUME Shape, GoInv, [Next]_vars PROVE GoInv'
    OBVIOUS
  <2>1. CASE UNCHANGED vars
    BY <2>1 DEF GoInv, GoJob, Achieved, Recorded, CurrentToken, vars, ocsVars,
                hookVars, jobFiles
  <2> QED BY <2>1, GoInvHooks, GoInvScheduler DEF Next, Terminated
<1> QED BY <1>1, <1>2, ShapeInvariant, PTL DEF Spec

\* With the Go prolog, a running QPU job has an open session that its
\* metadata file and its environment name, with status success: whatever
\* fails, runWithConfig returns 0 only after all of it has been written, and
\* nothing closes the session before the epilog.
THEOREM GoRunningIsRecorded ==
    ASSUME PrologImpl = "go" PROVE Spec => []RunningIsRecorded
<1>1. Shape /\ GoInv => RunningIsRecorded
  BY DEF GoInv, GoJob, Recorded, RunningIsRecorded
<1> QED BY <1>1, GoInvariant, PTL

\* With the Go prolog, status success is on disk only once the record is,
\* wherever the prolog is killed.
THEOREM GoSuccessAfterRecord ==
    ASSUME PrologImpl = "go" PROVE Spec => []SuccessAfterRecord
<1>1. Shape /\ GoInv => SuccessAfterRecord
  BY DEF GoInv, GoJob, Achieved, SuccessAfterRecord
<1> QED BY <1>1, GoInvariant, PTL

\* With the Go prolog, every record in a spool directory or among the kept
\* ones is whole, wherever a hook is killed and whichever write fails.
THEOREM GoRecordsAreWhole ==
    ASSUME PrologImpl = "go" PROVE Spec => []RecordsAreWhole
<1>1. Shape /\ GoInv => RecordsAreWhole
  BY CurrentTokenType DEF Shape, SpoolOwn, GoInv, GoJob, RecordsAreWhole
<1> QED BY <1>1, GoInvariant, PTL
=============================================================================

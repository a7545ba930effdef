----------------------------- MODULE SessionProofs ----------------------------
(***************************************************************************)
(* No session is orphaned by a survivable fault, for either implementation *)
(* of either hook.                                                         *)
(***************************************************************************)
EXTENDS QueueHooksProofs

\* A record of job j is kept on some host.
KeptJob(j) == \E h \in Hosts : kept[h][j] # NoFile

\* Where the token of the job's current dispatch is while its session may be
\* open: in the prolog's memory, or in the metadata file.
Located(j) ==
    \/ phase[j] = "prolog" /\ pc[j] \in Holding
    \/ PrologImpl = "go" /\ At(j, "prolog", "abort")
    \/ At(j, "prolog", "exit") /\ code[j] = ExitOK /\ spool[j] = CurrentToken(j)
    \/ phase[j] = "running" /\ spool[j] = CurrentToken(j)
    \/ /\ phase[j] = "epilog"
       /\ pc[j] \in {"start", "read", "release", "preserve"}
       /\ spool[j] = CurrentToken(j)

\* What survivable faults leave intact: metadata is partial only while the C
\* prolog has it open, the Go prolog aborts with a token only on a broken
\* disk, and the epilog keeps a file only on a sound one.
TidyJob(j) ==
    /\ spool[j] \in {EmptyFile, TornFile} =>
          PrologImpl = "c" /\ At(j, "prolog", "write") /\ spool[j] = EmptyFile
    /\ envBroken[j] => "disk" \in Faults
    /\ (PrologImpl = "go" /\ At(j, "prolog", "abort")) => "disk" \in Faults
    /\ (PrologImpl = "go" /\ At(j, "prolog", "status")) => spool[j] = CurrentToken(j)
    /\ tok[j] # BadToken
    /\ At(j, "epilog", "release") => tok[j] = CurrentToken(j)
    /\ At(j, "epilog", "preserve") => "disk" \notin Faults

\* The session of the job's current run, if it is open, has its token in a
\* known place or a record kept.
CurrentSafe(j) == CurrentToken(j) \in sessions => Located(j) \/ KeptJob(j)

\* Sessions of the job's earlier runs are open only if a record is kept.
EarlierSafe(j) ==
    \A t \in sessions : (t[1] = j /\ t # CurrentToken(j)) => KeptJob(j)

SessionInv == \A j \in Jobs : TidyJob(j) /\ CurrentSafe(j) /\ EarlierSafe(j)

\* A record that is kept stays kept.
LEMMA KeptGrows ==
    ASSUME TypeOK, NEW j \in Jobs, HookStep(j), host[j] \in Hosts, NEW k \in Jobs,
           KeptJob(k)
    PROVE KeptJob(k)'
BY KeptByHooks DEF KeptJob

\* A step of another job's hook keeps the invariant of this job.
LEMMA SessionOthers ==
    ASSUME Shape, NEW j \in Jobs, HookStep(j), NEW k \in Jobs, k # j,
           TidyJob(k), CurrentSafe(k)
    PROVE TidyJob(k)' /\ CurrentSafe(k)'
<1>1. Untouched(k)
  BY OthersUntouched DEF Shape
<1>2. UNCHANGED ocsVars /\ CurrentToken(k)' = CurrentToken(k)
  BY HookFrame DEF ocsVars, CurrentToken
<1>3. CurrentToken(k) \in sessions' => CurrentToken(k) \in sessions
  BY SessionsOfStep DEF CurrentToken
<1> QED BY <1>1, <1>2, <1>3
       DEF TidyJob, CurrentSafe, Located, KeptJob, Untouched, At, ocsVars

\* The steps of the Go prolog keep the invariant of their job.
LEMMA SessionGoProlog ==
    ASSUME Survivable, Shape, NEW j \in Jobs, GoPrologStep(j), TidyJob(j), CurrentSafe(j)
    PROVE TidyJob(j)' /\ CurrentSafe(j)'
<1>0. /\ UNCHANGED ocsVars /\ CurrentToken(j)' = CurrentToken(j)
      /\ phase[j] = "prolog" /\ host[j] \in Hosts
      /\ CurrentToken(j) \in Token
  BY HookFrame, CurrentTokenType DEF ocsVars, CurrentToken, HookStep
<1>1. TypeOK /\ (KeptJob(j) => KeptJob(j)')
  BY <1>0, KeptGrows DEF Shape, HookStep
<1>2. /\ tok[j] \in {NoToken, BadToken, CurrentToken(j)}
      /\ pc[j] \in Holding => tok[j] = CurrentToken(j)
      /\ (PrologImpl = "go" /\ pc[j] = "abort") => tok[j] = CurrentToken(j)
  BY <1>0 DEF Shape, HookMemory, At
<1>3. CurrentToken(j) \notin {NoToken, BadToken, NoFile, EmptyFile, TornFile} /\ NoToken # BadToken
  BY <1>0, HookAssumption
<1> USE DEF TypeOK, OcsTypeOK, HookTypeOK, FileTypeOK, TidyJob, CurrentSafe,
            Located, Holding, Survivable, GoAt, At, Goto, FailTo, Exit, ExitClean,
            ocsVars, jobFiles, ExitOK, ExitHostError, ExitReschedule, ExitJobError
<1>4. CASE GoPrologStart(j)
  BY <1>0, <1>1, <1>2, <1>3, <1>4, HookAssumption DEF GoPrologStart
<1>5. CASE GoReadGranted(j)
  BY <1>0, <1>1, <1>2, <1>3, <1>5, HookAssumption DEF GoReadGranted,
        GoSchedulerExit
<1>6. CASE GoCheckHostOffers(j)
  BY <1>0, <1>1, <1>2, <1>3, <1>6, HookAssumption DEF GoCheckHostOffers,
        GoSchedulerExit
<1>7. CASE GoOpenJobEnv(j)
  BY <1>0, <1>1, <1>2, <1>3, <1>7, HookAssumption DEF GoOpenJobEnv,
        GoSetAnswer, Answer
<1>8. CASE GoLoadConfig(j)
  BY <1>0, <1>1, <1>2, <1>3, <1>8, HookAssumption DEF GoLoadConfig,
        GoSetAnswer, Answer
<1>9. CASE GoExportSchedulerJobEnv(j)
  BY <1>0, <1>1, <1>2, <1>3, <1>9, HookAssumption DEF GoExportSchedulerJobEnv,
        GoSetAnswer, Answer
<1>10. CASE GoNewResource(j)
  BY <1>0, <1>1, <1>2, <1>3, <1>10, HookAssumption DEF GoNewResource
<1>11. CASE GoAcquire(j)
  BY <1>0, <1>1, <1>2, <1>3, <1>11, HookAssumption DEF GoAcquire, Answer
<1>12. CASE GoExportRuntimeEnv(j)
  BY <1>0, <1>1, <1>2, <1>3, <1>12, HookAssumption DEF GoExportRuntimeEnv,
        GoSetAnswer, Answer
<1>13. CASE GoWriteAtomic(j)
  BY <1>0, <1>1, <1>2, <1>3, <1>13, HookAssumption DEF GoWriteAtomic
<1>14. CASE GoSetStatus(j)
  BY <1>0, <1>1, <1>2, <1>3, <1>14, HookAssumption DEF GoSetStatus,
        GoSetAnswer, Answer
<1>15. CASE GoAbort(j)
  BY <1>0, <1>1, <1>2, <1>3, <1>15, HookAssumption DEF GoAbort, Answer,
        Release
<1>16. CASE GoReportError(j)
  BY <1>0, <1>1, <1>2, <1>3, <1>16, HookAssumption DEF GoReportError
<1> QED BY <1>4, <1>5, <1>6, <1>7, <1>8, <1>9, <1>10, <1>11, <1>12, <1>13,
        <1>14, <1>15, <1>16 DEF GoPrologStep

\* The steps of the C prolog keep the invariant of their job.
LEMMA SessionCProlog ==
    ASSUME Survivable, Shape, NEW j \in Jobs, CPrologStep(j), TidyJob(j), CurrentSafe(j)
    PROVE TidyJob(j)' /\ CurrentSafe(j)'
<1>0. /\ UNCHANGED ocsVars /\ CurrentToken(j)' = CurrentToken(j)
      /\ phase[j] = "prolog" /\ host[j] \in Hosts
      /\ CurrentToken(j) \in Token
  BY HookFrame, CurrentTokenType DEF ocsVars, CurrentToken, HookStep
<1>1. TypeOK /\ (KeptJob(j) => KeptJob(j)')
  BY <1>0, KeptGrows DEF Shape, HookStep
<1>2. /\ tok[j] \in {NoToken, BadToken, CurrentToken(j)}
      /\ pc[j] \in Holding => tok[j] = CurrentToken(j)
      /\ (PrologImpl = "go" /\ pc[j] = "abort") => tok[j] = CurrentToken(j)
  BY <1>0 DEF Shape, HookMemory, At
<1>3. CurrentToken(j) \notin {NoToken, BadToken, NoFile, EmptyFile, TornFile} /\ NoToken # BadToken
  BY <1>0, HookAssumption
<1> USE DEF TypeOK, OcsTypeOK, HookTypeOK, FileTypeOK, TidyJob, CurrentSafe,
            Located, Holding, Survivable, CAt, At, Goto, FailTo, Exit, ExitClean,
            ocsVars, jobFiles, ExitOK, ExitHostError, ExitReschedule, ExitJobError
<1>4. CASE CPrologStart(j)
  BY <1>0, <1>1, <1>2, <1>3, <1>4, HookAssumption DEF CPrologStart
<1>5. CASE CReadGranted(j)
  BY <1>0, <1>1, <1>2, <1>3, <1>5, HookAssumption DEF CReadGranted,
        CSchedulerExit
<1>6. CASE CCheckHostOffers(j)
  BY <1>0, <1>1, <1>2, <1>3, <1>6, HookAssumption DEF CCheckHostOffers,
        CSchedulerExit
<1>7. CASE COpenJobEnv(j)
  BY <1>0, <1>1, <1>2, <1>3, <1>7, HookAssumption DEF COpenJobEnv
<1>8. CASE CExportSchedulerEnv(j)
  BY <1>0, <1>1, <1>2, <1>3, <1>8, HookAssumption DEF CExportSchedulerEnv
<1>9. CASE CLoadConfig(j)
  BY <1>0, <1>1, <1>2, <1>3, <1>9, HookAssumption DEF CLoadConfig
<1>10. CASE CNewResource(j)
  BY <1>0, <1>1, <1>2, <1>3, <1>10, HookAssumption DEF CNewResource
<1>11. CASE CAcquire(j)
  BY <1>0, <1>1, <1>2, <1>3, <1>11, HookAssumption DEF CAcquire, Answer
<1>12. CASE CRecordAcquired(j)
  BY <1>0, <1>1, <1>2, <1>3, <1>12, HookAssumption DEF CRecordAcquired
<1>13. CASE CExportRuntimeEnv(j)
  BY <1>0, <1>1, <1>2, <1>3, <1>13, HookAssumption DEF CExportRuntimeEnv,
        CSetAnswer
<1>14. CASE CSetStatus(j)
  BY <1>0, <1>1, <1>2, <1>3, <1>14, HookAssumption DEF CSetStatus, CSetAnswer
<1>15. CASE COpenMetadata(j)
  BY <1>0, <1>1, <1>2, <1>3, <1>15, HookAssumption DEF COpenMetadata
<1>16. CASE CWriteMetadata(j)
  BY <1>0, <1>1, <1>2, <1>3, <1>16, HookAssumption DEF CWriteMetadata
<1>17. CASE CSetPluginError(j)
  BY <1>0, <1>1, <1>2, <1>3, <1>17, HookAssumption DEF CSetPluginError
<1>18. CASE CReleaseAcquired(j)
  BY <1>0, <1>1, <1>2, <1>3, <1>18, HookAssumption DEF CReleaseAcquired,
        Release
<1> QED BY <1>4, <1>5, <1>6, <1>7, <1>8, <1>9, <1>10, <1>11, <1>12, <1>13,
        <1>14, <1>15, <1>16, <1>17, <1>18 DEF CPrologStep

\* The steps of the Go epilog keep the invariant of their job.
LEMMA SessionGoEpilog ==
    ASSUME Survivable, Shape, NEW j \in Jobs, GoEpilogStep(j), TidyJob(j), CurrentSafe(j)
    PROVE TidyJob(j)' /\ CurrentSafe(j)'
<1>0. /\ UNCHANGED ocsVars /\ CurrentToken(j)' = CurrentToken(j)
      /\ phase[j] = "epilog" /\ host[j] \in Hosts
      /\ CurrentToken(j) \in Token
  BY HookFrame, CurrentTokenType DEF ocsVars, CurrentToken, HookStep
<1>1. TypeOK /\ (KeptJob(j) => KeptJob(j)')
  BY <1>0, KeptGrows DEF Shape, HookStep
<1>2. spool[j] \in {NoFile, CurrentToken(j)}
  BY <1>0 DEF Shape, SpoolOwn, TidyJob, At
<1>3. CurrentToken(j) \notin {NoToken, BadToken, NoFile, EmptyFile, TornFile} /\ NoToken # BadToken
  BY <1>0, HookAssumption
<1> USE DEF TypeOK, OcsTypeOK, HookTypeOK, FileTypeOK, TidyJob, CurrentSafe,
            Located, Holding, Survivable, GoEpilogAt, At, Goto, FailTo, Exit, ExitClean,
            ocsVars, jobFiles
<1>4. CASE GoEpilogStart(j)
  BY <1>0, <1>1, <1>2, <1>3, <1>4, HookAssumption DEF GoEpilogStart
<1>5. CASE GoReadMetadata(j)
  BY <1>0, <1>1, <1>2, <1>3, <1>5, HookAssumption DEF GoReadMetadata,
        GoReadStrictSingle, GoRecordToken
<1>6. CASE GoReleaseRecord(j)
  BY <1>0, <1>1, <1>2, <1>3, <1>6, HookAssumption DEF GoReleaseRecord, Answer,
        Release
<1>7. CASE GoRemoveMetadata(j)
  BY <1>0, <1>1, <1>2, <1>3, <1>7, HookAssumption DEF GoRemoveMetadata
<1>8. CASE GoPreserveFailedRelease(j)
  <2>1. spool[j] = CurrentToken(j) => kept'[host[j]][j] # NoFile
    BY <1>0, <1>1, <1>3, <1>8 DEF GoPreserveFailedRelease
  <2>2. CurrentSafe(j)'
    BY <1>0, <1>1, <1>8, <2>1 DEF GoPreserveFailedRelease, KeptJob
  <2>3. TidyJob(j)'
    BY <1>0, <1>1, <1>2, <1>3, <1>8, HookAssumption DEF GoPreserveFailedRelease
  <2> QED BY <2>2, <2>3
<1>9. CASE GoPublishSummary(j)
  BY <1>0, <1>1, <1>2, <1>3, <1>9, HookAssumption DEF GoPublishSummary
<1> QED BY <1>4, <1>5, <1>6, <1>7, <1>8, <1>9 DEF GoEpilogStep

\* The steps of the C epilog keep the invariant of their job.
LEMMA SessionCEpilog ==
    ASSUME Survivable, Shape, NEW j \in Jobs, CEpilogStep(j), TidyJob(j), CurrentSafe(j)
    PROVE TidyJob(j)' /\ CurrentSafe(j)'
<1>0. /\ UNCHANGED ocsVars /\ CurrentToken(j)' = CurrentToken(j)
      /\ phase[j] = "epilog" /\ host[j] \in Hosts
      /\ CurrentToken(j) \in Token
  BY HookFrame, CurrentTokenType DEF ocsVars, CurrentToken, HookStep
<1>1. TypeOK /\ (KeptJob(j) => KeptJob(j)')
  BY <1>0, KeptGrows DEF Shape, HookStep
<1>2. spool[j] \in {NoFile, CurrentToken(j)}
  BY <1>0 DEF Shape, SpoolOwn, TidyJob, At
<1>3. CurrentToken(j) \notin {NoToken, BadToken, NoFile, EmptyFile, TornFile} /\ NoToken # BadToken
  BY <1>0, HookAssumption
<1> USE DEF TypeOK, OcsTypeOK, HookTypeOK, FileTypeOK, TidyJob, CurrentSafe,
            Located, Holding, Survivable, CEpilogAt, At, Goto, FailTo, Exit, ExitClean,
            ocsVars, jobFiles
<1>4. CASE CEpilogStart(j)
  BY <1>0, <1>1, <1>2, <1>3, <1>4, HookAssumption DEF CEpilogStart
<1>5. CASE CReadMetadata(j)
  BY <1>0, <1>1, <1>2, <1>3, <1>5, HookAssumption DEF CReadMetadata,
        CReadRecords, CRecordToken
<1>6. CASE CReleaseRecord(j)
  BY <1>0, <1>1, <1>2, <1>3, <1>6, HookAssumption DEF CReleaseRecord, Answer,
        Release
<1>7. CASE CRemoveMetadata(j)
  BY <1>0, <1>1, <1>2, <1>3, <1>7, HookAssumption DEF CRemoveMetadata
<1>8. CASE CPreserveFailedRelease(j)
  <2>1. spool[j] = CurrentToken(j) => kept'[host[j]][j] # NoFile
    BY <1>0, <1>1, <1>3, <1>8 DEF CPreserveFailedRelease
  <2>2. CurrentSafe(j)'
    BY <1>0, <1>1, <1>8, <2>1 DEF CPreserveFailedRelease, KeptJob
  <2>3. TidyJob(j)'
    BY <1>0, <1>1, <1>2, <1>3, <1>8, HookAssumption DEF CPreserveFailedRelease
  <2> QED BY <2>2, <2>3
<1>9. CASE CPublishSummary(j)
  BY <1>0, <1>1, <1>2, <1>3, <1>9, HookAssumption DEF CPublishSummary
<1> QED BY <1>4, <1>5, <1>6, <1>7, <1>8, <1>9 DEF CEpilogStep

\* Every step of a hook keeps the invariant.
LEMMA SessionHooks ==
    ASSUME Survivable, Shape, SessionInv, NEW j \in Jobs, HookStep(j)
    PROVE SessionInv'
<1>1. /\ UNCHANGED ocsVars /\ \A k \in Jobs : CurrentToken(k)' = CurrentToken(k)
      /\ host[j] \in Hosts
  BY HookFrame, CurrentTokenType DEF ocsVars, CurrentToken, HookStep
<1>2. ASSUME NEW k \in Jobs PROVE EarlierSafe(k)'
  <2>1. KeptJob(k) => KeptJob(k)'
    BY <1>1, KeptGrows DEF Shape
  <2>2. ASSUME NEW t \in sessions', t[1] = k, t # CurrentToken(k) PROVE t \in sessions
    BY <2>2, SessionsOfStep DEF CurrentToken
  <2> QED BY <1>1, <2>1, <2>2 DEF EarlierSafe, SessionInv
<1>3. ASSUME NEW k \in Jobs, k # j PROVE TidyJob(k)' /\ CurrentSafe(k)'
  BY <1>3, SessionOthers DEF SessionInv
<1>4. TidyJob(j)' /\ CurrentSafe(j)'
  BY SessionGoProlog, SessionCProlog, SessionGoEpilog, SessionCEpilog
     DEF HookStep, SessionInv
<1> QED BY <1>2, <1>3, <1>4 DEF SessionInv

\* Every step of the scheduler keeps the invariant: OCS reaps a spool
\* directory, or dispatches the job anew, only when no token is located there.
LEMMA SessionScheduler ==
    ASSUME Survivable, Shape, SessionInv,
           \/ \E j \in Jobs : OcsStep(j) \/ FaultStep(j)
           \/ \E h \in Hosts : ClearQueueError(h)
    PROVE SessionInv'
<1> USE DEF Shape, TypeOK, OcsTypeOK, HookTypeOK, FileTypeOK, SessionInv, At,
            ocsVars, hookVars, jobFiles
<1>0. sessions' = sessions /\ kept' = kept
  BY DEF Survivable, OcsStep, FaultStep, Dispatch, PrologExits, JobEnds, EpilogExits,
         Reap, KillHook, HostCrash, ClearQueueError
<1>1. ASSUME NEW j \in Jobs, NEW h \in Hosts, Dispatch(j, h) PROVE SessionInv'
  <2>1. ASSUME NEW k \in Jobs, k # j
        PROVE TidyJob(k)' /\ CurrentSafe(k)' /\ EarlierSafe(k)'
    <3>1. CurrentToken(k)' = CurrentToken(k)
      BY <1>1, <2>1 DEF Dispatch, CurrentToken
    <3> QED BY <1>0, <1>1, <2>1, <3>1
           DEF Dispatch, StartHook, TidyJob, CurrentSafe, EarlierSafe, Located, KeptJob
  <2>2. TidyJob(j)'
    BY <1>1, HookAssumption DEF Dispatch, StartHook, SpoolOwn, TidyJob
  <2>3. ASSUME NEW t \in sessions, t[1] = j PROVE KeptJob(j)
    BY <1>1, <2>3 DEF Dispatch, CurrentSafe, EarlierSafe, Located
  <2>4. CurrentSafe(j)' /\ EarlierSafe(j)'
    BY <1>0, <2>3 DEF CurrentSafe, EarlierSafe, CurrentToken, KeptJob
  <2> QED BY <2>1, <2>2, <2>4
<1>2. ASSUME NEW j \in Jobs, PrologExits(j) PROVE SessionInv'
  BY <1>0, <1>2, HookAssumption
     DEF PrologExits, StartHook, TidyJob, CurrentSafe, EarlierSafe, Located, KeptJob,
         Holding, CurrentToken, HookMemory, SpoolOwn
<1>3. ASSUME NEW j \in Jobs, JobEnds(j) PROVE SessionInv'
  BY <1>0, <1>3, HookAssumption
     DEF JobEnds, StartHook, TidyJob, CurrentSafe, EarlierSafe, Located, KeptJob,
         Holding, CurrentToken, HookMemory, SpoolOwn
<1>4. ASSUME NEW j \in Jobs, EpilogExits(j) PROVE SessionInv'
  BY <1>0, <1>4, HookAssumption
     DEF EpilogExits, TidyJob, CurrentSafe, EarlierSafe, Located, KeptJob,
         Holding, CurrentToken, HookMemory, SpoolOwn
<1>5. ASSUME NEW j \in Jobs, Reap(j) PROVE SessionInv'
  <2>1. phase'[j] \in {"pending", "done", "joberror"}
    BY <1>5 DEF Reap
  <2>2. \A k \in Jobs : CurrentToken(k)' = CurrentToken(k)
    BY <1>5 DEF Reap, CurrentToken
  <2>3. ASSUME NEW k \in Jobs, k # j
        PROVE TidyJob(k)' /\ CurrentSafe(k)' /\ EarlierSafe(k)'
    BY <1>0, <1>5, <2>2, <2>3
       DEF Reap, TidyJob, CurrentSafe, EarlierSafe, Located, KeptJob
  <2>4. TidyJob(j)'
    BY <1>5, <2>1, HookAssumption DEF Reap, TidyJob
  <2>5. CurrentSafe(j)' /\ EarlierSafe(j)'
    BY <1>0, <1>5, <2>2 DEF Reap, CurrentSafe, EarlierSafe, Located, KeptJob
  <2> QED BY <2>3, <2>4, <2>5
<1>6. ASSUME NEW j \in Jobs, FaultStep(j) PROVE SessionInv'
  BY <1>6 DEF FaultStep, KillHook, HostCrash, Survivable
<1>7. ASSUME NEW h \in Hosts, ClearQueueError(h) PROVE SessionInv'
  BY <1>0, <1>7 DEF ClearQueueError, TidyJob, CurrentSafe, EarlierSafe, Located, KeptJob,
              CurrentToken
<1> QED BY <1>1, <1>2, <1>3, <1>4, <1>5, <1>6, <1>7 DEF OcsStep

\* SessionInv is an invariant under survivable faults.
THEOREM SessionInvariant ==
    ASSUME Survivable PROVE Spec => [](Shape /\ SessionInv)
<1>1. Init => SessionInv
  BY HookAssumption DEF Init, SessionInv, TidyJob, CurrentSafe, EarlierSafe, At
<1>2. Shape /\ SessionInv /\ [Next]_vars => SessionInv'
  <2> SUFFICES ASSUME Shape, SessionInv, [Next]_vars PROVE SessionInv'
    OBVIOUS
  <2>1. CASE UNCHANGED vars
    BY <2>1 DEF SessionInv, TidyJob, CurrentSafe, EarlierSafe, Located, KeptJob,
                CurrentToken, At, vars, ocsVars, hookVars, jobFiles
  <2> QED BY <2>1, SessionHooks, SessionScheduler DEF Next, Terminated
<1> QED BY <1>1, <1>2, ShapeInvariant, PTL DEF Spec

\* No session is orphaned, whatever survivable faults occur: an open session
\* has its token in a hook's memory or in its job's metadata file, or a
\* failed release of its job is kept for the administrator.
THEOREM NoSessionOrphaned ==
    ASSUME Survivable PROVE Spec => []SessionsAccounted
<1>1. Shape /\ SessionInv => SessionsAccounted
  <2> SUFFICES ASSUME Shape, SessionInv, NEW t \in sessions
               PROVE tok[t[1]] = t \/ spool[t[1]] = t \/ KeptFor(t)
    BY DEF SessionsAccounted
  <2>1. t[1] \in Jobs
    BY DEF Shape, TypeOK, FileTypeOK, Token
  <2>2. KeptJob(t[1]) => KeptFor(t)
    BY DEF KeptJob, KeptFor
  <2>3. CASE Located(t[1]) /\ t = CurrentToken(t[1])
    BY <2>1, <2>3 DEF Located, Shape, HookMemory
  <2> QED BY <2>1, <2>2, <2>3 DEF SessionInv, CurrentSafe, EarlierSafe
<1> QED BY <1>1, SessionInvariant, PTL
=============================================================================

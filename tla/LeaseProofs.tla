------------------------------ MODULE LeaseProofs -----------------------------
(***************************************************************************)
(* Under survivable faults the hooks and the scheduler implement           *)
(* SessionLease: every step acquires, closes, lets go of or parks the      *)
(* session of one job's current run, or leaves the abstract state alone.   *)
(***************************************************************************)
EXTENDS SessionProofs

\* The labels of the prolog before it acquires.
Before == {"start", "granted", "offers", "env", "config", "slots", "resource", "acquire"}

\* No session of a later dispatch exists, and until the prolog has acquired
\* there is neither a session nor a metadata file of this dispatch.
FreshJob(j) ==
    /\ \A n \in Nat : <<j, n>> \in sessions => n <= attempts[j]
    /\ (phase[j] = "prolog" /\ pc[j] \in Before) =>
          CurrentToken(j) \notin sessions /\ spool[j] = NoFile

FreshInv == \A j \in Jobs : FreshJob(j)

\* Somebody holds the token of the job's current run.
HeldBy(j) == CurrentToken(j) \in {tok[j], spool[j]}

-----------------------------------------------------------------------------
\* A prolog that has not acquired after a step had not before it, and the
\* step changed neither sessions nor metadata files.
LEMMA StillBefore ==
    ASSUME TypeOK, NEW j \in Jobs, GoPrologStep(j) \/ CPrologStep(j), pc'[j] \in Before
    PROVE pc[j] \in Before /\ sessions' = sessions /\ spool' = spool
<1> USE DEF TypeOK, HookTypeOK, Before, GoAt, CAt, At, Goto, FailTo, Exit, ExitClean,
            jobFiles
<1>1. CASE GoPrologStep(j)
  BY <1>1 DEF GoPrologStep, GoPrologStart, GoReadGranted, GoCheckHostOffers,
        GoOpenJobEnv, GoLoadConfig, GoExportSchedulerJobEnv, GoNewResource,
        GoAcquire, GoExportRuntimeEnv, GoWriteAtomic, GoSetStatus, GoAbort,
        GoReportError
<1>2. CASE CPrologStep(j)
  BY <1>2 DEF CPrologStep, CPrologStart, CReadGranted, CCheckHostOffers,
        COpenJobEnv, CExportSchedulerEnv, CLoadConfig, CNewResource, CAcquire,
        CRecordAcquired, CExportRuntimeEnv, CSetStatus, COpenMetadata,
        CWriteMetadata, CSetPluginError, CReleaseAcquired
<1> QED BY <1>1, <1>2

\* Every step of a hook keeps FreshInv.
LEMMA FreshHooks ==
    ASSUME Shape, FreshInv, NEW j \in Jobs, HookStep(j)
    PROVE FreshInv'
<1>1. UNCHANGED ocsVars /\ \A k \in Jobs : CurrentToken(k)' = CurrentToken(k)
  BY HookFrame DEF ocsVars, CurrentToken
<1>2. attempts \in [Jobs -> 0..MaxAttempts] /\ TypeOK
  BY DEF Shape, TypeOK, OcsTypeOK
<1>3. ASSUME NEW k \in Jobs, NEW n \in Nat, <<k, n>> \in sessions'
      PROVE n <= attempts'[k]
  <2>1. <<k, n>> \in sessions \/ (k = j /\ n = attempts[k])
    BY <1>3, SessionsOfStep DEF CurrentToken
  <2> QED BY <1>1, <1>2, <2>1, HookAssumption DEF FreshInv, FreshJob, ocsVars
<1>4. ASSUME NEW k \in Jobs, phase[k] = "prolog", pc'[k] \in Before
      PROVE CurrentToken(k) \notin sessions' /\ spool'[k] = NoFile
  <2>1. CASE k # j
    <3>1. Untouched(k) /\ (CurrentToken(k) \in sessions' => CurrentToken(k) \in sessions)
      BY <1>2, <2>1, OthersUntouched, SessionsOfStep DEF CurrentToken
    <3> QED BY <1>4, <3>1 DEF FreshInv, FreshJob, Untouched
  <2>2. CASE k = j
    BY <1>2, <1>4, <2>2, StillBefore, HookFrame DEF FreshInv, FreshJob, HookStep
  <2> QED BY <2>1, <2>2
<1> QED BY <1>1, <1>3, <1>4 DEF FreshInv, FreshJob, ocsVars

\* Every other step keeps FreshInv: a dispatch counts up to a token that no
\* session has yet.
LEMMA FreshScheduler ==
    ASSUME Shape, FreshInv,
           \/ \E j \in Jobs : OcsStep(j) \/ FaultStep(j)
           \/ \E h \in Hosts : ClearQueueError(h)
    PROVE FreshInv'
<1>0. sessions' = sessions
  BY DEF OcsStep, FaultStep, Dispatch, PrologExits, JobEnds, EpilogExits,
         Reap, KillHook, HostCrash, ClearQueueError
<1> USE DEF Shape, TypeOK, OcsTypeOK, HookTypeOK, FileTypeOK, FreshInv, FreshJob,
            Before, At, ocsVars, hookVars, jobFiles
<1>1. ASSUME NEW j \in Jobs, NEW h \in Hosts, Dispatch(j, h) PROVE FreshInv'
  <2>1. ASSUME NEW k \in Jobs, k # j PROVE FreshJob(k)'
    BY <1>0, <1>1, <2>1 DEF Dispatch, StartHook, CurrentToken
  <2>2. attempts[j] \in Nat /\ attempts'[j] = attempts[j] + 1
    BY <1>1, HookAssumption DEF Dispatch
  <2>3. ASSUME NEW n \in Nat, <<j, n>> \in sessions PROVE n <= attempts[j]
    BY <2>3
  <2>4. CurrentToken(j)' \notin sessions
    BY <2>2, <2>3 DEF CurrentToken
  <2>5. spool'[j] = NoFile
    BY <1>1 DEF Dispatch, SpoolOwn
  <2>6. FreshJob(j)'
    BY <1>0, <2>2, <2>3, <2>4, <2>5
  <2> QED BY <2>1, <2>6
<1>2. ASSUME NEW j \in Jobs, PrologExits(j) PROVE FreshInv'
  BY <1>0, <1>2 DEF PrologExits, StartHook, CurrentToken
<1>3. ASSUME NEW j \in Jobs, JobEnds(j) PROVE FreshInv'
  BY <1>0, <1>3 DEF JobEnds, StartHook, CurrentToken
<1>4. ASSUME NEW j \in Jobs, EpilogExits(j) PROVE FreshInv'
  BY <1>0, <1>4 DEF EpilogExits, CurrentToken
<1>5. ASSUME NEW j \in Jobs, Reap(j) PROVE FreshInv'
  BY <1>0, <1>5 DEF Reap, CurrentToken
<1>6. ASSUME NEW j \in Jobs, FaultStep(j) PROVE FreshInv'
  BY <1>0, <1>6 DEF FaultStep, KillHook, HostCrash, Exit, FailTo, CurrentToken
<1>7. ASSUME NEW h \in Hosts, ClearQueueError(h) PROVE FreshInv'
  BY <1>0, <1>7 DEF ClearQueueError, CurrentToken
<1> QED BY <1>1, <1>2, <1>3, <1>4, <1>5, <1>6, <1>7 DEF OcsStep

\* FreshInv is an invariant of every instance.
THEOREM FreshInvariant == Spec => [](Shape /\ FreshInv)
<1>1. Init => FreshInv
  BY DEF Init, FreshInv, FreshJob
<1>2. Shape /\ FreshInv /\ [Next]_vars => FreshInv'
  <2> SUFFICES ASSUME Shape, FreshInv, [Next]_vars PROVE FreshInv'
    OBVIOUS
  <2>1. CASE UNCHANGED vars
    BY <2>1 DEF FreshInv, FreshJob, CurrentToken, vars, ocsVars, hookVars, jobFiles
  <2> QED BY <2>1, FreshHooks, FreshScheduler DEF Next, Terminated
<1> QED BY <1>1, <1>2, ShapeInvariant, PTL DEF Spec

-----------------------------------------------------------------------------
(***************************************************************************)
(* The steps of the lease, in terms of one job: its current token, who     *)
(* holds it, and whether a record of the job is kept.                      *)
(***************************************************************************)
Opens(j) ==
    /\ CurrentToken(j) \notin sessions /\ ~HeldBy(j)
    /\ sessions' = sessions \cup {CurrentToken(j)}
    /\ HeldBy(j)' /\ UNCHANGED kept

Closes(j) ==
    /\ HeldBy(j)
    /\ sessions' = sessions \ {CurrentToken(j)}
    /\ UNCHANGED kept

Drops(j) ==
    /\ HeldBy(j) /\ ~HeldBy(j)'
    /\ CurrentToken(j) \notin sessions \/ KeptJob(j)
    /\ UNCHANGED <<sessions, kept>>

Parks(j) ==
    /\ HeldBy(j) /\ KeptJob(j)'
    /\ UNCHANGED sessions

Rests(j) ==
    /\ HeldBy(j)' <=> HeldBy(j)
    /\ UNCHANGED <<sessions, kept>>

Moves(j) == Opens(j) \/ Closes(j) \/ Drops(j) \/ Parks(j) \/ Rests(j)

\* The steps of the Go prolog: Acquire opens, the release after a failure closes.
LEMMA MovesGoProlog ==
    ASSUME Survivable, Shape, SessionInv, FreshInv, NEW j \in Jobs, GoPrologStep(j)
    PROVE Moves(j)
<1>0. /\ CurrentToken(j)' = CurrentToken(j) /\ CurrentToken(j) \in Token
      /\ phase[j] = "prolog" /\ host[j] \in Hosts
  BY HookFrame, CurrentTokenType DEF ocsVars, CurrentToken, HookStep
<1>1. TypeOK /\ TidyJob(j) /\ CurrentSafe(j) /\ FreshJob(j)
  BY DEF Shape, SessionInv, FreshInv
<1>2. /\ tok[j] \in {NoToken, CurrentToken(j)}
      /\ tok[j] # NoToken =>
            \/ phase[j] = "prolog" /\ pc[j] \in Holding \cup {"abort"}
            \/ PrologImpl = "c" /\ At(j, "prolog", "report")
            \/ At(j, "epilog", "release")
      /\ (phase[j] = "prolog" /\ pc[j] \in Holding) => tok[j] = CurrentToken(j)
      /\ (PrologImpl = "go" /\ At(j, "prolog", "abort")) => tok[j] = CurrentToken(j)
      /\ spool[j] \in {NoFile, EmptyFile, TornFile, CurrentToken(j)}
  BY <1>1 DEF Shape, HookMemory, SpoolOwn, TidyJob
<1>3. CurrentToken(j) \notin {NoToken, BadToken, NoFile, EmptyFile, TornFile} /\ NoToken # BadToken
  BY <1>0, HookAssumption
<1> USE DEF TypeOK, HookTypeOK, FileTypeOK, TidyJob, CurrentSafe, FreshJob, Located,
            Holding, Survivable, GoAt, At, Goto, FailTo, Exit, ExitClean, jobFiles,
            Moves, Opens, Closes, Drops, Parks, Rests, HeldBy
<1>4. CASE GoPrologStart(j)
  BY <1>0, <1>1, <1>2, <1>3, <1>4, HookAssumption DEF GoPrologStart
<1>5. CASE GoReadGranted(j)
  BY <1>0, <1>1, <1>2, <1>3, <1>5, HookAssumption DEF GoReadGranted
<1>6. CASE GoCheckHostOffers(j)
  BY <1>0, <1>1, <1>2, <1>3, <1>6, HookAssumption DEF GoCheckHostOffers
<1>7. CASE GoOpenJobEnv(j)
  BY <1>0, <1>1, <1>2, <1>3, <1>7, HookAssumption DEF GoOpenJobEnv
<1>8. CASE GoLoadConfig(j)
  BY <1>0, <1>1, <1>2, <1>3, <1>8, HookAssumption DEF GoLoadConfig
<1>9. CASE GoExportSchedulerJobEnv(j)
  BY <1>0, <1>1, <1>2, <1>3, <1>9, HookAssumption DEF GoExportSchedulerJobEnv
<1>10. CASE GoNewResource(j)
  BY <1>0, <1>1, <1>2, <1>3, <1>10, HookAssumption DEF GoNewResource
<1>11. CASE GoAcquire(j)
  BY <1>0, <1>1, <1>2, <1>3, <1>11, HookAssumption DEF GoAcquire, Answer, Before
<1>12. CASE GoExportRuntimeEnv(j)
  BY <1>0, <1>1, <1>2, <1>3, <1>12, HookAssumption DEF GoExportRuntimeEnv
<1>13. CASE GoWriteAtomic(j)
  BY <1>0, <1>1, <1>2, <1>3, <1>13, HookAssumption DEF GoWriteAtomic
<1>14. CASE GoSetStatus(j)
  BY <1>0, <1>1, <1>2, <1>3, <1>14, HookAssumption DEF GoSetStatus, GoSetAnswer, Answer
<1>15. CASE GoAbort(j)
  BY <1>0, <1>1, <1>2, <1>3, <1>15, HookAssumption DEF GoAbort, Answer, Release
<1>16. CASE GoReportError(j)
  BY <1>0, <1>1, <1>2, <1>3, <1>16, HookAssumption DEF GoReportError
<1> QED BY <1>4, <1>5, <1>6, <1>7, <1>8, <1>9, <1>10, <1>11, <1>12, <1>13, <1>14, <1>15,
           <1>16 DEF GoPrologStep

\* The steps of the C prolog.
LEMMA MovesCProlog ==
    ASSUME Survivable, Shape, SessionInv, FreshInv, NEW j \in Jobs, CPrologStep(j)
    PROVE Moves(j)
<1>0. /\ CurrentToken(j)' = CurrentToken(j) /\ CurrentToken(j) \in Token
      /\ phase[j] = "prolog" /\ host[j] \in Hosts
  BY HookFrame, CurrentTokenType DEF ocsVars, CurrentToken, HookStep
<1>1. TypeOK /\ TidyJob(j) /\ CurrentSafe(j) /\ FreshJob(j)
  BY DEF Shape, SessionInv, FreshInv
<1>2. /\ tok[j] \in {NoToken, CurrentToken(j)}
      /\ tok[j] # NoToken =>
            \/ phase[j] = "prolog" /\ pc[j] \in Holding \cup {"abort"}
            \/ PrologImpl = "c" /\ At(j, "prolog", "report")
            \/ At(j, "epilog", "release")
      /\ (phase[j] = "prolog" /\ pc[j] \in Holding) => tok[j] = CurrentToken(j)
      /\ (PrologImpl = "go" /\ At(j, "prolog", "abort")) => tok[j] = CurrentToken(j)
      /\ spool[j] \in {NoFile, EmptyFile, TornFile, CurrentToken(j)}
  BY <1>1 DEF Shape, HookMemory, SpoolOwn, TidyJob
<1>3. CurrentToken(j) \notin {NoToken, BadToken, NoFile, EmptyFile, TornFile} /\ NoToken # BadToken
  BY <1>0, HookAssumption
<1> USE DEF TypeOK, HookTypeOK, FileTypeOK, TidyJob, CurrentSafe, FreshJob, Located,
            Holding, Survivable, CAt, At, Goto, FailTo, Exit, ExitClean, jobFiles,
            Moves, Opens, Closes, Drops, Parks, Rests, HeldBy
<1>4. CASE CPrologStart(j)
  BY <1>0, <1>1, <1>2, <1>3, <1>4, HookAssumption DEF CPrologStart
<1>5. CASE CReadGranted(j)
  BY <1>0, <1>1, <1>2, <1>3, <1>5, HookAssumption DEF CReadGranted
<1>6. CASE CCheckHostOffers(j)
  BY <1>0, <1>1, <1>2, <1>3, <1>6, HookAssumption DEF CCheckHostOffers
<1>7. CASE COpenJobEnv(j)
  BY <1>0, <1>1, <1>2, <1>3, <1>7, HookAssumption DEF COpenJobEnv
<1>8. CASE CExportSchedulerEnv(j)
  BY <1>0, <1>1, <1>2, <1>3, <1>8, HookAssumption DEF CExportSchedulerEnv
<1>9. CASE CLoadConfig(j)
  BY <1>0, <1>1, <1>2, <1>3, <1>9, HookAssumption DEF CLoadConfig
<1>10. CASE CNewResource(j)
  BY <1>0, <1>1, <1>2, <1>3, <1>10, HookAssumption DEF CNewResource
<1>11. CASE CAcquire(j)
  BY <1>0, <1>1, <1>2, <1>3, <1>11, HookAssumption DEF CAcquire, Answer, Before
<1>12. CASE CRecordAcquired(j)
  BY <1>0, <1>1, <1>2, <1>3, <1>12, HookAssumption DEF CRecordAcquired
<1>13. CASE CExportRuntimeEnv(j)
  BY <1>0, <1>1, <1>2, <1>3, <1>13, HookAssumption DEF CExportRuntimeEnv
<1>14. CASE CSetStatus(j)
  BY <1>0, <1>1, <1>2, <1>3, <1>14, HookAssumption DEF CSetStatus
<1>15. CASE COpenMetadata(j)
  BY <1>0, <1>1, <1>2, <1>3, <1>15, HookAssumption DEF COpenMetadata
<1>16. CASE CWriteMetadata(j)
  BY <1>0, <1>1, <1>2, <1>3, <1>16, HookAssumption DEF CWriteMetadata
<1>17. CASE CSetPluginError(j)
  BY <1>0, <1>1, <1>2, <1>3, <1>17, HookAssumption DEF CSetPluginError
<1>18. CASE CReleaseAcquired(j)
  BY <1>0, <1>1, <1>2, <1>3, <1>18, HookAssumption DEF CReleaseAcquired, Release
<1> QED BY <1>4, <1>5, <1>6, <1>7, <1>8, <1>9, <1>10, <1>11, <1>12, <1>13, <1>14, <1>15,
           <1>16, <1>17, <1>18 DEF CPrologStep

\* The steps of the Go epilog: a release closes, the removal of the file lets go,
\* and keeping it parks.
LEMMA MovesGoEpilog ==
    ASSUME Survivable, Shape, SessionInv, FreshInv, NEW j \in Jobs, GoEpilogStep(j)
    PROVE Moves(j)
<1>0. /\ CurrentToken(j)' = CurrentToken(j) /\ CurrentToken(j) \in Token
      /\ phase[j] = "epilog" /\ host[j] \in Hosts
  BY HookFrame, CurrentTokenType DEF ocsVars, CurrentToken, HookStep
<1>1. TypeOK /\ TidyJob(j) /\ CurrentSafe(j) /\ FreshJob(j)
  BY DEF Shape, SessionInv, FreshInv
<1>2. /\ tok[j] \in {NoToken, CurrentToken(j)}
      /\ tok[j] # NoToken =>
            \/ phase[j] = "prolog" /\ pc[j] \in Holding \cup {"abort"}
            \/ PrologImpl = "c" /\ At(j, "prolog", "report")
            \/ At(j, "epilog", "release")
      /\ (phase[j] = "prolog" /\ pc[j] \in Holding) => tok[j] = CurrentToken(j)
      /\ (PrologImpl = "go" /\ At(j, "prolog", "abort")) => tok[j] = CurrentToken(j)
      /\ spool[j] \in {NoFile, EmptyFile, TornFile, CurrentToken(j)}
  BY <1>1 DEF Shape, HookMemory, SpoolOwn, TidyJob
<1>3. CurrentToken(j) \notin {NoToken, BadToken, NoFile, EmptyFile, TornFile} /\ NoToken # BadToken
  BY <1>0, HookAssumption
<1> USE DEF TypeOK, HookTypeOK, FileTypeOK, TidyJob, CurrentSafe, FreshJob, Located,
            Holding, Survivable, GoEpilogAt, At, Goto, FailTo, Exit, ExitClean, jobFiles,
            Moves, Opens, Closes, Drops, Parks, Rests, HeldBy
<1>4. CASE GoEpilogStart(j)
  BY <1>0, <1>1, <1>2, <1>3, <1>4, HookAssumption DEF GoEpilogStart
<1>5. CASE GoReadMetadata(j)
  BY <1>0, <1>1, <1>2, <1>3, <1>5, HookAssumption
     DEF GoReadMetadata, GoReadStrictSingle, GoRecordToken
<1>6. CASE GoReleaseRecord(j)
  BY <1>0, <1>1, <1>2, <1>3, <1>6, HookAssumption DEF GoReleaseRecord, Release
<1>7. CASE GoRemoveMetadata(j)
  BY <1>0, <1>1, <1>2, <1>3, <1>7, HookAssumption DEF GoRemoveMetadata
<1>8. CASE GoPreserveFailedRelease(j)
  <2>1. CASE spool[j] = CurrentToken(j) /\ kept[host[j]][j] = NoFile
    <3>1. kept'[host[j]][j] # NoFile
      BY <1>0, <1>1, <1>3, <1>8, <2>1 DEF GoPreserveFailedRelease
    <3> QED BY <1>0, <1>8, <2>1, <3>1 DEF GoPreserveFailedRelease, KeptJob
  <2>2. CASE spool[j] # CurrentToken(j)
    BY <1>0, <1>1, <1>2, <1>3, <1>8, <2>2 DEF GoPreserveFailedRelease
  <2>3. CASE kept[host[j]][j] # NoFile
    BY <1>0, <1>1, <1>2, <1>3, <1>8, <2>3 DEF GoPreserveFailedRelease
  <2> QED BY <2>1, <2>2, <2>3
<1>9. CASE GoPublishSummary(j)
  BY <1>0, <1>1, <1>2, <1>3, <1>9, HookAssumption DEF GoPublishSummary
<1> QED BY <1>4, <1>5, <1>6, <1>7, <1>8, <1>9 DEF GoEpilogStep

\* The steps of the C epilog.
LEMMA MovesCEpilog ==
    ASSUME Survivable, Shape, SessionInv, FreshInv, NEW j \in Jobs, CEpilogStep(j)
    PROVE Moves(j)
<1>0. /\ CurrentToken(j)' = CurrentToken(j) /\ CurrentToken(j) \in Token
      /\ phase[j] = "epilog" /\ host[j] \in Hosts
  BY HookFrame, CurrentTokenType DEF ocsVars, CurrentToken, HookStep
<1>1. TypeOK /\ TidyJob(j) /\ CurrentSafe(j) /\ FreshJob(j)
  BY DEF Shape, SessionInv, FreshInv
<1>2. /\ tok[j] \in {NoToken, CurrentToken(j)}
      /\ tok[j] # NoToken =>
            \/ phase[j] = "prolog" /\ pc[j] \in Holding \cup {"abort"}
            \/ PrologImpl = "c" /\ At(j, "prolog", "report")
            \/ At(j, "epilog", "release")
      /\ (phase[j] = "prolog" /\ pc[j] \in Holding) => tok[j] = CurrentToken(j)
      /\ (PrologImpl = "go" /\ At(j, "prolog", "abort")) => tok[j] = CurrentToken(j)
      /\ spool[j] \in {NoFile, EmptyFile, TornFile, CurrentToken(j)}
  BY <1>1 DEF Shape, HookMemory, SpoolOwn, TidyJob
<1>3. CurrentToken(j) \notin {NoToken, BadToken, NoFile, EmptyFile, TornFile} /\ NoToken # BadToken
  BY <1>0, HookAssumption
<1> USE DEF TypeOK, HookTypeOK, FileTypeOK, TidyJob, CurrentSafe, FreshJob, Located,
            Holding, Survivable, CEpilogAt, At, Goto, FailTo, Exit, ExitClean, jobFiles,
            Moves, Opens, Closes, Drops, Parks, Rests, HeldBy
<1>4. CASE CEpilogStart(j)
  BY <1>0, <1>1, <1>2, <1>3, <1>4, HookAssumption DEF CEpilogStart
<1>5. CASE CReadMetadata(j)
  BY <1>0, <1>1, <1>2, <1>3, <1>5, HookAssumption DEF CReadMetadata, CReadRecords, CRecordToken
<1>6. CASE CReleaseRecord(j)
  BY <1>0, <1>1, <1>2, <1>3, <1>6, HookAssumption DEF CReleaseRecord, Release
<1>7. CASE CRemoveMetadata(j)
  BY <1>0, <1>1, <1>2, <1>3, <1>7, HookAssumption DEF CRemoveMetadata
<1>8. CASE CPreserveFailedRelease(j)
  <2>1. CASE spool[j] = CurrentToken(j) /\ kept[host[j]][j] = NoFile
    <3>1. kept'[host[j]][j] # NoFile
      BY <1>0, <1>1, <1>3, <1>8, <2>1 DEF CPreserveFailedRelease
    <3> QED BY <1>0, <1>8, <2>1, <3>1 DEF CPreserveFailedRelease, KeptJob
  <2>2. CASE spool[j] # CurrentToken(j)
    BY <1>0, <1>1, <1>2, <1>3, <1>8, <2>2 DEF CPreserveFailedRelease
  <2>3. CASE kept[host[j]][j] # NoFile
    BY <1>0, <1>1, <1>2, <1>3, <1>8, <2>3 DEF CPreserveFailedRelease
  <2> QED BY <2>1, <2>2, <2>3
<1>9. CASE CPublishSummary(j)
  BY <1>0, <1>1, <1>2, <1>3, <1>9, HookAssumption DEF CPublishSummary
<1> QED BY <1>4, <1>5, <1>6, <1>7, <1>8, <1>9 DEF CEpilogStep

-----------------------------------------------------------------------------
\* A token is held by nobody but its own job, and only while it is that of
\* the job's current run.
LEMMA WhoHolds ==
    ASSUME Shape, NEW t \in Token
    PROVE t \in Held <=> (t = CurrentToken(t[1]) /\ HeldBy(t[1]))
<1>1. t[1] \in Jobs
  BY DEF Token
<1>2. ASSUME NEW j \in Jobs, t \in {tok[j], spool[j]}
      PROVE t = CurrentToken(j) /\ j = t[1]
  <2>1. t \notin {NoToken, BadToken, NoFile, EmptyFile, TornFile}
    BY HookAssumption
  <2>2. t = CurrentToken(j)
    BY <1>2, <2>1 DEF Shape, HookMemory, SpoolOwn
  <2> QED BY <2>2 DEF CurrentToken
<1> QED BY <1>1, <1>2 DEF Held, HeldBy

\* A step that touches one job leaves the abstract state of the others alone.
LEMMA OthersHeld ==
    ASSUME Shape, Shape', NEW j \in Jobs, CurrentToken(j)' = CurrentToken(j),
           \A k \in Jobs \ {j} : /\ tok'[k] = tok[k] /\ spool'[k] = spool[k]
                                 /\ \A h \in Hosts : kept'[h][k] = kept[h][k]
    PROVE /\ \A t \in Token \ {CurrentToken(j)} : t \in Held' <=> t \in Held
          /\ \A k \in Jobs \ {j} : k \in Parked' <=> k \in Parked
<1>1. ASSUME NEW t \in Token, t # CurrentToken(j) PROVE t \in Held' <=> t \in Held
  <2>1. ASSUME NEW k \in Jobs, t \in {tok[k], spool[k]} PROVE k # j
    <3>1. t \notin {NoToken, BadToken, NoFile, EmptyFile, TornFile}
      BY HookAssumption
    <3> QED BY <1>1, <2>1, <3>1 DEF Shape, HookMemory, SpoolOwn
  <2>2. ASSUME NEW k \in Jobs, t \in {tok'[k], spool'[k]} PROVE k # j
    <3>1. t \notin {NoToken, BadToken, NoFile, EmptyFile, TornFile}
      BY HookAssumption
    <3>2. /\ tok'[j] \in {NoToken, BadToken, CurrentToken(j)}
          /\ spool'[j] \in {NoFile, EmptyFile, TornFile, CurrentToken(j)}
      BY DEF Shape, HookMemory, SpoolOwn
    <3> QED BY <1>1, <2>2, <3>1, <3>2
  <2> QED BY <1>1, <2>1, <2>2 DEF Held
<1>2. \A k \in Jobs \ {j} : k \in Parked' <=> k \in Parked
  BY DEF Parked
<1> QED BY <1>1, <1>2

\* A move of one job is a step of the lease.
LEMMA MoveIsLeaseStep ==
    ASSUME Shape, Shape', NEW j \in Jobs, Moves(j),
           CurrentToken(j) \in Token, CurrentToken(j)' = CurrentToken(j),
           KeptJob(j) => KeptJob(j)',
           \A k \in Jobs \ {j} : /\ tok'[k] = tok[k] /\ spool'[k] = spool[k]
                                 /\ \A h \in Hosts : kept'[h][k] = kept[h][k]
    PROVE [Lease!Next]_(Lease!leaseVars)
<1> DEFINE c == CurrentToken(j)
<1>1. c[1] = j
  BY DEF CurrentToken
<1>2. (c \in Held <=> HeldBy(j)) /\ (c \in Held' <=> HeldBy(j)')
  <2>1. c \in Held <=> HeldBy(j)
    BY <1>1, WhoHolds
  <2>2. c \in Held' => HeldBy(j)'
    <3>1. ASSUME NEW k \in Jobs, c \in {tok'[k], spool'[k]} PROVE k = j
      <4>1. c \notin {NoToken, BadToken, NoFile, EmptyFile, TornFile}
        BY HookAssumption
      <4>2. CASE k # j
        <5>1. c \in {tok[k], spool[k]}
          BY <3>1, <4>2
        <5>2. c = CurrentToken(k)
          BY <4>1, <5>1 DEF Shape, HookMemory, SpoolOwn
        <5> QED BY <5>2, <4>2 DEF CurrentToken
      <4> QED BY <4>2
    <3> QED BY <3>1 DEF Held, HeldBy
  <2>3. HeldBy(j)' => c \in Held'
    BY DEF Held, HeldBy
  <2> QED BY <2>1, <2>2, <2>3
<1>3. /\ \A t \in Token \ {c} : t \in Held' <=> t \in Held
      /\ \A k \in Jobs \ {j} : k \in Parked' <=> k \in Parked
  BY OthersHeld
<1>4. /\ Held \subseteq Token /\ Held' \subseteq Token
      /\ Parked \subseteq Jobs /\ Parked' \subseteq Jobs
  BY DEF Held, Parked
<1>5. (j \in Parked <=> KeptJob(j)) /\ (j \in Parked' <=> KeptJob(j)')
  BY DEF Parked, KeptJob
<1>6. /\ HeldBy(j)' /\ HeldBy(j) => Held' = Held
      /\ ~HeldBy(j)' /\ ~HeldBy(j) => Held' = Held
      /\ HeldBy(j)' /\ ~HeldBy(j) => Held' = Held \cup {c}
      /\ ~HeldBy(j)' /\ HeldBy(j) => Held' = Held \ {c}
  BY <1>2, <1>3, <1>4
<1>7. UNCHANGED kept => Parked' = Parked
  BY DEF Parked
<1>8. CASE Opens(j)
  <2>1. Lease!Acquire(c)
    BY <1>2, <1>6, <1>7, <1>8 DEF Opens, Lease!Acquire
  <2> QED BY <2>1 DEF Lease!Next
<1>9. CASE Closes(j)
  <2>1. Lease!Close(c)
    BY <1>2, <1>6, <1>7, <1>9 DEF Closes, Lease!Close
  <2> QED BY <2>1 DEF Lease!Next
<1>10. CASE Drops(j)
  <2>1. Lease!LetGo(c)
    BY <1>1, <1>2, <1>5, <1>6, <1>7, <1>10 DEF Drops, Lease!LetGo
  <2> QED BY <2>1 DEF Lease!Next
<1>11. CASE Parks(j)
  <2>1. Parked' = Parked \cup {j}
    BY <1>3, <1>4, <1>5, <1>11 DEF Parks
  <2>2. Lease!Park(c)
    BY <1>1, <1>2, <1>6, <1>11, <2>1 DEF Parks, Lease!Park
  <2> QED BY <2>2 DEF Lease!Next
<1>12. CASE Rests(j)
  BY <1>6, <1>7, <1>12 DEF Rests, Lease!leaseVars
<1> QED BY <1>8, <1>9, <1>10, <1>11, <1>12 DEF Moves

\* Every step of a hook is a step of the lease.
LEMMA LeaseHooks ==
    ASSUME Survivable, Shape, Shape', SessionInv, FreshInv, NEW j \in Jobs, HookStep(j)
    PROVE [Lease!Next]_(Lease!leaseVars)
<1>1. /\ CurrentToken(j)' = CurrentToken(j) /\ CurrentToken(j) \in Token
      /\ host[j] \in Hosts /\ TypeOK
  BY HookFrame, CurrentTokenType DEF ocsVars, CurrentToken, HookStep, Shape
<1>2. Moves(j)
  BY MovesGoProlog, MovesCProlog, MovesGoEpilog, MovesCEpilog DEF HookStep
<1>3. KeptJob(j) => KeptJob(j)'
  BY <1>1, KeptGrows
<1>4. \A k \in Jobs \ {j} : /\ tok'[k] = tok[k] /\ spool'[k] = spool[k]
                            /\ \A h \in Hosts : kept'[h][k] = kept[h][k]
  BY <1>1, OthersUntouched DEF Untouched
<1> QED BY <1>1, <1>2, <1>3, <1>4, MoveIsLeaseStep

\* Every other step is a step of the lease: OCS removes a spool directory
\* only when the session is closed or a record of the job is kept, and no
\* other step of OCS touches a token.
LEMMA LeaseScheduler ==
    ASSUME Survivable, Shape, Shape', SessionInv,
           \/ \E j \in Jobs : OcsStep(j) \/ FaultStep(j)
           \/ \E h \in Hosts : ClearQueueError(h)
    PROVE [Lease!Next]_(Lease!leaseVars)
<1>1. ASSUME UNCHANGED <<tok, spool, kept, sessions>> PROVE UNCHANGED Lease!leaseVars
  BY <1>1 DEF Lease!leaseVars, Held, Parked
<1>2. ASSUME NEW j \in Jobs, tok[j] = NoToken, StartHook(j) PROVE tok' = tok
  BY <1>2 DEF StartHook, Shape, TypeOK, HookTypeOK
<1>3. ASSUME NEW j \in Jobs, NEW h \in Hosts, Dispatch(j, h)
      PROVE UNCHANGED <<tok, spool, kept, sessions>>
  BY <1>2, <1>3 DEF Dispatch, Shape, HookMemory, At
<1>4. ASSUME NEW j \in Jobs, PrologExits(j) PROVE UNCHANGED <<tok, spool, kept, sessions>>
  BY <1>2, <1>4 DEF PrologExits, Shape, HookMemory, Holding, At, hookVars, jobFiles
<1>5. ASSUME NEW j \in Jobs, JobEnds(j) PROVE UNCHANGED <<tok, spool, kept, sessions>>
  BY <1>2, <1>5 DEF JobEnds, Shape, HookMemory, At, jobFiles
<1>6. ASSUME NEW j \in Jobs, EpilogExits(j) PROVE UNCHANGED <<tok, spool, kept, sessions>>
  BY <1>6 DEF EpilogExits, hookVars, jobFiles
<1>7. ASSUME NEW h \in Hosts, ClearQueueError(h) PROVE UNCHANGED <<tok, spool, kept, sessions>>
  BY <1>7 DEF ClearQueueError, hookVars, jobFiles
<1>8. ASSUME NEW j \in Jobs, Reap(j) PROVE [Lease!Next]_(Lease!leaseVars)
  <2>1. CurrentToken(j) \in Token /\ CurrentToken(j)' = CurrentToken(j)
    BY <1>8, CurrentTokenType DEF Reap, CurrentToken
  <2>2. /\ UNCHANGED <<tok, kept, sessions>>
        /\ spool'[j] = NoFile /\ \A k \in Jobs \ {j} : spool'[k] = spool[k]
    BY <1>8 DEF Reap, hookVars, Shape, TypeOK, FileTypeOK
  <2>3. tok[j] = NoToken /\ CurrentToken(j) \notin {NoToken, NoFile}
    BY <1>8, <2>1, HookAssumption DEF Reap, Shape, HookMemory, At
  <2>4. CurrentToken(j) \notin sessions \/ KeptJob(j)
    BY <1>8 DEF Reap, SessionInv, CurrentSafe, Located, At
  <2>5. ~HeldBy(j)'
    BY <2>1, <2>2, <2>3 DEF HeldBy
  <2>6. Moves(j)
    BY <2>2, <2>4, <2>5 DEF Moves, Drops, Rests
  <2>7. KeptJob(j) => KeptJob(j)'
    BY <2>2 DEF KeptJob
  <2> QED BY <2>1, <2>2, <2>6, <2>7, MoveIsLeaseStep
<1>9. ASSUME NEW j \in Jobs PROVE ~FaultStep(j)
  BY DEF FaultStep, KillHook, HostCrash, Survivable
<1> QED BY <1>1, <1>3, <1>4, <1>5, <1>6, <1>7, <1>8, <1>9 DEF OcsStep

\* The hooks and the scheduler implement SessionLease whatever survivable
\* faults occur: a token is let go only once its session is closed or a
\* record of its job is kept (runWithConfig and run of the Go hooks, main of
\* the C ones, PreserveFailedRelease).
THEOREM LeaseImplemented ==
    ASSUME Survivable PROVE Spec => ImplementsLease
<1>1. Init => Lease!Init
  BY HookAssumption DEF Init, Lease!Init, Held, Parked
<1>2. Shape /\ Shape' /\ SessionInv /\ FreshInv /\ [Next]_vars =>
        [Lease!Next]_(Lease!leaseVars)
  <2> SUFFICES ASSUME Shape, Shape', SessionInv, FreshInv, [Next]_vars
               PROVE [Lease!Next]_(Lease!leaseVars)
    OBVIOUS
  <2>1. CASE UNCHANGED vars
    BY <2>1 DEF vars, hookVars, jobFiles, Lease!leaseVars, Held, Parked
  <2> QED BY <2>1, LeaseHooks, LeaseScheduler DEF Next, Terminated
<1> QED BY <1>1, <1>2, SessionInvariant, FreshInvariant, PTL
       DEF Spec, ImplementsLease, Lease!Spec
=============================================================================

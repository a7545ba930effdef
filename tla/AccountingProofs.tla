--------------------------- MODULE AccountingProofs ---------------------------
(***************************************************************************)
(* What the epilog publishes is true: a release reported as done happened, *)
(* a failed one left a record, the count of records is right, and no epilog*)
(* releases a session twice. What the prolog announces is true as well.    *)
(***************************************************************************)
EXTENDS GoRecordProofs

\* Accounting exists only once the epilog has ended, and its two endings are
\* told apart by the flag it publishes.
Ledger(j) ==
    /\ usage[j] # NoUsage =>
          \/ At(j, "epilog", "exit")
          \/ phase[j] \in {"reap", "pending", "done", "joberror"}
    /\ usage[j] # NoUsage => host[j] \in Hosts
    /\ At(j, "epilog", "remove") => ~failed[j]
    /\ At(j, "epilog", "preserve") => failed[j]

\* Behind accounting that reports success: the epilog released the session of
\* the job's last run, and none is open on the way to the publication.
Reported(j) ==
    /\ At(j, "epilog", "release") => tok[j] = CurrentToken(j)
    /\ (phase[j] = "epilog" /\ pc[j] \in {"remove", "publish"} /\ ~failed[j]) =>
          CurrentToken(j) \notin sessions
    /\ (usage[j] # NoUsage /\ usage[j].success = 1) => CurrentToken(j) \notin sessions

\* Behind accounting that reports failure: there was a file to keep, and it
\* or an older one is kept on the job's host.
FailureKept(j) ==
    /\ (phase[j] = "epilog" /\ pc[j] \in {"release", "preserve"}) => spool[j] # NoFile
    /\ (At(j, "epilog", "publish") /\ failed[j]) => kept[host[j]][j] # NoFile
    /\ (usage[j] # NoUsage /\ usage[j].success = 0) => kept[host[j]][j] # NoFile

\* The total the epilog is going to publish: the Go epilog's is constant.
Tallied(j) == IF EpilogImpl = "c" THEN total[j] ELSE 1

\* Behind the published total: on its way the epilog's tally is the number of
\* records in the file it read, and a failed epilog leaves that file behind.
Counted(j) ==
    /\ At(j, "epilog", "release") => RecordsIn(spool[j]) = 1 /\ Tallied(j) = 1
    /\ At(j, "epilog", "remove") => Tallied(j) = 1
    /\ At(j, "epilog", "preserve") =>
          spool[j] # NoFile /\ Tallied(j) = RecordsIn(spool[j])
    /\ At(j, "epilog", "publish") =>
          Tallied(j) = IF failed[j] THEN RecordsIn(FileOf(j)) ELSE 1
    /\ (usage[j] # NoUsage /\ phase[j] \in {"epilog", "reap"}) =>
          usage[j].total = IF usage[j].success = 1 THEN 1 ELSE RecordsIn(FileOf(j))

\* Behind the epilog's release, on a sound disk: a record names an open
\* session until the epilog releases it, because the prolog writes it only
\* after Acquire and never releases once it is written.
Releasable(j) ==
    /\ ~envBroken[j]
    /\ spool[j] # TornFile
    /\ ~(PrologImpl = "go" /\ At(j, "prolog", "abort"))
    /\ (PrologImpl = "c" /\ phase[j] = "prolog" /\ pc[j] # "exit") => spool[j] # CurrentToken(j)
    /\ (phase[j] = "prolog" /\ pc[j] \in Holding) => CurrentToken(j) \in sessions
    /\ (/\ spool[j] = CurrentToken(j)
        /\ \/ phase[j] \in {"prolog", "running"}
           \/ phase[j] = "epilog" /\ pc[j] \in {"start", "read", "release"})
          => CurrentToken(j) \in sessions
    /\ At(j, "epilog", "release") => tok[j] = CurrentToken(j) /\ spool[j] = CurrentToken(j)

\* No torn record can be in a spool directory: only a write of the C prolog that
\* meets a full disk leaves one.
SoundRecords == PrologImpl = "go" \/ "disk" \notin Faults

\* The epilog sees the records that are there: the C epilog can read its file,
\* and the Go epilog, which takes any file for one record, follows the Go prolog.
Countable ==
    /\ EpilogImpl = "c" => Faults \cap {"read", "memory"} = {}
    /\ EpilogImpl = "go" => PrologImpl = "go"

\* The inductive invariant for one job, each part under the faults and the
\* hooks for which it holds.
AccountJob(j) ==
    /\ Ledger(j)
    /\ SoundRecords => Reported(j)
    /\ "disk" \notin Faults => FailureKept(j)
    /\ Countable => Counted(j)
    /\ "disk" \notin Faults => Releasable(j)

AccountInv == \A j \in Jobs : AccountJob(j)

\* What the records are known to be: Shape, and whole with the Go prolog.
Records == Shape /\ (PrologImpl = "go" => GoInv)

\* Records is an invariant of every instance.
LEMMA RecordsInvariant == Spec => []Records
<1>1. CASE PrologImpl = "go"
  BY <1>1, GoInvariant, PTL DEF Records
<1>2. CASE PrologImpl # "go"
  <2>1. Shape => Records
    BY <1>2 DEF Records
  <2> QED BY <2>1, ShapeInvariant, PTL
<1> QED BY <1>1, <1>2

-----------------------------------------------------------------------------
\* What a metadata file reads as, and the token taken from it.
LEMMA ReadsAs ==
    ASSUME NEW j \in Jobs, CurrentToken(j) \in Token,
           spool[j] \in {NoFile, EmptyFile, TornFile, CurrentToken(j)}
    PROVE /\ \A r \in GoReadStrictSingle(j) :
                /\ r = "missing" <=> spool[j] = NoFile
                /\ r \in {"torn", "whole"} => spool[j] \in {TornFile, CurrentToken(j)}
                /\ r = "torn" => spool[j] = TornFile
                /\ r = "whole" => GoRecordToken(j, r) = CurrentToken(j)
          /\ \A r \in CReadRecords(j) :
                /\ r = "missing" <=> spool[j] = NoFile
                /\ r \in {"torn", "whole"} => spool[j] \in {TornFile, CurrentToken(j)}
                /\ r = "torn" => spool[j] = TornFile
                /\ r = "whole" => CRecordToken(j, r) = CurrentToken(j)
                /\ Faults \cap {"read", "memory"} = {} =>
                      /\ r # "unopened"
                      /\ r = "empty" => spool[j] = EmptyFile
                      /\ r = "malformed" => spool[j] = TornFile
<1>1. /\ CurrentToken(j) \notin {NoFile, EmptyFile, TornFile}
      /\ NoFile \notin {EmptyFile, TornFile} /\ EmptyFile # TornFile
  BY HookAssumption
<1>2. CASE spool[j] = NoFile
  BY <1>1, <1>2 DEF GoReadStrictSingle, GoRecordToken, CReadRecords, CRecordToken
<1>3. CASE spool[j] = EmptyFile
  BY <1>1, <1>3 DEF GoReadStrictSingle, GoRecordToken, CReadRecords, CRecordToken
<1>4. CASE spool[j] = TornFile
  BY <1>1, <1>4 DEF GoReadStrictSingle, GoRecordToken, CReadRecords, CRecordToken
<1>5. CASE spool[j] = CurrentToken(j)
  BY <1>1, <1>5 DEF GoReadStrictSingle, GoRecordToken, CReadRecords, CRecordToken
<1> QED BY <1>2, <1>3, <1>4, <1>5

\* A step of another job's hook keeps the invariant of this job.
LEMMA AccountOthers ==
    ASSUME Shape, NEW j \in Jobs, HookStep(j), NEW k \in Jobs, k # j, AccountJob(k)
    PROVE AccountJob(k)'
<1>1. Untouched(k)
  BY OthersUntouched DEF Shape
<1>2. UNCHANGED ocsVars /\ CurrentToken(k)' = CurrentToken(k)
  BY HookFrame DEF ocsVars, CurrentToken
<1>3. CurrentToken(k) \in sessions' => CurrentToken(k) \in sessions
  BY SessionsOfStep DEF CurrentToken
<1>4. phase[k] # "pending" /\ CurrentToken(k) \in sessions => CurrentToken(k) \in sessions'
  BY OthersSessions
<1>5. phase[k] # "pending" => host[k] \in Hosts
  BY CurrentTokenType
<1> USE <1>1, <1>2 DEF Untouched, ocsVars, At
<1>6. Ledger(k) => Ledger(k)'
  BY DEF Ledger
<1>7. Reported(k) => Reported(k)'
  BY <1>3 DEF Reported
<1>8. Ledger(k) /\ FailureKept(k) => FailureKept(k)'
  BY <1>5 DEF FailureKept, Ledger
<1>9. Ledger(k) /\ Counted(k) => Counted(k)'
  BY <1>5 DEF Counted, Ledger, RecordsIn, FileOf, Tallied
<1>10. Releasable(k) => Releasable(k)'
  BY <1>4 DEF Releasable, Holding
<1> QED BY <1>6, <1>7, <1>8, <1>9, <1>10 DEF AccountJob

\* The prologs leave the epilog's memory, the accounting and the kept files
\* alone.
LEMMA PrologFrame ==
    ASSUME NEW j \in Jobs, GoPrologStep(j) \/ CPrologStep(j)
    PROVE UNCHANGED <<failed, total, usage, kept>>
<1> USE DEF ExitClean, jobFiles
<1>1. CASE GoPrologStep(j)
  BY <1>1 DEF GoPrologStep, GoPrologStart, GoReadGranted, GoCheckHostOffers,
        GoOpenJobEnv, GoLoadConfig, GoExportSchedulerJobEnv, GoNewResource,
        GoAcquire, GoExportRuntimeEnv, GoWriteAtomic, GoSetStatus, GoAbort,
        GoReportError
<1>2. CASE CPrologStep(j)
  BY <1>2 DEF CPrologStep, CPrologStart, CReadGranted, CCheckHostOffers,
        COpenJobEnv, CExportSchedulerEnv, CLoadConfig, CNewResource, CAcquire,
        CRecordAcquired, CExportRuntimeEnv, CSetStatus, COpenMetadata,
        CWriteMetadata, CSetPluginError, CReleaseAcquired
<1> QED BY <1>1, <1>2

\* On a sound disk the Go prolog never gives up a session it has acquired.
LEMMA ReleasableGoProlog ==
    ASSUME "disk" \notin Faults, Shape, NEW j \in Jobs, GoPrologStep(j), Releasable(j)
    PROVE Releasable(j)'
<1>0. UNCHANGED ocsVars /\ CurrentToken(j)' = CurrentToken(j) /\ phase[j] = "prolog"
  BY HookFrame DEF ocsVars, CurrentToken, HookStep
<1>1. CurrentToken(j) \notin {NoToken, NoFile, EmptyFile, TornFile} /\ EmptyFile # TornFile
  BY <1>0, CurrentTokenType, HookAssumption
<1>2. TypeOK /\ (pc[j] \in Holding => tok[j] = CurrentToken(j))
  BY <1>0 DEF Shape, HookMemory
<1> USE DEF TypeOK, OcsTypeOK, HookTypeOK, FileTypeOK, Releasable, Holding, GoAt,
            At, Goto, FailTo, Exit, ExitClean, ocsVars, jobFiles
<1>3. CASE GoPrologStart(j)
  BY <1>0, <1>1, <1>2, <1>3 DEF GoPrologStart
<1>4. CASE GoReadGranted(j)
  BY <1>0, <1>1, <1>2, <1>4 DEF GoReadGranted
<1>5. CASE GoCheckHostOffers(j)
  BY <1>0, <1>1, <1>2, <1>5 DEF GoCheckHostOffers
<1>6. CASE GoOpenJobEnv(j)
  BY <1>0, <1>1, <1>2, <1>6 DEF GoOpenJobEnv, GoSetAnswer, Answer
<1>7. CASE GoLoadConfig(j)
  BY <1>0, <1>1, <1>2, <1>7 DEF GoLoadConfig, GoSetAnswer, Answer
<1>8. CASE GoExportSchedulerJobEnv(j)
  BY <1>0, <1>1, <1>2, <1>8 DEF GoExportSchedulerJobEnv, GoSetAnswer, Answer
<1>9. CASE GoNewResource(j)
  BY <1>0, <1>1, <1>2, <1>9 DEF GoNewResource
<1>10. CASE GoAcquire(j)
  BY <1>0, <1>1, <1>2, <1>10 DEF GoAcquire, Answer
<1>11. CASE GoExportRuntimeEnv(j)
  BY <1>0, <1>1, <1>2, <1>11 DEF GoExportRuntimeEnv, GoSetAnswer, Answer
<1>12. CASE GoWriteAtomic(j)
  BY <1>0, <1>1, <1>2, <1>12 DEF GoWriteAtomic
<1>13. CASE GoSetStatus(j)
  BY <1>0, <1>1, <1>2, <1>13 DEF GoSetStatus, GoSetAnswer, Answer
<1>14. CASE GoAbort(j)
  BY <1>0, <1>1, <1>2, <1>14 DEF GoAbort, Release
<1>15. CASE GoReportError(j)
  BY <1>0, <1>1, <1>2, <1>15 DEF GoReportError
<1> QED BY <1>3, <1>4, <1>5, <1>6, <1>7, <1>8, <1>9, <1>10, <1>11, <1>12,
        <1>13, <1>14, <1>15 DEF GoPrologStep

\* On a sound disk the C prolog gives a session up only before it writes the record.
LEMMA ReleasableCProlog ==
    ASSUME "disk" \notin Faults, Shape, NEW j \in Jobs, CPrologStep(j), Releasable(j)
    PROVE Releasable(j)'
<1>0. UNCHANGED ocsVars /\ CurrentToken(j)' = CurrentToken(j) /\ phase[j] = "prolog"
  BY HookFrame DEF ocsVars, CurrentToken, HookStep
<1>1. CurrentToken(j) \notin {NoToken, NoFile, EmptyFile, TornFile} /\ EmptyFile # TornFile
  BY <1>0, CurrentTokenType, HookAssumption
<1>2. TypeOK /\ (pc[j] \in Holding => tok[j] = CurrentToken(j))
  BY <1>0 DEF Shape, HookMemory
<1> USE DEF TypeOK, OcsTypeOK, HookTypeOK, FileTypeOK, Releasable, Holding, CAt,
            At, Goto, FailTo, Exit, ExitClean, ocsVars, jobFiles
<1>3. CASE CPrologStart(j)
  BY <1>0, <1>1, <1>2, <1>3 DEF CPrologStart
<1>4. CASE CReadGranted(j)
  BY <1>0, <1>1, <1>2, <1>4 DEF CReadGranted
<1>5. CASE CCheckHostOffers(j)
  BY <1>0, <1>1, <1>2, <1>5 DEF CCheckHostOffers
<1>6. CASE COpenJobEnv(j)
  BY <1>0, <1>1, <1>2, <1>6 DEF COpenJobEnv
<1>7. CASE CExportSchedulerEnv(j)
  BY <1>0, <1>1, <1>2, <1>7 DEF CExportSchedulerEnv
<1>8. CASE CLoadConfig(j)
  BY <1>0, <1>1, <1>2, <1>8 DEF CLoadConfig
<1>9. CASE CNewResource(j)
  BY <1>0, <1>1, <1>2, <1>9 DEF CNewResource
<1>10. CASE CAcquire(j)
  BY <1>0, <1>1, <1>2, <1>10 DEF CAcquire, Answer
<1>11. CASE CRecordAcquired(j)
  BY <1>0, <1>1, <1>2, <1>11 DEF CRecordAcquired
<1>12. CASE CExportRuntimeEnv(j)
  BY <1>0, <1>1, <1>2, <1>12 DEF CExportRuntimeEnv, CSetAnswer
<1>13. CASE CSetStatus(j)
  BY <1>0, <1>1, <1>2, <1>13 DEF CSetStatus, CSetAnswer
<1>14. CASE COpenMetadata(j)
  BY <1>0, <1>1, <1>2, <1>14 DEF COpenMetadata
<1>15. CASE CWriteMetadata(j)
  BY <1>0, <1>1, <1>2, <1>15 DEF CWriteMetadata
<1>16. CASE CSetPluginError(j)
  BY <1>0, <1>1, <1>2, <1>16 DEF CSetPluginError
<1>17. CASE CReleaseAcquired(j)
  BY <1>0, <1>1, <1>2, <1>17 DEF CReleaseAcquired, Release
<1> QED BY <1>3, <1>4, <1>5, <1>6, <1>7, <1>8, <1>9, <1>10, <1>11, <1>12,
        <1>13, <1>14, <1>15, <1>16, <1>17 DEF CPrologStep

\* The steps of the Go epilog keep the invariant of their job.
LEMMA AccountGoEpilog ==
    ASSUME Records, NEW j \in Jobs, GoEpilogStep(j), AccountJob(j)
    PROVE AccountJob(j)'
<1>0. /\ UNCHANGED ocsVars /\ CurrentToken(j)' = CurrentToken(j)
      /\ phase[j] = "epilog" /\ host[j] \in Hosts /\ CurrentToken(j) \in Token
  BY HookFrame, CurrentTokenType DEF ocsVars, CurrentToken, HookStep, Records
<1>1. /\ NoToken # CurrentToken(j) /\ NoFile \notin {EmptyFile, TornFile} /\ EmptyFile # TornFile
      /\ CurrentToken(j) \notin {NoFile, EmptyFile, TornFile, BadToken}
  BY <1>0, HookAssumption
<1>2. /\ TypeOK
      /\ spool[j] \in {NoFile, EmptyFile, TornFile, CurrentToken(j)}
      /\ PrologImpl = "go" => spool[j] \in {NoFile, CurrentToken(j)}
      /\ SoundRecords => spool[j] # TornFile
  BY <1>1 DEF Records, Shape, SpoolOwn, GoInv, GoJob, SoundRecords, AccountJob, Releasable
<1> USE DEF TypeOK, OcsTypeOK, HookTypeOK, FileTypeOK, GoEpilogAt, At, Goto, FailTo, Exit,
            ExitClean, ocsVars, jobFiles
<1>3. CASE GoEpilogStart(j)
  <2>1. Ledger(j)'
    BY <1>0, <1>1, <1>2, <1>3 DEF AccountJob, Ledger, GoEpilogStart
  <2>2. SoundRecords => Reported(j)'
    BY <1>0, <1>1, <1>2, <1>3 DEF AccountJob, Ledger, Reported, GoEpilogStart
  <2>3. "disk" \notin Faults => FailureKept(j)'
    BY <1>0, <1>1, <1>2, <1>3 DEF AccountJob, Ledger, FailureKept,
          GoEpilogStart
  <2>4. Countable => Counted(j)'
    BY <1>0, <1>1, <1>2, <1>3 DEF AccountJob, Ledger, Counted, RecordsIn, FileOf, Tallied,
          GoEpilogStart
  <2>5. "disk" \notin Faults => Releasable(j)'
    BY <1>0, <1>1, <1>2, <1>3 DEF AccountJob, Releasable, Holding,
          GoEpilogStart
  <2> QED BY <2>1, <2>2, <2>3, <2>4, <2>5 DEF AccountJob
<1>4. CASE GoReadMetadata(j)
  <2>1. Ledger(j)'
    BY <1>0, <1>1, <1>2, <1>4, ReadsAs DEF AccountJob, Ledger, GoReadMetadata
  <2>2. SoundRecords => Reported(j)'
    BY <1>0, <1>1, <1>2, <1>4, ReadsAs DEF AccountJob, Ledger, Reported,
          GoReadMetadata
  <2>3. "disk" \notin Faults => FailureKept(j)'
    BY <1>0, <1>1, <1>2, <1>4, ReadsAs DEF AccountJob, Ledger, FailureKept,
          GoReadMetadata
  <2>4. Countable => Counted(j)'
    BY <1>0, <1>1, <1>2, <1>4, ReadsAs DEF AccountJob, Ledger, Counted,
          RecordsIn, FileOf, Tallied, Countable, GoReadMetadata
  <2>5. "disk" \notin Faults => Releasable(j)'
    BY <1>0, <1>1, <1>2, <1>4, ReadsAs DEF AccountJob, Releasable, Holding,
          GoReadMetadata
  <2> QED BY <2>1, <2>2, <2>3, <2>4, <2>5 DEF AccountJob
<1>5. CASE GoReleaseRecord(j)
  <2>1. Ledger(j)'
    BY <1>0, <1>1, <1>2, <1>5 DEF AccountJob, Ledger, GoReleaseRecord, Release
  <2>2. SoundRecords => Reported(j)'
    BY <1>0, <1>1, <1>2, <1>5 DEF AccountJob, Ledger, Reported,
          GoReleaseRecord, Release
  <2>3. "disk" \notin Faults => FailureKept(j)'
    BY <1>0, <1>1, <1>2, <1>5 DEF AccountJob, Ledger, FailureKept,
          GoReleaseRecord, Release
  <2>4. Countable => Counted(j)'
    BY <1>0, <1>1, <1>2, <1>5 DEF AccountJob, Ledger, Counted, RecordsIn, FileOf, Tallied,
          GoReleaseRecord, Release
  <2>5. "disk" \notin Faults => Releasable(j)'
    BY <1>0, <1>1, <1>2, <1>5 DEF AccountJob, Releasable, Holding,
          GoReleaseRecord, Release
  <2> QED BY <2>1, <2>2, <2>3, <2>4, <2>5 DEF AccountJob
<1>6. CASE GoRemoveMetadata(j)
  <2>1. Ledger(j)'
    BY <1>0, <1>1, <1>2, <1>6 DEF AccountJob, Ledger, GoRemoveMetadata
  <2>2. SoundRecords => Reported(j)'
    BY <1>0, <1>1, <1>2, <1>6 DEF AccountJob, Ledger, Reported,
          GoRemoveMetadata
  <2>3. "disk" \notin Faults => FailureKept(j)'
    BY <1>0, <1>1, <1>2, <1>6 DEF AccountJob, Ledger, FailureKept,
          GoRemoveMetadata
  <2>4. Countable => Counted(j)'
    BY <1>0, <1>1, <1>2, <1>6 DEF AccountJob, Ledger, Counted, RecordsIn, FileOf, Tallied,
          GoRemoveMetadata
  <2>5. "disk" \notin Faults => Releasable(j)'
    BY <1>0, <1>1, <1>2, <1>6 DEF AccountJob, Releasable, Holding,
          GoRemoveMetadata
  <2> QED BY <2>1, <2>2, <2>3, <2>4, <2>5 DEF AccountJob
<1>7. CASE GoPreserveFailedRelease(j)
  <2>1. Ledger(j)'
    BY <1>0, <1>1, <1>2, <1>7 DEF AccountJob, Ledger, GoPreserveFailedRelease
  <2>2. SoundRecords => Reported(j)'
    BY <1>0, <1>1, <1>2, <1>7 DEF AccountJob, Ledger, Reported,
          GoPreserveFailedRelease
  <2>3. "disk" \notin Faults => FailureKept(j)'
    BY <1>0, <1>1, <1>2, <1>7 DEF AccountJob, Ledger, FailureKept,
          GoPreserveFailedRelease
  <2>4. Countable => Counted(j)'
    BY <1>0, <1>1, <1>2, <1>7 DEF AccountJob, Ledger, Counted, RecordsIn, FileOf, Tallied,
          GoPreserveFailedRelease
  <2>5. "disk" \notin Faults => Releasable(j)'
    BY <1>0, <1>1, <1>2, <1>7 DEF AccountJob, Releasable, Holding,
          GoPreserveFailedRelease
  <2> QED BY <2>1, <2>2, <2>3, <2>4, <2>5 DEF AccountJob
<1>8. CASE GoPublishSummary(j)
  <2>1. Ledger(j)'
    BY <1>0, <1>1, <1>2, <1>8 DEF AccountJob, Ledger, GoPublishSummary
  <2>2. SoundRecords => Reported(j)'
    BY <1>0, <1>1, <1>2, <1>8 DEF AccountJob, Ledger, Reported,
          GoPublishSummary
  <2>3. "disk" \notin Faults => FailureKept(j)'
    BY <1>0, <1>1, <1>2, <1>8 DEF AccountJob, Ledger, FailureKept,
          GoPublishSummary
  <2>4. Countable => Counted(j)'
    BY <1>0, <1>1, <1>2, <1>8 DEF AccountJob, Ledger, Counted, RecordsIn, FileOf, Tallied,
          GoPublishSummary
  <2>5. "disk" \notin Faults => Releasable(j)'
    BY <1>0, <1>1, <1>2, <1>8 DEF AccountJob, Releasable, Holding,
          GoPublishSummary
  <2> QED BY <2>1, <2>2, <2>3, <2>4, <2>5 DEF AccountJob
<1> QED BY <1>3, <1>4, <1>5, <1>6, <1>7, <1>8 DEF GoEpilogStep

\* The steps of the C epilog keep the invariant of their job.
LEMMA AccountCEpilog ==
    ASSUME Records, NEW j \in Jobs, CEpilogStep(j), AccountJob(j)
    PROVE AccountJob(j)'
<1>0. /\ UNCHANGED ocsVars /\ CurrentToken(j)' = CurrentToken(j)
      /\ phase[j] = "epilog" /\ host[j] \in Hosts /\ CurrentToken(j) \in Token
  BY HookFrame, CurrentTokenType DEF ocsVars, CurrentToken, HookStep, Records
<1>1. /\ NoToken # CurrentToken(j) /\ NoFile \notin {EmptyFile, TornFile} /\ EmptyFile # TornFile
      /\ CurrentToken(j) \notin {NoFile, EmptyFile, TornFile, BadToken}
  BY <1>0, HookAssumption
<1>2. /\ TypeOK
      /\ spool[j] \in {NoFile, EmptyFile, TornFile, CurrentToken(j)}
      /\ PrologImpl = "go" => spool[j] \in {NoFile, CurrentToken(j)}
      /\ SoundRecords => spool[j] # TornFile
  BY <1>1 DEF Records, Shape, SpoolOwn, GoInv, GoJob, SoundRecords, AccountJob, Releasable
<1> USE DEF TypeOK, OcsTypeOK, HookTypeOK, FileTypeOK, CEpilogAt, At, Goto, FailTo, Exit,
            ExitClean, ocsVars, jobFiles
<1>3. CASE CEpilogStart(j)
  <2>1. Ledger(j)'
    BY <1>0, <1>1, <1>2, <1>3 DEF AccountJob, Ledger, CEpilogStart
  <2>2. SoundRecords => Reported(j)'
    BY <1>0, <1>1, <1>2, <1>3 DEF AccountJob, Ledger, Reported, CEpilogStart
  <2>3. "disk" \notin Faults => FailureKept(j)'
    BY <1>0, <1>1, <1>2, <1>3 DEF AccountJob, Ledger, FailureKept, CEpilogStart
  <2>4. Countable => Counted(j)'
    BY <1>0, <1>1, <1>2, <1>3 DEF AccountJob, Ledger, Counted, RecordsIn, FileOf, Tallied,
          CEpilogStart
  <2>5. "disk" \notin Faults => Releasable(j)'
    BY <1>0, <1>1, <1>2, <1>3 DEF AccountJob, Releasable, Holding, CEpilogStart
  <2> QED BY <2>1, <2>2, <2>3, <2>4, <2>5 DEF AccountJob
<1>4. CASE CReadMetadata(j)
  <2>1. Ledger(j)'
    BY <1>0, <1>1, <1>2, <1>4, ReadsAs DEF AccountJob, Ledger, CReadMetadata
  <2>2. SoundRecords => Reported(j)'
    BY <1>0, <1>1, <1>2, <1>4, ReadsAs DEF AccountJob, Ledger, Reported,
          CReadMetadata
  <2>3. "disk" \notin Faults => FailureKept(j)'
    BY <1>0, <1>1, <1>2, <1>4, ReadsAs DEF AccountJob, Ledger, FailureKept,
          CReadMetadata
  <2>4. Countable => Counted(j)'
    BY <1>0, <1>1, <1>2, <1>4, ReadsAs DEF AccountJob, Ledger, Counted,
          RecordsIn, FileOf, Tallied, Countable, CReadMetadata
  <2>5. "disk" \notin Faults => Releasable(j)'
    BY <1>0, <1>1, <1>2, <1>4, ReadsAs DEF AccountJob, Releasable, Holding,
          CReadMetadata
  <2> QED BY <2>1, <2>2, <2>3, <2>4, <2>5 DEF AccountJob
<1>5. CASE CReleaseRecord(j)
  <2>1. Ledger(j)'
    BY <1>0, <1>1, <1>2, <1>5 DEF AccountJob, Ledger, CReleaseRecord, Release
  <2>2. SoundRecords => Reported(j)'
    BY <1>0, <1>1, <1>2, <1>5 DEF AccountJob, Ledger, Reported, CReleaseRecord,
          Release
  <2>3. "disk" \notin Faults => FailureKept(j)'
    BY <1>0, <1>1, <1>2, <1>5 DEF AccountJob, Ledger, FailureKept,
          CReleaseRecord, Release
  <2>4. Countable => Counted(j)'
    BY <1>0, <1>1, <1>2, <1>5 DEF AccountJob, Ledger, Counted, RecordsIn, FileOf, Tallied,
          CReleaseRecord, Release
  <2>5. "disk" \notin Faults => Releasable(j)'
    BY <1>0, <1>1, <1>2, <1>5 DEF AccountJob, Releasable, Holding,
          CReleaseRecord, Release
  <2> QED BY <2>1, <2>2, <2>3, <2>4, <2>5 DEF AccountJob
<1>6. CASE CRemoveMetadata(j)
  <2>1. Ledger(j)'
    BY <1>0, <1>1, <1>2, <1>6 DEF AccountJob, Ledger, CRemoveMetadata
  <2>2. SoundRecords => Reported(j)'
    BY <1>0, <1>1, <1>2, <1>6 DEF AccountJob, Ledger, Reported, CRemoveMetadata
  <2>3. "disk" \notin Faults => FailureKept(j)'
    BY <1>0, <1>1, <1>2, <1>6 DEF AccountJob, Ledger, FailureKept,
          CRemoveMetadata
  <2>4. Countable => Counted(j)'
    BY <1>0, <1>1, <1>2, <1>6 DEF AccountJob, Ledger, Counted, RecordsIn, FileOf, Tallied,
          CRemoveMetadata
  <2>5. "disk" \notin Faults => Releasable(j)'
    BY <1>0, <1>1, <1>2, <1>6 DEF AccountJob, Releasable, Holding,
          CRemoveMetadata
  <2> QED BY <2>1, <2>2, <2>3, <2>4, <2>5 DEF AccountJob
<1>7. CASE CPreserveFailedRelease(j)
  <2>1. Ledger(j)'
    BY <1>0, <1>1, <1>2, <1>7 DEF AccountJob, Ledger, CPreserveFailedRelease
  <2>2. SoundRecords => Reported(j)'
    BY <1>0, <1>1, <1>2, <1>7 DEF AccountJob, Ledger, Reported,
          CPreserveFailedRelease
  <2>3. "disk" \notin Faults => FailureKept(j)'
    BY <1>0, <1>1, <1>2, <1>7 DEF AccountJob, Ledger, FailureKept,
          CPreserveFailedRelease
  <2>4. Countable => Counted(j)'
    BY <1>0, <1>1, <1>2, <1>7 DEF AccountJob, Ledger, Counted, RecordsIn, FileOf, Tallied,
          CPreserveFailedRelease
  <2>5. "disk" \notin Faults => Releasable(j)'
    BY <1>0, <1>1, <1>2, <1>7 DEF AccountJob, Releasable, Holding,
          CPreserveFailedRelease
  <2> QED BY <2>1, <2>2, <2>3, <2>4, <2>5 DEF AccountJob
<1>8. CASE CPublishSummary(j)
  <2>1. Ledger(j)'
    BY <1>0, <1>1, <1>2, <1>8 DEF AccountJob, Ledger, CPublishSummary
  <2>2. SoundRecords => Reported(j)'
    BY <1>0, <1>1, <1>2, <1>8 DEF AccountJob, Ledger, Reported, CPublishSummary
  <2>3. "disk" \notin Faults => FailureKept(j)'
    BY <1>0, <1>1, <1>2, <1>8 DEF AccountJob, Ledger, FailureKept,
          CPublishSummary
  <2>4. Countable => Counted(j)'
    BY <1>0, <1>1, <1>2, <1>8 DEF AccountJob, Ledger, Counted, RecordsIn, FileOf, Tallied,
          CPublishSummary
  <2>5. "disk" \notin Faults => Releasable(j)'
    BY <1>0, <1>1, <1>2, <1>8 DEF AccountJob, Releasable, Holding,
          CPublishSummary
  <2> QED BY <2>1, <2>2, <2>3, <2>4, <2>5 DEF AccountJob
<1> QED BY <1>3, <1>4, <1>5, <1>6, <1>7, <1>8 DEF CEpilogStep

\* Every step of a hook keeps the invariant.
LEMMA AccountHooks ==
    ASSUME Records, AccountInv, NEW j \in Jobs, HookStep(j)
    PROVE AccountInv'
<1>1. ASSUME NEW k \in Jobs, k # j PROVE AccountJob(k)'
  BY <1>1, AccountOthers DEF AccountInv, Records
<1>2. CASE GoPrologStep(j) \/ CPrologStep(j)
  <2>1. /\ UNCHANGED <<failed, total, usage, kept, ocsVars>> /\ phase[j] = "prolog"
        /\ CurrentToken(j)' = CurrentToken(j) /\ AccountJob(j) /\ Shape
    BY <1>2, PrologFrame, HookFrame DEF HookStep, ocsVars, CurrentToken, AccountInv, Records
  <2>2. "disk" \notin Faults => Releasable(j)'
    BY <1>2, <2>1, ReleasableGoProlog, ReleasableCProlog DEF AccountJob
  <2> QED BY <1>1, <2>1, <2>2
         DEF AccountInv, AccountJob, Ledger, Reported, FailureKept, Counted, RecordsIn, FileOf, Tallied,
             At, ocsVars
<1>3. CASE GoEpilogStep(j) \/ CEpilogStep(j)
  BY <1>1, <1>3, AccountGoEpilog, AccountCEpilog DEF AccountInv
<1> QED BY <1>2, <1>3 DEF HookStep

\* Every other step keeps the invariant.
LEMMA AccountScheduler ==
    ASSUME Records, AccountInv,
           \/ \E j \in Jobs : OcsStep(j) \/ FaultStep(j)
           \/ \E h \in Hosts : ClearQueueError(h)
    PROVE AccountInv'
<1>0. sessions' = sessions /\ kept' = kept
  BY DEF OcsStep, FaultStep, Dispatch, PrologExits, JobEnds, EpilogExits,
         Reap, KillHook, HostCrash, ClearQueueError
<1>1. Shape /\ TypeOK /\ NoFile \notin {EmptyFile, TornFile}
  BY HookAssumption DEF Records, Shape
<1> USE DEF TypeOK, OcsTypeOK, HookTypeOK, FileTypeOK, AccountInv, AccountJob, Ledger,
            Reported, FailureKept, Counted, RecordsIn, FileOf, Tallied, Releasable, Holding, At,
            ocsVars, hookVars, jobFiles
<1>2. ASSUME NEW j \in Jobs, NEW h \in Hosts, Dispatch(j, h) PROVE AccountInv'
  <2>1. ASSUME NEW k \in Jobs, k # j PROVE AccountJob(k)'
    BY <1>0, <1>1, <1>2, <2>1 DEF Dispatch, StartHook, CurrentToken
  <2>2. /\ spool'[j] = NoFile /\ usage'[j] = NoUsage /\ ~envBroken'[j]
        /\ phase'[j] = "prolog" /\ pc'[j] = "start" /\ host'[j] = h
        /\ attempts'[j] = attempts[j] + 1 /\ attempts[j] \in Nat
    BY <1>1, <1>2, HookAssumption DEF Dispatch, StartHook, Shape, SpoolOwn
  <2>3. CurrentToken(j)' \in Token
    BY <1>2, <2>2, HookAssumption, <1>1 DEF Dispatch, CurrentToken, Token
  <2>4. NoFile # CurrentToken(j)'
    BY <2>3, HookAssumption
  <2>5. AccountJob(j)'
    BY <1>0, <1>1, <2>2, <2>4
  <2> QED BY <2>1, <2>5
<1>3. ASSUME NEW j \in Jobs, PrologExits(j) PROVE AccountInv'
  BY <1>0, <1>1, <1>3 DEF PrologExits, StartHook, CurrentToken
<1>4. ASSUME NEW j \in Jobs, JobEnds(j) PROVE AccountInv'
  BY <1>0, <1>1, <1>4 DEF JobEnds, StartHook, CurrentToken
<1>5. ASSUME NEW j \in Jobs, EpilogExits(j) PROVE AccountInv'
  BY <1>0, <1>1, <1>5 DEF EpilogExits, CurrentToken
<1>6. ASSUME NEW j \in Jobs, Reap(j) PROVE AccountInv'
  <2>1. phase'[j] \in {"pending", "done", "joberror"} /\ attempts[j] # 0
    BY <1>1, <1>6 DEF Reap, Shape, Dispatched
  <2> QED BY <1>0, <1>1, <1>6, <2>1 DEF Reap, CurrentToken
<1>7. ASSUME NEW j \in Jobs, KillHook(j) PROVE AccountInv'
  BY <1>0, <1>1, <1>7 DEF KillHook, Exit, FailTo, CurrentToken
<1>8. ASSUME NEW j \in Jobs, HostCrash(j) PROVE AccountInv'
  BY <1>0, <1>1, <1>8 DEF HostCrash, CurrentToken
<1>9. ASSUME NEW h \in Hosts, ClearQueueError(h) PROVE AccountInv'
  BY <1>0, <1>9 DEF ClearQueueError, CurrentToken
<1> QED BY <1>2, <1>3, <1>4, <1>5, <1>6, <1>7, <1>8, <1>9 DEF OcsStep, FaultStep

\* AccountInv is an invariant of every instance.
THEOREM AccountInvariant == Spec => [](Records /\ AccountInv)
<1>1. Init => AccountInv
  BY HookAssumption
     DEF Init, AccountInv, AccountJob, Ledger, Reported, FailureKept, Counted,
         RecordsIn, FileOf, Tallied, Releasable, At
<1>2. Records /\ AccountInv /\ [Next]_vars => AccountInv'
  <2> SUFFICES ASSUME Records, AccountInv, [Next]_vars PROVE AccountInv'
    OBVIOUS
  <2>1. CASE UNCHANGED vars
    BY <2>1 DEF AccountInv, AccountJob, Ledger, Reported, FailureKept, Counted,
                RecordsIn, FileOf, Tallied, Releasable, CurrentToken, At, vars, ocsVars, hookVars,
                jobFiles
  <2> QED BY <2>1, AccountHooks, AccountScheduler DEF Next, Terminated
<1> QED BY <1>1, <1>2, RecordsInvariant, PTL DEF Spec

-----------------------------------------------------------------------------
\* Behind the status the C prolog announces before it opens the metadata file:
\* nothing is announced before the prolog comes to it, and from there the only
\* way to exit code 0 is the write.
Announced(j) ==
    /\ phase[j] = "pending" => envStatus[j] = "unset"
    /\ (phase[j] = "prolog" /\ envStatus[j] = "success") =>
          pc[j] \in {"metadata", "write", "report", "abort", "exit"}
    /\ (phase[j] = "prolog" /\ pc[j] \in {"report", "abort"}) => code[j] # ExitOK
    /\ (/\ envStatus[j] = "success"
        /\ \/ At(j, "prolog", "exit") /\ code[j] = ExitOK
           \/ phase[j] = "running")
          => spool[j] = CurrentToken(j)

AnnouncedInv == \A j \in Jobs : Announced(j)

\* On a sound disk the steps of the C prolog keep Announced for their job.
LEMMA AnnouncedCProlog ==
    ASSUME "disk" \notin Faults, Shape, NEW j \in Jobs, CPrologStep(j), Announced(j)
    PROVE Announced(j)'
<1>0. UNCHANGED ocsVars /\ CurrentToken(j)' = CurrentToken(j) /\ phase[j] = "prolog"
  BY HookFrame DEF ocsVars, CurrentToken, HookStep
<1>1. TypeOK /\ (pc[j] \in Holding => tok[j] = CurrentToken(j))
  BY <1>0 DEF Shape, HookMemory
<1> USE DEF TypeOK, HookTypeOK, FileTypeOK, Announced, Holding, CAt, At, Goto,
            FailTo, Exit, ExitClean, ocsVars, jobFiles,
            ExitOK, ExitHostError, ExitReschedule, ExitJobError
<1>2. CASE CPrologStart(j)
  BY <1>0, <1>1, <1>2 DEF CPrologStart
<1>3. CASE CReadGranted(j)
  BY <1>0, <1>1, <1>3 DEF CReadGranted, CSchedulerExit
<1>4. CASE CCheckHostOffers(j)
  BY <1>0, <1>1, <1>4 DEF CCheckHostOffers, CSchedulerExit
<1>5. CASE COpenJobEnv(j)
  BY <1>0, <1>1, <1>5 DEF COpenJobEnv
<1>6. CASE CExportSchedulerEnv(j)
  BY <1>0, <1>1, <1>6 DEF CExportSchedulerEnv
<1>7. CASE CLoadConfig(j)
  BY <1>0, <1>1, <1>7 DEF CLoadConfig
<1>8. CASE CNewResource(j)
  BY <1>0, <1>1, <1>8 DEF CNewResource
<1>9. CASE CAcquire(j)
  BY <1>0, <1>1, <1>9 DEF CAcquire
<1>10. CASE CRecordAcquired(j)
  BY <1>0, <1>1, <1>10 DEF CRecordAcquired
<1>11. CASE CExportRuntimeEnv(j)
  BY <1>0, <1>1, <1>11 DEF CExportRuntimeEnv
<1>12. CASE CSetStatus(j)
  BY <1>0, <1>1, <1>12 DEF CSetStatus
<1>13. CASE COpenMetadata(j)
  BY <1>0, <1>1, <1>13 DEF COpenMetadata
<1>14. CASE CWriteMetadata(j)
  BY <1>0, <1>1, <1>14 DEF CWriteMetadata
<1>15. CASE CSetPluginError(j)
  BY <1>0, <1>1, <1>15 DEF CSetPluginError
<1>16. CASE CReleaseAcquired(j)
  BY <1>0, <1>1, <1>16 DEF CReleaseAcquired
<1> QED BY <1>2, <1>3, <1>4, <1>5, <1>6, <1>7, <1>8, <1>9, <1>10, <1>11, <1>12,
        <1>13, <1>14, <1>15, <1>16 DEF CPrologStep

\* With the C prolog and a sound disk, every step of a hook keeps AnnouncedInv.
LEMMA AnnouncedHooks ==
    ASSUME PrologImpl = "c", "disk" \notin Faults, Shape, AnnouncedInv,
           NEW j \in Jobs, HookStep(j)
    PROVE AnnouncedInv'
<1>1. UNCHANGED ocsVars
  BY HookFrame
<1>2. ASSUME NEW k \in Jobs, k # j PROVE Announced(k)'
  <2>1. Untouched(k)
    BY <1>2, OthersUntouched DEF Shape
  <2> QED BY <1>1, <2>1 DEF AnnouncedInv, Announced, Untouched, CurrentToken, At, ocsVars
<1>3. Announced(j)'
  <2>1. CASE CPrologStep(j)
    BY <2>1, AnnouncedCProlog DEF AnnouncedInv
  <2>2. CASE phase[j] = "epilog"
    BY <1>1, <2>2 DEF Announced, At, ocsVars
  <2>3. ~GoPrologStep(j)
    BY DEF GoPrologStep, GoPrologStart, GoReadGranted, GoCheckHostOffers,
        GoOpenJobEnv, GoLoadConfig, GoExportSchedulerJobEnv, GoNewResource,
        GoAcquire, GoExportRuntimeEnv, GoWriteAtomic, GoSetStatus, GoAbort,
        GoReportError, GoAt
  <2>4. GoEpilogStep(j) \/ CEpilogStep(j) => phase[j] = "epilog"
    BY HookFrame
  <2> QED BY <2>1, <2>2, <2>3, <2>4 DEF HookStep
<1> QED BY <1>2, <1>3 DEF AnnouncedInv

\* Every other step keeps AnnouncedInv.
LEMMA AnnouncedScheduler ==
    ASSUME Shape, AnnouncedInv,
           \/ \E j \in Jobs : OcsStep(j) \/ FaultStep(j)
           \/ \E h \in Hosts : ClearQueueError(h)
    PROVE AnnouncedInv'
<1>1. TypeOK
  BY DEF Shape
<1> USE DEF TypeOK, OcsTypeOK, HookTypeOK, FileTypeOK, AnnouncedInv, Announced, At,
            ocsVars, hookVars, jobFiles, CurrentToken
<1>2. ASSUME NEW j \in Jobs, NEW h \in Hosts, Dispatch(j, h) PROVE AnnouncedInv'
  BY <1>1, <1>2 DEF Dispatch, StartHook
<1>3. ASSUME NEW j \in Jobs, PrologExits(j) PROVE AnnouncedInv'
  BY <1>1, <1>3 DEF PrologExits, StartHook
<1>4. ASSUME NEW j \in Jobs, JobEnds(j) PROVE AnnouncedInv'
  BY <1>1, <1>4 DEF JobEnds, StartHook
<1>5. ASSUME NEW j \in Jobs, EpilogExits(j) PROVE AnnouncedInv'
  BY <1>1, <1>5 DEF EpilogExits
<1>6. ASSUME NEW j \in Jobs, Reap(j) PROVE AnnouncedInv'
  BY <1>1, <1>6 DEF Reap
<1>7. ASSUME NEW j \in Jobs, KillHook(j) PROVE AnnouncedInv'
  BY <1>1, <1>7 DEF KillHook, Exit, FailTo, Killed, ExitOK
<1>8. ASSUME NEW j \in Jobs, HostCrash(j) PROVE AnnouncedInv'
  BY <1>1, <1>8 DEF HostCrash
<1>9. ASSUME NEW h \in Hosts, ClearQueueError(h) PROVE AnnouncedInv'
  BY <1>9 DEF ClearQueueError
<1> QED BY <1>2, <1>3, <1>4, <1>5, <1>6, <1>7, <1>8, <1>9 DEF OcsStep, FaultStep

\* With the C prolog and a sound disk, AnnouncedInv is an invariant.
LEMMA AnnouncedInvariant ==
    ASSUME PrologImpl = "c", "disk" \notin Faults PROVE Spec => []AnnouncedInv
<1>1. Init => AnnouncedInv
  BY DEF Init, AnnouncedInv, Announced, At
<1>2. Shape /\ AnnouncedInv /\ [Next]_vars => AnnouncedInv'
  <2> SUFFICES ASSUME Shape, AnnouncedInv, [Next]_vars PROVE AnnouncedInv'
    OBVIOUS
  <2>1. CASE UNCHANGED vars
    BY <2>1 DEF AnnouncedInv, Announced, CurrentToken, At, vars, ocsVars, hookVars, jobFiles
  <2> QED BY <2>1, AnnouncedHooks, AnnouncedScheduler DEF Next, Terminated
<1> QED BY <1>1, <1>2, ShapeInvariant, PTL DEF Spec

-----------------------------------------------------------------------------
\* With the Go prolog under every fault, and with the C prolog on a sound disk,
\* accounting that reports a successful release is true: the epilog publishes
\* success only after Release took the token of the job's own, whole record,
\* and nobody opens that session again.
THEOREM ReleaseReportedTruly ==
    ASSUME PrologImpl = "go" \/ "disk" \notin Faults
    PROVE Spec => []ReportedReleaseHappened
<1>1. Records /\ AccountInv => ReportedReleaseHappened
  BY DEF AccountInv, AccountJob, SoundRecords, Reported, ReportedReleaseHappened
<1> QED BY <1>1, AccountInvariant, PTL

\* On a sound disk, with either epilog and whatever else goes wrong,
\* accounting that reports a failed release comes with a record of the job
\* kept on its host: PreserveFailedRelease links the file, or an older record
\* of the same name is already there.
THEOREM FailureIsOnRecord ==
    ASSUME "disk" \notin Faults PROVE Spec => []FailureLeavesRecord
<1>1. Records /\ AccountInv => FailureLeavesRecord
  BY DEF AccountInv, AccountJob, FailureKept, FailureLeavesRecord
<1> QED BY <1>1, AccountInvariant, PTL

\* On a sound disk, with either hook and wherever one is killed, an epilog
\* never releases a session that is already closed: the prolog does not
\* release once the record is written, and an epilog releases once.
THEOREM NoDoubleRelease ==
    ASSUME "disk" \notin Faults PROVE Spec => []EpilogReleasesOpenSession
<1>1. Records /\ AccountInv => EpilogReleasesOpenSession
  BY DEF AccountInv, AccountJob, Releasable, EpilogReleasesOpenSession, At
<1> QED BY <1>1, AccountInvariant, PTL

\* The published total is the number of records in the file the epilog read,
\* wherever a hook is killed and whichever write, link or release fails: one
\* after a release, and after a failure what the file left behind holds. For the
\* C epilog this takes a file it can read; for the Go epilog, which publishes 1
\* for every file, it takes the Go prolog, which never leaves an empty one.
THEOREM TotalIsRight ==
    ASSUME EpilogImpl = "c" => Faults \cap {"read", "memory"} = {},
           EpilogImpl = "go" => PrologImpl = "go"
    PROVE Spec => []TotalCountsRecords
<1>1. Records /\ AccountInv => TotalCountsRecords
  BY DEF AccountInv, AccountJob, Countable, Counted, TotalCountsRecords
<1> QED BY <1>1, AccountInvariant, PTL

\* On a sound disk, with either prolog, wherever one is killed and whichever
\* allocation fails, a job that runs with status success has an open session
\* that its metadata file names: the Go prolog writes the status last, and the
\* C prolog, which writes it first, returns 0 only after the record.
THEOREM AnnouncedTruly ==
    ASSUME "disk" \notin Faults PROVE Spec => []SuccessMeansRecord
<1>1. CASE PrologImpl = "go"
  <2>1. Records /\ AccountInv => SuccessMeansRecord
    BY <1>1 DEF Records, GoInv, GoJob, AccountInv, AccountJob, Releasable, SuccessMeansRecord
  <2> QED BY <2>1, AccountInvariant, PTL
<1>2. CASE PrologImpl = "c"
  <2>1. Records /\ AccountInv /\ AnnouncedInv => SuccessMeansRecord
    BY DEF AccountInv, AccountJob, Releasable, AnnouncedInv, Announced, SuccessMeansRecord
  <2>2. Spec => []AnnouncedInv
    BY <1>2, AnnouncedInvariant
  <2> QED BY <2>1, <2>2, AccountInvariant, PTL
<1> QED BY <1>1, <1>2, HookAssumption
=============================================================================

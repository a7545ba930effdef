--------------------------- MODULE QueueHooksProofs ---------------------------
(***************************************************************************)
(* Proofs about QueueHooks, for every set of jobs, hosts, requests and     *)
(* faults, both implementations of both hooks, and every MaxAttempts.      *)
(***************************************************************************)
EXTENDS QueueHooks, TLAPS

\* A job that is not pending has been dispatched, to a host.
Dispatched ==
    \A j \in Jobs :
        phase[j] # "pending" => attempts[j] \in 1..MaxAttempts /\ host[j] \in Hosts

\* The labels of the prolog between a successful Acquire and the end of its
\* use of the token.
Holding == {"record", "runtime", "metadata", "status", "write"}

\* A hook's memory names the token of this dispatch or none; the prolog has
\* it at every step that uses it.
HookMemory ==
    \A j \in Jobs :
        /\ tok[j] \in {NoToken, BadToken, CurrentToken(j)}
        /\ tok[j] # NoToken =>
              \/ phase[j] = "prolog" /\ pc[j] \in Holding \cup {"abort"}
              \/ PrologImpl = "c" /\ At(j, "prolog", "report")
              \/ At(j, "epilog", "release")
        /\ (phase[j] = "prolog" /\ pc[j] \in Holding) => tok[j] = CurrentToken(j)
        /\ (PrologImpl = "go" /\ At(j, "prolog", "abort")) => tok[j] = CurrentToken(j)

\* The metadata file names the token of this dispatch or none, and does not
\* survive the job's stay on the host.
SpoolOwn ==
    \A j \in Jobs :
        /\ spool[j] \in {NoFile, EmptyFile, TornFile, CurrentToken(j)}
        /\ phase[j] \in {"pending", "done", "joberror"} =>
              spool[j] = NoFile /\ envStatus[j] = "unset"

Shape == TypeOK /\ Dispatched /\ HookMemory /\ SpoolOwn

-----------------------------------------------------------------------------
(***************************************************************************)
(* Shape is inductive. TypeOK alone is not: the prolog writes the token it *)
(* holds into files, so HookMemory must say that it holds one there, and   *)
(* the epilog takes its token from a file, so SpoolOwn must say whose it   *)
(* is. Each component has a lemma for TypeOK and one for the other parts.  *)
(***************************************************************************)

\* The token of a dispatched job's current run is a token.
LEMMA CurrentTokenType ==
    ASSUME Shape, NEW j \in Jobs, phase[j] # "pending"
    PROVE CurrentToken(j) \in Token /\ host[j] \in Hosts
BY DEF Shape, Dispatched, CurrentToken, Token

\* The tokens the prolog writes into files are tokens.
LEMMA HeldTokenType ==
    ASSUME Shape, NEW j \in Jobs, phase[j] = "prolog", pc[j] \in Holding
    PROVE tok[j] \in Token
BY CurrentTokenType DEF Shape, HookMemory

\* What an epilog takes from a metadata file that reads as a record.
LEMMA RecordTokenType ==
    ASSUME Shape, NEW j \in Jobs, CurrentToken(j) \in Token, NEW r \in {"torn", "whole"}
    PROVE /\ r \in GoReadStrictSingle(j) =>
                GoRecordToken(j, r) \in {BadToken, CurrentToken(j)}
          /\ r \in CReadRecords(j) =>
                CRecordToken(j, r) \in {BadToken, CurrentToken(j)}
<1>1. spool[j] \in {NoFile, EmptyFile, TornFile, CurrentToken(j)}
  BY DEF Shape, SpoolOwn
<1>2. CurrentToken(j) \notin {NoFile, EmptyFile, TornFile}
  BY HookAssumption
<1>3. r \in GoReadStrictSingle(j) => GoRecordToken(j, r) \in {BadToken, CurrentToken(j)}
  BY <1>1, <1>2, HookAssumption DEF GoReadStrictSingle, GoRecordToken
<1>4. r \in CReadRecords(j) => CRecordToken(j, r) \in {BadToken, CurrentToken(j)}
  BY <1>1, <1>2, HookAssumption DEF CReadRecords, CRecordToken
<1> QED BY <1>3, <1>4

\* A step of a hook happens in its phase and leaves the scheduler's view of
\* every job alone.
LEMMA HookFrame ==
    ASSUME NEW j \in Jobs
    PROVE /\ GoPrologStep(j) \/ CPrologStep(j) => phase[j] = "prolog"
          /\ GoEpilogStep(j) \/ CEpilogStep(j) => phase[j] = "epilog"
          /\ HookStep(j) => UNCHANGED ocsVars
<1> USE DEF At, Goto, Exit, ExitClean, FailTo
<1>1. GoPrologStep(j) => phase[j] = "prolog" /\ UNCHANGED ocsVars
  BY DEF GoPrologStep, GoAt, GoPrologStart, GoReadGranted, GoCheckHostOffers,
        GoOpenJobEnv, GoLoadConfig, GoExportSchedulerJobEnv, GoNewResource,
        GoAcquire, GoExportRuntimeEnv, GoWriteAtomic, GoSetStatus, GoAbort,
        GoReportError
<1>2. CPrologStep(j) => phase[j] = "prolog" /\ UNCHANGED ocsVars
  BY DEF CPrologStep, CAt, CPrologStart, CReadGranted, CCheckHostOffers,
        COpenJobEnv, CExportSchedulerEnv, CLoadConfig, CNewResource, CAcquire,
        CRecordAcquired, CExportRuntimeEnv, CSetStatus, COpenMetadata,
        CWriteMetadata, CSetPluginError, CReleaseAcquired
<1>3. GoEpilogStep(j) => phase[j] = "epilog" /\ UNCHANGED ocsVars
  BY DEF GoEpilogStep, GoEpilogAt, GoEpilogStart, GoReadMetadata,
        GoReleaseRecord, GoRemoveMetadata, GoPreserveFailedRelease,
        GoPublishSummary
<1>4. CEpilogStep(j) => phase[j] = "epilog" /\ UNCHANGED ocsVars
  BY DEF CEpilogStep, CEpilogAt, CEpilogStart, CReadMetadata, CReleaseRecord,
        CRemoveMetadata, CPreserveFailedRelease, CPublishSummary
<1> QED BY <1>1, <1>2, <1>3, <1>4 DEF HookStep

\* The steps of the Go prolog keep every variable in its type.
LEMMA TypeGoProlog ==
    ASSUME TypeOK, NEW j \in Jobs, GoPrologStep(j), CurrentToken(j) \in Token,
           pc[j] \in Holding => tok[j] \in Token
    PROVE TypeOK'
<1> USE DEF TypeOK, At, GoAt, Goto, FailTo, Exit, ExitClean, ocsVars, jobFiles
<1>1. CASE GoPrologStart(j)
  <2>1. OcsTypeOK'
    BY <1>1 DEF GoPrologStart, OcsTypeOK
  <2>2. HookTypeOK'
    BY <1>1 DEF GoPrologStart, HookTypeOK, Label, ExitCodes, ExitOK,
        ExitHostError, ExitReschedule, ExitJobError
  <2>3. FileTypeOK'
    BY <1>1 DEF GoPrologStart, FileTypeOK
  <2> QED BY <2>1, <2>2, <2>3
<1>2. CASE GoReadGranted(j)
  <2>1. OcsTypeOK'
    BY <1>2 DEF GoReadGranted, OcsTypeOK
  <2>2. HookTypeOK'
    BY <1>2 DEF GoReadGranted, HookTypeOK, Label, ExitCodes, ExitOK,
        ExitHostError, ExitReschedule, ExitJobError, GoSchedulerExit
  <2>3. FileTypeOK'
    BY <1>2 DEF GoReadGranted, FileTypeOK
  <2> QED BY <2>1, <2>2, <2>3
<1>3. CASE GoCheckHostOffers(j)
  <2>1. OcsTypeOK'
    BY <1>3 DEF GoCheckHostOffers, OcsTypeOK
  <2>2. HookTypeOK'
    BY <1>3 DEF GoCheckHostOffers, HookTypeOK, Label, ExitCodes, ExitOK,
        ExitHostError, ExitReschedule, ExitJobError, GoSchedulerExit
  <2>3. FileTypeOK'
    BY <1>3 DEF GoCheckHostOffers, FileTypeOK
  <2> QED BY <2>1, <2>2, <2>3
<1>4. CASE GoOpenJobEnv(j)
  <2>1. OcsTypeOK'
    BY <1>4 DEF GoOpenJobEnv, OcsTypeOK
  <2>2. HookTypeOK'
    BY <1>4 DEF GoOpenJobEnv, HookTypeOK, Label, ExitCodes, ExitOK,
        ExitHostError, ExitReschedule, ExitJobError
  <2>3. FileTypeOK'
    BY <1>4 DEF GoOpenJobEnv, FileTypeOK
  <2> QED BY <2>1, <2>2, <2>3
<1>5. CASE GoLoadConfig(j)
  <2>1. OcsTypeOK'
    BY <1>5 DEF GoLoadConfig, OcsTypeOK
  <2>2. HookTypeOK'
    BY <1>5 DEF GoLoadConfig, HookTypeOK, Label, ExitCodes, ExitOK,
        ExitHostError, ExitReschedule, ExitJobError
  <2>3. FileTypeOK'
    BY <1>5 DEF GoLoadConfig, FileTypeOK
  <2> QED BY <2>1, <2>2, <2>3
<1>6. CASE GoExportSchedulerJobEnv(j)
  <2>1. OcsTypeOK'
    BY <1>6 DEF GoExportSchedulerJobEnv, OcsTypeOK
  <2>2. HookTypeOK'
    BY <1>6 DEF GoExportSchedulerJobEnv, HookTypeOK, Label, ExitCodes, ExitOK,
        ExitHostError, ExitReschedule, ExitJobError, GoSchedulerExit
  <2>3. FileTypeOK'
    BY <1>6 DEF GoExportSchedulerJobEnv, FileTypeOK
  <2> QED BY <2>1, <2>2, <2>3
<1>7. CASE GoNewResource(j)
  <2>1. OcsTypeOK'
    BY <1>7 DEF GoNewResource, OcsTypeOK
  <2>2. HookTypeOK'
    BY <1>7 DEF GoNewResource, HookTypeOK, Label, ExitCodes, ExitOK,
        ExitHostError, ExitReschedule, ExitJobError
  <2>3. FileTypeOK'
    BY <1>7 DEF GoNewResource, FileTypeOK
  <2> QED BY <2>1, <2>2, <2>3
<1>8. CASE GoAcquire(j)
  <2>1. OcsTypeOK'
    BY <1>8 DEF GoAcquire, OcsTypeOK
  <2>2. HookTypeOK'
    BY <1>8 DEF GoAcquire, HookTypeOK, Label, ExitCodes, ExitOK,
        ExitHostError, ExitReschedule, ExitJobError
  <2>3. FileTypeOK'
    BY <1>8 DEF GoAcquire, FileTypeOK
  <2> QED BY <2>1, <2>2, <2>3
<1>9. CASE GoExportRuntimeEnv(j)
  <2>1. OcsTypeOK'
    BY <1>9 DEF GoExportRuntimeEnv, OcsTypeOK
  <2>2. HookTypeOK'
    BY <1>9 DEF GoExportRuntimeEnv, HookTypeOK, Label, ExitCodes, ExitOK,
        ExitHostError, ExitReschedule, ExitJobError
  <2>3. FileTypeOK'
    BY <1>9 DEF GoExportRuntimeEnv, FileTypeOK, Holding
  <2> QED BY <2>1, <2>2, <2>3
<1>10. CASE GoWriteAtomic(j)
  <2>1. OcsTypeOK'
    BY <1>10 DEF GoWriteAtomic, OcsTypeOK
  <2>2. HookTypeOK'
    BY <1>10 DEF GoWriteAtomic, HookTypeOK, Label, ExitCodes, ExitOK,
        ExitHostError, ExitReschedule, ExitJobError
  <2>3. FileTypeOK'
    BY <1>10 DEF GoWriteAtomic, FileTypeOK, File, Holding
  <2> QED BY <2>1, <2>2, <2>3
<1>11. CASE GoSetStatus(j)
  <2>1. OcsTypeOK'
    BY <1>11 DEF GoSetStatus, OcsTypeOK
  <2>2. HookTypeOK'
    BY <1>11 DEF GoSetStatus, HookTypeOK, Label, ExitCodes, ExitOK,
        ExitHostError, ExitReschedule, ExitJobError
  <2>3. FileTypeOK'
    BY <1>11 DEF GoSetStatus, FileTypeOK
  <2> QED BY <2>1, <2>2, <2>3
<1>12. CASE GoAbort(j)
  <2>1. OcsTypeOK'
    BY <1>12 DEF GoAbort, OcsTypeOK
  <2>2. HookTypeOK'
    BY <1>12 DEF GoAbort, HookTypeOK, Label, ExitCodes, ExitOK, ExitHostError,
        ExitReschedule, ExitJobError
  <2>3. FileTypeOK'
    BY <1>12 DEF GoAbort, FileTypeOK, Release
  <2> QED BY <2>1, <2>2, <2>3
<1>13. CASE GoReportError(j)
  <2>1. OcsTypeOK'
    BY <1>13 DEF GoReportError, OcsTypeOK
  <2>2. HookTypeOK'
    BY <1>13 DEF GoReportError, HookTypeOK, Label, ExitCodes, ExitOK,
        ExitHostError, ExitReschedule, ExitJobError
  <2>3. FileTypeOK'
    BY <1>13 DEF GoReportError, FileTypeOK
  <2> QED BY <2>1, <2>2, <2>3
<1> QED BY <1>1, <1>2, <1>3, <1>4, <1>5, <1>6, <1>7, <1>8, <1>9, <1>10, <1>11,
        <1>12, <1>13 DEF GoPrologStep

\* The steps of the Go prolog keep the other parts of Shape.
LEMMA MemoryGoProlog ==
    ASSUME Shape, TypeOK', NEW j \in Jobs, GoPrologStep(j)
    PROVE Dispatched' /\ HookMemory' /\ SpoolOwn'
<1> USE DEF TypeOK, OcsTypeOK, HookTypeOK, FileTypeOK
<1>0. \A k \in Jobs : CurrentToken(k)' = CurrentToken(k)
  BY HookFrame DEF CurrentToken, HookStep, ocsVars
<1> USE DEF Shape, Dispatched, HookMemory, SpoolOwn, Holding, At, GoAt,
            Goto, FailTo, Exit, ExitClean, ocsVars, jobFiles
<1>1. CASE GoPrologStart(j)
  BY <1>0, <1>1 DEF GoPrologStart
<1>2. CASE GoReadGranted(j)
  BY <1>0, <1>2 DEF GoReadGranted
<1>3. CASE GoCheckHostOffers(j)
  BY <1>0, <1>3 DEF GoCheckHostOffers
<1>4. CASE GoOpenJobEnv(j)
  BY <1>0, <1>4 DEF GoOpenJobEnv
<1>5. CASE GoLoadConfig(j)
  BY <1>0, <1>5 DEF GoLoadConfig
<1>6. CASE GoExportSchedulerJobEnv(j)
  BY <1>0, <1>6 DEF GoExportSchedulerJobEnv
<1>7. CASE GoNewResource(j)
  BY <1>0, <1>7 DEF GoNewResource
<1>8. CASE GoAcquire(j)
  BY <1>0, <1>8 DEF GoAcquire
<1>9. CASE GoExportRuntimeEnv(j)
  BY <1>0, <1>9 DEF GoExportRuntimeEnv
<1>10. CASE GoWriteAtomic(j)
  BY <1>0, <1>10 DEF GoWriteAtomic
<1>11. CASE GoSetStatus(j)
  BY <1>0, <1>11 DEF GoSetStatus
<1>12. CASE GoAbort(j)
  BY <1>0, <1>12 DEF GoAbort
<1>13. CASE GoReportError(j)
  BY <1>0, <1>13 DEF GoReportError
<1> QED BY <1>1, <1>2, <1>3, <1>4, <1>5, <1>6, <1>7, <1>8, <1>9, <1>10, <1>11,
        <1>12, <1>13 DEF GoPrologStep

\* The steps of the C prolog keep every variable in its type.
LEMMA TypeCProlog ==
    ASSUME TypeOK, NEW j \in Jobs, CPrologStep(j), CurrentToken(j) \in Token,
           pc[j] \in Holding => tok[j] \in Token
    PROVE TypeOK'
<1> USE DEF TypeOK, At, CAt, Goto, FailTo, Exit, ExitClean, ocsVars, jobFiles
<1>1. CASE CPrologStart(j)
  <2>1. OcsTypeOK'
    BY <1>1 DEF CPrologStart, OcsTypeOK
  <2>2. HookTypeOK'
    BY <1>1 DEF CPrologStart, HookTypeOK, Label, ExitCodes, ExitOK,
        ExitHostError, ExitReschedule, ExitJobError
  <2>3. FileTypeOK'
    BY <1>1 DEF CPrologStart, FileTypeOK
  <2> QED BY <2>1, <2>2, <2>3
<1>2. CASE CReadGranted(j)
  <2>1. OcsTypeOK'
    BY <1>2 DEF CReadGranted, OcsTypeOK
  <2>2. HookTypeOK'
    BY <1>2 DEF CReadGranted, HookTypeOK, Label, ExitCodes, ExitOK,
        ExitHostError, ExitReschedule, ExitJobError, CSchedulerExit
  <2>3. FileTypeOK'
    BY <1>2 DEF CReadGranted, FileTypeOK
  <2> QED BY <2>1, <2>2, <2>3
<1>3. CASE CCheckHostOffers(j)
  <2>1. OcsTypeOK'
    BY <1>3 DEF CCheckHostOffers, OcsTypeOK
  <2>2. HookTypeOK'
    BY <1>3 DEF CCheckHostOffers, HookTypeOK, Label, ExitCodes, ExitOK,
        ExitHostError, ExitReschedule, ExitJobError, CSchedulerExit
  <2>3. FileTypeOK'
    BY <1>3 DEF CCheckHostOffers, FileTypeOK
  <2> QED BY <2>1, <2>2, <2>3
<1>4. CASE COpenJobEnv(j)
  <2>1. OcsTypeOK'
    BY <1>4 DEF COpenJobEnv, OcsTypeOK
  <2>2. HookTypeOK'
    BY <1>4 DEF COpenJobEnv, HookTypeOK, Label, ExitCodes, ExitOK,
        ExitHostError, ExitReschedule, ExitJobError
  <2>3. FileTypeOK'
    BY <1>4 DEF COpenJobEnv, FileTypeOK
  <2> QED BY <2>1, <2>2, <2>3
<1>5. CASE CExportSchedulerEnv(j)
  <2>1. OcsTypeOK'
    BY <1>5 DEF CExportSchedulerEnv, OcsTypeOK
  <2>2. HookTypeOK'
    BY <1>5 DEF CExportSchedulerEnv, HookTypeOK, Label, ExitCodes, ExitOK,
        ExitHostError, ExitReschedule, ExitJobError
  <2>3. FileTypeOK'
    BY <1>5 DEF CExportSchedulerEnv, FileTypeOK
  <2> QED BY <2>1, <2>2, <2>3
<1>6. CASE CLoadConfig(j)
  <2>1. OcsTypeOK'
    BY <1>6 DEF CLoadConfig, OcsTypeOK
  <2>2. HookTypeOK'
    BY <1>6 DEF CLoadConfig, HookTypeOK, Label, ExitCodes, ExitOK,
        ExitHostError, ExitReschedule, ExitJobError
  <2>3. FileTypeOK'
    BY <1>6 DEF CLoadConfig, FileTypeOK
  <2> QED BY <2>1, <2>2, <2>3
<1>7. CASE CNewResource(j)
  <2>1. OcsTypeOK'
    BY <1>7 DEF CNewResource, OcsTypeOK
  <2>2. HookTypeOK'
    BY <1>7 DEF CNewResource, HookTypeOK, Label, ExitCodes, ExitOK,
        ExitHostError, ExitReschedule, ExitJobError
  <2>3. FileTypeOK'
    BY <1>7 DEF CNewResource, FileTypeOK
  <2> QED BY <2>1, <2>2, <2>3
<1>8. CASE CAcquire(j)
  <2>1. OcsTypeOK'
    BY <1>8 DEF CAcquire, OcsTypeOK
  <2>2. HookTypeOK'
    BY <1>8 DEF CAcquire, HookTypeOK, Label, ExitCodes, ExitOK, ExitHostError,
        ExitReschedule, ExitJobError
  <2>3. FileTypeOK'
    BY <1>8 DEF CAcquire, FileTypeOK
  <2> QED BY <2>1, <2>2, <2>3
<1>9. CASE CRecordAcquired(j)
  <2>1. OcsTypeOK'
    BY <1>9 DEF CRecordAcquired, OcsTypeOK
  <2>2. HookTypeOK'
    BY <1>9 DEF CRecordAcquired, HookTypeOK, Label, ExitCodes, ExitOK,
        ExitHostError, ExitReschedule, ExitJobError
  <2>3. FileTypeOK'
    BY <1>9 DEF CRecordAcquired, FileTypeOK
  <2> QED BY <2>1, <2>2, <2>3
<1>10. CASE CExportRuntimeEnv(j)
  <2>1. OcsTypeOK'
    BY <1>10 DEF CExportRuntimeEnv, OcsTypeOK
  <2>2. HookTypeOK'
    BY <1>10 DEF CExportRuntimeEnv, HookTypeOK, Label, ExitCodes, ExitOK,
        ExitHostError, ExitReschedule, ExitJobError
  <2>3. FileTypeOK'
    BY <1>10 DEF CExportRuntimeEnv, FileTypeOK, Holding
  <2> QED BY <2>1, <2>2, <2>3
<1>11. CASE CSetStatus(j)
  <2>1. OcsTypeOK'
    BY <1>11 DEF CSetStatus, OcsTypeOK
  <2>2. HookTypeOK'
    BY <1>11 DEF CSetStatus, HookTypeOK, Label, ExitCodes, ExitOK,
        ExitHostError, ExitReschedule, ExitJobError
  <2>3. FileTypeOK'
    BY <1>11 DEF CSetStatus, FileTypeOK
  <2> QED BY <2>1, <2>2, <2>3
<1>12. CASE COpenMetadata(j)
  <2>1. OcsTypeOK'
    BY <1>12 DEF COpenMetadata, OcsTypeOK
  <2>2. HookTypeOK'
    BY <1>12 DEF COpenMetadata, HookTypeOK, Label, ExitCodes, ExitOK,
        ExitHostError, ExitReschedule, ExitJobError
  <2>3. FileTypeOK'
    BY <1>12 DEF COpenMetadata, FileTypeOK, File
  <2> QED BY <2>1, <2>2, <2>3
<1>13. CASE CWriteMetadata(j)
  <2>1. OcsTypeOK'
    BY <1>13 DEF CWriteMetadata, OcsTypeOK
  <2>2. HookTypeOK'
    BY <1>13 DEF CWriteMetadata, HookTypeOK, Label, ExitCodes, ExitOK,
        ExitHostError, ExitReschedule, ExitJobError
  <2>3. FileTypeOK'
    BY <1>13 DEF CWriteMetadata, FileTypeOK, File, Holding
  <2> QED BY <2>1, <2>2, <2>3
<1>14. CASE CSetPluginError(j)
  <2>1. OcsTypeOK'
    BY <1>14 DEF CSetPluginError, OcsTypeOK
  <2>2. HookTypeOK'
    BY <1>14 DEF CSetPluginError, HookTypeOK, Label, ExitCodes, ExitOK,
        ExitHostError, ExitReschedule, ExitJobError
  <2>3. FileTypeOK'
    BY <1>14 DEF CSetPluginError, FileTypeOK
  <2> QED BY <2>1, <2>2, <2>3
<1>15. CASE CReleaseAcquired(j)
  <2>1. OcsTypeOK'
    BY <1>15 DEF CReleaseAcquired, OcsTypeOK
  <2>2. HookTypeOK'
    BY <1>15 DEF CReleaseAcquired, HookTypeOK, Label, ExitCodes, ExitOK,
        ExitHostError, ExitReschedule, ExitJobError
  <2>3. FileTypeOK'
    BY <1>15 DEF CReleaseAcquired, FileTypeOK, Release
  <2> QED BY <2>1, <2>2, <2>3
<1> QED BY <1>1, <1>2, <1>3, <1>4, <1>5, <1>6, <1>7, <1>8, <1>9, <1>10, <1>11,
        <1>12, <1>13, <1>14, <1>15 DEF CPrologStep

\* The steps of the C prolog keep the other parts of Shape.
LEMMA MemoryCProlog ==
    ASSUME Shape, TypeOK', NEW j \in Jobs, CPrologStep(j)
    PROVE Dispatched' /\ HookMemory' /\ SpoolOwn'
<1> USE DEF TypeOK, OcsTypeOK, HookTypeOK, FileTypeOK
<1>0. \A k \in Jobs : CurrentToken(k)' = CurrentToken(k)
  BY HookFrame DEF CurrentToken, HookStep, ocsVars
<1> USE DEF Shape, Dispatched, HookMemory, SpoolOwn, Holding, At, CAt,
            Goto, FailTo, Exit, ExitClean, ocsVars, jobFiles
<1>1. CASE CPrologStart(j)
  BY <1>0, <1>1 DEF CPrologStart
<1>2. CASE CReadGranted(j)
  BY <1>0, <1>2 DEF CReadGranted
<1>3. CASE CCheckHostOffers(j)
  BY <1>0, <1>3 DEF CCheckHostOffers
<1>4. CASE COpenJobEnv(j)
  BY <1>0, <1>4 DEF COpenJobEnv
<1>5. CASE CExportSchedulerEnv(j)
  BY <1>0, <1>5 DEF CExportSchedulerEnv
<1>6. CASE CLoadConfig(j)
  BY <1>0, <1>6 DEF CLoadConfig
<1>7. CASE CNewResource(j)
  BY <1>0, <1>7 DEF CNewResource
<1>8. CASE CAcquire(j)
  BY <1>0, <1>8 DEF CAcquire
<1>9. CASE CRecordAcquired(j)
  BY <1>0, <1>9 DEF CRecordAcquired
<1>10. CASE CExportRuntimeEnv(j)
  BY <1>0, <1>10 DEF CExportRuntimeEnv
<1>11. CASE CSetStatus(j)
  BY <1>0, <1>11 DEF CSetStatus
<1>12. CASE COpenMetadata(j)
  BY <1>0, <1>12 DEF COpenMetadata
<1>13. CASE CWriteMetadata(j)
  BY <1>0, <1>13 DEF CWriteMetadata
<1>14. CASE CSetPluginError(j)
  BY <1>0, <1>14 DEF CSetPluginError
<1>15. CASE CReleaseAcquired(j)
  BY <1>0, <1>15 DEF CReleaseAcquired
<1> QED BY <1>1, <1>2, <1>3, <1>4, <1>5, <1>6, <1>7, <1>8, <1>9, <1>10, <1>11,
        <1>12, <1>13, <1>14, <1>15 DEF CPrologStep

\* The steps of the Go epilog keep every variable in its type.
LEMMA TypeGoEpilog ==
    ASSUME Shape, NEW j \in Jobs, GoEpilogStep(j), CurrentToken(j) \in Token,
           host[j] \in Hosts
    PROVE TypeOK'
<1> USE DEF TypeOK, At, GoEpilogAt, Goto, FailTo, Exit, ExitClean, ocsVars, jobFiles,
            Shape
<1>1. CASE GoEpilogStart(j)
  <2>1. OcsTypeOK'
    BY <1>1 DEF GoEpilogStart, OcsTypeOK
  <2>2. HookTypeOK'
    BY <1>1 DEF GoEpilogStart, HookTypeOK, Label, ExitCodes, ExitOK,
        ExitHostError, ExitReschedule, ExitJobError
  <2>3. FileTypeOK'
    BY <1>1 DEF GoEpilogStart, FileTypeOK
  <2> QED BY <2>1, <2>2, <2>3
<1>2. CASE GoReadMetadata(j)
  <2>1. OcsTypeOK'
    BY <1>2 DEF GoReadMetadata, OcsTypeOK
  <2>2. HookTypeOK'
    <3>1. tok' \in [Jobs -> Token \cup {NoToken, BadToken}]
      BY <1>2, RecordTokenType DEF GoReadMetadata, HookTypeOK
    <3>2. pc' \in [Jobs -> Label] /\ code' \in [Jobs -> ExitCodes]
      BY <1>2 DEF GoReadMetadata, HookTypeOK, Label, ExitCodes, ExitOK,
          ExitHostError, ExitReschedule, ExitJobError
    <3>3. failed' \in [Jobs -> BOOLEAN] /\ envBroken' \in [Jobs -> BOOLEAN]
      BY <1>2 DEF GoReadMetadata, HookTypeOK
    <3>4. total' \in [Jobs -> 0..1]
      <4>1. total' = total \/ \E n \in 0..1 : total' = [total EXCEPT ![j] = n]
        BY <1>2 DEF GoReadMetadata
      <4> QED BY <4>1 DEF HookTypeOK
    <3> QED BY <3>1, <3>2, <3>3, <3>4 DEF HookTypeOK
  <2>3. FileTypeOK'
    BY <1>2 DEF GoReadMetadata, FileTypeOK
  <2> QED BY <2>1, <2>2, <2>3
<1>3. CASE GoReleaseRecord(j)
  <2>1. OcsTypeOK'
    BY <1>3 DEF GoReleaseRecord, OcsTypeOK
  <2>2. HookTypeOK'
    BY <1>3 DEF GoReleaseRecord, HookTypeOK, Label, ExitCodes, ExitOK,
        ExitHostError, ExitReschedule, ExitJobError
  <2>3. FileTypeOK'
    BY <1>3 DEF GoReleaseRecord, FileTypeOK, Release
  <2> QED BY <2>1, <2>2, <2>3
<1>4. CASE GoRemoveMetadata(j)
  <2>1. OcsTypeOK'
    BY <1>4 DEF GoRemoveMetadata, OcsTypeOK
  <2>2. HookTypeOK'
    BY <1>4 DEF GoRemoveMetadata, HookTypeOK, Label, ExitCodes, ExitOK,
        ExitHostError, ExitReschedule, ExitJobError
  <2>3. FileTypeOK'
    BY <1>4 DEF GoRemoveMetadata, FileTypeOK, File
  <2> QED BY <2>1, <2>2, <2>3
<1>5. CASE GoPreserveFailedRelease(j)
  <2>1. OcsTypeOK'
    BY <1>5 DEF GoPreserveFailedRelease, OcsTypeOK
  <2>2. HookTypeOK'
    BY <1>5 DEF GoPreserveFailedRelease, HookTypeOK, Label, ExitCodes, ExitOK,
        ExitHostError, ExitReschedule, ExitJobError
  <2>3. FileTypeOK'
    BY <1>5 DEF GoPreserveFailedRelease, FileTypeOK, File
  <2> QED BY <2>1, <2>2, <2>3
<1>6. CASE GoPublishSummary(j)
  <2>1. OcsTypeOK'
    BY <1>6 DEF GoPublishSummary, OcsTypeOK
  <2>2. HookTypeOK'
    BY <1>6 DEF GoPublishSummary, HookTypeOK, Label, ExitCodes, ExitOK,
        ExitHostError, ExitReschedule, ExitJobError
  <2>3. FileTypeOK'
    BY <1>6 DEF GoPublishSummary, FileTypeOK, Usage, HookTypeOK
  <2> QED BY <2>1, <2>2, <2>3
<1> QED BY <1>1, <1>2, <1>3, <1>4, <1>5, <1>6 DEF GoEpilogStep

\* The steps of the Go epilog keep the other parts of Shape.
LEMMA MemoryGoEpilog ==
    ASSUME Shape, TypeOK', NEW j \in Jobs, GoEpilogStep(j)
    PROVE Dispatched' /\ HookMemory' /\ SpoolOwn'
<1> USE DEF TypeOK, OcsTypeOK, HookTypeOK, FileTypeOK
<1>0. \A k \in Jobs : CurrentToken(k)' = CurrentToken(k)
  BY HookFrame DEF CurrentToken, HookStep, ocsVars
<1> USE DEF Shape, Dispatched, HookMemory, SpoolOwn, Holding, At, GoEpilogAt,
            Goto, FailTo, Exit, ExitClean, ocsVars, jobFiles
<1>t. CurrentToken(j) \in Token
  BY HookFrame, CurrentTokenType
<1>1. CASE GoEpilogStart(j)
  BY <1>0, <1>1 DEF GoEpilogStart
<1>2. CASE GoReadMetadata(j)
  BY <1>0, <1>2, <1>t, RecordTokenType DEF GoReadMetadata
<1>3. CASE GoReleaseRecord(j)
  BY <1>0, <1>3 DEF GoReleaseRecord
<1>4. CASE GoRemoveMetadata(j)
  BY <1>0, <1>4 DEF GoRemoveMetadata
<1>5. CASE GoPreserveFailedRelease(j)
  BY <1>0, <1>5 DEF GoPreserveFailedRelease
<1>6. CASE GoPublishSummary(j)
  BY <1>0, <1>6 DEF GoPublishSummary
<1> QED BY <1>1, <1>2, <1>3, <1>4, <1>5, <1>6 DEF GoEpilogStep

\* The steps of the C epilog keep every variable in its type.
LEMMA TypeCEpilog ==
    ASSUME Shape, NEW j \in Jobs, CEpilogStep(j), CurrentToken(j) \in Token,
           host[j] \in Hosts
    PROVE TypeOK'
<1> USE DEF TypeOK, At, CEpilogAt, Goto, FailTo, Exit, ExitClean, ocsVars, jobFiles,
            Shape
<1>1. CASE CEpilogStart(j)
  <2>1. OcsTypeOK'
    BY <1>1 DEF CEpilogStart, OcsTypeOK
  <2>2. HookTypeOK'
    BY <1>1 DEF CEpilogStart, HookTypeOK, Label, ExitCodes, ExitOK,
        ExitHostError, ExitReschedule, ExitJobError
  <2>3. FileTypeOK'
    BY <1>1 DEF CEpilogStart, FileTypeOK
  <2> QED BY <2>1, <2>2, <2>3
<1>2. CASE CReadMetadata(j)
  <2>1. OcsTypeOK'
    BY <1>2 DEF CReadMetadata, OcsTypeOK
  <2>2. HookTypeOK'
    <3>1. tok' \in [Jobs -> Token \cup {NoToken, BadToken}]
      BY <1>2, RecordTokenType DEF CReadMetadata, HookTypeOK
    <3>2. pc' \in [Jobs -> Label] /\ code' \in [Jobs -> ExitCodes]
      BY <1>2 DEF CReadMetadata, HookTypeOK, Label, ExitCodes, ExitOK,
          ExitHostError, ExitReschedule, ExitJobError
    <3>3. failed' \in [Jobs -> BOOLEAN] /\ envBroken' \in [Jobs -> BOOLEAN]
      BY <1>2 DEF CReadMetadata, HookTypeOK
    <3>4. total' \in [Jobs -> 0..1]
      <4>1. total' = total \/ \E n \in 0..1 : total' = [total EXCEPT ![j] = n]
        BY <1>2 DEF CReadMetadata
      <4> QED BY <4>1 DEF HookTypeOK
    <3> QED BY <3>1, <3>2, <3>3, <3>4 DEF HookTypeOK
  <2>3. FileTypeOK'
    BY <1>2 DEF CReadMetadata, FileTypeOK
  <2> QED BY <2>1, <2>2, <2>3
<1>3. CASE CReleaseRecord(j)
  <2>1. OcsTypeOK'
    BY <1>3 DEF CReleaseRecord, OcsTypeOK
  <2>2. HookTypeOK'
    BY <1>3 DEF CReleaseRecord, HookTypeOK, Label, ExitCodes, ExitOK,
        ExitHostError, ExitReschedule, ExitJobError
  <2>3. FileTypeOK'
    BY <1>3 DEF CReleaseRecord, FileTypeOK, Release
  <2> QED BY <2>1, <2>2, <2>3
<1>4. CASE CRemoveMetadata(j)
  <2>1. OcsTypeOK'
    BY <1>4 DEF CRemoveMetadata, OcsTypeOK
  <2>2. HookTypeOK'
    BY <1>4 DEF CRemoveMetadata, HookTypeOK, Label, ExitCodes, ExitOK,
        ExitHostError, ExitReschedule, ExitJobError
  <2>3. FileTypeOK'
    BY <1>4 DEF CRemoveMetadata, FileTypeOK, File
  <2> QED BY <2>1, <2>2, <2>3
<1>5. CASE CPreserveFailedRelease(j)
  <2>1. OcsTypeOK'
    BY <1>5 DEF CPreserveFailedRelease, OcsTypeOK
  <2>2. HookTypeOK'
    BY <1>5 DEF CPreserveFailedRelease, HookTypeOK, Label, ExitCodes, ExitOK,
        ExitHostError, ExitReschedule, ExitJobError
  <2>3. FileTypeOK'
    BY <1>5 DEF CPreserveFailedRelease, FileTypeOK, File
  <2> QED BY <2>1, <2>2, <2>3
<1>6. CASE CPublishSummary(j)
  <2>1. OcsTypeOK'
    BY <1>6 DEF CPublishSummary, OcsTypeOK
  <2>2. HookTypeOK'
    BY <1>6 DEF CPublishSummary, HookTypeOK, Label, ExitCodes, ExitOK,
        ExitHostError, ExitReschedule, ExitJobError
  <2>3. FileTypeOK'
    BY <1>6 DEF CPublishSummary, FileTypeOK, Usage, HookTypeOK
  <2> QED BY <2>1, <2>2, <2>3
<1> QED BY <1>1, <1>2, <1>3, <1>4, <1>5, <1>6 DEF CEpilogStep

\* The steps of the C epilog keep the other parts of Shape.
LEMMA MemoryCEpilog ==
    ASSUME Shape, TypeOK', NEW j \in Jobs, CEpilogStep(j)
    PROVE Dispatched' /\ HookMemory' /\ SpoolOwn'
<1> USE DEF TypeOK, OcsTypeOK, HookTypeOK, FileTypeOK
<1>0. \A k \in Jobs : CurrentToken(k)' = CurrentToken(k)
  BY HookFrame DEF CurrentToken, HookStep, ocsVars
<1> USE DEF Shape, Dispatched, HookMemory, SpoolOwn, Holding, At, CEpilogAt,
            Goto, FailTo, Exit, ExitClean, ocsVars, jobFiles
<1>t. CurrentToken(j) \in Token
  BY HookFrame, CurrentTokenType
<1>1. CASE CEpilogStart(j)
  BY <1>0, <1>1 DEF CEpilogStart
<1>2. CASE CReadMetadata(j)
  BY <1>0, <1>2, <1>t, RecordTokenType DEF CReadMetadata
<1>3. CASE CReleaseRecord(j)
  BY <1>0, <1>3 DEF CReleaseRecord
<1>4. CASE CRemoveMetadata(j)
  BY <1>0, <1>4 DEF CRemoveMetadata
<1>5. CASE CPreserveFailedRelease(j)
  BY <1>0, <1>5 DEF CPreserveFailedRelease
<1>6. CASE CPublishSummary(j)
  BY <1>0, <1>6 DEF CPublishSummary
<1> QED BY <1>1, <1>2, <1>3, <1>4, <1>5, <1>6 DEF CEpilogStep

\* Every step of a hook keeps Shape.
LEMMA ShapeHooks ==
    ASSUME Shape, NEW j \in Jobs, HookStep(j)
    PROVE Shape'
<1>1. TypeOK /\ phase[j] # "pending"
  BY HookFrame DEF Shape, HookStep
<1>2. CurrentToken(j) \in Token /\ host[j] \in Hosts
  BY <1>1, CurrentTokenType
<1>3. CASE GoPrologStep(j)
  <2>1. pc[j] \in Holding => tok[j] \in Token
    BY <1>3, HookFrame, HeldTokenType
  <2> QED BY <1>1, <1>2, <1>3, <2>1, TypeGoProlog, MemoryGoProlog DEF Shape
<1>4. CASE CPrologStep(j)
  <2>1. pc[j] \in Holding => tok[j] \in Token
    BY <1>4, HookFrame, HeldTokenType
  <2> QED BY <1>1, <1>2, <1>4, <2>1, TypeCProlog, MemoryCProlog DEF Shape
<1>5. CASE GoEpilogStep(j)
  BY <1>1, <1>2, <1>5, TypeGoEpilog, MemoryGoEpilog DEF Shape
<1>6. CASE CEpilogStep(j)
  BY <1>1, <1>2, <1>6, TypeCEpilog, MemoryCEpilog DEF Shape
<1> QED BY <1>3, <1>4, <1>5, <1>6 DEF HookStep

\* A fresh hook process is well typed.
LEMMA StartHookType ==
    ASSUME HookTypeOK, NEW j \in Jobs, StartHook(j) PROVE HookTypeOK'
BY DEF HookTypeOK, StartHook, Label, ExitCodes, ExitOK

\* Every step of the scheduler, a kill, a crash and an administrator's
\* command keep Shape.
LEMMA ShapeScheduler ==
    ASSUME Shape,
           \/ \E j \in Jobs : OcsStep(j) \/ FaultStep(j)
           \/ \E h \in Hosts : ClearQueueError(h)
    PROVE Shape'
<1> USE DEF Shape, TypeOK, At, ocsVars, hookVars, jobFiles
<1> DEFINE Rest == Dispatched /\ HookMemory /\ SpoolOwn
<1>1. ASSUME NEW j \in Jobs, NEW h \in Hosts, Dispatch(j, h) PROVE Shape'
  <2>1. OcsTypeOK'
    BY <1>1, HookAssumption DEF Dispatch, OcsTypeOK, Phase
  <2>2. HookTypeOK'
    BY <1>1, StartHookType DEF Dispatch
  <2>3. FileTypeOK'
    BY <1>1 DEF Dispatch, FileTypeOK
  <2>4. Rest'
    BY <1>1, <2>1, <2>2, <2>3, HookAssumption
       DEF Dispatch, StartHook, Dispatched, HookMemory, SpoolOwn, Holding, CurrentToken,
           OcsTypeOK, HookTypeOK, FileTypeOK
  <2> QED BY <2>1, <2>2, <2>3, <2>4
<1>2. ASSUME NEW j \in Jobs, PrologExits(j) PROVE Shape'
  <2>1. host[j] \in Hosts
    BY <1>2 DEF PrologExits, Dispatched
  <2>2. OcsTypeOK'
    <3>1. qerr' \in SUBSET Hosts
      BY <1>2, <2>1 DEF PrologExits, MarkQueue, OcsTypeOK
    <3>2. outcome' \in [Jobs -> {"finish", "requeue", "joberror"}]
      BY <1>2 DEF PrologExits, OutcomeOf, OcsTypeOK
    <3> QED BY <1>2, <3>1, <3>2 DEF PrologExits, OcsTypeOK, Phase
  <2>3. HookTypeOK'
    BY <1>2, StartHookType DEF PrologExits, HookTypeOK
  <2>4. FileTypeOK'
    BY <1>2 DEF PrologExits, FileTypeOK
  <2>5. Rest'
    BY <1>2 DEF PrologExits, StartHook, Dispatched, HookMemory, SpoolOwn, Holding, CurrentToken,
                OcsTypeOK, HookTypeOK, FileTypeOK
  <2> QED BY <2>2, <2>3, <2>4, <2>5
<1>3. ASSUME NEW j \in Jobs, JobEnds(j) PROVE Shape'
  <2>1. OcsTypeOK'
    BY <1>3 DEF JobEnds, OcsTypeOK, Phase
  <2>2. HookTypeOK'
    BY <1>3, StartHookType DEF JobEnds
  <2>3. FileTypeOK'
    BY <1>3 DEF JobEnds, FileTypeOK
  <2>4. Rest'
    BY <1>3 DEF JobEnds, StartHook, Dispatched, HookMemory, SpoolOwn, Holding, CurrentToken,
                OcsTypeOK, HookTypeOK, FileTypeOK
  <2> QED BY <2>1, <2>2, <2>3, <2>4
<1>4. ASSUME NEW j \in Jobs, EpilogExits(j) PROVE Shape'
  <2>1. host[j] \in Hosts
    BY <1>4 DEF EpilogExits, Dispatched
  <2>2. OcsTypeOK'
    <3>1. qerr' \in SUBSET Hosts
      BY <1>4, <2>1 DEF EpilogExits, MarkQueue, OcsTypeOK
    <3>2. outcome' \in [Jobs -> {"finish", "requeue", "joberror"}]
      BY <1>4 DEF EpilogExits, OutcomeOf, OcsTypeOK
    <3> QED BY <1>4, <3>1, <3>2 DEF EpilogExits, OcsTypeOK, Phase
  <2>3. HookTypeOK' /\ FileTypeOK'
    BY <1>4 DEF EpilogExits, HookTypeOK, FileTypeOK
  <2>4. Rest'
    BY <1>4 DEF EpilogExits, Dispatched, HookMemory, SpoolOwn, Holding, CurrentToken,
                OcsTypeOK, HookTypeOK, FileTypeOK
  <2> QED BY <2>2, <2>3, <2>4
<1>5. ASSUME NEW j \in Jobs, Reap(j) PROVE Shape'
  <2>1. OcsTypeOK' /\ HookTypeOK'
    BY <1>5 DEF Reap, OcsTypeOK, HookTypeOK, Phase
  <2>2. FileTypeOK'
    BY <1>5 DEF Reap, FileTypeOK, File
  <2>3. Rest'
    BY <1>5 DEF Reap, Dispatched, HookMemory, SpoolOwn, Holding, CurrentToken,
                OcsTypeOK, HookTypeOK, FileTypeOK
  <2> QED BY <2>1, <2>2, <2>3
<1>6. ASSUME NEW j \in Jobs, KillHook(j) PROVE Shape'
  <2> USE DEF KillHook, Exit, FailTo
  <2>1. OcsTypeOK' /\ HookTypeOK' /\ FileTypeOK'
    BY <1>6 DEF OcsTypeOK, HookTypeOK, FileTypeOK, Label, ExitCodes, Killed
  <2>2. Rest'
    BY <1>6 DEF Dispatched, HookMemory, SpoolOwn, Holding, CurrentToken,
                OcsTypeOK, HookTypeOK, FileTypeOK
  <2> QED BY <2>1, <2>2
<1>7. ASSUME NEW j \in Jobs, HostCrash(j) PROVE Shape'
  <2>1. OcsTypeOK' /\ HookTypeOK' /\ FileTypeOK'
    BY <1>7 DEF HostCrash, OcsTypeOK, HookTypeOK, FileTypeOK, Phase
  <2>2. Rest'
    BY <1>7 DEF HostCrash, Dispatched, HookMemory, SpoolOwn, Holding, CurrentToken,
                OcsTypeOK, HookTypeOK, FileTypeOK
  <2> QED BY <2>1, <2>2
<1>8. ASSUME NEW h \in Hosts, ClearQueueError(h) PROVE Shape'
  BY <1>8 DEF ClearQueueError, OcsTypeOK, HookTypeOK, FileTypeOK, Dispatched,
              HookMemory, SpoolOwn, Holding, CurrentToken
<1> QED BY <1>1, <1>2, <1>3, <1>4, <1>5, <1>6, <1>7, <1>8 DEF OcsStep, FaultStep

\* Stuttering keeps Shape.
LEMMA ShapeStutter ==
    ASSUME Shape, UNCHANGED vars PROVE Shape'
BY DEF Shape, TypeOK, OcsTypeOK, HookTypeOK, FileTypeOK, Dispatched, HookMemory,
       SpoolOwn, CurrentToken, At, vars, ocsVars, hookVars, jobFiles

\* Shape is an invariant.
THEOREM ShapeInvariant == Spec => []Shape
<1>1. Init => Shape
  BY HookAssumption
     DEF Init, Shape, TypeOK, OcsTypeOK, HookTypeOK, FileTypeOK, Dispatched,
         HookMemory, SpoolOwn, Phase, Label, File, ExitCodes, ExitOK, At, Holding
<1>2. Shape /\ [Next]_vars => Shape'
  BY ShapeHooks, ShapeScheduler, ShapeStutter DEF Next, Terminated
<1> QED BY <1>1, <1>2, PTL DEF Spec

\* Every variable of the specification keeps its type, whatever faults occur
\* and whichever hooks are installed.
THEOREM TypeCorrect == Spec => []TypeOK
<1>1. Shape => TypeOK
  BY DEF Shape
<1> QED BY <1>1, ShapeInvariant, PTL
-----------------------------------------------------------------------------
(***************************************************************************)
(* What a hook's step does to the other jobs: nothing to their memory and  *)
(* files, and it closes no session but the one whose token it holds.       *)
(***************************************************************************)

\* The step leaves the hook and the files of job k alone.
Untouched(k) ==
    /\ pc'[k] = pc[k] /\ tok'[k] = tok[k] /\ code'[k] = code[k]
    /\ spool'[k] = spool[k] /\ envStatus'[k] = envStatus[k]
    /\ envTok'[k] = envTok[k] /\ envBroken'[k] = envBroken[k]
    /\ failed'[k] = failed[k] /\ total'[k] = total[k] /\ usage'[k] = usage[k]
    /\ \A h \in Hosts : kept'[h][k] = kept[h][k]

\* A step of the Go prolog touches no other job.
LEMMA OthersGoProlog ==
    ASSUME TypeOK, NEW j \in Jobs, GoPrologStep(j), NEW k \in Jobs, k # j
    PROVE Untouched(k)
<1> USE DEF TypeOK, HookTypeOK, FileTypeOK, Untouched, Goto, FailTo, Exit,
            ExitClean, jobFiles
<1>1. CASE GoPrologStart(j)
  BY <1>1 DEF GoPrologStart
<1>2. CASE GoReadGranted(j)
  BY <1>2 DEF GoReadGranted
<1>3. CASE GoCheckHostOffers(j)
  BY <1>3 DEF GoCheckHostOffers
<1>4. CASE GoOpenJobEnv(j)
  BY <1>4 DEF GoOpenJobEnv
<1>5. CASE GoLoadConfig(j)
  BY <1>5 DEF GoLoadConfig
<1>6. CASE GoExportSchedulerJobEnv(j)
  BY <1>6 DEF GoExportSchedulerJobEnv
<1>7. CASE GoNewResource(j)
  BY <1>7 DEF GoNewResource
<1>8. CASE GoAcquire(j)
  BY <1>8 DEF GoAcquire
<1>9. CASE GoExportRuntimeEnv(j)
  BY <1>9 DEF GoExportRuntimeEnv
<1>10. CASE GoWriteAtomic(j)
  BY <1>10 DEF GoWriteAtomic
<1>11. CASE GoSetStatus(j)
  BY <1>11 DEF GoSetStatus
<1>12. CASE GoAbort(j)
  BY <1>12 DEF GoAbort
<1>13. CASE GoReportError(j)
  BY <1>13 DEF GoReportError
<1> QED BY <1>1, <1>2, <1>3, <1>4, <1>5, <1>6, <1>7, <1>8, <1>9, <1>10, <1>11,
        <1>12, <1>13 DEF GoPrologStep

\* A step of the C prolog touches no other job.
LEMMA OthersCProlog ==
    ASSUME TypeOK, NEW j \in Jobs, CPrologStep(j), NEW k \in Jobs, k # j
    PROVE Untouched(k)
<1> USE DEF TypeOK, HookTypeOK, FileTypeOK, Untouched, Goto, FailTo, Exit,
            ExitClean, jobFiles
<1>1. CASE CPrologStart(j)
  BY <1>1 DEF CPrologStart
<1>2. CASE CReadGranted(j)
  BY <1>2 DEF CReadGranted
<1>3. CASE CCheckHostOffers(j)
  BY <1>3 DEF CCheckHostOffers
<1>4. CASE COpenJobEnv(j)
  BY <1>4 DEF COpenJobEnv
<1>5. CASE CExportSchedulerEnv(j)
  BY <1>5 DEF CExportSchedulerEnv
<1>6. CASE CLoadConfig(j)
  BY <1>6 DEF CLoadConfig
<1>7. CASE CNewResource(j)
  BY <1>7 DEF CNewResource
<1>8. CASE CAcquire(j)
  BY <1>8 DEF CAcquire
<1>9. CASE CRecordAcquired(j)
  BY <1>9 DEF CRecordAcquired
<1>10. CASE CExportRuntimeEnv(j)
  BY <1>10 DEF CExportRuntimeEnv
<1>11. CASE CSetStatus(j)
  BY <1>11 DEF CSetStatus
<1>12. CASE COpenMetadata(j)
  BY <1>12 DEF COpenMetadata
<1>13. CASE CWriteMetadata(j)
  BY <1>13 DEF CWriteMetadata
<1>14. CASE CSetPluginError(j)
  BY <1>14 DEF CSetPluginError
<1>15. CASE CReleaseAcquired(j)
  BY <1>15 DEF CReleaseAcquired
<1> QED BY <1>1, <1>2, <1>3, <1>4, <1>5, <1>6, <1>7, <1>8, <1>9, <1>10, <1>11,
        <1>12, <1>13, <1>14, <1>15 DEF CPrologStep

\* A step of the Go epilog touches no other job.
LEMMA OthersGoEpilog ==
    ASSUME TypeOK, NEW j \in Jobs, GoEpilogStep(j), NEW k \in Jobs, k # j
    PROVE Untouched(k)
<1> USE DEF TypeOK, HookTypeOK, FileTypeOK, Untouched, Goto, FailTo, Exit,
            ExitClean, jobFiles
<1>1. CASE GoEpilogStart(j)
  BY <1>1 DEF GoEpilogStart
<1>2. CASE GoReadMetadata(j)
  BY <1>2 DEF GoReadMetadata
<1>3. CASE GoReleaseRecord(j)
  BY <1>3 DEF GoReleaseRecord
<1>4. CASE GoRemoveMetadata(j)
  BY <1>4 DEF GoRemoveMetadata
<1>5. CASE GoPreserveFailedRelease(j)
  BY <1>5 DEF GoPreserveFailedRelease
<1>6. CASE GoPublishSummary(j)
  BY <1>6 DEF GoPublishSummary
<1> QED BY <1>1, <1>2, <1>3, <1>4, <1>5, <1>6 DEF GoEpilogStep

\* A step of the C epilog touches no other job.
LEMMA OthersCEpilog ==
    ASSUME TypeOK, NEW j \in Jobs, CEpilogStep(j), NEW k \in Jobs, k # j
    PROVE Untouched(k)
<1> USE DEF TypeOK, HookTypeOK, FileTypeOK, Untouched, Goto, FailTo, Exit,
            ExitClean, jobFiles
<1>1. CASE CEpilogStart(j)
  BY <1>1 DEF CEpilogStart
<1>2. CASE CReadMetadata(j)
  BY <1>2 DEF CReadMetadata
<1>3. CASE CReleaseRecord(j)
  BY <1>3 DEF CReleaseRecord
<1>4. CASE CRemoveMetadata(j)
  BY <1>4 DEF CRemoveMetadata
<1>5. CASE CPreserveFailedRelease(j)
  BY <1>5 DEF CPreserveFailedRelease
<1>6. CASE CPublishSummary(j)
  BY <1>6 DEF CPublishSummary
<1> QED BY <1>1, <1>2, <1>3, <1>4, <1>5, <1>6 DEF CEpilogStep

\* A hook's step touches no other job.
LEMMA OthersUntouched ==
    ASSUME TypeOK, NEW j \in Jobs, HookStep(j), NEW k \in Jobs, k # j
    PROVE Untouched(k)
BY OthersGoProlog, OthersCProlog, OthersGoEpilog, OthersCEpilog DEF HookStep

\* A hook closes at most the session whose token it holds, and opens at most
\* the one of its own dispatch.
LEMMA SessionsOfStep ==
    ASSUME NEW j \in Jobs, HookStep(j)
    PROVE /\ sessions \ {tok[j]} \subseteq sessions'
          /\ sessions' \subseteq sessions \cup {CurrentToken(j)}
<1> USE DEF ExitClean
<1>1. GoPrologStep(j) => /\ sessions \ {tok[j]} \subseteq sessions'
                         /\ sessions' \subseteq sessions \cup {CurrentToken(j)}
  BY DEF GoPrologStep, GoPrologStart, GoReadGranted, GoCheckHostOffers,
        GoOpenJobEnv, GoLoadConfig, GoExportSchedulerJobEnv, GoNewResource,
        GoAcquire, GoExportRuntimeEnv, GoWriteAtomic, GoSetStatus, GoAbort,
        GoReportError, Release
<1>2. CPrologStep(j) => /\ sessions \ {tok[j]} \subseteq sessions'
                        /\ sessions' \subseteq sessions \cup {CurrentToken(j)}
  BY DEF CPrologStep, CPrologStart, CReadGranted, CCheckHostOffers,
        COpenJobEnv, CExportSchedulerEnv, CLoadConfig, CNewResource, CAcquire,
        CRecordAcquired, CExportRuntimeEnv, CSetStatus, COpenMetadata,
        CWriteMetadata, CSetPluginError, CReleaseAcquired, Release
<1>3. GoEpilogStep(j) => /\ sessions \ {tok[j]} \subseteq sessions'
                         /\ sessions' \subseteq sessions \cup {CurrentToken(j)}
  BY DEF GoEpilogStep, GoEpilogStart, GoReadMetadata, GoReleaseRecord,
        GoRemoveMetadata, GoPreserveFailedRelease, GoPublishSummary, Release
<1>4. CEpilogStep(j) => /\ sessions \ {tok[j]} \subseteq sessions'
                        /\ sessions' \subseteq sessions \cup {CurrentToken(j)}
  BY DEF CEpilogStep, CEpilogStart, CReadMetadata, CReleaseRecord,
        CRemoveMetadata, CPreserveFailedRelease, CPublishSummary, Release
<1> QED BY <1>1, <1>2, <1>3, <1>4 DEF HookStep

\* A hook's step leaves open the session of every other job's current run.
LEMMA OthersSessions ==
    ASSUME Shape, NEW j \in Jobs, HookStep(j), NEW k \in Jobs, k # j,
           phase[k] # "pending", CurrentToken(k) \in sessions
    PROVE CurrentToken(k) \in sessions'
<1>1. CurrentToken(k) \in Token
  BY CurrentTokenType
<1>2. tok[j] \in {NoToken, BadToken, CurrentToken(j)}
  BY DEF Shape, HookMemory
<1>3. CurrentToken(k) # CurrentToken(j)
  BY DEF CurrentToken
<1>4. CurrentToken(k) # tok[j]
  BY <1>1, <1>2, <1>3, HookAssumption
<1> QED BY <1>4, SessionsOfStep
-----------------------------------------------------------------------------
\* A hook's step neither replaces nor removes a kept record.
LEMMA KeptByHooks ==
    ASSUME TypeOK, NEW j \in Jobs, HookStep(j), host[j] \in Hosts,
           NEW h \in Hosts, NEW k \in Jobs, kept[h][k] # NoFile
    PROVE kept'[h][k] = kept[h][k]
<1>1. CASE k # j
  BY <1>1, OthersUntouched DEF Untouched
<1>2. CASE k = j
  <2> USE DEF ExitClean, TypeOK, FileTypeOK
  <2>1. GoPrologStep(j) => kept'[h][j] = kept[h][j]
    BY <1>2 DEF GoPrologStep, GoPrologStart, GoReadGranted, GoCheckHostOffers,
        GoOpenJobEnv, GoLoadConfig, GoExportSchedulerJobEnv, GoNewResource,
        GoAcquire, GoExportRuntimeEnv, GoWriteAtomic, GoSetStatus, GoAbort,
        GoReportError
  <2>2. CPrologStep(j) => kept'[h][j] = kept[h][j]
    BY <1>2 DEF CPrologStep, CPrologStart, CReadGranted, CCheckHostOffers,
        COpenJobEnv, CExportSchedulerEnv, CLoadConfig, CNewResource, CAcquire,
        CRecordAcquired, CExportRuntimeEnv, CSetStatus, COpenMetadata,
        CWriteMetadata, CSetPluginError, CReleaseAcquired
  <2>3. GoEpilogStep(j) => kept'[h][j] = kept[h][j]
    BY <1>2 DEF GoEpilogStep, GoEpilogStart, GoReadMetadata, GoReleaseRecord,
        GoRemoveMetadata, GoPreserveFailedRelease, GoPublishSummary
  <2>4. CEpilogStep(j) => kept'[h][j] = kept[h][j]
    BY <1>2 DEF CEpilogStep, CEpilogStart, CReadMetadata, CReleaseRecord,
        CRemoveMetadata, CPreserveFailedRelease, CPublishSummary
  <2> QED BY <1>2, <2>1, <2>2, <2>3, <2>4 DEF HookStep
<1> QED BY <1>1, <1>2

\* A kept record outlives every later step: PreserveFailedRelease and
\* preserve_failed_release link, and a link never replaces a file.
THEOREM KeptForever == Spec => KeptIsPermanent
<1>1. Shape /\ [Next]_vars =>
        [\A h \in Hosts, j \in Jobs : kept[h][j] # NoFile => kept'[h][j] = kept[h][j]]_vars
  <2> SUFFICES ASSUME Shape, Next, NEW h \in Hosts, NEW k \in Jobs, kept[h][k] # NoFile
               PROVE kept'[h][k] = kept[h][k]
    OBVIOUS
  <2>1. ASSUME NEW j \in Jobs, HookStep(j) PROVE kept'[h][k] = kept[h][k]
    <3>1. TypeOK /\ host[j] \in Hosts
      BY <2>1, HookFrame, CurrentTokenType DEF Shape, HookStep
    <3> QED BY <2>1, <3>1, KeptByHooks
  <2>2. ASSUME NEW j \in Jobs, OcsStep(j) \/ FaultStep(j) PROVE kept' = kept
    BY <2>2 DEF OcsStep, FaultStep, Dispatch, PrologExits, JobEnds, EpilogExits,
                Reap, KillHook, HostCrash
  <2>3. CASE (\E g \in Hosts : ClearQueueError(g)) \/ Terminated
    BY <2>3 DEF ClearQueueError, Terminated, vars
  <2> QED BY <2>1, <2>2, <2>3 DEF Next
<1> QED BY <1>1, ShapeInvariant, PTL DEF Spec, KeptIsPermanent
=============================================================================

------------------------------- MODULE PrologGo -------------------------------
(***************************************************************************)
(* qrmi-ocs-prolog-go: one action per call of runWithConfig that reaches   *)
(* outside the process, so that a failure, a kill or a step of another job *)
(* can fall between any two of them.                                       *)
(***************************************************************************)
EXTENDS HookState

GoAt(j, label) == PrologImpl = "go" /\ At(j, "prolog", label)

\* runSchedulerCommand: an untrusted executable is a host problem, a failing
\* command is retried by OCS.
GoRunSchedulerCommand == Answer({"qmaster", "host"})

\* Faulty variants of GoSchedulerExit: the command's own exit status is
\* passed on; every failure is a host error; every failure is a job error.
GoSchedulerExitRaw(answer) == IF answer = "qmaster" THEN 2 ELSE ExitHostError
GoSchedulerExitHost(answer) == ExitHostError
GoSchedulerExitJob(answer) == ExitJobError

GoSchedulerExit(answer) ==
    IF answer = "qmaster" THEN ExitReschedule ELSE ExitHostError

\* parseJobRequestedResource and ParseGrantedBackend: what the job asked for.
GoRequestsBackend(j) == req[j].qpu # "none"
GoParsesBackend(j)   == req[j].qpu # "malformed"

\* checkHostOffers: the host's complex_values name the requested backend.
GoHostOffers(j) == req[j].qpu # "foreign"

\* ResourceDef: qrmi_config.json has the backend.
GoConfigHas(j) == req[j].qpu # "unconfigured"

\* readGrantedSlots: no request, or a positive integer.
GoParsesSlots(j) == req[j].slots # "malformed"

\* JobEnv.Set: a failed flush stays with the bufio.Writer, so once a write
\* has failed every later one fails too.
GoSetAnswer(j) ==
    IF envBroken[j] THEN {"disk"} ELSE Answer({"disk"})

\* main: the launcher or ResetProcessEnv refuses the job's environment (a
\* job error), or the launcher or parseHookArgs finds the hook unusable.
GoPrologStart(j) ==
    /\ GoAt(j, "start")
    /\ \/ /\ Goto(j, "granted")
          /\ UNCHANGED <<tok, failed, total, envBroken, jobFiles, kept, sessions>>
       \/ /\ "start" \in Faults
          /\ \E c \in {ExitHostError, ExitJobError} : ExitClean(j, c)

\* readGranted, and the backend name it yields.
GoReadGranted(j) ==
    /\ GoAt(j, "granted")
    /\ \E answer \in GoRunSchedulerCommand :
         \/ /\ answer # "ok"
            /\ ExitClean(j, GoSchedulerExit(answer))
         \/ /\ answer = "ok" /\ ~GoRequestsBackend(j)
            /\ ExitClean(j, ExitOK)
         \/ /\ answer = "ok" /\ GoRequestsBackend(j) /\ ~GoParsesBackend(j)
            /\ ExitClean(j, ExitJobError)
         \/ /\ answer = "ok" /\ GoRequestsBackend(j) /\ GoParsesBackend(j)
            /\ Goto(j, "offers")
            /\ UNCHANGED <<tok, failed, total, envBroken, jobFiles, kept, sessions>>

GoCheckHostOffers(j) ==
    /\ GoAt(j, "offers")
    /\ \E answer \in GoRunSchedulerCommand :
         \/ /\ answer # "ok"
            /\ ExitClean(j, GoSchedulerExit(answer))
         \/ /\ answer = "ok" /\ ~GoHostOffers(j)
            /\ ExitClean(j, ExitJobError)
         \/ /\ answer = "ok" /\ GoHostOffers(j)
            /\ Goto(j, "env")
            /\ UNCHANGED <<tok, failed, total, envBroken, jobFiles, kept, sessions>>

\* OpenJobEnv, then ApplyRustLog's write. From here on a failure is also
\* reported in the job environment.
GoOpenJobEnv(j) ==
    /\ GoAt(j, "env")
    /\ UNCHANGED <<tok, failed, total, jobFiles, kept, sessions>>
    /\ \/ /\ Faults \cap {"host", "disk"} # {}
          /\ Exit(j, ExitHostError)
          /\ UNCHANGED envBroken
       \/ /\ "ok" \in GoSetAnswer(j)
          /\ Goto(j, "config")
          /\ UNCHANGED envBroken
       \/ /\ "disk" \in GoSetAnswer(j)
          /\ FailTo(j, "report", ExitHostError)
          /\ envBroken' = [envBroken EXCEPT ![j] = TRUE]

\* LoadConfig, ResourceDef and exportBackendEnv.
GoLoadConfig(j) ==
    /\ GoAt(j, "config")
    /\ UNCHANGED <<tok, failed, total, jobFiles, kept, sessions>>
    /\ \/ /\ "host" \in Faults
          /\ FailTo(j, "report", ExitHostError)
          /\ UNCHANGED envBroken
       \/ /\ ~GoConfigHas(j)
          /\ FailTo(j, "report", ExitJobError)
          /\ UNCHANGED envBroken
       \/ /\ GoConfigHas(j)
          /\ "disk" \in GoSetAnswer(j)
          /\ FailTo(j, "report", ExitHostError)
          /\ envBroken' = [envBroken EXCEPT ![j] = TRUE]
       \/ /\ GoConfigHas(j)
          /\ "ok" \in GoSetAnswer(j)
          /\ Goto(j, "slots")
          /\ UNCHANGED envBroken

\* exportSchedulerJobEnv: the owner's uid, then a second qstat for the slots,
\* then the writes. ExitCode finds the RetryError of a failed qstat inside
\* the wrapped error; a bad slot value is a plain error.
GoExportSchedulerJobEnv(j) ==
    /\ GoAt(j, "slots")
    /\ UNCHANGED <<tok, failed, total, jobFiles, kept, sessions>>
    /\ \E answer \in GoRunSchedulerCommand :
         \/ /\ answer # "ok"
            /\ FailTo(j, "report", GoSchedulerExit(answer))
            /\ UNCHANGED envBroken
         \/ /\ answer = "ok" /\ ~GoParsesSlots(j)
            /\ FailTo(j, "report", ExitHostError)
            /\ UNCHANGED envBroken
         \/ /\ answer = "ok" /\ GoParsesSlots(j)
            /\ "disk" \in GoSetAnswer(j)
            /\ FailTo(j, "report", ExitHostError)
            /\ envBroken' = [envBroken EXCEPT ![j] = TRUE]
         \/ /\ answer = "ok" /\ GoParsesSlots(j)
            /\ "ok" \in GoSetAnswer(j)
            /\ Goto(j, "resource")
            /\ UNCHANGED envBroken

\* NewResource and IsAccessible.
GoNewResource(j) ==
    /\ GoAt(j, "resource")
    /\ UNCHANGED <<tok, failed, total, envBroken, jobFiles, kept, sessions>>
    /\ \E answer \in Answer({"host", "backend"}) :
         \/ answer = "host" /\ FailTo(j, "report", ExitHostError)
         \/ answer = "backend" /\ FailTo(j, "report", ExitReschedule)
         \/ answer = "ok" /\ Goto(j, "acquire")

GoAcquire(j) ==
    /\ GoAt(j, "acquire")
    /\ UNCHANGED <<failed, total, envBroken, jobFiles, kept>>
    /\ \E answer \in Answer({"backend", "lostReply"}) :
         /\ sessions' = IF answer = "backend" THEN sessions
                                              ELSE sessions \cup {CurrentToken(j)}
         /\ \/ /\ answer # "ok"
               /\ FailTo(j, "report", ExitReschedule)
               /\ UNCHANGED tok
            \/ /\ answer = "ok"
               /\ Goto(j, "runtime")
               /\ tok' = [tok EXCEPT ![j] = CurrentToken(j)]

\* Faulty variant: the status is exported with the other values.
GoExportRuntimeEnvWithStatus(j) ==
    /\ GoAt(j, "runtime")
    /\ Goto(j, "metadata")
    /\ envTok' = [envTok EXCEPT ![j] = tok[j]]
    /\ envStatus' = [envStatus EXCEPT ![j] = "success"]
    /\ UNCHANGED <<tok, failed, total, envBroken, spool, usage, kept, sessions>>

\* exportRuntimeEnv: the token first, then five more values. A failure may
\* come before or after the token is on disk.
GoExportRuntimeEnv(j) ==
    /\ GoAt(j, "runtime")
    /\ UNCHANGED <<tok, failed, total, spool, envStatus, usage, kept, sessions>>
    /\ \/ /\ "ok" \in GoSetAnswer(j)
          /\ Goto(j, "metadata")
          /\ envTok' = [envTok EXCEPT ![j] = tok[j]]
          /\ UNCHANGED envBroken
       \/ /\ "disk" \in GoSetAnswer(j)
          /\ FailTo(j, "abort", ExitHostError)
          /\ envTok' \in {envTok, [envTok EXCEPT ![j] = tok[j]]}
          /\ envBroken' = [envBroken EXCEPT ![j] = TRUE]

\* Faulty variants: the record is written in place; a failed write is only
\* logged.
GoWriteInPlace(j) ==
    /\ GoAt(j, "metadata")
    /\ \/ /\ Goto(j, "status")
          /\ spool' = [spool EXCEPT ![j] = tok[j]]
       \/ /\ "disk" \in Faults
          /\ FailTo(j, "abort", ExitHostError)
          /\ spool' = [spool EXCEPT ![j] = EmptyFile]
    /\ UNCHANGED <<tok, failed, total, envBroken, envStatus, envTok, usage, kept, sessions>>

GoWriteUnchecked(j) ==
    /\ GoAt(j, "metadata")
    /\ Goto(j, "status")
    /\ \/ spool' = [spool EXCEPT ![j] = tok[j]]
       \/ "disk" \in Faults /\ UNCHANGED spool
    /\ UNCHANGED <<tok, failed, total, envBroken, envStatus, envTok, usage, kept, sessions>>

\* WriteAtomic: the file appears whole, by the rename, or not at all.
GoWriteAtomic(j) ==
    /\ GoAt(j, "metadata")
    /\ UNCHANGED <<tok, failed, total, envBroken, envStatus, envTok, usage, kept, sessions>>
    /\ \/ /\ Goto(j, "status")
          /\ spool' = [spool EXCEPT ![j] = tok[j]]
       \/ /\ "disk" \in Faults
          /\ FailTo(j, "abort", ExitHostError)
          /\ UNCHANGED spool

\* qrmi_prolog_status=success, the last thing the prolog does. When the
\* write fails the metadata file stays where it is.
GoSetStatus(j) ==
    /\ GoAt(j, "status")
    /\ UNCHANGED <<failed, total, spool, envTok, usage, kept, sessions>>
    /\ \/ /\ "ok" \in GoSetAnswer(j)
          /\ Exit(j, ExitOK)
          /\ tok' = [tok EXCEPT ![j] = NoToken]
          /\ envStatus' = [envStatus EXCEPT ![j] = "success"]
          /\ UNCHANGED envBroken
       \/ /\ "disk" \in GoSetAnswer(j)
          /\ FailTo(j, "abort", ExitHostError)
          /\ envBroken' = [envBroken EXCEPT ![j] = TRUE]
          /\ UNCHANGED <<tok, envStatus>>

\* Faulty variant: the failure path forgets the release.
GoAbortNoRelease(j) ==
    /\ GoAt(j, "abort")
    /\ tok' = [tok EXCEPT ![j] = NoToken]
    /\ Goto(j, "report")
    /\ UNCHANGED <<failed, total, envBroken, jobFiles, kept, sessions>>

\* _ = resource.Release(token): the result is dropped, and so is the token.
GoAbort(j) ==
    /\ GoAt(j, "abort")
    /\ \E answer \in Answer({"release"}) : Release(tok[j], answer)
    /\ tok' = [tok EXCEPT ![j] = NoToken]
    /\ Goto(j, "report")
    /\ UNCHANGED <<failed, total, envBroken, jobFiles, kept>>

\* reportError and SetPluginError; a failure to report is only logged.
GoReportError(j) ==
    /\ GoAt(j, "report")
    /\ Goto(j, "exit")
    /\ \/ /\ "ok" \in GoSetAnswer(j)
          /\ envStatus' = [envStatus EXCEPT ![j] = "error"]
       \/ /\ "disk" \in GoSetAnswer(j)
          /\ UNCHANGED envStatus
    /\ UNCHANGED <<tok, failed, total, envBroken, spool, envTok, usage, kept, sessions>>

GoPrologStep(j) ==
    \/ GoPrologStart(j) \/ GoReadGranted(j) \/ GoCheckHostOffers(j)
    \/ GoOpenJobEnv(j) \/ GoLoadConfig(j) \/ GoExportSchedulerJobEnv(j)
    \/ GoNewResource(j) \/ GoAcquire(j) \/ GoExportRuntimeEnv(j)
    \/ GoWriteAtomic(j) \/ GoSetStatus(j) \/ GoAbort(j) \/ GoReportError(j)
=============================================================================

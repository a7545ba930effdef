------------------------------- MODULE PrologC --------------------------------
(***************************************************************************)
(* qrmi-ocs-prolog: the C prolog, one action per call of main that reaches *)
(* outside the process. It differs from PrologGo where its code does: the  *)
(* scheduler values come before qrmi_config.json, a failed second qstat is *)
(* a host error, the status is written before the metadata, the metadata   *)
(* is written in place, and the results of fflush and fclose are dropped.  *)
(***************************************************************************)
EXTENDS HookState

CAt(j, label) == PrologImpl = "c" /\ At(j, "prolog", label)

\* run_scheduler_command: LOOKUP_HOST_ERROR or LOOKUP_RETRY.
CRunSchedulerCommand == Answer({"qmaster", "host", "memory"})

\* Faulty variant of CSchedulerExit, as for the Go prolog.
CSchedulerExitJob(answer) == ExitJobError

CSchedulerExit(answer) ==
    IF answer = "qmaster" THEN ExitReschedule ELSE ExitHostError

\* Whether field_value, resource_from_list or dup_text may return NULL for
\* want of memory. Their callers take that for a missing or a bad value.
CMayLoseValue == "memory" \in Faults

\* read_job_requested_resource and parse_granted_backend.
CRequestsBackend(j) == req[j].qpu # "none"
CParsesBackend(j)   == req[j].qpu # "malformed"

\* check_host_offers.
CHostOffers(j) == req[j].qpu # "foreign"

\* qrmi_config_resource_def_get finds the backend.
CConfigHas(j) == req[j].qpu # "unconfigured"

\* set_runtime_env: setenv may fail, and fprintf may report a failed write;
\* a failed fflush goes unnoticed. "lost" is the value that never reaches the
\* file although the call returned 0.
CSetAnswer ==
    {"ok"} \cup (IF "disk" \in Faults THEN {"failed", "lost"} ELSE {})
           \cup (IF "memory" \in Faults THEN {"failed"} ELSE {})

\* has_loader_env and reset_process_env, or the launcher before them.
CPrologStart(j) ==
    /\ CAt(j, "start")
    /\ \/ /\ Goto(j, "granted")
          /\ UNCHANGED <<tok, failed, total, envBroken, jobFiles, kept, sessions>>
       \/ /\ "start" \in Faults
          /\ \E c \in {ExitHostError, ExitJobError} : ExitClean(j, c)

CReadGranted(j) ==
    /\ CAt(j, "granted")
    /\ \E answer \in CRunSchedulerCommand :
         \/ /\ answer # "ok"
            /\ ExitClean(j, CSchedulerExit(answer))
         \/ /\ answer = "ok" /\ (~CRequestsBackend(j) \/ CMayLoseValue)
            /\ ExitClean(j, ExitOK)
         \/ /\ answer = "ok" /\ CRequestsBackend(j)
            /\ ~CParsesBackend(j) \/ CMayLoseValue
            /\ ExitClean(j, ExitJobError)
         \/ /\ answer = "ok" /\ CRequestsBackend(j) /\ CParsesBackend(j)
            /\ Goto(j, "offers")
            /\ UNCHANGED <<tok, failed, total, envBroken, jobFiles, kept, sessions>>

CCheckHostOffers(j) ==
    /\ CAt(j, "offers")
    /\ \E answer \in CRunSchedulerCommand :
         \/ /\ answer # "ok"
            /\ ExitClean(j, CSchedulerExit(answer))
         \/ /\ answer = "ok" /\ (~CHostOffers(j) \/ CMayLoseValue)
            /\ ExitClean(j, ExitJobError)
         \/ /\ answer = "ok" /\ CHostOffers(j)
            /\ Goto(j, "env")
            /\ UNCHANGED <<tok, failed, total, envBroken, jobFiles, kept, sessions>>

\* open_append_private fails (exit 1, nothing reported), or apply_rust_log
\* does (reported).
COpenJobEnv(j) ==
    /\ CAt(j, "env")
    /\ UNCHANGED <<tok, failed, total, envBroken, jobFiles, kept, sessions>>
    /\ \/ /\ Faults \cap {"host", "disk", "memory"} # {}
          /\ Exit(j, ExitHostError)
       \/ /\ "failed" \in CSetAnswer
          /\ FailTo(j, "report", ExitHostError)
       \/ Goto(j, "slots")

\* scheduler_job_uid, the job id and export_scheduler_slots. Every failure,
\* the failed second qstat included, leaves exit_code at EXIT_HOST_ERROR.
CExportSchedulerEnv(j) ==
    /\ CAt(j, "slots")
    /\ UNCHANGED <<tok, failed, total, envBroken, jobFiles, kept, sessions>>
    /\ \/ /\ \/ CRunSchedulerCommand # {"ok"}
             \/ req[j].slots = "malformed"
             \/ "failed" \in CSetAnswer
          /\ FailTo(j, "report", ExitHostError)
       \/ /\ req[j].slots # "malformed" \/ CMayLoseValue
          /\ Goto(j, "config")

\* qrmi_config_load, qrmi_config_resource_def_get and apply_backend_env.
CLoadConfig(j) ==
    /\ CAt(j, "config")
    /\ UNCHANGED <<tok, failed, total, envBroken, jobFiles, kept, sessions>>
    /\ \/ /\ "host" \in Faults
          /\ FailTo(j, "report", ExitHostError)
       \/ /\ ~CConfigHas(j)
          /\ FailTo(j, "report", ExitJobError)
       \/ /\ CConfigHas(j)
          /\ "failed" \in CSetAnswer
          /\ FailTo(j, "report", ExitHostError)
       \/ /\ CConfigHas(j)
          /\ Goto(j, "resource")

CNewResource(j) ==
    /\ CAt(j, "resource")
    /\ UNCHANGED <<tok, failed, total, envBroken, jobFiles, kept, sessions>>
    /\ \E answer \in Answer({"host", "backend"}) :
         \/ answer = "host" /\ FailTo(j, "report", ExitHostError)
         \/ answer = "backend" /\ FailTo(j, "report", ExitReschedule)
         \/ answer = "ok" /\ Goto(j, "acquire")

CAcquire(j) ==
    /\ CAt(j, "acquire")
    /\ UNCHANGED <<failed, total, envBroken, jobFiles, kept>>
    /\ \E answer \in Answer({"backend", "lostReply"}) :
         /\ sessions' = IF answer = "backend" THEN sessions
                                              ELSE sessions \cup {CurrentToken(j)}
         /\ \/ /\ answer # "ok"
               /\ FailTo(j, "report", ExitReschedule)
               /\ UNCHANGED tok
            \/ /\ answer = "ok"
               /\ Goto(j, "record")
               /\ tok' = [tok EXCEPT ![j] = CurrentToken(j)]

\* dup_text and realloc: acquired_count is incremented only after them, so
\* the token of a failed allocation is in no list that fail: releases.
CRecordAcquired(j) ==
    /\ CAt(j, "record")
    /\ UNCHANGED <<failed, total, envBroken, jobFiles, kept, sessions>>
    /\ \/ /\ Goto(j, "runtime")
          /\ UNCHANGED tok
       \/ /\ "memory" \in Faults
          /\ FailTo(j, "report", ExitHostError)
          /\ tok' = [tok EXCEPT ![j] = NoToken]

\* Faulty variant: the token is left out.
CExportNoToken(j) ==
    /\ CAt(j, "runtime")
    /\ Goto(j, "status")
    /\ UNCHANGED <<tok, failed, total, envBroken, jobFiles, kept, sessions>>

\* The token, the resource and type lists and the count; the lists are
\* allocated, and an allocation that fails here comes after the count.
CExportRuntimeEnv(j) ==
    /\ CAt(j, "runtime")
    /\ UNCHANGED <<tok, failed, total, envBroken, spool, envStatus, usage, kept, sessions>>
    /\ \/ /\ Goto(j, "status")
          /\ envTok' = [envTok EXCEPT ![j] = tok[j]]
       \/ /\ "lost" \in CSetAnswer
          /\ Goto(j, "status")
          /\ UNCHANGED envTok
       \/ /\ "failed" \in CSetAnswer
          /\ FailTo(j, "report", ExitHostError)
          /\ envTok' \in {envTok, [envTok EXCEPT ![j] = tok[j]]}

\* qrmi_prolog_status=success, before there is any metadata.
CSetStatus(j) ==
    /\ CAt(j, "status")
    /\ UNCHANGED <<tok, failed, total, envBroken, spool, envTok, usage, kept, sessions>>
    /\ \/ /\ Goto(j, "metadata")
          /\ envStatus' = [envStatus EXCEPT ![j] = "success"]
       \/ /\ "lost" \in CSetAnswer
          /\ Goto(j, "metadata")
          /\ UNCHANGED envStatus
       \/ /\ "failed" \in CSetAnswer
          /\ FailTo(j, "report", ExitHostError)
          /\ UNCHANGED envStatus

\* Faulty variant: the job runs although its metadata could not be opened.
COpenMetadataUnchecked(j) ==
    /\ CAt(j, "metadata")
    /\ UNCHANGED <<tok, failed, total, envBroken, envStatus, envTok, usage, kept, sessions>>
    /\ \/ /\ Goto(j, "write")
          /\ spool' = [spool EXCEPT ![j] = EmptyFile]
       \/ /\ Faults \cap {"disk", "memory"} # {}
          /\ Exit(j, ExitOK)
          /\ spool' \in {spool, [spool EXCEPT ![j] = EmptyFile]}

\* open with O_TRUNC, fchmod and fdopen: a failure of the latter two leaves
\* the empty file behind.
COpenMetadata(j) ==
    /\ CAt(j, "metadata")
    /\ UNCHANGED <<tok, failed, total, envBroken, envStatus, envTok, usage, kept, sessions>>
    /\ \/ /\ Goto(j, "write")
          /\ spool' = [spool EXCEPT ![j] = EmptyFile]
       \/ /\ Faults \cap {"disk", "memory"} # {}
          /\ FailTo(j, "report", ExitHostError)
          /\ spool' \in {spool, [spool EXCEPT ![j] = EmptyFile]}

\* fprintf and fclose. The record sits in the stdio buffer until fclose,
\* whose result is dropped: a full disk leaves no record or a part of one,
\* and the prolog still returns 0.
CWriteMetadata(j) ==
    /\ CAt(j, "write")
    /\ UNCHANGED <<failed, total, envBroken, envStatus, envTok, usage, kept, sessions>>
    /\ \/ /\ Exit(j, ExitOK)
          /\ spool' = [spool EXCEPT ![j] = tok[j]]
          /\ tok' = [tok EXCEPT ![j] = NoToken]
       \/ /\ "disk" \in Faults
          /\ Exit(j, ExitOK)
          /\ \E f \in {EmptyFile, TornFile} : spool' = [spool EXCEPT ![j] = f]
          /\ tok' = [tok EXCEPT ![j] = NoToken]
       \/ /\ "disk" \in Faults
          /\ FailTo(j, "report", ExitHostError)
          /\ \E f \in {EmptyFile, TornFile} : spool' = [spool EXCEPT ![j] = f]
          /\ UNCHANGED tok

\* set_plugin_error, which precedes every goto fail.
CSetPluginError(j) ==
    /\ CAt(j, "report")
    /\ Goto(j, "abort")
    /\ \/ envStatus' = [envStatus EXCEPT ![j] = "error"]
       \/ CSetAnswer # {"ok"} /\ UNCHANGED envStatus
    /\ UNCHANGED <<tok, failed, total, envBroken, spool, envTok, usage, kept, sessions>>

\* fail: release_acquired_resources opens a new handle for each recorded
\* token and drops every result.
CReleaseAcquired(j) ==
    /\ CAt(j, "abort")
    /\ Goto(j, "exit")
    /\ \/ /\ tok[j] = NoToken
          /\ UNCHANGED sessions
       \/ /\ tok[j] # NoToken
          /\ \E answer \in Answer({"release"}) : Release(tok[j], answer)
       \/ /\ tok[j] # NoToken
          /\ "host" \in Faults
          /\ UNCHANGED sessions
    /\ tok' = [tok EXCEPT ![j] = NoToken]
    /\ UNCHANGED <<failed, total, envBroken, jobFiles, kept>>

CPrologStep(j) ==
    \/ CPrologStart(j) \/ CReadGranted(j) \/ CCheckHostOffers(j)
    \/ COpenJobEnv(j) \/ CExportSchedulerEnv(j) \/ CLoadConfig(j)
    \/ CNewResource(j) \/ CAcquire(j) \/ CRecordAcquired(j)
    \/ CExportRuntimeEnv(j) \/ CSetStatus(j) \/ COpenMetadata(j)
    \/ CWriteMetadata(j) \/ CSetPluginError(j) \/ CReleaseAcquired(j)
=============================================================================

------------------------------ MODULE QueueHooks ------------------------------
(***************************************************************************)
(* The life of QPU jobs under OCS with the queue hooks installed: dispatch *)
(* to a host, prolog, job, epilog, removal of the spool directory, and     *)
(* possibly another dispatch of the same job. OCS is modelled from what    *)
(* the hooks rely on: the exit codes of qrmiocs/sanitize.go and the        *)
(* removal of the job's spool directory.                                   *)
(***************************************************************************)
EXTENDS PrologGo, PrologC, EpilogGo, EpilogC

Init ==
    /\ req \in [Jobs -> Requests]
    /\ phase = [j \in Jobs |-> "pending"]
    /\ host = [j \in Jobs |-> NoHost]
    /\ attempts = [j \in Jobs |-> 0]
    /\ outcome = [j \in Jobs |-> "finish"]
    /\ qerr = {}
    /\ pc = [j \in Jobs |-> "exit"]
    /\ tok = [j \in Jobs |-> NoToken]
    /\ code = [j \in Jobs |-> ExitOK]
    /\ failed = [j \in Jobs |-> FALSE]
    /\ total = [j \in Jobs |-> 0]
    /\ envBroken = [j \in Jobs |-> FALSE]
    /\ spool = [j \in Jobs |-> NoFile]
    /\ envStatus = [j \in Jobs |-> "unset"]
    /\ envTok = [j \in Jobs |-> NoToken]
    /\ usage = [j \in Jobs |-> NoUsage]
    /\ kept = [h \in Hosts |-> [j \in Jobs |-> NoFile]]
    /\ sessions = {}

----------------------------------------------------------------------------
(* OCS *)

\* A fresh hook process: nothing survives from an earlier one.
StartHook(j) ==
    /\ pc' = [pc EXCEPT ![j] = "start"]
    /\ tok' = [tok EXCEPT ![j] = NoToken]
    /\ code' = [code EXCEPT ![j] = ExitOK]
    /\ failed' = [failed EXCEPT ![j] = FALSE]
    /\ total' = [total EXCEPT ![j] = 0]
    /\ envBroken' = [envBroken EXCEPT ![j] = FALSE]

\* The job goes to a host with an empty spool directory and its prolog starts.
Dispatch(j, h) ==
    /\ phase[j] = "pending"
    /\ attempts[j] < MaxAttempts
    /\ h \notin qerr
    /\ phase' = [phase EXCEPT ![j] = "prolog"]
    /\ host' = [host EXCEPT ![j] = h]
    /\ attempts' = [attempts EXCEPT ![j] = @ + 1]
    /\ usage' = [usage EXCEPT ![j] = NoUsage]
    /\ StartHook(j)
    /\ UNCHANGED <<req, outcome, qerr, spool, envStatus, envTok, kept, sessions>>

\* What OCS makes of a hook's exit code: 99 reschedules the job, 100 puts it
\* into error state, any other non-zero code puts the queue instance into
\* error state and reschedules the job.
OutcomeOf(c, default) ==
    CASE c = ExitOK       -> default
      [] c = ExitJobError -> "joberror"
      [] OTHER            -> "requeue"

MarkQueue(j) ==
    qerr' = IF code[j] \in {ExitOK, ExitReschedule, ExitJobError}
            THEN qerr ELSE qerr \cup {host[j]}

\* The prolog has exited: the job runs, or its epilog does, or neither.
PrologExits(j) ==
    /\ At(j, "prolog", "exit")
    /\ MarkQueue(j)
    /\ outcome' = [outcome EXCEPT ![j] = OutcomeOf(code[j], "finish")]
    /\ UNCHANGED <<req, host, attempts, jobFiles, kept, sessions>>
    /\ \/ /\ code[j] = ExitOK
          /\ phase' = [phase EXCEPT ![j] = "running"]
          /\ UNCHANGED hookVars
       \/ /\ code[j] # ExitOK
          /\ phase' = [phase EXCEPT ![j] = "epilog"]
          /\ StartHook(j)
       \/ /\ code[j] # ExitOK
          /\ phase' = [phase EXCEPT ![j] = "reap"]
          /\ UNCHANGED hookVars

\* The job ends by itself, or OCS stops it to run it again.
JobEnds(j) ==
    /\ phase[j] = "running"
    /\ phase' = [phase EXCEPT ![j] = "epilog"]
    /\ \E o \in {"finish", "requeue"} : outcome' = [outcome EXCEPT ![j] = o]
    /\ StartHook(j)
    /\ UNCHANGED <<req, host, attempts, qerr, jobFiles, kept, sessions>>

EpilogExits(j) ==
    /\ At(j, "epilog", "exit")
    /\ MarkQueue(j)
    /\ outcome' = [outcome EXCEPT ![j] = OutcomeOf(code[j], @)]
    /\ phase' = [phase EXCEPT ![j] = "reap"]
    /\ UNCHANGED <<req, host, attempts, hookVars, jobFiles, kept, sessions>>

\* OCS removes the spool directory and decides where the job goes. The usage
\* has gone into the accounting.
Reap(j) ==
    /\ phase[j] = "reap"
    /\ spool' = [spool EXCEPT ![j] = NoFile]
    /\ envStatus' = [envStatus EXCEPT ![j] = "unset"]
    /\ envTok' = [envTok EXCEPT ![j] = NoToken]
    /\ phase' = [phase EXCEPT ![j] = CASE outcome[j] = "finish"  -> "done"
                                       [] outcome[j] = "requeue" -> "pending"
                                       [] OTHER                  -> "joberror"]
    /\ UNCHANGED <<req, host, attempts, outcome, qerr, hookVars, usage, kept, sessions>>

\* A hook is killed between two of its calls.
KillHook(j) ==
    /\ "kill" \in Faults
    /\ phase[j] \in {"prolog", "epilog"}
    /\ pc[j] # "exit"
    /\ Exit(j, Killed)
    /\ tok' = [tok EXCEPT ![j] = NoToken]
    /\ UNCHANGED <<failed, total, envBroken, jobFiles, kept, sessions>>

\* The host goes down under a running job; there is no epilog.
HostCrash(j) ==
    /\ "kill" \in Faults
    /\ phase[j] = "running"
    /\ phase' = [phase EXCEPT ![j] = "reap"]
    /\ outcome' = [outcome EXCEPT ![j] = "requeue"]
    /\ UNCHANGED <<req, host, attempts, qerr, hookVars, jobFiles, kept, sessions>>

\* An administrator clears the error state of a queue instance.
ClearQueueError(h) ==
    /\ h \in qerr
    /\ qerr' = qerr \ {h}
    /\ UNCHANGED <<req, phase, host, attempts, outcome, hookVars, jobFiles, kept, sessions>>

AtRest(j) ==
    \/ phase[j] \in {"done", "joberror"}
    \/ phase[j] = "pending" /\ attempts[j] = MaxAttempts

\* Every job of the instance has come to rest.
Terminated ==
    /\ \A j \in Jobs : AtRest(j)
    /\ UNCHANGED vars

HookStep(j) == GoPrologStep(j) \/ CPrologStep(j) \/ GoEpilogStep(j) \/ CEpilogStep(j)

OcsStep(j) ==
    \/ \E h \in Hosts : Dispatch(j, h)
    \/ PrologExits(j) \/ JobEnds(j) \/ EpilogExits(j) \/ Reap(j)

FaultStep(j) == KillHook(j) \/ HostCrash(j)

Next ==
    \/ \E j \in Jobs : HookStep(j) \/ OcsStep(j) \/ FaultStep(j)
    \/ \E h \in Hosts : ClearQueueError(h)
    \/ Terminated

Spec == Init /\ [][Next]_vars

(***************************************************************************)
(* The hooks are sequential programs whose calls return; OCS acts on a     *)
(* hook's exit and removes the spool directory; a job ends.                *)
(***************************************************************************)
Fairness ==
    \A j \in Jobs : /\ WF_vars(HookStep(j))
                    /\ WF_vars(PrologExits(j))
                    /\ WF_vars(JobEnds(j))
                    /\ WF_vars(EpilogExits(j))
                    /\ WF_vars(Reap(j))

FairSpec == Spec /\ Fairness

----------------------------------------------------------------------------
(* Properties *)

OcsTypeOK ==
    /\ req \in [Jobs -> Requests]
    /\ phase \in [Jobs -> Phase]
    /\ host \in [Jobs -> Hosts \cup {NoHost}]
    /\ attempts \in [Jobs -> 0..MaxAttempts]
    /\ outcome \in [Jobs -> {"finish", "requeue", "joberror"}]
    /\ qerr \in SUBSET Hosts

HookTypeOK ==
    /\ pc \in [Jobs -> Label]
    /\ tok \in [Jobs -> Token \cup {NoToken, BadToken}]
    /\ code \in [Jobs -> ExitCodes]
    /\ failed \in [Jobs -> BOOLEAN]
    /\ total \in [Jobs -> 0..1]
    /\ envBroken \in [Jobs -> BOOLEAN]

FileTypeOK ==
    /\ spool \in [Jobs -> File]
    /\ envStatus \in [Jobs -> {"unset", "success", "error"}]
    /\ envTok \in [Jobs -> Token \cup {NoToken}]
    /\ usage \in [Jobs -> Usage \cup {NoUsage}]
    /\ kept \in [Hosts -> [Jobs -> File]]
    /\ sessions \in SUBSET Token

\* Every variable has its type: the scheduler's view of the jobs, the memory
\* of the hooks, and the files and sessions they work on.
TypeOK == OcsTypeOK /\ HookTypeOK /\ FileTypeOK

(***************************************************************************)
(* The faults under which the hooks promise that no session is lost. A     *)
(* killed hook, a lost reply to an acquisition and a hook that is refused  *)
(* at its start are beyond them; a broken disk is survivable only if       *)
(* nothing else makes a release fail, and not by the C prolog, which does  *)
(* not notice it; nor do the C hooks recover from a failed allocation. The *)
(* C epilog gives up on a metadata file it cannot open.                    *)
(***************************************************************************)
Survivable ==
    /\ Faults \cap {"kill", "lostReply", "start"} = {}
    /\ "disk" \in Faults => /\ PrologImpl = "go"
                            /\ Faults \cap {"release", "host", "read"} = {}
    /\ "memory" \in Faults => PrologImpl = "go" /\ EpilogImpl = "go"
    /\ "read" \in Faults => EpilogImpl = "go"

\* A record for t's job is kept on some host.
KeptFor(t) == \E h \in Hosts : kept[h][t[1]] # NoFile

\* No session is orphaned: each one that is open at the backend is in the
\* memory of a hook, named by the metadata in its job's spool directory, or
\* a failed release of its job is kept for the administrator (runWithConfig
\* releases on every failure after Acquire; run keeps what it cannot release).
SessionsAccounted ==
    \A t \in sessions :
        \/ tok[t[1]] = t
        \/ spool[t[1]] = t
        \/ KeptFor(t)

\* A running QPU job has an open session, and the metadata file the epilog
\* will read and the environment the job reads both name it, with status
\* success: the order of exports and writes in runWithConfig.
RunningIsRecorded ==
    \A j \in Jobs :
        (phase[j] = "running" /\ req[j].qpu # "none") =>
            /\ CurrentToken(j) \in sessions
            /\ spool[j] = CurrentToken(j)
            /\ envTok[j] = CurrentToken(j)
            /\ envStatus[j] = "success"

\* qrmi_prolog_status=success is on disk only once the metadata is, wherever
\* the prolog is killed (runWithConfig writes the status last).
SuccessAfterRecord ==
    \A j \in Jobs :
        (phase[j] \in {"prolog", "running"} /\ envStatus[j] = "success") =>
            spool[j] = CurrentToken(j)

\* A job that runs with qrmi_prolog_status=success in its environment has an
\* open session and a metadata file that names it. The C prolog sets the
\* status first, so it must not return 0 once the metadata fails it.
SuccessMeansRecord ==
    \A j \in Jobs :
        (phase[j] = "running" /\ envStatus[j] = "success") =>
            spool[j] = CurrentToken(j) /\ CurrentToken(j) \in sessions

\* No epilog and no administrator ever finds a partial record, wherever the
\* prolog is killed and whichever write fails (WriteAtomic's comment).
RecordsAreWhole ==
    \A j \in Jobs :
        /\ spool[j] \in Token \cup {NoFile}
        /\ \A h \in Hosts : kept[h][j] \in Token \cup {NoFile}

\* Accounting that reports a successful release is true: the session of the
\* job's last run is closed (publishSummary's qrmi_release_success).
ReportedReleaseHappened ==
    \A j \in Jobs :
        (usage[j] # NoUsage /\ usage[j].success = 1) =>
            CurrentToken(j) \notin sessions

\* Accounting that reports a failed release comes with a record of the job
\* kept on its host (run, PreserveFailedRelease).
FailureLeavesRecord ==
    \A j \in Jobs :
        (usage[j] # NoUsage /\ usage[j].success = 0) =>
            kept[host[j]][j] # NoFile

\* The README's stronger form: the record kept is the one of the run whose
\* release failed, so the administrator can release it by hand.
FailureKeepsItsRecord ==
    \A j \in Jobs :
        (usage[j] # NoUsage /\ usage[j].success = 0) =>
            kept[host[j]][j] = CurrentToken(j)

\* Whenever an epilog calls release, the session it names is open: no
\* session is released twice (run, after the prolog's own releases).
EpilogReleasesOpenSession ==
    \A j \in Jobs : At(j, "epilog", "release") => tok[j] \in sessions

\* A queue instance goes into error state only for a problem of the host:
\* not for a bad request, an unreachable qmaster or a failing backend
\* (exit codes of runWithConfig and run).
QueueErrorMeansHostFault ==
    qerr # {} => Faults \cap {"host", "memory", "disk", "read", "start", "kill"} # {}

\* A job is put into error state only when its own request is at fault: no
\* temporary fault, and no fault of a host, condemns it (the 99/100 split of
\* runWithConfig). A refused start may also condemn it.
JobErrorMeansBadRequest ==
    \A j \in Jobs :
        phase[j] = "joberror" =>
            \/ req[j].qpu \in {"malformed", "foreign", "unconfigured"}
            \/ "start" \in Faults

\* The records in a metadata file: a torn one is still a non-empty line.
RecordsIn(f) == IF f \in {NoFile, EmptyFile} THEN 0 ELSE 1

\* The file an epilog that failed has read: still in the spool directory, or
\* moved to the kept records of the job's host.
FileOf(j) == IF spool[j] # NoFile THEN spool[j] ELSE kept[host[j]][j]

\* qrmi_release_total is the number of records in the file the epilog read:
\* one when it released, and for a failure what the file it left behind
\* holds, none if that is empty (publishSummary, append_usage_metric; README,
\* "number of non-empty metadata records seen before release handling").
TotalCountsRecords ==
    \A j \in Jobs :
        (usage[j] # NoUsage /\ phase[j] \in {"epilog", "reap"}) =>
            usage[j].total = IF usage[j].success = 1 THEN 1 ELSE RecordsIn(FileOf(j))

\* A kept record is never replaced or removed by a later epilog
\* (PreserveFailedRelease links, it does not rename).
KeptIsPermanent ==
    [][\A h \in Hosts, j \in Jobs :
          kept[h][j] # NoFile => kept'[h][j] = kept[h][j]]_vars

\* Every session is eventually released, or a record of its job is kept for
\* the administrator, whatever survivable faults occur.
SessionsSettle ==
    \A j \in Jobs : \A n \in 1..MaxAttempts :
        (<<j, n>> \in sessions) ~> (<<j, n>> \notin sessions \/ KeptFor(<<j, n>>))

\* Every dispatched job leaves its host: neither hook blocks it (main of
\* both hooks), so the job ends up pending, done or in error state.
DispatchedJobsComeBack ==
    \A j \in Jobs :
        (phase[j] = "prolog") ~> (phase[j] \in {"pending", "done", "joberror"})

(***************************************************************************)
(* The hooks implement SessionLease: a token is held while a hook has it   *)
(* in memory or the job's metadata file names it, and a job is parked once *)
(* a record of it is kept on some host.                                    *)
(***************************************************************************)
Held == {t \in {tok[j] : j \in Jobs} \cup {spool[j] : j \in Jobs} : t \in Token}

Parked == {j \in Jobs : \E h \in Hosts : kept[h][j] # NoFile}

Lease == INSTANCE SessionLease
            WITH open <- sessions, held <- Held, parked <- Parked

\* Every step of hooks and scheduler is a step of SessionLease or leaves the
\* sessions, their holders and the kept records alone: in particular OCS
\* never deletes the last copy of the token of an open session, unless a
\* record of the job is already kept.
ImplementsLease == Lease!Spec
=============================================================================

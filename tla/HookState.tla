------------------------------ MODULE HookState ------------------------------
(***************************************************************************)
(* The state shared by the OCS queue hooks of a QPU job: the scheduler's   *)
(* view of the job, the memory of the one hook process that may be running *)
(* for it, the files of its spool directory, the failed releases kept on   *)
(* the execution host, and the sessions open at the quantum backend.       *)
(*                                                                         *)
(* The hooks themselves are PrologGo, PrologC, EpilogGo and EpilogC, which *)
(* all extend this module; QueueHooks composes them with the scheduler.    *)
(***************************************************************************)
EXTENDS Naturals, FiniteSets

CONSTANTS
    Jobs,          \* job.task names; a name survives a reschedule
    Hosts,         \* execution hosts
    Requests,      \* the requests the jobs of this instance may carry
    Faults,        \* the kinds of fault this instance may suffer
    PrologImpl,    \* the installed prolog, "go" or "c"
    EpilogImpl,    \* the installed epilog, "go" or "c"
    MaxAttempts,   \* bound: dispatches per job
    NoHost,        \* the job is on no host
    NoToken,       \* no acquisition token
    BadToken,      \* the token of a torn metadata line: no session has it
    NoFile,        \* the metadata file does not exist
    EmptyFile,     \* it exists and holds no record
    TornFile,      \* it holds a part of a record
    NoUsage        \* the epilog published no accounting

(***************************************************************************)
(* What a job can ask for, as the hooks tell requests apart: no QPU, a     *)
(* value that is no single backend name, a backend the host does not       *)
(* offer, one missing from qrmi_config.json, or one that can be served;    *)
(* and no slot count, a value that is no positive integer, or a count.     *)
(***************************************************************************)
Request == [qpu: {"none", "malformed", "foreign", "unconfigured", "served"},
            slots: {"none", "malformed", "count"}]

(***************************************************************************)
(* qmaster  qstat or qconf fails because qmaster is unreachable            *)
(* backend  the backend is not accessible or refuses an acquisition        *)
(* lostReply an acquisition takes effect but its answer is lost            *)
(* release  a release call fails, with or without having taken effect      *)
(* host     the host or its configuration is broken: an untrusted          *)
(*          executable, no spool directory, an unreadable qrmi_config.json,*)
(*          an unknown job owner                                           *)
(* memory   an allocation of a C hook fails                                *)
(* disk     a write, link or unlink in the spool file system fails         *)
(* read     the metadata file exists and cannot be opened or read          *)
(* start    the launcher, or the hook's check of its environment, refuses  *)
(* kill     a hook is killed, or the host goes down under a running job    *)
(***************************************************************************)
FaultKind == {"qmaster", "backend", "lostReply", "release", "host", "memory",
              "disk", "read", "start", "kill"}

(***************************************************************************)
(* A prolog run acquires at most one token, and QRMI never hands out the   *)
(* same token twice: the token of a job's n-th dispatch is <<job, n>>.     *)
(***************************************************************************)
Token == Jobs \X (1..MaxAttempts)

ASSUME HookAssumption ==
    /\ Requests \subseteq Request
    /\ Faults \subseteq FaultKind
    /\ PrologImpl \in {"go", "c"}
    /\ EpilogImpl \in {"go", "c"}
    /\ MaxAttempts \in Nat
    /\ NoHost \notin Hosts
    /\ NoToken \notin Token /\ BadToken \notin Token /\ NoToken # BadToken
    /\ {NoFile, EmptyFile, TornFile} \cap Token = {}
    /\ NoFile # EmptyFile /\ NoFile # TornFile /\ EmptyFile # TornFile

VARIABLES
    \* the scheduler
    req,        \* the job's request
    phase,      \* where the job is in its life
    host,       \* the host it was dispatched to
    attempts,   \* how often it has been dispatched
    outcome,    \* what becomes of it when its spool directory is removed
    qerr,       \* hosts whose queue instance is in error state
    \* the memory of the job's running hook
    pc,         \* the next step of the hook
    tok,        \* the token the hook holds
    code,       \* the exit code the hook is going to return
    failed,     \* the epilog could not release
    total,      \* records the C epilog has seen
    envBroken,  \* a write to the job environment has failed (bufio keeps it)
    \* the job's spool directory
    spool,      \* qrmi_ocs_acquired.tsv: a File
    envStatus,  \* qrmi_prolog_status in the job environment file
    envTok,     \* <backend>_QRMI_JOB_ACQUISITION_TOKEN in that file
    usage,      \* the accounting the epilog published
    \* what outlives the job
    kept,       \* qrmi_failed_releases/<job>.tsv on each host: a File
    sessions    \* tokens whose session is open at the backend

ocsVars  == <<req, phase, host, attempts, outcome, qerr>>
hookVars == <<pc, tok, code, failed, total, envBroken>>
jobFiles == <<spool, envStatus, envTok, usage>>
vars     == <<ocsVars, hookVars, jobFiles, kept, sessions>>

Phase  == {"pending", "prolog", "running", "epilog", "reap", "done", "joberror"}
Label  == {"start", "granted", "offers", "env", "config", "slots", "resource",
           "acquire", "record", "runtime", "status", "metadata", "write",
           "abort", "report", "read", "release", "remove", "preserve",
           "publish", "exit"}
File   == Token \cup {NoFile, EmptyFile, TornFile}
Usage  == [total: 0..1, success: 0..1]

\* Exit codes OCS interprets for queue prologs and epilogs.
ExitOK         == 0
ExitHostError  == 1
ExitReschedule == 99
ExitJobError   == 100
Killed         == 137
ExitCodes      == {ExitOK, ExitHostError, ExitReschedule, ExitJobError, Killed}

\* The token QRMI hands out to the job's current prolog run.
CurrentToken(j) == <<j, attempts[j]>>

----------------------------------------------------------------------------
(* Steps of a hook process. *)

At(j, ph, label) == phase[j] = ph /\ pc[j] = label

Goto(j, label) ==
    /\ pc' = [pc EXCEPT ![j] = label]
    /\ UNCHANGED <<ocsVars, code>>

\* The hook goes on at label and will exit with code c.
FailTo(j, label, c) ==
    /\ pc' = [pc EXCEPT ![j] = label]
    /\ code' = [code EXCEPT ![j] = c]
    /\ UNCHANGED ocsVars

Exit(j, c) == FailTo(j, "exit", c)

\* A hook exits before it has touched anything outside its own memory.
ExitClean(j, c) ==
    /\ Exit(j, c)
    /\ UNCHANGED <<tok, failed, total, envBroken, jobFiles, kept, sessions>>

----------------------------------------------------------------------------
(* The calls the hooks make. Each operator is the set of answers a call    *)
(* can give in this instance.                                              *)

\* A call that succeeds unless one of the faults ks occurs.
Answer(ks) == {"ok"} \cup (ks \cap Faults)

\* What the backend does with a call to release t: it closes the session
\* and says so, or it fails, having closed the session or not.
Release(t, answer) ==
    \/ answer = "ok" /\ sessions' = sessions \ {t}
    \/ answer = "release" /\ sessions' \in {sessions, sessions \ {t}}

=============================================================================

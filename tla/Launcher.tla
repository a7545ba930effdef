------------------------------- MODULE Launcher -------------------------------
(***************************************************************************)
(* qrmi-ocs-launch and the reset of the environment that the Go hooks      *)
(* repeat: what becomes of a hook that OCS starts with a job's environment *)
(* and with the settings that the queue's command line carries. Directory  *)
(* names are values; what the code's patterns tell apart about them is     *)
(* given by the constants.                                                 *)
(***************************************************************************)
CONSTANTS
    Dirs,      \* directories, absolute and in clean form
    Below,     \* pairs <<d, r>>: d is a proper subdirectory of r
    Plain,     \* directories whose name CleanEnv's pattern accepts
    SgeRoot,   \* $SGE_ROOT of the administrator who runs the adapter
    SgeCell    \* $SGE_CELL: "plain", "dots" (a name with ..) or "invalid"

ASSUME LauncherAssumption ==
    /\ Below \subseteq Dirs \X Dirs
    /\ Plain \subseteq Dirs
    /\ SgeRoot \in Dirs
    /\ SgeCell \in {"plain", "dots", "invalid"}

\* The environment of a hook as OCS starts it.
Environ == [loader : BOOLEAN,     \* LD_* or GLIBC_TUNABLES is set
            jobID  : BOOLEAN,     \* JOB_ID is a number
            taskID : BOOLEAN,     \* SGE_TASK_ID is absent, undefined or a number
            at     : Dirs,        \* the execd spool directory SGE_JOB_SPOOL_DIR is in
            own    : BOOLEAN,     \* it ends in active_jobs/<this job>.<this task>
            dir    : BOOLEAN]     \* it is a directory, reached without links

\* root, cell and spool roots of the command line. filepath.Clean has been
\* applied to the directories, and no port is configured.
LaunchSettings == [root : Dirs, cell : {"plain", "dots", "invalid"}, spools : SUBSET Dirs]

Validates(s) == s.cell # "invalid"

CheckSpoolDir(e, root) ==
    /\ e.at = root \/ <<e.at, root>> \in Below
    /\ e.own
    /\ e.dir

SpoolRootsOf(s) == IF s.spools = {} THEN {s.root} ELSE s.spools

\* "host" stands for exit 1, "job" for exit 100.
LaunchEnv(e, s) ==
    IF e.loader THEN "job"
    ELSE IF ~Validates(s) THEN "host"
    ELSE IF /\ e.jobID /\ e.taskID
            /\ \E root \in SpoolRootsOf(s) : CheckSpoolDir(e, root)
         THEN "ok" ELSE "job"

\* prepare: the environment is judged before the hook's file is.
Prepare(e, s, trusted) ==
    LET verdict == LaunchEnv(e, s)
    IN  IF verdict = "ok" /\ ~trusted THEN "host" ELSE verdict

\* CleanEnv on the environment LaunchEnv has built: patterns for SGE_ROOT and
\* SGE_JOB_SPOOL_DIR, and no .. in any value.
ResetProcessEnv(e, s) ==
    IF s.root \in Plain /\ e.at \in Plain /\ s.cell = "plain" THEN "ok" ELSE "job"

\* A hook gets to its own work if the launcher and its own reset let it.
HookStart(e, s, trusted) ==
    LET verdict == Prepare(e, s, trusted)
    IN  IF verdict = "ok" THEN ResetProcessEnv(e, s) ELSE verdict
===============================================================================

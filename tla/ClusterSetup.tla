----------------------------- MODULE ClusterSetup -----------------------------
(***************************************************************************)
(* The adapter: administrators who run it, one qconf call after the other, *)
(* on the configuration that qmaster keeps. Every change is a Show of a    *)
(* whole object followed by a Modify of the whole object, and anybody may  *)
(* act in between. A call may fail; the administrator then runs the        *)
(* command again. An operator edits the same objects with other tools.     *)
(* What the queue's command line makes of jobs is given by Launcher.       *)
(***************************************************************************)
EXTENDS Naturals, Sequences, Launcher

CONSTANTS
    Admins,            \* administrators, each with one command
    Hosts,             \* execution hosts
    NoHost,            \* no host
    NoObject,          \* an object that qmaster does not have
    Commands,          \* the ways the administrators can be given commands
    Clusters,          \* the configurations they can find
    MaxFaults,         \* bound on failing calls
    MaxEdits,          \* bound on the operator's edits
    GlobalShowFails    \* TRUE if the call at the start of spoolRoots can fail

\* The command and its flags, as far as they pass the checks.
Option == [command  : {"setup-qrmi-support", "ensure-resource", "configure-queue-hooks"},
           hosts    : Seq(Hosts),
           slots    : {"off", "host", "global"},
           capacity : Nat,
           sensor   : Hosts \cup {NoHost}]

\* Objects of qmaster's configuration.
Complex(name)  == <<"complex", name>>
ExecHost(h)    == <<"exechost", h>>
HostConf(h)    == <<"conf", h>>
GlobalExecHost == <<"exechost", "global">>
GlobalConf     == <<"conf", "global">>
Queue          == <<"queue", "all.q">>

Object == {Complex(n) : n \in {"qpu", "qpu_slots", "qpu_ready"}}
          \cup {ExecHost(h) : h \in Hosts} \cup {HostConf(h) : h \in Hosts}
          \cup {GlobalExecHost, GlobalConf, Queue}

\* Attributes of objects and their values; "hooks" stands for the prolog and
\* epilog lines of the queue, by the spool roots they carry.
Attribute == {"shape", "sensor", "qpu", "qpu_slots", "qpu_ready", "report",
              "hooks", "spool", "other"}

\* What textual attributes can hold: what the adapter writes, or anything else.
Text == {"right", "ours", "backend", "qrmi", "old"}

ValueOf(key) ==
    CASE key \in {"qpu_slots", "qpu_ready", "other"} -> Nat
      [] key = "spool"                               -> Dirs
      [] key = "hooks"                               -> SUBSET Dirs
      [] OTHER                                       -> Text

IsMap(c) == DOMAIN c \subseteq Attribute /\ \A k \in DOMAIN c : c[k] \in ValueOf(k)

ASSUME SetupAssumption ==
    /\ \A c \in Commands : \A a \in Admins : c[a] \in Option
    /\ NoHost \notin Hosts /\ "global" \notin Hosts
    /\ \A S \in SUBSET Attribute :
          NoObject \notin [S -> Nat \cup Dirs \cup (SUBSET Dirs) \cup Text]
    /\ \A d \in Clusters :
          /\ DOMAIN d = Object
          /\ \A o \in Object : d[o] = NoObject \/ IsMap(d[o])
          /\ d[GlobalConf] # NoObject /\ "spool" \in DOMAIN d[GlobalConf]
          /\ d[Queue] # NoObject
    /\ MaxFaults \in Nat /\ MaxEdits \in Nat
    /\ GlobalShowFails \in BOOLEAN

VARIABLES
    db,        \* qmaster: for each object, its attributes, or NoObject
    opt,       \* the command of each administrator
    runs,      \* the adapter process of each administrator
    fresh,     \* the hooks in the queue are by a run begun after every change
               \* of a spool directory
    foreign,   \* for each object, what the operator last wrote to "other"
    raced,     \* objects edited by the operator while a run held a copy
    faults,    \* calls that failed
    edits      \* edits made

vars == <<db, opt, runs, fresh, foreign, raced, faults, edits>>

----------------------------------------------------------------------------
(* The calls a command makes, in order *)

\* A map with one entry added or replaced, and with one taken out.
Put(c, key, val) == [k \in DOMAIN c \cup {key} |-> IF k = key THEN val ELSE c[k]]
Drop(c, key)     == [k \in DOMAIN c \ {key} |-> c[k]]

Task(kind, obj, key, val) == [kind |-> kind, obj |-> obj, key |-> key, val |-> val]

ensureComplexEntry(name)      == Task("ensure", Complex(name), "shape", "right")
configureHostLoadSensor(h)    == Task("ensure", HostConf(h), "sensor", "ours")
setExecHostResource(o, r, v)  == Task("set", o, r, v)
clearExecHostResource(o, r)   == Task("clear", o, r, "")
ensureGlobalReportingPattern  == Task("set", GlobalConf, "report", "qrmi")

\* Faulty variant: a capacity of zero is set like any other.
SlotsTaskNoClear(o, obj) == setExecHostResource(obj, "qpu_slots", o.capacity)

\* The slots capacity: set, or left to the load sensor when it is zero.
SlotsTask(o, obj) ==
    IF o.capacity > 0 THEN setExecHostResource(obj, "qpu_slots", o.capacity)
                      ELSE clearExecHostResource(obj, "qpu_slots")

HostTasks(o) ==
    LET per == IF o.slots = "host" THEN 2 ELSE 1
    IN  [i \in 1 .. per * Len(o.hosts) |->
            LET obj == ExecHost(o.hosts[((i - 1) \div per) + 1])
            IN  IF (i - 1) % per = 0 THEN setExecHostResource(obj, "qpu", "backend")
                                     ELSE SlotsTask(o, obj)]

ensureResourceDefault(o) ==
    <<ensureComplexEntry("qpu")>>
    \o (IF o.slots # "off" THEN <<ensureComplexEntry("qpu_slots")>> ELSE <<>>)
    \o (IF o.sensor # NoHost
        THEN <<ensureComplexEntry("qpu_ready"),
               setExecHostResource(GlobalExecHost, "qpu_ready", 1),
               configureHostLoadSensor(o.sensor)>>
        ELSE <<>>)
    \o (IF o.slots = "global" THEN <<SlotsTask(o, GlobalExecHost)>> ELSE <<>>)
    \o HostTasks(o)

configureQueueHooksDefault ==
    <<Task("options", Queue, "", ""),
      Task("globalRoot", GlobalConf, "", ""),
      Task("hostRoots", Queue, "", ""),
      Task("hooks", Queue, "hooks", ""),
      ensureGlobalReportingPattern>>

\* Faulty variant: the hooks first.
TasksHooksFirst(o) ==
    CASE o.command = "setup-qrmi-support" ->
             configureQueueHooksDefault \o ensureResourceDefault(o)
      [] o.command = "ensure-resource" -> ensureResourceDefault(o)
      [] o.command = "configure-queue-hooks" -> configureQueueHooksDefault


Tasks(o) ==
    CASE o.command = "setup-qrmi-support" ->
             ensureResourceDefault(o) \o configureQueueHooksDefault
      [] o.command = "ensure-resource" -> ensureResourceDefault(o)
      [] o.command = "configure-queue-hooks" -> configureQueueHooksDefault

----------------------------------------------------------------------------
Init ==
    /\ db \in Clusters
    /\ opt \in Commands
    /\ runs = [a \in Admins |-> [state |-> "idle", at |-> 1, phase |-> "show",
                                 copy |-> NoObject, roots |-> {}, fresh |-> FALSE]]
    /\ fresh = FALSE
    /\ foreign = [o \in Object |-> 0]
    /\ raced = {}
    /\ faults = 0
    /\ edits = 0

----------------------------------------------------------------------------
(* One run of the adapter *)

TaskOf(a) == Tasks(opt[a])[runs[a].at]

At(a, phase) == runs[a].state = "running" /\ runs[a].phase = phase

\* At the call of one of these kinds.
Calls(a, kinds) == At(a, "show") /\ TaskOf(a).kind \in kinds

\* The command starts, again if it failed or if it has to be run again.
Start(a) ==
    /\ \/ runs[a].state \in {"idle", "failed"}
       \/ runs[a].state = "done" /\ ~runs[a].fresh
    /\ runs' = [runs EXCEPT ![a] = [state |-> "running", at |-> 1, phase |-> "show",
                                    copy |-> NoObject, roots |-> {}, fresh |-> TRUE]]
    /\ UNCHANGED <<db, opt, fresh, foreign, raced, faults, edits>>

\* Faulty variant: one past the end.
AdvancePastEnd(a, r) ==
    IF r.at > Len(Tasks(opt[a]))
    THEN [r EXCEPT !.state = "done", !.phase = "show", !.copy = NoObject, !.roots = {}]
    ELSE [r EXCEPT !.at = @ + 1, !.phase = "show", !.copy = NoObject]

\* r with the task behind it: at the next one, or done.
Advance(a, r) ==
    IF r.at = Len(Tasks(opt[a]))
    THEN [r EXCEPT !.state = "done", !.phase = "show", !.copy = NoObject, !.roots = {}]
    ELSE [r EXCEPT !.at = @ + 1, !.phase = "show", !.copy = NoObject]

Advances(a) == runs' = [runs EXCEPT ![a] = Advance(a, @)]

\* The command ends with an error. What it has done stays.
Fails(a) ==
    runs' = [runs EXCEPT ![a] = [@ EXCEPT !.state = "failed", !.phase = "show",
                                          !.copy = NoObject, !.roots = {}]]

Fault == faults < MaxFaults /\ faults' = faults + 1

\* Faulty variant: hooks that are in the queue are taken for the right ones.
SatisfiedByAnyHooks(t, c) ==
    CASE t.kind = "hooks" -> "hooks" \in DOMAIN c
      [] t.kind = "clear" -> t.key \notin DOMAIN c
      [] OTHER            -> t.key \in DOMAIN c /\ c[t.key] = t.val

\* There is nothing to do: the attribute is as it should be. The hooks are
\* written every time.
Satisfied(t, c) ==
    CASE t.kind = "hooks" -> FALSE
      [] t.kind = "clear" -> t.key \notin DOMAIN c
      [] OTHER            -> t.key \in DOMAIN c /\ c[t.key] = t.val

\* Faulty variant: the object is written with the new attribute alone.
ChangedAlone(t, c, roots) ==
    CASE t.kind = "hooks" -> Put(<<>>, "hooks", roots)
      [] t.kind = "clear" -> <<>>
      [] OTHER            -> Put(<<>>, t.key, t.val)

\* The object that is written back: the copy with one attribute changed.
Changed(t, c, roots) ==
    CASE t.kind = "hooks" -> Put(c, "hooks", roots)
      [] t.kind = "clear" -> Drop(c, t.key)
      [] OTHER            -> Put(c, t.key, t.val)

ShowKinds == {"ensure", "set", "clear", "hooks"}

\* Faulty variant: an object that does not match is added, not modified.
ShowObjectAddsAlways(a) ==
    LET t == TaskOf(a) IN
    /\ Calls(a, ShowKinds)
    /\ db[t.obj] # NoObject
    /\ runs' = IF Satisfied(t, db[t.obj]) THEN [runs EXCEPT ![a] = Advance(a, @)]
               ELSE IF t.kind = "ensure" THEN [runs EXCEPT ![a].phase = "add"]
               ELSE [runs EXCEPT ![a].phase = "modify", ![a].copy = db[t.obj]]
    /\ UNCHANGED <<db, opt, fresh, foreign, raced, faults, edits>>


ShowObject(a) ==
    LET t == TaskOf(a) IN
    /\ Calls(a, ShowKinds)
    /\ db[t.obj] # NoObject
    /\ IF Satisfied(t, db[t.obj])
       THEN Advances(a)
       ELSE runs' = [runs EXCEPT ![a].phase = "modify", ![a].copy = db[t.obj]]
    /\ UNCHANGED <<db, opt, fresh, foreign, raced, faults, edits>>

\* Any error of Show is taken for a missing object where one can be added.
ShowFails(a) ==
    LET t == TaskOf(a) IN
    /\ Calls(a, ShowKinds)
    /\ IF db[t.obj] = NoObject THEN UNCHANGED faults ELSE Fault
    /\ IF t.kind = "ensure"
       THEN runs' = [runs EXCEPT ![a].phase = "add"]
       ELSE Fails(a)
    /\ UNCHANGED <<db, opt, fresh, foreign, raced, edits>>

\* qmaster takes an object it does not have.
Creates(a) ==
    LET t == TaskOf(a) IN
    /\ db[t.obj] = NoObject
    /\ db' = [db EXCEPT ![t.obj] = Changed(t, <<>>, {})]

AddObject(a) ==
    /\ At(a, "add")
    /\ \/ Creates(a) /\ Advances(a)
       \/ db[TaskOf(a).obj] # NoObject /\ UNCHANGED db /\ Fails(a)
    /\ UNCHANGED <<opt, fresh, foreign, raced, faults, edits>>

Writes(a) ==
    LET t == TaskOf(a) IN
    /\ db' = [db EXCEPT ![t.obj] = Changed(t, runs[a].copy, runs[a].roots)]
    /\ fresh' = IF t.kind = "hooks" THEN runs[a].fresh ELSE fresh

ModifyObject(a) ==
    /\ At(a, "modify")
    /\ Writes(a)
    /\ Advances(a)
    /\ UNCHANGED <<opt, foreign, raced, faults, edits>>

\* qconf reports an error, before or after qmaster has taken the change.
WriteFails(a) ==
    /\ \/ At(a, "add") /\ Creates(a) /\ UNCHANGED fresh
       \/ At(a, "modify") /\ Writes(a)
       \/ At(a, "add") /\ UNCHANGED <<db, fresh>>
       \/ At(a, "modify") /\ UNCHANGED <<db, fresh>>
    /\ Fault
    /\ Fails(a)
    /\ UNCHANGED <<opt, foreign, raced, edits>>

\* qstat is looked up and the bootstrap file is read, after the resources have
\* been configured.
queueHookOptions(a) ==
    /\ Calls(a, {"options"})
    /\ Advances(a)
    /\ UNCHANGED <<db, opt, fresh, foreign, raced, faults, edits>>

\* spoolRoots, the global configuration: without it, it goes on.
ShowGlobalRoot(a) ==
    /\ Calls(a, {"globalRoot"})
    /\ \/ /\ runs' = [runs EXCEPT ![a] =
                 Advance(a, [@ EXCEPT !.roots = {db[GlobalConf]["spool"]}])]
          /\ UNCHANGED faults
       \/ GlobalShowFails /\ Fault /\ Advances(a)
    /\ UNCHANGED <<db, opt, fresh, foreign, raced, edits>>

Overrides ==
    {db[HostConf(h)]["spool"] : h \in {g \in Hosts :
         db[HostConf(g)] # NoObject /\ "spool" \in DOMAIN db[HostConf(g)]}}

\* Faulty variant: the list is started again for the hosts.
ShowHostRootsOnly(a) ==
    /\ Calls(a, {"hostRoots"})
    /\ runs' = [runs EXCEPT ![a] = Advance(a, [@ EXCEPT !.roots = Overrides])]
    /\ UNCHANGED <<db, opt, fresh, foreign, raced, faults, edits>>


\* spoolRoots, the host configurations: listed and shown one by one, in one step
\* here, since a spool directory that changes meanwhile is missed either way.
ShowHostRoots(a) ==
    /\ Calls(a, {"hostRoots"})
    /\ LET r == [runs[a] EXCEPT !.roots = runs[a].roots \cup Overrides]
       IN  runs' = [runs EXCEPT ![a] = Advance(a, r)]
    /\ UNCHANGED <<db, opt, fresh, foreign, raced, faults, edits>>

CallFails(a) ==
    /\ Calls(a, {"options", "hostRoots"})
    /\ Fault
    /\ Fails(a)
    /\ UNCHANGED <<db, opt, fresh, foreign, raced, edits>>

Step(a) ==
    \/ ShowObject(a) \/ AddObject(a) \/ ModifyObject(a) \/ queueHookOptions(a)
    \/ ShowGlobalRoot(a) \/ ShowHostRoots(a)
    \/ ShowFails(a) \/ WriteFails(a) \/ CallFails(a)

----------------------------------------------------------------------------
(* The operator *)

\* An edit between the Show and the Modify of a run will be overwritten.
Races(o) ==
    IF \E a \in Admins : At(a, "modify") /\ TaskOf(a).obj = o THEN raced \cup {o} ELSE raced

\* Another attribute of an object is changed with qconf -mattr or the like.
EditObject(o) ==
    /\ edits < MaxEdits
    /\ db[o] # NoObject
    /\ edits' = edits + 1
    /\ db' = [db EXCEPT ![o] = Put(@, "other", edits + 1)]
    /\ foreign' = [foreign EXCEPT ![o] = edits + 1]
    /\ raced' = Races(o)
    /\ UNCHANGED <<opt, runs, fresh, faults>>

\* A host is given its own spool directory; the adapter has to be run again.
OverrideSpool(h, d) ==
    /\ edits < MaxEdits
    /\ db[HostConf(h)] # NoObject
    /\ edits' = edits + 1
    /\ db' = [db EXCEPT ![HostConf(h)] = Put(@, "spool", d)]
    /\ raced' = Races(HostConf(h))
    /\ fresh' = FALSE
    /\ runs' = [a \in Admins |-> [runs[a] EXCEPT !.fresh = FALSE]]
    /\ UNCHANGED <<opt, foreign, faults>>

Next ==
    \/ \E a \in Admins : Start(a) \/ Step(a)
    \/ \E o \in Object : EditObject(o)
    \/ \E h \in Hosts, d \in Dirs : OverrideSpool(h, d)

Spec == Init /\ [][Next]_vars

\* A command that was started runs to its end, and administrators repeat one
\* that failed or is due again.
FairSpec == Spec /\ \A a \in Admins : WF_vars(Start(a)) /\ WF_vars(Step(a))

----------------------------------------------------------------------------
(* Properties *)

\* Types of the adapter's and qmaster's state.
TypeOK ==
    /\ DOMAIN db = Object
    /\ \A o \in Object : db[o] = NoObject \/ IsMap(db[o])
    /\ \A a \in Admins :
          /\ runs[a].state \in {"idle", "running", "done", "failed"}
          /\ runs[a].at \in 1 .. Len(Tasks(opt[a]))
          /\ runs[a].phase \in {"show", "add", "modify"}
          /\ runs[a].roots \subseteq Dirs
          /\ runs[a].fresh \in BOOLEAN
          /\ IF runs[a].phase = "modify" THEN IsMap(runs[a].copy)
                                         ELSE runs[a].copy = NoObject
    /\ fresh \in BOOLEAN
    /\ raced \subseteq Object
    /\ faults \in 0 .. MaxFaults
    /\ edits \in 0 .. MaxEdits

Has(o, key, val) == db[o] # NoObject /\ key \in DOMAIN db[o] /\ db[o][key] = val

HasSlots(o, obj) ==
    IF o.capacity > 0 THEN Has(obj, "qpu_slots", o.capacity)
                      ELSE "qpu_slots" \notin DOMAIN db[obj]

ResourcesConfigured(o) ==
    /\ Has(Complex("qpu"), "shape", "right")
    /\ o.slots # "off" => Has(Complex("qpu_slots"), "shape", "right")
    /\ o.slots = "global" => HasSlots(o, GlobalExecHost)
    /\ o.sensor # NoHost =>
          /\ Has(Complex("qpu_ready"), "shape", "right")
          /\ Has(GlobalExecHost, "qpu_ready", 1)
          /\ Has(HostConf(o.sensor), "sensor", "ours")
    /\ \A i \in 1 .. Len(o.hosts) :
          /\ Has(ExecHost(o.hosts[i]), "qpu", "backend")
          /\ o.slots = "host" => HasSlots(o, ExecHost(o.hosts[i]))

HooksInstalled == "hooks" \in DOMAIN db[Queue]

\* Once every administrator's command has reported success, everything those
\* commands are for is configured, however their calls interleaved, whatever
\* the failed runs before left behind and however a call failed: a Modify with
\* an old copy never undoes the other run's work for good.
SetupIsComplete ==
    (\A a \in Admins : runs[a].state = "done") =>
        \A a \in Admins :
            /\ opt[a].command # "configure-queue-hooks" => ResourcesConfigured(opt[a])
            /\ opt[a].command # "ensure-resource" =>
                   HooksInstalled /\ Has(GlobalConf, "report", "qrmi")

\* The hooks are in the queue only after the resource they look up is there and
\* every host has its backend: a run that fails half-way never leaves jobs to
\* hooks without them, not even with another run at work. (The hosts are those
\* of the run that installed the hooks.)
HooksComeAfterResources ==
    HooksInstalled /\ (\A a \in Admins : opt[a].command = "setup-qrmi-support") =>
        \E a \in Admins :
            /\ Has(Complex("qpu"), "shape", "right")
            /\ \A i \in 1 .. Len(opt[a].hosts) :
                  Has(ExecHost(opt[a].hosts[i]), "qpu", "backend")

\* What the operator has set on hosts, queue and global configuration stays as
\* it is, unless it was changed between a run's Show and its Modify.
ForeignSettingsKept ==
    \A o \in Object :
        db[o] # NoObject /\ o \notin raced /\ foreign[o] # 0 => Has(o, "other", foreign[o])

SpoolDirOf(h) ==
    IF db[HostConf(h)] # NoObject /\ "spool" \in DOMAIN db[HostConf(h)]
    THEN db[HostConf(h)]["spool"] ELSE db[GlobalConf]["spool"]

Settings == [root |-> SgeRoot, cell |-> SgeCell, spools |-> db[Queue]["hooks"]]

\* The environment OCS gives a hook of a job on host h.
JobEnviron(h) == [loader |-> FALSE, jobID |-> TRUE, taskID |-> TRUE,
                  at |-> SpoolDirOf(h), own |-> TRUE, dir |-> TRUE]

\* Once the hooks are installed by a run begun after the last change of a spool
\* directory, the launcher and the hook's own check start the hook for a job on
\* every host, whichever spool directory the host uses and however many runs
\* and failed calls came in between. (Not so for a host whose spool directory
\* was changed under the hands of a run: that change may be lost.)
HooksAdmitEveryHost ==
    HooksInstalled /\ fresh =>
        \A h \in Hosts : HostConf(h) \notin raced =>
            HookStart(JobEnviron(h), Settings, TRUE) = "ok"

InstallsHooks(o) == o.command # "ensure-resource"

\* The commands that install the hooks have all been run since the last change
\* of a spool directory, and have succeeded.
RunAgain ==
    /\ \E a \in Admins : InstallsHooks(opt[a])
    /\ \A a \in Admins : InstallsHooks(opt[a]) => runs[a].state = "done" /\ runs[a].fresh

\* Running the command again is enough after a host is given its own spool
\* directory (README, "Run it again after setting a host-local
\* execd_spool_dir"): the hooks already in the queue are replaced, and those of
\* a run that was under way at the change do not outlive the next one.
RunAgainRenewsHooks ==
    RunAgain =>
        \A h \in Hosts : HostConf(h) \notin raced =>
            HookStart(JobEnviron(h), Settings, TRUE) = "ok"

\* Administrators who repeat a failed command get through in the end: neither
\* an object that another run has added, nor a change that was made although
\* qconf reported an error, can make every further run fail.
EveryCommandSucceeds ==
    <>[](\A a \in Admins : runs[a].state = "done" /\ runs[a].fresh)
===============================================================================

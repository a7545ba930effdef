-------------------------- MODULE ClusterSetupProofs --------------------------
(***************************************************************************)
(* Proofs about ClusterSetup, for every number of administrators, hosts    *)
(* and commands, and any number of failing calls and edits.                *)
(***************************************************************************)
EXTENDS ClusterSetup, TLAPS

\* The tasks that configure resources: the capacity of slots, and the others.
SlotTasks ==
    {setExecHostResource(obj, "qpu_slots", v) :
         obj \in {ExecHost(h) : h \in Hosts} \cup {GlobalExecHost}, v \in Nat}
    \cup {clearExecHostResource(obj, "qpu_slots") :
         obj \in {ExecHost(h) : h \in Hosts} \cup {GlobalExecHost}}

PlainTasks ==
    {ensureComplexEntry(n) : n \in {"qpu", "qpu_slots", "qpu_ready"}}
    \cup {configureHostLoadSensor(h) : h \in Hosts}
    \cup {setExecHostResource(ExecHost(h), "qpu", "backend") : h \in Hosts}
    \cup {setExecHostResource(GlobalExecHost, "qpu_ready", 1)}

ResourceTasks == SlotTasks \cup PlainTasks

HookTasks == {configureQueueHooksDefault[i] : i \in 1..5}

AnyTask == ResourceTasks \cup HookTasks

\* The capacity of slots is set or cleared.
LEMMA SlotsTaskType ==
    ASSUME NEW o \in Option, NEW obj \in {ExecHost(h) : h \in Hosts} \cup {GlobalExecHost}
    PROVE SlotsTask(o, obj) \in SlotTasks
<1>1. o.capacity \in Nat
  BY DEF Option
<1>2. setExecHostResource(obj, "qpu_slots", o.capacity) \in SlotTasks
  BY <1>1 DEF SlotTasks
<1>3. clearExecHostResource(obj, "qpu_slots") \in SlotTasks
  BY DEF SlotTasks
<1> QED BY <1>2, <1>3 DEF SlotsTask

\* The tasks for the hosts: the backend of each, and its capacity if wanted.
LEMMA HostTasksType ==
    ASSUME NEW o \in Option
    PROVE /\ HostTasks(o) \in Seq(ResourceTasks)
          /\ \A i \in 1 .. Len(HostTasks(o)) :
                HostTasks(o)[i].key = "qpu_slots" =>
                   /\ i > 1
                   /\ \E h \in Hosts :
                        /\ HostTasks(o)[i].obj = ExecHost(h)
                        /\ HostTasks(o)[i - 1] =
                              setExecHostResource(ExecHost(h), "qpu", "backend")
          /\ \A n \in 1 .. Len(o.hosts) : \E i \in 1 .. Len(HostTasks(o)) :
                HostTasks(o)[i] = setExecHostResource(ExecHost(o.hosts[n]), "qpu", "backend")
          /\ o.slots = "host" =>
                \A n \in 1 .. Len(o.hosts) : \E i \in 1 .. Len(HostTasks(o)) :
                   HostTasks(o)[i] = SlotsTask(o, ExecHost(o.hosts[n]))
          /\ \A i \in 1 .. Len(HostTasks(o)) :
                \/ HostTasks(o)[i].key = "qpu"
                \/ HostTasks(o)[i] = SlotsTask(o, HostTasks(o)[i].obj)
<1> DEFINE len == Len(o.hosts)
           Backend(n) == setExecHostResource(ExecHost(o.hosts[n]), "qpu", "backend")
           Slots(n) == SlotsTask(o, ExecHost(o.hosts[n]))
<1>1. len \in Nat /\ \A n \in 1 .. len : o.hosts[n] \in Hosts
  BY DEF Option
<1>2. \A n \in 1 .. len : Backend(n) \in ResourceTasks /\ Slots(n) \in ResourceTasks
  BY <1>1, SlotsTaskType DEF ResourceTasks, PlainTasks
<1>3. \A n \in 1 .. len : /\ Backend(n).key = "qpu" /\ Backend(n).key # "qpu_slots"
                          /\ Slots(n).obj = ExecHost(o.hosts[n])
  BY DEF setExecHostResource, clearExecHostResource, SlotsTask, Task
<1>4. CASE o.slots # "host"
  <2>1. HostTasks(o) = [i \in 1 .. len |-> Backend(i)]
    <3>1. \A i \in 1 .. 1 * len : ((i - 1) \div 1) + 1 = i /\ (i - 1) % 1 = 0
      BY <1>1
    <3> QED BY <1>1, <1>4, <3>1 DEF HostTasks
  <2> QED BY <1>1, <1>2, <1>3, <1>4, <2>1
<1>5. CASE o.slots = "host"
  <2> DEFINE T == [i \in 1 .. 2 * len |->
                      IF (i - 1) % 2 = 0 THEN Backend(((i - 1) \div 2) + 1)
                                         ELSE Slots(((i - 1) \div 2) + 1)]
  <2>1. HostTasks(o) = T
    BY <1>5 DEF HostTasks
  <2>2. \A i \in 1 .. 2 * len : ((i - 1) \div 2) + 1 \in 1 .. len
    BY <1>1
  <2>3. T \in Seq(ResourceTasks) /\ Len(T) = 2 * len
    BY <1>1, <1>2, <2>2
  <2>4. ASSUME NEW i \in 1 .. 2 * len, T[i].key = "qpu_slots"
        PROVE /\ i > 1
              /\ \E h \in Hosts : /\ T[i].obj = ExecHost(h)
                                  /\ T[i - 1] = setExecHostResource(ExecHost(h), "qpu", "backend")
    <3>1. (i - 1) % 2 # 0
      BY <1>3, <2>2, <2>4
    <3>2. i > 1 /\ i - 1 \in 1 .. 2 * len /\ (i - 2) % 2 = 0 /\ (i - 2) \div 2 = (i - 1) \div 2
      BY <1>1, <3>1
    <3>3. (i - 1) - 1 = i - 2
      OBVIOUS
    <3> QED BY <1>1, <1>3, <2>2, <3>1, <3>2, <3>3
  <2>5. ASSUME NEW n \in 1 .. len
        PROVE \E i \in 1 .. 2 * len : T[i] = Backend(n)
    <3>1. 2 * n - 1 \in 1 .. 2 * len /\ ((2 * n - 1) - 1) % 2 = 0 /\ ((2 * n - 1) - 1) \div 2 + 1 = n
      BY <1>1
    <3> QED BY <3>1
  <2>6. ASSUME NEW n \in 1 .. len
        PROVE \E i \in 1 .. 2 * len : T[i] = Slots(n)
    <3>1. 2 * n \in 1 .. 2 * len /\ (2 * n - 1) % 2 # 0 /\ (2 * n - 1) \div 2 + 1 = n
      BY <1>1
    <3> QED BY <3>1
  <2>7. \A i \in 1 .. 2 * len : T[i].key = "qpu" \/ T[i] = SlotsTask(o, T[i].obj)
    BY <1>3, <2>2
  <2> HIDE DEF T
  <2> QED BY <1>5, <2>1, <2>3, <2>4, <2>5, <2>6, <2>7
<1> QED BY <1>4, <1>5

\* Where the elements of a concatenation come from.
LEMMA Concat ==
    ASSUME NEW S, NEW s \in Seq(S), NEW t \in Seq(S)
    PROVE /\ s \o t \in Seq(S)
          /\ Len(s \o t) = Len(s) + Len(t) /\ Len(s) \in Nat /\ Len(t) \in Nat
          /\ \A i \in 1 .. Len(s) : i \in 1 .. Len(s \o t) /\ (s \o t)[i] = s[i]
          /\ \A i \in 1 .. Len(t) :
                Len(s) + i \in 1 .. Len(s \o t) /\ (s \o t)[Len(s) + i] = t[i]
          /\ \A i \in 1 .. Len(s \o t) :
                i > Len(s) => i - Len(s) \in 1 .. Len(t) /\ (s \o t)[i] = t[i - Len(s)]
OBVIOUS

\* Some task of a list.
In(t, s) == \E i \in 1 .. Len(s) : s[i] = t

\* Concatenation keeps the tasks of both lists.
LEMMA InConcat ==
    ASSUME NEW S, NEW s \in Seq(S), NEW t \in Seq(S), NEW x, In(x, s) \/ In(x, t)
    PROVE In(x, s \o t)
<1>1. CASE In(x, s)
  <2>1. PICK i \in 1 .. Len(s) : s[i] = x
    BY <1>1 DEF In
  <2>2. i \in 1 .. Len(s \o t) /\ (s \o t)[i] = x
    BY <2>1, Concat
  <2> QED BY <2>2 DEF In
<1>2. CASE In(x, t)
  <2>1. PICK i \in 1 .. Len(t) : t[i] = x
    BY <1>2 DEF In
  <2>2. Len(s) + i \in 1 .. Len(s \o t) /\ (s \o t)[Len(s) + i] = x
    BY <2>1, Concat
  <2> QED BY <2>2 DEF In
<1> QED BY <1>1, <1>2

\* Every slots task of a list comes after the tasks of u's kind it depends on:
\* none is written back with a copy taken before u was done.
Anchors(s, u) ==
    \A i \in 1 .. Len(s) :
        (s[i].key = "qpu_slots" /\ s[i].obj = u.obj) => \E k \in 1 .. (i - 1) : s[k] = u

\* The tasks of ensureResourceDefault and their order.
LEMMA ResourceTasksType ==
    ASSUME NEW o \in Option
    PROVE LET E == ensureResourceDefault(o) IN
          /\ E \in Seq(ResourceTasks) /\ Len(E) \in Nat \ {0}
          /\ E[1] = ensureComplexEntry("qpu")
          /\ \A h \in Hosts : Anchors(E, setExecHostResource(ExecHost(h), "qpu", "backend"))
          /\ o.sensor # NoHost => Anchors(E, setExecHostResource(GlobalExecHost, "qpu_ready", 1))
          /\ o.slots # "off" => In(ensureComplexEntry("qpu_slots"), E)
          /\ o.slots = "global" => In(SlotsTask(o, GlobalExecHost), E)
          /\ o.sensor # NoHost => /\ In(ensureComplexEntry("qpu_ready"), E)
                                  /\ In(setExecHostResource(GlobalExecHost, "qpu_ready", 1), E)
                                  /\ In(configureHostLoadSensor(o.sensor), E)
          /\ \A n \in 1 .. Len(o.hosts) :
                /\ In(setExecHostResource(ExecHost(o.hosts[n]), "qpu", "backend"), E)
                /\ o.slots = "host" => In(SlotsTask(o, ExecHost(o.hosts[n])), E)
          /\ \A i \in 1 .. Len(E) :
                /\ E[i].key = "qpu_slots" => E[i] = SlotsTask(o, E[i].obj)
                /\ E[i].key = "qpu_ready" => o.sensor # NoHost
<1> DEFINE E  == ensureResourceDefault(o)
           A1 == <<ensureComplexEntry("qpu")>>
           A2 == IF o.slots # "off" THEN <<ensureComplexEntry("qpu_slots")>> ELSE <<>>
           A3 == IF o.sensor # NoHost
                 THEN <<ensureComplexEntry("qpu_ready"),
                        setExecHostResource(GlobalExecHost, "qpu_ready", 1),
                        configureHostLoadSensor(o.sensor)>>
                 ELSE <<>>
           A4 == IF o.slots = "global" THEN <<SlotsTask(o, GlobalExecHost)>> ELSE <<>>
           H  == HostTasks(o)
           P2 == A1 \o A2
           P3 == P2 \o A3
           P4 == P3 \o A4
           ready == setExecHostResource(GlobalExecHost, "qpu_ready", 1)
<1>0. E = P4 \o H
  BY DEF ensureResourceDefault
<1>1. /\ A1 \in Seq(ResourceTasks) /\ Len(A1) = 1 /\ A1[1] = ensureComplexEntry("qpu")
      /\ A1[1].key = "shape"
  BY DEF ResourceTasks, PlainTasks, ensureComplexEntry, Task
<1>2. /\ A2 \in Seq(ResourceTasks)
      /\ \A i \in 1 .. Len(A2) : A2[i].key = "shape"
      /\ o.slots # "off" => In(ensureComplexEntry("qpu_slots"), A2)
  <2>1. CASE o.slots = "off"
    BY <2>1
  <2>2. CASE o.slots # "off"
    BY <2>2 DEF ResourceTasks, PlainTasks, ensureComplexEntry, Task, In
  <2> QED BY <2>1, <2>2
<1>3. /\ A3 \in Seq(ResourceTasks)
      /\ \A i \in 1 .. Len(A3) : A3[i].key # "qpu_slots" /\ o.sensor # NoHost
      /\ o.sensor # NoHost => /\ In(ensureComplexEntry("qpu_ready"), A3)
                              /\ In(ready, A3)
                              /\ In(configureHostLoadSensor(o.sensor), A3)
  <2>1. CASE o.sensor = NoHost
    BY <2>1
  <2>2. CASE o.sensor # NoHost
    <3>1. o.sensor \in Hosts
      BY <2>2 DEF Option
    <3>2. /\ ensureComplexEntry("qpu_ready") \in ResourceTasks
          /\ ready \in ResourceTasks
          /\ configureHostLoadSensor(o.sensor) \in ResourceTasks
      BY <3>1 DEF ResourceTasks, PlainTasks
    <3>3. /\ ensureComplexEntry("qpu_ready").key # "qpu_slots"
          /\ ready.key # "qpu_slots"
          /\ configureHostLoadSensor(o.sensor).key # "qpu_slots"
      BY DEF ensureComplexEntry, setExecHostResource, configureHostLoadSensor, Task
    <3>4. /\ A3 \in Seq(ResourceTasks) /\ Len(A3) = 3
          /\ A3[1] = ensureComplexEntry("qpu_ready") /\ A3[2] = ready
          /\ A3[3] = configureHostLoadSensor(o.sensor)
      BY <2>2, <3>2
    <3> HIDE DEF A3
    <3> QED BY <2>2, <3>3, <3>4 DEF In
  <2> QED BY <2>1, <2>2
<1>4. /\ A4 \in Seq(ResourceTasks)
      /\ \A i \in 1 .. Len(A4) : /\ A4[i].obj = GlobalExecHost /\ A4[i].key = "qpu_slots"
                                 /\ A4[i] = SlotsTask(o, GlobalExecHost)
      /\ o.slots = "global" => In(SlotsTask(o, GlobalExecHost), A4)
  <2>1. SlotsTask(o, GlobalExecHost) \in ResourceTasks
    BY SlotsTaskType DEF ResourceTasks
  <2>2. /\ SlotsTask(o, GlobalExecHost).obj = GlobalExecHost
        /\ SlotsTask(o, GlobalExecHost).key = "qpu_slots"
    BY DEF SlotsTask, setExecHostResource, clearExecHostResource, Task
  <2>3. CASE o.slots = "global"
    BY <2>1, <2>2, <2>3 DEF In
  <2>4. CASE o.slots # "global"
    BY <2>4
  <2> QED BY <2>3, <2>4
<1> HIDE DEF A1, A2, A3, A4
<1>5. /\ P2 \in Seq(ResourceTasks) /\ Len(P2) \in Nat \ {0}
      /\ P2[1] = ensureComplexEntry("qpu")
      /\ \A i \in 1 .. Len(P2) : P2[i].key = "shape"
  <2> HIDE DEF P2
  <2>1. /\ A1 \o A2 \in Seq(ResourceTasks)
        /\ Len(A1 \o A2) = Len(A1) + Len(A2) /\ Len(A2) \in Nat
        /\ \A i \in 1 .. Len(A1) : (A1 \o A2)[i] = A1[i]
        /\ \A i \in 1 .. Len(A1 \o A2) :
              i > Len(A1) => i - Len(A1) \in 1 .. Len(A2) /\ (A1 \o A2)[i] = A2[i - Len(A1)]
    <3>1. A1 \in Seq(ResourceTasks) /\ A2 \in Seq(ResourceTasks)
      BY <1>1, <1>2
    <3> QED BY <3>1, Concat
  <2>2. P2 = A1 \o A2
    BY DEF P2
  <2> QED BY <1>1, <1>2, <2>1, <2>2
<1> HIDE DEF P2
<1>6. /\ P3 \in Seq(ResourceTasks) /\ Len(P3) \in Nat \ {0}
      /\ P3[1] = ensureComplexEntry("qpu")
      /\ \A i \in 1 .. Len(P3) :
            P3[i].key # "qpu_slots" /\ (P3[i].key = "qpu_ready" => o.sensor # NoHost)
  BY <1>3, <1>5, Concat
<1> HIDE DEF P3
<1>7. /\ P4 \in Seq(ResourceTasks) /\ Len(P4) \in Nat \ {0}
      /\ P4[1] = ensureComplexEntry("qpu")
      /\ \A i \in 1 .. Len(P4) : P4[i].key = "qpu_slots" =>
            /\ i > Len(P3) /\ P4[i].obj = GlobalExecHost
            /\ P4[i] = SlotsTask(o, P4[i].obj)
      /\ \A i \in 1 .. Len(P4) : P4[i].key = "qpu_ready" => o.sensor # NoHost
      /\ Len(P3) <= Len(P4) /\ \A i \in 1 .. Len(P3) : P4[i] = P3[i]
  <2> HIDE DEF P4
  <2>1. /\ P3 \o A4 \in Seq(ResourceTasks)
        /\ Len(P3 \o A4) = Len(P3) + Len(A4) /\ Len(A4) \in Nat
        /\ \A i \in 1 .. Len(P3) : (P3 \o A4)[i] = P3[i]
        /\ \A i \in 1 .. Len(P3 \o A4) :
              i > Len(P3) => i - Len(P3) \in 1 .. Len(A4) /\ (P3 \o A4)[i] = A4[i - Len(P3)]
    <3>1. P3 \in Seq(ResourceTasks) /\ A4 \in Seq(ResourceTasks)
      BY <1>4, <1>6
    <3> QED BY <3>1, Concat
  <2>2. P4 = P3 \o A4
    BY DEF P4
  <2>3. ASSUME NEW i \in 1 .. Len(P4)
        PROVE /\ i <= Len(P3) => i \in 1 .. Len(P3) /\ P4[i] = P3[i]
              /\ i > Len(P3) => /\ P4[i] = SlotsTask(o, GlobalExecHost)
                                /\ P4[i].obj = GlobalExecHost /\ P4[i].key = "qpu_slots"
    BY <1>4, <1>6, <2>1, <2>2
  <2>4. \A i \in 1 .. Len(P4) : i <= Len(P3) \/ i > Len(P3)
    BY <1>6, <2>1, <2>2
  <2>5. \A i \in 1 .. Len(P4) : P4[i].key = "qpu_slots" =>
            /\ i > Len(P3) /\ P4[i].obj = GlobalExecHost
            /\ P4[i] = SlotsTask(o, P4[i].obj)
    BY <1>6, <2>3, <2>4
  <2>6. \A i \in 1 .. Len(P4) : P4[i].key = "qpu_ready" => o.sensor # NoHost
    BY <1>6, <2>3, <2>4
  <2>7. 1 \in 1 .. Len(P3)
    BY <1>6
  <2> QED BY <1>6, <2>1, <2>2, <2>5, <2>6, <2>7
<1> HIDE DEF P4
<1>8. /\ E \in Seq(ResourceTasks) /\ Len(E) \in Nat \ {0}
      /\ E[1] = ensureComplexEntry("qpu")
      /\ Len(P4) <= Len(E) /\ \A i \in 1 .. Len(P4) : E[i] = P4[i]
      /\ \A i \in 1 .. Len(E) : i > Len(P4) => i - Len(P4) \in 1 .. Len(H) /\ E[i] = H[i - Len(P4)]
      /\ \A i \in 1 .. Len(H) : Len(P4) + i \in 1 .. Len(E) /\ E[Len(P4) + i] = H[i]
  <2>1. H \in Seq(ResourceTasks)
    BY HostTasksType
  <2> HIDE DEF H
  <2>2. /\ P4 \o H \in Seq(ResourceTasks) /\ Len(P4 \o H) = Len(P4) + Len(H) /\ Len(H) \in Nat
        /\ \A i \in 1 .. Len(P4) : (P4 \o H)[i] = P4[i]
        /\ \A i \in 1 .. Len(P4 \o H) :
              i > Len(P4) => i - Len(P4) \in 1 .. Len(H) /\ (P4 \o H)[i] = H[i - Len(P4)]
        /\ \A i \in 1 .. Len(H) :
              Len(P4) + i \in 1 .. Len(P4 \o H) /\ (P4 \o H)[Len(P4) + i] = H[i]
    BY <1>7, <2>1, Concat
  <2> HIDE DEF E
  <2> QED BY <1>0, <1>7, <2>2
<1> HIDE DEF E
<1>9. ASSUME NEW h \in Hosts
      PROVE Anchors(E, setExecHostResource(ExecHost(h), "qpu", "backend"))
  <2> DEFINE u == setExecHostResource(ExecHost(h), "qpu", "backend")
  <2>1. u.obj = ExecHost(h)
    BY DEF setExecHostResource, Task
  <2> SUFFICES ASSUME NEW i \in 1 .. Len(E), E[i].key = "qpu_slots", E[i].obj = ExecHost(h)
               PROVE \E k \in 1 .. (i - 1) : E[k] = u
    BY <2>1 DEF Anchors
  <2>2. i > Len(P4)
    <3>1. ExecHost(h) # GlobalExecHost
      BY SetupAssumption DEF ExecHost, GlobalExecHost
    <3>2. \A j \in 1 .. Len(P4) : E[j] = P4[j] /\ (P4[j].key = "qpu_slots" => P4[j].obj = GlobalExecHost)
      BY <1>7, <1>8
    <3>3. i \in 1 .. Len(P4) => FALSE
      BY <3>1, <3>2
    <3> QED BY <1>7, <1>8, <3>3
  <2>3. i - Len(P4) \in 1 .. Len(H) /\ E[i] = H[i - Len(P4)]
    BY <1>8, <2>2
  <2>4. PICK g \in Hosts : /\ i - Len(P4) > 1 /\ H[i - Len(P4)].obj = ExecHost(g)
                           /\ H[i - Len(P4) - 1] =
                                setExecHostResource(ExecHost(g), "qpu", "backend")
    BY <2>3, HostTasksType
  <2>5. g = h
    BY <2>3, <2>4 DEF ExecHost
  <2>6. i - Len(P4) - 1 \in 1 .. Len(H) /\ Len(P4) + (i - Len(P4) - 1) = i - 1
    BY <1>7, <1>8, <2>3, <2>4
  <2>7. E[i - 1] = u /\ i - 1 \in 1 .. (i - 1)
    BY <1>7, <1>8, <2>4, <2>5, <2>6
  <2> QED BY <2>7
<1>10. ASSUME o.sensor # NoHost PROVE Anchors(E, ready)
  <2>1. ready.obj = GlobalExecHost
    BY DEF setExecHostResource, Task
  <2> SUFFICES ASSUME NEW i \in 1 .. Len(E), E[i].key = "qpu_slots", E[i].obj = GlobalExecHost
               PROVE \E k \in 1 .. (i - 1) : E[k] = ready
    BY <2>1 DEF Anchors
  <2>2. i <= Len(P4)
    <3>1. SUFFICES ASSUME i > Len(P4) PROVE FALSE
      BY <1>7, <1>8
    <3>2. i - Len(P4) \in 1 .. Len(H) /\ E[i] = H[i - Len(P4)]
      BY <1>8, <3>1
    <3>3. PICK g \in Hosts : H[i - Len(P4)].obj = ExecHost(g)
      BY <3>2, HostTasksType
    <3> QED BY <3>2, <3>3, SetupAssumption DEF ExecHost, GlobalExecHost
  <2>3. i > Len(P3)
    BY <1>7, <1>8, <2>2
  <2>4. In(ready, P3)
    BY <1>3, <1>5, <1>10, InConcat DEF P3
  <2>5. PICK k \in 1 .. Len(P3) : P3[k] = ready
    BY <2>4 DEF In
  <2>6. E[k] = ready /\ k \in 1 .. (i - 1)
    <3>1. Len(P3) \in Nat /\ Len(P4) \in Nat /\ Len(P3) <= Len(P4) /\ Len(E) \in Nat
      BY <1>6, <1>7, <1>8
    <3>2. k \in 1 .. (i - 1) /\ k \in 1 .. Len(P4)
      BY <2>3, <2>5, <3>1
    <3>3. E[k] = P4[k] /\ P4[k] = P3[k]
      BY <1>7, <1>8, <2>5, <3>2
    <3> QED BY <2>5, <3>2, <3>3
  <2> QED BY <2>6
<1>11. \A x : In(x, A2) => In(x, E)
  <2>1. \A x : In(x, A2) => In(x, P2)
    <3>1. A1 \in Seq(ResourceTasks) /\ A2 \in Seq(ResourceTasks)
      BY <1>1, <1>2
    <3> QED BY <3>1, InConcat DEF P2
  <2>2. \A x : In(x, P2) => In(x, P3)
    BY <1>3, <1>5, InConcat DEF P3
  <2>3. \A x : In(x, P3) => In(x, P4)
    BY <1>4, <1>6, InConcat DEF P4
  <2>4. \A x : In(x, P4) => In(x, E)
    BY <1>0, <1>7, InConcat, HostTasksType
  <2> QED BY <2>1, <2>2, <2>3, <2>4
<1>12. \A x : In(x, A3) => In(x, E)
  BY <1>0, <1>3, <1>4, <1>5, <1>6, <1>7, InConcat, HostTasksType DEF P3, P4
<1>13. \A x : In(x, A4) => In(x, E)
  BY <1>0, <1>4, <1>6, <1>7, InConcat, HostTasksType DEF P4
<1>14. \A x : In(x, H) => In(x, E)
  BY <1>0, <1>7, InConcat, HostTasksType
<1>15. \A n \in 1 .. Len(o.hosts) :
          /\ In(setExecHostResource(ExecHost(o.hosts[n]), "qpu", "backend"), E)
          /\ o.slots = "host" => In(SlotsTask(o, ExecHost(o.hosts[n])), E)
  BY <1>14, HostTasksType DEF In
<1>16. ASSUME NEW i \in 1 .. Len(E)
       PROVE /\ E[i].key = "qpu_slots" => E[i] = SlotsTask(o, E[i].obj)
             /\ E[i].key = "qpu_ready" => o.sensor # NoHost
  <2>1. CASE i <= Len(P4)
    <3>1. i \in 1 .. Len(P4) /\ E[i] = P4[i]
      BY <1>7, <1>8, <2>1
    <3> QED BY <1>7, <3>1
  <2>2. CASE i > Len(P4)
    <3>1. i - Len(P4) \in 1 .. Len(H) /\ E[i] = H[i - Len(P4)]
      BY <1>8, <2>2
    <3>2. E[i].key = "qpu" \/ E[i] = SlotsTask(o, E[i].obj)
      BY <3>1, HostTasksType
    <3>3. \A obj : SlotsTask(o, obj).key = "qpu_slots"
      BY DEF SlotsTask, setExecHostResource, clearExecHostResource, Task
    <3> QED BY <3>2, <3>3
  <2> QED BY <1>7, <1>8, <2>1, <2>2
<1> QED BY <1>2, <1>3, <1>4, <1>8, <1>9, <1>10, <1>11, <1>12, <1>13, <1>15, <1>16 DEF E

\* What a slots task is.
LEMMA SlotTaskForm ==
    ASSUME NEW t \in SlotTasks
    PROVE /\ t.key = "qpu_slots"
          /\ t.obj = GlobalExecHost \/ \E h \in Hosts : t.obj = ExecHost(h)
          /\ \/ t.kind = "set" /\ t.val \in Nat
             \/ t.kind = "clear"
<1>1. \/ \E obj \in {ExecHost(h) : h \in Hosts} \cup {GlobalExecHost}, v \in Nat :
            t = setExecHostResource(obj, "qpu_slots", v)
      \/ \E obj \in {ExecHost(h) : h \in Hosts} \cup {GlobalExecHost} :
            t = clearExecHostResource(obj, "qpu_slots")
  BY DEF SlotTasks
<1>2. CASE \E obj \in {ExecHost(h) : h \in Hosts} \cup {GlobalExecHost}, v \in Nat :
                t = setExecHostResource(obj, "qpu_slots", v)
  <2>1. PICK obj \in {ExecHost(h) : h \in Hosts} \cup {GlobalExecHost}, v \in Nat :
                t = setExecHostResource(obj, "qpu_slots", v)
    BY <1>2
  <2>2. t.kind = "set" /\ t.obj = obj /\ t.key = "qpu_slots" /\ t.val = v
    BY <2>1 DEF setExecHostResource, Task
  <2> QED BY <2>2
<1>3. CASE \E obj \in {ExecHost(h) : h \in Hosts} \cup {GlobalExecHost} :
                t = clearExecHostResource(obj, "qpu_slots")
  <2>1. PICK obj \in {ExecHost(h) : h \in Hosts} \cup {GlobalExecHost} :
                t = clearExecHostResource(obj, "qpu_slots")
    BY <1>3
  <2>2. t.kind = "clear" /\ t.obj = obj /\ t.key = "qpu_slots"
    BY <2>1 DEF clearExecHostResource, Task
  <2> QED BY <2>2
<1> QED BY <1>1, <1>2, <1>3

\* What any other resource task is.
LEMMA PlainTaskForm ==
    ASSUME NEW t \in PlainTasks
    PROVE \/ /\ t.kind = "ensure" /\ t.key = "shape" /\ t.val = "right"
             /\ \E n \in {"qpu", "qpu_slots", "qpu_ready"} : t.obj = Complex(n)
          \/ /\ t.kind = "ensure" /\ t.key = "sensor" /\ t.val = "ours"
             /\ \E h \in Hosts : t.obj = HostConf(h)
          \/ /\ t.kind = "set" /\ t.key = "qpu" /\ t.val = "backend"
             /\ \E h \in Hosts : t.obj = ExecHost(h)
          \/ t.kind = "set" /\ t.key = "qpu_ready" /\ t.val = 1 /\ t.obj = GlobalExecHost
<1>1. CASE \E n \in {"qpu", "qpu_slots", "qpu_ready"} : t = ensureComplexEntry(n)
  BY <1>1 DEF ensureComplexEntry, Task
<1>2. CASE \E h \in Hosts : t = configureHostLoadSensor(h)
  BY <1>2 DEF configureHostLoadSensor, Task
<1>3. CASE \E h \in Hosts : t = setExecHostResource(ExecHost(h), "qpu", "backend")
  BY <1>3 DEF setExecHostResource, Task
<1>4. CASE t = setExecHostResource(GlobalExecHost, "qpu_ready", 1)
  BY <1>4 DEF setExecHostResource, Task
<1> QED BY <1>1, <1>2, <1>3, <1>4 DEF PlainTasks

\* What a task of the hooks is.
LEMMA HookTaskForm ==
    ASSUME NEW t \in HookTasks
    PROVE \/ t.kind = "options" /\ t.obj = Queue
          \/ t.kind = "globalRoot" /\ t.obj = GlobalConf
          \/ t.kind = "hostRoots" /\ t.obj = Queue
          \/ t.kind = "hooks" /\ t.obj = Queue /\ t.key = "hooks"
          \/ t.kind = "set" /\ t.obj = GlobalConf /\ t.key = "report" /\ t.val = "qrmi"
<1>1. PICK i \in 1 .. 5 : t = configureQueueHooksDefault[i]
  BY DEF HookTasks
<1>2. i = 1 \/ i = 2 \/ i = 3 \/ i = 4 \/ i = 5
  OBVIOUS
<1>3. CASE i = 1
  BY <1>1, <1>3 DEF configureQueueHooksDefault, Task
<1>4. CASE i = 2
  BY <1>1, <1>4 DEF configureQueueHooksDefault, Task
<1>5. CASE i = 3
  BY <1>1, <1>5 DEF configureQueueHooksDefault, Task
<1>6. CASE i = 4
  BY <1>1, <1>6 DEF configureQueueHooksDefault, Task
<1>7. CASE i = 5
  BY <1>1, <1>7 DEF configureQueueHooksDefault, ensureGlobalReportingPattern, Task
<1> QED BY <1>2, <1>3, <1>4, <1>5, <1>6, <1>7

\* The objects of different kinds differ.
LEMMA Objects ==
    /\ \A n : Complex(n) \notin {GlobalExecHost, GlobalConf, Queue}
    /\ \A h : ExecHost(h) \notin {GlobalConf, Queue} /\ HostConf(h) \notin {GlobalExecHost, Queue}
    /\ \A h \in Hosts : ExecHost(h) # GlobalExecHost /\ HostConf(h) # GlobalConf
    /\ \A n, h : Complex(n) # ExecHost(h) /\ Complex(n) # HostConf(h)
    /\ \A g, h : ExecHost(g) # HostConf(h)
    /\ GlobalExecHost # GlobalConf /\ GlobalExecHost # Queue /\ GlobalConf # Queue
    /\ {GlobalExecHost, GlobalConf, Queue} \subseteq Object
    /\ \A h \in Hosts : ExecHost(h) \in Object /\ HostConf(h) \in Object
    /\ \A n \in {"qpu", "qpu_slots", "qpu_ready"} : Complex(n) \in Object
BY SetupAssumption DEF Complex, ExecHost, HostConf, GlobalExecHost, GlobalConf, Queue, Object

\* What a task of the adapter may be. Only "hooks" writes the queue, only
\* "ensure" adds an object, and no task writes a spool directory or an attribute
\* the adapter does not know.
LEMMA TaskFacts ==
    ASSUME NEW t \in AnyTask
    PROVE /\ t.kind \in ShowKinds \cup {"options", "globalRoot", "hostRoots"}
          /\ t.obj \in Object
          /\ t.kind \in ShowKinds =>
                /\ t.key \in Attribute \ {"spool", "other"}
                /\ t.kind \notin {"clear", "hooks"} => t.val \in ValueOf(t.key)
                /\ t.kind = "hooks" <=> t.obj = Queue
                /\ t.kind = "hooks" <=> t.key = "hooks"
                /\ t.kind = "ensure" => t.obj \notin {GlobalExecHost, GlobalConf, Queue}
<1>1. CASE t \in SlotTasks
  <2>1. t.kind = "set" => t.val \in ValueOf(t.key)
    BY <1>1, SlotTaskForm DEF ValueOf
  <2>2. t.obj \in Object /\ t.obj # Queue
    BY <1>1, SlotTaskForm, Objects
  <2> QED BY <1>1, <2>1, <2>2, SlotTaskForm DEF Attribute, ShowKinds
<1>2. CASE t \in PlainTasks
  <2>1. /\ t.key \in {"shape", "sensor", "qpu", "qpu_ready"}
        /\ t.kind \in {"ensure", "set"}
        /\ t.key # "qpu_ready" => t.val = "right" \/ t.val = "ours" \/ t.val = "backend"
        /\ t.key = "qpu_ready" => t.val = 1
    BY <1>2, PlainTaskForm
  <2>2. t.val \in ValueOf(t.key)
    BY <2>1 DEF ValueOf, Text
  <2>3. /\ t.obj \in Object /\ t.obj # Queue
        /\ t.kind = "ensure" => t.obj \notin {GlobalExecHost, GlobalConf}
    <3>1. CASE \E n \in {"qpu", "qpu_slots", "qpu_ready"} : t.obj = Complex(n)
      BY <3>1, Objects
    <3>2. CASE \E h \in Hosts : t.obj = HostConf(h)
      BY <3>2, Objects
    <3>3. CASE \E h \in Hosts : t.obj = ExecHost(h)
      BY <3>3, Objects
    <3>4. CASE t.obj = GlobalExecHost /\ t.kind = "set"
      BY <3>4, Objects
    <3> QED BY <1>2, <3>1, <3>2, <3>3, <3>4, PlainTaskForm
  <2> QED BY <2>1, <2>2, <2>3 DEF Attribute, ShowKinds
<1>3. CASE t \in HookTasks
  <2>1. t.kind = "set" => t.key = "report" /\ t.val = "qrmi" /\ t.obj = GlobalConf
    BY <1>3, HookTaskForm
  <2>2. t.kind = "set" => t.val \in ValueOf(t.key)
    BY <2>1 DEF ValueOf, Text
  <2>3. /\ t.kind \in {"options", "globalRoot", "hostRoots", "hooks", "set"}
        /\ t.kind = "hooks" => t.obj = Queue /\ t.key = "hooks"
        /\ t.obj \in {Queue, GlobalConf}
    BY <1>3, HookTaskForm
  <2>4. t.obj \in Object /\ GlobalConf # Queue
    BY <2>3, Objects
  <2> QED BY <2>1, <2>2, <2>3, <2>4 DEF Attribute, ShowKinds
<1> QED BY <1>1, <1>2, <1>3 DEF AnyTask, ResourceTasks

\* The five calls that install the hooks.
LEMMA HooksCalls ==
    LET C == configureQueueHooksDefault IN
    /\ C \in Seq(AnyTask) /\ Len(C) = 5
    /\ C[1].kind = "options" /\ C[2].kind = "globalRoot" /\ C[3].kind = "hostRoots"
    /\ C[4].kind = "hooks" /\ C[5] = ensureGlobalReportingPattern
    /\ C[5].kind = "set" /\ C[5].key = "report"
<1> DEFINE C == configureQueueHooksDefault
<1>1. Len(C) = 5 /\ C \in Seq(HookTasks)
  <2>1. Len(C) = 5 /\ C \in Seq({C[1], C[2], C[3], C[4], C[5]})
    BY DEF configureQueueHooksDefault
  <2>2. \A i \in 1 .. 5 : C[i] \in HookTasks
    BY DEF HookTasks
  <2> HIDE DEF C
  <2> QED BY <2>1, <2>2
<1> HIDE DEF C
<1>2. C \in Seq(AnyTask)
  BY <1>1 DEF AnyTask
<1> USE DEF C
<1> QED BY <1>1, <1>2 DEF configureQueueHooksDefault, ensureGlobalReportingPattern, Task

\* Configuring resources takes no step of the hooks.
LEMMA ResourceKinds ==
    ASSUME NEW t \in ResourceTasks
    PROVE t.kind \in {"ensure", "set", "clear"} /\ t \in AnyTask
<1>1. t \in SlotTasks => t.kind \in {"set", "clear"}
  BY SlotTaskForm
<1>2. t \in PlainTasks => t.kind \in {"ensure", "set"}
  BY PlainTaskForm
<1> QED BY <1>1, <1>2 DEF ResourceTasks, AnyTask

\* A command's tasks: setup configures the resources before the hooks, and the
\* hooks come after the two steps that collect the spool directories.
LEMMA TasksType ==
    ASSUME NEW o \in Option
    PROVE LET T == Tasks(o)
              E == ensureResourceDefault(o) IN
          /\ T \in Seq(AnyTask) /\ Len(T) \in Nat \ {0}
          /\ \A i \in 1 .. Len(T) :
                /\ T[i].kind = "hostRoots" => i > 1 /\ T[i - 1].kind = "globalRoot"
                /\ T[i].kind = "hooks" => i > 1 /\ T[i - 1].kind = "hostRoots"
          /\ o.command # "configure-queue-hooks" =>
                /\ Len(E) <= Len(T) /\ \A i \in 1 .. Len(E) : T[i] = E[i]
                /\ \A i \in 1 .. Len(T) : T[i] \in SlotTasks => i <= Len(E)
                /\ \A i \in 1 .. Len(T) : T[i].kind = "hooks" => i > Len(E)
                /\ \A i \in 1 .. Len(T) : i > Len(E) => T[i] \in HookTasks
          /\ o.command = "configure-queue-hooks" =>
                \A i \in 1 .. Len(T) : T[i] \notin SlotTasks /\ T[i] \in HookTasks
          /\ o.command # "ensure-resource" =>
                /\ In(ensureGlobalReportingPattern, T)
                /\ \E i \in 1 .. Len(T) : T[i].kind = "hooks"
<1> DEFINE T == Tasks(o)
           E == ensureResourceDefault(o)
           C == configureQueueHooksDefault
<1>1. /\ E \in Seq(ResourceTasks) /\ Len(E) \in Nat \ {0}
      /\ \A i \in 1 .. Len(E) : E[i].kind \in {"ensure", "set", "clear"} /\ E[i] \in AnyTask
  BY ResourceTasksType, ResourceKinds
<1>2. E \in Seq(AnyTask)
  BY <1>1 DEF AnyTask
<1>3. /\ C \in Seq(AnyTask) /\ Len(C) = 5
      /\ C[1].kind = "options" /\ C[2].kind = "globalRoot" /\ C[3].kind = "hostRoots"
      /\ C[4].kind = "hooks" /\ C[5] = ensureGlobalReportingPattern
      /\ C[5].kind = "set"
  BY HooksCalls
<1>4. \A i \in 1 .. 5 : C[i] \notin SlotTasks /\ C[i] \in HookTasks
  <2>1. \A t \in SlotTasks : t.kind \in {"set", "clear"} /\ t.key = "qpu_slots"
    BY SlotTaskForm
  <2>2. C[5].key = "report"
    BY HooksCalls
  <2>3. \A i \in 1 .. 5 : i = 1 \/ i = 2 \/ i = 3 \/ i = 4 \/ i = 5
    OBVIOUS
  <2>4. \A i \in 1 .. 5 : C[i] \in HookTasks
    BY DEF HookTasks
  <2> HIDE DEF C
  <2> QED BY <1>3, <2>1, <2>2, <2>3, <2>4
<1> HIDE DEF E, C
<1>5. CASE o.command = "setup-qrmi-support"
  <2>1. T = E \o C
    BY <1>5 DEF Tasks, E, C
  <2> HIDE DEF T
  <2>2. /\ T \in Seq(AnyTask) /\ Len(T) = Len(E) + 5
        /\ \A i \in 1 .. Len(E) : T[i] = E[i]
        /\ \A i \in 1 .. 5 : Len(E) + i \in 1 .. Len(T) /\ T[Len(E) + i] = C[i]
        /\ \A i \in 1 .. Len(T) : i > Len(E) => i - Len(E) \in 1 .. 5 /\ T[i] = C[i - Len(E)]
    <3>1. /\ E \o C \in Seq(AnyTask) /\ Len(E \o C) = Len(E) + Len(C)
          /\ \A i \in 1 .. Len(E) : (E \o C)[i] = E[i]
          /\ \A i \in 1 .. Len(C) :
                Len(E) + i \in 1 .. Len(E \o C) /\ (E \o C)[Len(E) + i] = C[i]
          /\ \A i \in 1 .. Len(E \o C) :
                i > Len(E) => i - Len(E) \in 1 .. Len(C) /\ (E \o C)[i] = C[i - Len(E)]
      <4>1. C \in Seq(AnyTask)
        BY <1>3
      <4> QED BY <1>2, <4>1, Concat
    <3> QED BY <1>3, <2>1, <3>1
  <2>3. ASSUME NEW i \in 1 .. Len(T), i > Len(E)
        PROVE /\ T[i].kind = "hostRoots" => i > 1 /\ T[i - 1].kind = "globalRoot"
              /\ T[i].kind = "hooks" => i > 1 /\ T[i - 1].kind = "hostRoots"
              /\ T[i] \notin SlotTasks /\ T[i] \in HookTasks
    <3>1. PICK j \in 1 .. 5 : i = Len(E) + j
      BY <1>1, <2>2, <2>3
    <3>2. /\ T[Len(E) + 1] = C[1] /\ T[Len(E) + 2] = C[2] /\ T[Len(E) + 3] = C[3]
          /\ T[Len(E) + 4] = C[4] /\ T[Len(E) + 5] = C[5]
      BY <2>2
    <3>3. j = 1 \/ j = 2 \/ j = 3 \/ j = 4 \/ j = 5
      OBVIOUS
    <3>4. (Len(E) + 3) - 1 = Len(E) + 2 /\ (Len(E) + 4) - 1 = Len(E) + 3
      BY <1>1
    <3>5. T[i] = C[j] /\ C[j] \notin SlotTasks /\ C[j] \in HookTasks
      BY <1>4, <2>2, <3>1
    <3>6. CASE j = 3
      BY <1>1, <1>3, <3>1, <3>2, <3>4, <3>5, <3>6
    <3>7. CASE j = 4
      BY <1>1, <1>3, <3>1, <3>2, <3>4, <3>5, <3>7
    <3>8. CASE j = 1 \/ j = 2 \/ j = 5
      BY <1>3, <3>5, <3>8
    <3> QED BY <3>3, <3>6, <3>7, <3>8
  <2>4. \A i \in 1 .. Len(T) : i <= Len(E) => T[i].kind \in {"ensure", "set", "clear"}
    BY <1>1, <2>2
  <2>5. T[Len(E) + 4].kind = "hooks" /\ Len(E) + 4 \in 1 .. Len(T)
    BY <1>1, <1>3, <2>2
  <2>6. In(ensureGlobalReportingPattern, T)
    BY <1>1, <1>3, <2>2 DEF In
  <2>7. \A i \in 1 .. Len(T) :
           /\ T[i].kind = "hostRoots" => i > 1 /\ T[i - 1].kind = "globalRoot"
           /\ T[i].kind = "hooks" => i > 1 /\ T[i - 1].kind = "hostRoots" /\ i > Len(E)
           /\ T[i] \in SlotTasks => i <= Len(E)
           /\ i > Len(E) => T[i] \in HookTasks
    <3> TAKE i \in 1 .. Len(T)
    <3>1. CASE i > Len(E)
      BY <2>3, <3>1
    <3>2. CASE i <= Len(E)
      BY <2>4, <3>2
    <3>3. i > Len(E) \/ i <= Len(E)
      BY <1>1
    <3> QED BY <3>1, <3>2, <3>3
  <2>8. /\ Len(T) \in Nat \ {0} /\ Len(E) <= Len(T) /\ T \in Seq(AnyTask)
        /\ \A i \in 1 .. Len(E) : T[i] = E[i]
    BY <1>1, <2>2
  <2>9. \E i \in 1 .. Len(T) : T[i].kind = "hooks"
    BY <2>5
  <2> QED BY <1>5, <2>6, <2>7, <2>8, <2>9 DEF T, E
<1>6. CASE o.command = "ensure-resource"
  <2>1. T = E
    BY <1>6 DEF Tasks, E
  <2> QED BY <1>1, <1>2, <1>6, <2>1 DEF E
<1>7. CASE o.command = "configure-queue-hooks"
  <2>1. T = C
    BY <1>7 DEF Tasks, C
  <2> HIDE DEF T
  <2>2. /\ T \in Seq(AnyTask) /\ Len(T) = 5 /\ In(ensureGlobalReportingPattern, T)
        /\ \E i \in 1 .. Len(T) : T[i].kind = "hooks"
        /\ \A i \in 1 .. Len(T) : T[i] \notin SlotTasks /\ T[i] \in HookTasks
    <3>1. 4 \in 1 .. 5 /\ 5 \in 1 .. 5
      OBVIOUS
    <3> QED BY <1>3, <1>4, <2>1, <3>1 DEF In
  <2>4. \A i \in 1 .. Len(T) :
           /\ T[i].kind = "hostRoots" => i > 1 /\ T[i - 1].kind = "globalRoot"
           /\ T[i].kind = "hooks" => i > 1 /\ T[i - 1].kind = "hostRoots"
    <3> TAKE i \in 1 .. Len(T)
    <3>1. i = 1 \/ i = 2 \/ i = 3 \/ i = 4 \/ i = 5
      BY <2>2
    <3>2. 3 - 1 = 2 /\ 4 - 1 = 3 /\ 3 > 1 /\ 4 > 1
      OBVIOUS
    <3>3. i = 3 => T[i - 1] = C[2]
      BY <2>1, <3>2
    <3>4. i = 4 => T[i - 1] = C[3]
      BY <2>1, <3>2
    <3>5. T[i].kind = "hostRoots" => i = 3
      BY <1>3, <2>1, <3>1
    <3>6. T[i].kind = "hooks" => i = 4
      BY <1>3, <2>1, <3>1
    <3>7. i = 3 => i > 1 /\ T[i - 1].kind = "globalRoot"
      BY <1>3, <3>2, <3>3
    <3>8. i = 4 => i > 1 /\ T[i - 1].kind = "hostRoots"
      BY <1>3, <3>2, <3>4
    <3> QED BY <3>5, <3>6, <3>7, <3>8
  <2> QED BY <1>7, <2>2, <2>4 DEF T
<1>8. o.command \in {"setup-qrmi-support", "ensure-resource", "configure-queue-hooks"}
  BY DEF Option
<1> QED BY <1>5, <1>6, <1>7, <1>8 DEF T, E

----------------------------------------------------------------------------
(* What a step does *)

Fields == {"state", "at", "phase", "copy", "roots", "fresh"}

\* A run that waits for an answer to Add or Modify is at a task that makes the
\* call, and what it modifies exists. The global configuration has a spool
\* directory, and no copy of it has another one.
Shape ==
    /\ opt \in Commands
    /\ DOMAIN foreign = Object /\ DOMAIN runs = Admins
    /\ db[Queue] # NoObject
    /\ db[GlobalConf] # NoObject /\ "spool" \in DOMAIN db[GlobalConf]
    /\ \A a \in Admins :
          /\ DOMAIN runs[a] = Fields
          /\ runs[a].phase # "show" => runs[a].state = "running"
          /\ runs[a].phase = "add" => TaskOf(a).kind = "ensure"
          /\ runs[a].phase = "modify" => TaskOf(a).kind \in ShowKinds /\ db[TaskOf(a).obj] # NoObject
          /\ runs[a].phase = "modify" /\ TaskOf(a).obj = GlobalConf =>
                /\ "spool" \in DOMAIN runs[a].copy
                /\ runs[a].copy["spool"] = db[GlobalConf]["spool"]

Good == TypeOK /\ Shape

\* The task a run is at.
LEMMA AtTask ==
    ASSUME Good, NEW a \in Admins
    PROVE /\ opt[a] \in Option
          /\ Tasks(opt[a]) \in Seq(AnyTask) /\ Len(Tasks(opt[a])) \in Nat \ {0}
          /\ runs[a].at \in 1 .. Len(Tasks(opt[a]))
          /\ TaskOf(a) = Tasks(opt[a])[runs[a].at]
          /\ TaskOf(a) \in AnyTask
<1>1. opt[a] \in Option
  BY SetupAssumption DEF Good, Shape
<1>2. Tasks(opt[a]) \in Seq(AnyTask) /\ Len(Tasks(opt[a])) \in Nat \ {0}
  BY <1>1, TasksType
<1>3. runs[a].at \in 1 .. Len(Tasks(opt[a]))
  BY DEF Good, TypeOK
<1> QED BY <1>1, <1>2, <1>3 DEF TaskOf

\* What a step of a leaves alone.
Alone(a) ==
    /\ opt' = opt /\ foreign' = foreign /\ raced' = raced /\ edits' = edits
    /\ faults' \in 0 .. MaxFaults
    /\ DOMAIN runs' = Admins /\ DOMAIN runs'[a] = Fields
    /\ \A b \in Admins \ {a} : runs'[b] = runs[b]

\* The task is behind the run.
Passes(a) ==
    /\ runs'[a].phase = "show" /\ runs'[a].copy = NoObject /\ runs'[a].fresh = runs[a].fresh
    /\ \/ /\ runs[a].at = Len(Tasks(opt[a]))
          /\ runs'[a].state = "done" /\ runs'[a].at = runs[a].at /\ runs'[a].roots = {}
       \/ /\ runs[a].at < Len(Tasks(opt[a]))
          /\ runs'[a].state = "running" /\ runs'[a].at = runs[a].at + 1

\* The run ends with an error.
Breaks(a) ==
    /\ runs'[a].phase = "show" /\ runs'[a].copy = NoObject /\ runs'[a].fresh = runs[a].fresh
    /\ runs'[a].state = "failed" /\ runs'[a].at = runs[a].at /\ runs'[a].roots = {}

\* The spool roots it has found go with the run.
Carries(a) == runs'[a].state = "running" => runs'[a].roots = runs[a].roots

Begins(a) ==
    /\ Alone(a) /\ db' = db /\ fresh' = fresh
    /\ runs'[a].state = "running" /\ runs'[a].at = 1 /\ runs'[a].phase = "show"
    /\ runs'[a].copy = NoObject /\ runs'[a].roots = {} /\ runs'[a].fresh = TRUE

Skips(a) ==
    /\ Alone(a) /\ db' = db /\ fresh' = fresh
    /\ Calls(a, ShowKinds) /\ db[TaskOf(a).obj] # NoObject
    /\ Satisfied(TaskOf(a), db[TaskOf(a).obj])
    /\ Passes(a) /\ Carries(a)

Collects(a) ==
    /\ Alone(a) /\ db' = db /\ fresh' = fresh
    /\ Calls(a, {"options", "globalRoot", "hostRoots"})
    /\ Passes(a)
    /\ runs'[a].state = "running" =>
          /\ TaskOf(a).kind = "options" => runs'[a].roots = runs[a].roots
          /\ TaskOf(a).kind = "globalRoot" =>
                \/ runs'[a].roots = {db[GlobalConf]["spool"]}
                \/ GlobalShowFails /\ runs'[a].roots = runs[a].roots
          /\ TaskOf(a).kind = "hostRoots" => runs'[a].roots = runs[a].roots \cup Overrides

Copies(a) ==
    /\ Alone(a) /\ db' = db /\ fresh' = fresh
    /\ Calls(a, ShowKinds) /\ db[TaskOf(a).obj] # NoObject
    /\ ~Satisfied(TaskOf(a), db[TaskOf(a).obj])
    /\ runs'[a].phase = "modify" /\ runs'[a].copy = db[TaskOf(a).obj]
    /\ runs'[a].state = "running" /\ runs'[a].at = runs[a].at
    /\ runs'[a].roots = runs[a].roots /\ runs'[a].fresh = runs[a].fresh

Asks(a) ==
    /\ Alone(a) /\ db' = db /\ fresh' = fresh
    /\ Calls(a, ShowKinds) /\ TaskOf(a).kind = "ensure"
    /\ runs'[a].phase = "add" /\ runs'[a].copy = NoObject
    /\ runs'[a].state = "running" /\ runs'[a].at = runs[a].at
    /\ runs'[a].roots = runs[a].roots /\ runs'[a].fresh = runs[a].fresh

Adds(a) ==
    /\ Alone(a) /\ fresh' = fresh
    /\ At(a, "add") /\ db[TaskOf(a).obj] = NoObject
    /\ db' = [db EXCEPT ![TaskOf(a).obj] = Put(<<>>, TaskOf(a).key, TaskOf(a).val)]
    /\ (Passes(a) /\ Carries(a)) \/ Breaks(a)

Overwrites(a) ==
    /\ Alone(a)
    /\ At(a, "modify")
    /\ Writes(a)
    /\ (Passes(a) /\ Carries(a)) \/ Breaks(a)

GivesUp(a) ==
    /\ Alone(a) /\ db' = db /\ fresh' = fresh
    /\ runs[a].state = "running"
    /\ Breaks(a)

\* How a run gets past its task.
LEMMA AdvanceForm ==
    ASSUME Good, NEW a \in Admins, NEW r, DOMAIN r = Fields, r.at = runs[a].at,
           r.state = "running", r.fresh = runs[a].fresh,
           runs' = [runs EXCEPT ![a] = Advance(a, r)]
    PROVE /\ DOMAIN runs' = Admins /\ DOMAIN runs'[a] = Fields
          /\ \A b \in Admins \ {a} : runs'[b] = runs[b]
          /\ Passes(a)
          /\ runs'[a].state = "running" => runs'[a].roots = r.roots
<1>1. DOMAIN runs = Admins
  BY DEF Good, Shape
<1>2. /\ runs'[a] = Advance(a, r) /\ DOMAIN runs' = Admins
      /\ \A b \in Admins \ {a} : runs'[b] = runs[b]
  BY <1>1
<1>3. Len(Tasks(opt[a])) \in Nat /\ runs[a].at \in 1 .. Len(Tasks(opt[a]))
  BY AtTask
<1>4. CASE r.at = Len(Tasks(opt[a]))
  <2>1. runs'[a] = [r EXCEPT !.state = "done", !.phase = "show", !.copy = NoObject, !.roots = {}]
    BY <1>2, <1>4 DEF Advance
  <2> QED BY <1>2, <1>4, <2>1 DEF Passes, Fields
<1>5. CASE r.at # Len(Tasks(opt[a]))
  <2>1. runs'[a] = [r EXCEPT !.at = @ + 1, !.phase = "show", !.copy = NoObject]
    BY <1>2, <1>5 DEF Advance
  <2> QED BY <1>2, <1>3, <1>5, <2>1 DEF Passes, Fields
<1> QED BY <1>4, <1>5

\* A failing run.
LEMMA FailForm ==
    ASSUME Good, NEW a \in Admins, Fails(a)
    PROVE /\ DOMAIN runs' = Admins /\ DOMAIN runs'[a] = Fields
          /\ \A b \in Admins \ {a} : runs'[b] = runs[b]
          /\ Breaks(a)
<1>1. DOMAIN runs = Admins /\ DOMAIN runs[a] = Fields
  BY DEF Good, Shape
<1>2. /\ runs'[a] = [runs[a] EXCEPT !.state = "failed", !.phase = "show",
                                    !.copy = NoObject, !.roots = {}]
      /\ DOMAIN runs' = Admins /\ \A b \in Admins \ {a} : runs'[b] = runs[b]
  BY <1>1 DEF Fails
<1> QED BY <1>1, <1>2 DEF Breaks, Fields

\* Every step of an administrator is one of these.
LEMMA StepForm ==
    ASSUME Good, NEW a \in Admins, Start(a) \/ Step(a)
    PROVE \/ Begins(a) \/ Skips(a) \/ Collects(a) \/ Copies(a) \/ Asks(a)
          \/ Adds(a) \/ Overwrites(a) \/ GivesUp(a)
<1>1. DOMAIN runs = Admins /\ DOMAIN runs[a] = Fields
  BY DEF Good, Shape
<1>2. faults \in 0 .. MaxFaults /\ MaxFaults \in Nat
  BY SetupAssumption DEF Good, TypeOK
<1>3. Fault \/ UNCHANGED faults => faults' \in 0 .. MaxFaults
  BY <1>2 DEF Fault
<1>4. TaskOf(a) \in AnyTask
  BY AtTask
<1>5. CASE Start(a)
  BY <1>1, <1>3, <1>5 DEF Start, Begins, Alone, Fields
<1>6. CASE ShowObject(a)
  <2>1. CASE Satisfied(TaskOf(a), db[TaskOf(a).obj])
    BY <1>1, <1>3, <1>6, <2>1, AdvanceForm
       DEF ShowObject, Advances, Skips, Alone, Carries, Calls, At
  <2>2. CASE ~Satisfied(TaskOf(a), db[TaskOf(a).obj])
    <3>1. runs' = [runs EXCEPT ![a] = [@ EXCEPT !.phase = "modify", !.copy = db[TaskOf(a).obj]]]
      BY <1>6, <2>2 DEF ShowObject
    <3> QED BY <1>1, <1>3, <1>6, <2>2, <3>1 DEF ShowObject, Copies, Alone, Calls, At, Fields
  <2> QED BY <2>1, <2>2
<1>7. CASE ShowFails(a)
  <2>1. CASE TaskOf(a).kind = "ensure"
    <3>1. runs[a].copy = NoObject
      BY <1>7 DEF ShowFails, Calls, At, Good, TypeOK
    <3> QED BY <1>1, <1>3, <1>7, <2>1, <3>1 DEF ShowFails, Asks, Alone, Calls, At, Fields
  <2>2. CASE TaskOf(a).kind # "ensure"
    BY <1>1, <1>3, <1>7, <2>2, FailForm DEF ShowFails, GivesUp, Alone, Calls, At
  <2> QED BY <2>1, <2>2
<1>c. ASSUME At(a, "add"), Creates(a)
      PROVE /\ db[TaskOf(a).obj] = NoObject
            /\ db' = [db EXCEPT ![TaskOf(a).obj] = Put(<<>>, TaskOf(a).key, TaskOf(a).val)]
  <2>1. TaskOf(a).kind = "ensure"
    BY <1>c DEF At, Good, Shape
  <2>2. Changed(TaskOf(a), <<>>, {}) = Put(<<>>, TaskOf(a).key, TaskOf(a).val)
    BY <2>1 DEF Changed
  <2> QED BY <1>c, <2>2 DEF Creates
<1>8. CASE AddObject(a)
  <2>1. CASE Creates(a) /\ Advances(a)
    BY <1>1, <1>3, <1>8, <1>c, <2>1, AdvanceForm
       DEF AddObject, Advances, Adds, Alone, Carries, At
  <2>2. CASE db' = db /\ Fails(a)
    BY <1>1, <1>3, <1>8, <2>2, FailForm DEF AddObject, GivesUp, Alone, At
  <2> QED BY <1>8, <2>1, <2>2 DEF AddObject
<1>9. CASE ModifyObject(a)
  BY <1>1, <1>3, <1>9, AdvanceForm DEF ModifyObject, Advances, Overwrites, Alone, Carries, At
<1>10. CASE WriteFails(a)
  <2>1. Alone(a) /\ Breaks(a) /\ runs[a].state = "running"
    BY <1>1, <1>3, <1>10, FailForm DEF WriteFails, Alone, At
  <2>2. CASE At(a, "add") /\ Creates(a) /\ fresh' = fresh
    BY <1>c, <2>1, <2>2 DEF Adds
  <2>3. CASE At(a, "modify") /\ Writes(a)
    BY <2>1, <2>3 DEF Overwrites
  <2>4. CASE db' = db /\ fresh' = fresh
    BY <2>1, <2>4 DEF GivesUp
  <2> QED BY <1>10, <2>2, <2>3, <2>4 DEF WriteFails
<1>11. CASE queueHookOptions(a)
  BY <1>1, <1>3, <1>11, AdvanceForm DEF queueHookOptions, Advances, Collects, Alone, Calls, At
<1>12. CASE ShowGlobalRoot(a)
  <2>1. CASE Advances(a) /\ GlobalShowFails
    BY <1>1, <1>3, <1>12, <2>1, AdvanceForm
       DEF ShowGlobalRoot, Advances, Collects, Alone, Calls, At
  <2>2. CASE runs' = [runs EXCEPT ![a] = Advance(a, [@ EXCEPT !.roots = {db[GlobalConf]["spool"]}])]
    <3> DEFINE r == [runs[a] EXCEPT !.roots = {db[GlobalConf]["spool"]}]
    <3>1. /\ DOMAIN r = Fields /\ r.at = runs[a].at /\ r.state = runs[a].state
          /\ r.fresh = runs[a].fresh /\ r.roots = {db[GlobalConf]["spool"]}
      BY <1>1 DEF Fields
    <3>2. runs' = [runs EXCEPT ![a] = Advance(a, r)]
      BY <2>2
    <3> HIDE DEF r
    <3>3. runs[a].state = "running" /\ Calls(a, {"globalRoot"}) /\ TaskOf(a).kind = "globalRoot"
      BY <1>12 DEF ShowGlobalRoot, Calls, At
    <3>4. /\ DOMAIN runs' = Admins /\ DOMAIN runs'[a] = Fields
          /\ \A b \in Admins \ {a} : runs'[b] = runs[b]
          /\ Passes(a)
          /\ runs'[a].state = "running" => runs'[a].roots = r.roots
      BY <3>1, <3>2, <3>3, AdvanceForm
    <3>5. Alone(a) /\ db' = db /\ fresh' = fresh
      BY <1>3, <1>12, <3>4 DEF ShowGlobalRoot, Alone
    <3> QED BY <3>1, <3>3, <3>4, <3>5 DEF Collects, Calls
  <2> QED BY <1>12, <2>1, <2>2 DEF ShowGlobalRoot
<1>13. CASE ShowHostRoots(a)
  <2> DEFINE r == [runs[a] EXCEPT !.roots = runs[a].roots \cup Overrides]
  <2>1. /\ DOMAIN r = Fields /\ r.at = runs[a].at /\ r.state = runs[a].state
        /\ r.fresh = runs[a].fresh /\ r.roots = runs[a].roots \cup Overrides
    BY <1>1 DEF Fields
  <2>2. runs' = [runs EXCEPT ![a] = Advance(a, r)]
    BY <1>13 DEF ShowHostRoots
  <2> HIDE DEF r
  <2>3. runs[a].state = "running" /\ Calls(a, {"hostRoots"}) /\ TaskOf(a).kind = "hostRoots"
    BY <1>13 DEF ShowHostRoots, Calls, At
  <2>4. /\ DOMAIN runs' = Admins /\ DOMAIN runs'[a] = Fields
        /\ \A b \in Admins \ {a} : runs'[b] = runs[b]
        /\ Passes(a)
        /\ runs'[a].state = "running" => runs'[a].roots = r.roots
    BY <2>1, <2>2, <2>3, AdvanceForm
  <2>5. Alone(a) /\ db' = db /\ fresh' = fresh
    BY <1>3, <1>13, <2>4 DEF ShowHostRoots, Alone
  <2> QED BY <2>1, <2>3, <2>4, <2>5 DEF Collects, Calls
<1>14. CASE CallFails(a)
  BY <1>1, <1>3, <1>14, FailForm DEF CallFails, GivesUp, Alone, Calls, At
<1> QED BY <1>5, <1>6, <1>7, <1>8, <1>9, <1>10, <1>11, <1>12, <1>13, <1>14 DEF Step

\* An attribute is put into an object, and taken out of it.
LEMMA PutForm ==
    ASSUME NEW c, IsMap(c), NEW k \in Attribute, NEW v \in ValueOf(k)
    PROVE /\ IsMap(Put(c, k, v)) /\ Put(c, k, v) # NoObject
          /\ k \in DOMAIN Put(c, k, v) /\ Put(c, k, v)[k] = v
          /\ \A j : j # k => /\ j \in DOMAIN Put(c, k, v) <=> j \in DOMAIN c
                             /\ j \in DOMAIN c => Put(c, k, v)[j] = c[j]
<1> DEFINE P == Put(c, k, v)
           D == DOMAIN c \cup {k}
<1>1. DOMAIN P = D /\ D \subseteq Attribute
  BY DEF Put, IsMap
<1>2. \A j \in D : P[j] = IF j = k THEN v ELSE c[j]
  BY DEF Put
<1>3. \A j \in D : P[j] \in ValueOf(j)
  BY <1>2 DEF IsMap
<1>4. \A j \in D : P[j] \in Nat \cup Dirs \cup (SUBSET Dirs) \cup Text
  BY <1>1, <1>3 DEF ValueOf
<1>5. P \in [D -> Nat \cup Dirs \cup (SUBSET Dirs) \cup Text]
  BY <1>4 DEF Put
<1>6. P # NoObject
  BY <1>1, <1>5, SetupAssumption
<1> HIDE DEF P
<1> QED BY <1>1, <1>2, <1>3, <1>6 DEF IsMap, P

\* Drop removes one attribute and leaves the others.
LEMMA DropForm ==
    ASSUME NEW c, IsMap(c), NEW k \in Attribute
    PROVE /\ IsMap(Drop(c, k)) /\ Drop(c, k) # NoObject
          /\ k \notin DOMAIN Drop(c, k)
          /\ \A j : j # k => /\ j \in DOMAIN Drop(c, k) <=> j \in DOMAIN c
                             /\ j \in DOMAIN c => Drop(c, k)[j] = c[j]
<1> DEFINE P == Drop(c, k)
           D == DOMAIN c \ {k}
<1>1. DOMAIN P = D /\ D \subseteq Attribute
  BY DEF Drop, IsMap
<1>2. \A j \in D : P[j] = c[j]
  BY DEF Drop
<1>3. \A j \in D : P[j] \in ValueOf(j)
  BY <1>2 DEF IsMap
<1>4. \A j \in D : P[j] \in Nat \cup Dirs \cup (SUBSET Dirs) \cup Text
  BY <1>1, <1>3 DEF ValueOf
<1>5. P \in [D -> Nat \cup Dirs \cup (SUBSET Dirs) \cup Text]
  BY <1>4 DEF Drop
<1>6. P # NoObject
  BY <1>1, <1>5, SetupAssumption
<1> HIDE DEF P
<1> QED BY <1>1, <1>2, <1>3, <1>6 DEF IsMap, P

\* The object a task writes back: its own attribute is as the task wants it, and
\* the others are those of the copy.
LEMMA ChangedForm ==
    ASSUME NEW t \in AnyTask, t.kind \in ShowKinds, NEW c, IsMap(c), NEW roots \in SUBSET Dirs
    PROVE LET d == Changed(t, c, roots) IN
          /\ IsMap(d) /\ d # NoObject
          /\ t.kind = "clear" => t.key \notin DOMAIN d
          /\ t.kind # "clear" => t.key \in DOMAIN d
          /\ t.kind \notin {"clear", "hooks"} => d[t.key] = t.val
          /\ t.kind = "hooks" => d["hooks"] = roots
          /\ \A j : j # t.key => /\ j \in DOMAIN d <=> j \in DOMAIN c
                                 /\ j \in DOMAIN c => d[j] = c[j]
<1>1. /\ t.key \in Attribute
      /\ t.kind \notin {"clear", "hooks"} => t.val \in ValueOf(t.key)
      /\ t.kind = "hooks" => t.key = "hooks"
  BY TaskFacts
<1>2. CASE t.kind = "hooks"
  <2>1. roots \in ValueOf("hooks") /\ "hooks" \in Attribute
    BY DEF ValueOf, Attribute
  <2>2. Changed(t, c, roots) = Put(c, "hooks", roots)
    BY <1>2 DEF Changed
  <2> QED BY <1>1, <1>2, <2>1, <2>2, PutForm
<1>3. CASE t.kind = "clear"
  <2>1. Changed(t, c, roots) = Drop(c, t.key)
    BY <1>3 DEF Changed
  <2> QED BY <1>1, <1>3, <2>1, DropForm
<1>4. CASE t.kind \notin {"clear", "hooks"}
  <2>1. Changed(t, c, roots) = Put(c, t.key, t.val)
    BY <1>4 DEF Changed
  <2> QED BY <1>1, <1>4, <2>1, PutForm
<1> QED BY <1>2, <1>3, <1>4

\* An administrator's step writes at most the object of its task: it adds it, or
\* it overwrites it with a copy that is changed at the task's attribute alone.
LEMMA WriteForm ==
    ASSUME Good, NEW a \in Admins, Writes(a), At(a, "modify")
    PROVE LET t == TaskOf(a)
              d == Changed(t, runs[a].copy, runs[a].roots) IN
          /\ t \in AnyTask /\ t.kind \in ShowKinds /\ t.obj \in Object
          /\ db[t.obj] # NoObject
          /\ DOMAIN db' = Object /\ db'[t.obj] = d
          /\ \A o \in Object \ {t.obj} : db'[o] = db[o]
          /\ IsMap(d) /\ d # NoObject
          /\ t.kind = "clear" => t.key \notin DOMAIN d
          /\ t.kind # "clear" => t.key \in DOMAIN d
          /\ t.kind \notin {"clear", "hooks"} => d[t.key] = t.val
          /\ t.kind = "hooks" => d["hooks"] = runs[a].roots
          /\ \A j : j # t.key => /\ j \in DOMAIN d <=> j \in DOMAIN runs[a].copy
                                 /\ j \in DOMAIN runs[a].copy => d[j] = runs[a].copy[j]
<1> DEFINE t == TaskOf(a)
<1>1. t \in AnyTask /\ t.obj \in Object
  BY AtTask, TaskFacts
<1>2. t.kind \in ShowKinds /\ db[t.obj] # NoObject
  BY DEF Good, Shape, At
<1>3. IsMap(runs[a].copy) /\ runs[a].roots \in SUBSET Dirs /\ DOMAIN db = Object
  BY DEF Good, TypeOK, At
<1>4. db' = [db EXCEPT ![t.obj] = Changed(t, runs[a].copy, runs[a].roots)]
  BY DEF Writes
<1>5. /\ DOMAIN db' = Object /\ db'[t.obj] = Changed(t, runs[a].copy, runs[a].roots)
      /\ \A o \in Object \ {t.obj} : db'[o] = db[o]
  BY <1>1, <1>3, <1>4
<1> HIDE DEF t
<1>6. LET d == Changed(t, runs[a].copy, runs[a].roots) IN
      /\ IsMap(d) /\ d # NoObject
      /\ t.kind = "clear" => t.key \notin DOMAIN d
      /\ t.kind # "clear" => t.key \in DOMAIN d
      /\ t.kind \notin {"clear", "hooks"} => d[t.key] = t.val
      /\ t.kind = "hooks" => d["hooks"] = runs[a].roots
      /\ \A j : j # t.key => /\ j \in DOMAIN d <=> j \in DOMAIN runs[a].copy
                             /\ j \in DOMAIN runs[a].copy => d[j] = runs[a].copy[j]
  BY <1>1, <1>2, <1>3, ChangedForm
<1> QED BY <1>1, <1>2, <1>5, <1>6 DEF t

\* An Add creates the missing object with the task's attribute alone.
LEMMA AddForm ==
    ASSUME Good, NEW a \in Admins, Adds(a)
    PROVE LET t == TaskOf(a) IN
          /\ t \in AnyTask /\ t.kind = "ensure" /\ t.obj \in Object
          /\ db[t.obj] = NoObject
          /\ DOMAIN db' = Object
          /\ \A o \in Object \ {t.obj} : db'[o] = db[o]
          /\ IsMap(db'[t.obj]) /\ db'[t.obj] # NoObject
          /\ DOMAIN db'[t.obj] = {t.key} /\ db'[t.obj][t.key] = t.val
<1> DEFINE t == TaskOf(a)
           d == Put(<<>>, t.key, t.val)
<1>1. t \in AnyTask /\ t.obj \in Object
  BY AtTask, TaskFacts
<1>2. t.kind = "ensure" /\ db[t.obj] = NoObject
  BY DEF Good, Shape, At, Adds
<1>3. t.key \in Attribute /\ t.val \in ValueOf(t.key)
  BY <1>1, <1>2, TaskFacts DEF ShowKinds
<1>4. IsMap(<<>>)
  BY DEF IsMap
<1>5. IsMap(d) /\ d # NoObject
  BY <1>3, <1>4, PutForm
<1>6. DOMAIN d = {t.key} /\ d[t.key] = t.val
  BY DEF Put
<1>7. DOMAIN db = Object /\ db' = [db EXCEPT ![t.obj] = d]
  BY DEF Good, TypeOK, Adds
<1>8. DOMAIN db' = Object /\ db'[t.obj] = d /\ \A o \in Object \ {t.obj} : db'[o] = db[o]
  BY <1>1, <1>7
<1> QED BY <1>1, <1>2, <1>5, <1>6, <1>8

\* An edit of the operator: object o gets one attribute more, or a new value of it.
Edits(o, key) ==
    /\ opt' = opt /\ faults' = faults /\ edits' \in 0 .. MaxEdits /\ edits' = edits + 1
    /\ db[o] # NoObject
    /\ DOMAIN db' = Object /\ \A p \in Object \ {o} : db'[p] = db[p]
    /\ IsMap(db'[o]) /\ db'[o] # NoObject /\ key \in DOMAIN db'[o]
    /\ \A j : j # key => /\ j \in DOMAIN db'[o] <=> j \in DOMAIN db[o]
                         /\ j \in DOMAIN db[o] => db'[o][j] = db[o][j]
    /\ raced' = Races(o)

\* The operator's edit of an object is an Edits step of "other".
LEMMA EditForm ==
    ASSUME Good, NEW o \in Object, EditObject(o)
    PROVE Edits(o, "other") /\ db'[o]["other"] = edits' /\ runs' = runs /\ fresh' = fresh
<1>1. edits \in 0 .. MaxEdits /\ MaxEdits \in Nat
  BY SetupAssumption DEF Good, TypeOK
<1>2. edits' = edits + 1 /\ edits' \in 0 .. MaxEdits
  BY <1>1 DEF EditObject
<1>3. "other" \in Attribute /\ edits + 1 \in ValueOf("other")
  BY <1>1 DEF Attribute, ValueOf
<1>4. IsMap(db[o]) /\ DOMAIN db = Object /\ db[o] # NoObject
  BY DEF Good, TypeOK, EditObject
<1>5. /\ DOMAIN db' = Object /\ db'[o] = Put(db[o], "other", edits + 1)
      /\ \A p \in Object \ {o} : db'[p] = db[p]
  BY <1>4 DEF EditObject
<1>6. LET d == Put(db[o], "other", edits + 1) IN
      /\ IsMap(d) /\ d # NoObject /\ "other" \in DOMAIN d /\ d["other"] = edits + 1
      /\ \A j : j # "other" => /\ j \in DOMAIN d <=> j \in DOMAIN db[o]
                               /\ j \in DOMAIN db[o] => d[j] = db[o][j]
  BY <1>3, <1>4, PutForm
<1>7. opt' = opt /\ faults' = faults /\ runs' = runs /\ fresh' = fresh /\ raced' = Races(o)
  BY DEF EditObject
<1> QED BY <1>2, <1>4, <1>5, <1>6, <1>7 DEF Edits

\* A new spool directory of a host is an Edits step that makes every run stale.
LEMMA OverrideForm ==
    ASSUME Good, NEW h \in Hosts, NEW d \in Dirs, OverrideSpool(h, d)
    PROVE /\ Edits(HostConf(h), "spool") /\ db'[HostConf(h)]["spool"] = d
          /\ foreign' = foreign /\ fresh' = FALSE
          /\ DOMAIN runs' = Admins
          /\ \A a \in Admins :
                /\ DOMAIN runs'[a] = Fields /\ runs'[a].fresh = FALSE
                /\ runs'[a].state = runs[a].state /\ runs'[a].at = runs[a].at
                /\ runs'[a].phase = runs[a].phase /\ runs'[a].copy = runs[a].copy
                /\ runs'[a].roots = runs[a].roots
<1> DEFINE o == HostConf(h)
<1>1. edits \in 0 .. MaxEdits /\ MaxEdits \in Nat
  BY SetupAssumption DEF Good, TypeOK
<1>2. edits' = edits + 1 /\ edits' \in 0 .. MaxEdits
  BY <1>1 DEF OverrideSpool
<1>3. "spool" \in Attribute /\ d \in ValueOf("spool")
  BY DEF Attribute, ValueOf
<1>4. o \in Object /\ IsMap(db[o]) /\ DOMAIN db = Object /\ db[o] # NoObject
  BY Objects DEF Good, TypeOK, OverrideSpool
<1>5. /\ DOMAIN db' = Object /\ db'[o] = Put(db[o], "spool", d)
      /\ \A p \in Object \ {o} : db'[p] = db[p]
  BY <1>4 DEF OverrideSpool
<1>6. LET e == Put(db[o], "spool", d) IN
      /\ IsMap(e) /\ e # NoObject /\ "spool" \in DOMAIN e /\ e["spool"] = d
      /\ \A j : j # "spool" => /\ j \in DOMAIN e <=> j \in DOMAIN db[o]
                               /\ j \in DOMAIN db[o] => e[j] = db[o][j]
  BY <1>3, <1>4, PutForm
<1>7. /\ opt' = opt /\ faults' = faults /\ foreign' = foreign /\ fresh' = FALSE
      /\ raced' = Races(o)
  BY DEF OverrideSpool
<1>8. /\ DOMAIN runs' = Admins
      /\ \A a \in Admins :
            /\ DOMAIN runs'[a] = Fields /\ runs'[a].fresh = FALSE
            /\ runs'[a].state = runs[a].state /\ runs'[a].at = runs[a].at
            /\ runs'[a].phase = runs[a].phase /\ runs'[a].copy = runs[a].copy
            /\ runs'[a].roots = runs[a].roots
  BY DEF OverrideSpool, Good, Shape, Fields
<1> QED BY <1>2, <1>4, <1>5, <1>6, <1>7, <1>8 DEF Edits

----------------------------------------------------------------------------
(* Types *)

\* What TypeOK and Shape say of one run.
RunOK(a) ==
    /\ runs[a].state \in {"idle", "running", "done", "failed"}
    /\ runs[a].at \in 1 .. Len(Tasks(opt[a]))
    /\ runs[a].phase \in {"show", "add", "modify"}
    /\ runs[a].roots \subseteq Dirs
    /\ runs[a].fresh \in BOOLEAN
    /\ IF runs[a].phase = "modify" THEN IsMap(runs[a].copy) ELSE runs[a].copy = NoObject
    /\ DOMAIN runs[a] = Fields
    /\ runs[a].phase # "show" => runs[a].state = "running"
    /\ runs[a].phase = "add" => TaskOf(a).kind = "ensure"
    /\ runs[a].phase = "modify" => TaskOf(a).kind \in ShowKinds /\ db[TaskOf(a).obj] # NoObject

\* What they say of qmaster's objects; and an object is never deleted.
DbOK ==
    /\ DOMAIN db' = Object
    /\ \A o \in Object : /\ db'[o] = NoObject \/ IsMap(db'[o])
                         /\ db[o] # NoObject => db'[o] # NoObject
    /\ fresh' \in BOOLEAN

\* No step of an administrator deletes or corrupts an object.
LEMMA DbStep ==
    ASSUME Good, NEW a \in Admins,
           \/ Begins(a) \/ Skips(a) \/ Collects(a) \/ Copies(a) \/ Asks(a)
           \/ Adds(a) \/ Overwrites(a) \/ GivesUp(a)
    PROVE DbOK
<1>1. /\ DOMAIN db = Object /\ fresh \in BOOLEAN /\ runs[a].fresh \in BOOLEAN
      /\ \A o \in Object : db[o] = NoObject \/ IsMap(db[o])
  BY DEF Good, TypeOK
<1>2. CASE db' = db /\ fresh' = fresh
  BY <1>1, <1>2 DEF DbOK
<1>3. CASE Adds(a)
  <2>1. fresh' = fresh
    BY <1>3 DEF Adds
  <2> QED BY <1>1, <1>3, <2>1, AddForm DEF DbOK
<1>4. CASE Overwrites(a)
  <2>1. Writes(a) /\ At(a, "modify")
    BY <1>4 DEF Overwrites
  <2>2. fresh' \in BOOLEAN
    BY <1>1, <2>1 DEF Writes
  <2> QED BY <1>1, <2>1, <2>2, WriteForm DEF DbOK
<1> QED BY <1>2, <1>3, <1>4 DEF Begins, Skips, Collects, Copies, Asks, GivesUp

\* The other attributes of the queue aside, what the spool directories can be.
LEMMA SpoolTypes ==
    ASSUME Good
    PROVE Overrides \subseteq Dirs /\ db[GlobalConf]["spool"] \in Dirs
<1>0. ValueOf("spool") = Dirs
  BY DEF ValueOf
<1>1. \A h \in Hosts : (db[HostConf(h)] # NoObject /\ "spool" \in DOMAIN db[HostConf(h)]) =>
          db[HostConf(h)]["spool"] \in Dirs
  BY <1>0, Objects DEF Good, TypeOK, IsMap
<1>2. db[GlobalConf]["spool"] \in Dirs
  BY <1>0, Objects DEF Good, TypeOK, IsMap, Shape
<1> QED BY <1>1, <1>2 DEF Overrides

\* Every step of an administrator leaves its own run well formed.
LEMMA RunStep ==
    ASSUME Good, NEW a \in Admins,
           \/ Begins(a) \/ Skips(a) \/ Collects(a) \/ Copies(a) \/ Asks(a)
           \/ Adds(a) \/ Overwrites(a) \/ GivesUp(a)
    PROVE RunOK(a)'
<1>1. opt' = opt /\ DOMAIN runs'[a] = Fields
  BY DEF Begins, Skips, Collects, Copies, Asks, Adds, Overwrites, GivesUp, Alone
<1>2. RunOK(a)
  BY DEF RunOK, Good, TypeOK, Shape
<1>3. Len(Tasks(opt[a])) \in Nat \ {0}
  BY AtTask
<1>4. CASE Begins(a)
  <2>1. /\ runs'[a].state = "running" /\ runs'[a].at = 1 /\ runs'[a].phase = "show"
        /\ runs'[a].copy = NoObject /\ runs'[a].roots = {} /\ runs'[a].fresh = TRUE
    BY <1>4 DEF Begins
  <2>2. runs'[a].at \in 1 .. Len(Tasks(opt[a]))
    BY <1>3, <2>1
  <2>3. runs'[a].fresh \in BOOLEAN /\ runs'[a].roots \subseteq Dirs
    BY <2>1
  <2> QED BY <1>1, <2>1, <2>2, <2>3 DEF RunOK
<1>5. ASSUME Passes(a), runs'[a].state = "running" => runs'[a].roots \subseteq Dirs
      PROVE RunOK(a)'
  <2>1. runs'[a].at \in 1 .. Len(Tasks(opt[a])) /\ runs'[a].state \in {"running", "done"}
    BY <1>2, <1>3, <1>5 DEF Passes, RunOK
  <2>2. runs'[a].roots \subseteq Dirs
    BY <1>5 DEF Passes
  <2> QED BY <1>1, <1>2, <1>5, <2>1, <2>2 DEF Passes, RunOK
<1>6. ASSUME Breaks(a)
      PROVE RunOK(a)'
  BY <1>1, <1>2, <1>6 DEF Breaks, RunOK
<1>7. ASSUME Passes(a), Carries(a)
      PROVE RunOK(a)'
  BY <1>2, <1>5, <1>7 DEF Carries, RunOK
<1>8. CASE Skips(a)
  BY <1>7, <1>8 DEF Skips
<1>9. CASE Adds(a) \/ Overwrites(a)
  BY <1>6, <1>7, <1>9 DEF Adds, Overwrites
<1>10. CASE GivesUp(a)
  BY <1>6, <1>10 DEF GivesUp
<1>11. CASE Collects(a)
  <2>1. runs'[a].state = "running" => runs'[a].roots \subseteq Dirs
    BY <1>2, <1>11, SpoolTypes DEF Collects, Calls, RunOK
  <2> QED BY <1>5, <1>11, <2>1 DEF Collects
<1>12. CASE Copies(a)
  <2>1. TaskOf(a).obj \in Object /\ TaskOf(a)' = TaskOf(a) /\ TaskOf(a).kind \in ShowKinds
    BY <1>1, <1>12, AtTask, TaskFacts DEF TaskOf, Copies, Calls
  <2>2. IsMap(db[TaskOf(a).obj])
    BY <1>12, <2>1 DEF Copies, Good, TypeOK
  <2> QED BY <1>1, <1>2, <1>12, <2>1, <2>2 DEF Copies, RunOK
<1>13. CASE Asks(a)
  <2>1. TaskOf(a)' = TaskOf(a)
    BY <1>1, <1>13 DEF TaskOf, Asks
  <2> QED BY <1>1, <1>2, <1>13, <2>1 DEF Asks, RunOK
<1> QED BY <1>4, <1>8, <1>9, <1>10, <1>11, <1>12, <1>13

\* The global spool directory never changes: no task and no edit writes it, and
\* no copy has another one.
LEMMA GlobalSpoolStep ==
    ASSUME Good, [Next]_vars
    PROVE /\ db'[GlobalConf] # NoObject /\ "spool" \in DOMAIN db'[GlobalConf]
          /\ db'[GlobalConf]["spool"] = db[GlobalConf]["spool"]
<1> DEFINE g == GlobalConf
<1>1. g \in Object /\ db[g] # NoObject /\ "spool" \in DOMAIN db[g]
  BY Objects DEF Good, Shape
<1>2. ASSUME NEW a \in Admins, Start(a) \/ Step(a)
      PROVE db'[g] # NoObject /\ "spool" \in DOMAIN db'[g] /\ db'[g]["spool"] = db[g]["spool"]
  <2>1. CASE db' = db
    BY <1>1, <2>1
  <2>2. CASE Adds(a)
    BY <1>1, <2>2, AddForm
  <2>3. CASE Overwrites(a)
    <3>1. Writes(a) /\ At(a, "modify")
      BY <2>3 DEF Overwrites
    <3>2. CASE TaskOf(a).obj # g
      BY <1>1, <3>1, <3>2, WriteForm
    <3>3. CASE TaskOf(a).obj = g
      <4>1. "spool" \in DOMAIN runs[a].copy /\ runs[a].copy["spool"] = db[g]["spool"]
        BY <3>1, <3>3 DEF Good, Shape, At
      <4>2. TaskOf(a).key # "spool"
        BY <3>1, WriteForm, TaskFacts
      <4> QED BY <3>1, <3>3, <4>1, <4>2, WriteForm
    <3> QED BY <3>2, <3>3
  <2> QED BY <1>2, <2>1, <2>2, <2>3, StepForm
          DEF Begins, Skips, Collects, Copies, Asks, GivesUp
<1>3. ASSUME NEW o \in Object, EditObject(o)
      PROVE db'[g] # NoObject /\ "spool" \in DOMAIN db'[g] /\ db'[g]["spool"] = db[g]["spool"]
  BY <1>1, <1>3, EditForm DEF Edits
<1>4. ASSUME NEW h \in Hosts, NEW d \in Dirs, OverrideSpool(h, d)
      PROVE db'[g] # NoObject /\ "spool" \in DOMAIN db'[g] /\ db'[g]["spool"] = db[g]["spool"]
  <2>1. g # HostConf(h)
    BY Objects
  <2> QED BY <1>1, <1>4, <2>1, OverrideForm DEF Edits
<1>5. CASE UNCHANGED vars
  BY <1>1, <1>5 DEF vars
<1> QED BY <1>2, <1>3, <1>4, <1>5 DEF Next

\* Good is inductive.
LEMMA GoodInit ==
    ASSUME Init
    PROVE Good
<1>1. /\ opt \in Commands /\ db \in Clusters
      /\ DOMAIN db = Object /\ \A o \in Object : db[o] = NoObject \/ IsMap(db[o])
      /\ db[GlobalConf] # NoObject /\ "spool" \in DOMAIN db[GlobalConf] /\ db[Queue] # NoObject
  BY SetupAssumption DEF Init
<1>2. \A a \in Admins : Len(Tasks(opt[a])) \in Nat \ {0}
  BY <1>1, SetupAssumption, TasksType
<1>3. \A a \in Admins : 1 \in 1 .. Len(Tasks(opt[a]))
  BY <1>2
<1>4. /\ DOMAIN runs = Admins
      /\ \A a \in Admins :
            /\ DOMAIN runs[a] = Fields /\ runs[a].state = "idle" /\ runs[a].at = 1
            /\ runs[a].phase = "show" /\ runs[a].copy = NoObject /\ runs[a].roots = {}
            /\ runs[a].fresh = FALSE
  BY DEF Init, Fields
<1>5. TypeOK
  <2>1. 0 \in 0 .. MaxFaults /\ 0 \in 0 .. MaxEdits
    BY SetupAssumption
  <2>2. \A a \in Admins :
          /\ runs[a].state \in {"idle", "running", "done", "failed"}
          /\ runs[a].at \in 1 .. Len(Tasks(opt[a]))
          /\ runs[a].phase \in {"show", "add", "modify"}
          /\ runs[a].roots \subseteq Dirs
          /\ runs[a].fresh \in BOOLEAN
          /\ IF runs[a].phase = "modify" THEN IsMap(runs[a].copy) ELSE runs[a].copy = NoObject
    BY <1>3, <1>4
  <2>3. fresh \in BOOLEAN /\ raced \subseteq Object /\ faults = 0 /\ edits = 0
    BY DEF Init
  <2> QED BY <1>1, <2>1, <2>2, <2>3 DEF TypeOK
<1>6. Shape
  BY <1>1, <1>4 DEF Shape, Init
<1> QED BY <1>5, <1>6 DEF Good

\* Good is inductive.
LEMMA GoodStep ==
    ASSUME Good, [Next]_vars
    PROVE Good'
<1>1. /\ \A a \in Admins : RunOK(a)
      /\ opt \in Commands /\ DOMAIN foreign = Object /\ DOMAIN runs = Admins
      /\ DOMAIN db = Object /\ db[Queue] # NoObject /\ raced \subseteq Object
      /\ \A o \in Object : db[o] = NoObject \/ IsMap(db[o])
      /\ faults \in 0 .. MaxFaults /\ edits \in 0 .. MaxEdits /\ fresh \in BOOLEAN
  BY DEF Good, TypeOK, Shape, RunOK
<1>2. /\ db'[GlobalConf] # NoObject /\ "spool" \in DOMAIN db'[GlobalConf]
      /\ db'[GlobalConf]["spool"] = db[GlobalConf]["spool"]
  BY GlobalSpoolStep
<1> DEFINE Holds(a) == runs[a].phase = "modify" /\ TaskOf(a).obj = GlobalConf =>
                          /\ "spool" \in DOMAIN runs[a].copy
                          /\ runs[a].copy["spool"] = db[GlobalConf]["spool"]
<1>3. \A a \in Admins : Holds(a)
  BY DEF Good, Shape
<1>4. SUFFICES /\ \A a \in Admins : RunOK(a)' /\ Holds(a)'
               /\ DbOK /\ opt' = opt /\ DOMAIN foreign' = Object /\ DOMAIN runs' = Admins
               /\ raced' \subseteq Object
               /\ faults' \in 0 .. MaxFaults /\ edits' \in 0 .. MaxEdits
  <2>1. Queue \in Object
    BY Objects
  <2>2. db'[Queue] # NoObject
    BY <1>1, <1>4, <2>1 DEF DbOK
  <2>3. TypeOK'
    BY <1>4 DEF TypeOK, RunOK, DbOK
  <2>4. Shape'
    BY <1>1, <1>2, <1>4, <2>2 DEF Shape, RunOK
  <2> QED BY <2>3, <2>4 DEF Good
<1>5. ASSUME NEW a \in Admins, Start(a) \/ Step(a)
      PROVE /\ \A b \in Admins : RunOK(b)' /\ Holds(b)'
            /\ DbOK /\ opt' = opt /\ DOMAIN foreign' = Object /\ DOMAIN runs' = Admins
            /\ raced' \subseteq Object
            /\ faults' \in 0 .. MaxFaults /\ edits' \in 0 .. MaxEdits
  <2>1. \/ Begins(a) \/ Skips(a) \/ Collects(a) \/ Copies(a) \/ Asks(a)
        \/ Adds(a) \/ Overwrites(a) \/ GivesUp(a)
    BY <1>5, StepForm
  <2>2. Alone(a)
    BY <2>1 DEF Begins, Skips, Collects, Copies, Asks, Adds, Overwrites, GivesUp
  <2>3. DbOK /\ RunOK(a)'
    BY <2>1, DbStep, RunStep
  <2>4. Holds(a)'
    <3>1. CASE Copies(a)
      <4>1. TaskOf(a)' = TaskOf(a)
        BY <2>2, <3>1 DEF TaskOf, Copies, Alone
      <4> QED BY <3>1, <4>1 DEF Copies, Good, Shape
    <3>2. CASE runs'[a].phase # "modify"
      BY <3>2
    <3> QED BY <2>1, <3>1, <3>2
            DEF Begins, Skips, Collects, Asks, Adds, Overwrites, GivesUp, Passes, Breaks
  <2>5. ASSUME NEW b \in Admins \ {a} PROVE RunOK(b)' /\ Holds(b)'
    <3>1. runs'[b] = runs[b] /\ opt' = opt /\ TaskOf(b)' = TaskOf(b)
      BY <2>2 DEF Alone, TaskOf
    <3>2. TaskOf(b).obj \in Object
      BY AtTask, TaskFacts
    <3>3. RunOK(b)'
      BY <1>1, <2>3, <3>1, <3>2 DEF RunOK, DbOK
    <3>4. Holds(b)'
      BY <1>2, <1>3, <3>1
    <3> QED BY <3>3, <3>4
  <2> QED BY <1>1, <2>2, <2>3, <2>4, <2>5 DEF Alone
<1>6. ASSUME NEW o \in Object, NEW key, Edits(o, key), DOMAIN foreign' = Object,
             fresh' \in BOOLEAN, DOMAIN runs' = Admins,
             \A a \in Admins :
                /\ DOMAIN runs'[a] = Fields /\ runs'[a].fresh \in BOOLEAN
                /\ runs'[a].state = runs[a].state /\ runs'[a].at = runs[a].at
                /\ runs'[a].phase = runs[a].phase /\ runs'[a].copy = runs[a].copy
                /\ runs'[a].roots = runs[a].roots
      PROVE /\ \A a \in Admins : RunOK(a)' /\ Holds(a)'
            /\ DbOK /\ opt' = opt /\ DOMAIN foreign' = Object /\ DOMAIN runs' = Admins
            /\ raced' \subseteq Object
            /\ faults' \in 0 .. MaxFaults /\ edits' \in 0 .. MaxEdits
  <2>1. DbOK
    BY <1>1, <1>6 DEF Edits, DbOK
  <2>2. ASSUME NEW a \in Admins PROVE RunOK(a)' /\ Holds(a)'
    <3>1. TaskOf(a)' = TaskOf(a) /\ opt' = opt
      BY <1>6 DEF TaskOf, Edits
    <3>2. TaskOf(a).obj \in Object
      BY AtTask, TaskFacts
    <3>3. RunOK(a)'
      BY <1>1, <1>6, <2>1, <3>1, <3>2 DEF RunOK, DbOK
    <3>4. Holds(a)'
      BY <1>2, <1>3, <1>6, <3>1
    <3> QED BY <3>3, <3>4
  <2>3. raced' \subseteq Object
    BY <1>1, <1>6 DEF Edits, Races
  <2> QED BY <1>1, <1>6, <2>1, <2>2, <2>3 DEF Edits
<1>7. ASSUME NEW o \in Object, EditObject(o)
      PROVE /\ \A a \in Admins : RunOK(a)' /\ Holds(a)'
            /\ DbOK /\ opt' = opt /\ DOMAIN foreign' = Object /\ DOMAIN runs' = Admins
            /\ raced' \subseteq Object
            /\ faults' \in 0 .. MaxFaults /\ edits' \in 0 .. MaxEdits
  <2>1. Edits(o, "other") /\ runs' = runs /\ fresh' = fresh
    BY <1>7, EditForm
  <2>2. DOMAIN foreign' = Object
    BY <1>1, <1>7 DEF EditObject
  <2>3. \A a \in Admins : DOMAIN runs[a] = Fields /\ runs[a].fresh \in BOOLEAN
    BY <1>1 DEF RunOK
  <2> QED BY <1>1, <1>6, <2>1, <2>2, <2>3
<1>8. ASSUME NEW h \in Hosts, NEW d \in Dirs, OverrideSpool(h, d)
      PROVE /\ \A a \in Admins : RunOK(a)' /\ Holds(a)'
            /\ DbOK /\ opt' = opt /\ DOMAIN foreign' = Object /\ DOMAIN runs' = Admins
            /\ raced' \subseteq Object
            /\ faults' \in 0 .. MaxFaults /\ edits' \in 0 .. MaxEdits
  <2>1. HostConf(h) \in Object
    BY Objects
  <2>2. FALSE \in BOOLEAN
    OBVIOUS
  <2> QED BY <1>1, <1>6, <1>8, <2>1, <2>2, OverrideForm
<1>9. CASE UNCHANGED vars
  <2>1. DbOK /\ opt' = opt /\ DOMAIN foreign' = Object /\ DOMAIN runs' = Admins
        /\ raced' \subseteq Object
        /\ faults' \in 0 .. MaxFaults /\ edits' \in 0 .. MaxEdits
    BY <1>1, <1>9 DEF vars, DbOK
  <2>2. ASSUME NEW a \in Admins PROVE RunOK(a)' /\ Holds(a)'
    BY <1>1, <1>3, <1>9 DEF vars, RunOK, TaskOf
  <2> QED BY <2>1, <2>2
<1> QED BY <1>5, <1>7, <1>8, <1>9 DEF Next

\* The types hold always, whoever runs what and however calls fail.
THEOREM SetupTypes == Spec => []TypeOK
<1>1. Init => Good
  BY GoodInit
<1>2. Good /\ [Next]_vars => Good'
  BY GoodStep
<1>3. Good => TypeOK
  BY DEF Good
<1> QED BY <1>1, <1>2, <1>3, PTL DEF Spec

\* The same with Shape, for the theorems that follow.
THEOREM GoodInvariant == Spec => []Good
<1>1. Init => Good
  BY GoodInit
<1>2. Good /\ [Next]_vars => Good'
  BY GoodStep
<1> QED BY <1>1, <1>2, PTL DEF Spec

----------------------------------------------------------------------------
(* What the operator has set *)

\* An administrator's step leaves an object alone, adds it or overwrites it.
LEMMA ObjectStep ==
    ASSUME Good, NEW a \in Admins, Start(a) \/ Step(a), NEW o \in Object
    PROVE \/ db'[o] = db[o]
          \/ Adds(a) /\ TaskOf(a).obj = o
          \/ Overwrites(a) /\ TaskOf(a).obj = o /\ Writes(a) /\ At(a, "modify")
<1>1. CASE db' = db
  BY <1>1
<1>2. CASE Adds(a)
  BY <1>2, AddForm
<1>3. CASE Overwrites(a)
  <2>1. Writes(a) /\ At(a, "modify")
    BY <1>3 DEF Overwrites
  <2> QED BY <1>3, <2>1, WriteForm
<1> QED BY <1>1, <1>2, <1>3, StepForm DEF Begins, Skips, Collects, Copies, Asks, GivesUp

\* A copy that is held after an administrator's step was held before, or it has
\* just been taken and is the object as it is.
LEMMA CopyStep ==
    ASSUME Good, NEW a \in Admins, Start(a) \/ Step(a), NEW b \in Admins,
           runs'[b].phase = "modify"
    PROVE /\ TaskOf(b)' = TaskOf(b)
          /\ \/ runs'[b] = runs[b]
             \/ Copies(b) /\ runs'[b].copy = db[TaskOf(b).obj] /\ db' = db
<1>1. \/ Begins(a) \/ Skips(a) \/ Collects(a) \/ Copies(a) \/ Asks(a)
      \/ Adds(a) \/ Overwrites(a) \/ GivesUp(a)
  BY StepForm
<1>2. Alone(a)
  BY <1>1 DEF Begins, Skips, Collects, Copies, Asks, Adds, Overwrites, GivesUp
<1>3. CASE b # a
  <2>1. runs'[b] = runs[b] /\ opt' = opt
    BY <1>2, <1>3 DEF Alone
  <2> QED BY <2>1 DEF TaskOf
<1>4. CASE b = a
  <2>1. Copies(a)
    BY <1>1, <1>4 DEF Begins, Skips, Collects, Asks, Adds, Overwrites, GivesUp, Passes, Breaks
  <2>2. runs'[b].at = runs[b].at /\ opt' = opt
    BY <1>2, <1>4, <2>1 DEF Copies, Alone
  <2> QED BY <1>4, <2>1, <2>2 DEF TaskOf, Copies
<1> QED BY <1>3, <1>4

\* What the operator has set is in the object, and in every copy of it that is
\* not out of date.
ForeignIn(o, c) == "other" \in DOMAIN c /\ c["other"] = foreign[o]

ForeignInv ==
    \A o \in Object : foreign[o] # 0 =>
        /\ db[o] # NoObject
        /\ o \notin raced => ForeignIn(o, db[o])
        /\ \A a \in Admins : o \notin raced /\ runs[a].phase = "modify" /\ TaskOf(a).obj = o =>
              ForeignIn(o, runs[a].copy)

\* ForeignInv is inductive: Modify changes the task's attribute only.
LEMMA ForeignStep ==
    ASSUME Good, ForeignInv, [Next]_vars
    PROVE ForeignInv'
<1>1. ASSUME NEW a \in Admins, Start(a) \/ Step(a)
      PROVE ForeignInv'
  <2>1. foreign' = foreign /\ raced' = raced
    BY <1>1, StepForm
       DEF Begins, Skips, Collects, Copies, Asks, Adds, Overwrites, GivesUp, Alone
  <2> SUFFICES ASSUME NEW o \in Object, foreign[o] # 0
               PROVE /\ db'[o] # NoObject
                     /\ o \notin raced => ForeignIn(o, db'[o])
                     /\ \A b \in Admins :
                           o \notin raced /\ runs'[b].phase = "modify" /\ TaskOf(b)'.obj = o =>
                              ForeignIn(o, runs'[b].copy)
    BY <2>1 DEF ForeignInv, ForeignIn
  <2>2. /\ db[o] # NoObject
        /\ o \notin raced => ForeignIn(o, db[o])
        /\ \A b \in Admins : o \notin raced /\ runs[b].phase = "modify" /\ TaskOf(b).obj = o =>
              ForeignIn(o, runs[b].copy)
    BY DEF ForeignInv
  <2>3. db'[o] # NoObject /\ (o \notin raced => ForeignIn(o, db'[o]))
    <3>1. CASE db'[o] = db[o]
      BY <2>2, <3>1
    <3>2. CASE Adds(a) /\ TaskOf(a).obj = o
      BY <2>2, <3>2, AddForm
    <3>3. CASE TaskOf(a).obj = o /\ Writes(a) /\ At(a, "modify")
      <4>1. TaskOf(a).key # "other"
        BY <3>3, WriteForm, TaskFacts
      <4>2. o \notin raced => ForeignIn(o, runs[a].copy)
        BY <2>2, <3>3 DEF At
      <4> QED BY <3>3, <4>1, <4>2, WriteForm DEF ForeignIn
    <3> QED BY <1>1, <3>1, <3>2, <3>3, ObjectStep
  <2>4. ASSUME NEW b \in Admins, o \notin raced, runs'[b].phase = "modify", TaskOf(b)'.obj = o
        PROVE ForeignIn(o, runs'[b].copy)
    BY <1>1, <2>2, <2>4, CopyStep
  <2> QED BY <2>3, <2>4
<1>2. ASSUME NEW o \in Object, NEW key, Edits(o, key),
             \A a \in Admins : /\ TaskOf(a)' = TaskOf(a) /\ runs'[a].phase = runs[a].phase
                               /\ runs'[a].copy = runs[a].copy
                               /\ runs'[a].state = runs[a].state,
             \A p \in Object \ {o} : foreign'[p] = foreign[p],
             key # "other" => foreign' = foreign,
             key = "other" => db'[o]["other"] = foreign'[o]
      PROVE ForeignInv'
  <2> SUFFICES ASSUME NEW p \in Object, foreign'[p] # 0
               PROVE /\ db'[p] # NoObject
                     /\ p \notin raced' => ForeignIn(p, db[p])'
                     /\ \A b \in Admins :
                           p \notin raced' /\ runs'[b].phase = "modify" /\ TaskOf(b)'.obj = p =>
                              ForeignIn(p, runs[b].copy)'
    BY DEF ForeignInv
  <2>1. p \notin raced' => p \notin raced
    BY <1>2 DEF Edits, Races
  <2>2. \A b \in Admins : p \notin raced' /\ runs[b].phase = "modify" /\ TaskOf(b).obj = p => p # o
    BY <1>2 DEF Edits, Races, At, Good, Shape
  <2>3. CASE p # o
    <3>1. db'[p] = db[p] /\ foreign'[p] = foreign[p]
      BY <1>2, <2>3 DEF Edits
    <3> QED BY <1>2, <2>1, <3>1 DEF ForeignInv, ForeignIn
  <2>4. CASE p = o
    <3>1. db'[p] # NoObject /\ \A b \in Admins :
             ~(p \notin raced' /\ runs'[b].phase = "modify" /\ TaskOf(b)'.obj = p)
      BY <1>2, <2>2, <2>4 DEF Edits
    <3>2. CASE key = "other"
      BY <1>2, <2>4, <3>1, <3>2 DEF ForeignIn, Edits
    <3>3. CASE key # "other"
      <4>1. foreign'[p] = foreign[p]
        BY <1>2, <3>3
      <4>2. p \notin raced => ForeignIn(p, db[p])
        BY <4>1 DEF ForeignInv
      <4>3. p \notin raced' => "other" \in DOMAIN db'[p] /\ db'[p]["other"] = foreign'[p]
        BY <1>2, <2>1, <2>4, <3>3, <4>1, <4>2 DEF ForeignIn, Edits
      <4> QED BY <3>1, <4>3 DEF ForeignIn
    <3> QED BY <3>2, <3>3
  <2> QED BY <2>3, <2>4
<1>3. ASSUME NEW o \in Object, EditObject(o)
      PROVE ForeignInv'
  <2>1. Edits(o, "other") /\ runs' = runs /\ db'[o]["other"] = edits'
    BY <1>3, EditForm
  <2>2. DOMAIN foreign = Object
    BY DEF Good, Shape
  <2>3. /\ \A p \in Object \ {o} : foreign'[p] = foreign[p]
        /\ foreign'[o] = edits + 1 /\ edits' = edits + 1
    BY <1>3, <2>2 DEF EditObject
  <2>4. \A a \in Admins : TaskOf(a)' = TaskOf(a)
    BY <2>1 DEF TaskOf, Edits
  <2> QED BY <1>2, <2>1, <2>3, <2>4
<1>4. ASSUME NEW h \in Hosts, NEW d \in Dirs, OverrideSpool(h, d)
      PROVE ForeignInv'
  <2>1. HostConf(h) \in Object
    BY Objects
  <2>2. /\ Edits(HostConf(h), "spool") /\ foreign' = foreign
        /\ \A a \in Admins : /\ runs'[a].at = runs[a].at /\ runs'[a].phase = runs[a].phase
                             /\ runs'[a].copy = runs[a].copy /\ runs'[a].state = runs[a].state
    BY <1>4, OverrideForm
  <2>3. \A a \in Admins : TaskOf(a)' = TaskOf(a)
    BY <2>2 DEF TaskOf, Edits
  <2> QED BY <1>2, <2>1, <2>2, <2>3
<1>5. CASE UNCHANGED vars
  BY <1>5 DEF vars, ForeignInv, ForeignIn, TaskOf
<1> QED BY <1>1, <1>3, <1>4, <1>5 DEF Next

\* Whatever commands run, overlap, fail and are repeated, no run takes away what
\* the operator has set on an object, except on one that was edited between a
\* run's Show and its Modify.
THEOREM OperatorKept == Spec => []ForeignSettingsKept
<1>1. Init => ForeignInv
  BY DEF Init, ForeignInv
<1>2. Good /\ ForeignInv /\ [Next]_vars => ForeignInv'
  BY ForeignStep
<1>3. ForeignInv => ForeignSettingsKept
  BY DEF ForeignInv, ForeignIn, ForeignSettingsKept, Has
<1> QED BY <1>1, <1>2, <1>3, GoodInvariant, PTL DEF Spec

----------------------------------------------------------------------------
(* Spool directories *)

\* Two forms of a host's configuration give it the same spool directory.
SameSpool(c, d) ==
    /\ "spool" \in DOMAIN c <=> "spool" \in DOMAIN d
    /\ "spool" \in DOMAIN c => c["spool"] = d["spool"]

\* Copies of a host's configuration give it the spool directory it has.
SpoolInv ==
    \A h \in Hosts, a \in Admins :
        HostConf(h) \notin raced /\ runs[a].phase = "modify" /\ TaskOf(a).obj = HostConf(h) =>
            SameSpool(runs[a].copy, db[HostConf(h)])

\* A run begun after the last change of a spool directory has found, when it
\* comes to write the hooks, the directory of every host.
RootsInv ==
    \A a \in Admins : runs[a].state = "running" /\ runs[a].fresh =>
        /\ TaskOf(a).kind = "hostRoots" => db[GlobalConf]["spool"] \in runs[a].roots
        /\ TaskOf(a).kind = "hooks" =>
              \A h \in Hosts : HostConf(h) \notin raced => SpoolDirOf(h) \in runs[a].roots

\* And so have the hooks it wrote.
HooksInv ==
    fresh /\ HooksInstalled =>
        \A h \in Hosts : HostConf(h) \notin raced => SpoolDirOf(h) \in db[Queue]["hooks"]

\* An administrator's step changes no host's spool directory.
LEMMA SpoolKept ==
    ASSUME Good, SpoolInv, NEW a \in Admins, Start(a) \/ Step(a),
           NEW h \in Hosts, HostConf(h) \notin raced
    PROVE /\ SpoolDirOf(h)' = SpoolDirOf(h)
          /\ db[HostConf(h)] # NoObject => SameSpool(db'[HostConf(h)], db[HostConf(h)])
<1> DEFINE o == HostConf(h)
<1>1. o \in Object
  BY Objects
<1>2. db'[GlobalConf]["spool"] = db[GlobalConf]["spool"]
  BY GlobalSpoolStep DEF Next
<1>3. CASE db'[o] = db[o]
  BY <1>2, <1>3 DEF SpoolDirOf, SameSpool
<1>4. CASE Adds(a) /\ TaskOf(a).obj = o
  <2>1. TaskOf(a).key # "spool"
    BY <1>4, AddForm, TaskFacts DEF ShowKinds
  <2>2. db[o] = NoObject /\ "spool" \notin DOMAIN db'[o]
    BY <1>4, <2>1, AddForm
  <2> QED BY <1>2, <2>2 DEF SpoolDirOf
<1>5. CASE TaskOf(a).obj = o /\ Writes(a) /\ At(a, "modify")
  <2>1. SameSpool(runs[a].copy, db[o])
    BY <1>5 DEF SpoolInv, At
  <2>2. TaskOf(a).key # "spool"
    BY <1>5, WriteForm, TaskFacts
  <2>3. db[o] # NoObject /\ db'[o] # NoObject /\ SameSpool(db'[o], runs[a].copy)
    BY <1>5, <2>2, WriteForm DEF SameSpool
  <2>4. SameSpool(db'[o], db[o])
    BY <2>1, <2>3 DEF SameSpool
  <2> QED BY <1>2, <2>3, <2>4 DEF SpoolDirOf, SameSpool
<1> QED BY <1>1, <1>3, <1>4, <1>5, ObjectStep

\* SpoolInv is inductive: no task writes a spool directory.
LEMMA SpoolStep ==
    ASSUME Good, SpoolInv, [Next]_vars
    PROVE SpoolInv'
<1>1. ASSUME NEW a \in Admins, Start(a) \/ Step(a)
      PROVE SpoolInv'
  <2>1. raced' = raced
    BY <1>1, StepForm
       DEF Begins, Skips, Collects, Copies, Asks, Adds, Overwrites, GivesUp, Alone
  <2> SUFFICES ASSUME NEW h \in Hosts, NEW b \in Admins, HostConf(h) \notin raced,
                      runs'[b].phase = "modify", TaskOf(b)'.obj = HostConf(h)
               PROVE SameSpool(runs'[b].copy, db'[HostConf(h)])
    BY <2>1 DEF SpoolInv, SameSpool
  <2>2. TaskOf(b).obj = HostConf(h)
    BY <1>1, CopyStep
  <2>3. CASE runs'[b] = runs[b]
    <3>1. SameSpool(runs[b].copy, db[HostConf(h)]) /\ db[HostConf(h)] # NoObject
      BY <2>2, <2>3 DEF SpoolInv, Good, Shape
    <3>2. SameSpool(db'[HostConf(h)], db[HostConf(h)])
      BY <1>1, <3>1, SpoolKept
    <3> QED BY <2>3, <3>1, <3>2 DEF SameSpool
  <2>4. CASE runs'[b].copy = db[TaskOf(b).obj] /\ db' = db
    BY <2>2, <2>4 DEF SameSpool
  <2> QED BY <1>1, <2>3, <2>4, CopyStep
<1>2. ASSUME NEW o \in Object, NEW key, Edits(o, key),
             \A a \in Admins : /\ TaskOf(a)' = TaskOf(a) /\ runs'[a].phase = runs[a].phase
                               /\ runs'[a].copy = runs[a].copy
      PROVE SpoolInv'
  <2> SUFFICES ASSUME NEW h \in Hosts, NEW b \in Admins, HostConf(h) \notin raced',
                      runs[b].phase = "modify", TaskOf(b).obj = HostConf(h)
               PROVE SameSpool(runs[b].copy, db'[HostConf(h)])
    BY <1>2 DEF SpoolInv, SameSpool
  <2>1. HostConf(h) # o /\ HostConf(h) \notin raced
    BY <1>2 DEF Edits, Races, At, Good, Shape
  <2>2. db'[HostConf(h)] = db[HostConf(h)]
    BY <1>2, <2>1, Objects DEF Edits
  <2> QED BY <2>1, <2>2 DEF SpoolInv
<1>3. ASSUME NEW o \in Object, EditObject(o)
      PROVE SpoolInv'
  <2>1. Edits(o, "other") /\ runs' = runs
    BY <1>3, EditForm
  <2> QED BY <1>2, <2>1 DEF TaskOf, Edits
<1>4. ASSUME NEW h \in Hosts, NEW d \in Dirs, OverrideSpool(h, d)
      PROVE SpoolInv'
  <2>1. HostConf(h) \in Object
    BY Objects
  <2>2. /\ Edits(HostConf(h), "spool")
        /\ \A a \in Admins : /\ runs'[a].at = runs[a].at /\ runs'[a].phase = runs[a].phase
                             /\ runs'[a].copy = runs[a].copy
    BY <1>4, OverrideForm
  <2>3. \A a \in Admins : TaskOf(a)' = TaskOf(a)
    BY <2>2 DEF TaskOf, Edits
  <2> QED BY <1>2, <2>1, <2>2, <2>3
<1>5. CASE UNCHANGED vars
  BY <1>5 DEF vars, SpoolInv, SameSpool, TaskOf
<1> QED BY <1>1, <1>3, <1>4, <1>5 DEF Next

\* The order of the tasks: the task before one of the hooks.
LEMMA TaskBefore ==
    ASSUME Good, NEW a \in Admins, Passes(a), opt' = opt, runs'[a].state = "running"
    PROVE /\ TaskOf(a)' = Tasks(opt[a])[runs[a].at + 1]
          /\ TaskOf(a)'.kind = "hostRoots" => TaskOf(a).kind = "globalRoot"
          /\ TaskOf(a)'.kind = "hooks" => TaskOf(a).kind = "hostRoots"
<1> DEFINE i == runs[a].at + 1
<1>1. i \in 1 .. Len(Tasks(opt[a])) /\ i - 1 = runs[a].at /\ runs'[a].at = i
  BY AtTask DEF Passes
<1>2. TaskOf(a)' = Tasks(opt[a])[i] /\ TaskOf(a) = Tasks(opt[a])[i - 1]
  BY <1>1 DEF TaskOf
<1>3. opt[a] \in Option
  BY AtTask
<1> QED BY <1>1, <1>2, <1>3, TasksType

\* RootsInv is inductive: spoolRoots asks for the global directory, then the hosts'.
LEMMA RootsStep ==
    ASSUME GlobalShowFails = FALSE, Good, SpoolInv, RootsInv, [Next]_vars
    PROVE RootsInv'
<1>1. ASSUME NEW a \in Admins, Start(a) \/ Step(a)
      PROVE RootsInv'
  <2>0. \/ Begins(a) \/ Skips(a) \/ Collects(a) \/ Copies(a) \/ Asks(a)
        \/ Adds(a) \/ Overwrites(a) \/ GivesUp(a)
    BY <1>1, StepForm
  <2>1. raced' = raced /\ opt' = opt /\ \A b \in Admins \ {a} : runs'[b] = runs[b]
    BY <2>0 DEF Begins, Skips, Collects, Copies, Asks, Adds, Overwrites, GivesUp, Alone
  <2>2. db'[GlobalConf]["spool"] = db[GlobalConf]["spool"]
    BY <1>1, GlobalSpoolStep DEF Next
  <2>3. \A h \in Hosts : HostConf(h) \notin raced => SpoolDirOf(h)' = SpoolDirOf(h)
    BY <1>1, SpoolKept
  <2> SUFFICES ASSUME NEW b \in Admins, runs'[b].state = "running", runs'[b].fresh
               PROVE /\ TaskOf(b)'.kind = "hostRoots" => db[GlobalConf]["spool"] \in runs'[b].roots
                     /\ TaskOf(b)'.kind = "hooks" => \A h \in Hosts :
                           HostConf(h) \notin raced => SpoolDirOf(h) \in runs'[b].roots
    BY <2>1, <2>2, <2>3 DEF RootsInv
  <2>4. CASE runs'[b].state = runs[b].state /\ runs'[b].at = runs[b].at
             /\ runs'[b].fresh = runs[b].fresh /\ runs'[b].roots = runs[b].roots
    <3>1. TaskOf(b)' = TaskOf(b)
      BY <2>1, <2>4 DEF TaskOf
    <3> QED BY <2>4, <3>1 DEF RootsInv
  <2>5. CASE b # a
    BY <2>1, <2>4, <2>5
  <2>6. CASE b = a /\ (Copies(a) \/ Asks(a))
    BY <2>4, <2>6 DEF Copies, Asks, Calls, At
  <2>7. CASE b = a /\ Begins(a)
    <3>1. TaskOf(b)' = Tasks(opt[a])[1]
      BY <2>1, <2>7 DEF Begins, TaskOf
    <3>2. 1 \in 1 .. Len(Tasks(opt[a])) /\ opt[a] \in Option
      BY AtTask
    <3>3. Tasks(opt[a])[1].kind # "hostRoots" /\ Tasks(opt[a])[1].kind # "hooks"
      BY <3>2, TasksType
    <3> QED BY <3>1, <3>3
  <2>8. CASE b = a /\ Passes(a) /\ (Skips(a) \/ Collects(a) \/ Adds(a) \/ Overwrites(a))
    <3>1. /\ TaskOf(b)'.kind = "hostRoots" => TaskOf(a).kind = "globalRoot"
          /\ TaskOf(b)'.kind = "hooks" => TaskOf(a).kind = "hostRoots"
      BY <2>1, <2>8, TaskBefore
    <3>2. runs[a].fresh /\ runs[a].state = "running"
      BY <2>8 DEF Passes, Skips, Collects, Adds, Overwrites, Calls, At
    <3>3. CASE TaskOf(a).kind \in {"globalRoot", "hostRoots"}
      <4>1. Collects(a)
        <5>1. TaskOf(a).kind \notin ShowKinds
          BY <3>3 DEF ShowKinds
        <5>2. ~Adds(a) /\ ~Overwrites(a)
          BY <3>3, AddForm, WriteForm DEF Overwrites, ShowKinds
        <5> QED BY <2>8, <5>1, <5>2 DEF Skips, Calls
      <4>2. TaskOf(a).kind = "globalRoot" => runs'[a].roots = {db[GlobalConf]["spool"]}
        BY <2>8, <4>1 DEF Collects
      <4>3. TaskOf(a).kind = "hostRoots" =>
               /\ runs'[a].roots = runs[a].roots \cup Overrides
               /\ db[GlobalConf]["spool"] \in runs[a].roots
        BY <2>8, <3>2, <4>1 DEF Collects, RootsInv
      <4>4. \A h \in Hosts : SpoolDirOf(h) \in Overrides \cup {db[GlobalConf]["spool"]}
        BY DEF SpoolDirOf, Overrides
      <4> QED BY <2>8, <3>1, <4>2, <4>3, <4>4
    <3> QED BY <3>1, <3>3
  <2> QED BY <2>0, <2>5, <2>6, <2>7, <2>8 DEF Skips, Collects, Adds, Overwrites, GivesUp, Breaks
<1>2. ASSUME NEW o \in Object, EditObject(o)
      PROVE RootsInv'
  <2>1. Edits(o, "other") /\ runs' = runs /\ \A a \in Admins : TaskOf(a)' = TaskOf(a)
    BY <1>2, EditForm DEF Edits, TaskOf
  <2>2. db'[GlobalConf]["spool"] = db[GlobalConf]["spool"]
    BY <1>2, GlobalSpoolStep DEF Next
  <2>3. \A h \in Hosts : SpoolDirOf(h)' = SpoolDirOf(h)
    BY <2>1, <2>2, Objects DEF Edits, SpoolDirOf
  <2>4. raced \subseteq raced'
    BY <2>1 DEF Edits, Races
  <2> QED BY <2>1, <2>2, <2>3, <2>4 DEF RootsInv
<1>3. ASSUME NEW h \in Hosts, NEW d \in Dirs, OverrideSpool(h, d)
      PROVE RootsInv'
  BY <1>3, OverrideForm DEF RootsInv
<1>4. CASE UNCHANGED vars
  BY <1>4 DEF vars, RootsInv, SpoolDirOf, TaskOf
<1> QED BY <1>1, <1>2, <1>3, <1>4 DEF Next

\* HooksInv is inductive: the hooks are written with the roots of their run.
LEMMA HooksStep ==
    ASSUME Good, SpoolInv, RootsInv, HooksInv, [Next]_vars
    PROVE HooksInv'
<1>0. Queue \in Object /\ db[Queue] # NoObject
  BY Objects DEF Good, Shape
<1>1. ASSUME NEW a \in Admins, Start(a) \/ Step(a)
      PROVE HooksInv'
  <2>0. \/ Begins(a) \/ Skips(a) \/ Collects(a) \/ Copies(a) \/ Asks(a)
        \/ Adds(a) \/ Overwrites(a) \/ GivesUp(a)
    BY <1>1, StepForm
  <2>1. raced' = raced
    BY <2>0 DEF Begins, Skips, Collects, Copies, Asks, Adds, Overwrites, GivesUp, Alone
  <2>2. \A h \in Hosts : HostConf(h) \notin raced => SpoolDirOf(h)' = SpoolDirOf(h)
    BY <1>1, SpoolKept
  <2>3. CASE db'[Queue] = db[Queue] /\ fresh' = fresh
    BY <2>1, <2>2, <2>3 DEF HooksInv, HooksInstalled
  <2>4. CASE Adds(a)
    <3>1. TaskOf(a).obj # Queue
      BY <2>4, AddForm, TaskFacts DEF ShowKinds
    <3> QED BY <1>0, <2>3, <2>4, <3>1, AddForm DEF Adds
  <2>5. CASE Overwrites(a)
    <3>1. Writes(a) /\ At(a, "modify")
      BY <2>5 DEF Overwrites
    <3>2. /\ TaskOf(a) \in AnyTask /\ TaskOf(a).kind \in ShowKinds
          /\ TaskOf(a).kind = "hooks" <=> TaskOf(a).obj = Queue
      BY <3>1, WriteForm, TaskFacts
    <3>3. CASE TaskOf(a).kind # "hooks"
      <4>1. fresh' = fresh
        BY <3>1, <3>3 DEF Writes
      <4> QED BY <1>0, <2>3, <3>1, <3>2, <3>3, <4>1, WriteForm
    <3>4. CASE TaskOf(a).kind = "hooks"
      <4>1. fresh' = runs[a].fresh /\ db'[Queue]["hooks"] = runs[a].roots
        BY <3>1, <3>2, <3>4, WriteForm DEF Writes
      <4>2. runs[a].fresh => \A h \in Hosts :
               HostConf(h) \notin raced => SpoolDirOf(h) \in runs[a].roots
        BY <3>1, <3>4 DEF RootsInv, At
      <4> QED BY <2>1, <2>2, <4>1, <4>2 DEF HooksInv
    <3> QED BY <3>3, <3>4
  <2> QED BY <2>0, <2>3, <2>4, <2>5 DEF Begins, Skips, Collects, Copies, Asks, GivesUp
<1>2. ASSUME NEW o \in Object, EditObject(o)
      PROVE HooksInv'
  <2>1. Edits(o, "other") /\ fresh' = fresh
    BY <1>2, EditForm
  <2>2. db'[GlobalConf]["spool"] = db[GlobalConf]["spool"]
    BY <1>2, GlobalSpoolStep DEF Next
  <2>3. \A h \in Hosts : SpoolDirOf(h)' = SpoolDirOf(h)
    BY <2>1, <2>2, Objects DEF Edits, SpoolDirOf
  <2>4. raced \subseteq raced'
    BY <2>1 DEF Edits, Races
  <2>5. /\ "hooks" \in DOMAIN db'[Queue] <=> "hooks" \in DOMAIN db[Queue]
        /\ "hooks" \in DOMAIN db[Queue] => db'[Queue]["hooks"] = db[Queue]["hooks"]
    BY <1>0, <2>1 DEF Edits
  <2> QED BY <2>1, <2>3, <2>4, <2>5 DEF HooksInv, HooksInstalled
<1>3. ASSUME NEW h \in Hosts, NEW d \in Dirs, OverrideSpool(h, d)
      PROVE HooksInv'
  BY <1>3, OverrideForm DEF HooksInv
<1>4. CASE UNCHANGED vars
  BY <1>4 DEF vars, HooksInv, HooksInstalled, SpoolDirOf
<1> QED BY <1>1, <1>2, <1>3, <1>4 DEF Next

\* If the call for the global configuration is answered, and the names of root,
\* cell and spool directories are ones that CleanEnv's patterns accept, then
\* hooks installed after the last change of a spool directory start for a job on
\* every host, however many administrators and failed calls there were.
THEOREM HooksStartEverywhere ==
    ASSUME GlobalShowFails = FALSE, Plain = Dirs, SgeCell = "plain"
    PROVE Spec => []HooksAdmitEveryHost
<1>1. Init => SpoolInv /\ RootsInv /\ HooksInv
  BY DEF Init, SpoolInv, RootsInv, HooksInv
<1>2. Good /\ SpoolInv /\ RootsInv /\ HooksInv /\ [Next]_vars => (SpoolInv /\ RootsInv /\ HooksInv)'
  BY SpoolStep, RootsStep, HooksStep
<1>3. Good /\ HooksInv => HooksAdmitEveryHost
  <2> SUFFICES ASSUME Good, HooksInv, HooksInstalled, fresh,
                      NEW h \in Hosts, HostConf(h) \notin raced
               PROVE HookStart(JobEnviron(h), Settings, TRUE) = "ok"
    BY DEF HooksAdmitEveryHost
  <2>1. SpoolDirOf(h) \in db[Queue]["hooks"] /\ SpoolDirOf(h) \in Dirs
    <3>1. SpoolDirOf(h) \in Overrides \cup {db[GlobalConf]["spool"]}
      BY DEF SpoolDirOf, Overrides
    <3> QED BY <3>1, SpoolTypes DEF HooksInv
  <2>2. SgeRoot \in Plain /\ SpoolDirOf(h) \in Plain
    BY <2>1, LauncherAssumption
  <2>3. SpoolDirOf(h) \in SpoolRootsOf(Settings)
    BY <2>1 DEF SpoolRootsOf, Settings
  <2>4. CheckSpoolDir(JobEnviron(h), SpoolDirOf(h))
    BY DEF CheckSpoolDir, JobEnviron
  <2>5. LaunchEnv(JobEnviron(h), Settings) = "ok"
    <3>1. /\ ~JobEnviron(h).loader /\ JobEnviron(h).jobID /\ JobEnviron(h).taskID
          /\ Validates(Settings)
      BY DEF JobEnviron, Settings, Validates
    <3> QED BY <2>3, <2>4, <3>1 DEF LaunchEnv
  <2>6. ResetProcessEnv(JobEnviron(h), Settings) = "ok"
    BY <2>2 DEF ResetProcessEnv, JobEnviron, Settings
  <2> QED BY <2>5, <2>6 DEF HookStart, Prepare
<1> QED BY <1>1, <1>2, <1>3, GoodInvariant, PTL DEF Spec

----------------------------------------------------------------------------
(* Tasks whose result lasts *)

\* Tasks that set an attribute to a value that is the same for every command.
FixedTasks == PlainTasks \cup {ensureGlobalReportingPattern}

\* A fixed task ensures or sets one attribute of an object.
LEMMA FixedForm ==
    ASSUME NEW u \in FixedTasks
    PROVE /\ u \in AnyTask /\ u.kind \in {"ensure", "set"} /\ u.obj \in Object
          /\ u.key \in Attribute \ {"spool", "other", "hooks", "qpu_slots"}
          /\ u = Task(u.kind, u.obj, u.key, u.val)
<1>1. CASE u \in PlainTasks
  <2>1. u.kind \in {"ensure", "set"} /\ u.key \in {"shape", "sensor", "qpu", "qpu_ready"}
    BY <1>1, PlainTaskForm
  <2>2. u \in AnyTask /\ u.obj \in Object
    BY <1>1, TaskFacts DEF AnyTask, ResourceTasks
  <2>3. u = Task(u.kind, u.obj, u.key, u.val)
    BY <1>1 DEF PlainTasks, ensureComplexEntry, configureHostLoadSensor, setExecHostResource, Task
  <2> QED BY <2>1, <2>2, <2>3 DEF Attribute
<1>2. CASE u = ensureGlobalReportingPattern
  <2>1. u = configureQueueHooksDefault[5]
    BY <1>2 DEF configureQueueHooksDefault
  <2>2. u \in AnyTask
    BY <2>1 DEF AnyTask, HookTasks
  <2>3. u = Task("set", GlobalConf, "report", "qrmi")
    BY <1>2 DEF ensureGlobalReportingPattern
  <2>4. /\ u.kind = "set" /\ u.obj = GlobalConf /\ u.key = "report"
        /\ u = Task(u.kind, u.obj, u.key, u.val)
    BY <2>3 DEF Task
  <2> QED BY <2>2, <2>4, Objects DEF Attribute
<1> QED BY <1>1, <1>2 DEF FixedTasks

\* Two tasks of FixedTasks on one object are the same.
LEMMA OneFixed ==
    ASSUME NEW t \in FixedTasks, NEW u \in FixedTasks, t.obj = u.obj
    PROVE t = u
<1> DEFINE Fld(x, k, y, v) == x.kind = k /\ x.key = y /\ x.val = v
           Form(x) == \/ /\ Fld(x, "ensure", "shape", "right")
                         /\ \E n \in {"qpu", "qpu_slots", "qpu_ready"} : x.obj = Complex(n)
                      \/ /\ Fld(x, "ensure", "sensor", "ours")
                         /\ \E h \in Hosts : x.obj = HostConf(h)
                      \/ /\ Fld(x, "set", "qpu", "backend")
                         /\ \E h \in Hosts : x.obj = ExecHost(h)
                      \/ Fld(x, "set", "qpu_ready", 1) /\ x.obj = GlobalExecHost
                      \/ Fld(x, "set", "report", "qrmi") /\ x.obj = GlobalConf
<1>1. \A x \in FixedTasks : Form(x)
  <2> TAKE x \in FixedTasks
  <2>1. CASE x \in PlainTasks
    BY <2>1, PlainTaskForm
  <2>2. CASE x = ensureGlobalReportingPattern
    BY <2>2 DEF ensureGlobalReportingPattern, Task
  <2> QED BY <2>1, <2>2 DEF FixedTasks
<1>2. t.kind = u.kind /\ t.key = u.key /\ t.val = u.val
  <2> HIDE DEF Fld
  <2>1. ASSUME NEW x \in FixedTasks, NEW n, x.obj = Complex(n)
        PROVE Fld(x, "ensure", "shape", "right")
    BY <1>1, <2>1, Objects
  <2>2. ASSUME NEW x \in FixedTasks, NEW h \in Hosts, x.obj = HostConf(h)
        PROVE Fld(x, "ensure", "sensor", "ours")
    BY <1>1, <2>2, Objects
  <2>3. ASSUME NEW x \in FixedTasks, NEW h \in Hosts, x.obj = ExecHost(h)
        PROVE Fld(x, "set", "qpu", "backend")
    BY <1>1, <2>3, Objects
  <2>4. ASSUME NEW x \in FixedTasks, x.obj = GlobalExecHost
        PROVE Fld(x, "set", "qpu_ready", 1)
    BY <1>1, <2>4, Objects
  <2>5. ASSUME NEW x \in FixedTasks, x.obj = GlobalConf
        PROVE Fld(x, "set", "report", "qrmi")
    BY <1>1, <2>5, Objects
  <2>6. \/ Fld(t, "ensure", "shape", "right") /\ Fld(u, "ensure", "shape", "right")
        \/ Fld(t, "ensure", "sensor", "ours") /\ Fld(u, "ensure", "sensor", "ours")
        \/ Fld(t, "set", "qpu", "backend") /\ Fld(u, "set", "qpu", "backend")
        \/ Fld(t, "set", "qpu_ready", 1) /\ Fld(u, "set", "qpu_ready", 1)
        \/ Fld(t, "set", "report", "qrmi") /\ Fld(u, "set", "report", "qrmi")
    BY <1>1, <2>1, <2>2, <2>3, <2>4, <2>5
  <2> QED BY <2>6 DEF Fld
<1>3. t = Task(t.kind, t.obj, t.key, t.val) /\ u = Task(u.kind, u.obj, u.key, u.val)
  BY FixedForm
<1> QED BY <1>2, <1>3

\* Every task that writes is one of FixedTasks, sets the slots, or writes the hooks.
LEMMA WritingTasks ==
    ASSUME NEW t \in AnyTask, t.kind \in ShowKinds
    PROVE \/ t \in FixedTasks
          \/ t \in SlotTasks
          \/ t.kind = "hooks" /\ t.obj = Queue
<1>1. CASE t \in HookTasks
  <2>1. PICK i \in 1 .. 5 : t = configureQueueHooksDefault[i]
    BY <1>1 DEF HookTasks
  <2>2. i = 1 \/ i = 2 \/ i = 3 \/ i = 4 \/ i = 5
    OBVIOUS
  <2>3. CASE i = 5
    BY <2>1, <2>3, HooksCalls DEF FixedTasks
  <2>4. CASE i # 5
    BY <1>1, <2>1, <2>2, <2>4, HooksCalls, HookTaskForm DEF ShowKinds
  <2> QED BY <2>3, <2>4
<1> QED BY <1>1 DEF AnyTask, ResourceTasks, FixedTasks

\* A task that writes u's object and is not u sets the slots.
LEMMA OtherTask ==
    ASSUME NEW u \in FixedTasks, NEW t \in AnyTask, t.kind \in ShowKinds, t.obj = u.obj, t # u
    PROVE t \in SlotTasks /\ t.key = "qpu_slots" /\ t.key # u.key
<1>1. t \notin FixedTasks
  BY OneFixed
<1>2. u.obj # Queue /\ u.key # "qpu_slots"
  BY FixedForm, TaskFacts DEF ShowKinds
<1> QED BY <1>1, <1>2, WritingTasks, SlotTaskForm

\* u comes before every slots task on its object, in every command.
Lasting(u) == u \in FixedTasks /\ \A a \in Admins : Anchors(Tasks(opt[a]), u)

\* Administrator a's run has u behind it.
Behind(a, u) ==
    \E k \in 1 .. Len(Tasks(opt[a])) :
        Tasks(opt[a])[k] = u /\ (runs[a].state = "done" \/ k < runs[a].at)

InCopy(u, c) == u.key \in DOMAIN c /\ c[u.key] = u.val

Holds(u) == db[u.obj] # NoObject /\ InCopy(u, db[u.obj])

\* What a run has behind it holds; a copy that does not hold u is written back
\* only by u itself; and no run that has u behind it writes u again.
LastInv ==
    \A u : Lasting(u) =>
        \A a \in Admins :
            /\ Behind(a, u) => Holds(u)
            /\ runs[a].phase = "modify" /\ TaskOf(a).obj = u.obj =>
                  IF TaskOf(a) = u THEN ~Behind(a, u) ELSE InCopy(u, runs[a].copy)

\* A step puts a task behind a run only by getting past it.
LEMMA BehindStep ==
    ASSUME Good, NEW a \in Admins, Start(a) \/ Step(a), NEW b \in Admins, NEW u, Behind(b, u)'
    PROVE \/ Behind(b, u)
          \/ /\ b = a /\ TaskOf(a) = u /\ Passes(a)
             /\ Skips(a) \/ Collects(a) \/ Adds(a) \/ Overwrites(a)
<1>1. \/ Begins(a) \/ Skips(a) \/ Collects(a) \/ Copies(a) \/ Asks(a)
      \/ Adds(a) \/ Overwrites(a) \/ GivesUp(a)
  BY StepForm
<1>2. opt' = opt /\ \A c \in Admins \ {a} : runs'[c] = runs[c]
  BY <1>1 DEF Begins, Skips, Collects, Copies, Asks, Adds, Overwrites, GivesUp, Alone
<1>3. PICK k \in 1 .. Len(Tasks(opt[b])) :
          Tasks(opt[b])[k] = u /\ (runs'[b].state = "done" \/ k < runs'[b].at)
  BY <1>2 DEF Behind
<1>4. CASE b # a
  BY <1>2, <1>3, <1>4 DEF Behind
<1>5. /\ Len(Tasks(opt[b])) \in Nat /\ runs[b].at \in 1 .. Len(Tasks(opt[b]))
      /\ TaskOf(b) = Tasks(opt[b])[runs[b].at]
  BY AtTask
<1>6. CASE b = a /\ Passes(a) /\ (Skips(a) \/ Collects(a) \/ Adds(a) \/ Overwrites(a))
  <2>1. k < runs[b].at \/ k = runs[b].at
    BY <1>3, <1>5, <1>6 DEF Passes
  <2> QED BY <1>3, <1>5, <1>6, <2>1 DEF Behind
<1>7. CASE b = a /\ Begins(a)
  BY <1>3, <1>7 DEF Begins
<1>8. CASE b = a /\ runs'[a].at = runs[a].at /\ runs'[a].state # "done"
  BY <1>3, <1>8 DEF Behind
<1> QED BY <1>1, <1>4, <1>6, <1>7, <1>8
        DEF Skips, Collects, Copies, Asks, Adds, Overwrites, GivesUp, Breaks

\* A run that holds a copy for a slots task has u behind it.
LEMMA AnchorBehind ==
    ASSUME Good, NEW u, Lasting(u), NEW a \in Admins,
           TaskOf(a).kind \in ShowKinds, TaskOf(a).obj = u.obj, TaskOf(a) # u
    PROVE Behind(a, u)
<1>1. TaskOf(a).key = "qpu_slots"
  BY AtTask, OtherTask DEF Lasting
<1>2. /\ runs[a].at \in 1 .. Len(Tasks(opt[a])) /\ Len(Tasks(opt[a])) \in Nat
      /\ TaskOf(a) = Tasks(opt[a])[runs[a].at]
  BY AtTask
<1>3. PICK k \in 1 .. (runs[a].at - 1) : Tasks(opt[a])[k] = u
  BY <1>1, <1>2 DEF Lasting, Anchors
<1>4. k \in 1 .. Len(Tasks(opt[a])) /\ k < runs[a].at
  BY <1>2, <1>3
<1> QED BY <1>3, <1>4 DEF Behind

\* What holds goes on holding.
LEMMA HoldsKept ==
    ASSUME Good, LastInv, NEW u, Lasting(u), Holds(u), NEW a \in Admins, Start(a) \/ Step(a)
    PROVE Holds(u)'
<1>1. u.obj \in Object /\ u.kind \in {"ensure", "set"}
  BY FixedForm DEF Lasting
<1>2. CASE db'[u.obj] = db[u.obj]
  BY <1>2 DEF Holds, InCopy
<1>3. CASE Adds(a) /\ TaskOf(a).obj = u.obj
  BY <1>3, AddForm DEF Holds
<1>4. CASE TaskOf(a).obj = u.obj /\ Writes(a) /\ At(a, "modify")
  <2>1. db'[u.obj] # NoObject /\ TaskOf(a) \in AnyTask /\ TaskOf(a).kind \in ShowKinds
    BY <1>4, WriteForm
  <2>2. CASE TaskOf(a) = u
    <3>1. u.key \in DOMAIN db'[u.obj] /\ db'[u.obj][u.key] = u.val
      BY <1>1, <1>4, <2>2, WriteForm
    <3> QED BY <2>1, <3>1 DEF Holds, InCopy
  <2>3. CASE TaskOf(a) # u
    <3>1. InCopy(u, runs[a].copy)
      BY <1>4, <2>3 DEF LastInv, At
    <3>2. TaskOf(a).key # u.key
      BY <1>4, <2>1, <2>3, OtherTask DEF Lasting
    <3>3. u.key \in DOMAIN db'[u.obj] /\ db'[u.obj][u.key] = u.val
      BY <1>4, <3>1, <3>2, WriteForm DEF InCopy
    <3> QED BY <2>1, <3>3 DEF Holds, InCopy
  <2> QED BY <2>2, <2>3
<1> QED BY <1>1, <1>2, <1>3, <1>4, ObjectStep

\* What a run gets past holds.
LEMMA HoldsNow ==
    ASSUME Good, NEW u \in FixedTasks, NEW a \in Admins, TaskOf(a) = u,
           Skips(a) \/ Collects(a) \/ Adds(a) \/ Overwrites(a)
    PROVE Holds(u)'
<1>1. u.obj \in Object /\ u.kind \in {"ensure", "set"}
  BY FixedForm
<1>2. CASE Skips(a)
  <2>1. Satisfied(u, db[u.obj]) /\ db[u.obj] # NoObject /\ db' = db
    BY <1>2 DEF Skips
  <2>2. InCopy(u, db[u.obj])
    BY <1>1, <2>1 DEF Satisfied, InCopy
  <2> QED BY <2>1, <2>2 DEF Holds, InCopy
<1>3. CASE Collects(a)
  BY <1>1, <1>3 DEF Collects, Calls
<1>4. CASE Adds(a)
  <2>1. db'[u.obj] # NoObject /\ u.key \in DOMAIN db'[u.obj] /\ db'[u.obj][u.key] = u.val
    BY <1>4, AddForm
  <2> QED BY <2>1 DEF Holds, InCopy
<1>5. CASE Overwrites(a)
  <2>1. Writes(a) /\ At(a, "modify")
    BY <1>5 DEF Overwrites
  <2>2. db'[u.obj] # NoObject /\ u.key \in DOMAIN db'[u.obj] /\ db'[u.obj][u.key] = u.val
    BY <1>1, <2>1, WriteForm
  <2> QED BY <2>2 DEF Holds, InCopy
<1> QED BY <1>2, <1>3, <1>4, <1>5

\* An edit leaves everything but its own attribute as it is.
LEMMA HoldsEdit ==
    ASSUME Good, NEW u \in FixedTasks, Holds(u), NEW o \in Object, NEW key \in {"other", "spool"},
           Edits(o, key)
    PROVE Holds(u)'
<1>1. u.obj \in Object /\ u.key # key
  BY FixedForm
<1>2. CASE u.obj = o
  <2>1. db'[o] # NoObject /\ u.key \in DOMAIN db'[o] /\ db'[o][u.key] = u.val
    BY <1>1, <1>2 DEF Edits, Holds, InCopy
  <2> QED BY <1>2, <2>1 DEF Holds, InCopy
<1>3. CASE u.obj # o
  BY <1>1, <1>3 DEF Edits, Holds, InCopy
<1> QED BY <1>2, <1>3

\* LastInv is inductive.
LEMMA LastStep ==
    ASSUME Good, LastInv, [Next]_vars
    PROVE LastInv'
<1>1. ASSUME NEW a \in Admins, Start(a) \/ Step(a)
      PROVE LastInv'
  <2>1. opt' = opt
    BY <1>1, StepForm
       DEF Begins, Skips, Collects, Copies, Asks, Adds, Overwrites, GivesUp, Alone
  <2> SUFFICES ASSUME NEW u, Lasting(u), NEW b \in Admins
               PROVE /\ Behind(b, u)' => Holds(u)'
                     /\ runs'[b].phase = "modify" /\ TaskOf(b)'.obj = u.obj =>
                           IF TaskOf(b)' = u THEN ~Behind(b, u)' ELSE InCopy(u, runs'[b].copy)
    BY <2>1 DEF LastInv, Lasting, InCopy
  <2>2. Behind(b, u)' => Holds(u)'
    <3>1. Behind(b, u) => Holds(u)'
      BY <1>1, HoldsKept DEF LastInv
    <3> QED BY <1>1, <3>1, BehindStep, HoldsNow DEF Lasting
  <2>3. ASSUME runs'[b].phase = "modify", TaskOf(b)'.obj = u.obj
        PROVE IF TaskOf(b)' = u THEN ~Behind(b, u)' ELSE InCopy(u, runs'[b].copy)
    <3>1. TaskOf(b)' = TaskOf(b)
      BY <1>1, <2>3, CopyStep
    <3>2. CASE runs'[b] = runs[b]
      <4>1. Behind(b, u)' <=> Behind(b, u)
        BY <2>1, <3>2 DEF Behind
      <4> QED BY <2>3, <3>1, <3>2, <4>1 DEF LastInv
    <3>3. CASE Copies(b) /\ runs'[b].copy = db[TaskOf(b).obj]
      <4>1. Behind(b, u)' <=> Behind(b, u)
        BY <2>1, <3>3 DEF Behind, Copies, Calls, At
      <4>2. CASE TaskOf(b) = u
        <5>1. ~Satisfied(u, db[u.obj]) /\ db[u.obj] # NoObject /\ u.kind \in {"ensure", "set"}
          BY <3>3, <4>2, FixedForm DEF Copies, Lasting
        <5>2. ~Holds(u)
          BY <5>1 DEF Satisfied, Holds, InCopy
        <5> QED BY <3>1, <4>1, <4>2, <5>2 DEF LastInv
      <4>3. CASE TaskOf(b) # u
        <5>1. Behind(b, u)
          BY <2>3, <3>1, <3>3, <4>3, AnchorBehind DEF Copies, Calls
        <5>2. Holds(u)
          BY <5>1 DEF LastInv
        <5> QED BY <2>3, <3>1, <3>3, <4>3, <5>2 DEF Holds
      <4> QED BY <4>2, <4>3
    <3> QED BY <1>1, <2>3, <3>2, <3>3, CopyStep
  <2> QED BY <2>2, <2>3
<1>2. ASSUME NEW o \in Object, NEW key \in {"other", "spool"}, Edits(o, key),
             \A a \in Admins : /\ runs'[a].state = runs[a].state /\ runs'[a].at = runs[a].at
                               /\ runs'[a].phase = runs[a].phase /\ runs'[a].copy = runs[a].copy
      PROVE LastInv'
  <2>1. opt' = opt
    BY <1>2 DEF Edits
  <2> SUFFICES ASSUME NEW u, Lasting(u), NEW b \in Admins
               PROVE /\ Behind(b, u)' => Holds(u)'
                     /\ runs'[b].phase = "modify" /\ TaskOf(b)'.obj = u.obj =>
                           IF TaskOf(b)' = u THEN ~Behind(b, u)' ELSE InCopy(u, runs'[b].copy)
    BY <2>1 DEF LastInv, Lasting, InCopy
  <2>2. TaskOf(b)' = TaskOf(b) /\ (Behind(b, u)' <=> Behind(b, u))
    BY <1>2, <2>1 DEF TaskOf, Behind
  <2>3. Holds(u) => Holds(u)'
    BY <1>2, HoldsEdit DEF Lasting
  <2> QED BY <1>2, <2>2, <2>3 DEF LastInv
<1>3. ASSUME NEW o \in Object, EditObject(o)
      PROVE LastInv'
  BY <1>2, <1>3, EditForm
<1>4. ASSUME NEW h \in Hosts, NEW d \in Dirs, OverrideSpool(h, d)
      PROVE LastInv'
  BY <1>2, <1>4, OverrideForm, Objects
<1>5. CASE UNCHANGED vars
  BY <1>5 DEF vars, LastInv, Lasting, Behind, Holds, InCopy, TaskOf
<1> QED BY <1>1, <1>3, <1>4, <1>5 DEF Next

\* At first no run has a task behind it.
LEMMA LastInit ==
    ASSUME Init
    PROVE LastInv
<1>1. \A a \in Admins : runs[a].state = "idle" /\ runs[a].at = 1 /\ runs[a].phase = "show"
  BY DEF Init
<1>2. \A a \in Admins : Len(Tasks(opt[a])) \in Nat
  BY GoodInit, AtTask
<1>3. \A a \in Admins : \A u : ~Behind(a, u)
  BY <1>1, <1>2 DEF Behind
<1> QED BY <1>1, <1>3 DEF LastInv

\* Everything but the readiness of the global host lasts whatever the commands
\* are; that lasts if every command that configures resources configures it.
Ready == setExecHostResource(GlobalExecHost, "qpu_ready", 1)

Configures(o) == o.command # "configure-queue-hooks"

\* In the code's order a slots task follows the other tasks on its object.
LEMMA AnchoredTasks ==
    ASSUME NEW o \in Option, NEW u \in FixedTasks,
           u = Ready /\ Configures(o) => o.sensor # NoHost
    PROVE Anchors(Tasks(o), u)
<1> DEFINE T == Tasks(o)
           E == ensureResourceDefault(o)
<1> SUFFICES ASSUME NEW i \in 1 .. Len(T), T[i].key = "qpu_slots", T[i].obj = u.obj
             PROVE \E k \in 1 .. (i - 1) : T[k] = u
  BY DEF Anchors
<1>1. T \in Seq(AnyTask) /\ Len(T) \in Nat
  BY TasksType
<1>2. T[i] \in AnyTask
  BY <1>1
<1>3. T[i] \in SlotTasks
  <2>1. T[i] \notin FixedTasks
    BY FixedForm
  <2>2. T[i] \in ResourceTasks => T[i] \in SlotTasks
    BY <2>1 DEF ResourceTasks, FixedTasks
  <2>3. T[i] \notin HookTasks
    <3>1. SUFFICES ASSUME T[i] \in HookTasks PROVE FALSE
      OBVIOUS
    <3>2. T[i].key = "qpu_slots" /\ T[i].obj = u.obj
      OBVIOUS
    <3>3. PICK j \in 1 .. 5 : T[i] = configureQueueHooksDefault[j]
      BY <3>1 DEF HookTasks
    <3>4. j = 1 \/ j = 2 \/ j = 3 \/ j = 4 \/ j = 5
      OBVIOUS
    <3>5. /\ configureQueueHooksDefault[1].key = ""
          /\ configureQueueHooksDefault[2].key = ""
          /\ configureQueueHooksDefault[3].key = ""
          /\ configureQueueHooksDefault[4].key = "hooks"
          /\ configureQueueHooksDefault[5].key = "report"
      BY DEF configureQueueHooksDefault, ensureGlobalReportingPattern, Task
    <3> QED BY <3>2, <3>3, <3>4, <3>5
  <2> QED BY <1>2, <2>2, <2>3 DEF AnyTask
<1>4. /\ Configures(o) /\ i <= Len(E) /\ Len(E) <= Len(T) /\ Len(E) \in Nat
      /\ \A j \in 1 .. Len(E) : T[j] = E[j]
  BY <1>3, TasksType, ResourceTasksType DEF Configures
<1>5. i \in 1 .. Len(E) /\ E[i].key = "qpu_slots" /\ E[i].obj = u.obj
  BY <1>4
<1>6. Anchors(E, u)
  <2>1. CASE \E h \in Hosts : u.obj = ExecHost(h)
    <3>1. PICK h \in Hosts : u.obj = ExecHost(h)
      BY <2>1
    <3>2. setExecHostResource(ExecHost(h), "qpu", "backend") \in FixedTasks
      BY DEF FixedTasks, PlainTasks
    <3>3. setExecHostResource(ExecHost(h), "qpu", "backend").obj = ExecHost(h)
      BY DEF setExecHostResource, Task
    <3>4. u = setExecHostResource(ExecHost(h), "qpu", "backend")
      BY <3>1, <3>2, <3>3, OneFixed
    <3> QED BY <3>4, ResourceTasksType
  <2>2. CASE u.obj = GlobalExecHost
    <3>1. Ready \in FixedTasks /\ Ready.obj = GlobalExecHost
      BY DEF FixedTasks, PlainTasks, Ready, setExecHostResource, Task
    <3>2. u = Ready
      BY <2>2, <3>1, OneFixed
    <3> QED BY <1>4, <3>2, ResourceTasksType DEF Ready
  <2>3. u.obj = GlobalExecHost \/ \E h \in Hosts : u.obj = ExecHost(h)
    BY <1>3, SlotTaskForm
  <2> QED BY <2>1, <2>2, <2>3
<1>7. PICK k \in 1 .. (i - 1) : E[k] = u
  BY <1>5, <1>6 DEF Anchors
<1>8. k \in 1 .. Len(E)
  BY <1>4, <1>7
<1> QED BY <1>4, <1>7, <1>8

\* So every fixed task lasts, readiness under its condition.
LEMMA LastingTasks ==
    ASSUME Good, NEW u \in FixedTasks,
           u = Ready => \A a \in Admins : Configures(opt[a]) => opt[a].sensor # NoHost
    PROVE Lasting(u)
BY AtTask, AnchoredTasks DEF Lasting

----------------------------------------------------------------------------
(* The hooks come last *)

\* The attributes of which HooksComeAfterResources speaks.
LEMMA HoldsIsHas ==
    /\ Holds(ensureComplexEntry("qpu")) <=> Has(Complex("qpu"), "shape", "right")
    /\ \A h : Holds(setExecHostResource(ExecHost(h), "qpu", "backend")) <=>
                 Has(ExecHost(h), "qpu", "backend")
    /\ Holds(ensureGlobalReportingPattern) <=> Has(GlobalConf, "report", "qrmi")
    /\ Holds(Ready) <=> Has(GlobalExecHost, "qpu_ready", 1)
    /\ \A h : Holds(configureHostLoadSensor(h)) <=> Has(HostConf(h), "sensor", "ours")
    /\ \A n : Holds(ensureComplexEntry(n)) <=> Has(Complex(n), "shape", "right")
BY DEF Holds, InCopy, Has, Ready, ensureComplexEntry, setExecHostResource,
       ensureGlobalReportingPattern, configureHostLoadSensor, Task

\* What the hooks need of one command's resources.
Needed(o) == {ensureComplexEntry("qpu")} \cup
             {setExecHostResource(ExecHost(o.hosts[i]), "qpu", "backend") : i \in 1 .. Len(o.hosts)}

\* What the hooks need lasts, whatever the commands are.
LEMMA NeededLasts ==
    ASSUME Good, NEW a \in Admins, NEW u \in Needed(opt[a])
    PROVE Lasting(u)
<1>1. opt[a] \in Option
  BY AtTask
<1>2. \A i \in 1 .. Len(opt[a].hosts) : opt[a].hosts[i] \in Hosts
  BY <1>1 DEF Option
<1>3. u \in FixedTasks
  BY <1>2 DEF Needed, FixedTasks, PlainTasks
<1>4. u # Ready
  <2>1. u.key \in {"shape", "qpu"}
    BY DEF Needed, ensureComplexEntry, setExecHostResource, Task
  <2> QED BY <2>1 DEF Ready, setExecHostResource, Task
<1> QED BY <1>3, <1>4, LastingTasks

\* A run of setup that comes to write the hooks has its resources behind it.
LEMMA NeededBehind ==
    ASSUME Good, NEW a \in Admins, opt[a].command = "setup-qrmi-support",
           TaskOf(a).kind = "hooks", NEW u \in Needed(opt[a])
    PROVE Behind(a, u)
<1> DEFINE T == Tasks(opt[a])
           E == ensureResourceDefault(opt[a])
<1>1. opt[a] \in Option /\ runs[a].at \in 1 .. Len(T) /\ TaskOf(a) = T[runs[a].at] /\ Len(T) \in Nat
  BY AtTask
<1>2. /\ Len(E) <= Len(T) /\ runs[a].at > Len(E)
      /\ \A i \in 1 .. Len(E) : T[i] = E[i]
  BY <1>1, TasksType
<1>3. /\ Len(E) \in Nat \ {0} /\ E[1] = ensureComplexEntry("qpu")
      /\ \A n \in 1 .. Len(opt[a].hosts) :
            In(setExecHostResource(ExecHost(opt[a].hosts[n]), "qpu", "backend"), E)
  BY <1>1, ResourceTasksType
<1>4. In(u, E)
  <2>1. 1 \in 1 .. Len(E)
    BY <1>3
  <2> QED BY <1>3, <2>1 DEF Needed, In
<1>5. PICK k \in 1 .. Len(E) : E[k] = u
  BY <1>4 DEF In
<1>6. k \in 1 .. Len(T) /\ k < runs[a].at /\ T[k] = u
  BY <1>1, <1>2, <1>3, <1>5
<1> QED BY <1>6 DEF Behind

\* HooksComeAfterResources by tasks.
AfterInv ==
    HooksInstalled /\ (\A a \in Admins : opt[a].command = "setup-qrmi-support") =>
        \E a \in Admins : \A u \in Needed(opt[a]) : Holds(u)

\* AfterInv is inductive: a run comes to the hooks with their resources behind it.
LEMMA AfterStep ==
    ASSUME Good, LastInv, AfterInv, [Next]_vars
    PROVE AfterInv'
<1>0. Queue \in Object
  BY Objects
<1>1. ASSUME NEW a \in Admins, Start(a) \/ Step(a)
      PROVE AfterInv'
  <2>1. opt' = opt
    BY <1>1, StepForm
       DEF Begins, Skips, Collects, Copies, Asks, Adds, Overwrites, GivesUp, Alone
  <2>2. \A b \in Admins : \A u : u \in Needed(opt[b]) /\ Holds(u) => Holds(u)'
    BY <1>1, NeededLasts, HoldsKept
  <2>3. CASE db'[Queue] = db[Queue]
    BY <2>1, <2>2, <2>3 DEF AfterInv, HooksInstalled, Needed
  <2>4. CASE Adds(a) /\ TaskOf(a).obj = Queue
    BY <2>4, AddForm, TaskFacts DEF ShowKinds
  <2>5. CASE TaskOf(a).obj = Queue /\ Writes(a) /\ At(a, "modify")
    <3>1. TaskOf(a).kind = "hooks"
      BY <2>5, WriteForm, TaskFacts
    <3>2. SUFFICES ASSUME \A b \in Admins : opt[b].command = "setup-qrmi-support"
                   PROVE \A u \in Needed(opt[a]) : Holds(u)'
      BY <2>1 DEF AfterInv, Needed
    <3> QED BY <2>2, <3>1, <3>2, NeededBehind, NeededLasts DEF LastInv
  <2> QED BY <1>0, <1>1, <2>3, <2>4, <2>5, ObjectStep
<1>2. ASSUME NEW o \in Object, NEW key \in {"other", "spool"}, Edits(o, key)
      PROVE AfterInv'
  <2>1. opt' = opt
    BY <1>2 DEF Edits
  <2>2. \A b \in Admins : \A u : u \in Needed(opt[b]) /\ Holds(u) => Holds(u)'
    BY <1>2, NeededLasts, HoldsEdit DEF Lasting
  <2>3. HooksInstalled' => HooksInstalled
    BY <1>0, <1>2 DEF HooksInstalled, Edits
  <2> QED BY <2>1, <2>2, <2>3 DEF AfterInv, Needed
<1>3. ASSUME NEW o \in Object, EditObject(o)
      PROVE AfterInv'
  BY <1>2, <1>3, EditForm
<1>4. ASSUME NEW h \in Hosts, NEW d \in Dirs, OverrideSpool(h, d)
      PROVE AfterInv'
  BY <1>2, <1>4, OverrideForm, Objects
<1>5. CASE UNCHANGED vars
  BY <1>5 DEF vars, AfterInv, HooksInstalled, Needed, Holds, InCopy
<1> QED BY <1>1, <1>3, <1>4, <1>5 DEF Next

\* In a cluster without hooks, setup installs them after the resources they need,
\* and no run, of whatever command, takes those away again.
THEOREM HooksComeLast ==
    ASSUME \A d \in Clusters : "hooks" \notin DOMAIN d[Queue]
    PROVE Spec => []HooksComeAfterResources
<1>1. Init => LastInv /\ AfterInv
  <2>1. Init => AfterInv
    BY DEF Init, AfterInv, HooksInstalled
  <2> QED BY <2>1, LastInit
<1>2. Good /\ LastInv /\ AfterInv /\ [Next]_vars => (LastInv /\ AfterInv)'
  BY LastStep, AfterStep
<1>3. AfterInv => HooksComeAfterResources
  <2>1. ASSUME NEW a \in Admins, \A u \in Needed(opt[a]) : Holds(u)
        PROVE /\ Has(Complex("qpu"), "shape", "right")
              /\ \A i \in 1 .. Len(opt[a].hosts) : Has(ExecHost(opt[a].hosts[i]), "qpu", "backend")
    BY <2>1, HoldsIsHas DEF Needed
  <2> QED BY <2>1 DEF AfterInv, HooksComeAfterResources
<1> QED BY <1>1, <1>2, <1>3, GoodInvariant, PTL DEF Spec

----------------------------------------------------------------------------
(* Setup is complete *)

Meets(s) == db[s.obj] # NoObject /\ Satisfied(s, db[s.obj])

\* Every command that touches the object of the slots task s has s itself, no
\* other slots task on it, and otherwise only tasks whose result lasts.
Agreed(s) ==
    /\ s \in SlotTasks
    /\ \A a \in Admins : \A i \in 1 .. Len(Tasks(opt[a])) :
          Tasks(opt[a])[i].obj = s.obj =>
              /\ In(s, Tasks(opt[a]))
              /\ Tasks(opt[a])[i] = s \/ Lasting(Tasks(opt[a])[i])

\* Once every run that has s is past it, the slots are as s wants them: a run
\* that could still write an old copy of the object is not past s.
SlotInv ==
    \A s :
        (/\ Agreed(s)
         /\ \E a \in Admins : In(s, Tasks(opt[a]))
         /\ \A a \in Admins : In(s, Tasks(opt[a])) => Behind(a, s)) => Meets(s)

\* SlotInv is inductive.
LEMMA SlotStep ==
    ASSUME Good, LastInv, SlotInv, [Next]_vars
    PROVE SlotInv'
<1>1. ASSUME NEW a \in Admins, Start(a) \/ Step(a)
      PROVE SlotInv'
  <2>1. opt' = opt
    BY <1>1, StepForm
       DEF Begins, Skips, Collects, Copies, Asks, Adds, Overwrites, GivesUp, Alone
  <2> SUFFICES ASSUME NEW s, Agreed(s), NEW c \in Admins, In(s, Tasks(opt[c])),
                      \A b \in Admins : In(s, Tasks(opt[b])) => Behind(b, s)'
               PROVE Meets(s)'
    BY <2>1 DEF SlotInv, Agreed, Lasting
  <2>2. /\ s \in AnyTask /\ s.kind \in {"set", "clear"} /\ s.obj \in Object
        /\ s.kind \in ShowKinds /\ s.key = "qpu_slots"
    BY SlotTaskForm, TaskFacts DEF Agreed, AnyTask, ResourceTasks, ShowKinds
  <2>3. ASSUME TaskOf(a) = s, Writes(a), At(a, "modify")
        PROVE Meets(s)'
    <3> DEFINE d == db'[s.obj]
    <3>1. /\ d # NoObject
          /\ s.kind = "clear" => s.key \notin DOMAIN d
          /\ s.kind = "set" => s.key \in DOMAIN d /\ d[s.key] = s.val
      BY <2>3, WriteForm
    <3>2. Satisfied(s, d)
      BY <2>2, <3>1 DEF Satisfied
    <3> QED BY <3>1, <3>2 DEF Meets, Satisfied
  <2>4. CASE \A b \in Admins : In(s, Tasks(opt[b])) => Behind(b, s)
    <3>1. Meets(s)
      BY <2>4 DEF SlotInv
    <3>2. CASE db'[s.obj] = db[s.obj]
      BY <3>1, <3>2 DEF Meets, Satisfied
    <3>3. CASE Adds(a) /\ TaskOf(a).obj = s.obj
      BY <3>1, <3>3, AddForm DEF Meets
    <3>4. CASE TaskOf(a).obj = s.obj /\ Writes(a) /\ At(a, "modify")
      <4>1. /\ Tasks(opt[a])[runs[a].at] = TaskOf(a) /\ runs[a].at \in 1 .. Len(Tasks(opt[a]))
            /\ Len(Tasks(opt[a])) \in Nat
        BY AtTask
      <4>2. In(s, Tasks(opt[a])) /\ (TaskOf(a) = s \/ Lasting(TaskOf(a)))
        BY <3>4, <4>1 DEF Agreed
      <4>3. ASSUME TaskOf(a) # s PROVE FALSE
        <5> DEFINE u == TaskOf(a)
        <5>1. Lasting(u) /\ Behind(a, s)
          BY <2>4, <4>2, <4>3
        <5>2. PICK k \in 1 .. Len(Tasks(opt[a])) :
                 Tasks(opt[a])[k] = s /\ (runs[a].state = "done" \/ k < runs[a].at)
          BY <5>1 DEF Behind
        <5>3. PICK j \in 1 .. (k - 1) : Tasks(opt[a])[j] = u
          BY <2>2, <3>4, <5>1, <5>2 DEF Lasting, Anchors
        <5>4. k < runs[a].at
          BY <3>4, <5>2 DEF At
        <5>5. j \in 1 .. Len(Tasks(opt[a])) /\ j < runs[a].at
          BY <4>1, <5>2, <5>3, <5>4
        <5>6. Behind(a, u)
          BY <5>3, <5>5 DEF Behind
        <5> QED BY <3>4, <5>1, <5>6 DEF LastInv, At
      <4> QED BY <2>3, <3>4, <4>3
    <3> QED BY <1>1, <2>2, <3>2, <3>3, <3>4, ObjectStep
  <2>5. CASE ~\A b \in Admins : In(s, Tasks(opt[b])) => Behind(b, s)
    <3>1. PICK b \in Admins : In(s, Tasks(opt[b])) /\ ~Behind(b, s) /\ Behind(b, s)'
      BY <2>5
    <3>2. TaskOf(a) = s /\ (Skips(a) \/ Collects(a) \/ Adds(a) \/ Overwrites(a))
      BY <1>1, <3>1, BehindStep
    <3>3. CASE Skips(a)
      BY <3>2, <3>3 DEF Skips, Meets, Satisfied
    <3>4. ~Collects(a)
      BY <2>2, <3>2 DEF Collects, Calls
    <3>5. ~Adds(a)
      BY <2>2, <3>2, AddForm
    <3>6. CASE Overwrites(a)
      BY <2>3, <3>2, <3>6 DEF Overwrites
    <3> QED BY <3>2, <3>3, <3>4, <3>5, <3>6
  <2> QED BY <2>4, <2>5
<1>2. ASSUME NEW o \in Object, NEW key \in {"other", "spool"}, Edits(o, key),
             \A a \in Admins : runs'[a].state = runs[a].state /\ runs'[a].at = runs[a].at
      PROVE SlotInv'
  <2>1. opt' = opt
    BY <1>2 DEF Edits
  <2> SUFFICES ASSUME NEW s, Agreed(s), NEW c \in Admins, In(s, Tasks(opt[c])),
                      \A b \in Admins : In(s, Tasks(opt[b])) => Behind(b, s)'
               PROVE Meets(s)'
    BY <2>1 DEF SlotInv, Agreed, Lasting
  <2>2. \A b \in Admins : Behind(b, s)' <=> Behind(b, s)
    BY <1>2, <2>1 DEF Behind
  <2>3. Meets(s)
    BY <2>2 DEF SlotInv
  <2>4. s.obj \in Object /\ s.key = "qpu_slots"
    BY SlotTaskForm, TaskFacts DEF Agreed, AnyTask, ResourceTasks
  <2>5. /\ db'[s.obj] # NoObject
        /\ s.key \in DOMAIN db'[s.obj] <=> s.key \in DOMAIN db[s.obj]
        /\ s.key \in DOMAIN db[s.obj] => db'[s.obj][s.key] = db[s.obj][s.key]
    BY <1>2, <2>3, <2>4 DEF Edits, Meets
  <2> QED BY <2>3, <2>5 DEF Meets, Satisfied
<1>3. ASSUME NEW o \in Object, EditObject(o)
      PROVE SlotInv'
  BY <1>2, <1>3, EditForm
<1>4. ASSUME NEW h \in Hosts, NEW d \in Dirs, OverrideSpool(h, d)
      PROVE SlotInv'
  BY <1>2, <1>4, OverrideForm, Objects
<1>5. CASE UNCHANGED vars
  BY <1>5 DEF vars, SlotInv, Agreed, Lasting, Behind, Meets, Satisfied
<1> QED BY <1>1, <1>3, <1>4, <1>5 DEF Next

\* The hooks stay in the queue once a run is past them.
InstalledInv ==
    \A a \in Admins : \A u : u.kind = "hooks" /\ Behind(a, u) => HooksInstalled

\* InstalledInv is inductive: no task takes the hooks away.
LEMMA InstalledStep ==
    ASSUME Good, InstalledInv, [Next]_vars
    PROVE InstalledInv'
<1>0. Queue \in Object
  BY Objects
<1>1. ASSUME NEW a \in Admins, Start(a) \/ Step(a)
      PROVE InstalledInv'
  <2>1. HooksInstalled => HooksInstalled'
    <3>1. CASE db'[Queue] = db[Queue]
      BY <3>1 DEF HooksInstalled
    <3>2. CASE Adds(a) /\ TaskOf(a).obj = Queue
      BY <3>2, AddForm, TaskFacts DEF ShowKinds
    <3>3. CASE TaskOf(a).obj = Queue /\ Writes(a) /\ At(a, "modify")
      <4>1. TaskOf(a).kind = "hooks" /\ TaskOf(a).key = "hooks"
        BY <3>3, WriteForm, TaskFacts
      <4> QED BY <3>3, <4>1, WriteForm DEF HooksInstalled
    <3> QED BY <1>0, <1>1, <3>1, <3>2, <3>3, ObjectStep
  <2>2. ASSUME NEW u, u.kind = "hooks", TaskOf(a) = u,
               Skips(a) \/ Collects(a) \/ Adds(a) \/ Overwrites(a)
        PROVE HooksInstalled'
    <3>1. ~Skips(a)
      BY <2>2 DEF Skips, Satisfied
    <3>2. ~Collects(a)
      BY <2>2 DEF Collects, Calls
    <3>3. ~Adds(a)
      BY <2>2, AddForm
    <3>4. Writes(a) /\ At(a, "modify")
      BY <2>2, <3>1, <3>2, <3>3 DEF Overwrites
    <3>5. TaskOf(a).obj = Queue /\ TaskOf(a).key = "hooks"
      BY <2>2, <3>4, WriteForm, TaskFacts
    <3> QED BY <2>2, <3>4, <3>5, WriteForm DEF HooksInstalled
  <2> QED BY <1>1, <2>1, <2>2, BehindStep DEF InstalledInv
<1>2. ASSUME NEW o \in Object, NEW key \in {"other", "spool"}, Edits(o, key),
             \A a \in Admins : runs'[a].state = runs[a].state /\ runs'[a].at = runs[a].at
      PROVE InstalledInv'
  <2>1. HooksInstalled => HooksInstalled'
    BY <1>0, <1>2 DEF HooksInstalled, Edits
  <2>2. opt' = opt
    BY <1>2 DEF Edits
  <2>3. \A a \in Admins : \A u : Behind(a, u)' => Behind(a, u)
    BY <1>2, <2>2 DEF Behind
  <2> QED BY <2>1, <2>3 DEF InstalledInv
<1>3. ASSUME NEW o \in Object, EditObject(o)
      PROVE InstalledInv'
  BY <1>2, <1>3, EditForm
<1>4. ASSUME NEW h \in Hosts, NEW d \in Dirs, OverrideSpool(h, d)
      PROVE InstalledInv'
  BY <1>2, <1>4, OverrideForm, Objects
<1>5. CASE UNCHANGED vars
  BY <1>5 DEF vars, InstalledInv, Behind, HooksInstalled
<1> QED BY <1>1, <1>3, <1>4, <1>5 DEF Next

\* The commands that configure resources are given the same ones.
Alike ==
    \A c \in Commands : \A a, b \in Admins : Configures(c[a]) /\ Configures(c[b]) =>
        /\ c[a].hosts = c[b].hosts /\ c[a].slots = c[b].slots
        /\ c[a].capacity = c[b].capacity /\ c[a].sensor = c[b].sensor

\* Equal options ask for equal tasks.
LEMMA SameTasks ==
    ASSUME NEW o, NEW p, o.hosts = p.hosts, o.slots = p.slots, o.capacity = p.capacity,
           o.sensor = p.sensor
    PROVE /\ ensureResourceDefault(o) = ensureResourceDefault(p)
          /\ \A obj : SlotsTask(o, obj) = SlotsTask(p, obj)
<1>1. \A obj : SlotsTask(o, obj) = SlotsTask(p, obj)
  BY DEF SlotsTask
<1>2. HostTasks(o) = HostTasks(p)
  BY <1>1 DEF HostTasks
<1> QED BY <1>1, <1>2 DEF ensureResourceDefault

\* Under Alike every slots task of a command is agreed on.
LEMMA AgreedTasks ==
    ASSUME Good, Alike, NEW a \in Admins, NEW s \in SlotTasks, In(s, Tasks(opt[a]))
    PROVE Agreed(s)
<1> DEFINE T(b) == Tasks(opt[b])
           E(b) == ensureResourceDefault(opt[b])
<1>1. \A b \in Admins : opt[b] \in Option
  BY AtTask
<1>2. PICK n \in 1 .. Len(T(a)) : T(a)[n] = s
  BY DEF In
<1>3. Configures(opt[a]) /\ n <= Len(E(a))
  BY <1>1, <1>2, TasksType DEF Configures
<1>4. /\ n \in 1 .. Len(E(a)) /\ E(a)[n] = s
  BY <1>1, <1>2, <1>3, TasksType DEF Configures
<1>5. s.key = "qpu_slots" /\ (s.obj = GlobalExecHost \/ \E h \in Hosts : s.obj = ExecHost(h))
  BY SlotTaskForm
<1>6. s = SlotsTask(opt[a], s.obj)
  BY <1>1, <1>4, <1>5, ResourceTasksType
<1>7. ASSUME NEW b \in Admins, NEW i \in 1 .. Len(T(b)), T(b)[i].obj = s.obj
      PROVE In(s, T(b)) /\ (T(b)[i] = s \/ Lasting(T(b)[i]))
  <2> DEFINE t == T(b)[i]
  <2>1. t \notin HookTasks
    <3>1. t \in HookTasks => t.obj \in {Queue, GlobalConf}
      BY HookTaskForm
    <3> QED BY <1>5, <1>7, <3>1, Objects
  <2>2. Configures(opt[b])
    BY <1>1, <2>1, TasksType DEF Configures
  <2>3. /\ i <= Len(E(b)) /\ Len(E(b)) <= Len(T(b)) /\ Len(E(b)) \in Nat
        /\ \A j \in 1 .. Len(E(b)) : T(b)[j] = E(b)[j]
    <3>1. ~(i > Len(E(b)))
      BY <1>1, <2>1, <2>2, TasksType DEF Configures
    <3>2. Len(E(b)) \in Nat /\ Len(T(b)) \in Nat
      BY <1>1, TasksType, ResourceTasksType
    <3>3. Len(E(b)) <= Len(T(b)) /\ \A j \in 1 .. Len(E(b)) : T(b)[j] = E(b)[j]
      BY <1>1, <2>2, TasksType DEF Configures
    <3> QED BY <3>1, <3>2, <3>3
  <2>4. i \in 1 .. Len(E(b)) /\ E(b)[i] = t
    BY <2>3
  <2>5. /\ opt[a].hosts = opt[b].hosts /\ opt[a].slots = opt[b].slots
        /\ opt[a].capacity = opt[b].capacity /\ opt[a].sensor = opt[b].sensor
    BY <1>3, <2>2 DEF Alike, Good, Shape
  <2>6. E(a) = E(b) /\ SlotsTask(opt[a], s.obj) = SlotsTask(opt[b], s.obj)
    BY <2>5, SameTasks
  <2>7. In(s, T(b))
    <3>1. n \in 1 .. Len(E(b)) /\ E(b)[n] = s
      BY <1>4, <2>6
    <3>2. n \in 1 .. Len(T(b)) /\ T(b)[n] = s
      BY <2>3, <3>1
    <3> QED BY <3>2 DEF In
  <2>8. t \in ResourceTasks
    <3>1. E(b) \in Seq(ResourceTasks)
      BY <1>1, ResourceTasksType
    <3> QED BY <2>4, <3>1
  <2>9. CASE t \in SlotTasks
    <3>1. t.key = "qpu_slots"
      BY <2>9, SlotTaskForm
    <3>2. t = SlotsTask(opt[b], t.obj)
      BY <1>1, <2>4, <3>1, ResourceTasksType
    <3> QED BY <1>6, <1>7, <2>6, <2>7, <3>2
  <2>10. CASE t \in PlainTasks
    <3>1. t \in FixedTasks
      BY <2>10 DEF FixedTasks
    <3>2. ASSUME t = Ready, NEW c \in Admins, Configures(opt[c]) PROVE opt[c].sensor # NoHost
      <4>1. t.key = "qpu_ready"
        BY <3>2 DEF Ready, setExecHostResource, Task
      <4>2. opt[b].sensor # NoHost
        BY <1>1, <2>4, <4>1, ResourceTasksType
      <4>3. opt[c].sensor = opt[b].sensor
        BY <2>2, <3>2 DEF Alike, Good, Shape
      <4> QED BY <4>2, <4>3
    <3>3. Lasting(t)
      BY <3>1, <3>2, LastingTasks
    <3> QED BY <2>7, <3>3
  <2> QED BY <2>8, <2>9, <2>10 DEF ResourceTasks
<1> QED BY <1>7 DEF Agreed

\* A command that has finished has all of its tasks behind it.
LEMMA AllBehind ==
    ASSUME NEW a \in Admins, runs[a].state = "done", NEW u, In(u, Tasks(opt[a]))
    PROVE Behind(a, u)
BY DEF In, Behind

\* The resources of a command that configures them, when all are finished.
LEMMA ResourcesDone ==
    ASSUME Alike, Good, LastInv, SlotInv, \A a \in Admins : runs[a].state = "done",
           NEW a \in Admins, Configures(opt[a])
    PROVE ResourcesConfigured(opt[a])
<1> DEFINE o == opt[a]
           E == ensureResourceDefault(o)
<1>1. o \in Option
  BY AtTask
<1>2. \A x : In(x, E) => In(x, Tasks(o))
  <2> SUFFICES ASSUME NEW x, In(x, E) PROVE In(x, Tasks(o))
    OBVIOUS
  <2>1. PICK k \in 1 .. Len(E) : E[k] = x
    BY DEF In
  <2>2. Len(E) <= Len(Tasks(o)) /\ Tasks(o)[k] = E[k]
    BY <1>1, TasksType DEF Configures
  <2>3. Len(E) \in Nat /\ Len(Tasks(o)) \in Nat
    BY <1>1, TasksType, ResourceTasksType
  <2>4. k \in 1 .. Len(Tasks(o))
    BY <2>1, <2>2, <2>3
  <2> QED BY <2>1, <2>2, <2>4 DEF In
<1>3. ASSUME NEW u \in FixedTasks, In(u, E), u = Ready => o.sensor # NoHost
      PROVE Holds(u)
  <2>1. ASSUME u = Ready, NEW c \in Admins, Configures(opt[c]) PROVE opt[c].sensor # NoHost
    <3>1. opt[c].sensor = o.sensor
      BY <2>1 DEF Alike, Good, Shape
    <3> QED BY <1>3, <2>1, <3>1
  <2>2. Lasting(u)
    BY <2>1, LastingTasks
  <2>3. Behind(a, u)
    BY <1>2, <1>3, AllBehind
  <2> QED BY <2>2, <2>3 DEF LastInv
<1>4. ASSUME NEW obj \in {ExecHost(h) : h \in Hosts} \cup {GlobalExecHost}, In(SlotsTask(o, obj), E)
      PROVE HasSlots(o, obj)
  <2> DEFINE s == SlotsTask(o, obj)
  <2>1. s \in SlotTasks /\ In(s, Tasks(o))
    BY <1>1, <1>2, <1>4, SlotsTaskType
  <2>2. Agreed(s)
    BY <2>1, AgreedTasks
  <2>3. Meets(s)
    BY <2>1, <2>2, AllBehind DEF SlotInv
  <2>4. CASE o.capacity > 0
    <3>1. /\ s.kind = "set" /\ s.obj = obj /\ s.key = "qpu_slots" /\ s.val = o.capacity
      BY <2>4 DEF SlotsTask, setExecHostResource, Task
    <3>2. Has(obj, "qpu_slots", o.capacity)
      BY <2>3, <3>1 DEF Meets, Satisfied, Has
    <3> QED BY <2>4, <3>2 DEF HasSlots
  <2>5. CASE ~(o.capacity > 0)
    <3>1. s.kind = "clear" /\ s.obj = obj /\ s.key = "qpu_slots"
      BY <2>5 DEF SlotsTask, clearExecHostResource, Task
    <3>2. "qpu_slots" \notin DOMAIN db[obj]
      BY <2>3, <3>1 DEF Meets, Satisfied
    <3> QED BY <2>5, <3>2 DEF HasSlots
  <2> QED BY <2>4, <2>5
<1>5. /\ E \in Seq(ResourceTasks) /\ Len(E) \in Nat \ {0}
      /\ E[1] = ensureComplexEntry("qpu")
      /\ o.slots # "off" => In(ensureComplexEntry("qpu_slots"), E)
      /\ o.slots = "global" => In(SlotsTask(o, GlobalExecHost), E)
      /\ o.sensor # NoHost => /\ In(ensureComplexEntry("qpu_ready"), E)
                              /\ In(Ready, E)
                              /\ In(configureHostLoadSensor(o.sensor), E)
      /\ \A n \in 1 .. Len(o.hosts) :
            /\ In(setExecHostResource(ExecHost(o.hosts[n]), "qpu", "backend"), E)
            /\ o.slots = "host" => In(SlotsTask(o, ExecHost(o.hosts[n])), E)
  BY <1>1, ResourceTasksType DEF Ready
<1>6. /\ \A n \in 1 .. Len(o.hosts) : o.hosts[n] \in Hosts
      /\ o.sensor # NoHost => o.sensor \in Hosts
  BY <1>1 DEF Option
<1>7. In(ensureComplexEntry("qpu"), E)
  <2>1. 1 \in 1 .. Len(E)
    BY <1>5
  <2> QED BY <1>5, <2>1 DEF In
<1> HIDE DEF E
<1>8. \A n \in {"qpu", "qpu_slots", "qpu_ready"} :
         In(ensureComplexEntry(n), E) => Has(Complex(n), "shape", "right")
  <2> TAKE n \in {"qpu", "qpu_slots", "qpu_ready"}
  <2>1. ensureComplexEntry(n) \in FixedTasks
    BY DEF FixedTasks, PlainTasks
  <2>2. ensureComplexEntry(n) # Ready
    BY DEF ensureComplexEntry, Ready, setExecHostResource, Task
  <2> QED BY <1>3, <2>1, <2>2, HoldsIsHas
<1>9. o.sensor # NoHost => Has(GlobalExecHost, "qpu_ready", 1)
  <2>1. Ready \in FixedTasks
    BY DEF FixedTasks, PlainTasks, Ready
  <2> QED BY <1>3, <1>5, <2>1, HoldsIsHas
<1>10. o.sensor # NoHost => Has(HostConf(o.sensor), "sensor", "ours")
  <2>1. o.sensor # NoHost => configureHostLoadSensor(o.sensor) \in FixedTasks
    BY <1>6 DEF FixedTasks, PlainTasks
  <2> QED BY <1>3, <1>5, <2>1, HoldsIsHas
<1>11. ASSUME NEW n \in 1 .. Len(o.hosts)
       PROVE /\ Has(ExecHost(o.hosts[n]), "qpu", "backend")
             /\ o.slots = "host" => HasSlots(o, ExecHost(o.hosts[n]))
  <2>1. setExecHostResource(ExecHost(o.hosts[n]), "qpu", "backend") \in FixedTasks
    BY <1>6 DEF FixedTasks, PlainTasks
  <2>2. setExecHostResource(ExecHost(o.hosts[n]), "qpu", "backend") # Ready
    BY DEF Ready, setExecHostResource, Task
  <2>3. Has(ExecHost(o.hosts[n]), "qpu", "backend")
    BY <1>3, <1>5, <2>1, <2>2, HoldsIsHas
  <2> QED BY <1>4, <1>5, <1>6, <2>3
<1>12. o.slots = "global" => HasSlots(o, GlobalExecHost)
  BY <1>4, <1>5
<1>13. /\ Has(Complex("qpu"), "shape", "right")
       /\ o.slots # "off" => Has(Complex("qpu_slots"), "shape", "right")
       /\ o.sensor # NoHost => Has(Complex("qpu_ready"), "shape", "right")
  BY <1>5, <1>7, <1>8
<1> QED BY <1>9, <1>10, <1>11, <1>12, <1>13 DEF ResourcesConfigured

\* If the commands that configure resources are given the same resources, then
\* once every command has reported success everything is configured, however
\* the runs overlapped, failed and were repeated: no Modify with an old copy
\* undoes another run's work for good.
THEOREM SuccessIsComplete ==
    ASSUME Alike
    PROVE Spec => []SetupIsComplete
<1>1. Init => LastInv /\ SlotInv /\ InstalledInv
  <2> SUFFICES ASSUME Init PROVE LastInv /\ SlotInv /\ InstalledInv
    OBVIOUS
  <2>1. \A a \in Admins : runs[a].state = "idle" /\ runs[a].at = 1
    BY DEF Init
  <2>2. \A a \in Admins : Len(Tasks(opt[a])) \in Nat
    BY GoodInit, AtTask
  <2>3. \A a \in Admins : \A u : ~Behind(a, u)
    BY <2>1, <2>2 DEF Behind
  <2>4. SlotInv /\ InstalledInv
    BY <2>3 DEF SlotInv, InstalledInv
  <2> QED BY <2>4, LastInit
<1>2. Good /\ LastInv /\ SlotInv /\ InstalledInv /\ [Next]_vars =>
          (LastInv /\ SlotInv /\ InstalledInv)'
  BY LastStep, SlotStep, InstalledStep
<1>3. Good /\ LastInv /\ SlotInv /\ InstalledInv => SetupIsComplete
  <2> SUFFICES ASSUME Good, LastInv, SlotInv, InstalledInv,
                      \A b \in Admins : runs[b].state = "done", NEW a \in Admins
               PROVE /\ opt[a].command # "configure-queue-hooks" => ResourcesConfigured(opt[a])
                     /\ opt[a].command # "ensure-resource" =>
                            HooksInstalled /\ Has(GlobalConf, "report", "qrmi")
    BY DEF SetupIsComplete
  <2>1. opt[a].command # "configure-queue-hooks" => ResourcesConfigured(opt[a])
    BY ResourcesDone DEF Configures
  <2>2. ASSUME opt[a].command # "ensure-resource"
        PROVE HooksInstalled /\ Has(GlobalConf, "report", "qrmi")
    <3>1. /\ In(ensureGlobalReportingPattern, Tasks(opt[a]))
          /\ \E i \in 1 .. Len(Tasks(opt[a])) : Tasks(opt[a])[i].kind = "hooks"
      BY <2>2, AtTask, TasksType
    <3>2. HooksInstalled
      <4>1. PICK i \in 1 .. Len(Tasks(opt[a])) : Tasks(opt[a])[i].kind = "hooks"
        BY <3>1
      <4>2. Behind(a, Tasks(opt[a])[i])
        BY <4>1 DEF Behind
      <4> QED BY <4>1, <4>2 DEF InstalledInv
    <3>3. ensureGlobalReportingPattern \in FixedTasks
      BY DEF FixedTasks
    <3>4. ensureGlobalReportingPattern # Ready
      BY DEF ensureGlobalReportingPattern, Ready, setExecHostResource, Task
    <3>5. Holds(ensureGlobalReportingPattern)
      BY <3>1, <3>3, <3>4, LastingTasks, AllBehind DEF LastInv
    <3> QED BY <3>2, <3>5, HoldsIsHas
  <2> QED BY <2>1, <2>2
<1> QED BY <1>1, <1>2, <1>3, GoodInvariant, PTL DEF Spec

----------------------------------------------------------------------------
(* The command is run again *)

\* A hooks task is among a's tasks, and a's run has one behind it.
Installs(a)  == \E i \in 1 .. Len(Tasks(opt[a])) : Tasks(opt[a])[i].kind = "hooks"
PastHooks(a) == \E u : u.kind = "hooks" /\ Behind(a, u)

\* Once every run that installs hooks was begun after the last change of a spool
\* directory and is past them, so are the hooks in the queue.
RerunInv ==
    (/\ \E a \in Admins : Installs(a)
     /\ \A a \in Admins : Installs(a) => runs[a].fresh /\ PastHooks(a)) => fresh

\* A run at a hooks task is a run that installs hooks.
LEMMA AtHooksInstalls ==
    ASSUME Good, NEW a \in Admins, TaskOf(a).kind = "hooks"
    PROVE Installs(a)
BY AtTask DEF Installs

\* RerunInv is inductive: hooks are written at every run, with the run's own mark.
LEMMA RerunStep ==
    ASSUME Good, RerunInv, [Next]_vars
    PROVE RerunInv'
<1>1. ASSUME NEW a \in Admins, Start(a) \/ Step(a)
      PROVE RerunInv'
  <2>0. \/ Begins(a) \/ Skips(a) \/ Collects(a) \/ Copies(a) \/ Asks(a)
        \/ Adds(a) \/ Overwrites(a) \/ GivesUp(a)
    BY <1>1, StepForm
  <2>1. opt' = opt /\ \A b \in Admins \ {a} : runs'[b] = runs[b]
    BY <2>0 DEF Begins, Skips, Collects, Copies, Asks, Adds, Overwrites, GivesUp, Alone
  <2> SUFFICES ASSUME NEW c \in Admins, Installs(c),
                      \A b \in Admins : Installs(b) => runs'[b].fresh /\ PastHooks(b)'
               PROVE fresh'
    BY <2>1 DEF RerunInv, Installs
  <2>2. ASSUME TaskOf(a).kind = "hooks", Overwrites(a)
        PROVE fresh'
    <3>1. fresh' = runs[a].fresh /\ runs'[a].fresh = runs[a].fresh
      BY <2>2 DEF Overwrites, Writes, Passes, Breaks
    <3>2. Installs(a)
      BY <2>2, AtHooksInstalls
    <3> QED BY <3>1, <3>2
  <2>3. CASE \A b \in Admins : Installs(b) => runs[b].fresh /\ PastHooks(b)
    <3>1. fresh
      BY <2>3 DEF RerunInv
    <3>2. Overwrites(a) /\ TaskOf(a).kind # "hooks" => fresh' = fresh
      BY DEF Overwrites, Writes
    <3> QED BY <2>0, <2>2, <3>1, <3>2
            DEF Begins, Skips, Collects, Copies, Asks, Adds, GivesUp
  <2>4. CASE ~\A b \in Admins : Installs(b) => runs[b].fresh /\ PastHooks(b)
    <3>1. PICK b \in Admins : Installs(b) /\ ~(runs[b].fresh /\ PastHooks(b))
      BY <2>4
    <3>2. PICK u : u.kind = "hooks" /\ Behind(b, u)'
      BY <3>1 DEF PastHooks
    <3>3. CASE ~Behind(b, u)
      <4>1. TaskOf(a) = u /\ (Skips(a) \/ Collects(a) \/ Adds(a) \/ Overwrites(a))
        BY <1>1, <3>2, <3>3, BehindStep
      <4>2. ~Skips(a) /\ ~Collects(a)
        BY <3>2, <4>1 DEF Skips, Satisfied, Collects, Calls
      <4>3. ~Adds(a)
        BY <3>2, <4>1, AddForm
      <4> QED BY <2>2, <3>2, <4>1, <4>2, <4>3
    <3>4. CASE Behind(b, u)
      <4>1. ~runs[b].fresh /\ runs'[b].fresh
        BY <3>1, <3>2, <3>4 DEF PastHooks
      <4>2. b = a /\ Begins(a)
        BY <2>0, <2>1, <4>1
           DEF Skips, Collects, Copies, Asks, Adds, Overwrites, GivesUp, Passes, Breaks
      <4>3. runs'[b].state = "running" /\ runs'[b].at = 1
        BY <4>2 DEF Begins
      <4>4. ~Behind(b, u)'
        <5>1. Len(Tasks(opt[b])) \in Nat
          BY AtTask
        <5> QED BY <2>1, <4>3, <5>1 DEF Behind
      <4> QED BY <3>2, <4>4
    <3> QED BY <3>3, <3>4
  <2> QED BY <2>3, <2>4
<1>2. ASSUME NEW o \in Object, EditObject(o)
      PROVE RerunInv'
  <2>1. opt' = opt /\ runs' = runs /\ fresh' = fresh
    BY <1>2, EditForm DEF Edits
  <2> QED BY <2>1 DEF RerunInv, Installs, PastHooks, Behind
<1>3. ASSUME NEW h \in Hosts, NEW d \in Dirs, OverrideSpool(h, d)
      PROVE RerunInv'
  <2>1. \A a \in Admins : ~runs'[a].fresh
    BY <1>3, OverrideForm
  <2> QED BY <2>1 DEF RerunInv
<1>4. CASE UNCHANGED vars
  BY <1>4 DEF vars, RerunInv, Installs, PastHooks, Behind
<1> QED BY <1>1, <1>2, <1>3, <1>4 DEF Next

\* Under the assumptions of HooksStartEverywhere, running the commands that
\* install the hooks again is enough: once they all have succeeded since the
\* last change of a spool directory, the hooks start for jobs on every host.
THEOREM RunAgainSuffices ==
    ASSUME GlobalShowFails = FALSE, Plain = Dirs, SgeCell = "plain"
    PROVE Spec => []RunAgainRenewsHooks
<1>1. Init => InstalledInv /\ RerunInv
  <2> SUFFICES ASSUME Init PROVE InstalledInv /\ RerunInv
    OBVIOUS
  <2>1. \A a \in Admins : runs[a].state = "idle" /\ runs[a].at = 1
    BY DEF Init
  <2>2. \A a \in Admins : Len(Tasks(opt[a])) \in Nat
    BY GoodInit, AtTask
  <2>3. \A a \in Admins : \A u : ~Behind(a, u)
    BY <2>1, <2>2 DEF Behind
  <2> QED BY <2>3 DEF InstalledInv, RerunInv, PastHooks
<1>2. Good /\ InstalledInv /\ RerunInv /\ [Next]_vars => (InstalledInv /\ RerunInv)'
  BY InstalledStep, RerunStep
<1>3. Good /\ InstalledInv /\ RerunInv /\ HooksAdmitEveryHost => RunAgainRenewsHooks
  <2> SUFFICES ASSUME Good, InstalledInv, RerunInv, HooksAdmitEveryHost, RunAgain
               PROVE \A h \in Hosts : HostConf(h) \notin raced =>
                        HookStart(JobEnviron(h), Settings, TRUE) = "ok"
    BY DEF RunAgainRenewsHooks
  <2>1. \A a \in Admins : Installs(a) <=> InstallsHooks(opt[a])
    <3> SUFFICES ASSUME NEW a \in Admins PROVE Installs(a) <=> InstallsHooks(opt[a])
      OBVIOUS
    <3>1. opt[a] \in Option /\ Len(Tasks(opt[a])) \in Nat
      BY AtTask
    <3>2. InstallsHooks(opt[a]) => Installs(a)
      BY <3>1, TasksType DEF Installs, InstallsHooks
    <3>3. CASE opt[a].command = "ensure-resource"
      <4>1. Tasks(opt[a]) = ensureResourceDefault(opt[a])
        BY <3>3 DEF Tasks
      <4>2. \A i \in 1 .. Len(Tasks(opt[a])) :
               Tasks(opt[a])[i].kind = "hooks" => i > Len(ensureResourceDefault(opt[a]))
        BY <3>1, <3>3, TasksType
      <4> QED BY <3>1, <3>3, <4>1, <4>2 DEF Installs, InstallsHooks
    <3> QED BY <3>2, <3>3 DEF InstallsHooks
  <2>2. ASSUME NEW a \in Admins, Installs(a)
        PROVE runs[a].fresh /\ PastHooks(a)
    <3>1. runs[a].state = "done" /\ runs[a].fresh
      BY <2>1, <2>2 DEF RunAgain
    <3>2. PICK i \in 1 .. Len(Tasks(opt[a])) : Tasks(opt[a])[i].kind = "hooks"
      BY <2>2 DEF Installs
    <3>3. Behind(a, Tasks(opt[a])[i])
      BY <3>1, <3>2 DEF Behind
    <3> QED BY <3>1, <3>2, <3>3 DEF PastHooks
  <2>3. PICK a \in Admins : Installs(a)
    BY <2>1 DEF RunAgain
  <2>4. fresh
    BY <2>2, <2>3 DEF RerunInv
  <2>5. HooksInstalled
    BY <2>2, <2>3 DEF PastHooks, InstalledInv
  <2> QED BY <2>4, <2>5 DEF HooksAdmitEveryHost
<1> QED BY <1>1, <1>2, <1>3, GoodInvariant, HooksStartEverywhere, PTL DEF Spec
=============================================================================

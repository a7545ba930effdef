---------------------------- MODULE MCClusterSetup ----------------------------
(***************************************************************************)
(* The clusters and commands of the instances of ClusterSetup that TLC     *)
(* checks: two administrators, host h1 with the load sensor, host h2 with  *)
(* a spool directory of its own.                                           *)
(***************************************************************************)
EXTENDS ClusterSetup, TLC

CONSTANTS a1, a2, h1, h2, d0, d1

\* d0 is the global spool directory, below $SGE_ROOT.
BelowRoot == {<<d0, SgeRoot>>}

\* A cluster the adapter has never seen, and one with other values throughout.
NewCluster ==
    [o \in Object |->
        CASE o[1] = "complex"  -> NoObject
          [] o = HostConf(h1)  -> NoObject
          [] o = HostConf(h2)  -> [other |-> 0, spool |-> d1]
          [] o = GlobalConf    -> [other |-> 0, spool |-> d0]
          [] OTHER             -> [other |-> 0]]

UsedCluster ==
    [o \in Object |->
        CASE o = Complex("qpu")       -> [shape |-> "old"]
          [] o = Complex("qpu_slots") -> [shape |-> "right"]
          [] o = Complex("qpu_ready") -> NoObject
          [] o = ExecHost(h1)         -> [other |-> 0, qpu |-> "old", qpu_slots |-> 4]
          [] o = HostConf(h1)         -> [other |-> 0, sensor |-> "old"]
          [] o = HostConf(h2)         -> [other |-> 0, spool |-> d1]
          [] o = GlobalConf           -> [other |-> 0, spool |-> d0, report |-> "qrmi"]
          [] OTHER                    -> [other |-> 0]]

TwoClusters == {NewCluster, UsedCluster}

Setup(slots, capacity, sensor) ==
    [command |-> "setup-qrmi-support", hosts |-> <<h1>>, slots |-> slots,
     capacity |-> capacity, sensor |-> sensor]

\* Both run the same setup, or one configures the resources and the other the
\* hooks.
SameOrShared ==
    {[a \in {a1, a2} |-> Setup("host", 1, NoHost)],
     [a \in {a1, a2} |-> Setup("global", 0, h1)],
     (a1 :> [Setup("host", 0, h1) EXCEPT !.command = "ensure-resource"])
        @@ (a2 :> [Setup("off", 0, NoHost) EXCEPT !.command = "configure-queue-hooks"])}

OneSetup == {(a1 :> Setup("off", 0, NoHost))}
===============================================================================

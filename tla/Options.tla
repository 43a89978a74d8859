------------------------------- MODULE Options -------------------------------
(***************************************************************************)
(* Functional options, as the manager (pkg/mgr), the controller            *)
(* (pkg/controller) and the heartbeat (pkg/heartbeat) take them: New has   *)
(* defaults, goes through the options in the order they are given, and     *)
(* only then looks at the result.  An option sets a field, or a part of a  *)
(* field, adds to a list or puts something into a map under a name.        *)
(*                                                                         *)
(* Options that the two commands do not use are left out.                  *)
(***************************************************************************)
EXTENDS Integers, Sequences

\* What is not given: an empty string, or nil.
Unset == ""

Set(field, v)        == [how |-> "set", field |-> field, value |-> v]
SetPart(field, p, v) == [how |-> "part", field |-> field, part |-> p, value |-> v]
Add(field, v)        == [how |-> "add", field |-> field, value |-> v]
Put(field, name, v)  == [how |-> "put", field |-> field, part |-> name, value |-> v]

\* A map that has an entry more, or another one under its name.
With(map, name, v) ==
    [x \in DOMAIN map \cup {name} |-> IF x = name THEN v ELSE map[x]]

\* Mutated: a list has its last element only.
ApplyReplaces(c, o) ==
    CASE o.how = "part" -> [c EXCEPT ![o.field][o.part] = o.value]
      [] o.how = "add"  -> [c EXCEPT ![o.field] = <<o.value>>]
      [] o.how = "put"  -> [c EXCEPT ![o.field] = With(@, o.part, o.value)]
      [] OTHER          -> [c EXCEPT ![o.field] = o.value]

Apply(c, o) ==
    CASE o.how = "set"  -> [c EXCEPT ![o.field] = o.value]
      [] o.how = "part" -> [c EXCEPT ![o.field][o.part] = o.value]
      [] o.how = "add"  -> [c EXCEPT ![o.field] = Append(@, o.value)]
      [] o.how = "put"  -> [c EXCEPT ![o.field] = With(@, o.part, o.value)]

Configure(defaults, opts) ==
    LET after[n \in 0..Len(opts)] ==
            IF n = 0 THEN defaults ELSE Apply(after[n - 1], opts[n])
    IN  after[Len(opts)]

Elements(list) == {list[k] : k \in DOMAIN list}
NoEntries == [name \in {} |-> Unset]

-----------------------------------------------------------------------------
(* The manager *)

Minutes(n) == n * 60

DefaultControllerOptions == [workers |-> 5, timeout |-> Minutes(3), recoverPanic |-> TRUE]

ManagerDefaults ==
    [restConfig |-> Unset, addToSchemes |-> <<>>, installSchemes |-> <<>>,
     healthProbeAddr |-> Unset, controllerOpts |-> DefaultControllerOptions,
     leaderElection |-> [enabled |-> FALSE, id |-> Unset, namespace |-> Unset, cluster |-> Unset],
     webhookServer |-> Unset, runnables |-> <<>>,
     healthzChecks |-> NoEntries, readyzChecks |-> NoEntries]

WithConfig(c)                  == Set("restConfig", c)
WithAddToScheme(group)         == Add("addToSchemes", group)
WithInstallScheme(group)       == Add("installSchemes", group)
WithLeaderElection(enable)     == SetPart("leaderElection", "enabled", enable)
WithLeaderElectionID(id)       == SetPart("leaderElection", "id", id)
WithLeaderElectionNamespace(n) == SetPart("leaderElection", "namespace", n)
WithLeaderElectionConfig(c)    == SetPart("leaderElection", "cluster", c)
WithMaxConcurrentReconciles(n) == SetPart("controllerOpts", "workers", n)
\* Mutated: the other controller options get their defaults back.
WithReconciliationTimeoutOnly(t) ==
    Set("controllerOpts", [DefaultControllerOptions EXCEPT !.timeout = t])
WithReconciliationTimeout(t)   == SetPart("controllerOpts", "timeout", t)
WithHealthzCheck(name, what)   == Put("healthzChecks", name, what)
WithReadyzCheck(name, what)    == Put("readyzChecks", name, what)
WithHealthProbeAddress(a)      == Set("healthProbeAddr", a)
WithWebhookServer(s)           == Set("webhookServer", s)
WithRunnable(r)                == Add("runnables", r)

\* The manager that mgr.New returns.  Without a config it takes the one of the
\* cluster it runs in; the lease is in the manager's cluster unless another one
\* is given; address "0" turns the probes off.
NewManager(opts) ==
    LET m == Configure(ManagerDefaults, opts)
        cluster == IF m.restConfig = Unset THEN "own" ELSE m.restConfig
    IN  [groups         |-> Elements(m.addToSchemes) \cup Elements(m.installSchemes),
         cluster        |-> cluster,
         leaderElection |-> IF m.leaderElection.cluster = Unset
                            THEN [m.leaderElection EXCEPT !.cluster = cluster]
                            ELSE m.leaderElection,
         probes         |-> m.healthProbeAddr # "0",
         controllerOpts |-> m.controllerOpts,
         webhookServer  |-> m.webhookServer,
         runnables      |-> Elements(m.runnables),
         live           |-> m.healthzChecks,
         ready          |-> m.readyzChecks]

-----------------------------------------------------------------------------
(* The heartbeat *)

HeartbeatDefaults == [extensionName |-> Unset, namespace |-> Unset, renewInterval |-> 30000]

WithExtensionName(name)  == Set("extensionName", name)
WithLeaseNamespace(n)    == Set("namespace", n)
WithRenewInterval(ms)    == Set("renewInterval", ms)

NewHeartbeat(opts) ==
    LET h == Configure(HeartbeatDefaults, opts)
    IN  [valid |-> h.extensionName # Unset /\ h.namespace # Unset, config |-> h]

-----------------------------------------------------------------------------
(* The controller *)

ControllerDefaults ==
    [actuator |-> Unset, name |-> Unset, extensionType |-> Unset, finalizerSuffix |-> Unset,
     extensionClasses |-> <<>>, ignoreOperationAnnotation |-> FALSE, resync |-> 0,
     controllerOpts |-> DefaultControllerOptions]

WithActuator(a)                  == Set("actuator", a)
WithName(name)                   == Set("name", name)
WithFinalizerSuffix(s)           == Set("finalizerSuffix", s)
WithExtensionType(type)          == Set("extensionType", type)
WithIgnoreOperationAnnotation(b) == Set("ignoreOperationAnnotation", b)
WithExtensionClass(class)        == Add("extensionClasses", class)
WithResyncInterval(t)            == Set("resync", t)

\* Without an actuator, a name, a type and a class there is no controller.
NewController(opts) ==
    LET c == Configure(ControllerDefaults, opts)
    IN  [valid  |-> /\ c.actuator # Unset /\ c.name # Unset /\ c.extensionType # Unset
                    /\ c.extensionClasses # <<>>,
         config |-> [c EXCEPT !.finalizerSuffix = IF @ = Unset THEN c.name ELSE @]]
=============================================================================

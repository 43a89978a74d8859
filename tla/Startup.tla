------------------------------- MODULE Startup -------------------------------
(***************************************************************************)
(* The life of one process of the extension, "extensionController" or     *)
(* "extension webhook", from its flags to serving: runManager and          *)
(* runWebhookServer, the manager they make from options (pkg/mgr), the     *)
(* controller (pkg/controller) and the heartbeat (pkg/heartbeat) that are  *)
(* added to it, and what Kubernetes sees of it through the readiness       *)
(* probe.                                                                  *)
(*                                                                         *)
(* Every step before m.Start may fail, and the process ends with the       *)
(* error.  m.Start is controller-runtime's: health probes, webhook server, *)
(* caches, and then, when the process leads, the rest.                     *)
(***************************************************************************)
EXTENDS Options

CONSTANTS
    Interval,   \* values of --heartbeat-renew-interval, in milliseconds
    Workers,    \* values of --max-concurrent-reconciles
    Timeout,    \* values of --reconciliation-timeout, in seconds
    MaxExits    \* bound: processes that end

ASSUME StartupConstants ==
    /\ Interval \subseteq Nat /\ Workers \subseteq Nat /\ Timeout \subseteq Nat
    /\ MaxExits \in Nat

\* Flags, and whether the collection that is compiled in verifies.
Config == [cmd : {"controller", "webhook"}, leaderElection : BOOLEAN,
           interval : Interval, workers : Workers, timeout : Timeout,
           probeAddress : {"0", "8081"}, heartbeatNamespace : {Unset, "extension"},
           sound : BOOLEAN]

VARIABLES
    config,
    pc,         \* the step of the start-up that is next
    mgr,        \* the manager that is being set up, as mgr.New returns it
    added,      \* what is added to it: the handlers of its webhook server, the
                \* heartbeat's interval and the controller
    up,         \* its parts that are running
    lease,      \* who leads
    ready,      \* what the last readiness probe has said
    exits

vars == <<config, pc, mgr, added, up, lease, ready, exits>>

NoManager    == NewManager(<<>>)
NothingAdded == [handlers |-> {}, seconds |-> 0, controller |-> ControllerDefaults]

Init ==
    /\ config \in Config
    /\ pc = "manager" /\ mgr = NoManager /\ added = NothingAdded
    /\ up = {} /\ lease = "free" /\ ready = FALSE
    /\ exits = MaxExits

-----------------------------------------------------------------------------
(* Up to m.Start *)

\* flags.getManager of the controller.
ControllerManager ==
    <<WithAddToScheme("kubernetes"), WithAddToScheme("extensions"),
      WithAddToScheme("resources"), WithInstallScheme("config"),
      WithHealthProbeAddress(config.probeAddress),
      WithLeaderElection(config.leaderElection),
      WithLeaderElectionID("controller"),
      WithLeaderElectionNamespace("extension"),
      WithMaxConcurrentReconciles(config.workers),
      WithReconciliationTimeout(config.timeout),
      WithHealthzCheck("healthz", "ping"), WithReadyzCheck("readyz", "ping")>>

\* Mutated: the source cluster is made but not added to the manager.
SourceClusterAlone == <<WithReadyzCheck("sourceInformerSync", "sourceCluster")>>

\* The cluster the webhook runs in, its cache and the check for it.
SourceCluster == <<WithReadyzCheck("sourceInformerSync", "sourceCluster"),
                   WithRunnable("sourceCluster")>>

\* flags.getManager of the webhook: the manager works on the garden cluster,
\* the target; the lease is in the source cluster, where the webhook runs.
WebhookOptions ==
    <<WithConfig("target"),
      WithAddToScheme("kubernetes"), WithInstallScheme("core"), WithInstallScheme("config"),
      WithHealthProbeAddress(config.probeAddress),
      WithLeaderElection(config.leaderElection),
      WithLeaderElectionID("webhook"),
      WithLeaderElectionNamespace("extension"),
      WithLeaderElectionConfig("source"),
      WithMaxConcurrentReconciles(config.workers),
      WithReconciliationTimeout(config.timeout),
      WithHealthzCheck("healthz", "ping"), WithReadyzCheck("readyz", "ping"),
      WithWebhookServer("webhookServer"),
      WithReadyzCheck("webhookServer", "webhookServer")>>

WebhookManager == WebhookOptions \o SourceCluster

GetManager ==
    /\ pc = "manager"
    /\ \/ config.cmd = "controller" /\ mgr' = NewManager(ControllerManager) /\ pc' = "heartbeat"
       \/ config.cmd = "webhook" /\ mgr' = NewManager(WebhookManager) /\ pc' = "informers"
    /\ UNCHANGED <<config, added, up, lease, ready, exits>>

\* Mutated: the conversion is forgotten.
RenewIntervalAsItIs(ms) == ms

\* int32(h.renewInterval.Seconds())
RenewIntervalSeconds(ms) == ms \div 1000

\* heartbeat.New and its SetupWithManager.
AddHeartbeat ==
    LET h == NewHeartbeat(<<WithExtensionName("extension"),
                            WithLeaseNamespace(config.heartbeatNamespace),
                            WithRenewInterval(config.interval)>>) IN
    /\ pc = "heartbeat" /\ pc' = "informers"
    /\ h.valid
    /\ mgr' = [mgr EXCEPT !.runnables = @ \cup {"heartbeat"}]
    /\ added' = [added EXCEPT !.seconds = RenewIntervalSeconds(h.config.renewInterval)]
    /\ UNCHANGED <<config, up, lease, ready, exits>>

\* The end of getManager: a readiness check for the manager's own cache.
AddInformerCheck ==
    /\ pc = "informers" /\ pc' = "setup"
    /\ mgr' = Apply(mgr, Put("ready", "informerSync", "cache"))
    /\ UNCHANGED <<config, added, up, lease, ready, exits>>

ExtensionController ==
    NewController(<<WithActuator("actuator"), WithName("shootPack"),
                    WithExtensionType("shootPack"),
                    WithFinalizerSuffix("gardenerExtensionShootPack"),
                    WithExtensionClass("shoot"),
                    WithIgnoreOperationAnnotation(FALSE), WithResyncInterval(30),
                    WithMaxConcurrentReconciles(config.workers),
                    WithReconciliationTimeout(config.timeout)>>)

\* runManager: the collection, the actuator and the controller.
SetupController ==
    /\ pc = "setup" /\ config.cmd = "controller"
    /\ config.sound /\ ExtensionController.valid
    /\ pc' = "start"
    /\ mgr' = [mgr EXCEPT !.runnables = @ \cup {"extensionController"}]
    /\ added' = [added EXCEPT !.controller = ExtensionController.config]
    /\ UNCHANGED <<config, up, lease, ready, exits>>

\* runWebhookServer: the validator, with its own collection, is the handler for
\* Shoots; a reconciler looks after the server's certificates.
SetupWebhook ==
    /\ pc = "setup" /\ config.cmd = "webhook"
    /\ config.sound
    /\ pc' = "start"
    /\ mgr' = [mgr EXCEPT !.runnables = @ \cup {mgr.webhookServer, "certificates"}]
    /\ added' = [added EXCEPT !.handlers = {"validate"}]
    /\ UNCHANGED <<config, up, lease, ready, exits>>

-----------------------------------------------------------------------------
(* m.Start (external) *)

\* Runnables that only run in the process that leads.
ForLeader == {"heartbeat", "extensionController", "certificates"}
Caches    == {"cache"} \cup (mgr.runnables \cap {"sourceCluster"})
Leads     == mgr.leaderElection.enabled => lease = "mine"
Probes    == IF mgr.probes THEN {"probes"} ELSE {}

MayStart(part) ==
    \/ part \in Probes
    \/ part = "webhookServer" /\ Probes \subseteq up
    \/ part \in Caches /\ Probes \subseteq up
    \/ part \in ForLeader /\ Caches \subseteq up /\ Leads

\* One more part is running; a cache is when it is in sync.
StartPart(part) ==
    /\ pc = "start"
    /\ part \in mgr.runnables \cup Probes \cup {"cache"} /\ part \notin up
    /\ MayStart(part)
    /\ up' = up \cup {part}
    /\ UNCHANGED <<config, pc, mgr, added, lease, ready, exits>>

\* The lease changes hands; a process that loses it ends.
GetLease ==
    /\ lease = "free" /\ lease' = IF pc = "start" /\ Caches \subseteq up THEN "mine" ELSE "others"
    /\ UNCHANGED <<config, pc, mgr, added, up, ready, exits>>

LoseLease ==
    /\ lease = "others" /\ exits > 0 /\ exits' = exits - 1
    /\ lease' = "free"
    /\ UNCHANGED <<config, pc, mgr, added, up, ready>>

\* A step fails, or the process is stopped; it is started again.
Exit ==
    /\ exits > 0 /\ exits' = exits - 1
    /\ pc' = "manager" /\ mgr' = NoManager /\ added' = NothingAdded
    /\ up' = {} /\ ready' = FALSE
    /\ lease' = IF lease = "mine" THEN "free" ELSE lease
    /\ UNCHANGED config

-----------------------------------------------------------------------------
(* The kubelet (external) *)

\* A check is of a part that has to be running, or passes as soon as it is asked.
Passes(what) == what = "ping" \/ what \in up

\* /readyz, which the chart names as the readiness probe.
Probe ==
    /\ "probes" \in up
    /\ ready' = (\A name \in DOMAIN mgr.ready : Passes(mgr.ready[name]))
    /\ ready' # ready
    /\ UNCHANGED <<config, pc, mgr, added, up, lease, exits>>

Parts == {"probes", "cache", "webhookServer", "sourceCluster", "heartbeat",
          "extensionController", "certificates"}

Process == GetManager \/ AddHeartbeat \/ AddInformerCheck
              \/ SetupController \/ SetupWebhook
              \/ \E part \in Parts : StartPart(part)

Next == Process \/ GetLease \/ LoseLease \/ Exit \/ Probe

Spec == Init /\ [][Next]_vars

\* Programs go on, and the kubelet probes again and again; nothing is assumed
\* of the lease.
FairSpec == Spec /\ WF_vars(Process) /\ WF_vars(Probe)

-----------------------------------------------------------------------------
(* Properties *)

TypeOK ==
    /\ config \in Config
    /\ pc \in {"manager", "heartbeat", "informers", "setup", "start"}
    /\ mgr.controllerOpts \in [workers : Nat, timeout : Nat, recoverPanic : BOOLEAN]
    /\ added.seconds \in {0} \cup {ms \div 1000 : ms \in Interval}
    /\ up \subseteq Parts
    /\ lease \in {"free", "mine", "others"}
    /\ ready \in BOOLEAN
    /\ exits \in 0..MaxExits

\* Kubernetes sends Shoots only to a webhook that is ready: by then it
\* listens, has its handler and both its caches, and knows the types of Shoots
\* and of configs.
ReadyMeansServing ==
    ready => /\ "cache" \in up
             /\ {"kubernetes", "config"} \subseteq mgr.groups
             /\ config.cmd = "webhook" =>
                   /\ {"webhookServer", "sourceCluster"} \subseteq up
                   /\ "validate" \in added.handlers /\ "core" \in mgr.groups

\* Whatever comes before and after them in a list of options, the flags have
\* their effect on a process that works: with leader election it holds a lease
\* of the cluster it runs in, its caches are in sync, and Extensions are worked
\* on with a collection that verifies and with as many workers and for as long
\* as the flags say.
WorksAsConfigured ==
    /\ up \cap ForLeader # {} =>
          /\ config.leaderElection => lease = "mine"
          /\ mgr.leaderElection.cluster =
                IF config.cmd = "webhook" THEN "source" ELSE "own"
          /\ "cache" \in up
    /\ "extensionController" \in up =>
          /\ config.sound
          /\ added.controller.controllerOpts.workers = config.workers
          /\ added.controller.controllerOpts.timeout = config.timeout
          /\ mgr.controllerOpts = added.controller.controllerOpts

\* A process becomes ready without the lease: a rolling update, which waits
\* for the new process to be ready before the old one lets go of the lease,
\* gets through.  It takes a collection that verifies, probes that are turned
\* on and, for the controller, a namespace for the heartbeat.
StandbyBecomesReady ==
    /\ config.sound /\ config.probeAddress # "0"
    /\ config.cmd = "controller" => config.heartbeatNamespace # Unset
    => <>[]ready
=============================================================================

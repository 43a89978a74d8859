# A TLA+ model of gardener-extension-shoot-pack

The extension installs *packs*, sets of Kubernetes resources compiled into its
binary, in Gardener shoots. A user lists packs in the Shoot; a webhook checks
the list; Gardener hands it on as an Extension object in the seed; the actuator
turns each pack into a ManagedResource, which Gardener's resource manager
applies to the shoot.

This directory models the program's own logic in TLA+, checks it with TLC on
small instances, and proves with TLAPS, for instances of any size, the safety
properties that the runs check: of the actuator, that it implements an abstract
specification, that two replicas implement one process, what validation,
rendering, the build scripts and the dump compute, and that a process serves
when it is ready. `PROJECT.json` lists the runs, the hazards they are aimed at
and, for every definition, the lines it stands for.

## The system

| part | state | operations | model |
|---|---|---|---|
| Actuator (`pkg/actuator/pack`) | none of its own; ManagedResources and their secrets on the seed | Reconcile, Delete, ForceDelete, Restore, Migrate | `Actuator`; what it promises: `PackStore` |
| Provider config, validation (`pkg/apis/config`) | none | Validate | `PackConfig` (closed form), `Validation` (the loop) |
| Webhook (`pkg/admission/validator`) | the collection of its binary | Validate a Shoot | `Admission`, `PackSystem` |
| Collection (`pkg/assets`) | the tree of packs in the binary | New, Verify, PackExists, GetPack | `Assets`, `PackConfig` |
| Pack scripts (`scripts/pack-*.sh`) | the tree of packs in the repository | build, verify | `PackBuild` |
| Rendering of a pack (`pkg/actuator/pack`) | a file system in memory | the kustomization, patch files, labels | `Rendering` |
| Controller (`pkg/controller`, `cmd/extension/controller`) | workqueue, finalizer (generic Gardener controller), lease | starts, ends and retries requests | in `Actuator`; two processes in `Replicas`; start-up in `Startup`, `Options` |
| Manager, heartbeat, webhook server (`pkg/mgr`, `pkg/heartbeat`, `cmd/extension/webhook`) | options, readiness, lease | start-up | `Options`, `Startup` |
| `pack` commands (`cmd/extension/pack`) | a directory | dump, files, sums | `PackDump` |
| Metrics, API machinery | | | not modelled |

How they interact: the webhook and the actuator never talk to each other. They
share the validation code, each has a collection compiled in, and both are
upgraded on their own. The Shoot reaches the actuator as two objects, the
Cluster and the Extension, that are written one after the other and read one
after the other. The actuator writes ManagedResources that the resource manager
finalizes at its own pace. The collection is read from files that the build
script wrote.

What is hard:

* a request is a sequence of API calls and may be cut short at any of them;
  nothing is undone, the next request starts from the top;
* the objects change while a request runs, and the request mixes what it read
  at different times;
* deletion is asynchronous: an object that is on its way out can still be
  updated;
* the set of packs to delete comes from the running binary, not from the seed;
* a pack has a version, its ManagedResource has none;
* two replicas, perhaps of different releases, take over from each other with
  requests half done;
* patches come from a map without an order, and names are joined to file names;
* processes are put together from lists of options, where a later one may take
  an earlier one back;
* builds of packs are shell scripts over a directory that keeps what earlier,
  possibly interrupted, builds left.

For each part, what makes it correct: the actuator delivers what the config asks
for and withdraws the rest, in that order, and leaves nothing behind;
validation admits no pack twice; the webhook admits only what the actuator can
install; a collection consists of what the builds produced.

## Modules

`PackConfig` has the data webhook and controller share: configs, collections,
Shoots and `ValidationErrors`, the closed form of `validation.Validate`.

`Validation` is `Validate` as the loop it is. The config is chosen in `Init`.
`ValidationProofs` has what follows from the closed form and that the loop
computes it.

`Actuator` is the core. Its variables are

* the API objects: `shoot` in the garden; `cluster`, `ext`, `refs` (referenced
  secrets), `mr` (ManagedResources, by pack name) and `mrData` (their secrets) on
  the seed;
* `rel`, the release that runs and thereby the collection;
* the request: `pc` names the next API call, the other variables are the locals
  of `Reconcile` and `reconcilePack`;
* `edits` and `faults`, what is left of the bounds.

One action is one API call with the code up to the next one:

| action | code |
|---|---|
| `StartReconcile`, `StartDelete` | the generic controller calls the actuator |
| `GetCluster` | `GetCluster`, hibernation, decoding, `Validate` |
| `NextPack` | head of the pack loop, `PackExists`, `GetPack` |
| `ReadPatch` | `secretFromResourceRef` |
| `WriteSecret`, `WriteMR` | rendering and the two calls of `CreateForShoot` |
| `AfterPacks` | the list of disabled packs |
| `DeleteMR`, `DeleteSecret` | the two calls of `DeleteForShoot` |
| `Finish`, `Abort`, `Fault`, `Upgrade` | return nil, return an error, a call fails or the process dies, another release starts |

Users, gardenlet and the resource manager are external: their actions change the
objects in the ways the actuator can notice. Rendering is abstracted to the list
of the patches' contents, which fail to apply (`Broken`) or not.

`ActuatorInvariants` has the inductive invariants, `ActuatorProofs` the theorems,
in three parts: control, safety and the refinement.

`PackStore` is the abstract specification: what is installed, what is asked for,
what is being done about it, and nothing of requests, API calls, secrets or
collections. A pack changes its version in place, is taken down only when all
that is to stay has its place, and a goal is given up or reached in full; the
Extension is released when nothing is left. `ActuatorStore` has the refinement
mapping: a pack is installed from the call that creates its ManagedResource to
the call that deletes it, and the goal is what the running request decoded. Reads,
writes of secrets and finalizers that are of no consequence are stutters. Two
things in `PackStore` are there because the code is as it is: `missed`, the packs
that were still being removed when they were to be installed, and `Keep`, the
goal of a request that finds the shoot hibernated. Part III of `ActuatorProofs`
proves the refinement.

`Admission` is the webhook as an operator. `PackSystem` puts it in front of the
users of `Actuator` and gives it a release of its own. Its history variable
`made` is the release whose resources each pack was last rendered from, since
a pack may be rebuilt without a new version. `PackSystemProofs` has the theorems,
which go on where those of `ActuatorProofs` end.

`Rendering` is what `WriteSecret` of `Actuator` abstracts: `reconcilePack` and
`kustomizeFilesystemForPack` for one pack. Its variables are the locals of the
two functions, `fs` the file system in memory and `data` the registry; `AddPatch`
is one key of a secret, taken in any order. kustomize itself is external and is
modelled as far as it decides which fields of which object end up how. Names
are sequences of the words that dashes separate, so that joining names can
make two of them equal. `RenderingProofs` has its theorems.

`Replicas` runs two processes on the objects of `Actuator`: replica 1 has the
variables of `Actuator`, replica 2 a second set of the request's variables, by an
`INSTANCE` of the same module. `phase` and `holder` are the life of a process
and the lease; `Boot`, `Elect`, `Exit` and `Expire` change them. The refinement
mapping takes the request of whichever replica leads; a takeover by the same
release is a stutter, by another release an upgrade, and a crash with a request
half done is a fault. `ReplicasProofs` proves the refinement and cites the theorems
about `Actuator` through an instance of `ActuatorProofs`.

`Options` are the functional options of the manager, the heartbeat and the
controller: `New` goes through them in order (`Configure`), each one sets
a field or a part of one, adds to a list or puts an entry into a map (`Apply`),
and only then are the result checked and gaps filled (`NewManager`,
`NewHeartbeat`, `NewController`).

`Startup` is one process, controller or webhook, from its flags to serving:
`config` are the flags, `mgr` is the manager while it is set up, `added` what the
commands add to it, `up` the parts that run, `ready` what the kubelet's last probe said. `GetManager` builds the
manager from the options of `ControllerManager` or `WebhookManager`, which list
them as the commands do; `AddHeartbeat`, `AddInformerCheck`, `SetupController` and
`SetupWebhook` are the steps of `runManager` and `runWebhookServer` that follow.
The order in which controller-runtime starts the parts and the lease are
external. No step before `m.Start` writes to the cluster, which is why `Boot` of
`Replicas` is one step. `StartupProofs` has the theorems.

`PackDump` is `pack dump` on a directory that keeps what earlier, possibly
interrupted, dumps left, with the checksums that `files` and `sums` print. It
uses the trees of `Assets`. `PackDumpProofs` has its theorems.

`Assets` reads a collection from a tree of files: the embed patterns, `New`,
`Verify`, `SumsFromReader`. `PackBuild` runs `pack-build.sh` and `pack-verify.sh`
on the tree of one pack, one command at a time; the spec and the tree are edited
in between. `PackBuildProofs` has its theorems.

`MC*` modules give the constants their values. Definitions whose comment begins
with "Mutated" are deliberately wrong variants of the definition that follows;
they show that a property can fail and are used by no specification.

## Runs

| run | shows |
|---|---|
| `Validation.cfg` | the loop computes the closed form, with the index of the *first* pack of a name; what it accepts has no pack twice, not even in two versions, and no empty field |
| `Actuator.cfg` | all safety properties of the actuator and its inductive invariants; `Converges`: in the end the seed holds exactly what the Extension asks for, with current patches; `DeletionCompletes`; `MigrationCompletes`: a shoot leaves its seed; `ImplementsPackStore`: the refinement |
| `PackSystem.cfg` | the actuator turns down only configs that were skewed: another release's packs, or a Cluster of another state of the Shoot; once both binaries have come to one release for good, what this release admits is installed in the end, whatever others admitted and installed before (`InstallsWhatWasAdmitted`); a pack that was rebuilt in the same version is rolled out (`RunsLatestBuild`); a Shoot can be deleted and the extension turned off whatever upgrades did, and hibernated unless a pack it uses is gone (`NeverLockedOut`) |
| `PackBuild.cfg` | what verifies and loads is what `package()` wrote; a complete build repairs any directory |
| `Replicas.cfg` | two replicas with leader election implement `Actuator` (`ImplementsActuator`): all that is proved of one process holds for both; the packs converge through changes of the leader, and with one replica stuck at a release that does not start |
| `Rendering.cfg` | the objects of the pack but namespaces are delivered, once each and nothing else, changed by exactly the patches that select them, and carry the pack's labels (`DeliversPatchedPack`); no patch is lost while file names differ |
| `Startup.cfg` | a process that is ready serves; one that works has the lease of its own cluster, caches in sync, a verified collection and the workers and timeout of its flags (`WorksAsConfigured`); a standby gets ready without the lease |
| `PackDump.cfg` | a kustomization never lists what is not there; a complete dump is the pack whatever was in the directory; checksums fit |
| `TwoVersions.cfg` | violation: with two versions of a pack in the collection a configured pack is deleted |
| `DropsPack.cfg` | violation: Delete leaves a pack that the release no longer ships |
| `BuildFails.cfg` | violation: a failing command in `package()` is not noticed |
| `PatchNames.cfg` | violation: two patches share a file and one is lost |

Deadlock is not checked: users stop when the bounds are used up, and a system in
which everything is as desired has nothing left to do.

### Bounds

Two packs, two versions and one referenced secret let a config keep, change,
add, drop and reorder packs; each pack that is kept and each that is dropped
meets each step of a request. Two releases let a version disappear and come
back. `MaxEdits` counts changes by people, `MaxFaults` errors, crashes and
upgrades; both are spent at any step. Three edits are what it takes to install
something, change it and delete it, in one run with two faults. The Shoots of
`Actuator.cfg` include two that the webhook would not let through, one with a
pack twice and one with a reference to something other than a Secret; a config
that does not decode is among the Shoots of `PackSystem.cfg`. One referenced
secret used by two patches of a pack lets it change between the two reads. `Validation` needs three packs, a duplicate, its
original, and one more in front of either, and two versions, so that a pack can
be in a config twice without its entries being equal. `PackBuild` has two top-level resources, so that a
build can be interrupted between them, a nested one, and two versions; two
edits and one failing command.

`Rendering` has two entries of Patches and two keys for each secret: what it takes
for an order of keys, an order of entries, one secret used twice and a collision
of file names. Keys of one secret may contradict each other. Its pack has a namespace and two objects of one name. `Replicas`
lets two processes end (`MaxRestarts`), so that the lease goes there and back,
with two edits and one failing call, and has a third release that does not
start. `PackDump` needs two runs, the second on what the first one left.
`Startup` has every combination of leader election, probes on or off, a heartbeat
with and without namespace, a sound and an unsound collection, and values for
intervals, workers and timeouts that differ from the defaults, so that an option
that is lost shows.

### Fairness

`FairSpec` assumes weak fairness for the worker (`Worker`), for what gardenlet
does with the objects of the shoot (`Gardener`) and for each ManagedResource
that is being finalized. For the worker the code gives the reason: the generic
controller retries failed requests, a successful one is repeated after the
resync interval (30s by default) and gardenlet reconciles periodically. A
request ends by itself, as each of its steps is finite. Nothing is assumed of
users, faults and upgrades; they are bounded. The workqueue never runs two
requests for one key at a time, which is why there is one worker; leader
election, which the chart turns on, extends this to two replicas, as `Replicas`
shows.

`RepFairSpec` adds that Kubernetes restarts a process, that a free lease is taken
and that one which nobody renews expires. Which of the two standbys gets it is
not assumed to be fair. `FairSpec` of `Startup` has the program and the kubelet
go on and assumes nothing of the lease.

## Findings

1. `Reconcile` compares disabled packs by name *and* version but names
   ManagedResources by name only. In a collection with two versions of a pack,
   as in the comment of `assets.New`, installing one of them deletes the common
   ManagedResource again. Changing `VERSION` in a spec leaves the old directory,
   which is how such a collection comes about.
2. `Delete` and the delete loop of `Reconcile` go over the packs of the running
   release. A pack that is no longer shipped stays.
3. `pack-build.sh` calls `package()` inside an `&&` list, where `set -e` has no
   effect: a build with failing commands is "built successfully".
4. Patch files are named `patch-<secret>-<key>`, with dashes that names contain
   too: key `b-c` of `a` and key `c` of `a-b` are one file. One patch is lost and
   the other one is applied with both targets.

`TwoVersions.cfg`, `DropsPack.cfg`, `BuildFails.cfg` and `PatchNames.cfg` show
them. Five more observations need no run; the models have the behaviour, and
the properties that meet it name it as an exception:

5. `pack-verify.sh` calls `package_test()` in the same way: its outcome is
   ignored.
6. The scripts list resources recursively, `assets.New` does not: a nested
   resource is in SUMS and not in the pack.
7. The heartbeat's interval is cut to whole seconds; less than a second becomes 0.
8. A resource named `kustomization.yaml` is overwritten by `pack dump
   --with-kustomization`, and in the same way when the actuator renders the pack.
9. After two interrupted builds, the first while it lists resources and the
   second while it writes them, `pack-verify.sh` and `New` can both accept a part
   of a pack (`torn` in `PackBuild`). Another complete build heals it.

Two remarks on what the properties leave open. A last line of SUMS
without a newline, which `SumsFromReader` drops and `sha256sum --check` reads,
makes `New` stricter than `pack-verify.sh`, never laxer. Which of two
contradicting keys of one secret wins is random and not written down anywhere;
`DeliversPatchedPack` says what holds for either outcome.

## What is proved

For every choice of packs, releases, Shoots and bounds that `ConstantsType`
admits (names and versions are strings, no version is empty, releases is a
non-empty sequence of collections):

| theorem | states | needs |
|---|---|---|
| `TypeCorrect`, `InvCorrect` | types, and what a request has checked at each call | |
| `LiveHasDataCorrect` | no ManagedResource without its secret | |
| `DeliverBeforeWithdrawCorrect` | deletes begin when all configured packs are in place, and leave them there | `SingleVersion` |
| `TakenDownOnRequestCorrect` | nothing that is configured is taken down | `SingleVersion` |
| `DeleteWithdrawsAllCorrect` | nothing is left when Delete succeeds | `SameNames` |
| `SuccessWithdrawsTheRestCorrect` | nothing unconfigured is left when Reconcile succeeds | `SameNames` |
| `GoneMeansWithdrawnCorrect` | nothing on the seed without an Extension | `SameNames` |
| `InductiveCorrect` | the inductive invariants, as the run checks them | what each part of it names |

of the abstract specification:

| theorem | states | needs |
|---|---|---|
| `ImplementsPackStoreCorrect` | `Actuator` implements `PackStore` | `SingleVersion`, `SameNames` |

of `PackSystem`, for any Shoots and however webhook and controller are upgraded:

| theorem | states |
|---|---|
| `SysInvCorrect` | every copy of a Shoot and of a config was let through by some webhook |
| `RejectsOnlySkewedCorrect` | a Reconcile that fails over the config has met a skew of releases or of the Shoot's copies |
| `NeverLockedOutCorrect` | the webhook lets a user delete, turn off and (unless a pack is gone) hibernate |

of `Replicas`, for any number of restarts, with `LeaderElection`:

| theorem | states | needs besides |
|---|---|---|
| `ImplementsActuatorCorrect` | two replicas implement `Actuator` | |
| `RepTypeCorrect` | types | |
| `ReplicasImplementPackStore` | and thereby `PackStore` | `SingleVersion`, `SameNames` |
| `ReplicasLeaveNothing` | no pack without an Extension, no ManagedResource without its secret | `SameNames` |

of `Validation`, for configs of any length:

| theorem | states |
|---|---|
| `ValidationTypeCorrect` | types |
| `LoopComputesErrorsCorrect` | the loop returns the errors of the closed form |
| `AcceptedIsWellFormedCorrect` | what it accepts has no pack twice and no empty field |

of `Rendering`, for any packs, patches, targets and secrets:

| theorem | states | needs |
|---|---|---|
| `PatchesComplete` | kustomize gets every patch with its own target and content | `NamesDiffer` of the input |
| `SameWordsComplete` | the same | names of referenced resources that have equally many dashes |
| `DeliversCorrect` | the registry has the objects of the pack but namespaces, and nothing else, as the user patched them, and labelled | `SoundPack`, besides `NamesDiffer`, which the property has |
| `RenderingTypeCorrect` | types | `SoundPack` |

of `PackBuild`, for any specs, edits, failing commands and interruptions:

| theorem | states |
|---|---|
| `BuildTypeCorrect` | types |
| `ReleasedIsBuiltCorrect` | what verifies and loads is what `package()` wrote |
| `RebuildHealsCorrect` | a build that gets done repairs the directory |

of `PackDump`, for any releases and interruptions:

| theorem | states | needs |
|---|---|---|
| `DumpTypeCorrect` | types | |
| `ListedIsThereCorrect` | a kustomization lists what is there | |
| `DumpedIsPackCorrect` | a complete dump is the pack | |
| `ChecksumsFitCorrect` | printed checksums fit the files | `LinesVerified` |

and of `Startup`, for any flags, elections, probes and exits:

| theorem | states |
|---|---|
| `StartupTypeCorrect` | types |
| `ReadyMeansServingCorrect` | a process that was found ready has its caches in sync, and a webhook listens with its handler |
| `WorksAsConfiguredCorrect` | what works holds the lease of its own cluster and reconciles as the flags say |

`SingleVersion` (no release has two versions of a pack) and `SameNames` (all
releases have the same pack names) are predicates on the releases; findings 1
and 2 show that the theorems are false without them. `LeaderElection` is what the
chart turns on. `SoundPack`: a pack has no file and no object twice, which kustomize
refuses, and no file that is named like a patch file. `LinesVerified`: in a tree
that loads, the lines of SUMS are about resources at the top level and fit them;
observation 6 is how a line can be about something else. The inputs of the runs
satisfy `SoundPack` and `LinesVerified`.

The argument. The properties look at a few moments of a request; what makes them
inductive is in `ActuatorInvariants`:

* `Control` says what has been checked when a request is at a given call, e.g.
  that every pack before index `i` is in the collection and that everything
  in `todo` is disabled. With `Attached`, the Extension stays while a request
  runs, and `TypeOK` it is inductive by itself (`Inv`).
* `Progress`, the packs the loop has passed are delivered, follows from step to
  step because the names in a valid config differ, and because under
  `SingleVersion` a disabled pack has another name than any configured one
  (`DisabledIsOther`).
* `Swept`, the packs the delete loop has passed are withdrawn, and `Order`, a
  ManagedResource goes before its secret, give the state at the end of a loop.
* `Owned`, whatever is on the seed belongs to the collection, turns the end of
  the loop into "nothing is left"; it survives an upgrade under `SameNames`.
  `Guarded` carries this over the life of the Extension.

`SeedSteps` lists the few steps that write to the seed, so that each invariant
is followed through those and not through all actions. `Inductive`, the
conjunction of all of them, is also an invariant of the run `Actuator.cfg`.

The refinement needs one more invariant than the safety theorems, `Begun`: a
request knows of a hibernated shoot, and has missed packs, only after it read
the Cluster, and goes on to packs only with a config. The mapping follows the
groups of steps: one that writes a ManagedResource installs or misses a pack
(`MRWrittenInstalls`), one that deletes it removes a pack (`DeletedRemoves`, where
`InPlace` comes from `Progress` and the pack is not in the goal by
`DisabledIsOther`), steps between calls begin, skip or stutter (`AdvancesWorks`),
and those of users, gardenlet and the resource manager ask, detach, leave or
finalize (`OutsideAsks`). `FinishReaches` is the hard one: at the end of the delete
loop `Swept` and `Owned` give that nothing but the goal is installed.

For `Validation` the invariant is that `seenPacks` has the names of the packs
before `idx` at the same indices, so that the first match in it is the first
namesake in the config (`SeenIdxIsFirst`), and that `allErrs` has the errors of
these packs. That errors for every later namesake exclude duplicates rests on a
non-empty set of numbers having a least one (`LeastNat`).

For `Rendering` the invariant says what has been written so far: the entries before
`p` completely, the one at `p` but for the keys in `left`, each in a file that has
the content of its key. A later write to the same file would break it, and
`NamesDiffer` says that there is none. That names of equally many words cannot
collide follows from the cancellation of concatenated sequences.

That the delivered objects are the expected ones takes two arguments. One is about
the list of patches: it is a list of uses of keys, in the order of the entries of the
config (`Traces`, the invariant behind it), so that the last patch on it that sets
a field comes from the last entry that does (`LastSetter`). That entry may set it
through several keys, in which case the property allows the value of any of
them, since the code leaves their order to Go's map. The other is about kustomize: after the
first `n` patches each field is as the last of them that sets it says, or as in the
pack (`FieldIs`). `After` is a recursive function, of which the prover knows no more
than that it is some function with that equation, if there is one:
`UnfoldsExists` shows that there is, for any number of patches, and `PatchedAll`
follows the equation from a smallest `n` for which the claim would fail.

For `PackSystem` the invariant is `Provenance`: a copy of the Shoot, wherever it is,
was let through by some release of the webhook (`Vetted`), and the config of
an Extension or of a request was in a Shoot that was let through and was not
hibernated, so that it decodes, is valid and names packs that were together in one
collection (`Approved`). A Reconcile that fails is then due to another collection or
to a Cluster of another state of the Shoot.

For `Replicas` it is `Exclusive`, whoever leads is in the lease and runs at the
release that the single process has; `Resting`, a replica that does not lead has
no request; and `Charged`. The refinement mapping counts each crash with a request
half done and each takeover by another release as a fault of the single process,
and that has a bound: a process that ends pays for both, in advance for the takeover,
which is why `spent` needs one more unit while nobody leads.

For `PackBuild` it is `Summed`: the lines of SUMS are, at any time and for every
version, checksums of one output of `package()`, and of all of it unless the build
was interrupted while it wrote them. Edits of resources do not touch it, and what
passes `pack-verify.sh` fits the lines. `Building` and `Summing` say the same of
the build that runs.

For `PackDump` it is `Command`: the files in `names` are as in the pack, and
`names` and `left` together are the pack. Files are replaced but never removed, so
that a kustomization of an earlier dump keeps what it lists.

For `Startup` there are two arguments. One is about lists of options: a field goes
through the effects of its own options only (`FieldSteps`), so that in the end it is
as the last one of them says (`LastWriteStays`, hence `SetField`, `PartField`,
`MapField`) or has exactly what they add (`ListField`). `Configure` is a recursive
function as well, and `ConfigureUnfolds` does for it what `UnfoldsExists` does for
`After`. Applied to the lists of the commands this gives `Managed`: the manager has
the flags' options, the types, the checks and the cluster for the lease. The other
argument is the invariant `StartInv`, which follows a manager through the start-up:
nothing runs before everything is set up (`SetUp`), what has passed the checks still
does (`Vouched`), because parts only stop together, and what needs the lease runs
only while the process leads (`Leading`), because losing the lease ends it.

Only model-checked: liveness (`Converges`, `DeletionCompletes`,
`MigrationCompletes`, `InstallsWhatWasAdmitted`, `RunsLatestBuild`, `RepConverges`,
`StandbyBecomesReady`), which needs fairness and is out of the prover's reach.

## Not modelled

* kustomize beyond fields of objects: the kinds of patches, its namespace
  transformer, how it parses. A patch that fails to apply ends rendering.
* Calls of a leader that are still on their way when its lease has expired:
  client-go gives up a lease that it cannot renew before it expires, and the
  process exits.
* Flags for addresses, rates, caches, certificates and logging, and the options
  that only hand such a value on to controller-runtime; options that neither
  command uses (`WithControllerOptions`, predicates, a watch builder); the
  registration of the webhook in the garden; the renewal of the heartbeat.
* Metrics, which nothing updates; `pack list` and `pack init`, which format output.
* Generated conversion and defaulting code, charts, contents of packs.
* Objects in the shoot: packs are kept apart by the resource manager, and what it
  does when two packs contain one object is not this program's code.
* The webhook's object selector: the label that the selector asks for is set
  by Gardener on every Shoot that lists the extension.

## Plan

Done: `PackConfig` and `Validation` with their proofs; `Actuator` with its proofs
and the proof that it implements `PackStore`; `Admission`, `PackSystem` with its
proofs; `Assets`, `PackBuild` and `PackDump` with their proofs; `Rendering` with its
proofs; `Replicas` and the proof that it implements `Actuator`; `Options` and
`Startup` with their proofs. What is left, in this order:

1. The collection as the actuator sees it, from the tree `PackBuild` leaves to
   `Releases`: findings 1 and 2 from an edit of a spec on.
2. Webhook deployments: two processes of `Startup` behind a Service during a
   rolling update, composed with `PackSystem`.

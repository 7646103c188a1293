# Verification of the Morpheus CSI driver

TLA+ models, TLC configurations and TLAPS proofs for `morpheus-csi`, a CSI
driver that gives Kubernetes pods disks of virtual machines managed by a
Morpheus appliance. All definitions are translated from the Go source under
`src/`; `PROJECT.json` (`map`) names the lines each of them stands for.

## The system

| component | source | state | operations |
|---|---|---|---|
| Morpheus client | `internal/morpheus/client.go` | one mutex per server; the locals of every call | EnsureVolume, DeleteVolume, ExpandVolume, FindVolume, MoveVolume, DetachVolume, node-name search |
| controller service | `internal/driver/controller.go` | none of its own (the volume id carries the provisioning server) | CreateVolume, DeleteVolume, ControllerPublish/Unpublish/ExpandVolume |
| node resolver | `internal/driver/node_resolver.go` | none | label of a node, labels of all nodes |
| node service | `internal/driver/node.go`, `mount_exec.go` | mounts, block devices, one metadata file per staged volume | NodeStage/Unstage/Publish/Unpublish/ExpandVolume |
| driver lifecycle | `internal/driver/driver.go`, `cmd/` | socket file, gRPC server | Run, listen, shutdown |
| identity, configuration | `identity.go`, `internal/config` | none | constant answers |
| Morpheus appliance (external) | used by `client.go` | volumes of every server, outstanding resizes | GET server, PUT resize, PUT detach, PUT attach |
| CSI sidecars and Kubernetes (external) | used by `controller.go` | claims, volumes, attachments | call the RPCs until they succeed |

How they interact: a sidecar calls an RPC of the controller; the RPC makes one
or two calls on the client; a call is a sequence of HTTP requests to the
appliance. Kubelet then calls the node service, which finds the new disk among
the block devices of the VM. What persists is with the appliance, Kubernetes and
the worker's disks: a restart loses every call in progress and every mutex.

What is hard in it:

* **Every provisioning operation replaces the volume array of a whole server.**
  Read-modify-write of that array is serialized by a mutex per server in one
  process; detach and attach change the same array without the mutex.
* **Resizes may take effect after they are answered.** The client polls a
  bounded number of times and then gives up - and unlocks.
* **Retries.** Requests time out, answers get lost, the process restarts, and the
  sidecar repeats the RPC: the operation must recognize its own earlier work by
  name or by id.
* **Volumes move.** The id goes on naming the server they were created on, and
  expansion and deletion have to cope.
* **Disks are recognized by size** on the node when Morpheus reports no device.
* **The node service is a chain of looks and commands without a lock**: other
  calls, failing commands, a deadline, a dying process or a boot come between
  any two of them, and what survives is mounts, directories and a record file.
* **Sizes change unit on their way**: bytes, GiB rounded up, sectors, and a field
  of an answer whose unit has to be guessed.

## Modules

| module | what it is |
|---|---|
| `MorpheusApi` | the appliance as the client sees it (external): `place` and `attr` of every volume id, `queue` of outstanding resizes per server |
| `MorpheusClient` | `client.go`, one action per HTTP request, for any number of concurrent callers |
| `VolumeStore` | the abstract specification: a store of named volumes, each operation indivisible and about one volume |
| `ControllerService` | `controller.go`, composed with `MorpheusClient` and driven by the sidecars |
| `NodeDevices` | a worker as the node service finds it: disks, block devices, mounts, directories, records; and the functions that only look at them |
| `NodeService` | the RPCs of `node.go` with `mount_exec.go`, one action per look and per command, called by kubelet; failures, cut calls, boots |
| `NodeStaging` | the abstract specification: staging paths show the volume's own disk or nothing, a disk is formatted once, and does not go away under a mount |
| `VolumeSizes` | the sizes of a server's volumes through `requestedSizeGiB`, `storageSizeGiB`, `blockDeviceSizeGiB` and the arrays of resizes |
| `MorpheusClientProofs` | type correctness, the mutex, the root disks |
| `MorpheusStoreProofs` | currency of what is read, nothing dropped, sizes only grow, refinement of `VolumeStore` |
| `MorpheusNamesProofs` | answers are large enough; one volume per name |
| `ControllerServiceProofs` | the controller uses the client as the client allows; its types |
| `ClaimProofs` | no orphans, claims apart by name, deletion |
| `PlacementProofs` | where the volumes of claims are; refinement of `VolumeStore` by the controller |
| `NodeServiceProofs` | type correctness, reported disks are own disks, data kept, no device removed under a mount, refinement of `NodeStaging` |
| `VolumeSizesProofs` | conversions, types and the sizes they keep |
| `MCMorpheusClient`, `MCControllerService`, `MCNodeService`, `MCVolumeSizes` | instances for TLC |

### MorpheusClient and the code

A caller is one gRPC request being served. `pc[c]` is its next step, `req[c]` the
arguments and what the call has resolved, `snap[c]` the array it read (the local
`volumes`), `tries[c]` the loop counter, `ret[c]` the result, `holder[s]` who has
the mutex of `s`.

| code | actions |
|---|---|
| `lockServer` and its deferred unlock | `Lock`, `Released` in every `Return` |
| `getServerState` and the decision on it | `EnsureRead`, `DeleteRead`, `ExpandRead` |
| `resizeVolume`, `resizeServer` | `Write` (the array is `NextArray`), `Poll` |
| `FindVolume`, `MoveVolume` | `FindGet`, `Detach`, `Attach`, `Verify` |
| `DetachVolume` | `CallDetach`, `Detach` |
| an error from `do` | `RequestFails`: the request was refused, or did not reach the appliance; and the last disjunct of `Write`, `Detach`, `Attach`: it was carried out and the answer lost |
| the process ends | `Restart` |

`asked` and `told` are history variables: the ids DeleteVolume was called for and
what EnsureVolume returned for each name. When `FindVolume` is part of
`MoveVolume` the candidates are asked in any order; the code's order is one of
them, and a volume is on one server at most. Arrays are functions from ids to attributes; of the
attributes only name and size matter here.

What is assumed of the appliance is written in `MorpheusApi`: a resize deletes
what its array omits; ids are not reused; items of ids the server does not have
are ignored; attach needs a detached volume; a detach of a volume that is not
there is refused or does nothing. Whether a created volume reports the requested
name (`KeepsNames`) and whether resizes may be deferred (`MaxDeferred`, a bound per server)
are parameters, because the client's code and tests allow for both.

### ControllerService and the code

`rpc[c]` is the RPC a caller serves; the call it is making is in the variables of
`MorpheusClient`. `claim[n]` is what Kubernetes knows: the phase of the claim's
life, the volume id, the node, the capacity. `Label`, `Labels`, `ServerIDForNode`,
`CandidateServerIDs` and `ResolveServerIDByNodeName` give the set of results the
functions of these names can have. `DeleteVolume` is three actions, because
`FindVolume` and `Client.DeleteVolume` are separate calls: `DeleteVolume`,
`DeleteLocated` (where an error of the search falls back to the id's server) and
`DeleteCurrentRef`. Sidecars: one RPC per claim and sidecar, different sidecars
overlap, failed RPCs are repeated, `Forget` is a VolumeAttachment removed without
ControllerUnpublishVolume. A claim is deleted only after it was bound.

### NodeService and the code

`pc[v]` is the next step of the call under way for volume `v` (kubelet makes one
call per volume at a time; calls for different volumes overlap), `device[v]` its
local `devicePath` or `source`, `tries[v]` the counter of its loop, `entries[v]`,
`blank[v]` and `formatted[v]` the lists of a discovery under way. `phase[v]` is what
kubelet knows of the volume, `published[v]` the device path in its publish
context. Nothing else of a call survives it: the process keeps no state, so its
restart is an `Abort` of its calls.

| code | actions |
|---|---|
| `NodeStageVolume`: `RescanDevices`, `devicePath` | `NodeStageVolume`, `Rescan` (with `DevicePath`: the publish context, else the volume context) |
| `classifyBlockDevices`: the entries; of each the size, `isMountedSource`, `hasFilesystemFunc` | `ListDevices`, `LookAtSize`, `LookAtMounts`, `Probe` |
| `DiscoverDevicePath` | `DiscoverDevicePath` on `Eligible`, `Loop` back to `Rescan` |
| `Stage`: `waitForDevice` | `WaitForDevice`, `Loop` back to `Rescan` |
| `Stage`: `MkdirAll`, `isMounted`; `hasFilesystem`, `formatDevice`, `mount` | `StageDevice`; `HasFilesystem`, `FormatDevice`, `Mount` |
| `RecordStagedDevice` | `RecordStagedDevice`: a temporary file is renamed, so the record changes at once |
| `NodeUnstageVolume`: `MountedSource`, `StagedDevicePath` | `NodeUnstageVolume`, `LookUpSource`, `StagedDevicePath` |
| `Unmount`, `RemoveDevice`, `ForgetStagedDevice` | `Unmount`, `RemoveDevice` (the checks), `DeleteDevice` (the write), `ForgetStagedDevice` |
| `NodePublishVolume`, `NodeUnpublishVolume`, `NodeExpandVolume` | actions of these names; one command each that matters |
| an error of a command or file operation | `CommandFails`: an attempt of the discovery is used up; findmnt without an answer leads to the record, an unreadable record to no device; anything else ends the call |
| the deadline passes, the process is killed | `Abort` |

The last three RPCs are one action each: they have a single step that changes
something. A failed one of them changes nothing and is repeated, which is a step
not taken. `NodeExpandVolume` answers the size it was asked for, whatever
resize2fs made of it, so there is no capacity in its state.

A disk gets any free name when it is attached, so names are used again by
other disks. What the source leaves open is a constant:

| constant | what it says |
|---|---|
| `Reported` | the volumes whose attach answer names their disk. The appliance is taken at its word for these: the name is the one the disk gets |
| `ContextPath` | the name CreateVolume put into the volume context (`controller.go:62-64`); any name, because it was the name on another server |
| `HintOf`, `SizesOf` | the size hint, and the sizes a volume may have in its life |
| `Renumbered` | may a boot give disks other names? |
| `BlkidFails` | may blkid fail on a disk with a filesystem? |
| `RecordsFail` | may a record that exists be unreadable? |
| `DirEntries` | what `os.ReadDir` says of `/sys/block`: directories as in the tests, or symbolic links as on Linux |
| `HostIsRefused` | does `RemoveDevice` refuse what findmnt calls the host's disk, or find nothing to remove? |
| `FailedMeansUnstaged` | does kubelet take a volume whose staging failed for unstaged? `codes.Internal`, which the driver returns, is a final error for kubelet, so TRUE is the likelier setting; what holds of staged volumes only with FALSE is listed below |

### VolumeSizes and the code

`disk[v]` is the size of a volume in bytes, `hint[v]` and `capacity[v]` what
Kubernetes has of it: `morpheus.sizeGiB` and CapacityBytes. One RPC is one action,
because the mutex of the client makes a resize indivisible (`MorpheusClient`
shows that); its answer may be lost. `Resize` gives every other volume the size
`parseVolume` read for it. `GiB` is a constant: 2^30 in the code, 4 in TLC, any
positive number in the proofs. `float64` division is exact for sizes below
2^53 bytes, and no product overflows an int64 there.

## What the runs check

All bounds are in the cfg files. Two callers, two volumes and two sizes let two
read-modify-write cycles of one server overlap in every way, and let a retry
meet what the attempt before left; a second server is needed only for moves.
On the node, two volumes and two names let one volume's call meet the disk,
the mount and the record of the other, and let a disk be attached under a name
the other had until it was detached; two faults (`MaxFaults`; three in
`node_service`) let the handling of a failure fail; two attempts let both loops go
round and give up.
With 4 bytes to a GiB, requests of up to 13 bytes lie on, before and after
three GiB boundaries.

| run | question | result |
|---|---|---|
| `client_locked` | EnsureVolume, DeleteVolume, ExpandVolume and FindVolume, concurrent, on one server, failures and restarts; nothing deferred | arrays read are current; nothing dropped; one volume per name; results large enough; no shrinking; root disk intact; implements `VolumeStore` |
| `client_live` | EnsureVolume, MoveVolume and DetachVolume, two contending callers, two servers, failures, restarts, a resize may be deferred; any of the calls may be given a root disk | mutex discipline, types; nothing changes a root disk, and only a DetachVolume that was given it takes it away; every call returns |
| `controller_one_claim` | the whole life of a claim, three RPCs at once, unreliable Morpheus and Kubernetes APIs, one node without a label; the resize that deletes a moved volume may be late | what is published is attached to the right server; retries leave no orphan; moves included, the client implements `VolumeStore` |
| `controller_two_claims` | two claims of one server, nodes without labels, Morpheus does not report the requested names | neither gets the other's volume or is hurt by what is done for it |
| `controller_moves` | volumes that move without being unpublished, no failing request | search and move answer truthfully; deletion finds them; create, publish and delete come to an end |
| `node_service` | two volumes, one with a reported path (and a stale one in its volume context), one discovered by size; all node RPCs overlapping, failing commands, cut calls, boots, names used again, a disk that grows | the first never shows the other's disk; data kept; no device removed under a mount; implements `NodeStaging`, which includes that every path shows its own disk only |
| `node_live` | the same under fairness, sizes fixed | discovery leads to a mount; staging and unstaging end |
| `sizes` | two volumes reported in different units, requests around the GiB boundaries | a resize keeps the other volume's size; answers and hints are true |

And where the code does not do what the repository says (`expect: violation`):

| run | what it shows |
|---|---|
| `client_unlocked_attach` | an attach between another call's GET and PUT is undone by the PUT: the volume is deleted |
| `controller_delete_leaks` | create, publish, unpublish, delete leaves the volume behind, detached |
| `node_discovers_nothing` | discovery skips symbolic links, which is what `/sys/block` consists of: a volume without a reported device path is never staged |
| `sizes_one_gib` | a 1 GiB volume reported in bytes is read as 2^30 GiB and sent back so by the next resize |

### Limits that show when a constant is changed

| run | change | fails | why |
|---|---|---|---|
| `client_locked` | `KeepsNames = FALSE` | `OneVolumePerName` | a repeated CreateVolume makes a second volume |
| `client_locked` | `MaxDeferred <- DeferredHome` | `NoSilentDrop`, `NeverShrinks`, `ReadIsCurrent` | a resize that outlives the polling loop, or its lost answer, is undone by the next caller's array |
| `client_live` | `RootIntact` as an invariant | `RootIntact` | DetachVolume has no guard for the root disk (`client.go:345`), unlike DeleteVolume, MoveVolume and ExpandVolume (278, 318, 378) |
| `controller_one_claim` | `Renamed = TRUE` | `PublishedIsAttached` | while the Kubernetes API fails, a node's label is replaced by the search it overrides (`controller.go:211`, README.md:44-45) |
| `controller_moves` | `Faults = TRUE`, invariants only | `DeletedIsGone` | a failed GET counts as "not found" (`controller.go:88`): DeleteVolume asks the server of the id, succeeds, and the volume stays, attached to another |
| `controller_moves` | `Unpublish` in `Lifecycle` | `PublishingEnds` | an unpublished volume is in no server's array and never found again (`client.go:310`, README.md:108-110) |
| `controller_two_claims` | `MaxDeferred <- Deferred` | `ClaimKeepsItsVolume`, `PublishedIsAttached` | a late resize is undone by another call's array, as in `client_locked` |
| `controller_two_claims` | that and `KeepsNames = TRUE` | `ClaimsAreDisjoint` | one claim adopts the volume of another's late resize, whose retry then finds it by name |
| `controller_two_claims` | `Forget` in `Lifecycle`, `Labelled = {n1, n2}` | `ClaimKeepsItsVolume` | a forgotten volume is published at home again, between another CreateVolume's GET and PUT, and dropped |
| `controller_two_claims` | each claim has a home of its own, no symmetry of claims | `ClaimKeepsItsVolume` | a volume is published to the other claim's home, between a GET and a PUT there, and dropped |
| `node_service` | `Reported = {v2}` | `StagedIsOwn` | the path that CreateVolume recorded for `v1` on another server (`controller.go:62-64`, `node.go:54`) is another volume's disk here |
| `node_service` | `Reported = {}`, no path in the contexts, and `HintsSame`, `SizesSame`, or `SizesMeet` | `StagedIsOwn` | the only disk of the size that shows so far is another volume's, and is taken (`node.go:330`, README.md:40) |
| `node_live` | `SizesMeet`, `v1` alone and not reported | `DiscoveryEnds` | an expanded volume is looked for by its first size (`controller.go:129`) |
| `node_live` | `DiscoveryEnds` without its stop at the mount | `DiscoveryEnds` | a discovered volume that is mounted but not recorded is not found again, because discovery skips what is mounted (`node.go:588`, docs/mvp-scope.md:108): kubelet repeats a call that cannot succeed |
| `node_service` | `BlkidFails = TRUE` | `DataIsKept` | a blkid that fails is taken for "no filesystem", and the disk is formatted (`mount_exec.go:17`) |
| `node_service` | `Renumbered = TRUE` | `ReportedIsOwn`, `MountsHaveDevices`, `DataIsKept` | a reported name, a record, or a step under way, names a disk that has become another volume's |
| `node_service` | `RecordsFail = TRUE` | `MountsHaveDevices`, `DataIsKept` | a record that cannot be read stays behind, and later names a disk that got the name since; its device is deleted between another call's steps |
| `node_service` | `FailedMeansUnstaged = TRUE` | `MountsHaveDevices`, `DataIsKept` | a volume that is mounted but not recorded is detached; what is left mounted then names a disk that got the name since |

With `HostIsRefused = FALSE`, or with both volumes discovered by sizes of their
own, the invariants of `node_service` hold as well; `ReportedIsOwn` holds in every
row but that of `Renumbered`. When the name of a disk is used again between the
look and the command of another call, mkfs may find a disk that has a
filesystem: `DataIsKept` rests on the names as much as on blkid.

`CHECK_DEADLOCK FALSE` is set where the life of all claims can come to its end
(`controller_moves`, `controller_delete_leaks`).

### Fairness

`FairSpec`: the Go scheduler runs every caller (weak fairness of each caller's
steps), and Go mutexes do not starve a waiter (strong fairness of `Lock`).
Nothing is assumed of the appliance, of failures or of new calls.
`FairCtrlSpec` adds the sidecars' retry loops: an RPC that is to be repeated is
repeated (strong fairness, because it competes for callers). The liveness of
claims is checked without failing requests - with them the code promises nothing.

`NodeService!FairSpec`: a call under way goes on (weak fairness of its steps);
rescans do not miss an attached disk for ever (strong fairness of a rescan that
shows it: each makes the kernel look, and the loops repeat them); kubelet goes
on trying to stage what it is to stage (strong, because it may turn to unstaging)
and to unstage what it has begun to unstage. Failures are bounded (`MaxFaults`),
which stands for "they cease".

## What is proved

For every number of callers, servers, volumes, names, claims and nodes, and for
every size. Of `MorpheusClient!Spec`:

* `TypeCorrect`, `MutexSafe`, `MutualExclusion`: in full - all six calls, failures,
  restarts, deferral.
* `RootsSafe`: in full, for calls that may be given any volume. It says that nothing
  changes a root disk and that only a DetachVolume which was given one takes it
  from its server. `RootsStayAttached`: without DetachVolume the root disks stay where
  they are; the table of limits shows that the condition is needed.
* `ReadsAreCurrent`, `NothingDropped`, `SizesOnlyGrow`, `Refinement`, `ResultsAreLargeEnough`:
  under `Serialized`, that is for the locked calls on an appliance that defers
  nothing. `client_unlocked_attach`, and `client_locked` with deferred resizes, show
  that neither condition can be dropped.
* `NamesAreUnique`: under `Serialized` and `KeepsNames`. Without the second a repeated
  CreateVolume makes a second volume (table of limits).

Of `ControllerService!CtrlSpec`:

* `ControllerUsesClient`, `CtrlTypeCorrect`, `CtrlKeepsClientSafe`: in full. Every step of
  the controller is one that `MorpheusClient!Next` allows, so whatever is proved
  of the client holds under the controller: its mutexes, and `RootsSafe`. The root
  disks even stay attached, DetachVolume included, because the only volumes the
  controller passes on are those CreateVolume answered, which are no root disks
  (`ClaimsSpareRoots`). A PersistentVolume written by hand is not covered.
* `NoOrphans`, `ClaimsAreApart`: under `KeepsNames` and `HomesAtOnce` (a resize of a server
  that volumes are created on takes effect before its answer; others may be
  late). Volumes move, are forgotten, requests and processes fail. Without
  `HomesAtOnce` one claim adopts the volume of another's late resize (table of
  limits); without names `NoOrphan` cannot tell, and for the claims see
  `ClaimsAreApartWithoutNames`.
* `DeletionLeavesNothingAttached`: under `DeletionSetting` - no request fails, every
  node has a label that can be read, nothing is deferred, names are kept. A claim
  whose DeleteVolume succeeded has its volume on no server, moves, forgotten
  attachments and ControllerUnpublishVolume included. That is all DeleteVolume achieves: `controller_delete_leaks` finds the
  volume detached and left behind, and with a failing GET it may even be attached
  (table of limits).
* `VolumesStayPublished`, `ClaimsKeepTheirVolumes`, `ClaimsAreApartWithoutNames`, `AnswersStayTrue`,
  `ControllerRefinesStore`, `ControllerDropsNothing`, `ControllerNeverShrinks`: under `Setting`, of
  which `controller_two_claims` is an instance. Failures, lost answers, restarts, every
  overlap of RPCs and an appliance that reports no names are included. `Setting` is
  four conditions:

  | condition | without it |
  |---|---|
  | `HomesAtOnce` | a late resize undoes another's (`MaxDeferred` in the table of limits) |
  | `NodesResolve`: a node is taken for its own server or for none | it is attached to another (`Renamed`) |
  | `NothingForgotten`: no VolumeAttachment goes away without ControllerUnpublishVolume | a volume can come back to its home while an array of the home is on its way (`Forget`) |
  | `OneStorageClass`: all volumes are created on one server | a volume is attached to another class's server between the GET and the PUT of a resize there, which drops it (homes of their own) |

  The last two show how the driver gets by without the mutex in attach: in this
  setting a volume leaves its home and never comes back.

Of the others:

* `NodeTypeCorrect`: of `NodeService!Spec` in full, for any number of volumes, names,
  sizes, attempts and faults.
* `ReportedIsOwnCorrect`: under `~Renumbered` alone. Whatever the others do - the same
  size, a stale path in a volume context, a wrong blkid, a record left behind, a
  device deleted by mistake, a disk detached under its mount - a volume whose
  attach answer names its disk is never shown another's.
* `DataIsKeptCorrect`, `MountsHaveDevicesCorrect`, `StagingRefined`: under `ToldApart`, which
  says that every volume without a reported path has no path in its volume context
  and a size hint that no other volume's sizes contain, and excludes `Renumbered`,
  `BlkidFails`, `RecordsFail` and `FailedMeansUnstaged`. `StagingRefined` implies that a
  discovered volume is staged from its own disk. The table of
  limits shows that no part of the condition can be dropped.
* `SizesTypeCorrect`: of `VolumeSizes!Spec` in full. `CapacityIsThereCorrect`,
  `AskedIsCoveredCorrect`, `HintFindsDiskCorrect`, `SizesAreKeptCorrect`: under `ToldInOneUnit`,
  for any GiB, volumes and requests. `ToldInOneUnit` says that storageSizeGiB takes
  every size the way it is meant: more than a GiB if in bytes, no more than 2^30
  GiB if in GiB. `sizes_one_gib` shows that it is needed.

The other assumptions are those of the modules' constants (`ApiAssumption`,
`ClientAssumption`, `ControllerAssumption`, `DeviceAssumption`, `ServiceAssumption`,
`SizesAssumption`), which TLC evaluates on every run.

**Types** are not inductive alone: what the steps of a call may rely on
(`CallOK`: a call under way has a server, a volume id where it needs one, ...)
is part of `TypeInv`.

**Mutex.** `LockDiscipline` is inductive with `TypeInv`; `MutualExclusion` follows.

**Root disks.** `RootSafe` says that a root disk is on its server or detached, unchanged
(`RootsHome`); that every outstanding array of a server whose root disk is there has
it, as it is (`QueuesKeepRoots`), because an array takes effect long after it was
read; and what each call knows (`SparesRoots`): the array it is about to send has the
root disk if that is attached, and past the guards of DeleteVolume, ExpandVolume and
MoveVolume its volume is none. A detached root disk is not in any array read
later, and a payload that omits it does nothing to it.

**The store.** `StoreInv` joins those with: no unlocked call is under way and
nothing is outstanding (`OnlyLocked`), what a call carries to its PUT
(`Requested`), what its decision says of the array it read (`Prepared`), and
`ReadIsCurrent`. The central lemma, `WriteCallsInv`: a PUT on a server leaves
the arrays read by the other callers current, for they hold the mutexes of other
servers (`LockDiscipline`), and an array touches the volumes of its own server
only (`OtherServersKeep`). With that, `OnePutOneVolume` shows that the array differs
from what is there in one volume, so the PUT is `Destroy`, `Grow` or `Provision`
of `VolumeStore`; every other step stutters, except that calling DeleteVolume is `Ask`.
`NothingDropped` and `SizesOnlyGrow` follow from the refinement step.
`client_locked` checks the same statements with TLC.

**Names.** `SizesHold` adds to `StoreInv` that the volume a call is to answer is large
enough; a server's array changes between the PUT and the polling only by the
caller itself, which has the mutex. `NamesHold` says that the live volumes of a name
and those ever answered for it are one, which is on the home of the name;
EnsureVolume makes another only after it saw none under the mutex.

**The controller.** `CtrlInv` relates the RPC a caller serves to the call it makes (`Serves`),
to the phase of the claim (`RpcFits`) and to the other RPCs of the claim
(`OneRpcOfAKind`). It makes every `CtrlNext` step a step of the client with legal
arguments. `NameInv`, for `ClaimProofs`, adds that arrays read or outstanding give no
volume a name it does not have (`ArraysNamed`), that a name is given once, deleted
volumes included (`OneOfAName`), that what an earlier attempt left for a waiting claim
is where the next one looks and in every array about to be written there (`WaitsAtHome`),
and that an EnsureVolume under way, and a claim, has a volume of its name
(`EnsureNames`, `ClaimsNamed`).

**Deletion.** `DeletionInv`: a claim's volume is on a server DeleteVolume asks, or gone, or
detached with a publish about to attach it (`Findable`); until DeleteVolume is done, the
volume is on a server its search has yet to ask, or on the one it will delete it
from (`Looking`) - no move changes that, because the sidecars do not publish a claim
they are deleting.

**Placement.** `Inv` joins `CtrlInv`, `LockDiscipline` and `RootIntact` with where each volume is:
one that no claim has is at home (`Strays`); a claim's is at home, detached, on the
node's server, or deleted at the claim's wish (`Placed`). For each call: what it knows
of the home before its PUT (`Locking` - not that the array read is current, which a
detach by another RPC makes untrue, but that it misses no volume that is there);
what CreateVolume will be answered belongs to nobody (`Offers`) and to no other
CreateVolume (`OffersApart`), which is how findNewVolume needs no names; where a
publish or unpublish has got to (`Moving`); what answers say (`Answering`, `Pointing`).
`WriteEffect` shows that a PUT then creates, resizes or deletes one volume, or none
if its volume has left the home meanwhile. With `Requested` that makes every step
`Provision`, `Grow`, `Destroy`, `Detach`, `Attach` or `Ask` of `VolumeStore`, or a stutter.

**The node.** `BaseInv` holds while disks keep their names: a name belongs to one
disk (`NamesOK`), kubelet's phase goes with the call under way and the attachment,
and a publish context names the disk there is (`PhaseOK`). `ReportedInv` adds, of the
volumes with a reported path only, that what their calls carry is their own name
(`KeepsOwn`) and that their paths show nothing else; it says nothing of the other
volumes, which is why it survives whatever is done for them: a name of theirs is
never freed while something is mounted from it.

`OwnInv` is the stronger invariant under `ToldApart`: mounts and record are of the
volume's own disk, with a visible, formatted device under a mount, and nothing is
left of either when kubelet takes the volume for unstaged (`MountOK`); a search has
put no candidate but the own disk on its lists (`SearchOK`); and what the step a
call has reached relies on (`StepOK`: the device carried is its own, a disk about to
be formatted is blank); `DataIsKept`. `StepOK` is what makes it inductive: a device
found is used several steps later, after other calls ran, and it is still the
volume's own because discovery by a telling size, a reported path and the record
all lead to one name. In the refinement each step of `NodeService` is
`Appear`, `Vanish`, `Format`, `Stage`, `Unstage`, `Publish`, `Unpublish`, `Reboot` of
`NodeStaging`, or a stutter; the mapping `Shown` from names to disks is a choice
that `OwnInv` makes unique.

**Sizes.** `SizesInv`: every disk is a whole number of GiB, which is the one read
back from the field it is reported in (`ReadBack`), and capacity and hint are its
size, or were before it grew. Hence writing back what was read changes nothing
(`SizesAreKept`). The rounding is in two lemmas, `CeilCovers` and `CeilExact`.

Every invariant of a passing run is stated by a theorem, except `DeletedIsGone`
(`controller_moves`), of which `DeletionLeavesNothingAttached` proves the part that holds
after ControllerUnpublishVolume too. Model-checked only:
`CallsReturn`, `ClaimsAreServed`, `PublishingEnds` and the ends of staging, discovery and unstaging,
because liveness under fairness (`ENABLED`) is beyond the prover; and the refinement of
`VolumeStore` when attachments are forgotten (`controller_one_claim`, one claim).

## Not modelled

* JSON parsing and the aliases of field names, storage types and datastores, TLS
  and token handling, the encoding of volume ids, logging: no behaviour over time.
* The identity service (constant answers) and the configuration (read once).
* On the node: read-only mounts, the choice of a filesystem type, the file names
  of records, partitions and the prefixes of devices that discovery skips - the
  volumes of Morpheus are whole disks. Disks that are not Kubernetes volumes are not
  modelled either: a blank data disk of a matching size that is not mounted would
  be a candidate like any other.
* The socket file and the graceful stop: one instance runs per worker.
* The HTTP exchange with the Kubernetes API, of which only the outcomes matter.

## Plan

1. `DriverLifecycle`: socket file and graceful stop with overlapping instances.
2. Composition of controller and node: a published volume is staged from its own
   disk, which joins `PublishedIsAttached` and `ReportedIsOwn`.
3. Theorems: the refinement of `VolumeStore` with forgotten attachments for claims of
   different names (it needs an attach that takes the mutex); `NoOrphan` with
   deferral on provisioning servers when polling outlasts it.

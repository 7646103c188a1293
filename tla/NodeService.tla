---------------------------- MODULE NodeService ----------------------------
(***************************************************************************)
(* internal/driver/node.go: the RPCs of the CSI node service, and kubelet, *)
(* which calls them. Kubelet has one call per volume under way; calls for  *)
(* different volumes overlap, and the driver takes no lock. Every look at  *)
(* the devices and every command is a step of its own:                     *)
(*                                                                         *)
(*   NodeStageVolume    rescan, find the device (list /sys/block; size,    *)
(*                      mounts and blkid of each disk; choose, or rescan   *)
(*                      and list again), wait for it, make the directory,  *)
(*                      blkid, mkfs, mount, record                         *)
(*   NodeUnstageVolume  look up the mount, else the record, umount, look   *)
(*                      whether the device is mounted, delete it, forget   *)
(*                      the record                                         *)
(*   NodePublishVolume, NodeUnpublishVolume, NodeExpandVolume              *)
(*                      one command that matters                           *)
(*                                                                         *)
(* The driver keeps nothing in memory between calls, so a restart of the   *)
(* driver and a deadline are both a call cut short (Abort).                *)
(***************************************************************************)
EXTENDS NodeDevices

CONSTANTS
    Reported,            \* volumes whose attach answer names their disk
    ContextPath,         \* [Volumes -> name CreateVolume recorded, or None]
    Attempts,            \* deviceDiscoveryAttempts
    HostIsRefused,       \* RemoveDevice of the host filesystem: refused or ignored?
    FailedMeansUnstaged, \* does kubelet take a failed stage for not staged?
    RecordsFail,         \* may the staged-device metadata be unreadable?
    MaxFaults            \* commands that fail, calls cut short, boots

\* The appliance is taken at its word when it answers an attach: the name is the
\* one the disk gets. What CreateVolume recorded, on another server, may be any.
ASSUME ServiceAssumption ==
    /\ Reported \subseteq Volumes
    /\ ContextPath \in [Volumes -> Names \cup {None}]
    /\ Attempts \in Nat \ {0}
    /\ {HostIsRefused, FailedMeansUnstaged, RecordsFail} \subseteq BOOLEAN
    /\ MaxFaults \in Nat

VARIABLES
    phase,      \* what kubelet knows of each volume
    published,  \* [Volumes -> name in the publish context, or None]
    pc,         \* the next step of the call for each volume
    device,     \* the device, or source, that step works on
    tries,      \* attempt, in the discovery and wait loops
    entries,    \* names the discovery has yet to look at
    blank,      \* candidates without a filesystem
    formatted,  \* candidates with one
    faults      \* what may still go wrong

kubeVars   == <<phase, published>>
searchVars == <<entries, blank, formatted>>
callVars   == <<kubeVars, pc, device, tries, searchVars>>
vars       == <<nodeVars, callVars, faults>>

Phases == {"detached", "attached", "staging", "uncertain", "staged",
           "published", "unstaging"}
Looking  == {"look", "mounts", "probe"}
Finding  == {"rescan", "discover", "rediscover"} \cup Looking
Holding  == {"wait", "rewait", "mkdir", "blkid", "mkfs", "mount", "record"}
Removing == {"source", "recorded", "umount", "remove", "delete", "forget"}
Steps    == {"idle"} \cup Finding \cup Holding \cup Removing

\* The types of the node's and of the calls' state.
NodeTypeOK ==
    /\ DeviceTypeOK
    /\ phase \in [Volumes -> Phases]
    /\ published \in [Volumes -> Names \cup {None}]
    /\ pc \in [Volumes -> Steps]
    /\ device \in [Volumes -> Names \cup {None, Host}]
    /\ tries \in [Volumes -> 0 .. Attempts - 1]
    /\ {entries, blank, formatted} \subseteq [Volumes -> SUBSET Names]
    /\ faults \in 0 .. MaxFaults

Init ==
    /\ DeviceInit
    /\ phase = [v \in Volumes |-> "detached"]
    /\ published = [v \in Volumes |-> None]
    /\ pc = [v \in Volumes |-> "idle"]
    /\ device = [v \in Volumes |-> None]
    /\ tries = [v \in Volumes |-> 0]
    /\ entries = [v \in Volumes |-> {}]
    /\ blank = [v \in Volumes |-> {}]
    /\ formatted = [v \in Volumes |-> {}]
    /\ faults = MaxFaults

-----------------------------------------------------------------------------
(* Calls.                                                                  *)

Goto(v, step) ==
    /\ pc' = [pc EXCEPT ![v] = step]
    /\ UNCHANGED <<kubeVars, device, tries, searchVars>>

\* The discovery goes on with name n.
Seek(v, step, n) ==
    /\ pc' = [pc EXCEPT ![v] = step]
    /\ device' = [device EXCEPT ![v] = n]
    /\ UNCHANGED <<kubeVars, tries>>

\* A discovery, or an attempt of it, is over.
EndSearch(v) ==
    /\ entries' = [entries EXCEPT ![v] = {}]
    /\ blank' = [blank EXCEPT ![v] = {}]
    /\ formatted' = [formatted EXCEPT ![v] = {}]

\* The next step works on device n; its loop starts over.
GotoWith(v, step, n) ==
    /\ pc' = [pc EXCEPT ![v] = step]
    /\ device' = [device EXCEPT ![v] = n]
    /\ tries' = [tries EXCEPT ![v] = 0]
    /\ EndSearch(v)
    /\ UNCHANGED kubeVars

\* The RPC for v returns and kubelet takes v to be in phase p.
Return(v, p) ==
    /\ pc' = [pc EXCEPT ![v] = "idle"]
    /\ phase' = [phase EXCEPT ![v] = p]
    /\ device' = [device EXCEPT ![v] = None]
    /\ tries' = [tries EXCEPT ![v] = 0]
    /\ EndSearch(v)
    /\ UNCHANGED published

\* The RPC returns an error: a failed NodeUnstageVolume is repeated, a failed
\* NodeStageVolume means that nothing is staged, or that it may be.
AfterError(v) ==
    IF phase[v] = "unstaging" THEN "unstaging"
    ELSE IF FailedMeansUnstaged THEN "attached" ELSE "uncertain"

Fail(v) == Return(v, AfterError(v))

\* Something of the node fails.
Fault == faults > 0 /\ faults' = faults - 1

\* An attempt is used up: the loop goes on with step and device n.
NextAttempt(v, step, n) ==
    /\ tries' = [tries EXCEPT ![v] = @ + 1]
    /\ pc' = [pc EXCEPT ![v] = step]
    /\ device' = [device EXCEPT ![v] = n]
    /\ EndSearch(v)
    /\ UNCHANGED kubeVars

\* mutant: one attempt too many.
LoopOneMore(v, step, n) ==
    IF tries[v] = Attempts THEN Fail(v) ELSE NextAttempt(v, step, n)

\* The loops of DiscoverDevicePath and waitForDevice, which end in an error.
Loop(v, step, n) ==
    IF tries[v] + 1 = Attempts THEN Fail(v) ELSE NextAttempt(v, step, n)

Begin(v, from, p, step) ==
    /\ phase[v] \in from /\ pc[v] = "idle"
    /\ phase' = [phase EXCEPT ![v] = p]
    /\ pc' = [pc EXCEPT ![v] = step]
    /\ UNCHANGED <<nodeVars, published, device, tries, searchVars, faults>>

-----------------------------------------------------------------------------
(* NodeStageVolume.                                                        *)

NodeStageVolume(v) == Begin(v, {"attached", "uncertain"}, "staging", "rescan")

\* mutant: the volume context goes before the publish context.
DevicePathContextFirst(v) ==
    IF ContextPath[v] # None THEN ContextPath[v] ELSE published[v]

\* devicePath(publishContext, volumeContext)
DevicePath(v) == IF published[v] # None THEN published[v] ELSE ContextPath[v]

\* RescanDevices, at the start of the call and before each further attempt.
Rescan(v) ==
    /\ RescanDevices
    /\ \/ /\ pc[v] = "rescan"
          /\ IF DevicePath(v) # None THEN GotoWith(v, "wait", DevicePath(v))
                                     ELSE Goto(v, "discover")
       \/ pc[v] = "rediscover" /\ Goto(v, "discover")
       \/ pc[v] = "rewait" /\ Goto(v, "wait")
    /\ UNCHANGED faults

\* classifyBlockDevices: the names there are.
ListDevices(v) ==
    /\ pc[v] = "discover"
    /\ entries' = [entries EXCEPT ![v] = Entries]
    /\ UNCHANGED <<blank, formatted>>
    /\ Seek(v, "look", None)
    /\ UNCHANGED <<nodeVars, faults>>

\* The size of one of them.
LookAtSize(v) ==
    /\ pc[v] = "look"
    /\ \E n \in entries[v] :
        /\ entries' = [entries EXCEPT ![v] = @ \ {n}]
        /\ IF FitsHint(v, n) THEN Seek(v, "mounts", n) ELSE Seek(v, "look", None)
    /\ UNCHANGED <<blank, formatted, nodeVars, faults>>

\* isMountedSource
LookAtMounts(v) ==
    /\ pc[v] = "mounts"
    /\ IF IsMounted(device[v]) THEN Seek(v, "look", None)
                               ELSE Seek(v, "probe", device[v])
    /\ UNCHANGED <<searchVars, nodeVars, faults>>

\* hasFilesystemFunc
Probe(v) ==
    /\ pc[v] = "probe"
    /\ \/ /\ TRUE \in LooksBlank(device[v])
          /\ blank' = [blank EXCEPT ![v] = @ \cup {device[v]}]
          /\ UNCHANGED formatted
       \/ /\ FALSE \in LooksBlank(device[v])
          /\ formatted' = [formatted EXCEPT ![v] = @ \cup {device[v]}]
          /\ UNCHANGED blank
    /\ Seek(v, "look", None)
    /\ UNCHANGED <<entries, nodeVars, faults>>

\* mutant: a disk that has a filesystem is never taken.
EligibleBlank(v) == blank[v]

\* Without a blank one a formatted one will do, if it has the size asked for.
Eligible(v) ==
    IF blank[v] # {} THEN blank[v] ELSE IF HintOf[v] = 0 THEN {} ELSE formatted[v]

\* DiscoverDevicePath: the only eligible one; several are refused.
DiscoverDevicePath(v) ==
    /\ pc[v] = "look" /\ entries[v] = {}
    /\ \/ \E n \in Eligible(v) : Eligible(v) = {n} /\ GotoWith(v, "wait", n)
       \/ Eligible(v) = {} /\ Loop(v, "rediscover", None)
       \/ (\E m, n \in Eligible(v) : m # n) /\ Fail(v)
    /\ UNCHANGED <<nodeVars, faults>>

\* waitForDevice, one attempt.
WaitForDevice(v) ==
    /\ pc[v] = "wait"
    /\ IF DisksAt(device[v]) = {} THEN Loop(v, "rewait", device[v]) ELSE Goto(v, "mkdir")
    /\ UNCHANGED <<nodeVars, faults>>

\* mutant: a staging path that is mounted already is an error.
StageDeviceOnce(v) ==
    /\ pc[v] = "mkdir"
    /\ dirs' = dirs \cup {v}
    /\ IF staged[v] # None THEN Fail(v) ELSE Goto(v, "blkid")
    /\ UNCHANGED <<diskVars, staged, bound, record, fs, wiped, faults>>

\* Stage: the staging directory, which may be a mount already. Only the volume's
\* own calls change either, so making the one and looking at the other is a step.
StageDevice(v) ==
    /\ pc[v] = "mkdir"
    /\ dirs' = dirs \cup {v}
    /\ Goto(v, IF staged[v] # None THEN "record" ELSE "blkid")
    /\ UNCHANGED <<diskVars, staged, bound, record, fs, wiped, faults>>

\* hasFilesystem
HasFilesystem(v) ==
    /\ pc[v] = "blkid"
    /\ \E b \in LooksBlank(device[v]) : Goto(v, IF b THEN "mkfs" ELSE "mount")
    /\ UNCHANGED <<nodeVars, faults>>

\* formatDevice, which refuses a device that is mounted.
FormatDevice(v) ==
    /\ pc[v] = "mkfs"
    /\ IF DisksAt(device[v]) = {} \/ IsMounted(device[v])
       THEN Fail(v) /\ UNCHANGED <<fs, wiped>>
       ELSE LET disks == DisksAt(device[v]) IN
            /\ fs' = [w \in Volumes |-> IF w \in disks THEN capacity[w] ELSE fs[w]]
            /\ wiped' = wiped \cup {w \in disks : fs[w] # 0}
            /\ Goto(v, "mount")
    /\ UNCHANGED <<diskVars, fileVars, faults>>

\* mount
Mount(v) ==
    /\ pc[v] = "mount"
    /\ IF \E w \in DisksAt(device[v]) : fs[w] # 0
       THEN staged' = [staged EXCEPT ![v] = device[v]] /\ Goto(v, "record")
       ELSE Fail(v) /\ UNCHANGED staged
    /\ UNCHANGED <<diskVars, bound, dirs, record, fs, wiped, faults>>

\* RecordStagedDevice replaces the metadata file at once; success.
RecordStagedDevice(v) ==
    /\ pc[v] = "record"
    /\ record' = [record EXCEPT ![v] = device[v]]
    /\ Return(v, "staged")
    /\ UNCHANGED <<diskVars, staged, bound, dirs, fs, wiped, faults>>

-----------------------------------------------------------------------------
(* NodeUnstageVolume.                                                      *)

NodeUnstageVolume(v) ==
    Begin(v, {"uncertain", "staged", "unstaging"}, "unstaging", "source")

\* mutant: without a record there is nothing to unstage.
LookUpSourceRecorded(v) ==
    /\ pc[v] = "source"
    /\ IF record[v] = None THEN Return(v, "attached")
       ELSE IF MountedSource(v) = None THEN Goto(v, "recorded")
       ELSE GotoWith(v, "umount", MountedSource(v))
    /\ UNCHANGED <<nodeVars, faults>>

\* MountedSource: the device to remove, before it is unmounted. findmnt fails
\* when there is no such path.
LookUpSource(v) ==
    /\ pc[v] = "source"
    /\ IF MountedSource(v) = None THEN Goto(v, "recorded")
                                  ELSE GotoWith(v, "umount", MountedSource(v))
    /\ UNCHANGED <<nodeVars, faults>>

\* StagedDevicePath; no record, no device to remove.
StagedDevicePath(v) ==
    /\ pc[v] = "recorded"
    /\ GotoWith(v, "umount", record[v])
    /\ UNCHANGED <<nodeVars, faults>>

\* mutant: a path that is no mount is left alone.
UnmountMounted(v) ==
    /\ pc[v] = "umount"
    /\ staged' = [staged EXCEPT ![v] = None]
    /\ dirs' = IF staged[v] = None THEN dirs ELSE dirs \ {v}
    /\ IF device[v] = None THEN Return(v, "attached") ELSE Goto(v, "remove")
    /\ UNCHANGED <<diskVars, bound, record, fs, wiped, faults>>

\* Unmount; the directory is removed whether it was a mount or not. Without a
\* device to remove the call is done.
Unmount(v) ==
    /\ pc[v] = "umount"
    /\ staged' = [staged EXCEPT ![v] = None]
    /\ dirs' = dirs \ {v}
    /\ IF device[v] = None THEN Return(v, "attached") ELSE Goto(v, "remove")
    /\ UNCHANGED <<diskVars, bound, record, fs, wiped, faults>>

\* RemoveDevice up to its look at the delete file: a device that is mounted is
\* refused, one that is gone needs no removal.
RemoveDevice(v) ==
    /\ pc[v] = "remove"
    /\ IF \/ device[v] = Host /\ HostIsRefused
          \/ device[v] # Host /\ IsMounted(device[v])
       THEN Fail(v)
       ELSE Goto(v, IF DisksAt(device[v]) = {} THEN "forget" ELSE "delete")
    /\ UNCHANGED <<nodeVars, faults>>

\* The write to the delete file.
DeleteDevice(v) ==
    /\ pc[v] = "delete"
    /\ visible' = visible \ DisksAt(device[v])
    /\ Goto(v, "forget")
    /\ UNCHANGED <<name, size, capacity, fileVars, fs, wiped, faults>>

ForgetStagedDevice(v) ==
    /\ pc[v] = "forget"
    /\ record' = [record EXCEPT ![v] = None]
    /\ Return(v, "attached")
    /\ UNCHANGED <<diskVars, staged, bound, dirs, fs, wiped, faults>>

-----------------------------------------------------------------------------
(* NodePublishVolume, NodeUnpublishVolume and NodeExpandVolume.            *)

\* The target shows the staging path, unless it is a mount already. Of a path
\* where nothing is mounted it shows the host's filesystem.
BindMount(v) ==
    bound' = [bound EXCEPT ![v] = IF @ # None THEN @
                                  ELSE IF staged[v] # None THEN staged[v]
                                  ELSE Host]

NodePublishVolume(v) ==
    /\ phase[v] \in {"staged", "published"} /\ pc[v] = "idle"
    /\ BindMount(v)
    /\ phase' = [phase EXCEPT ![v] = "published"]
    /\ UNCHANGED <<diskVars, staged, dirs, record, fs, wiped>>
    /\ UNCHANGED <<published, pc, device, tries, searchVars, faults>>

NodeUnpublishVolume(v) ==
    /\ phase[v] = "published" /\ pc[v] = "idle"
    /\ bound' = [bound EXCEPT ![v] = None]
    /\ phase' = [phase EXCEPT ![v] = "staged"]
    /\ UNCHANGED <<diskVars, staged, dirs, record, fs, wiped>>
    /\ UNCHANGED <<published, pc, device, tries, searchVars, faults>>

\* resize2fs: the filesystem on w fills what the kernel knows of the device.
ExpandFilesystem(w) == fs' = [fs EXCEPT ![w] = capacity[w]]

\* The capacity answered is the one asked for, whatever the filesystem has got.
NodeExpandVolume(v) ==
    /\ phase[v] \in {"staged", "published"} /\ pc[v] = "idle"
    /\ \E w \in DisksAt(staged[v]) : ExpandFilesystem(w)
    /\ UNCHANGED <<diskVars, fileVars, wiped, callVars, faults>>

-----------------------------------------------------------------------------
(* Failures, and the controller's part.                                    *)

\* Steps of which a command or a file operation may fail: the discovery uses an
\* attempt up; without an answer of findmnt the record is read, and without a
\* readable record nothing is removed; anywhere else the RPC fails. MkdirAll may
\* have made the directory.
FailingSteps == {"rescan", "mkdir", "blkid", "mkfs", "mount", "record",
                 "umount", "remove", "delete", "forget"}

CommandFails(v) ==
    /\ Fault
    /\ \/ /\ pc[v] \in {"rediscover", "discover", "mounts", "probe"}
          /\ Loop(v, "rediscover", None)
       \/ pc[v] = "source" /\ Goto(v, "recorded")
       \/ RecordsFail /\ pc[v] = "recorded" /\ GotoWith(v, "umount", None)
       \/ pc[v] \in FailingSteps /\ Fail(v)
    /\ dirs' \in {dirs, IF pc[v] = "mkdir" THEN dirs \cup {v} ELSE dirs}
    /\ UNCHANGED <<diskVars, staged, bound, record, fs, wiped>>

\* The driver is killed or the deadline passes: kubelet knows nothing of how
\* far the call got. Between umount and the removal of its directory, too.
Abort(v) ==
    /\ pc[v] # "idle"
    /\ Fault
    /\ Return(v, IF phase[v] = "unstaging" THEN "unstaging" ELSE "uncertain")
    /\ staged' \in {staged, IF pc[v] = "umount" THEN [staged EXCEPT ![v] = None]
                                               ELSE staged}
    /\ UNCHANGED <<diskVars, bound, dirs, record, fs, wiped>>

\* The node boots. Kubelet goes by the directories it finds.
Reboot ==
    /\ Fault
    /\ Boot
    /\ phase' = [v \in Volumes |->
                    IF phase[v] \in {"staging", "staged", "published"}
                    THEN "uncertain" ELSE phase[v]]
    /\ pc' = [v \in Volumes |-> "idle"]
    /\ device' = [v \in Volumes |-> None]
    /\ tries' = [v \in Volumes |-> 0]
    /\ entries' = [v \in Volumes |-> {}]
    /\ blank' = [v \in Volumes |-> {}]
    /\ formatted' = [v \in Volumes |-> {}]
    /\ UNCHANGED published

\* ControllerPublishVolume and ControllerUnpublishVolume. A volume is detached
\* when kubelet takes it for unstaged.
Attach(v) ==
    /\ phase[v] = "detached"
    /\ \E n \in Names :
        /\ AttachDisk(v, n)
        /\ published' = [published EXCEPT ![v] = IF v \in Reported THEN n ELSE None]
    /\ phase' = [phase EXCEPT ![v] = "attached"]
    /\ UNCHANGED <<pc, device, tries, searchVars, faults>>

Detach(v) ==
    /\ phase[v] = "attached" /\ pc[v] = "idle"
    /\ DetachDisk(v)
    /\ phase' = [phase EXCEPT ![v] = "detached"]
    /\ published' = [published EXCEPT ![v] = None]
    /\ UNCHANGED <<pc, device, tries, searchVars, faults>>

\* ControllerExpandVolume, and the kernel some time later.
Grow(v) ==
    /\ Notice(v) \/ \E s \in SizesOf[v] : GrowDisk(v, s)
    /\ UNCHANGED <<callVars, faults>>

\* The steps of a call under way.
SearchStep(v) ==
    ListDevices(v) \/ LookAtSize(v) \/ LookAtMounts(v) \/ Probe(v) \/ DiscoverDevicePath(v)
StageStep(v) ==
    \/ Rescan(v) \/ SearchStep(v) \/ WaitForDevice(v) \/ StageDevice(v)
    \/ HasFilesystem(v) \/ FormatDevice(v) \/ Mount(v) \/ RecordStagedDevice(v)
UnstageStep(v) ==
    \/ LookUpSource(v) \/ StagedDevicePath(v) \/ Unmount(v)
    \/ RemoveDevice(v) \/ DeleteDevice(v) \/ ForgetStagedDevice(v)
Step(v) == StageStep(v) \/ UnstageStep(v)

Next ==
    \/ \E v \in Volumes :
        \/ NodeStageVolume(v) \/ NodeUnstageVolume(v) \/ Step(v)
        \/ NodePublishVolume(v) \/ NodeUnpublishVolume(v) \/ NodeExpandVolume(v)
        \/ CommandFails(v) \/ Abort(v)
        \/ Attach(v) \/ Detach(v) \/ Grow(v)
    \/ Reboot

Spec == Init /\ [][Next]_vars

\* A call under way goes on; rescans do not miss a disk for ever; kubelet does
\* not give up staging or unstaging, unless it turns from the one to the other.
Fairness ==
    \A v \in Volumes :
        /\ WF_vars(Step(v))
        /\ SF_vars(Rescan(v) /\ v \in visible')
        /\ SF_vars(NodeStageVolume(v))
        /\ WF_vars(NodeUnstageVolume(v) /\ phase[v] = "unstaging")

FairSpec == Spec /\ Fairness

-----------------------------------------------------------------------------
(* Properties.                                                             *)

\* README.md:108-110, "CSI will publish and stage the same volume again": a
\* volume's staging path and the pod's target path never show another volume's
\* disk, nor, once published, the host's directory.
ShowsOwn(v) ==
    /\ bound[v] # Host
    /\ \A w \in Volumes \ {v} :
          name[w] # None => staged[v] # name[w] /\ bound[v] # name[w]

StagedIsOwn == \A v \in Volumes : ShowsOwn(v)

\* The same of the volumes whose attach answer names their disk, whatever is
\* guessed, mounted, formatted or deleted for the others in the meantime.
ReportedIsOwn == \A v \in Reported : ShowsOwn(v)

\* node.go:553-558: only blank disks are formatted, so a disk that has a
\* filesystem keeps it, whatever calls are repeated, overlap or are cut short.
DataIsKept == wiped = {}

\* What is mounted has a device: no disk is detached, and no device is deleted
\* (RemoveDevice refuses mounted ones), under a mount.
MountsHaveDevices ==
    \A v \in Volumes : \A n \in {staged[v], bound[v]} \cap Names :
        DisksAt(n) # {}

\* README.md:35-40: a volume without a device path is discovered - a blank disk
\* when it is new, one with a filesystem when it is attached again. Its
\* NodeStageVolume, repeated as often as it fails, ends with the disk mounted,
\* unless kubelet turns to unstaging it.
DiscoveryEnds ==
    \A v \in Volumes \ Reported :
        phase[v] = "staging" ~> staged[v] # None \/ phase[v] = "unstaging"

\* NodeStageVolume of a volume whose attach answer names its disk succeeds in the
\* end, also when an earlier one was cut short after it had mounted the disk.
StagingEnds ==
    \A v \in Reported :
        phase[v] = "staging" ~> phase[v] \in {"staged", "unstaging"}

\* NodeUnstageVolume ends, whatever was cut short before.
UnstagingEnds ==
    \A v \in Volumes : phase[v] = "unstaging" ~> phase[v] = "attached"

\* The staging paths behave like NodeStaging's, which knows nothing of names.
Shown(n) == IF n \in Names /\ DisksAt(n) # {}
            THEN CHOOSE w \in Volumes : w \in DisksAt(n) ELSE None
Staging == INSTANCE NodeStaging
    WITH present <- visible,
         formatted <- {v \in Volumes : fs[v] # 0},
         shows <- [v \in Volumes |-> Shown(staged[v])],
         pod <- [v \in Volumes |-> Shown(bound[v])]
ImplementsStaging == Staging!Spec
=============================================================================

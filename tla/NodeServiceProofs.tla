------------------------- MODULE NodeServiceProofs -------------------------
(***************************************************************************)
(* Proofs about NodeService, for any number of volumes and device names:   *)
(* its types; that a volume whose attach answer names its disk keeps to    *)
(* it, whatever is guessed for others; and, when every volume can be told  *)
(* apart on the node, that the staging paths behave like NodeStaging's.    *)
(***************************************************************************)
EXTENDS NodeService, TLAPS

-----------------------------------------------------------------------------
(* Types. A call that works on a device has a name, not the host.          *)

Naming == Holding \cup {"mounts", "probe"}

\* What the types of the state say of the parts the calls change.
CallTypeOK ==
    /\ phase \in [Volumes -> Phases]
    /\ published \in [Volumes -> Names \cup {None}]
    /\ pc \in [Volumes -> Steps]
    /\ device \in [Volumes -> Names \cup {None, Host}]
    /\ tries \in [Volumes -> 0 .. Attempts - 1]
    /\ entries \in [Volumes -> SUBSET Names]
    /\ blank \in [Volumes -> SUBSET Names]
    /\ formatted \in [Volumes -> SUBSET Names]
    /\ faults \in 0 .. MaxFaults
    /\ \A v \in Volumes : pc[v] \in Naming => device[v] \in Names

TypeInv ==
    /\ DeviceTypeOK
    /\ CallTypeOK
    /\ \A v \in visible : name[v] \in Names

LEMMA TypesFollow == TypeInv => NodeTypeOK
BY DEF TypeInv, CallTypeOK, NodeTypeOK

\* The steps by their names, and those at which a call has a device's name.
LEMMA StepNames ==
    /\ Steps = {"idle", "rescan", "discover", "rediscover", "look", "mounts", "probe",
                "wait", "rewait", "mkdir", "blkid", "mkfs", "mount", "record",
                "source", "recorded", "umount", "remove", "delete", "forget"}
    /\ Naming = {"mounts", "probe", "wait", "rewait", "mkdir", "blkid", "mkfs",
                 "mount", "record"}
BY DEF Steps, Finding, Looking, Holding, Removing, Naming

LEMMA InitTypes == Init => TypeInv
<1> SUFFICES ASSUME Init PROVE TypeInv
  OBVIOUS
<1> USE DeviceAssumption, ServiceAssumption DEF Init, DeviceInit
<1>1. size \in [Volumes -> Nat] /\ capacity \in [Volumes -> Nat]
  <2>1. \A v \in Volumes : SizesOf[v] \subseteq Nat
    OBVIOUS
  <2> QED
    BY <2>1
<1>2. DeviceTypeOK
  BY <1>1 DEF DeviceTypeOK
<1>3. phase \in [Volumes -> Phases] /\ pc \in [Volumes -> Steps]
  BY StepNames DEF Phases
<1>4. /\ tries \in [Volumes -> 0 .. Attempts - 1] /\ faults \in 0 .. MaxFaults
      /\ device \in [Volumes -> Names \cup {None, Host}]
      /\ published \in [Volumes -> Names \cup {None}]
  OBVIOUS
<1>5. /\ entries \in [Volumes -> SUBSET Names] /\ blank \in [Volumes -> SUBSET Names]
      /\ formatted \in [Volumes -> SUBSET Names]
  OBVIOUS
<1> QED
  BY <1>2, <1>3, <1>4, <1>5, StepNames DEF TypeInv, CallTypeOK

LEMMA GotoTypes ==
    ASSUME CallTypeOK, NEW v \in Volumes, NEW step \in Steps, Goto(v, step),
           step \in Naming => device[v] \in Names, faults' \in 0 .. MaxFaults
    PROVE  CallTypeOK'
BY DEF CallTypeOK, Goto, kubeVars, searchVars

LEMMA SeekTypes ==
    ASSUME CallTypeOK, NEW v \in Volumes, NEW step \in Steps,
           NEW n \in Names \cup {None}, Seek(v, step, n),
           step \in Naming => n \in Names, UNCHANGED faults,
           entries' \in [Volumes -> SUBSET Names],
           blank' \in [Volumes -> SUBSET Names],
           formatted' \in [Volumes -> SUBSET Names]
    PROVE  CallTypeOK'
BY DEF CallTypeOK, Seek, kubeVars

LEMMA GotoWithTypes ==
    ASSUME CallTypeOK, NEW v \in Volumes, NEW step \in Steps,
           NEW n \in Names \cup {None, Host}, GotoWith(v, step, n),
           step \in Naming => n \in Names, faults' \in 0 .. MaxFaults
    PROVE  CallTypeOK'
<1>1. 0 \in 0 .. Attempts - 1
  BY ServiceAssumption
<1> QED
  BY <1>1 DEF CallTypeOK, GotoWith, EndSearch, kubeVars

LEMMA ReturnTypes ==
    ASSUME CallTypeOK, NEW v \in Volumes, NEW p \in Phases, Return(v, p),
           faults' \in 0 .. MaxFaults
    PROVE  CallTypeOK'
<1>1. 0 \in 0 .. Attempts - 1
  BY ServiceAssumption
<1>2. "idle" \in Steps /\ "idle" \notin Naming
  BY StepNames
<1> QED
  BY <1>1, <1>2 DEF CallTypeOK, Return, EndSearch

LEMMA FailTypes ==
    ASSUME CallTypeOK, NEW v \in Volumes, Fail(v), faults' \in 0 .. MaxFaults
    PROVE  CallTypeOK'
<1>1. AfterError(v) \in Phases
  BY DEF AfterError, Phases
<1> QED
  BY <1>1, ReturnTypes DEF Fail

LEMMA LoopTypes ==
    ASSUME CallTypeOK, NEW v \in Volumes, NEW step \in Steps,
           NEW n \in Names \cup {None, Host}, Loop(v, step, n),
           step \in Naming => n \in Names, faults' \in 0 .. MaxFaults
    PROVE  CallTypeOK'
<1>1. CASE tries[v] + 1 = Attempts
  BY <1>1, FailTypes DEF Loop
<1>2. CASE tries[v] + 1 # Attempts
  <2>1. tries[v] + 1 \in 0 .. Attempts - 1
    BY <1>2, ServiceAssumption DEF CallTypeOK
  <2> QED
    BY <1>2, <2>1 DEF Loop, NextAttempt, EndSearch, CallTypeOK, kubeVars
<1> QED
  BY <1>1, <1>2

LEMMA BeginTypes ==
    ASSUME TypeInv, NEW v \in Volumes, NEW from, NEW p \in Phases,
           NEW step \in Steps \ Naming, Begin(v, from, p, step)
    PROVE  TypeInv'
BY DEF TypeInv, CallTypeOK, DeviceTypeOK, Begin, nodeVars, diskVars, fileVars, searchVars

\* A step that leaves the disks alone preserves what is known of them.
LEMMA SameNodeTypes ==
    ASSUME TypeInv, UNCHANGED <<diskVars, staged, bound, record, fs, wiped>>,
           dirs' \subseteq Volumes, CallTypeOK'
    PROVE  TypeInv'
BY DEF TypeInv, DeviceTypeOK, diskVars

LEMMA SameTypes ==
    ASSUME TypeInv, UNCHANGED nodeVars, CallTypeOK'
    PROVE  TypeInv'
BY DEF TypeInv, DeviceTypeOK, nodeVars, diskVars, fileVars

\* What discovery calls a device is the name of one.
LEMMA ListedNames == TypeInv => Entries \subseteq Names
BY DEF TypeInv, Entries

\* The steps of the search for a device.
LEMMA SearchTypes ==
    ASSUME TypeInv, NEW v \in Volumes, SearchStep(v)
    PROVE  TypeInv'
<1> USE DEF TypeInv
<1>0. CallTypeOK' /\ UNCHANGED nodeVars => TypeInv'
  BY SameTypes
<1>1. CASE ListDevices(v)
  <2>1. entries' \in [Volumes -> SUBSET Names]
    BY <1>1, ListedNames DEF ListDevices, CallTypeOK
  <2>2. /\ Seek(v, "look", None) /\ UNCHANGED <<blank, formatted, faults, nodeVars>>
    BY <1>1 DEF ListDevices
  <2>3. CallTypeOK'
    BY <2>1, <2>2, StepNames, SeekTypes DEF CallTypeOK
  <2> QED
    BY <1>0, <2>2, <2>3
<1>2. CASE LookAtSize(v)
  <2>1. PICK n \in entries[v] :
            /\ entries' = [entries EXCEPT ![v] = @ \ {n}]
            /\ IF FitsHint(v, n) THEN Seek(v, "mounts", n) ELSE Seek(v, "look", None)
    BY <1>2 DEF LookAtSize
  <2>2. n \in Names /\ entries' \in [Volumes -> SUBSET Names]
    BY <2>1 DEF CallTypeOK
  <2>3. UNCHANGED <<blank, formatted, faults, nodeVars>>
    BY <1>2 DEF LookAtSize
  <2>4. CallTypeOK'
    <3>1. CASE Seek(v, "mounts", n)
      BY <2>2, <2>3, <3>1, StepNames, SeekTypes DEF CallTypeOK
    <3>2. CASE Seek(v, "look", None)
      BY <2>2, <2>3, <3>2, StepNames, SeekTypes DEF CallTypeOK
    <3> QED
      BY <2>1, <3>1, <3>2
  <2> QED
    BY <1>0, <2>3, <2>4
<1>3. CASE LookAtMounts(v)
  <2>1. /\ device[v] \in Names /\ UNCHANGED <<entries, blank, formatted, faults, nodeVars>>
    BY <1>3, StepNames DEF LookAtMounts, CallTypeOK, searchVars
  <2>2. CallTypeOK'
    <3>1. CASE Seek(v, "look", None)
      BY <2>1, <3>1, StepNames, SeekTypes DEF CallTypeOK
    <3>2. CASE Seek(v, "probe", device[v])
      BY <2>1, <3>2, StepNames, SeekTypes DEF CallTypeOK
    <3> QED
      BY <1>3, <3>1, <3>2 DEF LookAtMounts
  <2> QED
    BY <1>0, <2>1, <2>2
<1>4. CASE Probe(v)
  <2>1. device[v] \in Names
    BY <1>4, StepNames DEF Probe, CallTypeOK
  <2>2. /\ blank' \in [Volumes -> SUBSET Names] /\ formatted' \in [Volumes -> SUBSET Names]
        /\ Seek(v, "look", None) /\ UNCHANGED <<entries, faults, nodeVars>>
    <3>1. ASSUME NEW f \in [Volumes -> SUBSET Names]
          PROVE  [f EXCEPT ![v] = @ \cup {device[v]}] \in [Volumes -> SUBSET Names]
      BY <2>1
    <3>2. Seek(v, "look", None) /\ UNCHANGED <<entries, faults, nodeVars>>
      BY <1>4 DEF Probe
    <3>3. /\ blank' \in {blank, [blank EXCEPT ![v] = @ \cup {device[v]}]}
          /\ formatted' \in {formatted, [formatted EXCEPT ![v] = @ \cup {device[v]}]}
      BY <1>4 DEF Probe
    <3> QED
      BY <3>1, <3>2, <3>3 DEF CallTypeOK
  <2>3. CallTypeOK'
    BY <2>2, StepNames, SeekTypes DEF CallTypeOK
  <2> QED
    BY <1>0, <2>2, <2>3
<1>5. CASE DiscoverDevicePath(v)
  <2>1. /\ Eligible(v) \subseteq Names /\ faults' \in 0 .. MaxFaults
        /\ UNCHANGED <<faults, nodeVars>>
    BY <1>5 DEF DiscoverDevicePath, Eligible, CallTypeOK
  <2>2. CallTypeOK'
    <3>1. ASSUME NEW n \in Eligible(v), GotoWith(v, "wait", n) PROVE CallTypeOK'
      BY <2>1, <3>1, StepNames, GotoWithTypes
    <3>2. CASE Loop(v, "rediscover", None)
      BY <2>1, <3>2, StepNames, LoopTypes
    <3>3. CASE Fail(v)
      BY <2>1, <3>3, FailTypes
    <3> QED
      BY <1>5, <3>1, <3>2, <3>3 DEF DiscoverDevicePath
  <2> QED
    BY <1>0, <2>1, <2>2
<1> QED
  BY <1>1, <1>2, <1>3, <1>4, <1>5 DEF SearchStep

LEMMA StageTypes ==
    ASSUME TypeInv, NEW v \in Volumes, StageStep(v)
    PROVE  TypeInv'
<1> USE DEF TypeInv
<1>1. CASE Rescan(v)
  <2>1. /\ DevicePath(v) # None => DevicePath(v) \in Names
        /\ faults' \in 0 .. MaxFaults /\ UNCHANGED faults
    BY <1>1, ServiceAssumption DEF DevicePath, CallTypeOK, Rescan
  <2>2. CallTypeOK'
    <3>1. CASE pc[v] = "rescan" /\ DevicePath(v) # None
      BY <1>1, <2>1, <3>1, StepNames, GotoWithTypes DEF Rescan
    <3>2. CASE pc[v] = "rescan" /\ DevicePath(v) = None
      BY <1>1, <2>1, <3>2, StepNames, GotoTypes DEF Rescan
    <3>3. CASE pc[v] = "rediscover"
      BY <1>1, <2>1, <3>3, StepNames, GotoTypes DEF Rescan
    <3>4. CASE pc[v] = "rewait"
      <4>1. device[v] \in Names
        BY <3>4, StepNames DEF CallTypeOK
      <4> QED
        BY <1>1, <2>1, <3>4, <4>1, StepNames, GotoTypes DEF Rescan
    <3> QED
      BY <1>1, <3>1, <3>2, <3>3, <3>4 DEF Rescan
  <2>3. PICK S \in SUBSET (Attached \ visible) :
            /\ visible' = visible \cup S
            /\ capacity' = [u \in Volumes |-> IF u \in S THEN size[u] ELSE capacity[u]]
            /\ UNCHANGED <<name, size, fileVars, fs, wiped>>
    BY <1>1 DEF Rescan, RescanDevices
  <2>4. DeviceTypeOK' /\ \A u \in visible' : name'[u] \in Names
    BY <2>3 DEF DeviceTypeOK, Attached, fileVars
  <2> QED
    BY <2>2, <2>4
<1>2. CASE WaitForDevice(v)
  <2>1. device[v] \in Names /\ faults' \in 0 .. MaxFaults /\ UNCHANGED nodeVars
    BY <1>2, StepNames DEF WaitForDevice, CallTypeOK
  <2>2. CallTypeOK'
    <3>1. CASE Loop(v, "rewait", device[v])
      BY <2>1, <3>1, StepNames, LoopTypes
    <3>2. CASE Goto(v, "mkdir")
      BY <2>1, <3>2, StepNames, GotoTypes
    <3> QED
      BY <1>2, <3>1, <3>2 DEF WaitForDevice
  <2> QED
    BY <2>1, <2>2, SameTypes
<1>3. CASE StageDevice(v)
  <2>1. device[v] \in Names /\ faults' \in 0 .. MaxFaults
    BY <1>3, StepNames DEF StageDevice, CallTypeOK
  <2>2. CallTypeOK'
    BY <1>3, <2>1, StepNames, GotoTypes DEF StageDevice
  <2>3. dirs' \subseteq Volumes /\ UNCHANGED <<diskVars, staged, bound, record, fs, wiped>>
    BY <1>3 DEF StageDevice, DeviceTypeOK
  <2> QED
    BY <2>2, <2>3, SameNodeTypes
<1>4. CASE HasFilesystem(v)
  <2>1. device[v] \in Names /\ faults' \in 0 .. MaxFaults /\ UNCHANGED nodeVars
    BY <1>4, StepNames DEF HasFilesystem, CallTypeOK
  <2>2. CallTypeOK'
    BY <1>4, <2>1, StepNames, GotoTypes DEF HasFilesystem
  <2> QED
    BY <2>1, <2>2, SameTypes
<1>5. CASE FormatDevice(v)
  <2>1. device[v] \in Names /\ faults' \in 0 .. MaxFaults
    BY <1>5, StepNames DEF FormatDevice, CallTypeOK
  <2>2. CallTypeOK'
    BY <1>5, <2>1, StepNames, FailTypes, GotoTypes DEF FormatDevice
  <2>3. DeviceTypeOK' /\ \A u \in visible' : name'[u] \in Names
    BY <1>5 DEF FormatDevice, DeviceTypeOK, DisksAt, diskVars, fileVars
  <2> QED
    BY <2>2, <2>3
<1>6. CASE Mount(v)
  <2>1. device[v] \in Names /\ faults' \in 0 .. MaxFaults
    BY <1>6, StepNames DEF Mount, CallTypeOK
  <2>2. CallTypeOK'
    BY <1>6, <2>1, StepNames, FailTypes, GotoTypes DEF Mount
  <2>3. DeviceTypeOK' /\ \A u \in visible' : name'[u] \in Names
    BY <1>6, <2>1 DEF Mount, DeviceTypeOK, diskVars
  <2> QED
    BY <2>2, <2>3
<1>7. CASE RecordStagedDevice(v)
  <2>1. device[v] \in Names /\ faults' \in 0 .. MaxFaults
    BY <1>7, StepNames DEF RecordStagedDevice, CallTypeOK
  <2>2. CallTypeOK'
    BY <1>7, <2>1, ReturnTypes DEF RecordStagedDevice, Phases
  <2>3. DeviceTypeOK' /\ \A u \in visible' : name'[u] \in Names
    BY <1>7, <2>1 DEF RecordStagedDevice, DeviceTypeOK, diskVars
  <2> QED
    BY <2>2, <2>3
<1> QED
  BY <1>1, <1>2, <1>3, <1>4, <1>5, <1>6, <1>7, SearchTypes DEF StageStep

LEMMA UnstageTypes ==
    ASSUME TypeInv, NEW v \in Volumes, UnstageStep(v)
    PROVE  TypeInv'
<1> USE DEF TypeInv
<1> "attached" \in Phases
  BY DEF Phases
<1>1. CASE LookUpSource(v)
  <2>1. MountedSource(v) \in Names \cup {None, Host} /\ faults' \in 0 .. MaxFaults
    BY <1>1 DEF DeviceTypeOK, CallTypeOK, MountedSource, LookUpSource
  <2>2. CallTypeOK'
    BY <1>1, <2>1, StepNames, GotoTypes, GotoWithTypes DEF LookUpSource
  <2> QED
    BY <1>1, <2>2, SameTypes DEF LookUpSource
<1>2. CASE StagedDevicePath(v)
  <2>1. record[v] \in Names \cup {None, Host} /\ faults' \in 0 .. MaxFaults
    BY <1>2 DEF DeviceTypeOK, CallTypeOK, StagedDevicePath
  <2>2. CallTypeOK'
    BY <1>2, <2>1, StepNames, GotoWithTypes DEF StagedDevicePath
  <2> QED
    BY <1>2, <2>2, SameTypes DEF StagedDevicePath
<1>3. CASE Unmount(v)
  <2>1. CallTypeOK'
    BY <1>3, StepNames, GotoTypes, ReturnTypes DEF Unmount, CallTypeOK
  <2>2. DeviceTypeOK' /\ \A u \in visible' : name'[u] \in Names
    BY <1>3 DEF Unmount, DeviceTypeOK, diskVars
  <2> QED
    BY <2>1, <2>2
<1>4. CASE RemoveDevice(v)
  <2>1. CallTypeOK'
    BY <1>4, StepNames, GotoTypes, FailTypes DEF RemoveDevice, CallTypeOK
  <2> QED
    BY <1>4, <2>1, SameTypes DEF RemoveDevice
<1>5. CASE DeleteDevice(v)
  <2>1. CallTypeOK'
    BY <1>5, StepNames, GotoTypes DEF DeleteDevice, CallTypeOK
  <2>2. DeviceTypeOK' /\ \A u \in visible' : name'[u] \in Names
    BY <1>5 DEF DeleteDevice, DeviceTypeOK, fileVars
  <2> QED
    BY <2>1, <2>2
<1>6. CASE ForgetStagedDevice(v)
  <2>1. CallTypeOK'
    BY <1>6, ReturnTypes DEF ForgetStagedDevice, CallTypeOK
  <2>2. DeviceTypeOK' /\ \A u \in visible' : name'[u] \in Names
    BY <1>6 DEF ForgetStagedDevice, DeviceTypeOK, diskVars
  <2> QED
    BY <2>1, <2>2
<1> QED
  BY <1>1, <1>2, <1>3, <1>4, <1>5, <1>6 DEF UnstageStep

LEMMA CommandFailsTypes ==
    ASSUME TypeInv, NEW v \in Volumes, CommandFails(v)
    PROVE  TypeInv'
<1> USE DEF TypeInv
<1>1. faults' \in 0 .. MaxFaults
  BY ServiceAssumption DEF CommandFails, Fault, CallTypeOK
<1>2. CallTypeOK'
  <2>1. CASE Loop(v, "rediscover", None)
    BY <1>1, <2>1, StepNames, LoopTypes
  <2>2. CASE Goto(v, "recorded")
    BY <1>1, <2>2, StepNames, GotoTypes
  <2>3. CASE GotoWith(v, "umount", None)
    BY <1>1, <2>3, StepNames, GotoWithTypes
  <2>4. CASE Fail(v)
    BY <1>1, <2>4, FailTypes
  <2> QED
    BY <2>1, <2>2, <2>3, <2>4 DEF CommandFails
<1>3. dirs' \subseteq Volumes /\ UNCHANGED <<diskVars, staged, bound, record, fs, wiped>>
  BY DEF CommandFails, DeviceTypeOK
<1> QED
  BY <1>2, <1>3, SameNodeTypes

\* The calls of one step, calls cut short, and the steps of the controller.
LEMMA OtherTypes ==
    ASSUME TypeInv, NEW v \in Volumes,
           \/ NodePublishVolume(v) \/ NodeUnpublishVolume(v) \/ NodeExpandVolume(v)
           \/ Abort(v) \/ Attach(v) \/ Detach(v) \/ Grow(v)
    PROVE  TypeInv'
<1> USE DEF TypeInv
<1> {"detached", "attached", "uncertain", "staged", "published", "unstaging"}
        \subseteq Phases
  BY DEF Phases
<1>1. CASE NodePublishVolume(v) \/ NodeUnpublishVolume(v)
  BY <1>1 DEF NodePublishVolume, BindMount, NodeUnpublishVolume, DeviceTypeOK, CallTypeOK,
              diskVars, searchVars
<1>2. CASE NodeExpandVolume(v)
  <2>1. DeviceTypeOK' /\ \A u \in visible' : name'[u] \in Names
    BY <1>2 DEF NodeExpandVolume, ExpandFilesystem, DeviceTypeOK, DisksAt, diskVars, fileVars
  <2>2. CallTypeOK'
    BY <1>2 DEF NodeExpandVolume, CallTypeOK, callVars, kubeVars, searchVars
  <2> QED
    BY <2>1, <2>2
<1>3. CASE Abort(v)
  <2>1. faults' \in 0 .. MaxFaults
    BY <1>3, ServiceAssumption DEF Abort, Fault, CallTypeOK
  <2>2. CallTypeOK'
    BY <1>3, <2>1, ReturnTypes DEF Abort
  <2>3. DeviceTypeOK' /\ \A u \in visible' : name'[u] \in Names
    BY <1>3 DEF Abort, DeviceTypeOK, diskVars
  <2> QED
    BY <2>2, <2>3
<1>4. CASE Attach(v)
  BY <1>4 DEF Attach, AttachDisk, DeviceTypeOK, CallTypeOK, fileVars, searchVars
<1>5. CASE Detach(v)
  BY <1>5 DEF Detach, DetachDisk, DeviceTypeOK, CallTypeOK, fileVars, searchVars
<1>6. CASE Grow(v)
  <2>1. CallTypeOK'
    BY <1>6 DEF Grow, CallTypeOK, callVars, kubeVars, searchVars
  <2>2. CASE Notice(v)
    BY <2>1, <2>2 DEF Notice, DeviceTypeOK, fileVars
  <2>3. ASSUME NEW s \in SizesOf[v], GrowDisk(v, s) PROVE TypeInv'
    <3>1. s \in Nat
      BY DeviceAssumption
    <3> QED
      BY <2>1, <2>3, <3>1 DEF GrowDisk, DeviceTypeOK, fileVars
  <2> QED
    BY <1>6, <2>2, <2>3 DEF Grow
<1> QED
  BY <1>1, <1>2, <1>3, <1>4, <1>5, <1>6

LEMMA RebootTypes ==
    ASSUME TypeInv, Reboot
    PROVE  TypeInv'
<1> USE DEF TypeInv
<1>1. faults' \in 0 .. MaxFaults /\ 0 \in 0 .. Attempts - 1
  BY ServiceAssumption DEF Reboot, Fault, CallTypeOK
<1>2. CallTypeOK'
  BY <1>1, StepNames DEF Reboot, CallTypeOK, Phases
<1>3. name' \in [Volumes -> Names \cup {None}]
      /\ \A v \in Attached : name'[v] \in Names
  BY DEF Reboot, Boot, Numberings, Attached
<1>4. DeviceTypeOK' /\ \A u \in visible' : name'[u] \in Names
  BY <1>3 DEF Reboot, Boot, DeviceTypeOK, Attached
<1> QED
  BY <1>2, <1>4

LEMMA NextTypes == TypeInv /\ [Next]_vars => TypeInv'
<1> SUFFICES ASSUME TypeInv, [Next]_vars PROVE TypeInv'
  OBVIOUS
<1>1. CASE UNCHANGED vars
  <2>1. CallTypeOK'
    BY <1>1 DEF TypeInv, CallTypeOK, vars, callVars, kubeVars, searchVars
  <2> QED
    BY <1>1, <2>1, SameTypes DEF vars
<1>2. ASSUME NEW v \in Volumes, NodeStageVolume(v) \/ NodeUnstageVolume(v)
      PROVE  TypeInv'
  BY <1>2, StepNames, BeginTypes DEF NodeStageVolume, NodeUnstageVolume, Phases
<1> QED
  BY <1>1, <1>2, StageTypes, UnstageTypes, CommandFailsTypes, OtherTypes, RebootTypes
     DEF Next, Step

\* The state of the node and of the calls is well-typed in every behaviour.
THEOREM NodeTypeCorrect == Spec => []NodeTypeOK
<1>1. Spec => []TypeInv
  BY InitTypes, NextTypes, PTL DEF Spec
<1> QED
  BY <1>1, TypesFollow, PTL

-----------------------------------------------------------------------------
(* Names and phases, while disks keep their names.                         *)

\* A name belongs to one disk.
NamesOK == \A v, w \in Volumes : name[v] = name[w] /\ name[v] # None => v = w

\* Kubelet's view goes with the call under way and with the attachment, and
\* what the attach answer says is still so.
PhaseOK(v) ==
    /\ phase[v] = "detached" <=> name[v] = None
    /\ phase[v] = "staging" <=> pc[v] \in Finding \cup Holding
    /\ pc[v] \in Removing => phase[v] = "unstaging"
    /\ published[v] = IF v \in Reported THEN name[v] ELSE None

BaseInv == TypeInv /\ NamesOK /\ \A v \in Volumes : PhaseOK(v)

\* A step of one volume leaves the calls, mounts and names of the others alone.
OthersKept(v) ==
    \A u \in Volumes \ {v} :
        /\ phase'[u] = phase[u] /\ published'[u] = published[u]
        /\ pc'[u] = pc[u] /\ device'[u] = device[u]
        /\ blank'[u] = blank[u] /\ formatted'[u] = formatted[u]
        /\ staged'[u] = staged[u] /\ bound'[u] = bound[u] /\ record'[u] = record[u]
        /\ name'[u] = name[u]

Call(v) ==
    \/ NodeStageVolume(v) \/ NodeUnstageVolume(v) \/ Step(v)
    \/ NodePublishVolume(v) \/ NodeUnpublishVolume(v) \/ NodeExpandVolume(v)
    \/ CommandFails(v) \/ Abort(v)
    \/ Attach(v) \/ Detach(v) \/ Grow(v)

LEMMA NextIsCall == Next <=> (\E v \in Volumes : Call(v)) \/ Reboot
BY DEF Next, Call

LEMMA CallsKeepOthers ==
    ASSUME TypeInv, NEW v \in Volumes, Call(v)
    PROVE  OthersKept(v)
<1> USE DEF TypeInv, DeviceTypeOK, CallTypeOK, OthersKept, kubeVars, searchVars, callVars,
            nodeVars, diskVars, fileVars
<1>1. CASE NodeStageVolume(v) \/ NodeUnstageVolume(v)
  BY <1>1 DEF NodeStageVolume, NodeUnstageVolume, Begin
<1>2. CASE Rescan(v) \/ ListDevices(v) \/ LookAtSize(v) \/ LookAtMounts(v)
  BY <1>2 DEF Rescan, RescanDevices, Goto, GotoWith, EndSearch, ListDevices, Seek,
              LookAtSize, LookAtMounts
<1>3. CASE Probe(v)
  BY <1>3 DEF Probe, Seek
<1>4. CASE DiscoverDevicePath(v) \/ WaitForDevice(v) \/ StageDevice(v) \/ HasFilesystem(v)
  BY <1>4 DEF DiscoverDevicePath, WaitForDevice, StageDevice, HasFilesystem, Loop,
              NextAttempt, Goto, GotoWith, EndSearch, Fail, Return
<1>5. CASE FormatDevice(v) \/ Mount(v) \/ RecordStagedDevice(v)
  BY <1>5 DEF FormatDevice, Mount, RecordStagedDevice, Goto, EndSearch, Fail, Return
<1>6. CASE UnstageStep(v)
  BY <1>6 DEF UnstageStep, LookUpSource, StagedDevicePath, Unmount, RemoveDevice,
              DeleteDevice, ForgetStagedDevice, Goto, GotoWith, EndSearch, Fail, Return
<1>7. CASE NodePublishVolume(v) \/ NodeUnpublishVolume(v) \/ NodeExpandVolume(v)
  BY <1>7 DEF NodePublishVolume, NodeUnpublishVolume, NodeExpandVolume, BindMount,
              ExpandFilesystem
<1>8. CASE CommandFails(v) \/ Abort(v)
  BY <1>8 DEF CommandFails, Abort, Loop, NextAttempt, Goto, GotoWith, EndSearch, Fail, Return
<1>9. CASE Attach(v) \/ Detach(v) \/ Grow(v)
  BY <1>9 DEF Attach, AttachDisk, Detach, DetachDisk, Grow, GrowDisk, Notice
<1> QED
  BY <1>1, <1>2, <1>3, <1>4, <1>5, <1>6, <1>7, <1>8, <1>9 DEF Call, Step, StageStep, SearchStep

\* A call that goes on stays a staging or an unstaging.
LEMMA GoesOn ==
    ASSUME TypeInv, NEW v \in Volumes, PhaseOK(v), NEW step,
           pc' = [pc EXCEPT ![v] = step], UNCHANGED <<phase, published, name>>,
           \/ pc[v] \in Finding \cup Holding /\ step \in Finding \cup Holding
           \/ pc[v] \in Removing /\ step \in Removing
    PROVE  PhaseOK(v)'
BY DEF TypeInv, CallTypeOK, PhaseOK, Finding, Looking, Holding, Removing

\* One that returns is over.
LEMMA Returned ==
    ASSUME TypeInv, NEW v \in Volumes, PhaseOK(v), pc[v] # "idle",
           NEW p \in {"attached", "uncertain", "staged", "unstaging"}, Return(v, p),
           UNCHANGED name
    PROVE  PhaseOK(v)'
BY StepNames DEF TypeInv, CallTypeOK, PhaseOK, Return, Steps, Finding, Looking, Holding, Removing

LEMMA Failed ==
    ASSUME TypeInv, NEW v \in Volumes, PhaseOK(v), pc[v] # "idle", Fail(v), UNCHANGED name
    PROVE  PhaseOK(v)'
<1>1. AfterError(v) \in {"attached", "uncertain", "staged", "unstaging"}
  BY DEF AfterError
<1> QED
  BY <1>1, Returned DEF Fail

\* The steps of staging, by name.
LEMMA StagingSteps ==
    /\ Finding = {"rescan", "discover", "rediscover", "look", "mounts", "probe"}
    /\ Holding = {"wait", "rewait", "mkdir", "blkid", "mkfs", "mount", "record"}
    /\ Removing = {"source", "recorded", "umount", "remove", "delete", "forget"}
BY DEF Finding, Looking, Holding, Removing

LEMMA StagePhase ==
    ASSUME TypeInv, NEW v \in Volumes, PhaseOK(v), StageStep(v)
    PROVE  PhaseOK(v)'
<1> USE StagingSteps DEF kubeVars, searchVars, nodeVars, diskVars, fileVars
<1>1. CASE Rescan(v)
  <2>1. PICK step \in {"wait", "discover"} : pc' = [pc EXCEPT ![v] = step]
    BY <1>1 DEF Rescan, Goto, GotoWith
  <2>2. UNCHANGED <<phase, published, name>>
    BY <1>1 DEF Rescan, RescanDevices, Goto, GotoWith
  <2>3. pc[v] \in Finding \cup Holding
    BY <1>1 DEF Rescan
  <2> QED
    BY <2>1, <2>2, <2>3, GoesOn
<1>2. CASE ListDevices(v) \/ LookAtSize(v) \/ LookAtMounts(v) \/ Probe(v)
  <2>1. PICK step \in {"look", "mounts", "probe"} : pc' = [pc EXCEPT ![v] = step]
    BY <1>2 DEF ListDevices, LookAtSize, LookAtMounts, Probe, Seek
  <2>2. UNCHANGED <<phase, published, name>>
    BY <1>2 DEF ListDevices, LookAtSize, LookAtMounts, Probe, Seek
  <2>3. pc[v] \in Finding
    BY <1>2 DEF ListDevices, LookAtSize, LookAtMounts, Probe
  <2> QED
    BY <2>1, <2>2, <2>3, GoesOn
<1>3. CASE DiscoverDevicePath(v) \/ WaitForDevice(v)
  <2>1. UNCHANGED name /\ pc[v] \in {"look", "wait"}
    BY <1>3 DEF DiscoverDevicePath, WaitForDevice
  <2>2. CASE Fail(v)
    BY <2>1, <2>2, Failed
  <2>3. ASSUME NEW step \in {"wait", "rediscover", "rewait", "mkdir"},
               pc' = [pc EXCEPT ![v] = step], UNCHANGED <<phase, published>>
        PROVE  PhaseOK(v)'
    BY <2>1, <2>3, GoesOn
  <2>4. \/ Fail(v)
        \/ \E step \in {"wait", "rediscover", "rewait", "mkdir"} :
              pc' = [pc EXCEPT ![v] = step] /\ UNCHANGED <<phase, published>>
    BY <1>3 DEF DiscoverDevicePath, WaitForDevice, Loop, NextAttempt, Goto, GotoWith
  <2> QED
    BY <2>2, <2>3, <2>4
<1>4. CASE StageDevice(v) \/ HasFilesystem(v)
  <2>1. PICK step \in Holding : pc' = [pc EXCEPT ![v] = step]
    BY <1>4 DEF StageDevice, HasFilesystem, Goto
  <2>2. UNCHANGED <<phase, published, name>> /\ pc[v] \in Holding
    BY <1>4 DEF StageDevice, HasFilesystem, Goto
  <2> QED
    BY <2>1, <2>2, GoesOn
<1>5. CASE FormatDevice(v) \/ Mount(v)
  <2>1. UNCHANGED name /\ pc[v] \in {"mkfs", "mount"}
    BY <1>5 DEF FormatDevice, Mount
  <2>2. CASE Fail(v)
    BY <2>1, <2>2, Failed
  <2>3. ASSUME NEW step \in {"mount", "record"}, Goto(v, step) PROVE PhaseOK(v)'
    BY <2>1, <2>3, GoesOn DEF Goto
  <2> QED
    BY <1>5, <2>2, <2>3 DEF FormatDevice, Mount
<1>6. CASE RecordStagedDevice(v)
  BY <1>6, Returned DEF RecordStagedDevice
<1> QED
  BY <1>1, <1>2, <1>3, <1>4, <1>5, <1>6 DEF StageStep, SearchStep

LEMMA UnstagePhase ==
    ASSUME TypeInv, NEW v \in Volumes, PhaseOK(v), UnstageStep(v)
    PROVE  PhaseOK(v)'
<1> USE StagingSteps DEF kubeVars, searchVars, nodeVars, diskVars, fileVars
<1>1. UNCHANGED name /\ pc[v] \in Removing
  BY DEF UnstageStep, LookUpSource, StagedDevicePath, Unmount, RemoveDevice, DeleteDevice,
         ForgetStagedDevice
<1>2. CASE Fail(v) \/ Return(v, "attached")
  BY <1>1, <1>2, Failed, Returned
<1>3. ASSUME NEW step \in Removing, pc' = [pc EXCEPT ![v] = step],
             UNCHANGED <<phase, published>>
      PROVE  PhaseOK(v)'
  BY <1>1, <1>3, GoesOn
<1>4. \/ Fail(v) \/ Return(v, "attached")
      \/ \E step \in Removing : pc' = [pc EXCEPT ![v] = step] /\ UNCHANGED <<phase, published>>
  BY DEF UnstageStep, LookUpSource, StagedDevicePath, Unmount, RemoveDevice, DeleteDevice,
         ForgetStagedDevice, Goto, GotoWith
<1> QED
  BY <1>2, <1>3, <1>4

LEMMA OtherPhase ==
    ASSUME BaseInv, NEW v \in Volumes,
           \/ NodeStageVolume(v) \/ NodeUnstageVolume(v)
           \/ NodePublishVolume(v) \/ NodeUnpublishVolume(v) \/ NodeExpandVolume(v)
           \/ CommandFails(v) \/ Abort(v)
           \/ Attach(v) \/ Detach(v) \/ Grow(v)
    PROVE  PhaseOK(v)'
<1> PhaseOK(v) /\ TypeInv
  BY DEF BaseInv
<1> USE StagingSteps DEF kubeVars, searchVars, callVars, nodeVars, diskVars, fileVars
<1>1. CASE \/ NodeStageVolume(v) \/ NodeUnstageVolume(v)
           \/ NodePublishVolume(v) \/ NodeUnpublishVolume(v) \/ NodeExpandVolume(v)
  BY <1>1 DEF NodeStageVolume, NodeUnstageVolume, Begin, NodePublishVolume,
              NodeUnpublishVolume, NodeExpandVolume, PhaseOK, TypeInv, CallTypeOK
<1>2. CASE CommandFails(v)
  <2>1. UNCHANGED name /\ pc[v] # "idle"
    BY <1>2 DEF CommandFails, FailingSteps
  <2>2. CASE Fail(v)
    BY <2>1, <2>2, Failed
  <2>3. CASE /\ pc[v] \in {"rediscover", "discover", "mounts", "probe"}
             /\ NextAttempt(v, "rediscover", None)
    BY <2>1, <2>3, GoesOn DEF NextAttempt
  <2>4. CASE pc[v] = "source" /\ Goto(v, "recorded")
    BY <2>1, <2>4, GoesOn DEF Goto
  <2>5. CASE pc[v] = "recorded" /\ GotoWith(v, "umount", None)
    BY <2>1, <2>5, GoesOn DEF GotoWith
  <2> QED
    BY <1>2, <2>2, <2>3, <2>4, <2>5 DEF CommandFails, Loop
<1>3. CASE Abort(v)
  BY <1>3, Returned DEF Abort
<1>4. CASE Attach(v) \/ Detach(v)
  <2>1. pc[v] \notin Finding \cup Holding \cup Removing
    BY <1>4 DEF Attach, Detach, PhaseOK
  <2> QED
    BY <1>4, <2>1, DeviceAssumption
       DEF Attach, AttachDisk, Detach, DetachDisk, PhaseOK, TypeInv, CallTypeOK, DeviceTypeOK
<1>5. CASE Grow(v)
  BY <1>5 DEF Grow, GrowDisk, Notice, PhaseOK
<1> QED
  BY <1>1, <1>2, <1>3, <1>4, <1>5

LEMMA NextNames ==
    ASSUME BaseInv, [Next]_vars
    PROVE  NamesOK'
<1> USE DEF BaseInv
<1>1. ASSUME NEW v \in Volumes, Attach(v) \/ Detach(v) PROVE NamesOK'
  <2>1. PICK n \in Names \cup {None} :
            /\ name' = [name EXCEPT ![v] = n]
            /\ n = None \/ Free(n)
    BY <1>1 DEF Attach, AttachDisk, Detach, DetachDisk
  <2> QED
    BY <2>1 DEF NamesOK, Free, TypeInv, DeviceTypeOK
<1>2. CASE Reboot
  BY <1>2 DEF Reboot, Boot, Numberings, Attached, NamesOK, TypeInv, DeviceTypeOK
<1>3. CASE ~Reboot /\ \A v \in Volumes : ~Attach(v) /\ ~Detach(v)
  <2>1. name' = name
    BY <1>3 DEF Next, NodeStageVolume, NodeUnstageVolume, Begin, Step, StageStep, UnstageStep,
       SearchStep, Rescan, RescanDevices, ListDevices, LookAtSize, LookAtMounts, Probe,
       DiscoverDevicePath, WaitForDevice, StageDevice, HasFilesystem, FormatDevice, Mount,
       RecordStagedDevice, LookUpSource, StagedDevicePath, Unmount, RemoveDevice,
       DeleteDevice, ForgetStagedDevice, NodePublishVolume, NodeUnpublishVolume,
       NodeExpandVolume, CommandFails, Abort, Grow, GrowDisk, Notice,
       vars, nodeVars, diskVars, fileVars
  <2> QED
    BY <2>1 DEF NamesOK
<1> QED
  BY <1>1, <1>2, <1>3

LEMMA NextBase == BaseInv /\ ~Renumbered /\ [Next]_vars => BaseInv'
<1> SUFFICES ASSUME BaseInv, ~Renumbered, [Next]_vars PROVE BaseInv'
  OBVIOUS
<1>1. TypeInv' /\ NamesOK'
  BY NextTypes, NextNames DEF BaseInv
<1>2. \A u \in Volumes : PhaseOK(u)'
  <2>1. CASE UNCHANGED vars
    BY <2>1 DEF BaseInv, PhaseOK, vars, callVars, kubeVars, nodeVars, diskVars
  <2>2. ASSUME NEW v \in Volumes, Call(v), NEW u \in Volumes PROVE PhaseOK(u)'
    <3>1. CASE u = v
      BY <2>2, <3>1, StagePhase, UnstagePhase, OtherPhase DEF BaseInv, Call, Step
    <3>2. CASE u # v
      <4>1. OthersKept(v)
        BY <2>2, CallsKeepOthers DEF BaseInv
      <4> QED
        BY <3>2, <4>1 DEF BaseInv, PhaseOK, OthersKept
    <3> QED
      BY <3>1, <3>2
  <2>3. ASSUME Reboot, NEW u \in Volumes PROVE PhaseOK(u)'
    <3>1. name' = name
      BY <2>3 DEF Reboot, Boot, Numberings
    <3> QED
      BY <2>3, <3>1, StagingSteps DEF Reboot, BaseInv, TypeInv, CallTypeOK, PhaseOK
  <2> QED
    BY <2>1, <2>2, <2>3, NextIsCall
<1> QED
  BY <1>1, <1>2 DEF BaseInv

LEMMA InitBase == Init => BaseInv
BY InitTypes, StagingSteps DEF Init, DeviceInit, BaseInv, NamesOK, PhaseOK

-----------------------------------------------------------------------------
(* A volume whose attach answer names its disk keeps to that disk.         *)

\* Its calls never search, and hold its own disk.
KeepsOwn(v) ==
    /\ pc[v] \in Finding => pc[v] = "rescan"
    /\ pc[v] \in Holding => device[v] = name[v]
    /\ pc[v] = "record" => staged[v] # None
    /\ phase[v] \in {"staged", "published"} => staged[v] # None

ReportedInv == BaseInv /\ \A v \in Reported : KeepsOwn(v) /\ ShowsOwn(v)

LEMMA StageKeepsOwn ==
    ASSUME BaseInv, NEW v \in Reported, KeepsOwn(v), StageStep(v)
    PROVE  KeepsOwn(v)'
<1> USE StagingSteps
    DEF BaseInv, TypeInv, DeviceTypeOK, CallTypeOK, KeepsOwn, kubeVars, searchVars
<1>0. v \in Volumes /\ PhaseOK(v) /\ UNCHANGED name
  BY ServiceAssumption
     DEF StageStep, SearchStep, Rescan, RescanDevices, ListDevices, LookAtSize, LookAtMounts,
         Probe, DiscoverDevicePath, WaitForDevice, StageDevice, HasFilesystem, FormatDevice,
         Mount, RecordStagedDevice, nodeVars, diskVars
<1>1. CASE Fail(v)
  BY <1>0, <1>1 DEF Fail, Return, AfterError
<1>2. CASE Rescan(v)
  <2>1. /\ DevicePath(v) = name[v] /\ phase[v] = "staging" /\ staged' = staged
        /\ pc[v] # "rediscover"
    BY <1>0, <1>2 DEF DevicePath, PhaseOK, Rescan, RescanDevices, fileVars
  <2>2. name[v] # None
    BY <1>0, <2>1 DEF PhaseOK
  <2> QED
    BY <1>0, <1>2, <2>1, <2>2 DEF Rescan, Goto, GotoWith
<1>3. CASE SearchStep(v)
  BY <1>3 DEF SearchStep, ListDevices, LookAtSize, LookAtMounts, Probe, DiscoverDevicePath
<1>4. CASE (WaitForDevice(v) /\ ~Fail(v)) \/ StageDevice(v) \/ HasFilesystem(v)
  <2>1. pc[v] \in Holding /\ staged' = staged /\ phase[v] = "staging"
    BY <1>0, <1>4 DEF WaitForDevice, StageDevice, HasFilesystem, nodeVars, fileVars, PhaseOK
  <2> QED
    BY <1>0, <1>4, <2>1
       DEF WaitForDevice, StageDevice, HasFilesystem, Loop, NextAttempt, Goto
<1>5. CASE (FormatDevice(v) \/ Mount(v)) /\ ~Fail(v)
  <2>1. pc[v] \in Holding /\ phase[v] = "staging" /\ name[v] # None /\ device[v] = name[v]
    BY <1>0, <1>5 DEF FormatDevice, Mount, PhaseOK
  <2> QED
    BY <1>0, <1>5, <2>1 DEF FormatDevice, Mount, Goto
<1>6. CASE RecordStagedDevice(v)
  BY <1>0, <1>6 DEF RecordStagedDevice, Return
<1> QED
  BY <1>1, <1>2, <1>3, <1>4, <1>5, <1>6 DEF StageStep

LEMMA OtherKeepsOwn ==
    ASSUME BaseInv, NEW v \in Reported, KeepsOwn(v), Call(v), ~StageStep(v)
    PROVE  KeepsOwn(v)'
<1> USE StagingSteps
    DEF BaseInv, TypeInv, DeviceTypeOK, CallTypeOK, KeepsOwn, kubeVars, searchVars, callVars
<1>0. v \in Volumes /\ PhaseOK(v)
  BY ServiceAssumption
<1>1. CASE Fail(v) /\ ~Abort(v)
  <2>1. staged' = staged \/ pc[v] = "umount"
    BY <1>1 DEF Call, Step, UnstageStep, LookUpSource, StagedDevicePath, Unmount, RemoveDevice,
         DeleteDevice, ForgetStagedDevice, NodeStageVolume, NodeUnstageVolume, Begin,
         NodePublishVolume, NodeUnpublishVolume, NodeExpandVolume, CommandFails,
         Attach, AttachDisk, Detach, DetachDisk, Grow, Notice, GrowDisk, nodeVars, fileVars
  <2> QED
    BY <1>0, <1>1, <2>1 DEF Fail, Return, AfterError
<1>2. CASE NodeStageVolume(v) \/ NodeUnstageVolume(v)
  BY <1>0, <1>2 DEF NodeStageVolume, NodeUnstageVolume, Begin, nodeVars, diskVars, fileVars
<1>3. CASE UnstageStep(v) /\ ~Fail(v)
  <2>1. pc[v] \in Removing /\ phase[v] = "unstaging"
    BY <1>0, <1>3 DEF UnstageStep, LookUpSource, StagedDevicePath, Unmount, RemoveDevice,
         DeleteDevice, ForgetStagedDevice, PhaseOK
  <2>2. \/ Return(v, "attached")
        \/ \E step \in Removing : pc' = [pc EXCEPT ![v] = step] /\ UNCHANGED phase
    BY <1>3 DEF UnstageStep, LookUpSource, StagedDevicePath, Unmount, RemoveDevice,
         DeleteDevice, ForgetStagedDevice, Goto, GotoWith
  <2> QED
    BY <1>0, <2>1, <2>2 DEF Return
<1>4. CASE NodePublishVolume(v) \/ NodeUnpublishVolume(v) \/ NodeExpandVolume(v)
  BY <1>0, <1>4 DEF NodePublishVolume, NodeUnpublishVolume, NodeExpandVolume, BindMount,
                    diskVars, fileVars
<1>5. CASE CommandFails(v) /\ ~Fail(v)
  <2>1. /\ pc[v] \in {"source", "recorded"} /\ phase[v] = "unstaging"
    BY <1>0, <1>5 DEF CommandFails, FailingSteps, PhaseOK
  <2>2. \E step \in Removing : pc' = [pc EXCEPT ![v] = step] /\ UNCHANGED phase
    BY <1>5, <2>1 DEF CommandFails, FailingSteps, Goto, GotoWith
  <2> QED
    BY <1>0, <2>1, <2>2
<1>6. CASE Abort(v)
  BY <1>0, <1>6 DEF Abort, Return
<1>7. CASE Attach(v) \/ Detach(v)
  <2>1. pc[v] \notin Finding \cup Holding
    BY <1>0, <1>7 DEF Attach, Detach, PhaseOK
  <2> QED
    BY <1>0, <1>7, <2>1 DEF Attach, Detach, AttachDisk, DetachDisk
<1>8. CASE Grow(v)
  BY <1>0, <1>8 DEF Grow, GrowDisk, Notice, fileVars
<1> QED
  BY <1>1, <1>2, <1>3, <1>4, <1>5, <1>6, <1>7, <1>8 DEF Call, Step

\* Where a mount of v comes from: its own disk, or a path of v that was there.
LEMMA MountsCome ==
    ASSUME BaseInv, NEW v \in Reported, KeepsOwn(v), Call(v)
    PROVE  /\ staged'[v] \in {None, staged[v], name[v]}
           /\ bound'[v] \in {None, bound[v], staged[v]}
<1> USE DEF BaseInv, TypeInv, DeviceTypeOK, CallTypeOK, nodeVars, diskVars, fileVars
<1>0. v \in Volumes
  BY ServiceAssumption
<1>1. CASE Mount(v)
  BY <1>0, <1>1, StagingSteps DEF Mount, KeepsOwn
<1>2. CASE NodePublishVolume(v) \/ NodeUnpublishVolume(v)
  BY <1>0, <1>2 DEF NodePublishVolume, NodeUnpublishVolume, BindMount, KeepsOwn
<1>3. CASE Unmount(v) \/ Abort(v)
  BY <1>0, <1>3 DEF Unmount, Abort
<1>4. CASE /\ ~Mount(v) /\ ~NodePublishVolume(v) /\ ~NodeUnpublishVolume(v)
           /\ ~Unmount(v) /\ ~Abort(v)
  <2>1. UNCHANGED <<staged, bound>>
    BY <1>4
       DEF Call, Step, StageStep, UnstageStep, SearchStep, NodeStageVolume, NodeUnstageVolume,
           Begin, Rescan, RescanDevices, ListDevices, LookAtSize, LookAtMounts, Probe,
           DiscoverDevicePath, WaitForDevice, StageDevice, HasFilesystem, FormatDevice,
           RecordStagedDevice, LookUpSource, StagedDevicePath, RemoveDevice, DeleteDevice,
           ForgetStagedDevice, NodeExpandVolume, CommandFails, Attach, AttachDisk, Detach,
           DetachDisk, Grow, GrowDisk, Notice
  <2> QED
    BY <2>1
<1> QED
  BY <1>1, <1>2, <1>3, <1>4

\* A name that another disk gets is free: nothing is mounted from it.
LEMMA NamesCome ==
    ASSUME BaseInv, NEW v \in Volumes, Call(v), NEW w \in Volumes
    PROVE  \/ name'[w] \in {None, name[w]}
           \/ \A u \in Volumes : /\ staged[u] # name'[w] /\ bound[u] # name'[w]
                                 /\ name[u] # name'[w]
<1> USE DEF BaseInv, TypeInv, DeviceTypeOK
<1>1. CASE Attach(v)
  <2>1. PICK n \in Names : AttachDisk(v, n)
    BY <1>1 DEF Attach
  <2> QED
    BY <2>1 DEF AttachDisk, Free, IsMounted
<1>2. CASE Detach(v)
  BY <1>2 DEF Detach, DetachDisk
<1>3. CASE ~Attach(v) /\ ~Detach(v)
  <2>1. name' = name
    BY <1>3
       DEF Call, Step, StageStep, UnstageStep, SearchStep, NodeStageVolume, NodeUnstageVolume,
           Begin, Rescan, RescanDevices, ListDevices, LookAtSize, LookAtMounts, Probe,
           DiscoverDevicePath, WaitForDevice, StageDevice, HasFilesystem, FormatDevice, Mount,
           RecordStagedDevice, LookUpSource, StagedDevicePath, Unmount, RemoveDevice,
           DeleteDevice, ForgetStagedDevice, NodePublishVolume, NodeUnpublishVolume,
           NodeExpandVolume, CommandFails, Abort, Grow, GrowDisk, Notice,
           nodeVars, diskVars, fileVars
  <2> QED
    BY <2>1
<1> QED
  BY <1>1, <1>2, <1>3

LEMMA NextReported == ReportedInv /\ ~Renumbered /\ [Next]_vars => ReportedInv'
<1> SUFFICES ASSUME ReportedInv, ~Renumbered, [Next]_vars PROVE ReportedInv'
  OBVIOUS
<1>1. BaseInv'
  BY NextBase DEF ReportedInv
<1>2. ASSUME NEW u \in Reported PROVE KeepsOwn(u)' /\ ShowsOwn(u)'
  <2>0. u \in Volumes /\ KeepsOwn(u) /\ ShowsOwn(u) /\ BaseInv
    BY ServiceAssumption DEF ReportedInv
  <2>1. CASE UNCHANGED vars
    BY <2>0, <2>1 DEF KeepsOwn, ShowsOwn, vars, callVars, kubeVars, nodeVars, diskVars, fileVars
  <2>2. ASSUME NEW v \in Volumes, Call(v) PROVE KeepsOwn(u)' /\ ShowsOwn(u)'
    <3>1. u # v => OthersKept(v) /\ staged'[u] = staged[u] /\ bound'[u] = bound[u]
      BY <2>0, <2>2, CallsKeepOthers DEF BaseInv, OthersKept
    <3>2. KeepsOwn(u)'
      <4>1. CASE u = v
        BY <2>0, <2>2, <4>1, StageKeepsOwn, OtherKeepsOwn
      <4>2. CASE u # v
        BY <2>0, <3>1, <4>2 DEF KeepsOwn, OthersKept
      <4> QED
        BY <4>1, <4>2
    <3>3. /\ staged'[u] \in {None, staged[u], name[u]}
          /\ bound'[u] \in {None, bound[u], staged[u]}
      BY <2>0, <2>2, <3>1, MountsCome
    <3>4. bound'[u] # Host
      BY <2>0, <3>3, DeviceAssumption DEF BaseInv, TypeInv, DeviceTypeOK, ShowsOwn
    <3>5. ASSUME NEW w \in Volumes \ {u}, name'[w] # None
          PROVE  staged'[u] # name'[w] /\ bound'[u] # name'[w]
      <4>1. CASE name'[w] = name[w]
        BY <2>0, <3>3, <3>5, <4>1 DEF ShowsOwn, BaseInv, NamesOK
      <4>2. CASE name'[w] # name[w]
        BY <2>0, <2>2, <3>3, <3>5, <4>2, NamesCome
      <4> QED
        BY <4>1, <4>2
    <3> QED
      BY <3>2, <3>4, <3>5 DEF ShowsOwn
  <2>3. CASE Reboot
    BY <2>0, <2>3, StagingSteps, DeviceAssumption
       DEF Reboot, Boot, KeepsOwn, ShowsOwn, BaseInv, TypeInv, CallTypeOK
  <2> QED
    BY <2>1, <2>2, <2>3, NextIsCall
<1> QED
  BY <1>1, <1>2 DEF ReportedInv

LEMMA InitReported == Init => ReportedInv
<1> SUFFICES ASSUME Init PROVE ReportedInv
  OBVIOUS
<1>1. \A v \in Volumes : KeepsOwn(v) /\ ShowsOwn(v)
  BY StagingSteps, DeviceAssumption DEF Init, DeviceInit, KeepsOwn, ShowsOwn
<1> QED
  BY <1>1, InitBase, ServiceAssumption DEF ReportedInv

\* README.md:108-110: while disks keep their names, a volume whose attach answer
\* names its disk is never seen to have another, although others guess by size,
\* may fail, be cut short and leave mounts behind, and names are used again.
THEOREM ReportedIsOwnCorrect == ASSUME ~Renumbered PROVE Spec => []ReportedIsOwn
<1>1. ReportedInv /\ [Next]_vars => ReportedInv'
  BY NextReported
<1>2. ReportedInv => ReportedIsOwn
  BY DEF ReportedInv, ReportedIsOwn
<1> QED
  BY <1>1, <1>2, InitReported, PTL DEF Spec

-----------------------------------------------------------------------------
(* Volumes that can be told apart keep to their own disks.                 *)

\* A volume to discover has a size hint that no other volume's disk ever fits;
\* disks keep their names, blkid is right, records can be read, and kubelet calls
\* NodeUnstageVolume after a failed NodeStageVolume before the volume is detached.
ToldApart ==
    /\ \A v \in Volumes \ Reported :
          /\ ContextPath[v] = None /\ HintOf[v] # 0
          /\ \A w \in Volumes \ {v} : HintOf[v] \notin SizesOf[w]
    /\ ~Renumbered /\ ~BlkidFails /\ ~FailedMeansUnstaged /\ ~RecordsFail

\* Mounts and record are of the volume's own disk; nothing is left of either
\* when kubelet takes the volume for unstaged.
MountOK(v) ==
    /\ {staged[v], bound[v], record[v]} \subseteq {None, name[v]}
    /\ staged[v] # None => v \in visible /\ fs[v] # 0
    /\ bound[v] # None => phase[v] = "published"
    /\ phase[v] \in {"staged", "published"} => staged[v] # None
    /\ phase[v] \in {"detached", "attached"} => staged[v] = None /\ record[v] = None

\* What a search knows between two steps.
SearchOK(v) ==
    /\ pc[v] \in Finding \ {"rescan"} => v \notin Reported
    /\ pc[v] \in {"mounts", "probe"} => device[v] = name[v]
    /\ blank[v] \cup formatted[v] \subseteq {name[v]}
    /\ pc[v] \notin Looking => blank[v] = {} /\ formatted[v] = {}

\* What a call that holds a device, or removes it, knows.
StepOK(v) ==
    /\ pc[v] \in Holding => device[v] = name[v]
    /\ pc[v] \in {"mkdir", "blkid", "mkfs", "mount", "record"} => v \in visible
    /\ pc[v] \in {"blkid", "mkfs", "mount"} => staged[v] = None
    /\ pc[v] = "record" => staged[v] # None
    /\ pc[v] = "mkfs" => fs[v] = 0
    /\ pc[v] \in Removing \ {"source", "recorded"} => device[v] \in {None, Host, name[v]}
    /\ pc[v] = "umount" /\ device[v] = None => record[v] = None
    /\ pc[v] \in {"remove", "delete", "forget"} => staged[v] = None

VolumeOK(v) == MountOK(v) /\ SearchOK(v) /\ StepOK(v)

OwnInv == BaseInv /\ DataIsKept /\ \A v \in Volumes : VolumeOK(v)

LEMMA InitOwn == Init => OwnInv
<1> SUFFICES ASSUME Init PROVE OwnInv
  OBVIOUS
<1>1. BaseInv /\ DataIsKept
  BY InitBase DEF Init, DeviceInit, DataIsKept
<1>2. \A v \in Volumes : VolumeOK(v)
  BY StagingSteps DEF Init, DeviceInit, VolumeOK, MountOK, SearchOK, StepOK
<1> QED
  BY <1>1, <1>2 DEF OwnInv

\* What a call of v holds is v's disk, if the disk shows.
LEMMA OwnDevice ==
    ASSUME BaseInv, NEW v \in Volumes
    PROVE  /\ name[v] # None => DisksAt(name[v]) = {v} \cap visible
           /\ DisksAt(None) = {} /\ DisksAt(Host) = {}
<1>1. visible \subseteq Volumes /\ \A w \in visible : name[w] \in Names
  BY DEF BaseInv, TypeInv, DeviceTypeOK
<1>2. None \notin Names /\ Host \notin Names
  BY DeviceAssumption
<1> QED
  BY <1>1, <1>2 DEF BaseInv, NamesOK, DisksAt

\* The disks of other volumes stay as they are.
DisksKept(v) ==
    \A u \in Volumes \ {v} : (u \in visible => u \in visible') /\ fs'[u] = fs[u]

LEMMA CallsKeepDisks ==
    ASSUME OwnInv, NEW v \in Volumes, Call(v)
    PROVE  DisksKept(v)
<1> USE DEF OwnInv, BaseInv, TypeInv, DeviceTypeOK, DisksKept, nodeVars, diskVars, fileVars
<1>0. VolumeOK(v) /\ PhaseOK(v)
  OBVIOUS
<1>1. CASE DeleteDevice(v)
  <2>1. /\ phase[v] = "unstaging" /\ device[v] \in {None, Host, name[v]} /\ fs' = fs
        /\ visible' = visible \ DisksAt(device[v])
    BY <1>0, <1>1, StagingSteps DEF DeleteDevice, VolumeOK, StepOK, PhaseOK
  <2>2. DisksAt(device[v]) \subseteq {v}
    BY <1>0, <2>1, OwnDevice DEF PhaseOK
  <2> QED
    BY <2>1, <2>2
<1>2. CASE FormatDevice(v)
  <2>1. visible' = visible /\ device[v] = name[v] /\ name[v] # None
    BY <1>0, <1>2, StagingSteps DEF FormatDevice, VolumeOK, StepOK, PhaseOK
  <2>2. DisksAt(device[v]) \subseteq {v}
    BY <2>1, OwnDevice
  <2> QED
    BY <1>2, <2>1, <2>2 DEF FormatDevice
<1>3. CASE NodeExpandVolume(v)
  <2>1. staged[v] = name[v] /\ name[v] # None /\ UNCHANGED visible
    BY <1>0, <1>3 DEF NodeExpandVolume, VolumeOK, MountOK
  <2>2. DisksAt(staged[v]) \subseteq {v}
    BY <2>1, OwnDevice
  <2> QED
    BY <1>3, <2>1, <2>2 DEF NodeExpandVolume, ExpandFilesystem
<1>4. CASE Detach(v) \/ Rescan(v)
  BY <1>4 DEF Detach, DetachDisk, Rescan, RescanDevices
<1>5. CASE /\ ~DeleteDevice(v) /\ ~FormatDevice(v) /\ ~NodeExpandVolume(v)
           /\ ~Detach(v) /\ ~Rescan(v)
  <2>1. UNCHANGED <<visible, fs>>
    BY <1>5
       DEF Call, Step, StageStep, UnstageStep, SearchStep, NodeStageVolume, NodeUnstageVolume,
           Begin, ListDevices, LookAtSize, LookAtMounts, Probe, DiscoverDevicePath,
           WaitForDevice, StageDevice, HasFilesystem, Mount, RecordStagedDevice, LookUpSource,
           StagedDevicePath, Unmount, RemoveDevice, ForgetStagedDevice, NodePublishVolume,
           NodeUnpublishVolume, BindMount, CommandFails, Abort, Attach, AttachDisk,
           Grow, GrowDisk, Notice
  <2> QED
    BY <2>1
<1> QED
  BY <1>1, <1>2, <1>3, <1>4, <1>5

LEMMA OthersOwn ==
    ASSUME OwnInv, NEW v \in Volumes, Call(v), NEW u \in Volumes, u # v
    PROVE  VolumeOK(u)'
<1>1. OthersKept(v) /\ DisksKept(v)
  BY CallsKeepOthers, CallsKeepDisks DEF OwnInv, BaseInv
<1> QED
  BY <1>1 DEF OwnInv, VolumeOK, MountOK, SearchOK, StepOK, OthersKept, DisksKept

\* Only a blank disk is formatted.
LEMMA CallsKeepData ==
    ASSUME OwnInv, NEW v \in Volumes, Call(v)
    PROVE  DataIsKept'
<1> USE DEF OwnInv, BaseInv, DataIsKept, nodeVars, diskVars, fileVars
<1>1. CASE FormatDevice(v)
  <2>1. device[v] = name[v] /\ name[v] # None /\ fs[v] = 0
    BY <1>1, StagingSteps DEF FormatDevice, VolumeOK, StepOK, PhaseOK
  <2>2. DisksAt(device[v]) \subseteq {v}
    BY <2>1, OwnDevice
  <2> QED
    BY <1>1, <2>1, <2>2 DEF FormatDevice
<1>2. CASE ~FormatDevice(v)
  BY <1>2
     DEF Call, Step, StageStep, UnstageStep, SearchStep, NodeStageVolume, NodeUnstageVolume,
         Begin, Rescan, RescanDevices, ListDevices, LookAtSize, LookAtMounts, Probe,
         DiscoverDevicePath, WaitForDevice, StageDevice, HasFilesystem, Mount,
         RecordStagedDevice, LookUpSource, StagedDevicePath, Unmount, RemoveDevice,
         DeleteDevice, ForgetStagedDevice, NodePublishVolume, NodeUnpublishVolume,
         NodeExpandVolume, CommandFails, Abort, Attach, AttachDisk, Detach, DetachDisk,
         Grow, GrowDisk, Notice
<1> QED
  BY <1>1, <1>2

\* A call that fails, or goes round a loop without a device.
LEMMA FailOwn ==
    ASSUME OwnInv, ToldApart, NEW v \in Volumes, Fail(v), pc[v] # "idle",
           UNCHANGED <<name, visible, staged, bound, record, fs>>
    PROVE  VolumeOK(v)'
<1>1. phase[v] \in {"staging", "unstaging"} /\ VolumeOK(v)
  BY StepNames, StagingSteps DEF OwnInv, BaseInv, TypeInv, CallTypeOK, PhaseOK
<1>2. /\ pc'[v] = "idle" /\ phase'[v] \in {"unstaging", "uncertain"}
      /\ blank'[v] = {} /\ formatted'[v] = {}
  BY <1>1 DEF Fail, Return, EndSearch, AfterError, ToldApart, OwnInv, BaseInv, TypeInv,
              CallTypeOK
<1> QED
  BY <1>1, <1>2, StagingSteps DEF VolumeOK, MountOK, SearchOK, StepOK, Looking

\* One that goes on with a device of its own, or none, and does nothing else.
LEMMA GoesOnOwn ==
    ASSUME OwnInv, NEW v \in Volumes, UNCHANGED <<phase, name, bound, record, staged, fs>>,
           pc'[v] # "idle", pc'[v] \notin Looking, v \in visible => v \in visible',
           blank'[v] = {}, formatted'[v] = {}, SearchOK(v)', StepOK(v)'
    PROVE  VolumeOK(v)'
BY DEF OwnInv, VolumeOK, MountOK

LEMMA RescanOwn ==
    ASSUME OwnInv, ToldApart, NEW v \in Volumes, Rescan(v)
    PROVE  VolumeOK(v)'
<1> USE StagingSteps
<1>1. /\ VolumeOK(v) /\ PhaseOK(v) /\ phase[v] = "staging"
      /\ UNCHANGED <<phase, name, bound, record, staged, fs>>
      /\ v \in visible => v \in visible'
  BY DEF OwnInv, BaseInv, PhaseOK, Rescan, RescanDevices, Goto, GotoWith, kubeVars, fileVars
<1>2. IF v \in Reported THEN DevicePath(v) = name[v] /\ name[v] # None
                        ELSE DevicePath(v) = None
  BY <1>1 DEF PhaseOK, DevicePath, ToldApart
<1>3. /\ blank[v] = {} /\ formatted[v] = {} /\ pc[v] \in {"rescan", "rediscover", "rewait"}
  BY <1>1 DEF VolumeOK, SearchOK, Rescan, Looking
<1>4. /\ blank'[v] = {} /\ formatted'[v] = {}
      /\ \/ pc'[v] = "discover" /\ v \notin Reported
         \/ pc'[v] = "wait" /\ device'[v] = name[v]
  BY <1>1, <1>2, <1>3
     DEF Rescan, Goto, GotoWith, EndSearch, searchVars, VolumeOK, SearchOK, StepOK,
         OwnInv, BaseInv, TypeInv, CallTypeOK
<1>5. SearchOK(v)' /\ StepOK(v)'
  BY <1>1, <1>4 DEF SearchOK, StepOK, Looking
<1> QED
  BY <1>1, <1>4, <1>5, GoesOnOwn DEF Looking

LEMMA SearchOwn ==
    ASSUME OwnInv, ToldApart, NEW v \in Volumes, SearchStep(v)
    PROVE  VolumeOK(v)'
<1> USE StagingSteps DEF Looking
<1>1. /\ VolumeOK(v) /\ PhaseOK(v) /\ v \notin Reported /\ phase[v] = "staging"
      /\ UNCHANGED <<name, visible, bound, record, staged, fs>>
  BY DEF OwnInv, BaseInv, SearchStep, ListDevices, LookAtSize, LookAtMounts, Probe,
         DiscoverDevicePath, VolumeOK, SearchOK, PhaseOK, nodeVars, diskVars, fileVars
<1>2. ASSUME NEW n, FitsHint(v, n) PROVE n = name[v]
  <2>1. HintOf[v] # 0 /\ \A w \in Volumes \ {v} : HintOf[v] \notin SizesOf[w]
    BY <1>1 DEF ToldApart
  <2>2. \A w \in visible : w \in Volumes /\ capacity[w] \in SizesOf[w]
    BY DEF OwnInv, BaseInv, TypeInv, DeviceTypeOK
  <2> QED
    BY <1>2, <2>1, <2>2 DEF FitsHint, DisksAt
<1>3. CASE ListDevices(v) \/ LookAtSize(v) \/ LookAtMounts(v) \/ Probe(v)
  <2>1. /\ pc'[v] \in Looking /\ UNCHANGED phase
        /\ pc'[v] # "look" => device'[v] = name[v]
    BY <1>1, <1>2, <1>3
       DEF ListDevices, LookAtSize, LookAtMounts, Probe, Seek, kubeVars, VolumeOK, SearchOK,
           OwnInv, BaseInv, TypeInv, CallTypeOK
  <2>2. blank'[v] \cup formatted'[v] \subseteq {name[v]}
    <3>1. CASE Probe(v)
      <4>1. device[v] = name[v] /\ blank[v] \cup formatted[v] \subseteq {name[v]}
        BY <1>1, <3>1 DEF Probe, VolumeOK, SearchOK
      <4>2. /\ blank'[v] \subseteq blank[v] \cup {device[v]}
            /\ formatted'[v] \subseteq formatted[v] \cup {device[v]}
        <5>1. /\ blank \in [Volumes -> SUBSET Names] /\ formatted \in [Volumes -> SUBSET Names]
          BY DEF OwnInv, BaseInv, TypeInv, CallTypeOK
        <5> QED
          BY <3>1, <5>1 DEF Probe
      <4> QED
        BY <4>1, <4>2
    <3>2. CASE ~Probe(v)
      BY <1>1, <1>3, <3>2 DEF ListDevices, LookAtSize, LookAtMounts, searchVars, VolumeOK, SearchOK
    <3> QED
      BY <3>1, <3>2
  <2>3. SearchOK(v)' /\ StepOK(v)'
    BY <1>1, <2>1, <2>2 DEF SearchOK, StepOK
  <2> QED
    BY <1>1, <2>1, <2>3 DEF VolumeOK, MountOK
<1>4. CASE DiscoverDevicePath(v)
  <2>1. CASE Fail(v)
    BY <1>1, <1>4, <2>1, FailOwn DEF DiscoverDevicePath
  <2>2. ASSUME NEW n \in Eligible(v), GotoWith(v, "wait", n) PROVE VolumeOK(v)'
    <3>1. n = name[v]
      BY <1>1, <2>2 DEF Eligible, VolumeOK, SearchOK
    <3>2. /\ pc'[v] = "wait" /\ device'[v] = name[v] /\ UNCHANGED phase
          /\ blank'[v] = {} /\ formatted'[v] = {}
      BY <2>2, <3>1 DEF GotoWith, EndSearch, kubeVars, OwnInv, BaseInv, TypeInv, CallTypeOK
    <3>3. SearchOK(v)' /\ StepOK(v)'
      BY <1>1, <3>2 DEF SearchOK, StepOK
    <3> QED
      BY <1>1, <3>2, <3>3, GoesOnOwn
  <2>3. CASE NextAttempt(v, "rediscover", None)
    <3>1. /\ pc'[v] = "rediscover" /\ UNCHANGED phase
          /\ blank'[v] = {} /\ formatted'[v] = {}
      BY <2>3 DEF NextAttempt, EndSearch, kubeVars, OwnInv, BaseInv, TypeInv, CallTypeOK
    <3>2. SearchOK(v)' /\ StepOK(v)'
      BY <1>1, <3>1 DEF SearchOK, StepOK
    <3> QED
      BY <1>1, <3>1, <3>2, GoesOnOwn
  <2> QED
    BY <1>4, <2>1, <2>2, <2>3 DEF DiscoverDevicePath, Loop
<1> QED
  BY <1>3, <1>4 DEF SearchStep

\* The steps of a call that holds its disk.
LEMMA HoldOwn ==
    ASSUME OwnInv, ToldApart, NEW v \in Volumes,
           \/ WaitForDevice(v) \/ StageDevice(v) \/ HasFilesystem(v) \/ FormatDevice(v)
           \/ Mount(v) \/ RecordStagedDevice(v)
    PROVE  VolumeOK(v)'
<1> USE StagingSteps DEF Looking, OwnInv, BaseInv, TypeInv, DeviceTypeOK, CallTypeOK
<1>1. /\ VolumeOK(v) /\ PhaseOK(v) /\ phase[v] = "staging" /\ name[v] # None
      /\ pc[v] \in Holding /\ device[v] = name[v]
      /\ blank[v] = {} /\ formatted[v] = {} /\ UNCHANGED <<name, visible, bound>>
  BY DEF WaitForDevice, StageDevice, HasFilesystem, FormatDevice, Mount, RecordStagedDevice,
         VolumeOK, SearchOK, StepOK, PhaseOK, nodeVars, diskVars, fileVars
<1>2. DisksAt(device[v]) = {v} \cap visible
  BY <1>1, OwnDevice
<1>3. ASSUME NEW step, Goto(v, step)
      PROVE  /\ pc'[v] = step /\ device'[v] = name[v] /\ UNCHANGED phase
             /\ blank'[v] = {} /\ formatted'[v] = {}
  BY <1>1, <1>3 DEF Goto, kubeVars, searchVars
<1>4. CASE Fail(v)
  <2>1. UNCHANGED <<staged, record, fs>>
    <3>1. CASE FormatDevice(v) \/ Mount(v)
      BY <1>1, <1>4, <3>1 DEF FormatDevice, Mount, Goto, Fail, Return, fileVars
    <3>2. CASE WaitForDevice(v) \/ StageDevice(v) \/ HasFilesystem(v)
      BY <3>2 DEF WaitForDevice, StageDevice, HasFilesystem, nodeVars, fileVars
    <3>3. CASE RecordStagedDevice(v)
      BY <1>1, <1>4, <3>3 DEF RecordStagedDevice, Fail, Return, AfterError, ToldApart
    <3> QED
      BY <3>1, <3>2, <3>3
  <2> QED
    BY <1>1, <1>4, <2>1, FailOwn
<1>5. CASE WaitForDevice(v) /\ ~Fail(v)
  <2>1. /\ UNCHANGED <<phase, record, staged, fs>> /\ blank'[v] = {} /\ formatted'[v] = {}
        /\ device'[v] = name[v] /\ pc'[v] \in {"rewait", "mkdir"}
        /\ pc'[v] = "mkdir" => v \in visible
    BY <1>1, <1>2, <1>5 DEF WaitForDevice, Loop, NextAttempt, EndSearch, Goto, kubeVars,
                            searchVars, nodeVars, fileVars
  <2>2. SearchOK(v)' /\ StepOK(v)'
    BY <1>1, <2>1 DEF SearchOK, StepOK
  <2> QED
    BY <1>1, <2>1, <2>2, GoesOnOwn
<1>6. CASE StageDevice(v) \/ HasFilesystem(v)
  <2>1. /\ UNCHANGED <<record, staged, fs>> /\ v \in visible
        /\ \E step \in {"record", "blkid", "mkfs", "mount"} :
              /\ Goto(v, step)
              /\ step = "record" <=> staged[v] # None
              /\ step = "mkfs" => fs[v] = 0
    <3>1. v \in visible /\ UNCHANGED <<record, staged, fs>>
      BY <1>1, <1>6 DEF StageDevice, HasFilesystem, VolumeOK, StepOK, nodeVars, fileVars
    <3>2. CASE StageDevice(v)
      BY <3>1, <3>2 DEF StageDevice
    <3>3. CASE HasFilesystem(v)
      <4>1. staged[v] = None
        BY <1>1, <3>3 DEF HasFilesystem, VolumeOK, StepOK
      <4>2. ASSUME NEW b \in LooksBlank(device[v]), b PROVE fs[v] = 0
        BY <1>2, <3>1, <4>2 DEF LooksBlank, ToldApart
      <4> QED
        BY <3>1, <3>3, <4>1, <4>2 DEF HasFilesystem
    <3> QED
      BY <1>6, <3>2, <3>3
  <2>2. /\ UNCHANGED <<phase, record, staged, fs>> /\ blank'[v] = {} /\ formatted'[v] = {}
        /\ device'[v] = name[v] /\ pc'[v] \in {"record", "blkid", "mkfs", "mount"}
        /\ pc'[v] = "record" <=> staged[v] # None
        /\ pc'[v] = "mkfs" => fs[v] = 0
    BY <1>3, <2>1
  <2>3. SearchOK(v)' /\ StepOK(v)'
    BY <1>1, <2>1, <2>2 DEF SearchOK, StepOK
  <2> QED
    BY <1>1, <2>2, <2>3, GoesOnOwn
<1>7. CASE (FormatDevice(v) \/ Mount(v)) /\ ~Fail(v)
  <2>1. v \in visible /\ staged[v] = None
    BY <1>1, <1>7 DEF FormatDevice, Mount, VolumeOK, StepOK
  <2>2. \/ FormatDevice(v) /\ Goto(v, "mount") /\ UNCHANGED <<staged, record>>
        \/ /\ Mount(v) /\ Goto(v, "record") /\ UNCHANGED <<fs, record>>
           /\ staged'[v] = name[v] /\ fs[v] # 0
    BY <1>1, <1>2, <1>7 DEF FormatDevice, Mount, fileVars
  <2>3. CASE FormatDevice(v)
    BY <1>1, <1>3, <2>1, <2>2, <2>3 DEF VolumeOK, MountOK, SearchOK, StepOK, FormatDevice, Mount
  <2>4. CASE Mount(v)
    BY <1>1, <1>3, <2>1, <2>2, <2>4 DEF VolumeOK, MountOK, SearchOK, StepOK, FormatDevice, Mount
  <2> QED
    BY <1>7, <2>3, <2>4
<1>8. CASE RecordStagedDevice(v)
  <2>1. v \in visible /\ staged[v] # None /\ UNCHANGED <<staged, fs>>
    BY <1>1, <1>8 DEF RecordStagedDevice, VolumeOK, StepOK
  <2>2. /\ record'[v] = name[v] /\ phase'[v] = "staged" /\ pc'[v] = "idle"
        /\ blank'[v] = {} /\ formatted'[v] = {}
    BY <1>1, <1>8 DEF RecordStagedDevice, Return, EndSearch
  <2> QED
    BY <1>1, <2>1, <2>2 DEF VolumeOK, MountOK, SearchOK, StepOK
<1> QED
  BY <1>4, <1>5, <1>6, <1>7, <1>8

LEMMA UnstageOwn ==
    ASSUME OwnInv, ToldApart, NEW v \in Volumes, UnstageStep(v)
    PROVE  VolumeOK(v)'
<1> USE StagingSteps DEF Looking, OwnInv, BaseInv, TypeInv, DeviceTypeOK, CallTypeOK
<1>1. /\ VolumeOK(v) /\ PhaseOK(v) /\ phase[v] = "unstaging" /\ name[v] # None
      /\ pc[v] \in Removing /\ bound[v] = None
      /\ blank[v] = {} /\ formatted[v] = {} /\ UNCHANGED <<name, bound, fs>>
  BY DEF UnstageStep, LookUpSource, StagedDevicePath, Unmount, RemoveDevice, DeleteDevice,
         ForgetStagedDevice, VolumeOK, MountOK, SearchOK, PhaseOK, nodeVars, diskVars, fileVars
<1>2. CASE Fail(v)
  <2>1. UNCHANGED <<visible, staged, record>> \/ Unmount(v) \/ ForgetStagedDevice(v) \/ DeleteDevice(v)
    BY DEF UnstageStep, LookUpSource, StagedDevicePath, RemoveDevice, nodeVars, diskVars, fileVars
  <2>2. ~Unmount(v) /\ ~ForgetStagedDevice(v) /\ ~DeleteDevice(v)
    BY <1>1, <1>2 DEF Unmount, ForgetStagedDevice, DeleteDevice, Goto, Fail, Return, AfterError
  <2> QED
    BY <1>1, <1>2, <2>1, <2>2, FailOwn
<1>3. CASE LookUpSource(v) \/ StagedDevicePath(v)
  <2>1. /\ MountedSource(v) \in {None, Host, name[v]} /\ record[v] \in {None, name[v]}
    BY <1>1 DEF MountedSource, VolumeOK, MountOK
  <2>2. /\ UNCHANGED <<phase, visible, record, staged>> /\ blank'[v] = {} /\ formatted'[v] = {}
        /\ \/ pc'[v] = "recorded"
           \/ /\ pc'[v] = "umount" /\ device'[v] \in {None, Host, name[v]}
              /\ device'[v] = None => record[v] = None
    BY <1>1, <1>3, <2>1 DEF LookUpSource, StagedDevicePath, Goto, GotoWith, EndSearch, kubeVars,
                            searchVars, nodeVars, diskVars, fileVars
  <2>3. SearchOK(v)' /\ StepOK(v)'
    BY <1>1, <2>2 DEF SearchOK, StepOK
  <2> QED
    BY <1>1, <2>2, <2>3, GoesOnOwn
<1>4. CASE Unmount(v)
  <2>1. /\ device[v] \in {None, Host, name[v]} /\ (device[v] = None => record[v] = None)
        /\ staged'[v] = None /\ UNCHANGED <<visible, record>>
    BY <1>1, <1>4 DEF Unmount, VolumeOK, StepOK, diskVars
  <2>2. CASE device[v] = None
    BY <1>1, <1>4, <2>1, <2>2 DEF Unmount, Return, EndSearch, VolumeOK, MountOK, SearchOK, StepOK
  <2>3. CASE device[v] # None
    BY <1>1, <1>4, <2>1, <2>3 DEF Unmount, Goto, kubeVars, searchVars, VolumeOK, MountOK,
                                  SearchOK, StepOK
  <2> QED
    BY <2>2, <2>3
<1>5. CASE (RemoveDevice(v) /\ ~Fail(v)) \/ DeleteDevice(v)
  <2>1. /\ staged[v] = None /\ device[v] \in {None, Host, name[v]} /\ UNCHANGED <<staged, record>>
        /\ \E step \in {"delete", "forget"} : Goto(v, step)
    BY <1>1, <1>5 DEF RemoveDevice, DeleteDevice, VolumeOK, StepOK, nodeVars, fileVars
  <2>2. /\ pc'[v] \in {"delete", "forget"} /\ device'[v] = device[v] /\ UNCHANGED phase
        /\ blank'[v] = {} /\ formatted'[v] = {}
    BY <1>1, <2>1 DEF Goto, kubeVars, searchVars
  <2> QED
    BY <1>1, <2>1, <2>2 DEF VolumeOK, MountOK, SearchOK, StepOK
<1>6. CASE ForgetStagedDevice(v)
  <2>1. /\ staged[v] = None /\ record'[v] = None /\ UNCHANGED <<visible, staged>>
        /\ pc'[v] = "idle" /\ phase'[v] = "attached" /\ blank'[v] = {} /\ formatted'[v] = {}
    BY <1>1, <1>6 DEF ForgetStagedDevice, Return, EndSearch, VolumeOK, StepOK, diskVars
  <2> QED
    BY <1>1, <2>1 DEF VolumeOK, MountOK, SearchOK, StepOK
<1> QED
  BY <1>2, <1>3, <1>4, <1>5, <1>6 DEF UnstageStep

LEMMA BeginOwn ==
    ASSUME OwnInv, NEW v \in Volumes, NodeStageVolume(v) \/ NodeUnstageVolume(v)
    PROVE  VolumeOK(v)'
<1>1. /\ VolumeOK(v) /\ pc[v] = "idle" /\ UNCHANGED <<nodeVars, device, searchVars>>
      /\ pc'[v] \in {"rescan", "source"} /\ phase'[v] \in {"staging", "unstaging"}
      /\ bound[v] = None
  BY DEF NodeStageVolume, NodeUnstageVolume, Begin, OwnInv, BaseInv, TypeInv, CallTypeOK,
         VolumeOK, MountOK
<1> QED
  BY <1>1, StagingSteps DEF VolumeOK, MountOK, SearchOK, StepOK, Looking, nodeVars, diskVars,
                            fileVars, searchVars

\* NodePublishVolume, NodeUnpublishVolume and NodeExpandVolume
LEMMA PublishOwn ==
    ASSUME OwnInv, NEW v \in Volumes,
           NodePublishVolume(v) \/ NodeUnpublishVolume(v) \/ NodeExpandVolume(v)
    PROVE  VolumeOK(v)'
<1> USE StagingSteps DEF Looking, OwnInv, BaseInv, TypeInv, DeviceTypeOK, CallTypeOK
<1>1. /\ VolumeOK(v) /\ phase[v] \in {"staged", "published"} /\ pc[v] = "idle"
      /\ staged[v] = name[v] /\ v \in visible /\ fs[v] # 0 /\ name[v] # None
  BY DEF NodePublishVolume, NodeUnpublishVolume, NodeExpandVolume, VolumeOK, MountOK
<1>2. CASE NodePublishVolume(v) \/ NodeUnpublishVolume(v)
  <2>1. /\ UNCHANGED <<name, visible, staged, record, fs, device, searchVars>>
        /\ pc'[v] = "idle"
        /\ \/ phase'[v] = "published" /\ bound'[v] \in {staged[v], bound[v]}
           \/ phase'[v] = "staged" /\ bound'[v] = None
    BY <1>1, <1>2 DEF NodePublishVolume, NodeUnpublishVolume, BindMount, diskVars
  <2> QED
    BY <1>1, <2>1 DEF VolumeOK, MountOK, SearchOK, StepOK, searchVars
<1>3. CASE NodeExpandVolume(v)
  <2>1. DisksAt(staged[v]) = {v} /\ capacity[v] # 0
    BY <1>1, OwnDevice, DeviceAssumption
  <2>2. /\ fs'[v] # 0 /\ UNCHANGED <<name, visible, staged, bound, record>>
        /\ UNCHANGED <<phase, pc, device, searchVars>>
    BY <1>3, <2>1 DEF NodeExpandVolume, ExpandFilesystem, diskVars, fileVars, callVars, kubeVars
  <2> QED
    BY <1>1, <2>2 DEF VolumeOK, MountOK, SearchOK, StepOK, searchVars
<1> QED
  BY <1>2, <1>3

\* Failures.
LEMMA CommandFailsOwn ==
    ASSUME OwnInv, ToldApart, NEW v \in Volumes, CommandFails(v)
    PROVE  VolumeOK(v)'
<1> USE StagingSteps DEF Looking, OwnInv, BaseInv, TypeInv, DeviceTypeOK, CallTypeOK
<1>1. /\ VolumeOK(v) /\ UNCHANGED <<name, visible, staged, bound, record, fs>> /\ pc[v] # "idle"
  BY DEF CommandFails, FailingSteps, diskVars
<1>2. CASE Fail(v)
  BY <1>1, <1>2, FailOwn
<1>3. CASE /\ pc[v] \in {"rediscover", "discover", "mounts", "probe"}
           /\ NextAttempt(v, "rediscover", None)
  <2>1. /\ pc'[v] = "rediscover" /\ blank'[v] = {} /\ formatted'[v] = {} /\ UNCHANGED phase
        /\ v \notin Reported
    BY <1>1, <1>3 DEF NextAttempt, EndSearch, kubeVars, VolumeOK, SearchOK
  <2>2. SearchOK(v)' /\ StepOK(v)'
    BY <1>1, <2>1 DEF SearchOK, StepOK
  <2> QED
    BY <1>1, <2>1, <2>2, GoesOnOwn
<1>4. CASE pc[v] = "source" /\ Goto(v, "recorded")
  <2>1. /\ pc'[v] = "recorded" /\ blank'[v] = {} /\ formatted'[v] = {} /\ UNCHANGED phase
    BY <1>1, <1>4 DEF Goto, kubeVars, searchVars, VolumeOK, SearchOK
  <2>2. SearchOK(v)' /\ StepOK(v)'
    BY <1>1, <2>1 DEF SearchOK, StepOK
  <2> QED
    BY <1>1, <2>1, <2>2, GoesOnOwn
<1> QED
  BY <1>2, <1>3, <1>4 DEF CommandFails, Loop, ToldApart

LEMMA AbortOwn ==
    ASSUME OwnInv, NEW v \in Volumes, Abort(v)
    PROVE  VolumeOK(v)'
<1> USE StagingSteps DEF Looking, OwnInv, BaseInv, TypeInv, DeviceTypeOK, CallTypeOK
<1>1. /\ VolumeOK(v) /\ PhaseOK(v) /\ UNCHANGED <<name, visible, bound, record, fs>>
      /\ pc[v] # "idle" /\ phase[v] \in {"staging", "unstaging"}
  BY StepNames DEF Abort, PhaseOK, diskVars
<1>2. /\ staged'[v] \in {None, staged[v]} /\ bound[v] = None
      /\ pc'[v] = "idle" /\ phase'[v] \in {"unstaging", "uncertain"}
      /\ blank'[v] = {} /\ formatted'[v] = {}
  BY <1>1 DEF Abort, Return, EndSearch, VolumeOK, MountOK
<1> QED
  BY <1>1, <1>2 DEF VolumeOK, MountOK, SearchOK, StepOK

LEMMA RebootOwn ==
    ASSUME OwnInv, ToldApart, Reboot
    PROVE  DataIsKept' /\ \A u \in Volumes : VolumeOK(u)'
<1> USE StagingSteps DEF Looking, OwnInv, BaseInv, TypeInv, DeviceTypeOK, CallTypeOK
<1>1. name' = name /\ DataIsKept'
  BY DEF Reboot, Boot, Numberings, ToldApart, DataIsKept
<1>2. ASSUME NEW u \in Volumes PROVE VolumeOK(u)'
  BY <1>1, <1>2 DEF VolumeOK, MountOK, SearchOK, StepOK, Reboot, Boot
<1> QED
  BY <1>1, <1>2

\* The controller's part.
LEMMA AttachOwn ==
    ASSUME OwnInv, NEW v \in Volumes, Attach(v) \/ Detach(v) \/ Grow(v)
    PROVE  VolumeOK(v)'
<1> USE StagingSteps DEF Looking, OwnInv, BaseInv, TypeInv, DeviceTypeOK, CallTypeOK, fileVars
<1>1. CASE Grow(v)
  BY <1>1 DEF Grow, GrowDisk, Notice, callVars, kubeVars, searchVars, VolumeOK, MountOK,
              SearchOK, StepOK
<1>2. CASE Attach(v) \/ Detach(v)
  <2>1. /\ phase[v] \in {"detached", "attached"} /\ phase'[v] \in {"detached", "attached"}
        /\ pc[v] \notin Finding \cup Holding \cup Removing
        /\ staged[v] = None /\ record[v] = None /\ bound[v] = None
        /\ blank[v] = {} /\ formatted[v] = {}
        /\ UNCHANGED <<pc, device, searchVars, staged, record, bound, fs>>
    BY <1>2 DEF Attach, AttachDisk, Detach, DetachDisk, VolumeOK, PhaseOK, MountOK, SearchOK
  <2> QED
    BY <2>1 DEF VolumeOK, MountOK, SearchOK, StepOK, searchVars
<1> QED
  BY <1>1, <1>2

LEMMA NextOwn == OwnInv /\ ToldApart /\ [Next]_vars => OwnInv'
<1> SUFFICES ASSUME OwnInv, ToldApart, [Next]_vars PROVE OwnInv'
  OBVIOUS
<1>1. BaseInv'
  BY NextBase DEF OwnInv, ToldApart
<1>2. DataIsKept' /\ \A u \in Volumes : VolumeOK(u)'
  <2>1. CASE UNCHANGED vars
    BY <2>1 DEF OwnInv, DataIsKept, VolumeOK, MountOK, SearchOK, StepOK, vars, callVars,
                kubeVars, searchVars, nodeVars, diskVars, fileVars
  <2>2. ASSUME NEW v \in Volumes, Call(v) PROVE DataIsKept' /\ \A u \in Volumes : VolumeOK(u)'
    <3>1. VolumeOK(v)'
      BY <2>2, RescanOwn, SearchOwn, HoldOwn, UnstageOwn, BeginOwn, PublishOwn,
         CommandFailsOwn, AbortOwn, AttachOwn DEF Call, Step, StageStep
    <3> QED
      BY <2>2, <3>1, CallsKeepData, OthersOwn
  <2> QED
    BY <2>1, <2>2, RebootOwn, NextIsCall
<1> QED
  BY <1>1, <1>2 DEF OwnInv

LEMMA OwnInvariant == ASSUME ToldApart PROVE Spec => []OwnInv
<1>1. OwnInv /\ [Next]_vars => OwnInv'
  BY NextOwn
<1> QED
  BY <1>1, InitOwn, PTL DEF Spec

\* What is mounted at a volume's paths shows the volume's disk.
ShownOK ==
    \A v \in Volumes : /\ Shown(staged[v]) = IF staged[v] = None THEN None ELSE v
                      /\ Shown(bound[v]) = IF bound[v] = None THEN None ELSE v

LEMMA OwnShown == OwnInv => ShownOK
<1> SUFFICES ASSUME OwnInv, NEW v \in Volumes
             PROVE  /\ Shown(staged[v]) = IF staged[v] = None THEN None ELSE v
                    /\ Shown(bound[v]) = IF bound[v] = None THEN None ELSE v
  BY DEF ShownOK
<1> USE DeviceAssumption DEF OwnInv, BaseInv
<1>1. /\ {staged[v], bound[v]} \subseteq {None, name[v]}
      /\ staged[v] # None \/ bound[v] # None => v \in visible
      /\ visible \subseteq Volumes
  BY DEF VolumeOK, MountOK, TypeInv, DeviceTypeOK
<1>2. v \in visible => name[v] \in Names /\ DisksAt(name[v]) = {v}
  BY OwnDevice DEF TypeInv
<1>3. v \in visible => Shown(name[v]) = v
  BY <1>2 DEF Shown
<1>4. Shown(None) = None
  BY DEF Shown
<1> QED
  BY <1>1, <1>3, <1>4

\* node.go:553-558: when the volumes can be told apart, no disk that has a
\* filesystem is formatted.
THEOREM DataIsKeptCorrect == ASSUME ToldApart PROVE Spec => []DataIsKept
<1>1. OwnInv => DataIsKept
  BY DEF OwnInv
<1> QED
  BY <1>1, OwnInvariant, PTL

\* node.go:361-369: and no disk goes away under a mount, although RemoveDevice
\* looks for mounts a step before it deletes and takes no lock.
THEOREM MountsHaveDevicesCorrect == ASSUME ToldApart PROVE Spec => []MountsHaveDevices
<1>1. OwnInv => MountsHaveDevices
  <2> SUFFICES ASSUME OwnInv, NEW v \in Volumes, NEW n \in {staged[v], bound[v]} \cap Names
               PROVE  DisksAt(n) # {}
    BY DEF MountsHaveDevices
  <2>1. n = name[v] /\ v \in visible /\ n # None
    BY DeviceAssumption DEF OwnInv, VolumeOK, MountOK
  <2> QED
    BY <2>1, OwnDevice DEF OwnInv
<1> QED
  BY <1>1, OwnInvariant, PTL

-----------------------------------------------------------------------------
(* NodeService implements NodeStaging.                                     *)

\* What NodeStaging sees of the state.
Formatted == {v \in Volumes : fs[v] # 0}
Shows     == [v \in Volumes |-> Shown(staged[v])]
Pods      == [v \in Volumes |-> Shown(bound[v])]

\* A step that leaves that alone is a stutter.
LEMMA HiddenStep ==
    ASSUME ShownOK, ShownOK', visible' = visible, Formatted' = Formatted,
           UNCHANGED <<staged, bound>>
    PROVE  UNCHANGED Staging!vars
<1>1. \A v \in Volumes : /\ Shown(staged[v])' = Shown(staged[v])
                         /\ Shown(bound[v])' = Shown(bound[v])
  BY DEF ShownOK
<1> QED
  BY <1>1 DEF Staging!vars, Formatted

\* What is seen of the mounts is which of them there are.
LEMMA SeenMounts ==
    ASSUME ShownOK, ShownOK'
    PROVE  /\ Shows = [u \in Volumes |-> IF staged[u] = None THEN None ELSE u]
           /\ Shows' = [u \in Volumes |-> IF staged'[u] = None THEN None ELSE u]
           /\ Pods = [u \in Volumes |-> IF bound[u] = None THEN None ELSE u]
           /\ Pods' = [u \in Volumes |-> IF bound'[u] = None THEN None ELSE u]
BY DEF ShownOK, Shows, Pods

\* A device that shows, or goes while nothing of it is mounted.
LEMMA DeviceStep ==
    ASSUME OwnInv, OwnInv', ShownOK, ShownOK', UNCHANGED <<staged, bound, fs>>,
           \/ visible \subseteq visible'
           \/ \E v \in Volumes : /\ visible' = visible \ {v}
                                 /\ staged[v] = None /\ bound[v] = None
    PROVE  [Staging!Next]_(Staging!vars)
<1>1. \A v \in Volumes : /\ Shown(staged[v])' = Shown(staged[v])
                         /\ Shown(bound[v])' = Shown(bound[v])
  BY DEF ShownOK
<1>2. UNCHANGED <<Formatted, Shows, Pods>>
  BY <1>1 DEF Formatted, Shows, Pods
<1>3. visible' \subseteq Volumes
  BY DEF OwnInv, BaseInv, TypeInv, DeviceTypeOK
<1>4. ASSUME visible \subseteq visible', visible # visible'
      PROVE  Staging!Next
  <2>1. PICK w \in visible' : w \notin visible
    BY <1>4
  <2>2. Staging!Appear(w)
    BY <1>2, <1>3, <1>4, <2>1 DEF Staging!Appear, Formatted, Shows, Pods
  <2> QED
    BY <1>3, <2>1, <2>2 DEF Staging!Next
<1>5. ASSUME NEW v \in Volumes, visible' = visible \ {v}, v \in visible,
             staged[v] = None, bound[v] = None
      PROVE  Staging!Next
  <2>1. \A u \in Volumes : Shown(staged[u]) # v /\ Shown(bound[u]) # v
    BY <1>5, DeviceAssumption DEF ShownOK
  <2>2. Staging!Vanish(v)
    BY <1>2, <1>5, <2>1 DEF Staging!Vanish, Staging!InUse, Formatted, Shows, Pods
  <2> QED
    BY <2>2 DEF Staging!Next
<1>6. visible' = visible => UNCHANGED Staging!vars
  BY <1>2 DEF Staging!vars, Formatted, Shows, Pods
<1> QED
  BY <1>4, <1>5, <1>6

LEMMA FormatRefines ==
    ASSUME OwnInv, OwnInv', ShownOK, ShownOK', NEW v \in Volumes, FormatDevice(v)
    PROVE  [Staging!Next]_(Staging!vars)
<1>1. /\ pc[v] = "mkfs" /\ device[v] = name[v] /\ fs[v] = 0 /\ v \in visible
      /\ staged[v] = None /\ name[v] # None /\ phase[v] = "staging" /\ bound[v] = None
  BY DEF OwnInv, BaseInv, FormatDevice, VolumeOK, PhaseOK, MountOK, StepOK, Holding
<1>2. DisksAt(device[v]) = {v}
  BY <1>1, OwnDevice DEF OwnInv
<1>3. UNCHANGED <<visible, staged, bound>>
  BY DEF FormatDevice, diskVars, fileVars
<1>4. CASE fs' = fs
  BY <1>3, <1>4, HiddenStep DEF Formatted
<1>5. CASE fs' = [w \in Volumes |-> IF w \in {v} THEN capacity[w] ELSE fs[w]]
  <2>1. capacity[v] # 0
    BY DeviceAssumption DEF OwnInv, BaseInv, TypeInv, DeviceTypeOK
  <2>2. Formatted' = Formatted \cup {v} /\ v \notin Formatted
    BY <1>1, <1>5, <2>1 DEF Formatted
  <2>3. \A u \in Volumes : Shown(staged[u]) # v /\ Shown(bound[u]) # v
    BY <1>1, DeviceAssumption DEF ShownOK
  <2>4. UNCHANGED <<Shows, Pods>>
    BY <1>3 DEF ShownOK, Shows, Pods
  <2>5. Staging!Format(v)
    BY <1>1, <1>3, <2>2, <2>3, <2>4 DEF Staging!Format, Staging!InUse, Formatted, Shows, Pods
  <2> QED
    BY <2>5 DEF Staging!Next
<1> QED
  BY <1>2, <1>4, <1>5 DEF FormatDevice

LEMMA MountRefines ==
    ASSUME OwnInv, OwnInv', ShownOK, ShownOK', NEW v \in Volumes, Mount(v)
    PROVE  [Staging!Next]_(Staging!vars)
<1>1. /\ pc[v] = "mount" /\ device[v] = name[v] /\ v \in visible
      /\ staged[v] = None /\ name[v] # None
      /\ UNCHANGED <<visible, bound, fs>>
  BY DEF OwnInv, BaseInv, Mount, VolumeOK, PhaseOK, StepOK, Holding, diskVars
<1>2. DisksAt(device[v]) = {v} /\ Formatted' = Formatted
  BY <1>1, OwnDevice DEF OwnInv, Formatted
<1>3. CASE staged' = staged
  BY <1>1, <1>2, <1>3, HiddenStep
<1>4. CASE fs[v] # 0 /\ staged' = [staged EXCEPT ![v] = device[v]]
  <2>0. \A u \in Volumes : staged'[u] = IF u = v THEN name[v] ELSE staged[u]
    BY <1>1, <1>4 DEF OwnInv, BaseInv, TypeInv, DeviceTypeOK
  <2>1. /\ Shows[v] = None /\ Shows' = [Shows EXCEPT ![v] = v]
        /\ Pods' = Pods
    BY <1>1, <2>0, SeenMounts
  <2>2. Staging!Stage(v)
    BY <1>1, <1>2, <1>4, <2>1 DEF Staging!Stage, Formatted, Shows, Pods
  <2> QED
    BY <2>2 DEF Staging!Next
<1> QED
  BY <1>2, <1>3, <1>4 DEF Mount

\* umount, in NodeUnstageVolume or in a call cut short.
LEMMA UnmountRefines ==
    ASSUME OwnInv, OwnInv', ShownOK, ShownOK', NEW v \in Volumes, Unmount(v) \/ Abort(v)
    PROVE  [Staging!Next]_(Staging!vars)
<1>1. UNCHANGED <<visible, bound, fs>> /\ Formatted' = Formatted
  BY DEF Unmount, Abort, diskVars, Formatted
<1>2. staged' = staged \/ (pc[v] = "umount" /\ staged' = [staged EXCEPT ![v] = None])
  BY DEF Unmount, Abort
<1>3. CASE staged' = staged
  BY <1>1, <1>3, HiddenStep
<1>4. CASE pc[v] = "umount" /\ staged[v] # None /\ staged' = [staged EXCEPT ![v] = None]
  <2>1. bound[v] = None
    BY <1>4 DEF OwnInv, BaseInv, VolumeOK, PhaseOK, MountOK, Removing
  <2>0. \A u \in Volumes : staged'[u] = IF u = v THEN None ELSE staged[u]
    BY <1>4 DEF OwnInv, BaseInv, TypeInv, DeviceTypeOK
  <2>2. /\ Shows[v] = v /\ Pods[v] = None
        /\ Shows' = [Shows EXCEPT ![v] = None] /\ Pods' = Pods
    BY <1>1, <1>4, <2>0, <2>1, SeenMounts
  <2>3. Staging!Unstage(v)
    BY <1>1, <2>2 DEF Staging!Unstage, Formatted, Shows, Pods
  <2> QED
    BY <2>3 DEF Staging!Next
<1>5. CASE staged[v] = None /\ staged' = [staged EXCEPT ![v] = None]
  BY <1>3, <1>5 DEF OwnInv, BaseInv, TypeInv, DeviceTypeOK
<1> QED
  BY <1>2, <1>3, <1>4, <1>5

LEMMA PublishRefines ==
    ASSUME OwnInv, OwnInv', ShownOK, ShownOK', NEW v \in Volumes,
           NodePublishVolume(v) \/ NodeUnpublishVolume(v)
    PROVE  [Staging!Next]_(Staging!vars)
<1>1. UNCHANGED <<visible, staged, fs>> /\ Formatted' = Formatted
  BY DEF NodePublishVolume, BindMount, NodeUnpublishVolume, diskVars, Formatted
<1>2. staged[v] # None
  BY DEF NodePublishVolume, BindMount, NodeUnpublishVolume, OwnInv, VolumeOK, MountOK
<1>3. \/ bound[v] = None /\ bound' = [bound EXCEPT ![v] = staged[v]]
      \/ bound[v] # None /\ bound' = [bound EXCEPT ![v] = None]
      \/ bound' = bound
  BY <1>2 DEF NodePublishVolume, BindMount, NodeUnpublishVolume, OwnInv, BaseInv, TypeInv, DeviceTypeOK
<1>4. CASE bound' = bound
  BY <1>1, <1>4, HiddenStep
<1>5. CASE bound[v] = None /\ bound' = [bound EXCEPT ![v] = staged[v]]
  <2>0. \A u \in Volumes : bound'[u] = IF u = v THEN staged[v] ELSE bound[u]
    BY <1>5 DEF OwnInv, BaseInv, TypeInv, DeviceTypeOK
  <2>1. /\ Shows[v] = v /\ Pods[v] = None
        /\ Pods' = [Pods EXCEPT ![v] = v] /\ Shows' = Shows
    BY <1>1, <1>2, <1>5, <2>0, SeenMounts
  <2>2. Staging!Publish(v)
    BY <1>1, <2>1 DEF Staging!Publish, Formatted, Shows, Pods
  <2> QED
    BY <2>2 DEF Staging!Next
<1>6. CASE bound[v] # None /\ bound' = [bound EXCEPT ![v] = None]
  <2>0. \A u \in Volumes : bound'[u] = IF u = v THEN None ELSE bound[u]
    BY <1>6 DEF OwnInv, BaseInv, TypeInv, DeviceTypeOK
  <2>1. /\ Pods[v] = v
        /\ Pods' = [Pods EXCEPT ![v] = None] /\ Shows' = Shows
    BY <1>1, <1>6, <2>0, SeenMounts
  <2>2. Staging!Unpublish(v)
    BY <1>1, <2>1 DEF Staging!Unpublish, Formatted, Shows, Pods
  <2> QED
    BY <2>2 DEF Staging!Next
<1> QED
  BY <1>3, <1>4, <1>5, <1>6

LEMMA ExpandRefines ==
    ASSUME OwnInv, OwnInv', ShownOK, ShownOK', NEW v \in Volumes, NodeExpandVolume(v)
    PROVE  [Staging!Next]_(Staging!vars)
<1>1. /\ staged[v] # None /\ staged[v] = name[v] /\ v \in visible /\ fs[v] # 0
  BY DEF NodeExpandVolume, ExpandFilesystem, OwnInv, VolumeOK, MountOK
<1>2. DisksAt(staged[v]) = {v} /\ capacity[v] # 0
  BY <1>1, OwnDevice, DeviceAssumption DEF OwnInv, BaseInv, TypeInv, DeviceTypeOK
<1>3. fs' = [fs EXCEPT ![v] = capacity[v]] /\ UNCHANGED <<visible, staged, bound>>
  BY <1>2 DEF NodeExpandVolume, ExpandFilesystem, diskVars, fileVars
<1>4. Formatted' = Formatted
  BY <1>1, <1>2, <1>3 DEF Formatted, OwnInv, BaseInv, TypeInv, DeviceTypeOK
<1> QED
  BY <1>3, <1>4, HiddenStep

LEMMA RebootRefines ==
    ASSUME OwnInv, OwnInv', ShownOK', Reboot
    PROVE  [Staging!Next]_(Staging!vars)
<1>1. /\ Shows' = [v \in Volumes |-> None] /\ Pods' = [v \in Volumes |-> None]
      /\ Formatted' = Formatted /\ visible' \subseteq Volumes
  BY DEF Reboot, Boot, ShownOK, Shows, Pods, Formatted, Attached
<1>2. Staging!Reboot
  BY <1>1 DEF Staging!Reboot, Staging!Nothing, Shows, Pods, Formatted
<1> QED
  BY <1>2 DEF Staging!Next

\* The other steps: a device shows or goes, or nothing that NodeStaging sees.
LEMMA OtherRefines ==
    ASSUME OwnInv, OwnInv', ShownOK, ShownOK', NEW v \in Volumes, Call(v),
           ~FormatDevice(v), ~Mount(v), ~Unmount(v), ~Abort(v),
           ~NodePublishVolume(v), ~NodeUnpublishVolume(v), ~NodeExpandVolume(v)
    PROVE  [Staging!Next]_(Staging!vars)
<1>1. UNCHANGED <<staged, bound, fs>>
  BY DEF Call, Step, StageStep, UnstageStep, SearchStep, NodeStageVolume, NodeUnstageVolume,
         Begin, Rescan, RescanDevices, ListDevices, LookAtSize, LookAtMounts, Probe,
         DiscoverDevicePath, WaitForDevice, StageDevice, HasFilesystem, RecordStagedDevice,
         LookUpSource, StagedDevicePath, RemoveDevice, DeleteDevice, ForgetStagedDevice,
         CommandFails, Attach, AttachDisk, Detach, DetachDisk, Grow, GrowDisk, Notice,
         nodeVars, diskVars, fileVars
<1>2. CASE Rescan(v)
  BY <1>1, <1>2, DeviceStep DEF Rescan, RescanDevices
<1>3. CASE DeleteDevice(v)
  <2>1. /\ staged[v] = None /\ bound[v] = None /\ device[v] \in {None, Host, name[v]}
        /\ name[v] # None
    BY <1>3, StagingSteps DEF DeleteDevice, OwnInv, BaseInv, VolumeOK, PhaseOK, MountOK, StepOK
  <2>2. visible' = visible \/ visible' = visible \ {v}
    BY <1>3, <2>1, OwnDevice DEF DeleteDevice, OwnInv
  <2> QED
    BY <1>1, <2>1, <2>2, DeviceStep
<1>4. CASE Detach(v)
  <2>1. staged[v] = None /\ bound[v] = None /\ visible' = visible \ {v}
    BY <1>4 DEF Detach, DetachDisk, OwnInv, VolumeOK, MountOK
  <2> QED
    BY <1>1, <2>1, DeviceStep
<1>5. CASE ~Rescan(v) /\ ~DeleteDevice(v) /\ ~Detach(v)
  <2>1. visible' = visible
    BY <1>5
       DEF Call, Step, StageStep, UnstageStep, SearchStep, NodeStageVolume, NodeUnstageVolume,
           Begin, ListDevices, LookAtSize, LookAtMounts, Probe, DiscoverDevicePath,
           WaitForDevice, StageDevice, HasFilesystem, RecordStagedDevice, LookUpSource,
           StagedDevicePath, RemoveDevice, ForgetStagedDevice, CommandFails, Attach,
           AttachDisk, Grow, GrowDisk, Notice, nodeVars, diskVars
  <2> QED
    BY <1>1, <2>1, HiddenStep DEF Formatted
<1> QED
  BY <1>2, <1>3, <1>4, <1>5

LEMMA NextRefines ==
    OwnInv /\ OwnInv' /\ ShownOK /\ ShownOK' /\ [Next]_vars => [Staging!Next]_(Staging!vars)
<1> SUFFICES ASSUME OwnInv, OwnInv', ShownOK, ShownOK', [Next]_vars
             PROVE  [Staging!Next]_(Staging!vars)
  OBVIOUS
<1>1. CASE UNCHANGED vars
  <2>1. UNCHANGED <<visible, staged, bound, fs>>
    BY <1>1 DEF vars, nodeVars, diskVars, fileVars
  <2> QED
    BY <2>1, HiddenStep DEF Formatted
<1>2. CASE Next
  BY <1>2, FormatRefines, MountRefines, UnmountRefines, PublishRefines, ExpandRefines,
     RebootRefines, OtherRefines, NextIsCall
<1> QED
  BY <1>1, <1>2

\* When the volumes can be told apart, the node service implements NodeStaging:
\* whatever calls overlap, fail or are cut short, every step is one of the
\* steps a reader of README.md:35-40 would allow, or none.
THEOREM StagingRefined == ASSUME ToldApart PROVE Spec => ImplementsStaging
<1>1. Init => Staging!Init
  <2> SUFFICES ASSUME Init PROVE Staging!Init
    OBVIOUS
  <2>1. ShownOK
    BY InitOwn, OwnShown
  <2> QED
    BY <2>1 DEF Init, DeviceInit, Staging!Init, Staging!Nothing, ShownOK
<1>2. OwnInv /\ OwnInv' /\ [Next]_vars => [Staging!Next]_(Staging!vars)
  BY OwnShown, NextRefines, PTL
<1> QED
  BY <1>1, <1>2, OwnInvariant, PTL DEF Spec, ImplementsStaging, Staging!Spec
=============================================================================

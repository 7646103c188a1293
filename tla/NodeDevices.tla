---------------------------- MODULE NodeDevices ----------------------------
(***************************************************************************)
(* What internal/driver/node.go and mount_exec.go find on a worker: the    *)
(* disks of its VM, the block devices the kernel shows for them, mounts,   *)
(* and the files and directories of the driver; with the functions that    *)
(* only look at them. Every volume is a disk of its own; a name stands for *)
(* a block device and its link under /dev/disk/by-path.                    *)
(*                                                                         *)
(* A disk gets a free name when it is attached, which another disk may     *)
(* have had before. It shows when a rescan of the SCSI hosts finds it,     *)
(* which may take several, and again when a rescan follows its removal. It *)
(* keeps its name while it is attached, unless Renumbered.                 *)
(***************************************************************************)
EXTENDS Integers, FiniteSets

CONSTANTS
    Volumes,     \* volumes Kubernetes may use on this node
    Names,       \* block device names
    HintOf,      \* [Volumes -> GiB in the publish context, 0 if there is none]
    SizesOf,     \* [Volumes -> sizes the volume may have in its life, in GiB]
    Renumbered,  \* may disks get other names when the node boots?
    BlkidFails,  \* may blkid fail on a disk that has a filesystem?
    DirEntries,  \* are the entries of /sys/block directories, or symbolic links?
    None,
    Host         \* the filesystem the kubelet directory is on

ASSUME DeviceAssumption ==
    /\ HintOf \in [Volumes -> Nat]
    /\ SizesOf \in [Volumes -> SUBSET (Nat \ {0})]
    /\ {Renumbered, BlkidFails, DirEntries} \subseteq BOOLEAN
    /\ None \notin Volumes \cup Names
    /\ Host \notin Names \cup {None}

VARIABLES
    name,      \* the name the kernel has for an attached disk, else None
    visible,   \* the disks that have a block device
    size,      \* the size of each disk
    capacity,  \* /sys/block/<name>/size, in GiB: the size the kernel knows
    fs,        \* the size of the filesystem on each disk, 0: blank
    staged,    \* [Volumes -> name mounted at the staging path, or None]
    bound,     \* [Volumes -> what the pod's target path shows: name, Host, None]
    dirs,      \* volumes whose staging directory exists
    record,    \* [Volumes -> name in the staged-device metadata, or None]
    wiped      \* history: disks formatted although they had a filesystem

diskVars == <<name, visible, size, capacity>>
fileVars == <<staged, bound, dirs, record>>
nodeVars == <<diskVars, fileVars, fs, wiped>>

DeviceTypeOK ==
    /\ name \in [Volumes -> Names \cup {None}]
    /\ visible \subseteq Volumes
    /\ size \in [Volumes -> Nat] /\ capacity \in [Volumes -> Nat]
    /\ \A v \in Volumes : {size[v], capacity[v]} \subseteq SizesOf[v]
    /\ fs \in [Volumes -> Nat]
    /\ staged \in [Volumes -> Names \cup {None}]
    /\ bound \in [Volumes -> Names \cup {None, Host}]
    /\ dirs \subseteq Volumes
    /\ record \in [Volumes -> Names \cup {None}]
    /\ wiped \subseteq Volumes

\* No disk is attached and all are blank; the hint is the size at creation.
DeviceInit ==
    /\ name = [v \in Volumes |-> None]
    /\ visible = {}
    /\ size \in [Volumes -> UNION {SizesOf[v] : v \in Volumes}]
    /\ \A v \in Volumes : /\ size[v] \in SizesOf[v]
                          /\ HintOf[v] \in {0, size[v]}
    /\ capacity = size
    /\ fs = [v \in Volumes |-> 0]
    /\ staged = [v \in Volumes |-> None]
    /\ bound = [v \in Volumes |-> None]
    /\ dirs = {}
    /\ record = [v \in Volumes |-> None]
    /\ wiped = {}

-----------------------------------------------------------------------------
(* Looking.                                                                *)

Attached == {v \in Volumes : name[v] # None}

\* isMountedSource, isBlockDeviceMounted: a mount of the device is listed in
\* mountinfo, the bind mounts of pods included.
IsMounted(n) == \E v \in Volumes : staged[v] = n \/ bound[v] = n

\* The disks a device name reaches: at most one.
DisksAt(n) == {w \in visible : name[w] = n}

\* os.ReadDir of /sys/block, and IsDir of its entries: the names of the disks
\* that discovery looks at. A disk of Morpheus is neither partitioned nor
\* skipped by prefix.
Entries == IF DirEntries THEN {name[w] : w \in visible} ELSE {}

\* mutant: the size hint is not compared.
FitsAnySize(v, n) == TRUE

\* blockDeviceSizeGiB of n is the size v asks for, if it asks for one.
FitsHint(v, n) == HintOf[v] = 0 \/ \E w \in DisksAt(n) : capacity[w] = HintOf[v]

\* mutant: a disk is always blank.
AlwaysBlank(n) == {TRUE}

\* hasFilesystem: may n be taken for blank, and may it not? A blkid that exits
\* with an error counts as "no filesystem", and a device that is gone has none.
LooksBlank(n) ==
    IF \E w \in DisksAt(n) : fs[w] # 0 THEN {FALSE, BlkidFails} ELSE {TRUE}

\* mountedSource of the staging path. findmnt --target answers for any path that
\* exists, with the filesystem it is on.
MountedSource(v) ==
    IF staged[v] # None THEN staged[v] ELSE IF v \in dirs THEN Host ELSE None

-----------------------------------------------------------------------------
(* The kernel and the hypervisor.                                          *)

\* A name is free when no disk has it and nothing is mounted from it.
Free(n) == ~IsMounted(n) /\ \A w \in Volumes : name[w] # n

\* Names the attached disks may have after a boot.
Numberings ==
    {f \in [Volumes -> Names \cup {None}] :
        /\ \A v \in Volumes : f[v] = None <=> name[v] = None
        /\ \A v, w \in Attached : f[v] = f[w] => v = w
        /\ Renumbered \/ f = name}

\* rescanSCSIHosts: any of the attached disks without a device may get one.
RescanDevices ==
    /\ \E S \in SUBSET (Attached \ visible) :
        /\ visible' = visible \cup S
        /\ capacity' = [v \in Volumes |-> IF v \in S THEN size[v] ELSE capacity[v]]
    /\ UNCHANGED <<name, size, fileVars, fs, wiped>>

AttachDisk(v, n) ==
    /\ name[v] = None /\ Free(n)
    /\ name' = [name EXCEPT ![v] = n]
    /\ UNCHANGED <<visible, size, capacity, fileVars, fs, wiped>>

DetachDisk(v) ==
    /\ name' = [name EXCEPT ![v] = None]
    /\ visible' = visible \ {v}
    /\ UNCHANGED <<size, capacity, fileVars, fs, wiped>>

GrowDisk(v, s) ==
    /\ s \in SizesOf[v] /\ s > size[v]
    /\ size' = [size EXCEPT ![v] = s]
    /\ UNCHANGED <<name, visible, capacity, fileVars, fs, wiped>>

\* The kernel finds out that a disk it shows has grown.
Notice(v) ==
    /\ v \in visible /\ capacity[v] # size[v]
    /\ capacity' = [capacity EXCEPT ![v] = size[v]]
    /\ UNCHANGED <<name, visible, size, fileVars, fs, wiped>>

\* The node boots: mounts are gone, directories and records are not, and the
\* kernel finds every attached disk.
Boot ==
    /\ name' \in Numberings
    /\ visible' = Attached
    /\ capacity' = [v \in Volumes |-> IF v \in Attached THEN size[v] ELSE capacity[v]]
    /\ staged' = [v \in Volumes |-> None]
    /\ bound' = [v \in Volumes |-> None]
    /\ UNCHANGED <<size, dirs, record, fs, wiped>>
=============================================================================

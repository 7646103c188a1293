---------------------------- MODULE VolumeSizes ----------------------------
(***************************************************************************)
(* The sizes of a server's volumes on their way through the driver:        *)
(* requestedSizeGiB and ControllerExpandVolume (controller.go), the array  *)
(* that every resize of internal/morpheus/client.go sends back, with the   *)
(* size of each volume as storageSizeGiB reads it, and the size by which   *)
(* node.go recognises a disk. Calls on the server are one at a time, as    *)
(* the mutex of the client has it; their answers may be lost.              *)
(*                                                                         *)
(* Sizes are in bytes where the code has bytes. GiB is 2^30 in the code    *)
(* and small for TLC. Below 2^53 bytes the float64 of requestedSizeGiB is  *)
(* exact, and nothing here overflows an int64.                             *)
(***************************************************************************)
EXTENDS Integers

CONSTANTS
    Volumes,
    GiB,        \* bytes in a GiB
    FieldOf,    \* [Volumes -> the field that has the volume's size in a GET]
    RequestsOf  \* [Volumes -> the CapacityRanges Kubernetes may ask for]

ASSUME SizesAssumption ==
    /\ GiB \in Nat \ {0}
    /\ FieldOf \in [Volumes -> {"sizeGiB", "size", "maxStorage"}]
    /\ RequestsOf \in [Volumes -> SUBSET [required : Int, limit : Nat]]

VARIABLES
    disk,      \* the size of each volume in bytes, 0: no volume
    hint,      \* morpheus.sizeGiB of its PersistentVolume, 0: not created
    capacity,  \* the CapacityBytes last answered, 0: none
    asked,     \* the required bytes of the call that was answered, or of the
               \* CreateVolume that may have been cut short
    grown      \* volumes whose expansion was asked for

vars == <<disk, hint, capacity, asked, grown>>

\* The types of the sizes; a volume Kubernetes knows is there.
SizesTypeOK ==
    /\ disk \in [Volumes -> Nat]
    /\ hint \in [Volumes -> Nat]
    /\ capacity \in [Volumes -> Nat]
    /\ asked \in [Volumes -> Nat]
    /\ grown \subseteq {v \in Volumes : hint[v] # 0}
    /\ \A v \in Volumes : hint[v] # 0 => disk[v] # 0 /\ capacity[v] # 0

Init ==
    /\ disk = [v \in Volumes |-> 0]
    /\ hint = [v \in Volumes |-> 0]
    /\ capacity = [v \in Volumes |-> 0]
    /\ asked = [v \in Volumes |-> 0]
    /\ grown = {}

-----------------------------------------------------------------------------
(* Conversions.                                                            *)

CeilGiB(bytes) == (bytes + GiB - 1) \div GiB

\* mutant: bytes that do not fill a GiB are dropped.
RequestedSizeFloor(r) == r.required \div GiB

\* requestedSizeGiB, when it is no error: the limit bounds the bytes required,
\* not the GiB answered.
Valid(r) == r.required > 0 /\ (r.limit = 0 \/ r.required <= r.limit)
RequestedSizeGiB(r) == CeilGiB(r.required)

\* mutant: (value + bytesPerGiB) / bytesPerGiB.
StorageSizeOneMore(field, value) ==
    IF field = "sizeGiB" \/ value <= GiB THEN value ELSE (value + GiB) \div GiB

\* mutant: maxStorage is taken for GiB.
StorageSizeAsIs(field, value) == value

\* storageSizeGiB: a value above 2^30 is in bytes, unless its field says GiB.
StorageSizeGiB(field, value) ==
    IF field = "sizeGiB" \/ value <= GiB THEN value ELSE CeilGiB(value)

\* mutant: (bytes + gibibyte) / gibibyte.
BlockDeviceSizeOneMore(bytes) == (bytes + GiB) \div GiB

\* blockDeviceSizeGiB, of a disk of whole sectors.
BlockDeviceSizeGiB(bytes) == CeilGiB(bytes)

\* What a GET of the server says of v's size, and how parseVolume reads it.
Reported(v) == IF FieldOf[v] = "maxStorage" THEN disk[v] ELSE disk[v] \div GiB
SizeGiB(v)  == StorageSizeGiB(FieldOf[v], Reported(v))

-----------------------------------------------------------------------------
(* Calls.                                                                  *)

\* resizeServer: the array gives v n GiB, or leaves v out, and every other
\* volume the size it was read with. The appliance does what it is told.
Resize(v, n) ==
    disk' = [w \in Volumes |-> IF w = v THEN n * GiB ELSE SizeGiB(w) * GiB]

\* CreateVolume with EnsureVolume. The provisioner repeats the same request
\* until it gets an answer.
CreateVolume(v, r) ==
    LET n == RequestedSizeGiB(r) IN
    /\ hint[v] = 0 /\ asked[v] \in {0, r.required}
    /\ Valid(r)
    /\ IF disk[v] # 0 /\ SizeGiB(v) >= n THEN UNCHANGED disk ELSE Resize(v, n)
    /\ asked' = [asked EXCEPT ![v] = r.required]
    /\ \/ /\ hint' = [hint EXCEPT ![v] = n]
          /\ capacity' = [capacity EXCEPT ![v] = n * GiB]
       \/ UNCHANGED <<hint, capacity>>
    /\ UNCHANGED grown

\* ControllerExpandVolume with ExpandVolume, which refuses to shrink and
\* answers the size it reads.
ControllerExpandVolume(v, r) ==
    LET n == RequestedSizeGiB(r) IN
    /\ hint[v] # 0 /\ r.required > asked[v]
    /\ Valid(r)
    /\ SizeGiB(v) <= n
    /\ IF SizeGiB(v) = n THEN UNCHANGED disk ELSE Resize(v, n)
    /\ \/ /\ capacity' = [capacity EXCEPT ![v] = SizeGiB(v)' * GiB]
          /\ asked' = [asked EXCEPT ![v] = r.required]
       \/ UNCHANGED <<capacity, asked>>
    /\ grown' = grown \cup {v}
    /\ UNCHANGED hint

\* mutant: the PersistentVolume outlives the volume.
DeleteVolumeOnly(v) ==
    /\ disk[v] # 0
    /\ Resize(v, 0)
    /\ UNCHANGED <<hint, capacity, asked, grown>>

\* DeleteVolume, after which Kubernetes knows nothing of v.
DeleteVolume(v) ==
    /\ disk[v] # 0
    /\ Resize(v, 0)
    /\ hint' = [hint EXCEPT ![v] = 0]
    /\ capacity' = [capacity EXCEPT ![v] = 0]
    /\ asked' = [asked EXCEPT ![v] = 0]
    /\ grown' = grown \ {v}

Next ==
    \E v \in Volumes :
        \/ \E r \in RequestsOf[v] : CreateVolume(v, r) \/ ControllerExpandVolume(v, r)
        \/ DeleteVolume(v)

Spec == Init /\ [][Next]_vars

-----------------------------------------------------------------------------
(* Properties.                                                             *)

\* What CreateVolume and ControllerExpandVolume answer is there, in bytes.
CapacityIsThere == \A v \in Volumes : capacity[v] <= disk[v]

\* It is what was asked for, rounded up by less than a GiB.
AskedIsCovered ==
    \A v \in Volumes : hint[v] # 0 =>
        asked[v] <= capacity[v] /\ capacity[v] < asked[v] + GiB

\* README.md:19-20: a resize for one volume preserves the other disks, whatever
\* field their size is reported in; no volume ever shrinks.
SizesAreKept ==
    [][/\ \A v, w \in Volumes : disk'[v] # disk[v] /\ disk'[w] # disk[w] => v = w
       /\ \A v \in Volumes : disk'[v] # 0 => disk'[v] >= disk[v]]_vars

\* README.md:35-40: until its volume is expanded, the size in a PersistentVolume
\* is the size the node finds on the volume's disk.
HintFindsDisk ==
    \A v \in Volumes \ grown :
        hint[v] # 0 => BlockDeviceSizeGiB(disk[v]) = hint[v]
=============================================================================

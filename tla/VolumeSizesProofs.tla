-------------------------- MODULE VolumeSizesProofs --------------------------
(***************************************************************************)
(* Proofs about VolumeSizes, for any GiB and any requests that the sizes   *)
(* reported by Morpheus can be told apart for: what Kubernetes is told is  *)
(* there, and a resize of one volume leaves the others as they are.        *)
(***************************************************************************)
EXTENDS VolumeSizes, TLAPS

-----------------------------------------------------------------------------
(* Rounding.                                                               *)

LEMMA DivGiB ==
    ASSUME NEW n \in Nat
    PROVE  n \div GiB \in Nat /\ GiB * (n \div GiB) <= n /\ n < GiB * (n \div GiB) + GiB
BY SizesAssumption

LEMMA Monotone ==
    ASSUME NEW a \in Nat, NEW b \in Nat, a < b
    PROVE  a * GiB + GiB <= b * GiB
BY SizesAssumption

\* Rounding up covers the bytes and adds less than a GiB.
LEMMA CeilCovers ==
    ASSUME NEW n \in Nat
    PROVE  CeilGiB(n) \in Nat /\ n <= CeilGiB(n) * GiB /\ CeilGiB(n) * GiB < n + GiB
<1> DEFINE m == n + GiB - 1
<1>1. m \in Nat
  BY SizesAssumption
<1>2. m \div GiB \in Nat /\ GiB * (m \div GiB) <= m /\ m < GiB * (m \div GiB) + GiB
  BY <1>1, DivGiB
<1> QED
  BY <1>2, SizesAssumption DEF CeilGiB

\* Whole GiB are not changed.
LEMMA CeilExact ==
    ASSUME NEW k \in Nat
    PROVE  CeilGiB(k * GiB) = k
<1>1. k * GiB \in Nat
  BY SizesAssumption
<1>2. /\ CeilGiB(k * GiB) \in Nat
      /\ k * GiB <= CeilGiB(k * GiB) * GiB
      /\ CeilGiB(k * GiB) * GiB < k * GiB + GiB
  BY <1>1, CeilCovers
<1>3. CASE CeilGiB(k * GiB) < k
  BY <1>1, <1>2, <1>3, Monotone, SizesAssumption
<1>4. CASE k < CeilGiB(k * GiB)
  BY <1>1, <1>2, <1>4, Monotone, SizesAssumption
<1> QED
  BY <1>2, <1>3, <1>4

LEMMA DivExact ==
    ASSUME NEW k \in Nat
    PROVE  (k * GiB) \div GiB = k
<1>1. k * GiB \in Nat
  BY SizesAssumption
<1>2. /\ (k * GiB) \div GiB \in Nat
      /\ ((k * GiB) \div GiB) * GiB <= k * GiB
      /\ k * GiB < ((k * GiB) \div GiB) * GiB + GiB
  BY <1>1, DivGiB, SizesAssumption
<1>3. CASE (k * GiB) \div GiB < k
  BY <1>1, <1>2, <1>3, Monotone, SizesAssumption
<1>4. CASE k < (k * GiB) \div GiB
  BY <1>1, <1>2, <1>4, Monotone, SizesAssumption
<1> QED
  BY <1>2, <1>3, <1>4

-----------------------------------------------------------------------------
(* Sizes that are read as they were written.                               *)

\* A volume that is reported in bytes has more than one GiB; one that is
\* reported in GiB in the same field has at most 2^30 of them.
ToldInOneUnit ==
    \A v \in Volumes : \A r \in RequestsOf[v] :
        /\ FieldOf[v] = "maxStorage" => r.required > GiB
        /\ FieldOf[v] = "size" => r.required <= GiB * GiB

\* A size n that is read back as n.
Plain(v, n) ==
    /\ n \in Nat
    /\ FieldOf[v] = "maxStorage" => n # 1
    /\ FieldOf[v] = "size" => n <= GiB

\* What a GET reports of a disk of so many bytes.
ReportOf(v, bytes) == IF FieldOf[v] = "maxStorage" THEN bytes ELSE bytes \div GiB

LEMMA ReadBack ==
    ASSUME NEW v \in Volumes, NEW n, Plain(v, n)
    PROVE  StorageSizeGiB(FieldOf[v], ReportOf(v, n * GiB)) = n
<1> USE SizesAssumption DEF Plain
<1>1. CASE FieldOf[v] = "maxStorage"
  <2>1. CeilGiB(n * GiB) = n
    BY CeilExact
  <2>2. n > 1 => n * GiB > GiB
    BY Monotone
  <2> QED
    BY <1>1, <2>1, <2>2 DEF ReportOf, StorageSizeGiB
<1>2. CASE FieldOf[v] \in {"size", "sizeGiB"}
  BY <1>2, DivExact DEF ReportOf, StorageSizeGiB
<1> QED
  BY <1>1, <1>2

LEMMA RequestIsPlain ==
    ASSUME ToldInOneUnit, NEW v \in Volumes, NEW r \in RequestsOf[v], Valid(r)
    PROVE  /\ Plain(v, RequestedSizeGiB(r)) /\ RequestedSizeGiB(r) # 0
           /\ r.required <= RequestedSizeGiB(r) * GiB
           /\ RequestedSizeGiB(r) * GiB < r.required + GiB
<1> USE SizesAssumption
<1> DEFINE n == RequestedSizeGiB(r)
<1>1. r.required \in Nat /\ r.required > 0
  BY DEF Valid
<1>2. n \in Nat /\ r.required <= n * GiB /\ n * GiB < r.required + GiB
  BY <1>1, CeilCovers DEF RequestedSizeGiB
<1>3. n # 0
  BY <1>1, <1>2
<1>4. FieldOf[v] = "maxStorage" => n # 1
  BY <1>1, <1>2 DEF ToldInOneUnit
<1>5. FieldOf[v] = "size" => n <= GiB
  <2>1. GiB < n => GiB * GiB + GiB <= n * GiB
    BY <1>2, Monotone
  <2> QED
    BY <1>1, <1>2, <2>1 DEF ToldInOneUnit
<1> QED
  BY <1>2, <1>3, <1>4, <1>5 DEF Plain

-----------------------------------------------------------------------------
(* The invariant: every disk has the size that is read of it, a volume that *)
(* is not known yet the size of the request under way, and a known one the *)
(* size of its hint, until it is expanded.                                 *)

VolumeInv(v) ==
    /\ Plain(v, SizeGiB(v)) /\ disk[v] = SizeGiB(v) * GiB
    /\ hint[v] = 0 /\ disk[v] # 0 => disk[v] = CeilGiB(asked[v]) * GiB
    /\ hint[v] = 0 => capacity[v] = 0
    /\ hint[v] # 0 /\ v \notin grown => disk[v] = hint[v] * GiB
    /\ hint[v] # 0 => asked[v] <= capacity[v] /\ capacity[v] < asked[v] + GiB
    /\ capacity[v] <= disk[v]

SizesInv == SizesTypeOK /\ \A v \in Volumes : VolumeInv(v)

LEMMA InitSizes == Init => SizesInv
<1> SUFFICES ASSUME Init PROVE SizesInv
  OBVIOUS
<1>1. SizesTypeOK
  BY DEF Init, SizesTypeOK
<1>2. ASSUME NEW v \in Volumes PROVE VolumeInv(v)
  <2>1. Plain(v, 0) /\ disk[v] = 0 /\ 0 * GiB = 0
    BY SizesAssumption DEF Init, Plain
  <2>2. SizeGiB(v) = 0
    BY <2>1, ReadBack DEF SizeGiB, Reported, ReportOf
  <2> QED
    BY <2>1, <2>2 DEF Init, VolumeInv
<1> QED
  BY <1>1, <1>2 DEF SizesInv

\* A resize for v changes v only.
LEMMA ResizeKeeps ==
    ASSUME SizesInv, NEW v \in Volumes, NEW n, Plain(v, n), Resize(v, n)
    PROVE  /\ disk' = [disk EXCEPT ![v] = n * GiB]
           /\ SizeGiB(v)' = n
           /\ \A w \in Volumes \ {v} : SizeGiB(w)' = SizeGiB(w)
<1>1. disk' = [disk EXCEPT ![v] = n * GiB]
  BY DEF Resize, SizesInv, VolumeInv, SizesTypeOK
<1>2. disk'[v] = n * GiB
  BY <1>1 DEF SizesInv, SizesTypeOK
<1>3. SizeGiB(v)' = n
  BY <1>2, ReadBack DEF SizeGiB, Reported, ReportOf
<1> QED
  BY <1>1, <1>3 DEF SizeGiB, Reported, SizesInv, SizesTypeOK

LEMMA SameDisks == UNCHANGED disk => \A v \in Volumes : SizeGiB(v)' = SizeGiB(v)
BY DEF SizeGiB, Reported

\* A step of v's keeps the invariant of the other volumes.
LEMMA OthersKeep ==
    ASSUME NEW v \in Volumes, NEW w \in Volumes \ {v}, VolumeInv(w),
           SizeGiB(w)' = SizeGiB(w), disk'[w] = disk[w], hint'[w] = hint[w],
           capacity'[w] = capacity[w], asked'[w] = asked[w], w \in grown' <=> w \in grown
    PROVE  VolumeInv(w)'
BY DEF VolumeInv

LEMMA CreateSizes ==
    ASSUME SizesInv, ToldInOneUnit, NEW v \in Volumes, NEW r \in RequestsOf[v],
           CreateVolume(v, r)
    PROVE  /\ SizesInv'
           /\ disk' = disk \/ disk' = [disk EXCEPT ![v] = RequestedSizeGiB(r) * GiB]
           /\ disk'[v] >= disk[v]
<1> DEFINE n == RequestedSizeGiB(r)
<1> USE SizesAssumption
<1>1. /\ Plain(v, n) /\ n # 0 /\ n \in Nat
      /\ r.required <= n * GiB /\ n * GiB < r.required + GiB
      /\ r.required \in Nat
  BY RequestIsPlain DEF CreateVolume, Valid, Plain
<1>2. disk' = [disk EXCEPT ![v] = n * GiB] /\ SizeGiB(v)' = n
      /\ (\A w \in Volumes \ {v} : SizeGiB(w)' = SizeGiB(w))
      /\ disk[v] <= n * GiB
  <2>1. CASE disk[v] # 0
    <3>1. disk[v] = n * GiB
      <4>1. asked[v] = 0 => CeilGiB(asked[v]) = 0
        BY CeilExact
      <4> QED
        BY <2>1, <4>1 DEF CreateVolume, SizesInv, VolumeInv, RequestedSizeGiB
    <3>2. SizeGiB(v) = n
      BY <1>1, <3>1, ReadBack DEF SizeGiB, Reported, ReportOf
    <3>3. UNCHANGED disk
      BY <1>1, <2>1, <3>2 DEF CreateVolume
    <3> QED
      BY <1>1, <3>1, <3>2, <3>3, SameDisks DEF SizesInv, SizesTypeOK
  <2>2. CASE disk[v] = 0
    <3>1. Resize(v, n)
      BY <2>2 DEF CreateVolume
    <3> QED
      BY <1>1, <2>2, <3>1, ResizeKeeps
  <2> QED
    BY <2>1, <2>2
<1>3. n * GiB \in Nat /\ n * GiB # 0
  BY <1>1
<1>4. SizesTypeOK'
  <2>1. disk' \in [Volumes -> Nat] /\ disk'[v] # 0 /\ hint[v] = 0 /\ grown' = grown
    BY <1>2, <1>3 DEF CreateVolume, SizesInv, SizesTypeOK
  <2>2. CASE /\ hint' = [hint EXCEPT ![v] = n] /\ capacity' = [capacity EXCEPT ![v] = n * GiB]
    BY <1>1, <1>2, <1>3, <2>1, <2>2 DEF CreateVolume, SizesInv, SizesTypeOK
  <2>3. CASE UNCHANGED <<hint, capacity>>
    BY <1>1, <1>2, <2>1, <2>3 DEF CreateVolume, SizesInv, SizesTypeOK
  <2> QED
    BY <2>2, <2>3 DEF CreateVolume
<1>5. VolumeInv(v)'
  <2>1. /\ disk'[v] = n * GiB /\ asked'[v] = r.required /\ v \notin grown'
        /\ \/ hint'[v] = n /\ capacity'[v] = n * GiB
           \/ hint'[v] = 0 /\ capacity'[v] = 0
    BY <1>2 DEF CreateVolume, SizesInv, VolumeInv, SizesTypeOK
  <2> QED
    BY <1>1, <1>2, <1>3, <2>1 DEF VolumeInv, RequestedSizeGiB
<1>6. ASSUME NEW w \in Volumes \ {v} PROVE VolumeInv(w)'
  <2>1. /\ SizeGiB(w)' = SizeGiB(w) /\ disk'[w] = disk[w] /\ hint'[w] = hint[w]
        /\ capacity'[w] = capacity[w] /\ asked'[w] = asked[w] /\ grown' = grown
    BY <1>2, <1>6 DEF CreateVolume, SizesInv, SizesTypeOK
  <2> QED
    BY <2>1, OthersKeep DEF SizesInv
<1>7. disk'[v] >= disk[v]
  BY <1>2, <1>3 DEF SizesInv, SizesTypeOK
<1> QED
  BY <1>2, <1>4, <1>5, <1>6, <1>7 DEF SizesInv

LEMMA ExpandSizes ==
    ASSUME SizesInv, ToldInOneUnit, NEW v \in Volumes, NEW r \in RequestsOf[v],
           ControllerExpandVolume(v, r)
    PROVE  /\ SizesInv'
           /\ disk' = disk \/ disk' = [disk EXCEPT ![v] = RequestedSizeGiB(r) * GiB]
           /\ disk'[v] >= disk[v]
<1> DEFINE n == RequestedSizeGiB(r)
<1> USE SizesAssumption
<1>1. /\ Plain(v, n) /\ n # 0 /\ n \in Nat
      /\ r.required <= n * GiB /\ n * GiB < r.required + GiB
      /\ r.required \in Nat
  BY RequestIsPlain DEF ControllerExpandVolume, Valid, Plain
<1>2. /\ SizeGiB(v) \in Nat /\ disk[v] = SizeGiB(v) * GiB /\ SizeGiB(v) <= n
      /\ hint[v] # 0
  BY DEF SizesInv, VolumeInv, Plain, ControllerExpandVolume
<1>3. /\ disk' = [disk EXCEPT ![v] = n * GiB] /\ SizeGiB(v)' = n
      /\ \A w \in Volumes \ {v} : SizeGiB(w)' = SizeGiB(w)
  <2>1. CASE SizeGiB(v) = n
    <3>1. UNCHANGED disk
      BY <2>1 DEF ControllerExpandVolume
    <3> QED
      BY <1>2, <2>1, <3>1, SameDisks DEF SizesInv, SizesTypeOK
  <2>2. CASE SizeGiB(v) # n
    <3>1. Resize(v, n)
      BY <2>2 DEF ControllerExpandVolume
    <3> QED
      BY <1>1, <3>1, ResizeKeeps
  <2> QED
    BY <2>1, <2>2
<1>4. /\ n * GiB \in Nat /\ n * GiB # 0 /\ disk[v] <= n * GiB
  <2>1. SizeGiB(v) < n => SizeGiB(v) * GiB + GiB <= n * GiB
    BY <1>1, <1>2, Monotone
  <2> QED
    BY <1>1, <1>2, <2>1
<1>5. disk'[v] = n * GiB
  BY <1>3 DEF SizesInv, SizesTypeOK
<1>6. /\ UNCHANGED hint /\ grown' = grown \cup {v}
      /\ \/ /\ capacity' = [capacity EXCEPT ![v] = n * GiB]
            /\ asked' = [asked EXCEPT ![v] = r.required]
         \/ UNCHANGED <<capacity, asked>>
  BY <1>3 DEF ControllerExpandVolume
<1>7. SizesTypeOK'
  BY <1>1, <1>2, <1>3, <1>4, <1>6 DEF SizesInv, SizesTypeOK
<1>8. VolumeInv(v)'
  <2>1. \/ capacity'[v] = n * GiB /\ asked'[v] = r.required
        \/ capacity'[v] = capacity[v] /\ asked'[v] = asked[v]
    BY <1>6 DEF SizesInv, SizesTypeOK
  <2>2. capacity[v] \in Nat /\ disk[v] \in Nat
    BY DEF SizesInv, SizesTypeOK
  <2> QED
    BY <1>1, <1>2, <1>3, <1>4, <1>5, <1>6, <2>1, <2>2 DEF SizesInv, VolumeInv
<1>9. ASSUME NEW w \in Volumes \ {v} PROVE VolumeInv(w)'
  <2>1. /\ SizeGiB(w)' = SizeGiB(w) /\ disk'[w] = disk[w] /\ hint'[w] = hint[w]
        /\ capacity'[w] = capacity[w] /\ asked'[w] = asked[w]
        /\ w \in grown' <=> w \in grown
    BY <1>3, <1>6, <1>9 DEF SizesInv, SizesTypeOK
  <2> QED
    BY <2>1, OthersKeep DEF SizesInv
<1> QED
  BY <1>3, <1>4, <1>5, <1>7, <1>8, <1>9 DEF SizesInv, SizesTypeOK

LEMMA DeleteSizes ==
    ASSUME SizesInv, NEW v \in Volumes, DeleteVolume(v)
    PROVE  SizesInv' /\ disk' = [disk EXCEPT ![v] = 0]
<1> USE SizesAssumption
<1>1. Plain(v, 0) /\ 0 * GiB = 0
  BY DEF Plain
<1>2. /\ disk' = [disk EXCEPT ![v] = 0] /\ SizeGiB(v)' = 0
      /\ \A w \in Volumes \ {v} : SizeGiB(w)' = SizeGiB(w)
  BY <1>1, ResizeKeeps DEF DeleteVolume
<1>3. SizesTypeOK'
  BY <1>2 DEF DeleteVolume, SizesInv, SizesTypeOK
<1>4. VolumeInv(v)'
  BY <1>1, <1>2 DEF DeleteVolume, SizesInv, SizesTypeOK, VolumeInv
<1>5. ASSUME NEW w \in Volumes \ {v} PROVE VolumeInv(w)'
  <2>1. /\ SizeGiB(w)' = SizeGiB(w) /\ disk'[w] = disk[w] /\ hint'[w] = hint[w]
        /\ capacity'[w] = capacity[w] /\ asked'[w] = asked[w]
        /\ w \in grown' <=> w \in grown
    BY <1>2, <1>5 DEF DeleteVolume, SizesInv, SizesTypeOK
  <2> QED
    BY <2>1, OthersKeep DEF SizesInv
<1> QED
  BY <1>2, <1>3, <1>4, <1>5 DEF SizesInv

\* The step of SizesAreKept.
KeepsSizes ==
    /\ \A v, w \in Volumes : disk'[v] # disk[v] /\ disk'[w] # disk[w] => v = w
    /\ \A v \in Volumes : disk'[v] # 0 => disk'[v] >= disk[v]

LEMMA NextSizes ==
    ASSUME ToldInOneUnit
    PROVE  SizesInv /\ [Next]_vars => SizesInv' /\ [KeepsSizes]_vars
<1> SUFFICES ASSUME SizesInv, [Next]_vars PROVE SizesInv' /\ [KeepsSizes]_vars
  OBVIOUS
<1>1. CASE UNCHANGED vars
  BY <1>1, SameDisks DEF vars, SizesInv, SizesTypeOK, VolumeInv
<1>2. CASE Next
  <2>1. PICK v \in Volumes :
            \/ \E r \in RequestsOf[v] : CreateVolume(v, r) \/ ControllerExpandVolume(v, r)
            \/ DeleteVolume(v)
    BY <1>2 DEF Next
  <2>2. /\ SizesInv'
        /\ \E m : disk' = disk \/ disk' = [disk EXCEPT ![v] = m]
        /\ disk'[v] # 0 => disk'[v] >= disk[v]
    <3>1. CASE DeleteVolume(v)
      BY <3>1, DeleteSizes DEF SizesInv, SizesTypeOK
    <3>2. CASE \E r \in RequestsOf[v] : CreateVolume(v, r) \/ ControllerExpandVolume(v, r)
      BY <3>2, CreateSizes, ExpandSizes
    <3> QED
      BY <2>1, <3>1, <3>2
  <2>3. KeepsSizes
    BY <2>2 DEF KeepsSizes, SizesInv, SizesTypeOK
  <2> QED
    BY <2>2, <2>3
<1> QED
  BY <1>1, <1>2

LEMMA SizesInvariant == ASSUME ToldInOneUnit PROVE Spec => []SizesInv
<1>1. SizesInv /\ [Next]_vars => SizesInv'
  BY NextSizes
<1> QED
  BY <1>1, InitSizes, PTL DEF Spec

\* controller.go:65-72 and 186-189: Kubernetes is never told a capacity that
\* is not there, whichever answers are lost.
THEOREM CapacityIsThereCorrect == ASSUME ToldInOneUnit PROVE Spec => []CapacityIsThere
<1>1. SizesInv => CapacityIsThere
  BY DEF SizesInv, VolumeInv, CapacityIsThere
<1> QED
  BY <1>1, SizesInvariant, PTL

\* controller.go:268-281: and it covers what was asked for, by less than a GiB.
THEOREM AskedIsCoveredCorrect == ASSUME ToldInOneUnit PROVE Spec => []AskedIsCovered
<1>1. SizesInv => AskedIsCovered
  BY DEF SizesInv, VolumeInv, AskedIsCovered
<1> QED
  BY <1>1, SizesInvariant, PTL

\* node.go:625-636: the node recognises the disk of a volume that was not
\* expanded by the size in its PersistentVolume.
THEOREM HintFindsDiskCorrect == ASSUME ToldInOneUnit PROVE Spec => []HintFindsDisk
<1>1. SizesInv => HintFindsDisk
  BY CeilExact DEF SizesInv, SizesTypeOK, VolumeInv, HintFindsDisk, BlockDeviceSizeGiB
<1> QED
  BY <1>1, SizesInvariant, PTL

\* client.go:504-530: a resize sends every other volume back with its own size,
\* unless the volume has one GiB and is reported in bytes.
THEOREM SizesAreKeptCorrect == ASSUME ToldInOneUnit PROVE Spec => SizesAreKept
<1>1. SizesInv /\ [Next]_vars => [KeepsSizes]_vars
  BY NextSizes
<1>2. SizesAreKept <=> [][KeepsSizes]_vars
  BY DEF SizesAreKept, KeepsSizes
<1> QED
  BY <1>1, <1>2, SizesInvariant, PTL DEF Spec

-----------------------------------------------------------------------------
(* Types, whatever unit the sizes are told in: a size that storageSizeGiB  *)
(* misreads is never read as none.                                         *)

\* A disk that is there has a GiB at least.
DisksAreWhole == \A v \in Volumes : disk[v] = 0 \/ disk[v] >= GiB

TypedSizes == SizesTypeOK /\ DisksAreWhole

\* Rounding up leaves something of something.
LEMMA CeilPositive ==
    ASSUME NEW n \in Nat, n > 0
    PROVE  CeilGiB(n) \in Nat /\ CeilGiB(n) > 0
<1>1. CeilGiB(n) \in Nat /\ n <= CeilGiB(n) * GiB
  BY CeilCovers
<1> QED
  BY <1>1, SizesAssumption

LEMMA GiBAtLeast ==
    ASSUME NEW n \in Nat, n > 0
    PROVE  n * GiB \in Nat /\ n * GiB >= GiB /\ n * GiB # 0
<1>1. 0 * GiB + GiB <= n * GiB
  BY Monotone
<1> QED
  BY <1>1, SizesAssumption

LEMMA SizeIsRead ==
    ASSUME NEW v \in Volumes, NEW bytes \in Nat, bytes = 0 \/ bytes >= GiB
    PROVE  LET n == StorageSizeGiB(FieldOf[v], ReportOf(v, bytes))
           IN  n \in Nat /\ (n = 0 <=> bytes = 0)
<1> USE SizesAssumption
<1> DEFINE q == bytes \div GiB
<1>1. q \in Nat /\ bytes < GiB * q + GiB
  BY DivGiB
<1>2. bytes = 0 => q = 0
  BY DivExact
<1> HIDE DEF q
<1>3. q = 0 => bytes = 0
  <2>1. q = 0 => GiB * q + GiB = GiB
    OBVIOUS
  <2> QED
    BY <1>1, <2>1
<1>4. ReportOf(v, bytes) \in Nat /\ (ReportOf(v, bytes) = 0 <=> bytes = 0)
  BY <1>1, <1>2, <1>3 DEF ReportOf, q
<1> QED
  BY <1>4, CeilPositive DEF StorageSizeGiB

\* A resize keeps every disk, and gives v what it says.
LEMMA ResizeTyped ==
    ASSUME TypedSizes, NEW v \in Volumes, NEW n \in Nat, Resize(v, n)
    PROVE  /\ disk' \in [Volumes -> Nat] /\ DisksAreWhole'
           /\ disk'[v] = n * GiB
           /\ \A w \in Volumes \ {v} : disk'[w] = 0 <=> disk[w] = 0
<1>1. ASSUME NEW w \in Volumes, NEW k \in Nat
      PROVE  k * GiB \in Nat /\ (k * GiB = 0 \/ k * GiB >= GiB) /\ (k * GiB = 0 <=> k = 0)
  BY GiBAtLeast, SizesAssumption
<1>2. \A w \in Volumes : SizeGiB(w) \in Nat /\ (SizeGiB(w) = 0 <=> disk[w] = 0)
  BY SizeIsRead
  DEF TypedSizes, SizesTypeOK, DisksAreWhole, SizeGiB, Reported, ReportOf
<1>3. \A w \in Volumes : disk'[w] = IF w = v THEN n * GiB ELSE SizeGiB(w) * GiB
  BY DEF Resize
<1> QED
  BY <1>1, <1>2, <1>3 DEF Resize, DisksAreWhole

LEMMA ValidTyped ==
    ASSUME NEW v \in Volumes, NEW r \in RequestsOf[v], Valid(r)
    PROVE  /\ r.required \in Nat
           /\ RequestedSizeGiB(r) \in Nat /\ RequestedSizeGiB(r) > 0
<1>1. r.required \in Nat /\ r.required > 0
  BY SizesAssumption DEF Valid
<1> QED
  BY <1>1, CeilPositive DEF RequestedSizeGiB

LEMMA NextTypedSizes == TypedSizes /\ [Next]_vars => TypedSizes'
<1> SUFFICES ASSUME TypedSizes, [Next]_vars PROVE TypedSizes'
  OBVIOUS
<1> USE DEF TypedSizes, SizesTypeOK
<1>1. CASE UNCHANGED vars
  BY <1>1 DEF vars, DisksAreWhole
<1>2. ASSUME NEW v \in Volumes, NEW r \in RequestsOf[v], CreateVolume(v, r)
      PROVE  TypedSizes'
  <2> DEFINE n == RequestedSizeGiB(r)
  <2>1. r.required \in Nat /\ n \in Nat /\ n > 0 /\ n * GiB \in Nat /\ n * GiB # 0
    BY <1>2, ValidTyped, GiBAtLeast DEF CreateVolume
  <2> HIDE DEF n
  <2>2. (disk[v] # 0 /\ UNCHANGED disk) \/ Resize(v, n)
    BY <1>2 DEF CreateVolume, n
  <2>3. /\ disk' \in [Volumes -> Nat] /\ DisksAreWhole' /\ disk'[v] # 0
        /\ \A w \in Volumes \ {v} : disk'[w] = 0 <=> disk[w] = 0
    BY <2>1, <2>2, ResizeTyped DEF DisksAreWhole
  <2>4. /\ asked' = [asked EXCEPT ![v] = r.required]
        /\ UNCHANGED grown
        /\ \/ /\ hint' = [hint EXCEPT ![v] = n]
              /\ capacity' = [capacity EXCEPT ![v] = n * GiB]
           \/ UNCHANGED <<hint, capacity>>
    BY <1>2 DEF CreateVolume, n
  <2> QED
    BY <2>1, <2>3, <2>4
<1>3. ASSUME NEW v \in Volumes, NEW r \in RequestsOf[v], ControllerExpandVolume(v, r)
      PROVE  TypedSizes'
  <2> DEFINE n == RequestedSizeGiB(r)
  <2>1. r.required \in Nat /\ n \in Nat /\ n > 0 /\ n * GiB # 0
    BY <1>3, ValidTyped, GiBAtLeast DEF ControllerExpandVolume
  <2> HIDE DEF n
  <2>2. hint[v] # 0 /\ (UNCHANGED disk \/ Resize(v, n))
    BY <1>3 DEF ControllerExpandVolume, n
  <2>3. /\ disk' \in [Volumes -> Nat] /\ DisksAreWhole' /\ disk'[v] # 0
        /\ \A w \in Volumes \ {v} : disk'[w] = 0 <=> disk[w] = 0
    BY <2>1, <2>2, ResizeTyped DEF DisksAreWhole
  <2>4. SizeGiB(v)' \in Nat /\ SizeGiB(v)' # 0
    BY <2>3, SizeIsRead DEF DisksAreWhole, SizeGiB, Reported, ReportOf
  <2>5. SizeGiB(v)' * GiB \in Nat /\ SizeGiB(v)' * GiB # 0
    BY <2>4, GiBAtLeast
  <2>6. /\ UNCHANGED hint /\ grown' = grown \cup {v}
        /\ \/ /\ capacity' = [capacity EXCEPT ![v] = SizeGiB(v)' * GiB]
              /\ asked' = [asked EXCEPT ![v] = r.required]
           \/ UNCHANGED <<capacity, asked>>
    BY <1>3 DEF ControllerExpandVolume
  <2> QED
    BY <2>1, <2>2, <2>3, <2>5, <2>6
<1>4. ASSUME NEW v \in Volumes, DeleteVolume(v)
      PROVE  TypedSizes'
  <2>1. /\ disk' \in [Volumes -> Nat] /\ DisksAreWhole'
        /\ \A w \in Volumes \ {v} : disk'[w] = 0 <=> disk[w] = 0
    BY <1>4, ResizeTyped DEF DeleteVolume
  <2> QED
    BY <1>4, <2>1 DEF DeleteVolume
<1> QED
  BY <1>1, <1>2, <1>3, <1>4 DEF Next

\* A volume Kubernetes knows keeps a disk and a capacity, whatever is resized
\* around it and in whatever unit its size is reported: no array sends it back
\* with the size 0.
THEOREM SizesTypeCorrect == Spec => []SizesTypeOK
<1>1. Init => TypedSizes
  BY DEF Init, TypedSizes, SizesTypeOK, DisksAreWhole
<1>2. TypedSizes => SizesTypeOK
  BY DEF TypedSizes
<1> QED
  BY <1>1, <1>2, NextTypedSizes, PTL DEF Spec
=============================================================================

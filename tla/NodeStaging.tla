---------------------------- MODULE NodeStaging ----------------------------
(***************************************************************************)
(* What the node service promises: a volume's staging path shows nothing   *)
(* or the volume's own disk, pods see what the staging path shows, a disk  *)
(* is formatted once and never under a mount, and a disk does not go away  *)
(* under a mount while the node is up.                                     *)
(***************************************************************************)
CONSTANTS Volumes, None

VARIABLES
    present,    \* disks with a block device
    formatted,  \* disks with a filesystem
    shows,      \* [Volumes -> the disk at the staging path, or None]
    pod         \* [Volumes -> the disk at the pod's target path, or None]

vars == <<present, formatted, shows, pod>>

Nothing == [v \in Volumes |-> None]

Init ==
    /\ present = {} /\ formatted = {}
    /\ shows = Nothing /\ pod = Nothing

InUse(v) == \E u \in Volumes : shows[u] = v \/ pod[u] = v

Appear(v) ==
    /\ v \notin present
    /\ \E S \in SUBSET Volumes : v \in S /\ present' = present \cup S
    /\ UNCHANGED <<formatted, shows, pod>>

Vanish(v) ==
    /\ v \in present /\ ~InUse(v)
    /\ present' = present \ {v}
    /\ UNCHANGED <<formatted, shows, pod>>

Format(v) ==
    /\ v \in present \ formatted /\ ~InUse(v)
    /\ formatted' = formatted \cup {v}
    /\ UNCHANGED <<present, shows, pod>>

Stage(v) ==
    /\ shows[v] = None /\ v \in present \cap formatted
    /\ shows' = [shows EXCEPT ![v] = v]
    /\ UNCHANGED <<present, formatted, pod>>

Unstage(v) ==
    /\ shows[v] = v /\ pod[v] = None
    /\ shows' = [shows EXCEPT ![v] = None]
    /\ UNCHANGED <<present, formatted, pod>>

Publish(v) ==
    /\ shows[v] = v /\ pod[v] = None
    /\ pod' = [pod EXCEPT ![v] = v]
    /\ UNCHANGED <<present, formatted, shows>>

Unpublish(v) ==
    /\ pod[v] = v
    /\ pod' = [pod EXCEPT ![v] = None]
    /\ UNCHANGED <<present, formatted, shows>>

Reboot ==
    /\ present' \in SUBSET Volumes
    /\ shows' = Nothing /\ pod' = Nothing
    /\ UNCHANGED formatted

Next ==
    \/ \E v \in Volumes : \/ Appear(v) \/ Vanish(v) \/ Format(v)
                          \/ Stage(v) \/ Unstage(v) \/ Publish(v) \/ Unpublish(v)
    \/ Reboot

Spec == Init /\ [][Next]_vars
=============================================================================

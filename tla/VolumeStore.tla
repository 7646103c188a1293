---------------------------- MODULE VolumeStore ----------------------------
(***************************************************************************)
(* What internal/morpheus/client.go promises the controller: a store of    *)
(* named volumes in which every operation is one indivisible step that     *)
(* touches one volume. README.md ("preserving existing disks") and the     *)
(* comment on Client.serverLocks are this promise in prose: although each  *)
(* operation replaces a server's whole volume array, the other volumes of  *)
(* the array never notice.                                                 *)
(*                                                                         *)
(* MorpheusClient implements it (identity mapping on place, attr and       *)
(* asked) when only the locked calls run concurrently and the appliance    *)
(* defers nothing, and when the calls are those of the sidecars for claims *)
(* that are all provisioned on one server.                                 *)
(***************************************************************************)
EXTENDS Integers

CONSTANTS Servers, VolIds, RootOf, Names, NoName, KeepsNames, HomeOf, Sizes

VARIABLES
    place,   \* where each volume is
    attr,    \* its name and size
    asked    \* the volumes whose deletion was requested

storeVars == <<place, attr, asked>>

IsRoot(v)   == \E s \in Servers : RootOf[s] = v
Attached(v) == place[v] \in Servers

Init ==
    /\ place = [v \in VolIds |->
                  IF IsRoot(v) THEN CHOOSE s \in Servers : RootOf[s] = v
                               ELSE "unborn"]
    /\ attr = [v \in VolIds |-> [name |-> NoName, size |-> 1]]
    /\ asked = {}

\* A name that its home server does not know gets one volume, an unused id.
Provision(n, size) ==
    /\ \A w \in VolIds : place[w] = HomeOf[n] => attr[w].name # n
    /\ \E v \in VolIds :
        /\ place[v] = "unborn"
        /\ place' = [place EXCEPT ![v] = HomeOf[n]]
        /\ attr' = [attr EXCEPT ![v] =
                      [name |-> IF KeepsNames THEN n ELSE NoName, size |-> size]]
    /\ UNCHANGED asked

\* An attached volume grows; nothing else about it changes.
Grow(v, size) ==
    /\ Attached(v) /\ ~IsRoot(v)
    /\ size > attr[v].size
    /\ attr' = [attr EXCEPT ![v].size = size]
    /\ UNCHANGED <<place, asked>>

\* Deletion is asked for, and later carried out.
Ask(v) ==
    /\ place[v] # "unborn"
    /\ asked' = asked \cup {v}
    /\ UNCHANGED <<place, attr>>

Destroy(v) ==
    /\ Attached(v) /\ ~IsRoot(v)
    /\ v \in asked
    /\ place' = [place EXCEPT ![v] = "deleted"]
    /\ UNCHANGED <<attr, asked>>

Detach(v) ==
    /\ Attached(v) /\ ~IsRoot(v)
    /\ place' = [place EXCEPT ![v] = "detached"]
    /\ UNCHANGED <<attr, asked>>

Attach(v, s) ==
    /\ place[v] = "detached"
    /\ place' = [place EXCEPT ![v] = s]
    /\ UNCHANGED <<attr, asked>>

Next ==
    \/ \E n \in Names, size \in Sizes : Provision(n, size)
    \/ \E v \in VolIds :
        \/ \E size \in Sizes : Grow(v, size)
        \/ Ask(v) \/ Destroy(v) \/ Detach(v)
        \/ \E s \in Servers : Attach(v, s)

Spec == Init /\ [][Next]_storeVars
=============================================================================

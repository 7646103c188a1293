----------------------------- MODULE MorpheusApi -----------------------------
(***************************************************************************)
(* The Morpheus appliance as the driver sees it through the four requests  *)
(* of internal/morpheus/client.go:                                         *)
(*   GET  /api/servers/{id}?details=true     the server's volume array     *)
(*   PUT  /api/servers/{id}/resize           replaces that whole array     *)
(*   PUT  /api/servers/{id}/volumes/{v}/detach and .../attach              *)
(* The appliance is not part of the repository: the module says only what  *)
(* the client and its tests rely on, and leaves open what they leave open. *)
(*   - a resize deletes the volumes the array omits, gives the listed ones *)
(*     the attributes it states and creates the item without an id;        *)
(*   - an accepted resize may take effect after its PUT was answered (the  *)
(*     client polls for its outcome) or may fail in the background;        *)
(*   - the name of a created volume may or may not be reported back        *)
(*     (client_test.go, the "name not returned" test).                     *)
(***************************************************************************)
EXTENDS Integers, Sequences, FiniteSets

CONSTANTS
    Servers,      \* Morpheus server ids, one per Kubernetes worker
    VolIds,       \* volume ids the appliance can hand out
    RootOf,       \* the id of each server's root disk
    Names,        \* volume names requested by CreateVolume ("pvc-...")
    NoName,       \* a name that is none of Names
    None,         \* no volume, no server, no caller
    KeepsNames,   \* does the appliance report the requested name back?
    MaxDeferred   \* bound, per server: resizes accepted and not yet in effect

\* Where a volume can be when it is on no server.
Unborn   == "unborn"
Detached == "detached"
Deleted  == "deleted"

Roots == {RootOf[s] : s \in Servers}
Attr  == [name : Names \cup {NoName}, size : Nat]

\* A volume array: the ids in it with their attributes, None for the others.
Arrays   == [VolIds -> Attr \cup {None}]
Ids(a)   == {v \in VolIds : a[v] # None}
NoArray  == [v \in VolIds |-> None]

\* The body of PUT .../resize: the items that carry an id, and the item that
\* does not (None when the array asks for no new volume).
Payloads == [keep : Arrays, new : Attr \cup {None}]

ASSUME ApiAssumption ==
    /\ RootOf \in [Servers -> VolIds]
    /\ \A s, t \in Servers : RootOf[s] = RootOf[t] => s = t
    /\ NoName \notin Names
    /\ None \notin Servers \cup VolIds \cup Attr
    /\ Servers \cap {Unborn, Detached, Deleted} = {}
    /\ KeepsNames \in BOOLEAN
    /\ MaxDeferred \in [Servers -> Nat]

VARIABLES
    place,   \* [VolIds -> server it is attached to, or Unborn/Detached/Deleted]
    attr,    \* [VolIds -> the name and size the appliance reports]
    queue    \* [Servers -> sequence of arrays accepted and not yet in effect]

apiVars == <<place, attr, queue>>

ApiTypeOK ==
    /\ place \in [VolIds -> Servers \cup {Unborn, Detached, Deleted}]
    /\ attr \in [VolIds -> Attr]
    /\ queue \in [Servers -> Seq(Payloads)]

\* Every server starts with its root disk and nothing else.
ApiInit ==
    /\ place = [v \in VolIds |->
                  IF v \in Roots THEN CHOOSE s \in Servers : RootOf[s] = v
                                 ELSE Unborn]
    /\ attr = [v \in VolIds |-> [name |-> NoName, size |-> 1]]
    /\ queue = [s \in Servers |-> <<>>]

-----------------------------------------------------------------------------
\* What GET /api/servers/{s} reports: the ids attached to s, and the array.
On(s)      == {v \in VolIds : place[v] = s}
Volumes(s) == [v \in VolIds |-> IF place[v] = s THEN attr[v] ELSE None]
Fresh      == {v \in VolIds : place[v] = Unborn}

\* The array p takes effect on s. Items whose id is not on s are ignored; a
\* new item gets an id that was never used.
PlaceAfter(s, p, fresh) ==
    [v \in VolIds |-> IF v = fresh THEN s
                      ELSE IF place[v] = s /\ v \notin Ids(p.keep) THEN Deleted
                      ELSE place[v]]

AttrAfter(s, p, fresh) ==
    [v \in VolIds |-> IF v = fresh
                        THEN IF KeepsNames THEN p.new
                             ELSE [p.new EXCEPT !.name = NoName]
                      ELSE IF place[v] = s /\ v \in Ids(p.keep) THEN p.keep[v]
                      ELSE attr[v]]

TakeEffect(s, p) ==
    \E fresh \in IF p.new = None THEN {None} ELSE Fresh :
        /\ place' = PlaceAfter(s, p, fresh)
        /\ attr' = AttrAfter(s, p, fresh)

\* The appliance accepts PUT /api/servers/{s}/resize: the array takes effect
\* at once, or later, behind the resizes of s that are still outstanding.
AcceptResize(s, p) ==
    \/ queue[s] = <<>> /\ TakeEffect(s, p) /\ UNCHANGED queue
    \/ /\ Len(queue[s]) < MaxDeferred[s]
       /\ queue' = [queue EXCEPT ![s] = Append(@, p)]
       /\ UNCHANGED <<place, attr>>

\* An outstanding resize takes effect, or fails in the background (the
\* datastore is full, the provisioning task errors).
Apply(s) ==
    /\ queue[s] # <<>>
    /\ TakeEffect(s, Head(queue[s]))
    /\ queue' = [queue EXCEPT ![s] = Tail(@)]

JobFails(s) ==
    /\ queue[s] # <<>>
    /\ queue' = [queue EXCEPT ![s] = Tail(@)]
    /\ UNCHANGED <<place, attr>>

\* PUT .../volumes/{v}/detach and .../attach, when the appliance carries them
\* out. A volume that is elsewhere is left alone.
DetachFrom(s, v) ==
    /\ place' = IF place[v] = s THEN [place EXCEPT ![v] = Detached] ELSE place
    /\ UNCHANGED <<attr, queue>>

AttachTo(s, v) ==
    /\ place[v] \in {Detached, s}
    /\ place' = [place EXCEPT ![v] = s]
    /\ UNCHANGED <<attr, queue>>
=============================================================================

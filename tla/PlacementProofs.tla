--------------------------- MODULE PlacementProofs ---------------------------
(***************************************************************************)
(* Where the volumes of claims are: a published volume is attached to the  *)
(* server of its node, and no claim loses its volume or gets less than it  *)
(* asked for (the end of ControllerService), for every number of claims,   *)
(* nodes, servers, volumes and callers, and whether or not the appliance   *)
(* reports the requested names back.                                       *)
(*                                                                         *)
(* The argument: all volumes are created on one server, the home; under    *)
(* its mutex a call knows every volume there (Covers), and a volume that   *)
(* has left the home never comes back, so that no array written to the     *)
(* home omits one. What CreateVolume will be answered (Candidates) is a    *)
(* volume no claim has and no other CreateVolume will be answered.         *)
(*                                                                         *)
(* With the same invariant each step of the controller is a step of        *)
(* VolumeStore, moves included, or none (the end of this module).          *)
(***************************************************************************)
EXTENDS ClaimProofs, MorpheusStoreProofs

USE DEF LockedOps, AllOps

\* One StorageClass: its serverID parameter is where all volumes are created.
OneStorageClass == \E s \in Servers : \A n \in Names : HomeOf[n] = s

Home == CHOOSE s \in Servers : \A n \in Names : HomeOf[n] = s

\* A node is not taken for another node's server.
NodesResolve ==
    \A node \in Nodes, n \in Names :
        ServerIDForNode(node, HomeOf[n]) \subseteq {ServerOf[node], None}

\* No VolumeAttachment disappears without ControllerUnpublishVolume.
NothingForgotten == "Forget" \notin Lifecycle

Setting == OneStorageClass /\ HomesAtOnce /\ NodesResolve /\ NothingForgotten

-----------------------------------------------------------------------------
(* The invariant: the volumes.                                             *)

Unclaimed(v) == \A n \in Names : claim[n].vol # v

\* Nothing is outstanding on any server, and every volume has a size.
Settled == /\ \A s \in Servers : queue[s] = <<>>
           /\ \A v \in VolIds : attr[v].size > 0

\* A volume that no claim has yet is where it was created.
Strays == \A v \in VolIds : place[v] # Unborn /\ v \notin Roots /\ Unclaimed(v)
                            => place[v] = Home

\* A claim's volume is at home, between servers, on the server of the claim's
\* node, or deleted at the claim's wish.
Placed(n) ==
    claim[n].phase # "pending" =>
        /\ claim[n].vol \notin Roots
        /\ attr[claim[n].vol].name \in {n, NoName}
        /\ \/ place[claim[n].vol] \in {Home, Detached}
           \/ claim[n].phase \in OnNode
              /\ place[claim[n].vol] = ServerOf[claim[n].node]
           \/ claim[n].phase \in {"deleting", "gone"} /\ place[claim[n].vol] = Deleted
        /\ claim[n].phase = "published"
           => place[claim[n].vol] = ServerOf[claim[n].node]
        /\ claim[n].phase \notin {"deleting", "gone"}
           => attr[claim[n].vol].size >= claim[n].size

-----------------------------------------------------------------------------
(* The invariant: the calls.                                               *)

\* Locked calls are all made on the home. Before its PUT, a call knows the
\* volumes there; EnsureVolume knows that none has the name, or which one.
Locking(c) ==
    /\ pc[c] \in {"lock", "read", "write", "poll"} => req[c].server = Home
    /\ pc[c] = "write" =>
        /\ \A v \in VolIds : place[v] = Home => snap[c][v] = attr[v]
        /\ req[c].op = "Ensure" /\ req[c].vol = None
           => \A v \in VolIds : ~Carries(v, req[c].name)
        /\ req[c].op = "Ensure" /\ req[c].vol # None
           => /\ Carries(req[c].vol, req[c].name)
              /\ attr[req[c].vol].size <= req[c].size
        /\ req[c].op = "Expand" => attr[req[c].vol].size <= req[c].size

\* What the CreateVolume that c serves will be answered.
Candidates(c) ==
    IF req[c].op # "Ensure" THEN {}
    ELSE IF pc[c] = "poll"
         THEN FindResized(snap[c], Volumes(req[c].server), req[c])
    ELSE IF pc[c] = "done" /\ ret[c].ok THEN {ret[c].vol}
    ELSE {}

Offers(c) ==
    \A v \in Candidates(c) :
        /\ v \in VolIds \ Roots /\ Unclaimed(v) /\ place[v] = Home
        /\ attr[v].size >= req[c].size
        /\ attr[v].name \in {req[c].name, NoName}

OffersApart == \A c, d \in Callers : c # d => Candidates(c) \cap Candidates(d) = {}

\* ControllerPublishVolume moves the volume from the home to the node's server;
\* ControllerUnpublishVolume detaches it from there.
Moving(c) ==
    /\ rpc[c].kind = "Publish" =>
        /\ req[c].server = ServerOf[Mine(c).node]
        /\ pc[c] = "detach" => /\ req[c].from = Home /\ place[req[c].vol] = Home
                               /\ req[c].server # Home
        /\ pc[c] = "attach" => /\ place[req[c].vol] = Detached
                               /\ req[c].server # Home
        /\ pc[c] = "verify" \/ (pc[c] = "done" /\ ret[c].ok)
           => place[req[c].vol] = req[c].server
    /\ rpc[c].kind = "Unpublish" =>
        /\ pc[c] = "detach" => req[c].from = ServerOf[Mine(c).node]
        /\ pc[c] = "done" /\ ret[c].ok => place[req[c].vol] \in {Home, Detached}

\* ControllerExpandVolume answers a size the volume has; DeleteVolume finds the
\* volume on the home, if anywhere.
Answering(c) ==
    /\ rpc[c].kind = "Expand" /\ pc[c] = "done" /\ ret[c].ok
       => attr[req[c].vol].size >= ret[c].size
    /\ rpc[c].kind = "Delete" =>
        /\ rpc[c].current \in {None, Home}
        /\ rpc[c].current = None /\ ret[c].ok => ret[c].server = Home

\* FindVolume and MoveVolume answer where the volume is, and it stays there until
\* the RPC has read the answer.
Pointing(c) ==
    pc[c] = "done" /\ ret[c].ok /\ req[c].op \in {"Find", "Move"}
    => ret[c].vol = req[c].vol /\ place[req[c].vol] = ret[c].server

CallInv(c) == Locking(c) /\ Offers(c) /\ Moving(c) /\ Answering(c) /\ Pointing(c)

PlaceInv ==
    /\ Settled /\ Strays /\ ClaimsAreDisjoint /\ OffersApart
    /\ \A n \in Names : Placed(n)
    /\ \A c \in Callers : CallInv(c)

\* With the mutexes and the root disks, of which every caller takes care.
Inv == CtrlInv /\ LockDiscipline /\ RootIntact /\ OthersNameless /\ PlaceInv

-----------------------------------------------------------------------------
(* What the invariant says of one step.                                    *)

LEMMA HomeFacts ==
    ASSUME Setting
    PROVE  /\ Home \in Servers /\ \A n \in Names : HomeOf[n] = Home
           /\ Names # {} => MaxDeferred[Home] = 0
           /\ Home \notin {Unborn, Detached, Deleted}
           /\ Unborn \notin Servers \cup {Detached, Deleted}
           /\ Deleted \notin Servers \cup {Detached}
           /\ Detached \notin Servers
           /\ None \notin VolIds /\ None \notin Attr /\ NoName \notin Names
<1>1. Home \in Servers /\ \A n \in Names : HomeOf[n] = Home
  BY DEF Setting, OneStorageClass, Home
<1>. QED  BY <1>1, ApiAssumption DEF Setting, HomesAtOnce, Unborn, Detached, Deleted

LEMMA VolumeTypes ==
    ASSUME CtrlInv
    PROVE  /\ place \in [VolIds -> Servers \cup {Unborn, Detached, Deleted}]
           /\ attr \in [VolIds -> Attr]
           /\ \A v \in VolIds : attr[v].size \in Nat
           /\ queue \in [Servers -> Seq(Payloads)]
           /\ pc \in [Callers -> Steps] /\ req \in [Callers -> Reqs]
           /\ ret \in [Callers -> Rets] /\ snap \in [Callers -> Arrays]
           /\ \A c \in Callers : req[c].size \in Nat
           /\ claim \in [Names -> ClaimRecord]
           /\ TypeInv /\ ApiTypeOK
  BY CtrlInvTypes
  DEF CtrlInv, TypeInv, TypeOK, ApiTypeOK, ClientTypeOK, Attr, Reqs, CtrlTypes

\* The claim's volume is one that was created, and no other claim's.
LEMMA OwnVolume ==
    ASSUME Setting, Inv, NEW n \in Names, claim[n].phase # "pending"
    PROVE  /\ claim[n].vol \in VolIds \ Roots /\ place[claim[n].vol] # Unborn
           /\ Placed(n)
           /\ \A m \in Names : claim[m].vol = claim[n].vol => m = n
  BY HomeFacts, ControllerAssumption
  DEF Inv, PlaceInv, Placed, CtrlInv, ClaimOK, OnNode, ClaimsAreDisjoint

\* A volume of the name that EnsureVolume works on is nobody's.
LEMMA NamedIsFree ==
    ASSUME Setting, Inv, NEW c \in Callers, pc[c] # "idle", req[c].op = "Ensure",
           NEW v, Carries(v, req[c].name)
    PROVE  /\ v \in VolIds \ Roots /\ Unclaimed(v) /\ place[v] = Home
           /\ \A d \in Callers : d # c => v \notin Candidates(d)
<1>1. /\ req[c].name \in Names /\ req[c].name # NoName
      /\ claim[req[c].name].vol = None
      /\ v \in VolIds /\ place[v] # Unborn /\ attr[v].name = req[c].name
  BY EnsureCalls DEF Inv, Carries
<1>2. v \notin Roots
  BY <1>1 DEF Inv, RootIntact, Roots
<1>3. Unclaimed(v)
  <2>1. ASSUME NEW n \in Names, claim[n].vol = v  PROVE FALSE
    <3>1. claim[n].phase # "pending"
      BY <1>1, <2>1, ApiAssumption DEF Inv, CtrlInv, ClaimOK
    <3>2. attr[v].name \in {n, NoName}
      BY <2>1, <3>1 DEF Inv, PlaceInv, Placed
    <3>. QED  BY <1>1, <2>1, <3>2, ApiAssumption
  <2>. QED  BY <2>1 DEF Unclaimed
<1>4. place[v] = Home
  BY <1>1, <1>2, <1>3 DEF Inv, PlaceInv, Strays
<1>5. ASSUME NEW d \in Callers, d # c, v \in Candidates(d)  PROVE FALSE
  <2>1. req[d].op = "Ensure" /\ pc[d] # "idle"
    BY <1>5 DEF Candidates
  <2>2. req[d].name # req[c].name
    BY <1>5, <2>1, EnsureCalls DEF Inv
  <2>3. attr[v].name \in {req[d].name, NoName}
    BY <1>5 DEF Inv, PlaceInv, CallInv, Offers
  <2>. QED  BY <1>1, <2>2, <2>3
<1>. QED  BY <1>1, <1>2, <1>3, <1>4, <1>5

-----------------------------------------------------------------------------
(* What a step of a call does to the volumes.                              *)

Same(v) == place'[v] = place[v] /\ attr'[v] = attr[v]

\* The array of c creates v on the home, changes its volume, or deletes it.
Creates(c, v) ==
    /\ req[c].op = "Ensure" /\ req[c].vol = None
    /\ place[v] = Unborn /\ place'[v] = Home
    /\ attr'[v] = [name |-> IF KeepsNames THEN req[c].name ELSE NoName,
                   size |-> req[c].size]
    /\ \A w \in VolIds \ {v} : Same(w)

Resizes(c) ==
    /\ req[c].op # "Delete" /\ req[c].vol \in VolIds
    /\ place'[req[c].vol] = place[req[c].vol]
    /\ IF place[req[c].vol] = Home
       THEN attr'[req[c].vol] = [name |-> attr[req[c].vol].name, size |-> req[c].size]
       ELSE attr'[req[c].vol] = attr[req[c].vol]
    /\ \A w \in VolIds \ {req[c].vol} : Same(w)

Deletes(c) ==
    /\ req[c].op = "Delete" /\ req[c].vol \in VolIds
    /\ place'[req[c].vol] = IF place[req[c].vol] = Home THEN Deleted
                            ELSE place[req[c].vol]
    /\ attr'[req[c].vol] = attr[req[c].vol]
    /\ \A w \in VolIds \ {req[c].vol} : Same(w)

\* The array of c, as the server it is for sees it.
LEMMA ArrayOfHome ==
    ASSUME Setting, Inv, NEW c \in Callers, pc[c] = "write"
    PROVE  /\ NextArray(c).keep \in Arrays
           /\ \A v \in VolIds : place[v] = Home /\ v # req[c].vol
                 => v \in Ids(NextArray(c).keep) /\ NextArray(c).keep[v] = attr[v]
           /\ req[c].vol # None /\ req[c].op = "Delete"
              => NextArray(c).new = None /\ req[c].vol \notin Ids(NextArray(c).keep)
           /\ req[c].vol # None /\ req[c].op # "Delete" /\ place[req[c].vol] = Home
              => /\ req[c].vol \in Ids(NextArray(c).keep)
                 /\ NextArray(c).keep[req[c].vol] = [name |-> attr[req[c].vol].name,
                                                     size |-> req[c].size]
           /\ req[c].vol # None /\ req[c].op # "Delete" => NextArray(c).new = None
           /\ req[c].vol = None => NextArray(c).new = [name |-> req[c].name,
                                                       size |-> req[c].size]
           /\ req[c].vol = None => req[c].op = "Ensure"
           /\ req[c].vol # None => req[c].vol \in VolIds
<1>0. /\ snap[c] \in Arrays /\ None \notin Attr /\ None \notin VolIds
      /\ req[c].vol = None \/ req[c].vol \in Ids(snap[c])
      /\ req[c].op \in LockedOps /\ req[c].size \in Nat
      /\ req[c].op # "Ensure" => req[c].vol \in VolIds /\ req[c].name = NoName
      /\ req[c].op = "Ensure" => req[c].name \in Names /\ req[c].name # NoName
      /\ NextArray(c) \in Payloads /\ attr \in [VolIds -> Attr]
      /\ \A v \in VolIds : place[v] = Home => snap[c][v] = attr[v]
  BY VolumeTypes, NextArrayType, HomeFacts
  DEF Inv, OthersNameless, CtrlInv, TypeInv, CallOK, PlaceInv, CallInv, Locking
<1>1. \A v \in VolIds : place[v] = Home => v \in Ids(snap[c])
  BY <1>0 DEF Ids
<1>2. NextArray(c).keep \in Arrays
  BY <1>0 DEF Payloads
<1>3. CASE req[c].op = "Delete"
  <2>1. /\ NextArray(c).new = None
        /\ NextArray(c).keep = [snap[c] EXCEPT ![req[c].vol] = None]
    BY <1>3 DEF NextArray, ArrayWithout
  <2>2. \A v \in VolIds : NextArray(c).keep[v] = IF v = req[c].vol THEN None ELSE snap[c][v]
    BY <1>0, <2>1 DEF Arrays
  <2>3. \A v \in VolIds : place[v] = Home /\ v # req[c].vol
           => v \in Ids(NextArray(c).keep) /\ NextArray(c).keep[v] = attr[v]
    BY <1>0, <1>1, <2>2 DEF Ids
  <2>4. req[c].vol \notin Ids(NextArray(c).keep)
    BY <2>2 DEF Ids
  <2>. QED  BY <1>0, <1>2, <1>3, <2>1, <2>3, <2>4
<1>4. CASE req[c].op # "Delete" /\ req[c].vol # None
  <2>. DEFINE item == [name |-> IF req[c].name = NoName THEN snap[c][req[c].vol].name
                                ELSE req[c].name,
                       size |-> req[c].size]
  <2>1. NextArray(c).new = None
    BY <1>4 DEF NextArray, ResizeArray
  <2>2. NextArray(c).keep = [snap[c] EXCEPT ![req[c].vol] = item]
    BY <1>4 DEF NextArray, ResizeArray
  <2>3. req[c].vol \in VolIds
    BY <1>0, <1>4 DEF Ids
  <2>4. place[req[c].vol] = Home
        => item = [name |-> attr[req[c].vol].name, size |-> req[c].size] /\ item # None
    <3>1. req[c].op = "Ensure" => Carries(req[c].vol, req[c].name)
      BY <1>4 DEF Inv, PlaceInv, CallInv, Locking
    <3>2. attr[req[c].vol] \in Attr
      BY <1>0, <2>3
    <3>3. place[req[c].vol] = Home => item.name = attr[req[c].vol].name
      BY <1>0, <2>3, <3>1 DEF Carries
    <3>4. [name |-> attr[req[c].vol].name, size |-> req[c].size] \in Attr
      BY <1>0, <3>2 DEF Attr
    <3>. QED  BY <1>0, <3>3, <3>4
  <2>. HIDE DEF item
  <2>5. \A v \in VolIds : NextArray(c).keep[v] = IF v = req[c].vol THEN item ELSE snap[c][v]
    BY <1>0, <2>2 DEF Arrays
  <2>6. \A v \in VolIds : place[v] = Home /\ v # req[c].vol
           => v \in Ids(NextArray(c).keep) /\ NextArray(c).keep[v] = attr[v]
    BY <1>0, <1>1, <2>5 DEF Ids
  <2>7. place[req[c].vol] = Home
        => /\ req[c].vol \in Ids(NextArray(c).keep)
           /\ NextArray(c).keep[req[c].vol] = [name |-> attr[req[c].vol].name,
                                               size |-> req[c].size]
    BY <2>3, <2>4, <2>5 DEF Ids
  <2>. QED  BY <1>2, <1>4, <2>1, <2>3, <2>6, <2>7
<1>5. CASE req[c].op # "Delete" /\ req[c].vol = None
  <2>1. /\ req[c].op = "Ensure"
        /\ NextArray(c) = [keep |-> snap[c],
                           new |-> [name |-> req[c].name, size |-> req[c].size]]
    BY <1>0, <1>5 DEF NextArray, ResizeArray
  <2>. QED  BY <1>0, <1>1, <1>5, <2>1 DEF Ids
<1>. QED  BY <1>3, <1>4, <1>5

LEMMA WriteEffect ==
    ASSUME Setting, Inv, NEW c \in Callers, Write(c)
    PROVE  /\ queue' = queue /\ pc[c] = "write"
           /\ (\E v \in VolIds : Creates(c, v)) \/ Resizes(c) \/ Deletes(c)
<1>. DEFINE p == NextArray(c)
<1>0. /\ pc[c] = "write" /\ AcceptResize(Home, p) /\ Home \in Servers
      /\ p.keep \in Arrays /\ None \notin Attr /\ None \notin VolIds
  BY HomeFacts, ArrayOfHome DEF Write, Inv, PlaceInv, CallInv, Locking
<1>1. Names # {}
  <2>1. CASE req[c].op = "Ensure"
    BY <1>0, <2>1, EnsureCalls DEF Inv
  <2>2. CASE req[c].op # "Ensure"
    BY <1>0, <2>2, OtherCalls DEF Inv
  <2>. QED  BY <2>1, <2>2
<1>2. TakeEffect(Home, p) /\ queue' = queue
  <2>1. queue[Home] = <<>> /\ MaxDeferred[Home] = 0
    BY <1>0, <1>1, HomeFacts DEF Inv, PlaceInv, Settled
  <2>. QED  BY <1>0, <2>1 DEF AcceptResize
<1>3. PICK fresh \in IF p.new = None THEN {None} ELSE Fresh :
          place' = PlaceAfter(Home, p, fresh) /\ attr' = AttrAfter(Home, p, fresh)
  BY <1>2 DEF TakeEffect
<1>4. ASSUME NEW v \in VolIds, v # fresh
      PROVE  /\ place'[v] = IF place[v] = Home /\ v \notin Ids(p.keep) THEN Deleted
                            ELSE place[v]
             /\ attr'[v] = IF place[v] = Home /\ v \in Ids(p.keep) THEN p.keep[v]
                           ELSE attr[v]
  BY <1>3, <1>4 DEF PlaceAfter, AttrAfter
<1>5. ASSUME NEW v \in VolIds, v # fresh, v # req[c].vol  PROVE Same(v)
  <2>1. place[v] = Home => v \in Ids(p.keep) /\ p.keep[v] = attr[v]
    BY <1>0, <1>5, ArrayOfHome
  <2>. HIDE DEF p
  <2>. QED  BY <1>4, <1>5, <2>1 DEF Same
<1>6. CASE req[c].vol = None
  <2>1. p.new = [name |-> req[c].name, size |-> req[c].size] /\ req[c].op = "Ensure"
    BY <1>0, <1>6, ArrayOfHome
  <2>2. p.new # None
    <3>1. req[c].name \in Names /\ req[c].size \in Nat
      BY <1>0, <2>1, EnsureCalls, VolumeTypes DEF Inv
    <3>. QED  BY <1>0, <2>1, <3>1 DEF Attr
  <2>3. fresh \in VolIds /\ place[fresh] = Unborn
    BY <1>3, <2>2 DEF Fresh
  <2>4. /\ place'[fresh] = Home
        /\ attr'[fresh] = IF KeepsNames THEN p.new ELSE [p.new EXCEPT !.name = NoName]
    BY <1>3, <2>3 DEF PlaceAfter, AttrAfter
  <2>5. attr'[fresh] = [name |-> IF KeepsNames THEN req[c].name ELSE NoName,
                        size |-> req[c].size]
    BY <2>1, <2>4
  <2>6. Creates(c, fresh)
    BY <1>0, <1>5, <1>6, <2>1, <2>3, <2>4, <2>5 DEF Creates
  <2>. QED  BY <1>0, <1>2, <2>3, <2>6
<1>7. CASE req[c].vol # None
  <2>1. req[c].vol \in VolIds /\ p.new = None
    BY <1>0, <1>7, ArrayOfHome
  <2>2. fresh = None /\ req[c].vol # fresh
    BY <1>0, <1>3, <2>1
  <2>3. \A v \in VolIds \ {req[c].vol} : Same(v)
    BY <1>0, <1>5, <2>2
  <2>4. CASE req[c].op = "Delete"
    <3>1. req[c].vol \notin Ids(p.keep)
      BY <1>0, <1>7, <2>4, ArrayOfHome
    <3>. HIDE DEF p
    <3>2. Deletes(c)
      BY <1>4, <2>1, <2>2, <2>3, <2>4, <3>1 DEF Deletes
    <3>. QED  BY <1>0, <1>2, <3>2
  <2>5. CASE req[c].op # "Delete"
    <3>1. place[req[c].vol] = Home
          => /\ req[c].vol \in Ids(p.keep)
             /\ p.keep[req[c].vol] = [name |-> attr[req[c].vol].name,
                                      size |-> req[c].size]
      BY <1>0, <1>7, <2>5, ArrayOfHome
    <3>. HIDE DEF p
    <3>2. Resizes(c)
      BY <1>4, <2>1, <2>2, <2>3, <2>5, <3>1 DEF Resizes
    <3>. QED  BY <1>0, <1>2, <3>2
  <2>. QED  BY <2>4, <2>5
<1>. QED  BY <1>6, <1>7

\* How a claim's volume comes to be elsewhere: on its way to the claim's node,
\* which is not the home; off that node; deleted on the home.
Moved(c, v) ==
    /\ rpc[c].kind # None /\ rpc[c].name \in Names /\ v = Mine(c).vol
    /\ \/ /\ rpc[c].kind = "Publish"
          /\ place'[v] \in {Detached, ServerOf[Mine(c).node]} \ {Home}
       \/ rpc[c].kind = "Unpublish" /\ place'[v] = Detached
       \/ rpc[c].kind = "Delete" /\ place'[v] = Deleted /\ pc[c] = "write"

Created(c, v) ==
    /\ pc[c] = "write" /\ v \notin Roots
    /\ place'[v] = Home /\ attr'[v].size > 0

\* Names do not change and sizes do not shrink; only a PUT of a resize changes
\* what a volume is, and only an RPC of its claim changes where it is.
Effect(c) ==
    /\ queue' = queue /\ \A v \in VolIds : attr'[v].size \in Nat
    /\ \A v \in VolIds : place[v] # Unborn =>
          /\ place'[v] # Unborn
          /\ attr'[v].name = attr[v].name /\ attr'[v].size >= attr[v].size
          /\ attr'[v] = attr[v] \/ pc[c] = "write"
          /\ place'[v] = place[v] \/ Moved(c, v)
    /\ \A v \in VolIds : place[v] = Unborn => Same(v) \/ Created(c, v)

LEMMA NoEffect ==
    ASSUME CtrlInv, UNCHANGED apiVars, NEW c \in Callers
    PROVE  Effect(c)
  BY VolumeTypes DEF Effect, Same, apiVars

LEMMA WriteHasEffect ==
    ASSUME Setting, Inv, NEW c \in Callers, Write(c)
    PROVE  Effect(c)
<1>. USE VolumeTypes, HomeFacts
<1>0. CtrlInv /\ pc[c] = "write" /\ queue' = queue
  BY WriteEffect DEF Inv
<1>1. ASSUME NEW v \in VolIds, Creates(c, v)  PROVE Effect(c)
  <2>1. v \notin Roots
    BY <1>1 DEF Creates, Inv, RootIntact, Roots
  <2>2. req[c].size > 0
    <3>1. Serves(c) /\ rpc[c].kind = "Create" /\ rpc[c].name = req[c].name
          /\ req[c].name \in Names /\ claim[req[c].name].phase = "pending"
      BY <1>0, <1>1, EnsureCalls DEF Creates, CtrlInv, RpcsOK
    <3>2. req[c].size \in Sizes
      BY <1>0, <3>1 DEF Serves, Mine, CtrlInv, ClaimOK
    <3>3. req[c].size \in Nat /\ req[c].size # 0
      BY <3>2, ClientAssumption
    <3>. QED  BY <3>3
  <2>. QED  BY <1>0, <1>1, <2>1, <2>2 DEF Creates, Created, Same, Effect
<1>2. CASE Resizes(c)
  <2>1. req[c].op \in {"Ensure", "Expand"} /\ req[c].vol # None
    BY <1>0, <1>2 DEF Resizes, CtrlInv, TypeInv, CallOK
  <2>2. attr[req[c].vol].size <= req[c].size
    BY <1>0, <2>1 DEF Inv, PlaceInv, CallInv, Locking
  <2>3. /\ attr[req[c].vol] \in Attr
        /\ attr'[req[c].vol].name = attr[req[c].vol].name
        /\ attr'[req[c].vol].size >= attr[req[c].vol].size
    BY <1>0, <1>2, <2>2 DEF Resizes
  <2>4. place[req[c].vol] = Unborn => Same(req[c].vol)
    BY <1>2 DEF Resizes, Same
  <2>. QED  BY <1>0, <1>2, <2>3, <2>4 DEF Resizes, Same, Effect
<1>3. CASE Deletes(c)
  <2>1. rpc[c].kind # None /\ rpc[c].name \in Names /\ req[c].vol = Mine(c).vol
    BY <1>0, <1>3, OtherCalls DEF Deletes
  <2>2. rpc[c].kind = "Delete"
    <3>1. rpc[c].kind \in {"Create", "Delete", "Publish", "Unpublish", "Expand"}
      BY <1>0, <2>1, ClaimTypes DEF Rpcs, Provisioner, Attacher, Resizer
    <3>. QED  BY <1>0, <1>3, <3>1 DEF Deletes, CtrlInv, RpcsOK, Serves, CallIs
  <2>3. place'[req[c].vol] = place[req[c].vol] \/ Moved(c, req[c].vol)
    BY <1>0, <1>3, <2>1, <2>2 DEF Deletes, Moved
  <2>4. \A v \in VolIds \ {req[c].vol} : Same(v)
    BY <1>3 DEF Deletes
  <2>5. /\ place[req[c].vol] # Unborn => place'[req[c].vol] # Unborn
        /\ attr'[req[c].vol] = attr[req[c].vol]
        /\ place[req[c].vol] = Unborn => Same(req[c].vol)
    BY <1>3 DEF Deletes, Same
  <2>6. \A v \in VolIds : attr'[v] = attr[v]
    BY <2>4, <2>5 DEF Same
  <2>7. \A v \in VolIds : attr'[v].size \in Nat
    BY <1>0, <2>6
  <2>8. \A v \in VolIds : place[v] # Unborn =>
           place'[v] # Unborn /\ (place'[v] = place[v] \/ Moved(c, v))
    BY <2>3, <2>4, <2>5 DEF Same
  <2>9. \A v \in VolIds : place[v] = Unborn => Same(v)
    BY <2>4, <2>5
  <2>. QED  BY <1>0, <2>6, <2>7, <2>8, <2>9 DEF Effect
<1>. QED  BY <1>1, <1>2, <1>3, WriteEffect

LEMMA MoveHasEffect ==
    ASSUME Setting, Inv, NEW c \in Callers, Detach(c) \/ Attach(c)
    PROVE  Effect(c)
<1>. USE VolumeTypes, HomeFacts
<1>1. CtrlInv /\ pc[c] \in {"detach", "attach"} /\ req[c].vol \in VolIds
  BY DEF Inv, Detach, Attach, CtrlInv, TypeInv, CallOK
<1>2. /\ rpc[c].kind # None /\ rpc[c].name \in Names /\ req[c].vol = Mine(c).vol
      /\ rpc[c].kind = "Publish" <=> req[c].op = "Move"
      /\ rpc[c].kind = "Unpublish" <=> req[c].op = "Detach"
      /\ claim[rpc[c].name].phase # "pending"
  <2>1. req[c].op # "Ensure" /\ pc[c] # "idle"
    BY <1>1 DEF CtrlInv, TypeInv, CallOK
  <2>. QED  BY <1>1, <2>1, KindOfCall DEF Mine
<1>3. place[req[c].vol] # Unborn
  BY <1>2, OwnVolume DEF Mine
<1>4. CASE Detach(c)
  <2>1. /\ attr' = attr /\ queue' = queue
        /\ place' = IF place[req[c].vol] = req[c].from
                    THEN [place EXCEPT ![req[c].vol] = Detached] ELSE place
        /\ req[c].op \in {"Move", "Detach"}
    BY <1>1, <1>4 DEF Detach, DetachFrom, CtrlInv, TypeInv, CallOK
  <2>2. /\ \A v \in VolIds \ {req[c].vol} : place'[v] = place[v]
        /\ place'[req[c].vol] \in {place[req[c].vol], Detached}
    BY <1>1, <2>1
  <2>3. place'[req[c].vol] = place[req[c].vol] \/ Moved(c, req[c].vol)
    BY <1>1, <1>2, <2>1, <2>2 DEF Moved
  <2>. QED  BY <1>1, <1>3, <2>1, <2>2, <2>3 DEF Effect, Same
<1>5. CASE Attach(c)
  <2>1. /\ attr' = attr /\ queue' = queue
        /\ place' = [place EXCEPT ![req[c].vol] = req[c].server]
        /\ req[c].op = "Move" /\ pc[c] = "attach" /\ req[c].server \in Servers
    BY <1>1, <1>5 DEF Attach, AttachTo, CtrlInv, TypeInv, CallOK
  <2>2. rpc[c].kind = "Publish"
    BY <1>2, <2>1
  <2>3. req[c].server = ServerOf[Mine(c).node] /\ req[c].server # Home
    BY <2>1, <2>2 DEF Inv, PlaceInv, CallInv, Moving
  <2>4. Moved(c, req[c].vol)
    BY <1>1, <1>2, <2>1, <2>2, <2>3 DEF Moved
  <2>5. \A v \in VolIds \ {req[c].vol} : place'[v] = place[v]
    BY <1>1, <2>1
  <2>6. place'[req[c].vol] # Unborn
    BY <1>1, <2>1
  <2>. QED  BY <1>1, <1>3, <2>1, <2>4, <2>5, <2>6 DEF Effect, Same
<1>. QED  BY <1>4, <1>5

LEMMA ProgressHasEffect ==
    ASSUME Setting, Inv, NEW c \in Callers, Progress(c)
    PROVE  Effect(c)
<1>1. CASE Lock(c) \/ EnsureRead(c) \/ DeleteRead(c) \/ ExpandRead(c) \/ Poll(c)
           \/ FindGet(c) \/ Verify(c) \/ RequestFails(c)
  BY <1>1, NoEffect DEF Lock, EnsureRead, DeleteRead, ExpandRead, Poll, FindGet,
                        Verify, RequestFails, Inv
<1>. QED  BY <1>1, WriteHasEffect, MoveHasEffect DEF Progress

-----------------------------------------------------------------------------
(* What a step of a call means for the others, and for the claims.         *)

\* A volume that no claim has does not move, and nothing comes to the home but
\* new volumes.
LEMMA EffectFacts ==
    ASSUME Setting, Inv, NEW c \in Callers, Effect(c)
    PROVE  /\ \A v \in VolIds : Unclaimed(v) /\ place[v] # Unborn
                 => place'[v] = place[v]
           /\ \A v \in VolIds : place'[v] = Home
                 => place[v] = Home \/ (place[v] = Unborn /\ Created(c, v))
           /\ pc[c] # "write" => \A v \in VolIds : attr'[v] = attr[v]
           /\ \A v \in VolIds : place'[v] # Unborn /\ pc[c] # "write"
                 => place[v] # Unborn
<1>. USE HomeFacts
<1>1. ASSUME NEW v \in VolIds, Moved(c, v)  PROVE ~Unclaimed(v) /\ place'[v] # Home
  BY <1>1 DEF Moved, Unclaimed, Mine
<1>. QED  BY <1>1 DEF Effect, Same, Created

\* Two RPCs that move volumes are of different claims.
LEMMA NotMovedByOthers ==
    ASSUME Setting, Inv, NEW c \in Callers, NEW d \in Callers, d # c,
           rpc[d].kind \in {"Publish", "Unpublish", "Delete"}
    PROVE  ~Moved(c, Mine(d).vol)
<1>1. SUFFICES ASSUME Moved(c, Mine(d).vol)  PROVE FALSE
  OBVIOUS
<1>2. /\ rpc[c].kind \in {"Publish", "Unpublish", "Delete"} /\ rpc[c].kind # None
      /\ rpc[d].kind # None /\ CtrlInv
      /\ Mine(c).vol = Mine(d).vol
  BY <1>1, NoneIsNoRpc DEF Moved, Inv
<1>3. /\ rpc[c].name \in Names /\ Mine(c).phase # "pending"
      /\ rpc[d].name \in Names /\ Mine(d).phase # "pending"
  BY <1>2, MineIsGood
<1>4. rpc[c].name = rpc[d].name
  BY <1>2, <1>3, OwnVolume DEF Mine
<1>. QED  BY <1>2, <1>4, OnlyExpands

\* c serves its call a step further, and the RPC of d does not notice.
Apart(c, d) ==
    /\ Effect(c) /\ UNCHANGED ctrlVars
    /\ pc'[d] = pc[d] /\ req'[d] = req[d] /\ ret'[d] = ret[d] /\ snap'[d] = snap[d]

\* Who is about to write, or polls, holds the mutex of the home.
LEMMA OneWriter ==
    ASSUME Setting, Inv, NEW c \in Callers, NEW d \in Callers, d # c,
           pc[d] \in {"write", "poll"}
    PROVE  pc[c] # "write"
<1>1. SUFFICES ASSUME pc[c] = "write"  PROVE FALSE
  OBVIOUS
<1>2. req[c].server = Home /\ req[d].server = Home
  BY <1>1 DEF Inv, PlaceInv, CallInv, Locking
<1>. QED  BY <1>1, <1>2, HomeFacts DEF Inv, LockDiscipline

LEMMA OthersLocking ==
    ASSUME Setting, Inv, NEW c \in Callers, NEW d \in Callers, d # c, Apart(c, d)
    PROVE  Locking(d)'
<1>1. Locking(d)
  BY DEF Inv, PlaceInv, CallInv
<1>2. CASE pc[d] # "write"
  BY <1>1, <1>2 DEF Apart, Locking
<1>3. CASE pc[d] = "write"
  <2>1. /\ \A v \in VolIds : attr'[v] = attr[v]
        /\ \A v \in VolIds : place'[v] = Home => place[v] = Home
        /\ \A v \in VolIds : place'[v] # Unborn => place[v] # Unborn
    BY <1>3, OneWriter, EffectFacts DEF Apart, Created
  <2>2. \A v \in VolIds : place[v] # Unborn => place'[v] # Unborn
    BY DEF Apart, Effect
  <2>3. \A v, n : Carries(v, n)' <=> Carries(v, n)
    BY <2>1, <2>2 DEF Carries
  <2>4. req[d].op = "Expand" => req[d].vol \in VolIds
    BY <1>3 DEF Inv, CtrlInv, TypeInv, CallOK
  <2>5. Carries(req[d].vol, req[d].name) => req[d].vol \in VolIds
    BY DEF Carries
  <2>. QED  BY <1>1, <1>3, <2>1, <2>3, <2>4, <2>5 DEF Apart, Locking
<1>. QED  BY <1>2, <1>3

LEMMA OthersCandidates ==
    ASSUME Setting, Inv, NEW c \in Callers, NEW d \in Callers, d # c, Apart(c, d)
    PROVE  Candidates(d)' \subseteq Candidates(d)
<1>0. /\ \A v \in Candidates(d) : v \in VolIds /\ place[v] = Home /\ Unclaimed(v)
      /\ pc[d] \in {"lock", "read", "write", "poll"} => req[d].server = Home
  BY DEF Inv, PlaceInv, CallInv, Offers, Locking
<1>1. CASE req[d].op # "Ensure" \/ pc[d] # "poll"
  BY <1>1 DEF Apart, Candidates
<1>2. CASE req[d].op = "Ensure" /\ pc[d] = "poll"
  <2>. DEFINE old == Volumes(Home)
              new == Volumes(Home)'
  <2>1. /\ \A v \in VolIds : attr'[v] = attr[v]
        /\ \A v \in VolIds : place'[v] = Home => place[v] = Home
    BY <1>2, OneWriter, EffectFacts DEF Apart, Created
  <2>2. req[d].server = Home
    BY <1>0, <1>2
  <2>3. /\ Candidates(d) = FindResized(snap[d], old, req[d])
        /\ Candidates(d)' = FindResized(snap[d], new, req[d])
    BY <1>2, <2>2 DEF Apart, Candidates
  <2>4. /\ \A v \in VolIds : place[v] = Home => old[v] = attr[v]
        /\ \A v \in VolIds : place[v] # Home => old[v] = None
        /\ \A v \in VolIds : place'[v] = Home => new[v] = attr[v]
        /\ \A v \in VolIds : place'[v] # Home => new[v] = None
    BY <2>1 DEF Volumes
  <2>5. \A v \in Candidates(d) : place'[v] = Home
    BY <1>0, HomeFacts, EffectFacts DEF Apart
  <2>. HIDE DEF old, new
  <2>6. \A v \in VolIds : new[v] # None => new[v] = old[v]
    BY <2>1, <2>4
  <2>7. Ids(new) \subseteq Ids(old)
    BY <2>6 DEF Ids
  <2>8. CASE req[d].vol # None
    BY <2>3, <2>7, <2>8 DEF FindResized
  <2>9. CASE req[d].vol = None /\ Named(old, req[d].name) = {}
    <3>1. Named(new, req[d].name) = {}
      BY <2>6, <2>7, <2>9 DEF Named, Ids
    <3>2. FindNew(snap[d], new, req[d].size) \subseteq FindNew(snap[d], old, req[d].size)
      BY <2>6, <2>7 DEF FindNew, Ids
    <3>. QED  BY <2>3, <2>9, <3>1, <3>2 DEF FindResized
  <2>10. CASE req[d].vol = None /\ Named(old, req[d].name) # {}
    <3>1. Candidates(d) = Named(old, req[d].name)
      BY <2>3, <2>10 DEF FindResized
    <3>2. \A v \in Named(old, req[d].name) : v \in Named(new, req[d].name)
      <4>1. ASSUME NEW v \in Named(old, req[d].name)
            PROVE  v \in VolIds /\ new[v] = old[v] /\ old[v] # None /\ old[v].name = req[d].name
        BY <1>0, <2>4, <2>5, <3>1 DEF Named, Ids
      <4>. QED  BY <4>1 DEF Named, Ids
    <3>3. Named(new, req[d].name) \subseteq Named(old, req[d].name)
      BY <2>6, <2>7 DEF Named, Ids
    <3>4. Candidates(d)' = Named(new, req[d].name)
      BY <2>3, <2>10, <3>2 DEF FindResized
    <3>. QED  BY <3>1, <3>3, <3>4
  <2>. QED  BY <2>8, <2>9, <2>10
<1>. QED  BY <1>1, <1>2

LEMMA OthersGoOn ==
    ASSUME Setting, Inv, NEW c \in Callers, NEW d \in Callers, d # c, Apart(c, d)
    PROVE  CallInv(d)' /\ Candidates(d)' \subseteq Candidates(d)
<1>. USE VolumeTypes, HomeFacts
<1>0. CtrlInv /\ Offers(d) /\ Moving(d) /\ Answering(d) /\ Pointing(d) /\ Serves(d)
  BY DEF Inv, PlaceInv, CallInv, CtrlInv, RpcsOK
<1>1. rpc' = rpc /\ claim' = claim
  BY DEF Apart, ctrlVars
<1>2. Offers(d)'
  <2>1. ASSUME NEW v \in Candidates(d)
        PROVE  /\ v \in VolIds \ Roots /\ Unclaimed(v)' /\ place'[v] = Home
               /\ attr'[v].size >= req[d].size
               /\ attr'[v].name \in {req[d].name, NoName}
    <3>1. /\ v \in VolIds \ Roots /\ Unclaimed(v) /\ place[v] = Home
          /\ attr[v].size >= req[d].size
          /\ attr[v].name \in {req[d].name, NoName}
      BY <1>0 DEF Offers
    <3>2. place'[v] = Home
      BY <3>1, EffectFacts DEF Apart
    <3>3. attr'[v].name = attr[v].name /\ attr'[v].size >= attr[v].size
      BY <3>1 DEF Apart, Effect
    <3>4. attr'[v].size >= req[d].size
      <4>1. attr'[v].size \in Nat
        BY <3>1 DEF Apart, Effect
      <4>. QED  BY <1>0, <3>1, <3>3, <4>1
    <3>. QED  BY <1>1, <3>1, <3>2, <3>3, <3>4 DEF Unclaimed
  <2>. QED  BY <2>1, OthersCandidates DEF Offers, Apart
<1>3. rpc[d].kind \in {"Publish", "Unpublish"} => place'[req[d].vol] = place[req[d].vol]
  <2>1. ASSUME rpc[d].kind \in {"Publish", "Unpublish"}
        PROVE  place'[req[d].vol] = place[req[d].vol]
    <3>1. rpc[d].kind # None /\ req[d].vol = Mine(d).vol
      BY <1>0, <2>1, NoneIsNoRpc DEF Serves, CallIs
    <3>2. rpc[d].name \in Names /\ claim[rpc[d].name].phase # "pending"
      BY <1>0, <2>1, <3>1, MineIsGood DEF Mine
    <3>3. req[d].vol \in VolIds /\ place[req[d].vol] # Unborn
      BY <3>1, <3>2, OwnVolume DEF Mine
    <3>. QED  BY <2>1, <3>1, <3>3, NotMovedByOthers DEF Apart, Effect
  <2>. QED  BY <2>1
<1>4. Moving(d)'
  BY <1>0, <1>1, <1>3 DEF Moving, Apart, Mine
<1>5. Answering(d)'
  <2>1. ASSUME rpc[d].kind = "Expand", pc[d] = "done", ret[d].ok
        PROVE  attr'[req[d].vol].size >= ret[d].size
    <3>1. rpc[d].kind # None /\ req[d].vol = Mine(d).vol
      BY <1>0, <2>1, NoneIsNoRpc DEF Serves, CallIs
    <3>2. rpc[d].name \in Names /\ claim[rpc[d].name].phase # "pending"
      BY <1>0, <2>1, <3>1, MineIsGood DEF Mine
    <3>3. req[d].vol \in VolIds /\ place[req[d].vol] # Unborn
      BY <3>1, <3>2, OwnVolume DEF Mine
    <3>4. attr[req[d].vol].size >= ret[d].size
      BY <1>0, <2>1 DEF Answering
    <3>5. /\ attr'[req[d].vol].size >= attr[req[d].vol].size
          /\ attr'[req[d].vol].size \in Nat /\ ret[d].size \in Nat
          /\ attr[req[d].vol].size \in Nat
      BY <1>0, <2>1, <3>3, AnswersCtrl DEF Apart, Effect
    <3>. QED  BY <3>3, <3>4, <3>5
  <2>. QED  BY <1>0, <1>1, <2>1 DEF Answering, Apart
<1>6. Pointing(d)'
  <2>1. ASSUME pc[d] = "done", ret[d].ok, req[d].op \in {"Find", "Move"}
        PROVE  ret[d].vol = req[d].vol /\ place'[req[d].vol] = ret[d].server
    <3>1. /\ rpc[d].kind \in {"Publish", "Delete"} /\ req[d].vol = Mine(d).vol
          /\ rpc[d].name \in Names /\ claim[rpc[d].name].phase # "pending"
      BY <1>0, <2>1, KindOfCall DEF Mine
    <3>2. req[d].vol \in VolIds /\ place[req[d].vol] # Unborn
      BY <3>1, OwnVolume DEF Mine
    <3>. QED  BY <1>0, <2>1, <3>1, <3>2, NotMovedByOthers DEF Pointing, Apart, Effect
  <2>. QED  BY <2>1 DEF Pointing, Apart
<1>. QED  BY <1>2, <1>4, <1>5, <1>6, OthersLocking, OthersCandidates DEF CallInv

-----------------------------------------------------------------------------
(* What a step of a call means for the RPC that made the call.             *)

\* What c may be answered from now on it could be before, or it is a new volume,
\* or one of the name it asks for.
Gains(c) ==
    \A v \in Candidates(c)' : \/ v \in Candidates(c)
                              \/ place[v] = Unborn
                              \/ Carries(v, req[c].name)

Goes(c) == CallInv(c)' /\ Gains(c)

LEMMA OwnFacts ==
    ASSUME Setting, Inv, NEW c \in Callers, Progress(c), UNCHANGED ctrlVars
    PROVE  /\ Effect(c) /\ OneCall(c) /\ CtrlInv /\ CallInv(c)
           /\ rpc' = rpc /\ claim' = claim /\ pc[c] \notin {"idle", "done"}
           /\ req'[c].op = req[c].op /\ req'[c].name = req[c].name
           /\ req'[c].server = req[c].server /\ req'[c].size = req[c].size
           /\ req[c].op # "Ensure" => req'[c].vol = req[c].vol
  BY ProgressHasEffect, ProgressFacts DEF Inv, CtrlInv, OneCall, PlaceInv, ctrlVars

LEMMA FailGoes ==
    ASSUME Setting, Inv, NEW c \in Callers, Progress(c), UNCHANGED ctrlVars, Fail(c)
    PROVE  Goes(c)
<1>. USE OwnFacts
<1>1. pc'[c] = "done" /\ ~ret'[c].ok
  BY VolumeTypes DEF Fail, Return, Goto, NoRet
<1>2. Candidates(c)' = {}
  BY <1>1 DEF Candidates
<1>3. Locking(c)' /\ Offers(c)'
  BY <1>1, <1>2 DEF Locking, Offers
<1>4. Moving(c)' /\ Answering(c)' /\ Pointing(c)'
  BY <1>1 DEF CallInv, Moving, Answering, Pointing, Mine
<1>. QED  BY <1>2, <1>3, <1>4 DEF Goes, CallInv, Gains

\* What is answered, to each of the RPCs.
LEMMA OkGoes ==
    ASSUME Setting, Inv, NEW c \in Callers, Progress(c), UNCHANGED ctrlVars,
           NEW v, NEW s, Ok(c, v, s),
           req[c].op = "Ensure" =>
              /\ v \in VolIds \ Roots /\ Unclaimed(v) /\ place'[v] = Home
              /\ attr'[v].size >= req[c].size
              /\ attr'[v].name \in {req[c].name, NoName}
              /\ v \in Candidates(c) \/ Carries(v, req[c].name),
           req[c].op = "Expand" => v = req[c].vol,
           req[c].op = "Find" => s = Home,
           req[c].op = "Move" => s = req[c].server,
           req[c].op \in {"Find", "Move"} => v = req[c].vol /\ place'[req[c].vol] = s,
           req[c].op = "Detach" => place'[req[c].vol] \in {Home, Detached}
    PROVE  Goes(c)
<1>. USE OwnFacts
<1>1. /\ pc'[c] = "done"
      /\ ret'[c].ok /\ ret'[c].vol = v /\ ret'[c].server = s
      /\ ret'[c].size = attr[v].size
  BY VolumeTypes DEF Ok, Return, Goto
<1>2. Candidates(c)' = IF req[c].op = "Ensure" THEN {v} ELSE {}
  BY <1>1 DEF Candidates
<1>3. Locking(c)' /\ Offers(c)' /\ Gains(c)
  BY <1>1, <1>2 DEF Locking, Offers, Gains, Unclaimed
<1>4. Moving(c)'
  <2>1. /\ rpc[c].kind = "Publish" => req[c].op = "Move"
        /\ rpc[c].kind = "Unpublish" => req[c].op = "Detach"
    BY KindOfCall
  <2>. QED  BY <1>1, <2>1 DEF CallInv, Moving, Mine
<1>5. Answering(c)'
  <2>1. /\ rpc[c].kind = "Expand" => req[c].op = "Expand"
        /\ rpc[c].kind = "Delete" /\ rpc[c].current = None => req[c].op = "Find"
    BY KindOfCall
  <2>2. ASSUME rpc[c].kind = "Expand"
        PROVE  attr'[req[c].vol].size >= attr[req[c].vol].size
    <3>1. req[c].vol = Mine(c).vol /\ Mine(c).phase # "pending" /\ rpc[c].name \in Names
      BY <2>2, KindOfCall
    <3>2. req[c].vol \in VolIds /\ place[req[c].vol] # Unborn
      BY <3>1, OwnVolume DEF Mine
    <3>. QED  BY <3>2 DEF Effect
  <2>. QED  BY <1>1, <2>1, <2>2 DEF CallInv, Answering
<1>6. Pointing(c)'
  BY <1>1 DEF Pointing
<1>. QED  BY <1>3, <1>4, <1>5, <1>6 DEF Goes, CallInv

\* The call goes on.
LEMMA OnGoes ==
    ASSUME Setting, Inv, NEW c \in Callers, Progress(c), UNCHANGED ctrlVars,
           UNCHANGED ret, pc'[c] # "done", Locking(c)',
           req[c].op = "Ensure" /\ pc'[c] = "poll" => Offers(c)' /\ Gains(c),
           req[c].op = "Move" =>
              /\ pc'[c] = "detach" => /\ req'[c].from = Home /\ place'[req[c].vol] = Home
                                      /\ req[c].server # Home
              /\ pc'[c] = "attach" => place'[req[c].vol] = Detached /\ req[c].server # Home
              /\ pc'[c] = "verify" => place'[req[c].vol] = req[c].server,
           req[c].op = "Detach" => pc'[c] # "detach"
    PROVE  Goes(c)
<1>. USE OwnFacts
<1>1. Offers(c)' /\ Gains(c)
  <2>1. CASE req[c].op = "Ensure" /\ pc'[c] = "poll"
    BY <2>1
  <2>2. CASE ~(req[c].op = "Ensure" /\ pc'[c] = "poll")
    <3>1. Candidates(c)' = {}
      BY <2>2 DEF Candidates
    <3>. QED  BY <3>1 DEF Offers, Gains
  <2>. QED  BY <2>1, <2>2
<1>2. Moving(c)'
  <2>1. /\ rpc[c].kind = "Publish" => req[c].op = "Move"
        /\ rpc[c].kind = "Unpublish" => req[c].op = "Detach"
    BY KindOfCall
  <2>. QED  BY <2>1 DEF CallInv, Moving, Mine
<1>3. Answering(c)' /\ Pointing(c)'
  BY DEF CallInv, Answering, Pointing
<1>. QED  BY <1>1, <1>2, <1>3 DEF Goes, CallInv

\* The step is to look once more.
LEMMA AgainGoes ==
    ASSUME Setting, Inv, NEW c \in Callers, Progress(c), UNCHANGED ctrlVars,
           UNCHANGED <<apiVars, Local, pc, snap>>, pc[c] # "detach"
    PROVE  Goes(c)
<1>. USE OwnFacts
<1>1. /\ place' = place /\ attr' = attr /\ pc' = pc /\ snap' = snap
      /\ req' = req /\ ret' = ret
  BY DEF apiVars, Local
<1>2. Candidates(c)' = Candidates(c)
  BY <1>1 DEF Candidates, Volumes
<1>3. \A n \in Names : claim'[n].vol = claim[n].vol
  OBVIOUS
<1>4. \A v, n : Carries(v, n)' <=> Carries(v, n)
  BY <1>1 DEF Carries
<1>5. Locking(c)'
  BY <1>1, <1>4 DEF CallInv, Locking
<1>6. Offers(c)' /\ Gains(c)
  BY <1>1, <1>2, <1>3 DEF CallInv, Offers, Gains, Unclaimed
<1>7. Moving(c)' /\ Answering(c)' /\ Pointing(c)'
  BY <1>1 DEF CallInv, Moving, Answering, Pointing, Mine
<1>. QED  BY <1>5, <1>6, <1>7 DEF Goes, CallInv

\* The array of the home is kept for the PUT.
LEMMA KeepGoes ==
    ASSUME Setting, Inv, NEW c \in Callers, Progress(c), UNCHANGED ctrlVars,
           pc[c] = "read", UNCHANGED apiVars, NEW v, KeepSnap(c, v),
           req[c].op = "Ensure" /\ v = None
              => \A w \in VolIds : ~Carries(w, req[c].name),
           req[c].op = "Ensure" /\ v # None
              => Carries(v, req[c].name) /\ attr[v].size <= req[c].size,
           req[c].op = "Expand" => attr[v].size <= req[c].size
    PROVE  Goes(c)
<1>. USE OwnFacts
<1>1. req[c].server = Home
  BY DEF CallInv, Locking
<1>2. /\ pc'[c] = "write" /\ snap'[c] = Volumes(Home) /\ req'[c].vol = v
      /\ ret' = ret /\ place' = place /\ attr' = attr
  BY <1>1, VolumeTypes DEF KeepSnap, Goto, Reqs, apiVars
<1>3. \A w \in VolIds : place[w] = Home => snap'[c][w] = attr[w]
  BY <1>2 DEF Volumes
<1>4. \A w, n : Carries(w, n)' <=> Carries(w, n)
  BY <1>2 DEF Carries
<1>5. Locking(c)'
  BY <1>1, <1>2, <1>3, <1>4 DEF Locking
<1>6. req[c].op \in LockedOps
  BY DEF CtrlInv, TypeInv, CallOK
<1>. QED  BY <1>2, <1>5, <1>6, OnGoes

LEMMA ReadGoes ==
    ASSUME Setting, Inv, NEW c \in Callers, UNCHANGED ctrlVars,
           EnsureRead(c) \/ DeleteRead(c) \/ ExpandRead(c)
    PROVE  Goes(c)
<1>0. Progress(c) /\ UNCHANGED apiVars /\ pc[c] = "read"
  BY DEF Progress, EnsureRead, DeleteRead, ExpandRead
<1>. USE OwnFacts, HomeFacts
<1>1. /\ CtrlInv /\ req[c].server = Home /\ place' = place /\ attr' = attr
      /\ req[c].size \in Nat
  BY <1>0, VolumeTypes DEF CallInv, Locking, apiVars
<1>2. CASE EnsureRead(c)
  <2>. DEFINE named == Named(Volumes(Home), req[c].name)
  <2>1. req[c].op = "Ensure" /\ pc[c] # "idle"
    BY <1>0, <1>2 DEF EnsureRead
  <2>2. \A v : v \in named <=> v \in VolIds /\ place[v] = Home /\ attr[v].name = req[c].name
    <3>1. \A v \in VolIds : attr[v] # None
      BY <1>1, VolumeTypes
    <3>. QED  BY <3>1 DEF Named, Ids, Volumes
  <2>3. \A v \in named : Carries(v, req[c].name) /\ attr[v].size \in Nat /\ v # None
    BY <1>1, <2>2, VolumeTypes DEF Carries
  <2>4. \A v : Carries(v, req[c].name) => v \in named
    BY <2>1, <2>2, NamedIsFree DEF Carries
  <2>. HIDE DEF named
  <2>5. ASSUME NEW v \in named, attr[v].size >= req[c].size, Ok(c, v, Home)
        PROVE  Goes(c)
    BY <1>0, <1>1, <2>1, <2>2, <2>3, <2>5, NamedIsFree, OkGoes
  <2>6. ASSUME NEW v \in named, ~(attr[v].size >= req[c].size), KeepSnap(c, v)
        PROVE  Goes(c)
    <3>1. attr[v].size <= req[c].size
      BY <1>1, <2>3, <2>6
    <3>. QED  BY <1>0, <2>1, <2>3, <2>6, <3>1, KeepGoes
  <2>7. ASSUME named = {}, KeepSnap(c, None)  PROVE Goes(c)
    BY <1>0, <2>1, <2>4, <2>7, KeepGoes
  <2>. QED  BY <1>1, <1>2, <2>5, <2>6, <2>7 DEF EnsureRead, named
<1>3. CASE DeleteRead(c)
  <2>1. req[c].op = "Delete"
    BY <1>3 DEF DeleteRead
  <2>. QED  BY <1>0, <1>3, <2>1, OkGoes, FailGoes, KeepGoes DEF DeleteRead
<1>4. CASE ExpandRead(c)
  <2>1. req[c].op = "Expand" /\ req[c].vol \in VolIds
    BY <1>0, <1>1, <1>4 DEF ExpandRead, CtrlInv, TypeInv, CallOK
  <2>2. ~(attr[req[c].vol].size > req[c].size) => attr[req[c].vol].size <= req[c].size
    BY <1>1, <2>1, VolumeTypes
  <2>. QED  BY <1>0, <1>4, <2>1, <2>2, OkGoes, FailGoes, KeepGoes DEF ExpandRead
<1>. QED  BY <1>2, <1>3, <1>4

\* The PUT of EnsureVolume is answered: what it will find is what it asked for.
LEMMA WrittenOffers ==
    ASSUME Setting, Inv, NEW c \in Callers, Write(c), UNCHANGED ctrlVars,
           req[c].op = "Ensure", pc'[c] = "poll", snap' = snap, req' = req
    PROVE  Offers(c)' /\ Gains(c)
<1>0. Progress(c) /\ pc[c] = "write"
  BY DEF Progress, Write
<1>. USE OwnFacts, HomeFacts
<1>. DEFINE after == Volumes(Home)'
<1>1. /\ CtrlInv /\ req[c].server = Home /\ req[c].size \in Nat
      /\ \A v \in VolIds : place[v] = Home => snap[c][v] = attr[v] /\ attr[v] # None
      /\ \A v \in VolIds : after[v] = IF place'[v] = Home THEN attr'[v] ELSE None
      /\ Candidates(c)' = FindResized(snap[c], after, req[c])
  <2>1. CtrlInv /\ req[c].server = Home /\ req[c].size \in Nat
    BY <1>0, VolumeTypes DEF CallInv, Locking
  <2>2. \A v \in VolIds : place[v] = Home => snap[c][v] = attr[v] /\ attr[v] # None
    BY <1>0, VolumeTypes DEF CallInv, Locking
  <2>3. \A v \in VolIds : after[v] = IF place'[v] = Home THEN attr'[v] ELSE None
    BY DEF Volumes
  <2>4. Candidates(c)' = FindResized(snap[c], after, req[c])
    BY <2>1 DEF Candidates
  <2>. QED  BY <2>1, <2>2, <2>3, <2>4
<1>. HIDE DEF after
<1>2. \A v \in VolIds : Unclaimed(v) => Unclaimed(v)'
  BY <1>0 DEF Unclaimed
<1>3. ASSUME NEW v \in VolIds, Creates(c, v)  PROVE Offers(c)' /\ Gains(c)
  <2>1. /\ req[c].vol = None /\ place[v] = Unborn /\ place'[v] = Home
        /\ attr'[v].size = req[c].size /\ attr'[v].name \in {req[c].name, NoName}
        /\ \A w \in VolIds \ {v} : Same(w)
    BY <1>3 DEF Creates
  <2>2. \A w \in VolIds : ~Carries(w, req[c].name)
    BY <1>0, <2>1 DEF CallInv, Locking
  <2>3. ASSUME NEW w \in Ids(after), w # v
        PROVE  w \in Ids(snap[c]) /\ after[w].name # req[c].name
    <3>1. w \in VolIds /\ place'[w] = Home /\ after[w] = attr'[w]
      BY <1>1 DEF Ids
    <3>2. place[w] = Home /\ attr'[w] = attr[w]
      BY <2>1, <2>3, <3>1 DEF Same
    <3>3. attr[w].name # req[c].name
      BY <2>2, <3>1, <3>2 DEF Carries
    <3>. QED  BY <1>1, <3>1, <3>2, <3>3 DEF Ids
  <2>4. Candidates(c)' \subseteq {v}
    <3>1. Named(after, req[c].name) \subseteq {v}
      BY <2>3 DEF Named
    <3>2. FindNew(snap[c], after, req[c].size) \subseteq {v}
      BY <2>3 DEF FindNew
    <3>. QED  BY <1>1, <2>1, <3>1, <3>2 DEF FindResized
  <2>5. v \notin Roots
    BY <2>1 DEF Inv, RootIntact, Roots
  <2>6. Unclaimed(v)
    <3>1. ASSUME NEW n \in Names, claim[n].vol = v  PROVE FALSE
      <4>1. claim[n].phase # "pending"
        BY <3>1 DEF Inv, CtrlInv, ClaimOK
      <4>. QED  BY <2>1, <3>1, <4>1, OwnVolume
    <3>. QED  BY <3>1 DEF Unclaimed
  <2>7. Gains(c)
    BY <2>1, <2>4 DEF Gains
  <2>8. attr'[v].size >= req'[c].size
    BY <1>1, <2>1
  <2>9. Unclaimed(v)'
    BY <1>2, <2>6
  <2>. QED  BY <2>1, <2>4, <2>5, <2>7, <2>8, <2>9 DEF Offers
<1>4. ASSUME Resizes(c)  PROVE Offers(c)' /\ Gains(c)
  <2>1. req[c].vol \in VolIds /\ req[c].vol # None
    BY <1>4 DEF Resizes
  <2>2. Candidates(c)' \subseteq {req[c].vol}
    BY <1>1, <2>1 DEF FindResized
  <2>3. Carries(req[c].vol, req[c].name)
    BY <1>0, <2>1 DEF CallInv, Locking
  <2>4. req[c].vol \notin Roots /\ Unclaimed(req[c].vol) /\ place[req[c].vol] = Home
    BY <1>0, <1>1, <2>3, NamedIsFree
  <2>5. /\ place'[req[c].vol] = Home
        /\ attr'[req[c].vol].size = req[c].size
        /\ attr'[req[c].vol].name = req[c].name
    BY <1>4, <2>3, <2>4 DEF Resizes, Carries
  <2>6. attr'[req[c].vol].size >= req[c].size
    BY <1>1, <2>5
  <2>. QED  BY <1>2, <2>1, <2>2, <2>3, <2>4, <2>5, <2>6 DEF Offers, Gains
<1>5. ~Deletes(c)
  BY DEF Deletes
<1>. QED  BY <1>3, <1>4, <1>5, WriteEffect

LEMMA WriteGoes ==
    ASSUME Setting, Inv, NEW c \in Callers, Write(c), UNCHANGED ctrlVars
    PROVE  Goes(c)
<1>0. Progress(c) /\ pc[c] = "write"
  BY DEF Progress, Write
<1>1. req[c].op \in LockedOps
  BY <1>0 DEF Inv, CtrlInv, TypeInv, CallOK
<1>2. CASE Fail(c)
  BY <1>0, <1>2, FailGoes
<1>3. CASE req[c].op = "Delete" /\ Ok(c, req[c].vol, req[c].server)
  BY <1>0, <1>3, OkGoes
<1>4. CASE Goto(c, "poll") /\ UNCHANGED <<Local, snap, todo, tries>>
  <2>1. pc'[c] = "poll" /\ req' = req /\ ret' = ret /\ snap' = snap
    BY <1>4, VolumeTypes DEF Inv, Goto, Local
  <2>2. req[c].server = Home
    BY <1>0 DEF Inv, PlaceInv, CallInv, Locking
  <2>3. Locking(c)'
    BY <2>1, <2>2 DEF Locking
  <2>. QED  BY <1>0, <1>1, <2>1, <2>3, WrittenOffers, OnGoes
<1>. QED  BY <1>2, <1>3, <1>4 DEF Write

LEMMA PollGoes ==
    ASSUME Setting, Inv, NEW c \in Callers, Poll(c), UNCHANGED ctrlVars
    PROVE  Goes(c)
<1>0. Progress(c) /\ pc[c] = "poll" /\ UNCHANGED apiVars
  BY DEF Progress, Poll
<1>. DEFINE found == FindResized(snap[c], Volumes(req[c].server), req[c])
<1>1. /\ place' = place /\ attr' = attr
      /\ req[c].op = "Ensure" => found = Candidates(c)
      /\ req[c].op \in LockedOps
  BY <1>0 DEF apiVars, Candidates, Inv, CtrlInv, TypeInv, CallOK
<1>2. req[c].op = "Expand" => found \subseteq {req[c].vol}
  BY <1>0, HomeFacts DEF FindResized, Inv, CtrlInv, TypeInv, CallOK
<1>. HIDE DEF found
<1>3. ASSUME NEW v \in found, Ok(c, v, req[c].server)  PROVE Goes(c)
  <2>1. req[c].op = "Ensure" =>
           /\ v \in Candidates(c) /\ v \in VolIds \ Roots /\ Unclaimed(v) /\ place[v] = Home
           /\ attr[v].size >= req[c].size
           /\ attr[v].name \in {req[c].name, NoName}
    BY <1>1, <1>3 DEF Inv, PlaceInv, CallInv, Offers
  <2>2. req[c].op \notin {"Find", "Move", "Detach"}
    BY <1>1
  <2>. QED  BY <1>0, <1>1, <1>2, <1>3, <2>1, <2>2, OkGoes
<1>. QED  BY <1>0, <1>3, FailGoes, AgainGoes DEF Poll, found

\* Where the volume of a claim can be found: at home, or, while it is attached or
\* may be, on the server of its node.
LEMMA Whereabouts ==
    ASSUME Setting, Inv, NEW c \in Callers, pc[c] # "idle", req[c].op # "Ensure"
    PROVE  /\ req[c].vol = Mine(c).vol /\ req[c].vol \in VolIds \ Roots
           /\ rpc[c].kind = "Publish" => Mine(c).phase = "publishing"
           /\ rpc[c].kind = "Unpublish" => Mine(c).phase = "unpublishing"
           /\ rpc[c].kind = "Delete" => Mine(c).phase = "deleting"
           /\ \/ place[req[c].vol] \in {Home, Detached, Deleted}
              \/ Mine(c).phase \in OnNode /\ place[req[c].vol] = ServerOf[Mine(c).node]
           /\ place[req[c].vol] = Deleted => Mine(c).phase \in {"deleting", "gone"}
<1>1. /\ CtrlInv /\ rpc[c].kind # None /\ rpc[c].kind # "Create" /\ rpc[c].name \in Names
      /\ req[c].vol = Mine(c).vol /\ Mine(c).phase # "pending"
  BY KindOfCall DEF Inv
<1>2. Placed(rpc[c].name) /\ claim[rpc[c].name].vol \in VolIds \ Roots
  BY <1>1, OwnVolume DEF Mine
<1>3. ServerOf[Mine(c).node] # Deleted \/ Mine(c).phase \notin OnNode
  BY <1>1, HomeFacts, ControllerAssumption DEF CtrlInv, ClaimOK, Mine
<1>. QED  BY <1>1, <1>2, <1>3, MineIsGood, HomeFacts DEF Placed, Mine

LEMMA FindGoes ==
    ASSUME Setting, Inv, NEW c \in Callers, FindGet(c), UNCHANGED ctrlVars
    PROVE  Goes(c)
<1>0. Progress(c) /\ pc[c] = "find" /\ UNCHANGED apiVars
  BY DEF Progress, FindGet
<1>. USE OwnFacts, HomeFacts
<1>1. /\ req[c].op \in {"Find", "Move"} /\ place' = place /\ todo[c] \subseteq Servers
      /\ req[c].op = "Move" => rpc[c].kind = "Publish"
      /\ req[c].op = "Find" => rpc[c].kind = "Delete"
  BY <1>0, KindOfCall
  DEF apiVars, CtrlInv, TypeInv, TypeOK, ClientTypeOK, CallOK
<1>2. ASSUME NEW s \in todo[c], req[c].vol \in On(s)  PROVE place[req[c].vol] = s /\ s \in Servers
  BY <1>1, <1>2 DEF On
<1>3. req[c].op = "Move" => req[c].server = ServerOf[Mine(c).node]
  BY <1>0, <1>1 DEF CallInv, Moving
<1>4. ASSUME NEW s \in todo[c], req[c].vol \in On(s),
             req[c].op = "Find" \/ s # req[c].server
      PROVE  s = Home
  BY <1>0, <1>1, <1>2, <1>3, <1>4, Whereabouts DEF OnNode
<1>5. ASSUME NEW s \in todo[c], req[c].vol \in On(s),
             req[c].op = "Find" \/ s = req[c].server, Ok(c, req[c].vol, s)
      PROVE  Goes(c)
  <2>1. req[c].op = "Find" => s = Home
    BY <1>4, <1>5
  <2>2. place'[req[c].vol] = s /\ (req[c].op = "Move" => s = req[c].server)
    BY <1>1, <1>2, <1>5
  <2>. QED  BY <1>0, <1>1, <1>5, <2>1, <2>2, OkGoes
<1>6. ASSUME NEW s \in todo[c], req[c].vol \in On(s), req[c].op # "Find",
             s # req[c].server, req' = [req EXCEPT ![c].from = s], Goto(c, "detach"),
             UNCHANGED <<holder, snap, todo, tries, ret, asked, told>>
      PROVE  Goes(c)
  <2>1. pc'[c] = "detach" /\ req'[c].from = s /\ ret' = ret
    BY <1>0, <1>6, VolumeTypes DEF Goto, Reqs
  <2>2. s = Home /\ place'[req[c].vol] = Home /\ req[c].server # Home
    BY <1>1, <1>2, <1>4, <1>6
  <2>3. Locking(c)'
    BY <2>1 DEF Locking
  <2>. QED  BY <1>0, <1>1, <2>1, <2>2, <2>3, OnGoes
<1>7. ASSUME UNCHANGED <<Local, pc, snap, tries>>  PROVE Goes(c)
  <2>1. UNCHANGED <<apiVars, Local, pc, snap>>
    BY <1>0, <1>7
  <2>. QED  BY <1>0, <2>1, AgainGoes
<1>8. ASSUME Fail(c)  PROVE Goes(c)
  BY <1>0, <1>8, FailGoes
<1>. QED  BY <1>5, <1>6, <1>7, <1>8 DEF FindGet

LEMMA MoveGoes ==
    ASSUME Setting, Inv, NEW c \in Callers, Detach(c) \/ Attach(c), UNCHANGED ctrlVars
    PROVE  Goes(c)
<1>0. Progress(c) /\ pc[c] \in {"detach", "attach"}
  BY DEF Progress, Detach, Attach
<1>. USE OwnFacts, HomeFacts
<1>1. /\ req[c].op \in {"Move", "Detach"} /\ req[c].vol \in VolIds /\ CtrlInv
      /\ req[c].op = "Move" => rpc[c].kind = "Publish"
      /\ req[c].op = "Detach" => rpc[c].kind = "Unpublish"
      /\ pc[c] = "attach" => req[c].op = "Move"
  BY <1>0, KindOfCall DEF CtrlInv, TypeInv, CallOK
<1>2. ASSUME NEW step \in {"attach", "verify"}, Goto(c, step), UNCHANGED Local
      PROVE  pc'[c] = step /\ ret' = ret /\ Locking(c)'
  <2>1. pc'[c] = step /\ ret' = ret
    BY <1>0, <1>2, VolumeTypes DEF Goto, Local
  <2>. QED  BY <2>1 DEF Locking
<1>3. CASE Fail(c)
  BY <1>0, <1>3, FailGoes
<1>4. CASE Detach(c) /\ ~Fail(c)
  <2>1. /\ place' = IF place[req[c].vol] = req[c].from
                    THEN [place EXCEPT ![req[c].vol] = Detached] ELSE place
        /\ pc[c] = "detach"
    BY <1>4 DEF Detach, DetachFrom
  <2>2. CASE req[c].op = "Move"
    <3>1. Goto(c, "attach") /\ UNCHANGED Local
      BY <1>4, <2>2 DEF Detach
    <3>2. req[c].from = Home /\ place[req[c].vol] = Home /\ req[c].server # Home
      BY <1>0, <1>1, <2>1, <2>2 DEF CallInv, Moving
    <3>3. place'[req[c].vol] = Detached
      BY <1>0, <1>1, <2>1, <3>2, VolumeTypes
    <3>. QED  BY <1>0, <1>2, <2>2, <3>1, <3>2, <3>3, OnGoes
  <2>3. CASE req[c].op = "Detach"
    <3>1. Ok(c, req[c].vol, req[c].server)
      BY <1>4, <2>3 DEF Detach
    <3>2. req[c].from = ServerOf[Mine(c).node]
      BY <1>0, <1>1, <2>1, <2>3 DEF CallInv, Moving
    <3>3. place[req[c].vol] \in {Home, Detached, req[c].from}
      BY <1>0, <1>1, <2>3, <3>2, Whereabouts
    <3>4. place'[req[c].vol] \in {Home, Detached}
      BY <1>0, <1>1, <2>1, <3>3, VolumeTypes
    <3>. QED  BY <1>0, <2>3, <3>1, <3>4, OkGoes
  <2>. QED  BY <1>1, <2>2, <2>3
<1>5. CASE Attach(c) /\ ~Fail(c)
  <2>1. /\ place' = [place EXCEPT ![req[c].vol] = req[c].server]
        /\ Goto(c, "verify") /\ UNCHANGED Local /\ req[c].op = "Move"
    BY <1>1, <1>5 DEF Attach, AttachTo
  <2>2. place'[req[c].vol] = req[c].server
    BY <1>0, <1>1, <2>1, VolumeTypes
  <2>. QED  BY <1>0, <1>2, <2>1, <2>2, OnGoes
<1>. QED  BY <1>3, <1>4, <1>5

LEMMA VerifyGoes ==
    ASSUME Setting, Inv, NEW c \in Callers, Verify(c), UNCHANGED ctrlVars
    PROVE  Goes(c)
<1>0. Progress(c) /\ pc[c] = "verify" /\ UNCHANGED apiVars
  BY DEF Progress, Verify
<1>1. req[c].op = "Move" /\ place' = place
  BY <1>0 DEF Inv, CtrlInv, TypeInv, CallOK, apiVars
<1>2. ASSUME req[c].vol \in On(req[c].server), Ok(c, req[c].vol, req[c].server)
      PROVE  Goes(c)
  <2>1. place'[req[c].vol] = req[c].server
    BY <1>1, <1>2 DEF On
  <2>. QED  BY <1>0, <1>1, <1>2, <2>1, OkGoes
<1>. QED  BY <1>0, <1>2, FailGoes, AgainGoes DEF Verify

LEMMA LockGoes ==
    ASSUME Setting, Inv, NEW c \in Callers, Lock(c), UNCHANGED ctrlVars
    PROVE  Goes(c)
<1>0. Progress(c) /\ pc[c] = "lock"
  BY DEF Progress, Lock
<1>1. pc'[c] = "read" /\ req' = req /\ ret' = ret
  BY VolumeTypes DEF Lock, Goto, Inv
<1>2. req[c].server = Home
  BY <1>0 DEF Inv, PlaceInv, CallInv, Locking
<1>3. Locking(c)'
  BY <1>1, <1>2 DEF Locking
<1>. QED  BY <1>0, <1>1, <1>3, OnGoes

LEMMA ProgressGoes ==
    ASSUME Setting, Inv, NEW c \in Callers, Progress(c), UNCHANGED ctrlVars
    PROVE  Goes(c)
<1>1. CASE RequestFails(c)
  BY <1>1, FailGoes DEF RequestFails
<1>. QED
  BY <1>1, LockGoes, ReadGoes, WriteGoes, PollGoes, FindGoes, MoveGoes, VerifyGoes
  DEF Progress

-----------------------------------------------------------------------------
(* PlaceInv is inductive: the steps of the calls.                          *)

LEMMA ProgressPlace ==
    ASSUME Setting, Inv, NEW c \in Callers, Progress(c), UNCHANGED ctrlVars
    PROVE  PlaceInv'
<1>. USE OwnFacts, HomeFacts
<1>0. CtrlInv /\ Goes(c) /\ Settled /\ Strays /\ ClaimsAreDisjoint /\ OffersApart
  BY ProgressGoes DEF Inv, PlaceInv
<1>1. Settled'
  <2>1. ASSUME NEW v \in VolIds  PROVE attr'[v].size > 0
    <3>1. attr[v].size > 0 /\ attr[v].size \in Nat /\ attr'[v].size \in Nat
      BY <1>0, VolumeTypes DEF Settled, Effect
    <3>. QED  BY <3>1 DEF Effect, Same, Created
  <2>. QED  BY <1>0, <2>1 DEF Settled, Effect
<1>2. Strays'
  BY <1>0, EffectFacts DEF Strays, Unclaimed, Effect, Same, Created
<1>3. ClaimsAreDisjoint'
  BY <1>0 DEF ClaimsAreDisjoint
<1>4. ASSUME NEW d \in Callers, d # c
      PROVE  CallInv(d)' /\ Candidates(d)' \subseteq Candidates(d)
  <2>1. Apart(c, d)
    BY <1>4 DEF Apart, OneCall
  <2>. QED  BY <1>4, <2>1, OthersGoOn
<1>5. ASSUME NEW d \in Callers, d # c
      PROVE  Candidates(c)' \cap Candidates(d)' = {}
  <2>1. ASSUME NEW v \in Candidates(c)', v \in Candidates(d)  PROVE FALSE
    <3>1. place[v] = Home
      BY <2>1 DEF Inv, PlaceInv, CallInv, Offers
    <3>2. v \notin Candidates(c)
      BY <1>0, <1>5, <2>1 DEF OffersApart
    <3>3. Carries(v, req[c].name)
      BY <1>0, <2>1, <3>1, <3>2 DEF Goes, Gains
    <3>4. req[c].op = "Ensure"
      BY <2>1 DEF Candidates
    <3>. QED  BY <1>5, <2>1, <3>3, <3>4, NamedIsFree
  <2>. QED  BY <1>4, <1>5, <2>1
<1>6. OffersApart'
  BY <1>0, <1>4, <1>5 DEF OffersApart
<1>7. ASSUME NEW n \in Names  PROVE Placed(n)'
  <2>. DEFINE v == claim[n].vol
  <2>1. CASE claim[n].phase = "pending"
    BY <2>1 DEF Placed
  <2>2. CASE claim[n].phase # "pending"
    <3>1. v \in VolIds \ Roots /\ place[v] # Unborn /\ Placed(n)
          /\ claim[n].size \in Nat /\ attr[v].size \in Nat
      BY <1>0, <2>2, OwnVolume, VolumeTypes DEF ClaimRecord
    <3>2. /\ attr'[v].name = attr[v].name /\ attr'[v].size >= attr[v].size
          /\ attr'[v].size \in Nat
          /\ place'[v] = place[v] \/ Moved(c, v)
      BY <3>1 DEF Effect
    <3>3. /\ v \notin Roots /\ attr'[v].name \in {n, NoName}
          /\ claim[n].phase \notin {"deleting", "gone"} => attr'[v].size >= claim[n].size
      <4>1. attr[v].name \in {n, NoName}
        BY <2>2, <3>1 DEF Placed
      <4>2. claim[n].phase \notin {"deleting", "gone"} => attr[v].size >= claim[n].size
        BY <2>2, <3>1 DEF Placed
      <4>3. claim[n].phase \notin {"deleting", "gone"} => attr'[v].size >= claim[n].size
        BY <3>1, <3>2, <4>2
      <4>. QED  BY <3>1, <3>2, <4>1, <4>3
    <3>4. CASE place'[v] = place[v]
      BY <2>2, <3>1, <3>3, <3>4 DEF Placed
    <3>5. CASE Moved(c, v)
      <4>1. /\ rpc[c].kind # None /\ rpc[c].name \in Names /\ Mine(c).vol = v
            /\ rpc[c].kind \in {"Publish", "Unpublish", "Delete"}
        BY <3>5 DEF Moved
      <4>2. rpc[c].kind # "Create"
        BY <4>1
      <4>3. Mine(c).phase # "pending"
        BY <1>0, <4>1, <4>2, MineIsGood
      <4>4. rpc[c].name = n /\ Mine(c) = claim[n]
        BY <2>2, <4>1, <4>3, OwnVolume DEF Mine
      <4>5. /\ rpc[c].kind = "Publish" => claim[n].phase = "publishing"
            /\ rpc[c].kind = "Unpublish" => claim[n].phase = "unpublishing"
            /\ rpc[c].kind = "Delete" => claim[n].phase = "deleting"
        BY <1>0, <4>1, <4>4, MineIsGood
      <4>6. /\ claim[n].phase # "published"
            /\ \/ place'[v] \in {Home, Detached}
               \/ claim[n].phase \in OnNode /\ place'[v] = ServerOf[claim[n].node]
               \/ claim[n].phase \in {"deleting", "gone"} /\ place'[v] = Deleted
        BY <3>5, <4>4, <4>5 DEF Moved, OnNode
      <4>. QED  BY <3>3, <4>6 DEF Placed
    <3>. QED  BY <3>2, <3>4, <3>5
  <2>. QED  BY <2>1, <2>2
<1>. QED  BY <1>0, <1>1, <1>2, <1>3, <1>4, <1>6, <1>7 DEF PlaceInv, Goes

-----------------------------------------------------------------------------
(* PlaceInv is inductive: the RPCs begin and end.                          *)

Left(d) == /\ pc'[d] = pc[d] /\ req'[d] = req[d] /\ ret'[d] = ret[d]
           /\ snap'[d] = snap[d] /\ rpc'[d] = rpc[d]

LEMMA LeftGoes ==
    ASSUME Setting, Inv, UNCHANGED apiVars, NEW d \in Callers, Left(d),
           rpc[d].kind \in Attacher
              => claim'[rpc[d].name].node = claim[rpc[d].name].node,
           \A v \in Candidates(d) : Unclaimed(v)'
    PROVE  CallInv(d)' /\ Candidates(d)' = Candidates(d)
<1>1. place' = place /\ attr' = attr /\ CallInv(d)
  BY DEF apiVars, Inv, PlaceInv
<1>2. Candidates(d)' = Candidates(d)
  BY <1>1 DEF Left, Candidates, Volumes
<1>3. \A v, n : Carries(v, n)' <=> Carries(v, n)
  BY <1>1 DEF Carries
<1>4. Locking(d)'
  BY <1>1, <1>3 DEF CallInv, Locking, Left
<1>5. Offers(d)'
  BY <1>1, <1>2 DEF CallInv, Offers, Left
<1>6. Moving(d)' /\ Answering(d)' /\ Pointing(d)'
  BY <1>1 DEF CallInv, Moving, Answering, Pointing, Left, Mine, Attacher
<1>. QED  BY <1>2, <1>4, <1>5, <1>6 DEF CallInv

\* c begins or ends an RPC of the claim n; nothing happens on the appliance.
LEMMA QuietPlace ==
    ASSUME Setting, Inv, UNCHANGED apiVars, NEW c \in Callers, NEW n \in Names,
           \A d \in Callers : d # c => Left(d),
           CallInv(c)', Candidates(c)' = {},
           \A m \in Names : m # n => claim'[m] = claim[m],
           Placed(n)',
           \/ claim'[n].vol = claim[n].vol
           \/ claim[n].vol = None /\ claim'[n].vol \in Candidates(c),
           \/ claim'[n].node = claim[n].node
           \/ \A d \in Callers : d # c /\ rpc[d].name = n => rpc[d].kind \notin Attacher
    PROVE  PlaceInv'
<1>. USE HomeFacts
<1>0. /\ CtrlInv /\ Settled /\ Strays /\ ClaimsAreDisjoint /\ OffersApart
      /\ place' = place /\ attr' = attr /\ queue' = queue
      /\ \A v \in Candidates(c) : v \in VolIds /\ Unclaimed(v)
  BY DEF Inv, PlaceInv, CallInv, Offers, apiVars
<1>1. \A v \in VolIds : Unclaimed(v)' => Unclaimed(v)
  BY <1>0 DEF Unclaimed
<1>2. Settled' /\ Strays'
  BY <1>0, <1>1 DEF Settled, Strays
<1>3. ClaimsAreDisjoint'
  BY <1>0 DEF ClaimsAreDisjoint, Unclaimed
<1>4. ASSUME NEW d \in Callers, d # c
      PROVE  CallInv(d)' /\ Candidates(d)' = Candidates(d)
  <2>1. ASSUME NEW v \in Candidates(d)  PROVE Unclaimed(v)'
    <3>1. Unclaimed(v) /\ v \notin Candidates(c)
      BY <1>0, <1>4, <2>1 DEF Inv, PlaceInv, CallInv, Offers, OffersApart
    <3>. QED  BY <3>1 DEF Unclaimed
  <2>2. rpc[d].kind \in Attacher => claim'[rpc[d].name].node = claim[rpc[d].name].node
    <3>1. rpc[d].kind \in Attacher => rpc[d].name \in Names
      BY <1>0, MineIsGood, NoneIsNoRpc DEF Attacher
    <3>. QED  BY <1>4, <3>1
  <2>. QED  BY <1>4, <2>1, <2>2, LeftGoes
<1>5. OffersApart'
  <2>1. ASSUME NEW d \in Callers, NEW e \in Callers, d # e
        PROVE  Candidates(d)' \cap Candidates(e)' = {}
    <3>1. CASE d = c \/ e = c
      BY <3>1
    <3>2. CASE d # c /\ e # c
      BY <1>0, <1>4, <2>1, <3>2 DEF OffersApart
    <3>. QED  BY <3>1, <3>2
  <2>. QED  BY <2>1 DEF OffersApart
<1>6. ASSUME NEW m \in Names, m # n  PROVE Placed(m)'
  BY <1>0, <1>6 DEF Inv, PlaceInv, Placed
<1>. QED  BY <1>2, <1>3, <1>4, <1>5, <1>6 DEF PlaceInv

LEMMA EndPlace ==
    ASSUME Setting, Inv, NEW c \in Callers, NEW kind \in Rpcs, NEW k, End(c, kind, k),
           NEW n \in Names, rpc[c].name = n,
           ret[c].ok => /\ k.vol = Mine(c).vol \/ (Mine(c).vol = None /\ k.vol \in Candidates(c))
                        /\ k.node = Mine(c).node \/ kind \in Attacher
                        /\ UNCHANGED apiVars /\ claim'[n] = k => Placed(n)'
    PROVE  PlaceInv'
<1>0. CtrlInv /\ kind # None /\ rpc[c].kind = kind
  BY NoneIsNoRpc, MineIsGood DEF Inv, End, Rpcs, Provisioner, Attacher, Resizer
<1>1. /\ UNCHANGED apiVars /\ pc'[c] = "idle" /\ ~ret'[c].ok /\ rpc'[c].kind = None
      /\ \A d \in Callers : d # c => Left(d)
      /\ claim' = IF ret[c].ok THEN [claim EXCEPT ![n] = k] ELSE claim
  BY <1>0, VolumeTypes, ClaimTypes DEF End, Finish, Goto, NoRet, NoRpc, Left
<1>2. CallInv(c)' /\ Candidates(c)' = {}
  <2>1. Candidates(c)' = {}
    BY <1>1 DEF Candidates
  <2>. QED  BY <1>1, <2>1, NoneIsNoRpc DEF CallInv, Locking, Offers, Moving, Answering,
                                               Pointing
<1>3. Placed(n)
  BY <1>0 DEF Inv, PlaceInv
<1>4. CASE ~ret[c].ok
  <2>1. Placed(n)'
    BY <1>1, <1>3, <1>4 DEF Placed, apiVars
  <2>. QED  BY <1>0, <1>1, <1>2, <1>4, <2>1, QuietPlace
<1>5. CASE ret[c].ok
  <2>1. claim'[n] = k /\ \A m \in Names : m # n => claim'[m] = claim[m]
    BY <1>0, <1>1, <1>5, VolumeTypes
  <2>2. Mine(c) = claim[n] /\ Placed(n)'
    BY <1>1, <1>5, <2>1 DEF Mine
  <2>3. ASSUME NEW d \in Callers, d # c, rpc[d].name = n, kind \in Attacher
        PROVE  rpc[d].kind \notin Attacher
    <3>1. rpc[d].kind = None \/ rpc[d].kind = "Expand"
      BY <1>0, <2>3, OnlyExpands DEF Attacher
    <3>. QED  BY <3>1, NoneIsNoRpc DEF Attacher
  <2>4. claim'[n].vol = claim[n].vol \/ (claim[n].vol = None /\ claim'[n].vol \in Candidates(c))
    BY <1>5, <2>1, <2>2
  <2>5. \/ claim'[n].node = claim[n].node
        \/ \A d \in Callers : d # c /\ rpc[d].name = n => rpc[d].kind \notin Attacher
    BY <1>5, <2>1, <2>2, <2>3
  <2>. QED  BY <1>0, <1>1, <1>2, <2>1, <2>2, <2>4, <2>5, QuietPlace
<1>. QED  BY <1>4, <1>5

LEMMA EndsPlace ==
    ASSUME Setting, Inv, NEW c \in Callers,
           \/ VolumeCreated(c) \/ VolumePublished(c) \/ VolumeUnpublished(c)
           \/ VolumeDeleted(c) \/ VolumeExpanded(c)
    PROVE  PlaceInv'
<1>. DEFINE m == Mine(c)
<1>. USE NoneIsNoRpc, HomeFacts
<1>0. /\ CtrlInv /\ rpc[c].kind # None /\ pc[c] = "done" /\ Serves(c)
      /\ Offers(c) /\ Moving(c) /\ Answering(c)
  BY DEF VolumeCreated, VolumePublished, VolumeUnpublished, VolumeDeleted,
         VolumeExpanded, End, Finish, Inv, CtrlInv, RpcsOK, PlaceInv, CallInv
<1>8. PICK n \in Names : rpc[c].name = n
  BY <1>0, MineIsGood
<1>1. /\ GoodClaim(m) /\ m \in ClaimRecord /\ m = claim[n]
      /\ rpc[c].kind # "Create" => m.phase # "pending"
      /\ rpc[c].kind = "Publish" => m.phase = "publishing"
      /\ rpc[c].kind = "Unpublish" => m.phase = "unpublishing"
      /\ rpc[c].kind = "Delete" => m.phase = "deleting"
      /\ Placed(n)
  BY <1>0, <1>8, MineIsGood DEF GoodClaim, Mine, Inv, PlaceInv
<1>. HIDE DEF m
<1>2. UNCHANGED apiVars => place' = place /\ attr' = attr
  BY DEF apiVars
<1>3. CASE VolumeCreated(c)
  <2>. DEFINE k == [m EXCEPT !.phase = "bound", !.vol = ret[c].vol]
  <2>1. End(c, "Create", k) /\ rpc[c].kind = "Create"
    BY <1>3 DEF VolumeCreated, End, m
  <2>2. k.vol = ret[c].vol /\ k.node = m.node /\ k.size = m.size /\ k.phase = "bound"
    BY <1>1 DEF ClaimRecord
  <2>3. m.vol = None /\ req[c].op = "Ensure" /\ req[c].name = n /\ req[c].size = m.size
    BY <1>0, <1>8, <1>1, <2>1 DEF CtrlInv, RpcsOK, RpcFits, GoodClaim, Serves, m
  <2>. HIDE DEF k
  <2>4. ASSUME ret[c].ok
        PROVE  /\ k.vol \in Candidates(c)
               /\ UNCHANGED apiVars /\ claim'[n] = k => Placed(n)'
    <3>1. k.vol \in Candidates(c)
      BY <1>0, <2>2, <2>3, <2>4 DEF Candidates
    <3>2. /\ k.vol \notin Roots /\ place[k.vol] = Home /\ attr[k.vol].size >= k.size
          /\ attr[k.vol].name \in {n, NoName}
      BY <1>0, <2>2, <2>3, <3>1 DEF Offers
    <3>. QED  BY <1>2, <2>2, <3>1, <3>2 DEF Placed
  <2>. QED  BY <2>1, <2>2, <2>3, <2>4, <1>8, EndPlace DEF Rpcs, Provisioner, m
<1>4. CASE VolumePublished(c)
  <2>. DEFINE k == [m EXCEPT !.phase = "published"]
  <2>1. End(c, "Publish", k) /\ rpc[c].kind = "Publish"
    BY <1>4 DEF VolumePublished, End, m
  <2>2. k.vol = m.vol /\ k.node = m.node /\ k.size = m.size /\ k.phase = "published"
    BY <1>1 DEF ClaimRecord
  <2>. HIDE DEF k
  <2>3. ret[c].ok => place[m.vol] = ServerOf[m.node]
    BY <1>0, <2>1 DEF Moving, Serves, CallIs, m
  <2>4. ret[c].ok /\ UNCHANGED apiVars /\ claim'[n] = k => Placed(n)'
    BY <1>1, <1>2, <2>1, <2>2, <2>3 DEF Placed, OnNode
  <2>. QED  BY <2>1, <2>2, <2>4, <1>8, EndPlace DEF Rpcs, Attacher, m
<1>5. CASE VolumeUnpublished(c)
  <2>. DEFINE k == [m EXCEPT !.phase = "bound", !.node = None]
  <2>1. End(c, "Unpublish", k) /\ rpc[c].kind = "Unpublish"
    BY <1>5 DEF VolumeUnpublished, End, m
  <2>2. k.vol = m.vol /\ k.size = m.size /\ k.phase = "bound"
    BY <1>1 DEF ClaimRecord
  <2>. HIDE DEF k
  <2>3. ret[c].ok => place[m.vol] \in {Home, Detached}
    BY <1>0, <2>1 DEF Moving, Serves, CallIs, m
  <2>4. ret[c].ok /\ UNCHANGED apiVars /\ claim'[n] = k => Placed(n)'
    BY <1>1, <1>2, <2>1, <2>2, <2>3 DEF Placed
  <2>. QED  BY <2>1, <2>2, <2>4, <1>8, EndPlace DEF Rpcs, Attacher, m
<1>6. CASE VolumeDeleted(c)
  <2>. DEFINE k == [m EXCEPT !.phase = "gone"]
  <2>1. End(c, "Delete", k) /\ rpc[c].kind = "Delete"
    BY <1>6 DEF VolumeDeleted, End, m
  <2>2. k.vol = m.vol /\ k.node = m.node /\ k.phase = "gone"
    BY <1>1 DEF ClaimRecord
  <2>. HIDE DEF k
  <2>3. UNCHANGED apiVars /\ claim'[n] = k => Placed(n)'
    BY <1>1, <1>2, <2>1, <2>2 DEF Placed, OnNode
  <2>. QED  BY <2>1, <2>2, <2>3, <1>8, EndPlace DEF Rpcs, Provisioner, m
<1>7. CASE VolumeExpanded(c)
  <2>. DEFINE k == [m EXCEPT !.size = ret[c].size]
  <2>1. End(c, "Expand", k) /\ rpc[c].kind = "Expand"
    BY <1>7 DEF VolumeExpanded, End, m
  <2>2. k.vol = m.vol /\ k.node = m.node /\ k.phase = m.phase /\ k.size = ret[c].size
    BY <1>1 DEF ClaimRecord
  <2>. HIDE DEF k
  <2>3. ret[c].ok => attr[m.vol].size >= k.size
    BY <1>0, <2>1, <2>2 DEF Answering, Serves, CallIs, m
  <2>4. ret[c].ok /\ UNCHANGED apiVars /\ claim'[n] = k => Placed(n)'
    BY <1>1, <1>2, <2>1, <2>2, <2>3 DEF Placed
  <2>. QED  BY <2>1, <2>2, <2>4, <1>8, EndPlace DEF Rpcs, Resizer, m
<1>. QED  BY <1>3, <1>4, <1>5, <1>6, <1>7

\* The call an RPC begins with, for a claim on the node.
FirstCall(kind, step, r, node) ==
    /\ step \in {"lock", "find", "detach"}
    /\ step = "lock" => r.server = Home
    /\ kind = "Publish" => step = "find" /\ r.server = ServerOf[node]
    /\ kind = "Unpublish" => r.from = ServerOf[node]

LEMMA BeginPlace ==
    ASSUME Setting, Inv, NEW c \in Callers, NEW n \in Names, NEW kind \in Rpcs,
           Begin(c, n, kind), NEW r, NEW step, Call(c, r, step), NEW k,
           claim' = [claim EXCEPT ![n] = k], k.vol = claim[n].vol,
           k.node = claim[n].node \/ ~Busy(Attacher, n),
           FirstCall(kind, step, r, k.node),
           UNCHANGED apiVars /\ claim'[n] = k => Placed(n)'
    PROVE  PlaceInv'
<1>0. CtrlInv /\ kind # None
  BY NoneIsNoRpc DEF Inv, Rpcs, Provisioner, Attacher, Resizer
<1>1. /\ UNCHANGED apiVars /\ pc'[c] = step /\ req'[c] = r /\ ~ret'[c].ok
      /\ rpc'[c].kind = kind /\ rpc'[c].name = n /\ rpc'[c].current = None
      /\ \A d \in Callers : d # c => Left(d)
      /\ claim'[n] = k /\ \A m \in Names : m # n => claim'[m] = claim[m]
  BY <1>0, VolumeTypes, ClaimTypes DEF Begin, Call, Goto, NoRet, Left
<1>2. CallInv(c)' /\ Candidates(c)' = {}
  <2>1. Candidates(c)' = {}
    BY <1>1 DEF Candidates, FirstCall
  <2>2. Locking(c)' /\ Offers(c)' /\ Answering(c)' /\ Pointing(c)'
    BY <1>1, <2>1 DEF Locking, Offers, Answering, Pointing, FirstCall
  <2>3. Moving(c)'
    BY <1>1 DEF Moving, Mine, FirstCall
  <2>. QED  BY <2>1, <2>2, <2>3 DEF CallInv
<1>3. \/ claim'[n].node = claim[n].node
      \/ \A d \in Callers : d # c /\ rpc[d].name = n => rpc[d].kind \notin Attacher
  BY <1>1 DEF Busy
<1>. QED  BY <1>1, <1>2, <1>3, QuietPlace

\* The claim begins a phase in which its volume may be where it is.
LEMMA PhasePlaced ==
    ASSUME Setting, Inv, UNCHANGED apiVars, NEW n \in Names, NEW phase, NEW node,
           claim'[n] = Changed(n, phase, node),
           \/ /\ phase \in {"publishing", "unpublishing"}
              /\ \/ claim[n].phase = "bound"
                 \/ claim[n].phase \in OnNode /\ node = claim[n].node
           \/ phase = "deleting" /\ claim[n].phase \in {"bound", "deleting"}
    PROVE  Placed(n)'
<1>1. Placed(n) /\ claim[n] \in ClaimRecord /\ place' = place /\ attr' = attr
  BY VolumeTypes DEF Inv, PlaceInv, apiVars
<1>2. /\ claim'[n].phase = phase /\ claim'[n].node = node
      /\ claim'[n].vol = claim[n].vol /\ claim'[n].size = claim[n].size
  BY <1>1 DEF Changed, ClaimRecord
<1>. QED  BY <1>1, <1>2 DEF Placed, OnNode

LEMMA CreatePlace ==
    ASSUME Setting, Inv, NEW c \in Callers, NEW n \in Names, CreateVolume(c, n)
    PROVE  PlaceInv'
<1>. DEFINE r == [NoReq EXCEPT !.op = "Ensure", !.server = HomeOf[n],
                               !.name = n, !.size = claim[n].size]
<1>1. Call(c, r, "lock") /\ Begin(c, n, "Create") /\ claim' = claim
      /\ claim[n].phase = "pending"
  BY DEF CreateVolume, CallEnsure
<1>2. r.server = Home
  BY HomeFacts DEF NoReq
<1>. HIDE DEF r
<1>3. claim' = [claim EXCEPT ![n] = claim[n]]
  BY <1>1, VolumeTypes DEF Inv
<1>4. claim'[n] = claim[n] => Placed(n)'
  BY <1>1 DEF Placed
<1>5. "Create" \in Rpcs /\ FirstCall("Create", "lock", r, claim[n].node)
  BY <1>2 DEF Rpcs, Provisioner, FirstCall
<1>. QED  BY <1>1, <1>2, <1>3, <1>4, <1>5, BeginPlace

LEMMA PublishPlace ==
    ASSUME Setting, Inv, NEW c \in Callers, NEW n \in Names, NEW node \in Nodes,
           ControllerPublishVolume(c, n, node)
    PROVE  PlaceInv'
<1>1. PICK target \in ServerIDForNode(node, HomeOf[n]) \ {None} :
      \E S \in CandidateServerIDs({HomeOf[n], target}) :
          CallMove(c, HomeOf[n], target, claim[n].vol, S)
  BY DEF ControllerPublishVolume
<1>. DEFINE r == [NoReq EXCEPT !.op = "Move", !.server = target, !.vol = claim[n].vol]
            k == Changed(n, "publishing", node)
<1>2. Call(c, r, "find") /\ Begin(c, n, "Publish")
  BY <1>1 DEF CallMove, ControllerPublishVolume
<1>3. r.server = ServerOf[node]
  <2>1. target = ServerOf[node]
    BY <1>1 DEF Setting, NodesResolve
  <2>. QED  BY <2>1 DEF NoReq
<1>. HIDE DEF r
<1>4. /\ claim' = [claim EXCEPT ![n] = k]
      /\ claim[n].phase = "bound" \/ (claim[n].phase = "publishing" /\ node = claim[n].node)
  BY VolumeTypes DEF Inv, ControllerPublishVolume, ToPublish, Publishing, Changed
<1>5. k.node = node /\ k.vol = claim[n].vol
  BY VolumeTypes DEF Inv, Changed, ClaimRecord
<1>6. UNCHANGED apiVars /\ claim'[n] = k => Placed(n)'
  BY <1>4, PhasePlaced DEF OnNode
<1>. HIDE DEF k
<1>7. ~Busy(Attacher, n)
  BY <1>2, RpcKinds DEF Begin
<1>8. "Publish" \in Rpcs /\ FirstCall("Publish", "find", r, k.node)
  BY <1>3, <1>5 DEF Rpcs, Attacher, FirstCall
<1>. QED  BY <1>2, <1>3, <1>4, <1>5, <1>6, <1>7, <1>8, BeginPlace

LEMMA UnresolvedPlace ==
    ASSUME Setting, Inv, NEW c \in Callers, NEW n \in Names, NEW node \in Nodes,
           PublishUnresolved(c, n, node)
    PROVE  PlaceInv'
<1>. DEFINE k == Changed(n, "publishing", node)
<1>0. CtrlInv /\ rpc[c] = NoRpc /\ UNCHANGED <<vars, rpc>> /\ ~Busy(Attacher, n)
  BY DEF PublishUnresolved, Inv
<1>1. /\ claim' = [claim EXCEPT ![n] = k]
      /\ claim[n].phase = "bound" \/ (claim[n].phase = "publishing" /\ node = claim[n].node)
  BY <1>0, VolumeTypes DEF PublishUnresolved, ToPublish, Publishing, Changed
<1>2. /\ UNCHANGED apiVars /\ \A d \in Callers : Left(d)
      /\ claim'[n] = k /\ \A m \in Names : m # n => claim'[m] = claim[m]
  BY <1>0, <1>1, VolumeTypes DEF vars, clientVars, callVars, Left
<1>3. claim'[n].vol = claim[n].vol
  BY <1>0, <1>2, VolumeTypes DEF Changed, ClaimRecord
<1>4. Placed(n)'
  BY <1>1, <1>2, PhasePlaced DEF OnNode
<1>5. pc[c] = "idle" /\ Candidates(c) = {}
  BY <1>0 DEF CtrlInv, RpcsOK, Serves, NoRpc, Candidates
<1>6. CallInv(c)' /\ Candidates(c)' = {}
  <2>1. rpc[c].kind \notin Attacher
    BY <1>0, NoneIsNoRpc DEF NoRpc, Attacher
  <2>. QED  BY <1>2, <1>5, <2>1, LeftGoes
<1>7. \A d \in Callers : d # c /\ rpc[d].name = n => rpc[d].kind \notin Attacher
  BY <1>0 DEF Busy
<1>. HIDE DEF k
<1>. QED  BY <1>2, <1>3, <1>4, <1>6, <1>7, QuietPlace

LEMMA UnpublishPlace ==
    ASSUME Setting, Inv, NEW c \in Callers, NEW n \in Names,
           ControllerUnpublishVolume(c, n)
    PROVE  PlaceInv'
<1>1. PICK s \in ServerIDForNode(claim[n].node, HomeOf[n]) \ {None} :
          CallDetach(c, s, claim[n].vol)
  BY DEF ControllerUnpublishVolume
<1>. DEFINE r == [NoReq EXCEPT !.op = "Detach", !.server = s, !.from = s,
                               !.vol = claim[n].vol]
            k == Changed(n, "unpublishing", claim[n].node)
<1>2. Call(c, r, "detach") /\ Begin(c, n, "Unpublish")
  BY <1>1 DEF CallDetach, ControllerUnpublishVolume
<1>3. claim[n].phase \in OnNode /\ claim[n].node \in Nodes
  BY DEF ControllerUnpublishVolume, OnNode, Inv, CtrlInv, ClaimOK
<1>4. r.from = ServerOf[claim[n].node]
  <2>1. s = ServerOf[claim[n].node]
    BY <1>1, <1>3 DEF Setting, NodesResolve
  <2>. QED  BY <2>1 DEF NoReq
<1>. HIDE DEF r
<1>5. claim' = [claim EXCEPT ![n] = k]
  BY VolumeTypes DEF Inv, ControllerUnpublishVolume, Changed, ClaimRecord
<1>6. k.node = claim[n].node /\ k.vol = claim[n].vol
  BY VolumeTypes DEF Inv, Changed, ClaimRecord
<1>7. UNCHANGED apiVars /\ claim'[n] = k => Placed(n)'
  BY <1>3, PhasePlaced
<1>. HIDE DEF k
<1>8. "Unpublish" \in Rpcs /\ FirstCall("Unpublish", "detach", r, k.node)
  BY <1>4, <1>6 DEF Rpcs, Attacher, FirstCall
<1>. QED  BY <1>2, <1>4, <1>5, <1>6, <1>7, <1>8, BeginPlace

LEMMA DeletePlace ==
    ASSUME Setting, Inv, NEW c \in Callers, NEW n \in Names, DeleteVolume(c, n)
    PROVE  PlaceInv'
<1>. DEFINE r == [NoReq EXCEPT !.op = "Find", !.vol = claim[n].vol]
            k == Changed(n, "deleting", claim[n].node)
<1>1. Call(c, r, "find") /\ Begin(c, n, "Delete")
  BY DEF CallFind, DeleteVolume
<1>. HIDE DEF r
<1>2. claim' = [claim EXCEPT ![n] = k] /\ claim[n].phase \in {"bound", "deleting"}
  BY VolumeTypes DEF Inv, DeleteVolume, Changed, ClaimRecord
<1>3. k.node = claim[n].node /\ k.vol = claim[n].vol
  BY VolumeTypes DEF Inv, Changed, ClaimRecord
<1>4. UNCHANGED apiVars /\ claim'[n] = k => Placed(n)'
  BY <1>2, PhasePlaced
<1>. HIDE DEF k
<1>5. "Delete" \in Rpcs /\ FirstCall("Delete", "find", r, k.node)
  BY DEF Rpcs, Provisioner, FirstCall
<1>. QED  BY <1>1, <1>2, <1>3, <1>4, <1>5, BeginPlace

LEMMA ExpandPlace ==
    ASSUME Setting, Inv, NEW c \in Callers, NEW n \in Names, NEW size \in Sizes,
           ControllerExpandVolume(c, n, size)
    PROVE  PlaceInv'
<1>. DEFINE r == [NoReq EXCEPT !.op = "Expand", !.server = HomeOf[n],
                               !.vol = claim[n].vol, !.size = size]
<1>1. Call(c, r, "lock") /\ Begin(c, n, "Expand") /\ claim' = claim
  BY DEF ControllerExpandVolume, CallExpand
<1>2. r.server = Home
  BY HomeFacts DEF NoReq
<1>. HIDE DEF r
<1>3. claim' = [claim EXCEPT ![n] = claim[n]]
  BY <1>1, VolumeTypes DEF Inv
<1>4. UNCHANGED apiVars => Placed(n)'
  BY <1>1 DEF Inv, PlaceInv, Placed, apiVars
<1>5. "Expand" \in Rpcs /\ FirstCall("Expand", "lock", r, claim[n].node)
  BY <1>2 DEF Rpcs, Resizer, FirstCall
<1>. QED  BY <1>1, <1>2, <1>3, <1>4, <1>5, BeginPlace

\* FindVolume can have found the volume on the home only, and there it is deleted.
LEMMA LocatedPlace ==
    ASSUME Setting, Inv, NEW c \in Callers, DeleteLocated(c) \/ DeleteCurrentRef(c)
    PROVE  PlaceInv'
<1>. USE ClaimTypes, VolumeTypes, HomeFacts, NoneIsNoRpc
<1>0. /\ CtrlInv /\ rpc[c].kind = "Delete" /\ UNCHANGED <<apiVars, claim>>
      /\ Answering(c) /\ rpc[c].current \in {None, Home}
  BY DEF DeleteLocated, DeleteCurrentRef, Finish, CallDelete, Call, ctrlVars, Inv,
         PlaceInv, CallInv, Answering
<1>1. PICK n \in Names : rpc[c].name = n
  BY <1>0
<1>2. \A d \in Callers : d # c => Left(d)
  BY <1>0 DEF DeleteLocated, DeleteCurrentRef, Finish, CallDelete, Call, Goto,
              ctrlVars, Left
<1>3. /\ ~ret'[c].ok /\ pc'[c] \in {"idle", "lock"}
      /\ rpc'[c].kind = "Delete" /\ rpc'[c].current \in {None, Home}
      /\ pc'[c] = "lock" => req'[c].server = Home
  <2>1. CASE DeleteLocated(c)
    BY <1>0, <1>1, <2>1 DEF DeleteLocated, Finish, Goto, NoRet, Answering
  <2>2. CASE DeleteCurrentRef(c)
    <3>. DEFINE r == [NoReq EXCEPT !.op = "Delete", !.server = rpc[c].current,
                                   !.vol = Mine(c).vol]
    <3>1. Call(c, r, "lock") /\ rpc' = rpc /\ rpc[c].current = Home
      BY <1>0, <2>2 DEF DeleteCurrentRef, CallDelete, ctrlVars
    <3>2. r.server = rpc[c].current
      BY DEF NoReq
    <3>. HIDE DEF r
    <3>. QED  BY <1>0, <3>1, <3>2 DEF Call, Goto, NoRet
  <2>. QED  BY <2>1, <2>2
<1>4. CallInv(c)' /\ Candidates(c)' = {}
  <2>1. Candidates(c)' = {}
    BY <1>3 DEF Candidates
  <2>. QED  BY <1>3, <2>1 DEF CallInv, Locking, Offers, Moving, Answering,
                                               Pointing
<1>5. Placed(n)'
  BY <1>0 DEF Inv, PlaceInv, Placed, apiVars
<1>. QED  BY <1>0, <1>2, <1>4, <1>5, QuietPlace

LEMMA RestartPlace ==
    ASSUME Setting, Inv, CtrlRestart
    PROVE  PlaceInv'
<1>1. /\ place' = place /\ attr' = attr /\ queue' = queue /\ claim' = claim
      /\ \A c \in Callers : pc'[c] = "idle" /\ ~ret'[c].ok /\ rpc'[c].kind = None
  BY DEF CtrlRestart, Restart, apiVars, NoRet, NoRpc
<1>2. ASSUME NEW c \in Callers  PROVE CallInv(c)' /\ Candidates(c)' = {}
  <2>1. Candidates(c)' = {}
    BY <1>1 DEF Candidates
  <2>. QED  BY <1>1, <2>1, NoneIsNoRpc DEF CallInv, Locking, Offers, Moving, Answering,
                                               Pointing
<1>3. Settled' /\ Strays' /\ ClaimsAreDisjoint' /\ OffersApart'
  BY <1>1, <1>2 DEF Inv, PlaceInv, Settled, Strays, Unclaimed, ClaimsAreDisjoint, OffersApart
<1>4. \A n \in Names : Placed(n)'
  BY <1>1 DEF Inv, PlaceInv, Placed
<1>. QED  BY <1>2, <1>3, <1>4 DEF PlaceInv

LEMMA NextPlace ==
    ASSUME Setting, Inv, [CtrlNext]_allVars
    PROVE  PlaceInv'
<1>1. ASSUME NEW c \in Callers, Serve(c)  PROVE PlaceInv'
  BY <1>1, EndsPlace, LocatedPlace, ProgressPlace DEF Serve
<1>2. ASSUME NEW n \in Names, Provision(n)  PROVE PlaceInv'
  BY <1>2, CreatePlace, DeletePlace DEF Provision
<1>3. ASSUME NEW n \in Names, NEW node \in Nodes, Publish(n, node)  PROVE PlaceInv'
  BY <1>3, PublishPlace, UnresolvedPlace DEF Publish
<1>4. ASSUME NEW n \in Names, NEW c \in Callers,
             \/ ControllerUnpublishVolume(c, n)
             \/ \E size \in Sizes : ControllerExpandVolume(c, n, size)
      PROVE  PlaceInv'
  BY <1>4, UnpublishPlace, ExpandPlace
<1>5. ASSUME NEW n \in Names, Forget(n)  PROVE FALSE
  BY <1>5 DEF Setting, NothingForgotten, Forget
<1>6. ~Appliance
  BY DEF Inv, PlaceInv, Settled, Appliance, Apply, JobFails
<1>7. CASE CtrlRestart
  BY <1>7, RestartPlace
<1>8. CASE UNCHANGED allVars
  <2>1. /\ place' = place /\ attr' = attr /\ queue' = queue
        /\ pc' = pc /\ req' = req /\ ret' = ret /\ snap' = snap
        /\ rpc' = rpc /\ claim' = claim
    BY <1>8 DEF allVars, vars, apiVars, clientVars, callVars, ctrlVars
  <2>2. ASSUME NEW c \in Callers  PROVE CallInv(c)' /\ Candidates(c)' = Candidates(c)
    <3>1. \A v : Unclaimed(v) => Unclaimed(v)'
      BY <2>1 DEF Unclaimed
    <3>2. \A v \in Candidates(c) : Unclaimed(v)'
      BY <3>1 DEF Inv, PlaceInv, CallInv, Offers
    <3>. QED  BY <2>1, <3>2, LeftGoes DEF apiVars, Left
  <2>3. Settled' /\ Strays' /\ ClaimsAreDisjoint' /\ OffersApart'
    BY <2>1, <2>2
    DEF Inv, PlaceInv, Settled, Strays, Unclaimed, ClaimsAreDisjoint, OffersApart
  <2>4. \A n \in Names : Placed(n)'
    BY <2>1 DEF Inv, PlaceInv, Placed
  <2>. QED  BY <2>2, <2>3, <2>4 DEF PlaceInv
<1>. QED
  BY <1>1, <1>2, <1>3, <1>4, <1>5, <1>6, <1>7, <1>8 DEF CtrlNext

LEMMA InitPlace ==
    ASSUME Setting, CtrlInit
    PROVE  PlaceInv
<1>. USE HomeFacts
<1>1. /\ \A c \in Callers : /\ pc[c] = "idle" /\ req[c] = NoReq /\ ~ret[c].ok
                            /\ rpc[c].kind = None
      /\ \A n \in Names : claim[n].phase = "pending" /\ claim[n].vol = None
  <2>1. PICK wanted \in [Names -> Sizes] :
          claim = [n \in Names |-> [phase |-> "pending", vol |-> None,
                                    node |-> None, size |-> wanted[n]]]
    BY DEF CtrlInit
  <2>. QED  BY <2>1 DEF CtrlInit, Init, NoRet, NoRpc
<1>2. /\ \A s \in Servers : queue[s] = <<>>
      /\ \A v \in VolIds : attr[v].size = 1
      /\ \A v \in VolIds \ Roots : place[v] = Unborn
  BY DEF CtrlInit, Init, ApiInit
<1>3. \A c \in Callers : CallInv(c) /\ Candidates(c) = {}
  <2>1. \A c \in Callers : Candidates(c) = {}
    BY <1>1 DEF Candidates
  <2>. QED  BY <1>1, <2>1, NoneIsNoRpc DEF CallInv, Locking, Offers, Moving, Answering,
                                               Pointing
<1>4. Settled /\ Strays /\ ClaimsAreDisjoint /\ OffersApart
  BY <1>1, <1>2, <1>3 DEF Settled, Strays, ClaimsAreDisjoint, OffersApart
<1>. QED  BY <1>1, <1>3, <1>4 DEF PlaceInv, Placed

\* Inv holds always; the mutexes and the root disks are the client's business.
LEMMA PlaceInvariant ==
    ASSUME Setting
    PROVE  CtrlSpec => []Inv
<1>. DEFINE Own == CtrlInv /\ OthersNameless /\ PlaceInv
            Client == LockDiscipline /\ RootIntact
<1>1. CtrlInit => Own
  <2>1. CtrlInit => OthersNameless
    BY DEF CtrlInit, Init, NoReq, OthersNameless
  <2>. QED  BY <2>1, InitCtrlInv, InitPlace
<1>2. Own /\ Client /\ [CtrlNext]_allVars => Own'
  <2>. SUFFICES ASSUME Own, Client, [CtrlNext]_allVars  PROVE Own'
    OBVIOUS
  <2>1. [Next]_vars /\ CtrlInv'
    BY CtrlStepIsClientStep, NextCtrlInv
  <2>2. OthersNameless'
    BY <2>1, NamelessGoesOn
  <2>3. PlaceInv'
    BY NextPlace DEF Inv
  <2>. QED  BY <2>1, <2>2, <2>3
<1>3. CtrlSpec => []Client
  BY CtrlKeepsClientSafe
<1>4. Own /\ Client => Inv
  BY DEF Inv
<1>. HIDE DEF Own, Client
<1>. QED  BY <1>1, <1>2, <1>3, <1>4, PTL DEF CtrlSpec

\* controller.go:98-157: a volume Kubernetes was told is published is attached to
\* the server of the node, whatever other claims, retries, failures, restarts
\* and expansions do: neither a repeated ControllerPublishVolume nor a detach
\* or a delete of another volume moves it.
THEOREM VolumesStayPublished ==
    ASSUME Setting
    PROVE  CtrlSpec => []PublishedIsAttached
<1>1. Inv => PublishedIsAttached
  BY DEF Inv, PlaceInv, Placed, PublishedIsAttached
<1>. QED  BY <1>1, PlaceInvariant, PTL

\* client.go:110-117 and controller.go:27-190: no RPC, and no array sent for
\* another claim, deletes or shrinks the volume of a claim that is in use, and
\* its size is never less than Kubernetes was told.
THEOREM ClaimsKeepTheirVolumes ==
    ASSUME Setting
    PROVE  CtrlSpec => []ClaimKeepsItsVolume
<1>1. ASSUME Inv, NEW n \in Names, claim[n].phase \notin {"pending", "deleting", "gone"}
      PROVE  Live(claim[n].vol) /\ attr[claim[n].vol].size >= claim[n].size
  <2>1. Placed(n)
    BY <1>1 DEF Inv, PlaceInv
  <2>2. claim[n].phase \in OnNode => ServerOf[claim[n].node] \in Servers
    BY <1>1, ControllerAssumption DEF Inv, CtrlInv, ClaimOK
  <2>. QED  BY <1>1, <2>1, <2>2, HomeFacts DEF Placed, Live
<1>2. Inv => ClaimKeepsItsVolume
  BY <1>1 DEF ClaimKeepsItsVolume
<1>. QED  BY <1>2, PlaceInvariant, PTL

\* client.go:756-786: findNewVolume takes any new disk of the server that is
\* large enough, and still no two claims are given the same one, also when the
\* appliance does not report the requested names back.
THEOREM ClaimsAreApartWithoutNames ==
    ASSUME Setting
    PROVE  CtrlSpec => []ClaimsAreDisjoint
<1>1. Inv => ClaimsAreDisjoint
  BY DEF Inv, PlaceInv
<1>. QED  BY <1>1, PlaceInvariant, PTL

\* client.go:289-343: where FindVolume says the volume is, there it is when
\* DeleteVolume uses the answer, and the volume ControllerPublishVolume answers
\* for is on the server of the node - with any number of RPCs under way.
THEOREM AnswersStayTrue ==
    ASSUME Setting
    PROVE  CtrlSpec => []AnswerIsWhereVolumeIs
<1>1. Inv => AnswerIsWhereVolumeIs
  BY DEF Inv, PlaceInv, CallInv, Pointing, AnswerIsWhereVolumeIs
<1>. QED  BY <1>1, PlaceInvariant, PTL

-----------------------------------------------------------------------------
(* The volumes change as VolumeStore says.                                 *)

\* A call under way asks for no deletion, and takes the mutex at its start only.
LEMMA ProgressAsks ==
    ASSUME TypeInv, NEW c \in Callers, Progress(c)
    PROVE  /\ asked' = asked
           /\ pc'[c] \in {"lock", "read", "write"} => pc[c] \in {"lock", "read", "write"}
<1>0. pc \in [Callers -> Steps]
  BY DEF TypeInv, TypeOK, ClientTypeOK
<1>1. CASE Lock(c)
  BY <1>0, <1>1 DEF Lock
<1>2. CASE EnsureRead(c) \/ DeleteRead(c) \/ ExpandRead(c)
  BY <1>2 DEF EnsureRead, DeleteRead, ExpandRead, Ok, Fail, Return, KeepSnap
<1>3. CASE Write(c)
  BY <1>3 DEF Write, Ok, Fail, Return, Local
<1>4. ASSUME NEW r, Return(c, r)
      PROVE  asked' = asked /\ pc'[c] = "done"
  BY <1>0, <1>4 DEF Return, Goto
<1>5. ASSUME UNCHANGED Local, pc' = pc \/ \E step \in {"attach", "verify"} : Goto(c, step),
             pc[c] \in {"poll", "find", "detach", "attach", "verify"}
      PROVE  asked' = asked /\ pc'[c] \notin {"lock", "read", "write"}
  BY <1>0, <1>5 DEF Local, Goto
<1>6. CASE Poll(c) \/ Verify(c)
  BY <1>4, <1>5, <1>6 DEF Poll, Verify, Ok, Fail
<1>7. CASE FindGet(c)
  <2>1. CASE Goto(c, "detach") /\ asked' = asked
    BY <1>0, <2>1 DEF Goto
  <2>. QED  BY <1>4, <1>5, <1>7, <2>1 DEF FindGet, Ok, Fail
<1>8. CASE Detach(c) \/ Attach(c)
  BY <1>4, <1>5, <1>8 DEF Detach, Attach, Ok, Fail
<1>9. CASE RequestFails(c)
  BY <1>4, <1>9 DEF RequestFails, Fail
<1>. QED
  BY <1>1, <1>2, <1>3, <1>6, <1>7, <1>8, <1>9 DEF Progress

\* What a call asks for when it starts, it still asks for at its PUT.
LEMMA RequestGoesOn ==
    ASSUME TypeInv, Requested, [Next]_vars
    PROVE  Requested'
<1>0. pc \in [Callers -> Steps] /\ req \in [Callers -> Reqs]
  BY DEF TypeInv, TypeOK, ClientTypeOK
<1>1. ASSUME NEW c \in Callers, Progress(c)  PROVE Requested'
  <2>1. OneCall(c)
    BY <1>1, ProgressFacts
  <2>2. /\ asked' = asked
        /\ pc'[c] \in {"lock", "read", "write"} => pc[c] \in {"lock", "read", "write"}
    BY <1>1, ProgressAsks
  <2>3. \A d \in Callers : /\ req'[d].op = req[d].op /\ req'[d].name = req[d].name
                           /\ req'[d].server = req[d].server /\ req'[d].size = req[d].size
                           /\ req[d].op # "Ensure" => req'[d].vol = req[d].vol
                           /\ pc'[d] \in {"lock", "read", "write"}
                              => pc[d] \in {"lock", "read", "write"}
    BY <2>1, <2>2 DEF OneCall
  <2>. QED  BY <2>2, <2>3 DEF Requested
<1>2. ASSUME NEW c \in Callers, NEW r, NEW step, Call(c, r, step), asked \subseteq asked',
             step = "lock" =>
              /\ r.op = "Delete" => r.vol \in asked'
              /\ r.op # "Delete" => r.size \in Sizes
              /\ r.op = "Ensure" => r.server = HomeOf[r.name]
              /\ r.op = "Expand" => r.name = NoName,
             step \in {"lock", "find", "detach"}
      PROVE  Requested'
  <2>1. /\ pc'[c] = step /\ req'[c] = r
        /\ \A d \in Callers : d # c => pc'[d] = pc[d] /\ req'[d] = req[d]
    BY <1>0, <1>2 DEF Call, Goto
  <2>. QED  BY <1>2, <2>1 DEF Requested
<1>3. ASSUME NEW c \in Callers, Start(c)  PROVE Requested'
  <2>1. ASSUME NEW n \in Names, NEW size \in Sizes, CallEnsure(c, n, size)
        PROVE  Requested'
    <3>. DEFINE r == [NoReq EXCEPT !.op = "Ensure", !.server = HomeOf[n], !.name = n,
                                   !.size = size]
    <3>1. r.op = "Ensure" /\ r.size = size /\ r.server = HomeOf[r.name]
      BY DEF NoReq
    <3>2. Call(c, r, "lock") /\ asked' = asked
      BY <2>1 DEF CallEnsure
    <3>. HIDE DEF r
    <3>. QED  BY <1>2, <3>1, <3>2
  <2>2. ASSUME NEW s \in Servers, NEW v \in VolIds, CallDelete(c, s, v)
        PROVE  Requested'
    <3>. DEFINE r == [NoReq EXCEPT !.op = "Delete", !.server = s, !.vol = v]
    <3>1. r.op = "Delete" /\ r.vol = v
      BY DEF NoReq
    <3>2. Call(c, r, "lock") /\ asked' = asked \cup {v}
      BY <2>2 DEF CallDelete
    <3>. HIDE DEF r
    <3>. QED  BY <1>2, <3>1, <3>2
  <2>3. ASSUME NEW s \in Servers, NEW v \in VolIds, NEW size \in Sizes,
               CallExpand(c, s, v, size)
        PROVE  Requested'
    <3>. DEFINE r == [NoReq EXCEPT !.op = "Expand", !.server = s, !.vol = v, !.size = size]
    <3>1. r.op = "Expand" /\ r.size = size /\ r.name = NoName
      BY DEF NoReq
    <3>2. Call(c, r, "lock") /\ asked' = asked
      BY <2>3 DEF CallExpand
    <3>. HIDE DEF r
    <3>. QED  BY <1>2, <3>1, <3>2
  <2>4. ASSUME NEW s \in Servers, NEW v \in VolIds, CallDetach(c, s, v)
        PROVE  Requested'
    <3>. DEFINE r == [NoReq EXCEPT !.op = "Detach", !.server = s, !.from = s, !.vol = v]
    <3>1. Call(c, r, "detach") /\ asked' = asked
      BY <2>4 DEF CallDetach
    <3>. HIDE DEF r
    <3>. QED  BY <1>2, <3>1
  <2>5. ASSUME NEW v \in VolIds, NEW S, CallFind(c, v, S)
        PROVE  Requested'
    <3>. DEFINE r == [NoReq EXCEPT !.op = "Find", !.vol = v]
    <3>1. Call(c, r, "find") /\ asked' = asked
      BY <2>5 DEF CallFind
    <3>. HIDE DEF r
    <3>. QED  BY <1>2, <3>1
  <2>6. ASSUME NEW v \in VolIds, NEW S, NEW s \in Servers, CallMove(c, None, s, v, S)
        PROVE  Requested'
    <3>. DEFINE r == [NoReq EXCEPT !.op = "Move", !.server = s, !.vol = v]
    <3>1. Call(c, r, "find") /\ asked' = asked
      BY <2>6 DEF CallMove
    <3>. HIDE DEF r
    <3>. QED  BY <1>2, <3>1
  <2>. QED  BY <1>3, <2>1, <2>2, <2>3, <2>4, <2>5, <2>6 DEF Start
<1>4. ASSUME NEW c \in Callers, Finish(c)  PROVE Requested'
  <2>1. /\ pc'[c] = "idle" /\ asked' = asked
        /\ \A d \in Callers : d # c => pc'[d] = pc[d] /\ req'[d] = req[d]
    BY <1>0, <1>4 DEF Finish, Goto
  <2>. QED  BY <2>1 DEF Requested
<1>5. CASE Restart
  BY <1>5 DEF Restart, Requested
<1>6. CASE Appliance \/ UNCHANGED vars
  BY <1>6 DEF Appliance, vars, clientVars, callVars, Requested
<1>. QED  BY <1>1, <1>3, <1>4, <1>5, <1>6 DEF Next, Step

\* The PUT of an array provisions, grows or destroys one volume, or none.
LEMMA WriteStores ==
    ASSUME Setting, Inv, Requested, NEW c \in Callers, Write(c), TypeOK'
    PROVE  [Store!Next]_(Store!storeVars)
<1>. USE HomeFacts, VolumeTypes
<1>0. /\ CtrlInv /\ pc[c] = "write" /\ asked' = asked
      /\ place' \in [VolIds -> Servers \cup {Unborn, Detached, Deleted}]
      /\ attr' \in [VolIds -> Attr]
  BY WriteEffect DEF Inv, Write, Ok, Fail, Return, Local, TypeOK, ApiTypeOK
<1>1. ASSUME NEW v \in VolIds, Creates(c, v)  PROVE Store!Next
  <2>. DEFINE n == req[c].name
  <2>1. n \in Names /\ HomeOf[n] = Home
    BY <1>0, <1>1, EnsureCalls DEF Creates
  <2>2. req[c].size \in Sizes
    BY <1>0, <1>1 DEF Requested, Creates
  <2>3. \A w \in VolIds : place[w] = HomeOf[n] => attr[w].name # n
    BY <1>0, <1>1, <2>1 DEF Inv, PlaceInv, CallInv, Locking, Creates, Carries
  <2>4. place' = [place EXCEPT ![v] = HomeOf[n]]
    BY <1>0, <1>1, <2>1 DEF Creates, Same
  <2>5. attr' = [attr EXCEPT ![v] =
                  [name |-> IF KeepsNames THEN n ELSE NoName, size |-> req[c].size]]
    BY <1>0, <1>1 DEF Creates, Same
  <2>6. Store!Provision(n, req[c].size)
    BY <1>0, <1>1, <2>3, <2>4, <2>5 DEF Creates, Store!Provision, Unborn
  <2>. QED  BY <2>1, <2>2, <2>6 DEF Store!Next
<1>2. CASE Resizes(c)
  <2>. DEFINE v == req[c].vol
              size == req[c].size
  <2>1. /\ v \in VolIds /\ v # None /\ req[c].op \in {"Ensure", "Expand"}
        /\ size \in Sizes /\ attr[v].size <= size
    BY <1>0, <1>2 DEF Resizes, Requested, Inv, PlaceInv, CallInv, Locking, CtrlInv, TypeInv,
                      CallOK
  <2>2. v \notin Roots
    <3>1. CASE req[c].op = "Ensure"
      <4>1. Carries(v, req[c].name)
        BY <1>0, <2>1, <3>1 DEF Inv, PlaceInv, CallInv, Locking
      <4>. QED  BY <1>0, <3>1, <4>1, NamedIsFree
    <3>2. CASE req[c].op = "Expand"
      BY <1>0, <3>2, OtherCalls, OwnVolume DEF Mine
    <3>. QED  BY <2>1, <3>1, <3>2
  <2>3. place' = place
    BY <1>0, <1>2 DEF Resizes, Same
  <2>4. CASE place[v] = Home /\ size > attr[v].size
    <3>1. attr[v] \in Attr /\ attr'[v] = [name |-> attr[v].name, size |-> size]
      BY <1>0, <1>2, <2>1, <2>4 DEF Resizes
    <3>2. attr'[v] = [attr[v] EXCEPT !.size = size]
      BY <3>1 DEF Attr
    <3>3. attr' = [attr EXCEPT ![v].size = size]
      BY <1>0, <1>2, <3>2 DEF Resizes, Same
    <3>4. Store!Grow(v, size)
      BY <1>0, <2>1, <2>2, <2>3, <2>4, <3>3
      DEF Store!Grow, Store!Attached, Store!IsRoot, Roots
    <3>. QED  BY <2>1, <3>4 DEF Store!Next
  <2>5. CASE ~(place[v] = Home /\ size > attr[v].size)
    <3>1. attr'[v] = attr[v]
      <4>1. attr[v] \in Attr /\ (place[v] = Home => size = attr[v].size)
        BY <1>0, <2>1, <2>5
      <4>. QED  BY <1>0, <1>2, <4>1 DEF Resizes, Attr
    <3>2. attr' = attr
      BY <1>0, <1>2, <3>1 DEF Resizes, Same
    <3>. QED  BY <1>0, <2>3, <3>2 DEF Store!storeVars
  <2>. QED  BY <2>4, <2>5
<1>3. CASE Deletes(c)
  <2>. DEFINE v == req[c].vol
  <2>1. v \in VolIds \ Roots /\ v \in asked
    <3>1. v \in asked
      BY <1>0, <1>3 DEF Deletes, Requested
    <3>2. rpc[c].name \in Names /\ v = claim[rpc[c].name].vol
          /\ claim[rpc[c].name].phase # "pending"
      BY <1>0, <1>3, OtherCalls DEF Deletes, Mine
    <3>. QED  BY <3>1, <3>2, OwnVolume
  <2>2. attr' = attr
    BY <1>0, <1>3 DEF Deletes, Same
  <2>3. CASE place[v] = Home
    <3>1. place' = [place EXCEPT ![v] = Deleted]
      BY <1>0, <1>3, <2>3 DEF Deletes, Same
    <3>2. Store!Destroy(v)
      BY <1>0, <2>1, <2>2, <2>3, <3>1
      DEF Store!Destroy, Store!Attached, Store!IsRoot, Roots, Deleted
    <3>. QED  BY <2>1, <3>2 DEF Store!Next
  <2>4. CASE place[v] # Home
    <3>1. place' = place
      BY <1>0, <1>3, <2>4 DEF Deletes, Same
    <3>. QED  BY <1>0, <2>2, <3>1 DEF Store!storeVars
  <2>. QED  BY <2>3, <2>4
<1>. QED  BY <1>1, <1>2, <1>3, WriteEffect

\* A PUT of a detach or an attach moves the volume of the RPC's claim.
LEMMA MoveStores ==
    ASSUME Setting, Inv, NEW c \in Callers, Detach(c) \/ Attach(c)
    PROVE  [Store!Next]_(Store!storeVars)
<1>. USE HomeFacts, VolumeTypes
<1>. DEFINE v == req[c].vol
<1>1. /\ CtrlInv /\ pc[c] \in {"detach", "attach"} /\ attr' = attr /\ asked' = asked
      /\ req[c].op \in {"Move", "Detach"}
  BY DEF Inv, CtrlInv, TypeInv, CallOK, Detach, Attach, DetachFrom, AttachTo, Ok, Fail,
         Return, Local
<1>2. v \in VolIds \ Roots
  BY <1>1, OtherCalls, OwnVolume DEF Mine
<1>3. CASE Detach(c)
  <2>0. req[c].from \in Servers
    <3>1. pc[c] = "detach" /\ rpc[c].kind \in {"Publish", "Unpublish"}
      BY <1>1, <1>3, KindOfCall DEF Detach
    <3>2. CASE rpc[c].kind = "Publish"
      BY <3>1, <3>2 DEF Inv, PlaceInv, CallInv, Moving
    <3>3. CASE rpc[c].kind = "Unpublish"
      <4>1. req[c].from = ServerOf[Mine(c).node]
        BY <3>1, <3>3 DEF Inv, PlaceInv, CallInv, Moving
      <4>2. rpc[c].name \in Names /\ Mine(c).phase = "unpublishing"
        BY <1>1, <3>3, NoneIsNoRpc DEF CtrlInv, RpcsOK, RpcFits
      <4>3. Mine(c).node \in Nodes
        BY <1>1, <4>2 DEF CtrlInv, ClaimOK, OnNode, Mine
      <4>. QED  BY <4>1, <4>3, ControllerAssumption
    <3>. QED  BY <3>1, <3>2, <3>3
  <2>1. CASE place[v] = req[c].from
    <3>1. Store!Detach(v)
      BY <1>1, <1>2, <1>3, <2>0, <2>1
      DEF Detach, DetachFrom, Detached, Store!Detach, Store!Attached, Store!IsRoot, Roots
    <3>. QED  BY <1>2, <3>1 DEF Store!Next
  <2>2. CASE place[v] # req[c].from
    BY <1>1, <1>3, <2>2 DEF Detach, DetachFrom, Store!storeVars
  <2>. QED  BY <2>1, <2>2
<1>4. CASE Attach(c)
  <2>1. req[c].op = "Move" /\ req[c].server \in Servers /\ pc[c] = "attach"
    BY <1>1, <1>4 DEF Attach, CtrlInv, TypeInv, CallOK
  <2>2. place[v] = Detached
    BY <1>1, <2>1, KindOfCall DEF Inv, PlaceInv, CallInv, Moving
  <2>3. Store!Attach(v, req[c].server)
    BY <1>1, <1>4, <2>2 DEF Attach, AttachTo, Detached, Store!Attach
  <2>. QED  BY <1>2, <2>1, <2>3 DEF Store!Next
<1>. QED  BY <1>3, <1>4

LEMMA CallsAreRequested == CtrlSpec => []Requested
<1>1. Init => Requested
  BY DEF Init, Requested
<1>2. TypeInv /\ Requested /\ [Next]_vars => Requested'
  BY RequestGoesOn
<1>. QED  BY <1>1, <1>2, InitTypeInv, NextTypeInv, ControllerUsesClient, PTL DEF Spec

LEMMA CtrlStoreStep ==
    ASSUME Setting, Inv, Requested, [CtrlNext]_allVars
    PROVE  [Store!Next]_(Store!storeVars)
<1>1. ASSUME UNCHANGED <<place, attr, asked>>
      PROVE  [Store!Next]_(Store!storeVars)
  BY <1>1 DEF Store!storeVars
<1>2. [Next]_vars /\ TypeOK'
  BY CtrlStepIsClientStep, NextTypeInv DEF Inv, CtrlInv, TypeInv
<1>3. CASE UNCHANGED vars
  BY <1>1, <1>3 DEF vars, apiVars, clientVars
<1>4. CASE Restart
  BY <1>1, <1>4 DEF Restart, apiVars
<1>5. ~Appliance
  BY DEF Inv, PlaceInv, Settled, Appliance, Apply, JobFails
<1>6. ASSUME NEW c \in Callers, Step(c), ~(Write(c) \/ Detach(c) \/ Attach(c))
      PROVE  [Store!Next]_(Store!storeVars)
  <2>1. UNCHANGED <<place, attr, asked>>
    BY <1>6
    DEF Step, Progress, Lock, EnsureRead, DeleteRead, ExpandRead, Poll, FindGet, Verify,
        RequestFails, Finish, Ok, Fail, Return, KeepSnap, Local, apiVars
  <2>. QED  BY <1>1, <2>1, Zenon
<1>7. ASSUME NEW c \in Callers, Start(c)
      PROVE  [Store!Next]_(Store!storeVars)
  <2>1. ASSUME NEW s \in Servers, NEW v \in VolIds, CallDelete(c, s, v)
        PROVE  Store!Next
    <3>1. Store!Ask(v)
      BY <2>1 DEF CallDelete, Call, Known, Unborn, apiVars, Store!Ask
    <3>. QED  BY <3>1 DEF Store!Next
  <2>2. CASE ~ \E s \in Servers, v \in VolIds : CallDelete(c, s, v)
    <3>1. UNCHANGED <<place, attr, asked>>
      BY <1>7, <2>2
      DEF Start, CallEnsure, CallExpand, CallDetach, CallFind, CallMove, Call, apiVars
    <3>. QED  BY <1>1, <3>1
  <2>. QED  BY <2>1, <2>2
<1>. QED  BY <1>2, <1>3, <1>4, <1>5, <1>6, <1>7, WriteStores, MoveStores DEF Next, Step, Progress

\* Under the controller every volume is provisioned, grown, moved and destroyed
\* by steps that touch no other volume: the RPCs of all claims, run concurrently
\* with failures and restarts in between, implement the abstract store.
THEOREM ControllerRefinesStore ==
    ASSUME Setting
    PROVE  CtrlSpec => ImplementsStore
<1>1. Inv /\ Requested /\ [CtrlNext]_allVars => [Store!Next]_(Store!storeVars)
  BY CtrlStoreStep
<1>2. CtrlInit => Store!Init
  BY InitStore DEF CtrlInit
<1>. QED
  BY <1>1, <1>2, PlaceInvariant, CallsAreRequested, PTL
  DEF CtrlSpec, ImplementsStore, Store!Spec

\* client.go:110-117: a volume goes only when DeleteVolume was called for it,
\* also while other RPCs detach volumes from the server whose array is sent.
THEOREM ControllerDropsNothing ==
    ASSUME Setting
    PROVE  CtrlSpec => []NoSilentDrop
<1>1. CtrlInit => NoSilentDrop
  <2>. SUFFICES ASSUME CtrlInit, NEW v \in VolIds  PROVE place[v] # Deleted
    BY DEF NoSilentDrop
  <2>1. CASE v \in Roots
    BY <2>1, InitRoots, ApiAssumption DEF CtrlInit, Roots, RootIntact
  <2>2. CASE v \notin Roots
    BY <2>2 DEF CtrlInit, Init, ApiInit, Unborn, Deleted
  <2>. QED  BY <2>1, <2>2
<1>2. /\ Inv => TypeOK
      /\ TypeOK /\ [Store!Next]_(Store!storeVars) /\ NoSilentDrop => NoSilentDrop'
  BY StoreStepKeeps DEF Inv, CtrlInv, TypeInv
<1>. QED
  BY <1>1, <1>2, PlaceInvariant, ControllerRefinesStore, PTL
  DEF CtrlSpec, ImplementsStore, Store!Spec

\* client.go:359-384 and 427-452: the size an array writes back is never out of date, also
\* when the volume was moved between the GET and the PUT: no RPC makes a live
\* volume smaller.
THEOREM ControllerNeverShrinks ==
    ASSUME Setting
    PROVE  CtrlSpec => NeverShrinks
<1>1. Inv /\ Requested /\ [CtrlNext]_allVars
      => [\A v \in VolIds : Live(v) => attr'[v].size >= attr[v].size]_vars
  BY CtrlStoreStep, StoreStepKeeps DEF Inv, CtrlInv, TypeInv
<1>. QED
  BY <1>1, PlaceInvariant, CallsAreRequested, PTL DEF CtrlSpec, NeverShrinks
=============================================================================

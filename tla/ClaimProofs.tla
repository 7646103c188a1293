----------------------------- MODULE ClaimProofs -----------------------------
(***************************************************************************)
(* What Kubernetes relies on (the end of ControllerService), for every     *)
(* number of claims, nodes, servers, volumes and callers.                  *)
(*                                                                         *)
(* The theorems need an appliance on which a resize of a server that       *)
(* CreateVolume provisions on takes effect before its PUT is answered      *)
(* (HomesAtOnce); the README lists what goes wrong otherwise.              *)
(***************************************************************************)
EXTENDS ControllerServiceProofs

USE DEF LockedOps, AllOps

HomesAtOnce == \A n \in Names : MaxDeferred[HomeOf[n]] = 0

-----------------------------------------------------------------------------
(* The steps of the controller, sorted by what they change.                *)

\* An RPC or a call begins or ends, or everything is lost in a restart: no call
\* goes on, and the appliance does nothing.
Quiet ==
    /\ UNCHANGED apiVars /\ told' = told
    /\ \A d \in Callers :
        /\ snap'[d] \in {snap[d], NoArray}
        /\ pc'[d] \in {"read", "write", "poll", "attach", "verify", "done"}
           => /\ pc'[d] = pc[d] /\ req'[d] = req[d]
              /\ ret'[d] = ret[d] /\ snap'[d] = snap[d]

LEMMA QuietOrNot ==
    ASSUME TypeInv, [Next]_vars
    PROVE  (\E c \in Callers : Progress(c)) \/ Quiet \/ Appliance
<1>0. /\ pc \in [Callers -> Steps] /\ req \in [Callers -> Reqs]
      /\ ret \in [Callers -> Rets] /\ snap \in [Callers -> Arrays]
  BY DEF TypeInv, TypeOK, ClientTypeOK
<1>1. ASSUME NEW c \in Callers, Finish(c)  PROVE Quiet
  BY <1>0, <1>1 DEF Finish, Goto, Quiet
<1>2. ASSUME NEW c \in Callers, Start(c)  PROVE Quiet
  <2>1. PICK r, step : Call(c, r, step) /\ step \in {"lock", "find", "detach"}
    BY <1>2 DEF Start, CallEnsure, CallDelete, CallDetach, CallExpand, CallFind, CallMove
  <2>. QED  BY <1>0, <2>1, SMTT(30) DEF Call, Goto, Quiet
<1>3. CASE Restart
  BY <1>3 DEF Restart, Quiet
<1>4. CASE UNCHANGED vars
  BY <1>4 DEF vars, clientVars, callVars, Quiet
<1>. QED  BY <1>1, <1>2, <1>3, <1>4 DEF Next, Step

\* A claim gets its volume from the answer of its CreateVolume, once; it never
\* goes back to waiting for one.
Adopts(c, n) ==
    /\ rpc[c].kind = "Create" /\ rpc[c].name = n
    /\ pc[c] = "done" /\ ret[c].ok
    /\ claim' = [claim EXCEPT ![n] = [@ EXCEPT !.phase = "bound", !.vol = ret[c].vol]]

ClaimStays(n) ==
    /\ claim'[n].vol = claim[n].vol
    /\ claim'[n].phase = "pending" <=> claim[n].phase = "pending"

LEMMA VolumesStay ==
    ASSUME CtrlInv, [CtrlNext]_allVars, NEW n \in Names
    PROVE  ClaimStays(n) \/ \E c \in Callers : Adopts(c, n)
<1>. USE CtrlInvTypes DEF CtrlTypes, ClaimRecord, Phases
<1>1. ASSUME claim' = claim  PROVE ClaimStays(n)
  BY <1>1 DEF ClaimStays
<1>2. ASSUME NEW c \in Callers, VolumeCreated(c)  PROVE ClaimStays(n) \/ Adopts(c, n)
  <2>1. rpc[c].kind # None
    BY <1>2, NoneIsNoRpc DEF VolumeCreated, End
  <2>2. rpc[c].name \in Names
    BY <2>1, MineIsGood
  <2>. QED  BY <1>2, <2>2 DEF VolumeCreated, End, Finish, Mine, Adopts, ClaimStays
<1>3. ASSUME NEW c \in Callers,
             \/ VolumePublished(c) \/ VolumeUnpublished(c) \/ VolumeDeleted(c)
             \/ VolumeExpanded(c)
      PROVE  ClaimStays(n)
  <2>1. rpc[c].kind # None /\ rpc[c].kind # "Create"
    BY <1>3, NoneIsNoRpc DEF VolumePublished, VolumeUnpublished, VolumeDeleted,
                             VolumeExpanded, End
  <2>2. rpc[c].name \in Names /\ Mine(c).phase # "pending"
    BY <2>1, MineIsGood
  <2>3. ASSUME NEW kind, NEW k, End(c, kind, k), k.vol = Mine(c).vol,
               k.phase # "pending"
        PROVE  ClaimStays(n)
    BY <2>2, <2>3 DEF End, Mine, ClaimStays
  <2>4. CASE VolumePublished(c)
    BY <2>2, <2>3, <2>4 DEF VolumePublished, Mine
  <2>5. CASE VolumeUnpublished(c)
    <3>. DEFINE k == [Mine(c) EXCEPT !.phase = "bound", !.node = None]
    <3>1. End(c, "Unpublish", k)
      BY <2>5 DEF VolumeUnpublished
    <3>2. k.vol = Mine(c).vol /\ k.phase # "pending"
      BY <2>2 DEF Mine
    <3>. HIDE DEF k
    <3>. QED  BY <2>3, <3>1, <3>2
  <2>6. CASE VolumeDeleted(c)
    BY <2>2, <2>3, <2>6 DEF VolumeDeleted, Mine
  <2>7. CASE VolumeExpanded(c)
    BY <2>2, <2>3, <2>7 DEF VolumeExpanded, Mine
  <2>. QED  BY <1>3, <2>4, <2>5, <2>6, <2>7
<1>4. ASSUME NEW c \in Callers, Serve(c)  PROVE ClaimStays(n) \/ Adopts(c, n)
  BY <1>1, <1>2, <1>3, <1>4 DEF Serve, DeleteLocated, DeleteCurrentRef, ctrlVars
<1>5. ASSUME NEW m \in Names, Provision(m)  PROVE ClaimStays(n)
  BY <1>1, <1>5 DEF Provision, CreateVolume, DeleteVolume, ClaimStays
<1>6. ASSUME NEW m \in Names, NEW node \in Nodes, Publish(m, node)  PROVE ClaimStays(n)
  BY <1>6 DEF Publish, ControllerPublishVolume, PublishUnresolved, ToPublish,
              Publishing, ClaimStays
<1>7. ASSUME NEW m \in Names,
             \/ \E c \in Callers : \/ ControllerUnpublishVolume(c, m)
                                   \/ \E size \in Sizes :
                                         ControllerExpandVolume(c, m, size)
             \/ Forget(m)
      PROVE  ClaimStays(n)
  BY <1>1, <1>7 DEF ControllerUnpublishVolume, ControllerExpandVolume, Forget, ClaimStays
<1>8. CASE UNCHANGED ctrlVars \/ CtrlRestart
  BY <1>1, <1>8 DEF CtrlRestart, ctrlVars
<1>. QED
  BY <1>1, <1>4, <1>5, <1>6, <1>7, <1>8 DEF CtrlNext, allVars, ctrlVars

-----------------------------------------------------------------------------
(* What an array does to the names of volumes.                             *)

\* v was created, under the name n.
Carries(v, n) == v \in VolIds /\ place[v] # Unborn /\ attr[v].name = n

\* The items of an array are volumes under the names they have.
Knows(a) == \A v \in Ids(a) : place[v] # Unborn /\ a[v].name = attr[v].name

NamesKept == \A v \in VolIds : place[v] # Unborn =>
                /\ place'[v] # Unborn
                /\ attr'[v].name = attr[v].name

NoBirth == \A v \in VolIds : place'[v] # Unborn => place[v] # Unborn

\* One volume is created, on s, under the name n.
Birth(s, n) ==
    \E v \in VolIds :
        /\ place[v] = Unborn /\ place'[v] = s /\ attr'[v].name = n
        /\ \A w \in VolIds \ {v} : place'[w] # Unborn => place[w] # Unborn

\* What was created stays where it is, unless the array is for its server and
\* omits it.
Untouched(s, p) ==
    \A v \in VolIds : /\ place[v] # Unborn
                      /\ place[v] # s \/ v \in Ids(p.keep)
                      => place'[v] = place[v]

LEMMA EffectOnNames ==
    ASSUME KeepsNames, ApiTypeOK, NEW s \in Servers, NEW p \in Payloads,
           Knows(p.keep), TakeEffect(s, p)
    PROVE  /\ NamesKept /\ Untouched(s, p)
           /\ p.new = None => NoBirth
           /\ p.new # None => Birth(s, p.new.name)
<1>1. PICK fresh \in IF p.new = None THEN {None} ELSE Fresh :
          place' = PlaceAfter(s, p, fresh) /\ attr' = AttrAfter(s, p, fresh)
  BY DEF TakeEffect
<1>2. None \notin VolIds /\ s # Unborn /\ Deleted # Unborn
  BY ApiAssumption DEF Unborn, Deleted
<1>3. ASSUME NEW v \in VolIds, v # fresh
      PROVE  /\ place'[v] = IF place[v] = s /\ v \notin Ids(p.keep) THEN Deleted
                            ELSE place[v]
             /\ attr'[v] = IF place[v] = s /\ v \in Ids(p.keep) THEN p.keep[v]
                           ELSE attr[v]
  BY <1>1, <1>3 DEF PlaceAfter, AttrAfter
<1>4. p.new # None => fresh \in VolIds /\ place[fresh] = Unborn
  BY <1>1 DEF Fresh
<1>5. p.new = None => fresh \notin VolIds
  BY <1>1, <1>2
<1>6. \A v \in VolIds : place[v] # Unborn => v # fresh
  BY <1>4, <1>5
<1>7. NamesKept /\ Untouched(s, p)
  BY <1>2, <1>3, <1>6 DEF NamesKept, Untouched, Knows
<1>8. p.new = None => NoBirth
  BY <1>2, <1>3, <1>5 DEF NoBirth
<1>9. ASSUME p.new # None  PROVE Birth(s, p.new.name)
  <2>1. place'[fresh] = s /\ attr'[fresh].name = p.new.name
    BY <1>1, <1>4, <1>9 DEF PlaceAfter, AttrAfter
  <2>2. \A w \in VolIds \ {fresh} : place'[w] # Unborn => place[w] # Unborn
    BY <1>2, <1>3
  <2>. QED  BY <1>4, <1>9, <2>1, <2>2 DEF Birth
<1>. QED  BY <1>7, <1>8, <1>9

-----------------------------------------------------------------------------
(* Names. The appliance reports the requested name back. Servers           *)
(* other than the claims' homes may defer resizes, volumes move, and calls *)
(* fail at any point.                                                      *)

\* Arrays carry no name a volume does not have, and no array that asks for a new
\* volume is outstanding.
QueuesNamed ==
    /\ \A s \in Servers : \A i \in 1..Len(queue[s]) :
          queue[s][i].new = None /\ Knows(queue[s][i].keep)
    /\ \A n \in Names : queue[HomeOf[n]] = <<>>

ArraysNamed == QueuesNamed /\ \A c \in Callers : Knows(snap[c])

\* A name is given once.
OneOfAName ==
    \A v, w \in VolIds :
        /\ place[v] # Unborn /\ place[w] # Unborn
        /\ attr[v].name = attr[w].name /\ attr[v].name # NoName
        => v = w

\* What an earlier attempt left for a claim that waits for its volume is where
\* the next attempt looks, and in every array about to be written there.
WaitsAtHome ==
    \A n \in Names : \A v \in VolIds : claim[n].phase = "pending" /\ Carries(v, n) =>
        /\ place[v] = HomeOf[n]
        /\ \A c \in Callers : pc[c] = "write" /\ req[c].server = HomeOf[n]
              => v \in Ids(snap[c])

\* From its GET on, EnsureVolume knows of every volume of the name.
EnsureNames(c) ==
    req[c].op = "Ensure" =>
        /\ pc[c] \in {"write", "poll"} /\ req[c].vol # None
           => Carries(req[c].vol, req[c].name)
        /\ pc[c] = "write" /\ req[c].vol = None
           => \A v \in VolIds : ~Carries(v, req[c].name)
        /\ pc[c] = "poll" => \E v \in VolIds : Carries(v, req[c].name)
        /\ pc[c] = "done" /\ ret[c].ok => Carries(ret[c].vol, req[c].name)

\* Only EnsureVolume asks for a name.
OthersNameless == \A c \in Callers : req[c].op # "Ensure" => req[c].name = NoName

ClaimsNamed ==
    \A n \in Names : /\ claim[n].vol # None => Carries(claim[n].vol, n)
                     /\ \A v \in told[n] : Carries(v, n)

NameInv == /\ ArraysNamed /\ OneOfAName /\ WaitsAtHome /\ ClaimsNamed
           /\ OthersNameless
           /\ \A c \in Callers : EnsureNames(c)

\* EnsureVolume is called for a claim that waits for its volume, on its home.
LEMMA EnsureCalls ==
    ASSUME CtrlInv, NEW c \in Callers, pc[c] # "idle", req[c].op = "Ensure"
    PROVE  /\ rpc[c].kind = "Create" /\ rpc[c].name = req[c].name
           /\ req[c].name \in Names /\ req[c].name # NoName
           /\ req[c].server = HomeOf[req[c].name] /\ req[c].server \in Servers
           /\ claim[req[c].name].phase = "pending"
           /\ claim[req[c].name].vol = None
           /\ \A d \in Callers :
                 pc[d] # "idle" /\ req[d].op = "Ensure" /\ req[d].name = req[c].name
                 => d = c
<1>1. ASSUME NEW d \in Callers, pc[d] # "idle", req[d].op = "Ensure"
      PROVE  /\ rpc[d].kind = "Create" /\ rpc[d].name = req[d].name
             /\ rpc[d].name \in Names /\ RpcFits(d)
             /\ req[d].server = HomeOf[req[d].name]
  <2>1. Serves(d) /\ RpcFits(d)
    BY DEF CtrlInv, RpcsOK
  <2>2. rpc[d].kind \in {"Create", "Delete", "Publish", "Unpublish", "Expand"}
    BY <1>1, <2>1, ClaimTypes DEF Serves, Rpcs, Provisioner, Attacher, Resizer
  <2>3. rpc[d].kind = "Create"
    BY <1>1, <2>1, <2>2 DEF Serves, CallIs
  <2>. QED  BY <2>1, <2>3, ClaimTypes DEF Serves
<1>2. /\ rpc[c].kind = "Create" /\ rpc[c].name = req[c].name /\ req[c].name \in Names
      /\ req[c].server = HomeOf[req[c].name]
      /\ claim[req[c].name].phase = "pending"
  BY <1>1 DEF RpcFits, Mine
<1>3. claim[req[c].name].vol = None /\ req[c].server \in Servers /\ req[c].name # NoName
  BY <1>2, ClientAssumption, ApiAssumption DEF CtrlInv, ClaimOK
<1>4. ASSUME NEW d \in Callers, pc[d] # "idle", req[d].op = "Ensure",
             req[d].name = req[c].name
      PROVE  d = c
  <2>1. rpc[d].kind = "Create" /\ rpc[d].name = rpc[c].name
    BY <1>1, <1>2, <1>4
  <2>. QED  BY <1>2, <2>1, NoneIsNoRpc DEF CtrlInv, RpcsOK, OneRpcOfAKind
<1>. QED  BY <1>2, <1>3, <1>4

\* The other calls under way are of a claim that has its volume.
LEMMA OtherCalls ==
    ASSUME CtrlInv, NEW c \in Callers, pc[c] # "idle", req[c].op # "Ensure"
    PROVE  /\ rpc[c].kind # None /\ rpc[c].kind # "Create" /\ rpc[c].name \in Names
           /\ req[c].vol = Mine(c).vol /\ Mine(c).phase # "pending"
           /\ req[c].vol \in VolIds
<1>1. Serves(c) /\ RpcFits(c)
  BY DEF CtrlInv, RpcsOK
<1>2. rpc[c].kind \in {"Create", "Delete", "Publish", "Unpublish", "Expand"}
  BY <1>1, ClaimTypes DEF Serves, Rpcs, Provisioner, Attacher, Resizer
<1>3. rpc[c].kind # "Create" /\ req[c].vol = Mine(c).vol
  BY <1>1, <1>2 DEF Serves, CallIs
<1>4. rpc[c].name \in Names /\ Mine(c).phase # "pending"
  BY <1>2, <1>3, MineIsGood, NoneIsNoRpc
<1>5. Mine(c).vol \in VolIds
  BY <1>4 DEF CtrlInv, ClaimOK, Mine
<1>. QED  BY <1>2, <1>3, <1>4, <1>5, NoneIsNoRpc

\* The RPC that a call is made by.
LEMMA KindOfCall ==
    ASSUME CtrlInv, NEW c \in Callers, pc[c] # "idle"
    PROVE  /\ rpc[c].kind \in {"Create", "Delete", "Publish", "Unpublish", "Expand"}
           /\ rpc[c].kind # None
           /\ rpc[c].kind = "Create" <=> req[c].op = "Ensure"
           /\ rpc[c].kind = "Publish" <=> req[c].op = "Move"
           /\ rpc[c].kind = "Unpublish" <=> req[c].op = "Detach"
           /\ rpc[c].kind = "Expand" <=> req[c].op = "Expand"
           /\ rpc[c].kind = "Delete" <=> req[c].op \in {"Find", "Delete"}
           /\ rpc[c].kind = "Delete" => (rpc[c].current = None <=> req[c].op = "Find")
           /\ rpc[c].kind # "Create" => req[c].vol = Mine(c).vol /\ Mine(c).phase # "pending"
           /\ rpc[c].name \in Names
<1>1. Serves(c)
  BY DEF CtrlInv, RpcsOK
<1>2. rpc[c].kind \in {"Create", "Delete", "Publish", "Unpublish", "Expand"}
  BY <1>1, ClaimTypes DEF Serves, Rpcs, Provisioner, Attacher, Resizer
<1>3. rpc[c].kind # None
  BY <1>2, NoneIsNoRpc
<1>. QED  BY <1>1, <1>2, <1>3, MineIsGood DEF Serves, CallIs

-----------------------------------------------------------------------------
(* NameInv is inductive.                                                   *)

\* A claim's volume stays, or is the one its CreateVolume was answered.
LEMMA ClaimsGoOn ==
    ASSUME CtrlInv, NameInv, [CtrlNext]_allVars, NEW n \in Names
    PROVE  /\ claim'[n].phase = "pending" => claim[n].phase = "pending"
           /\ claim'[n].vol = claim[n].vol \/ Carries(claim'[n].vol, n)
<1>1. CASE ClaimStays(n)
  BY <1>1 DEF ClaimStays
<1>2. ASSUME NEW c \in Callers, Adopts(c, n)
      PROVE  claim'[n].phase = "bound" /\ Carries(claim'[n].vol, n)
  <2>1. req[c].op = "Ensure" /\ req[c].name = n
    BY <1>2 DEF Adopts, CtrlInv, RpcsOK, Serves
  <2>2. Carries(ret[c].vol, n)
    BY <1>2, <2>1 DEF Adopts, NameInv, EnsureNames
  <2>3. claim'[n].phase = "bound" /\ claim'[n].vol = ret[c].vol
    BY <1>2, CtrlInvTypes DEF Adopts, CtrlTypes, ClaimRecord
  <2>. QED  BY <2>2, <2>3
<1>. QED  BY <1>1, <1>2, VolumesStay

\* What was left for a claim that waits is not moved.
WaitingStay ==
    \A n \in Names : \A v \in VolIds :
        claim[n].phase = "pending" /\ Carries(v, n) => place'[v] = place[v]

\* What d is about to write is what it has read.
Follows(d) ==
    /\ Knows(snap'[d])
    /\ pc'[d] = "write" =>
          \/ pc[d] = "write" /\ req'[d].server = req[d].server /\ snap'[d] = snap[d]
          \/ snap'[d] = Volumes(req'[d].server)

ToldNamed == \A n \in Names : \A v \in told'[n] : v \in told[n] \/ Carries(v, n)

\* A step that creates no volume.
LEMMA NamesGoOn ==
    ASSUME CtrlInv, NameInv, [CtrlNext]_allVars, NamesKept, NoBirth, WaitingStay,
           ToldNamed, \A d \in Callers : Follows(d)
    PROVE  /\ OneOfAName' /\ WaitsAtHome' /\ ClaimsNamed'
           /\ \A d \in Callers : Knows(snap[d])'
<1>0. ASSUME NEW v, NEW n, Carries(v, n)  PROVE Carries(v, n)'
  BY <1>0 DEF Carries, NamesKept
<1>1. OneOfAName'
  BY DEF NameInv, OneOfAName, NamesKept, NoBirth
<1>2. ClaimsNamed'
  BY <1>0, ClaimsGoOn DEF NameInv, ClaimsNamed, ToldNamed
<1>3. ASSUME NEW d \in Callers  PROVE Knows(snap[d])'
  BY <1>0 DEF Follows, Knows, NamesKept, Ids
<1>4. ASSUME NEW n \in Names, NEW v \in VolIds, claim'[n].phase = "pending",
             Carries(v, n)'
      PROVE  /\ place'[v] = HomeOf[n]
             /\ \A d \in Callers : pc'[d] = "write" /\ req'[d].server = HomeOf[n]
                   => v \in Ids(snap'[d])
  <2>1. claim[n].phase = "pending" /\ Carries(v, n)
    BY <1>4, ClaimsGoOn DEF Carries, NamesKept, NoBirth
  <2>2. place[v] = HomeOf[n] /\ place'[v] = place[v]
    BY <2>1 DEF NameInv, WaitsAtHome, WaitingStay
  <2>3. Volumes(HomeOf[n])[v] # None
    BY <2>2, ApiAssumption DEF Volumes, CtrlInv, TypeInv, TypeOK, ApiTypeOK
  <2>4. ASSUME NEW d \in Callers, pc'[d] = "write", req'[d].server = HomeOf[n]
        PROVE  v \in Ids(snap'[d])
    BY <2>1, <2>3, <2>4 DEF NameInv, WaitsAtHome, Follows, Ids
  <2>. QED  BY <2>2, <2>4
<1>5. WaitsAtHome'
  BY <1>4 DEF WaitsAtHome
<1>. QED  BY <1>1, <1>2, <1>3, <1>5

\* A call that does not notice the step.
LEMMA EnsureGoesOn ==
    ASSUME NameInv, NamesKept, NEW d \in Callers,
           NoBirth \/ req[d].op # "Ensure" \/ pc[d] # "write",
           pc'[d] = pc[d], req'[d] = req[d], ret'[d] = ret[d]
    PROVE  EnsureNames(d)'
<1>1. ASSUME NEW v, NEW n, Carries(v, n)  PROVE Carries(v, n)'
  BY <1>1 DEF Carries, NamesKept
<1>2. ASSUME NoBirth, NEW v \in VolIds, NEW n, Carries(v, n)'  PROVE Carries(v, n)
  BY <1>2 DEF Carries, NamesKept, NoBirth
<1>. QED  BY <1>1, <1>2 DEF NameInv, EnsureNames

LEMMA NamelessGoesOn ==
    ASSUME CtrlInv, OthersNameless, [Next]_vars
    PROVE  OthersNameless'
<1>. USE DEF OthersNameless
<1>0. TypeInv /\ req \in [Callers -> Reqs]
  BY DEF CtrlInv, TypeInv, TypeOK, ClientTypeOK
<1>1. ASSUME NEW c \in Callers, Start(c)  PROVE OthersNameless'
  <2>1. ASSUME NEW r, NEW step, Call(c, r, step), r.op = "Ensure" \/ r.name = NoName
        PROVE  OthersNameless'
    BY <1>0, <2>1 DEF Call
  <2>2. ASSUME NEW n, NEW size, CallEnsure(c, n, size)  PROVE OthersNameless'
    BY <2>1, <2>2 DEF CallEnsure, NoReq
  <2>3. ASSUME NEW s, NEW v, CallDelete(c, s, v) \/ CallDetach(c, s, v)
        PROVE  OthersNameless'
    BY <2>1, <2>3 DEF CallDelete, CallDetach, NoReq
  <2>4. ASSUME NEW s, NEW v, NEW size, CallExpand(c, s, v, size)
        PROVE  OthersNameless'
    BY <2>1, <2>4 DEF CallExpand, NoReq
  <2>5. ASSUME NEW v, NEW S, CallFind(c, v, S) \/ \E s : CallMove(c, None, s, v, S)
        PROVE  OthersNameless'
    BY <2>1, <2>5 DEF CallFind, CallMove, NoReq
  <2>. QED  BY <1>1, <2>2, <2>3, <2>4, <2>5 DEF Start
<1>2. ASSUME NEW c \in Callers, Progress(c)  PROVE OthersNameless'
  BY <1>0, <1>2, ProgressFacts DEF OneCall
<1>3. ASSUME NEW c \in Callers, Finish(c)  PROVE OthersNameless'
  BY <1>0, <1>3 DEF Finish, NoReq
<1>4. CASE Restart
  BY <1>4 DEF Restart, NoReq
<1>5. CASE Appliance \/ UNCHANGED vars
  BY <1>5 DEF Appliance, vars, clientVars, callVars
<1>. QED  BY <1>1, <1>2, <1>3, <1>4, <1>5 DEF Next, Step

\* RPCs begin and end, or everything is lost in a restart.
LEMMA QuietNames ==
    ASSUME CtrlInv, NameInv, [CtrlNext]_allVars, Quiet, OthersNameless'
    PROVE  NameInv'
<1>1. NamesKept /\ NoBirth /\ WaitingStay /\ ToldNamed
  BY DEF Quiet, apiVars, NamesKept, NoBirth, WaitingStay, ToldNamed
<1>2. ASSUME NEW d \in Callers  PROVE Follows(d)
  <2>1. Knows(NoArray)
    BY DEF Knows, NoArray, Ids
  <2>. QED  BY <2>1 DEF Quiet, Follows, NameInv, ArraysNamed
<1>3. ASSUME NEW d \in Callers  PROVE EnsureNames(d)'
  BY DEF Quiet, apiVars, NameInv, EnsureNames, Carries
<1>4. /\ OneOfAName' /\ WaitsAtHome' /\ ClaimsNamed'
      /\ \A d \in Callers : Knows(snap[d])'
  BY <1>1, <1>2, NamesGoOn
<1>5. ArraysNamed'
  BY <1>4 DEF Quiet, apiVars, NameInv, ArraysNamed, QueuesNamed, Knows
<1>. QED  BY <1>3, <1>4, <1>5 DEF NameInv

\* A resize of a server that no claim is provisioned on takes effect late.
LEMMA ApplianceNames ==
    ASSUME KeepsNames, CtrlInv, NameInv, [CtrlNext]_allVars, Appliance, OthersNameless'
    PROVE  NameInv'
<1>1. PICK s \in Servers : (Apply(s) \/ JobFails(s)) /\ UNCHANGED clientVars
  BY DEF Appliance
<1>2. /\ ApiTypeOK /\ queue[s] # <<>> /\ queue[s] \in Seq(Payloads)
      /\ queue' = [queue EXCEPT ![s] = Tail(@)]
      /\ queue \in [Servers -> Seq(Payloads)]
  BY <1>1 DEF Apply, JobFails, CtrlInv, TypeInv, TypeOK, ApiTypeOK
<1>3. /\ Head(queue[s]) = queue[s][1] /\ 1 \in 1..Len(queue[s])
      /\ Head(queue[s]) \in Payloads
      /\ Len(Tail(queue[s])) = Len(queue[s]) - 1
      /\ \A i \in 1..Len(Tail(queue[s])) : /\ Tail(queue[s])[i] = queue[s][i + 1]
                                           /\ i + 1 \in 1..Len(queue[s])
  BY <1>2
<1>4. Knows(Head(queue[s]).keep) /\ Head(queue[s]).new = None
  BY <1>3 DEF NameInv, ArraysNamed, QueuesNamed
<1>5. \A n \in Names : HomeOf[n] # s
  BY <1>2 DEF NameInv, ArraysNamed, QueuesNamed
<1>6. /\ NamesKept /\ NoBirth
      /\ \A v \in VolIds : place[v] # Unborn /\ place[v] # s => place'[v] = place[v]
  <2>1. CASE TakeEffect(s, Head(queue[s]))
    BY <1>2, <1>3, <1>4, <2>1, EffectOnNames DEF Untouched
  <2>2. CASE UNCHANGED <<place, attr>>
    BY <2>2 DEF NamesKept, NoBirth
  <2>. QED  BY <1>1, <2>1, <2>2 DEF Apply, JobFails
<1>7. WaitingStay
  BY <1>5, <1>6 DEF WaitingStay, Carries, NameInv, WaitsAtHome
<1>8. ToldNamed /\ \A d \in Callers : Follows(d)
  BY <1>1 DEF clientVars, callVars, ToldNamed, Follows, NameInv, ArraysNamed
<1>9. ASSUME NEW d \in Callers  PROVE EnsureNames(d)'
  BY <1>1, <1>6, EnsureGoesOn DEF clientVars, callVars
<1>10. /\ OneOfAName' /\ WaitsAtHome' /\ ClaimsNamed'
       /\ \A d \in Callers : Knows(snap[d])'
  BY <1>6, <1>7, <1>8, NamesGoOn
<1>11. ASSUME NEW t \in Servers, NEW i \in 1..Len(queue'[t])
       PROVE  queue'[t][i].new = None /\ Knows(queue[t][i].keep)'
  <2>1. PICK j \in 1..Len(queue[t]) : queue'[t][i] = queue[t][j]
    <3>1. CASE t = s
      BY <1>2, <1>3, <3>1
    <3>2. CASE t # s
      BY <1>2, <3>2
    <3>. QED  BY <3>1, <3>2
  <2>2. queue[t][j].new = None /\ Knows(queue[t][j].keep)
    BY DEF NameInv, ArraysNamed, QueuesNamed
  <2>. QED  BY <1>6, <2>1, <2>2 DEF Knows, NamesKept, Ids
<1>12. \A n \in Names : queue'[HomeOf[n]] = <<>>
  BY <1>2, <1>5, ClientAssumption DEF NameInv, ArraysNamed, QueuesNamed
<1>13. ArraysNamed'
  BY <1>10, <1>11, <1>12 DEF ArraysNamed, QueuesNamed
<1>. QED  BY <1>9, <1>10, <1>13 DEF NameInv

-----------------------------------------------------------------------------
(* The steps of a call.                                                    *)

\* What a step of c that creates no volume has to settle.
LEMMA StepNames ==
    ASSUME CtrlInv, NameInv, [CtrlNext]_allVars, OthersNameless', NEW c \in Callers,
           OneCall(c), QueuesNamed', NamesKept, NoBirth, WaitingStay,
           Follows(c), ToldNamed, EnsureNames(c)'
    PROVE  NameInv'
<1>1. ASSUME NEW d \in Callers, d # c  PROVE Follows(d) /\ EnsureNames(d)'
  <2>1. /\ pc'[d] = pc[d] /\ req'[d] = req[d]
        /\ ret'[d] = ret[d] /\ snap'[d] = snap[d]
    BY <1>1 DEF OneCall
  <2>. QED  BY <2>1, EnsureGoesOn DEF Follows, NameInv, ArraysNamed
<1>2. /\ OneOfAName' /\ WaitsAtHome' /\ ClaimsNamed'
      /\ \A d \in Callers : Knows(snap[d])'
  BY <1>1, NamesGoOn
<1>3. ArraysNamed'
  BY <1>2 DEF ArraysNamed
<1>. QED  BY <1>1, <1>2, <1>3 DEF NameInv

LEMMA QueuesStay ==
    ASSUME NameInv, NamesKept, queue' = queue
    PROVE  QueuesNamed'
  BY DEF NameInv, ArraysNamed, QueuesNamed, Knows, NamesKept, Ids

LEMMA SameVolumesNames ==
    ASSUME UNCHANGED apiVars
    PROVE  queue' = queue /\ NamesKept /\ NoBirth /\ WaitingStay
  BY DEF apiVars, NamesKept, NoBirth, WaitingStay

LEMMA ReturnNames ==
    ASSUME CtrlInv, NameInv, NamesKept, NEW c \in Callers, pc[c] # "idle",
           NEW r, Return(c, r),
           r.ok /\ req[c].op = "Ensure" => Carries(r.vol, req[c].name)
    PROVE  Follows(c) /\ ToldNamed /\ EnsureNames(c)'
<1>0. /\ pc \in [Callers -> Steps] /\ ret \in [Callers -> Rets]
      /\ snap \in [Callers -> Arrays] /\ told \in [Names -> SUBSET VolIds]
  BY DEF CtrlInv, TypeInv, TypeOK, ClientTypeOK
<1>1. /\ pc'[c] = "done" /\ req' = req /\ ret'[c] = r /\ snap'[c] = NoArray
  BY <1>0 DEF Return, Goto
<1>2. Knows(NoArray)
  BY DEF Knows, NoArray, Ids
<1>3. ToldNamed
  <2>1. CASE r.ok /\ req[c].op = "Ensure"
    <3>1. req[c].name \in Names
      BY <2>1, EnsureCalls
    <3>2. told' = [told EXCEPT ![req[c].name] = @ \cup {r.vol}]
      BY <2>1 DEF Return
    <3>. QED  BY <1>0, <2>1, <3>1, <3>2 DEF ToldNamed
  <2>2. CASE ~(r.ok /\ req[c].op = "Ensure")
    BY <2>2 DEF Return, ToldNamed
  <2>. QED  BY <2>1, <2>2
<1>4. EnsureNames(c)'
  BY <1>1 DEF EnsureNames, Carries, NamesKept
<1>. QED  BY <1>1, <1>2, <1>3, <1>4 DEF Follows

\* c goes from its GET to its PUT with v as the volume to change.
LEMMA KeepSnapNames ==
    ASSUME CtrlInv, NameInv, UNCHANGED apiVars, NEW c \in Callers, pc[c] = "read",
           NEW v, KeepSnap(c, v),
           req[c].op = "Ensure" /\ v # None => Carries(v, req[c].name),
           req[c].op = "Ensure" /\ v = None
           => \A w \in VolIds : ~Carries(w, req[c].name)
    PROVE  Follows(c) /\ ToldNamed /\ EnsureNames(c)'
<1>0. /\ pc \in [Callers -> Steps] /\ req \in [Callers -> Reqs]
      /\ snap \in [Callers -> Arrays]
  BY DEF CtrlInv, TypeInv, TypeOK, ClientTypeOK
<1>1. /\ pc'[c] = "write" /\ snap'[c] = Volumes(req[c].server)
      /\ req'[c].vol = v /\ req'[c].op = req[c].op /\ req'[c].name = req[c].name
      /\ req'[c].server = req[c].server /\ told' = told
  BY <1>0 DEF KeepSnap, Goto, Reqs
<1>2. Knows(Volumes(req[c].server))
  BY ApiAssumption DEF Knows, Volumes, Ids, CtrlInv, TypeInv, CallOK
<1>3. EnsureNames(c)'
  BY <1>1 DEF EnsureNames, Carries, apiVars
<1>. QED  BY <1>1, <1>2, <1>3 DEF Follows, ToldNamed

\* c goes on otherwise: nothing it knows changes.
LEMMA GoOnNames ==
    ASSUME CtrlInv, NameInv, NamesKept, NEW c \in Callers, NEW step,
           step \in {"read", "detach", "attach", "verify"} \/ step = pc[c],
           pc'[c] = step, req'[c].op = req[c].op,
           step \in {"read", "detach", "attach", "verify"} \/ (req' = req /\ NoBirth),
           UNCHANGED <<ret, snap, told>>
    PROVE  Follows(c) /\ ToldNamed /\ EnsureNames(c)'
<1>1. ToldNamed
  BY DEF ToldNamed
<1>2. Follows(c)
  BY DEF Follows, NameInv, ArraysNamed
<1>3. EnsureNames(c)'
  BY EnsureGoesOn DEF EnsureNames
<1>. QED  BY <1>1, <1>2, <1>3

\* EnsureVolume looks where all volumes of the name are.
LEMMA NamedAreAll ==
    ASSUME CtrlInv, NameInv, NEW c \in Callers, pc[c] # "idle", req[c].op = "Ensure"
    PROVE  \A v \in VolIds : Carries(v, req[c].name)
              <=> v \in Named(Volumes(req[c].server), req[c].name)
<1>. DEFINE n == req[c].name
<1>1. /\ n \in Names /\ claim[n].phase = "pending"
      /\ req[c].server = HomeOf[n] /\ req[c].server \in Servers
  BY EnsureCalls
<1>2. attr \in [VolIds -> Attr] /\ None \notin Attr /\ Unborn \notin Servers
  BY ApiAssumption DEF CtrlInv, TypeInv, TypeOK, ApiTypeOK
<1>3. ASSUME NEW v \in VolIds
      PROVE  Carries(v, n) <=> v \in Named(Volumes(req[c].server), n)
  <2>1. Carries(v, n) => place[v] = req[c].server
    BY <1>1 DEF NameInv, WaitsAtHome
  <2>2. Volumes(req[c].server)[v] = IF place[v] = req[c].server THEN attr[v] ELSE None
    BY DEF Volumes
  <2>. QED  BY <1>1, <1>2, <2>1, <2>2 DEF Named, Ids, Carries
<1>. QED  BY <1>3

LEMMA EnsureReadNames ==
    ASSUME CtrlInv, NameInv, NEW c \in Callers, EnsureRead(c)
    PROVE  /\ UNCHANGED apiVars
           /\ Follows(c) /\ ToldNamed /\ EnsureNames(c)'
<1>. DEFINE named == Named(Volumes(req[c].server), req[c].name)
<1>1. pc[c] = "read" /\ req[c].op = "Ensure" /\ UNCHANGED apiVars
  BY DEF EnsureRead
<1>2. \A v \in VolIds : Carries(v, req[c].name) <=> v \in named
  BY <1>1, NamedAreAll
<1>3. named \subseteq VolIds /\ NamesKept /\ None \notin VolIds
  BY <1>1, SameVolumesNames, ApiAssumption DEF Named, Ids
<1>. HIDE DEF named
<1>4. ASSUME NEW v \in named, Ok(c, v, req[c].server)
      PROVE  Follows(c) /\ ToldNamed /\ EnsureNames(c)'
  BY <1>1, <1>2, <1>3, <1>4, ReturnNames DEF Ok
<1>5. ASSUME NEW v \in named, KeepSnap(c, v)
      PROVE  Follows(c) /\ ToldNamed /\ EnsureNames(c)'
  BY <1>1, <1>2, <1>3, <1>5, KeepSnapNames
<1>6. ASSUME named = {}, KeepSnap(c, None)
      PROVE  Follows(c) /\ ToldNamed /\ EnsureNames(c)'
  BY <1>1, <1>2, <1>6, KeepSnapNames
<1>. QED  BY <1>1, <1>4, <1>5, <1>6 DEF EnsureRead, named

LEMMA OtherReadNames ==
    ASSUME CtrlInv, NameInv, NEW c \in Callers, DeleteRead(c) \/ ExpandRead(c)
    PROVE  /\ UNCHANGED apiVars
           /\ Follows(c) /\ ToldNamed /\ EnsureNames(c)'
<1>1. pc[c] = "read" /\ req[c].op # "Ensure" /\ UNCHANGED apiVars
  BY DEF DeleteRead, ExpandRead
<1>2. NamesKept
  BY <1>1, SameVolumesNames
<1>3. ASSUME NEW v, KeepSnap(c, v)  PROVE Follows(c) /\ ToldNamed /\ EnsureNames(c)'
  BY <1>1, <1>3, KeepSnapNames
<1>4. ASSUME NEW r, Return(c, r)  PROVE Follows(c) /\ ToldNamed /\ EnsureNames(c)'
  BY <1>1, <1>2, <1>4, ReturnNames
<1>. QED  BY <1>1, <1>3, <1>4 DEF DeleteRead, ExpandRead, Ok, Fail

\* EnsureVolume's lookup finds the volume of the name.
LEMMA PollNames ==
    ASSUME CtrlInv, NameInv, NEW c \in Callers, Poll(c)
    PROVE  /\ UNCHANGED apiVars
           /\ Follows(c) /\ ToldNamed /\ EnsureNames(c)'
<1>. DEFINE found == FindResized(snap[c], Volumes(req[c].server), req[c])
<1>1. pc[c] = "poll" /\ UNCHANGED apiVars /\ pc \in [Callers -> Steps]
  BY DEF Poll, CtrlInv, TypeInv, TypeOK, ClientTypeOK
<1>2. NamesKept /\ NoBirth
  BY <1>1, SameVolumesNames
<1>3. ASSUME NEW v \in found, req[c].op = "Ensure"  PROVE Carries(v, req[c].name)
  <2>1. CASE req[c].vol # None
    BY <1>1, <1>3, <2>1 DEF FindResized, NameInv, EnsureNames
  <2>2. CASE req[c].vol = None
    <3>1. Named(Volumes(req[c].server), req[c].name) # {}
      BY <1>1, <1>3, NamedAreAll DEF NameInv, EnsureNames
    <3>2. v \in Named(Volumes(req[c].server), req[c].name)
      BY <2>2, <3>1 DEF FindResized
    <3>. QED  BY <1>1, <1>3, <3>2, NamedAreAll DEF Named, Ids
  <2>. QED  BY <2>1, <2>2
<1>. HIDE DEF found
<1>4. ASSUME NEW v \in found, Ok(c, v, req[c].server)
      PROVE  Follows(c) /\ ToldNamed /\ EnsureNames(c)'
  BY <1>1, <1>2, <1>3, <1>4, ReturnNames DEF Ok
<1>5. ASSUME Fail(c)  PROVE Follows(c) /\ ToldNamed /\ EnsureNames(c)'
  BY <1>1, <1>2, <1>5, ReturnNames DEF Fail, NoRet
<1>6. ASSUME UNCHANGED <<Local, pc, snap, todo>>
      PROVE  Follows(c) /\ ToldNamed /\ EnsureNames(c)'
  BY <1>1, <1>2, <1>6, GoOnNames DEF Local
<1>. QED  BY <1>1, <1>4, <1>5, <1>6 DEF Poll, found

\* The search and the polling of MoveVolume.
LEMMA FindNames ==
    ASSUME CtrlInv, NameInv, NEW c \in Callers,
           FindGet(c) \/ Verify(c) \/ Lock(c) \/ RequestFails(c)
    PROVE  /\ UNCHANGED apiVars
           /\ Follows(c) /\ ToldNamed /\ EnsureNames(c)'
<1>0. /\ pc \in [Callers -> Steps] /\ req \in [Callers -> Reqs]
      /\ pc[c] # "idle" /\ UNCHANGED apiVars
  BY DEF FindGet, Verify, Lock, RequestFails, CtrlInv, TypeInv, TypeOK, ClientTypeOK
<1>1. NamesKept /\ NoBirth
  BY <1>0, SameVolumesNames
<1>2. ASSUME Fail(c)  PROVE Follows(c) /\ ToldNamed /\ EnsureNames(c)'
  BY <1>0, <1>1, <1>2, ReturnNames DEF Fail, NoRet
<1>3. ASSUME NEW v, NEW s, Ok(c, v, s), req[c].op # "Ensure"
      PROVE  Follows(c) /\ ToldNamed /\ EnsureNames(c)'
  BY <1>0, <1>1, <1>3, ReturnNames DEF Ok
<1>4. ASSUME UNCHANGED <<Local, pc, snap>>
      PROVE  Follows(c) /\ ToldNamed /\ EnsureNames(c)'
  BY <1>0, <1>1, <1>4, GoOnNames DEF Local
<1>5. CASE FindGet(c)
  <2>1. req[c].op # "Ensure"
    BY <1>5 DEF FindGet, CtrlInv, TypeInv, CallOK
  <2>2. ASSUME NEW s, req' = [req EXCEPT ![c].from = s], Goto(c, "detach"),
               UNCHANGED <<snap, ret, told>>
        PROVE  Follows(c) /\ ToldNamed /\ EnsureNames(c)'
    <3>1. pc'[c] = "detach" /\ req'[c].op = req[c].op
      BY <1>0, <2>2 DEF Goto, Reqs
    <3>. QED  BY <1>1, <2>2, <3>1, GoOnNames
  <2>. QED  BY <1>0, <1>2, <1>3, <1>4, <1>5, <2>1, <2>2 DEF FindGet
<1>6. CASE Verify(c)
  <2>1. req[c].op # "Ensure"
    BY <1>6 DEF Verify, CtrlInv, TypeInv, CallOK
  <2>. QED  BY <1>0, <1>2, <1>3, <1>4, <1>6, <2>1 DEF Verify
<1>7. CASE Lock(c)
  <2>1. pc'[c] = "read" /\ req' = req /\ UNCHANGED <<ret, snap, told>>
    BY <1>0, <1>7 DEF Lock, Goto
  <2>. QED  BY <1>0, <1>1, <2>1, GoOnNames
<1>8. CASE RequestFails(c)
  BY <1>0, <1>2, <1>8 DEF RequestFails
<1>. QED  BY <1>5, <1>6, <1>7, <1>8

\* A volume some claim has is none that another claim waits for.
LEMMA OwnedIsCarried ==
    ASSUME CtrlInv, NameInv, NEW c \in Callers, pc[c] # "idle", req[c].op # "Ensure"
    PROVE  Carries(req[c].vol, rpc[c].name) /\ Mine(c).phase # "pending"
<1>1. /\ rpc[c].name \in Names /\ req[c].vol = claim[rpc[c].name].vol
      /\ claim[rpc[c].name].phase # "pending" /\ req[c].vol # None
  BY OtherCalls, ApiAssumption DEF Mine
<1>. QED  BY <1>1 DEF NameInv, ClaimsNamed, Mine

LEMMA OwnedIsNotWaiting ==
    ASSUME CtrlInv, NameInv, NEW c \in Callers, pc[c] # "idle", req[c].op # "Ensure",
           NEW n \in Names, claim[n].phase = "pending"
    PROVE  ~Carries(req[c].vol, n)
  BY OwnedIsCarried DEF Carries, Mine

\* Only volumes that belong to a claim are detached and attached.
LEMMA MoveNames ==
    ASSUME CtrlInv, NameInv, NEW c \in Callers, Detach(c) \/ Attach(c)
    PROVE  /\ queue' = queue /\ NamesKept /\ NoBirth /\ WaitingStay
           /\ Follows(c) /\ ToldNamed /\ EnsureNames(c)'
<1>0. /\ pc \in [Callers -> Steps] /\ pc[c] # "idle"
      /\ place \in [VolIds -> Servers \cup {Unborn, Detached, Deleted}]
      /\ Unborn \notin Servers \cup {Detached, Deleted}
      /\ Deleted \notin Servers \cup {Detached}
  BY ApiAssumption
  DEF Detach, Attach, CtrlInv, TypeInv, TypeOK, ApiTypeOK, ClientTypeOK,
      Unborn, Detached, Deleted
<1>1. req[c].op # "Ensure" /\ req[c].vol \in VolIds /\ req[c].server \in Servers
      /\ pc[c] \in {"detach", "attach"}
  BY DEF Detach, Attach, CtrlInv, TypeInv, CallOK
<1>2. /\ UNCHANGED <<attr, queue>>
      /\ \A v \in VolIds \ {req[c].vol} : place'[v] = place[v]
      /\ place'[req[c].vol] \in {place[req[c].vol], Detached, req[c].server}
  <2>1. CASE Detach(c)
    BY <1>0, <1>1, <2>1 DEF Detach, DetachFrom
  <2>2. CASE Attach(c)
    BY <1>0, <1>1, <2>2 DEF Attach, AttachTo
  <2>. QED  BY <2>1, <2>2
<1>3. NamesKept /\ NoBirth /\ queue' = queue
  <2>1. place[req[c].vol] # Unborn
    BY <1>0, <1>1, OwnedIsCarried DEF Carries
  <2>. QED  BY <1>0, <1>1, <1>2, <2>1 DEF NamesKept, NoBirth
<1>4. WaitingStay
  BY <1>0, <1>1, <1>2, OwnedIsNotWaiting DEF WaitingStay
<1>5. ASSUME NEW r, Return(c, r)  PROVE Follows(c) /\ ToldNamed /\ EnsureNames(c)'
  BY <1>0, <1>1, <1>3, <1>5, ReturnNames
<1>6. ASSUME NEW step \in {"attach", "verify"}, Goto(c, step), UNCHANGED <<Local, snap>>
      PROVE  Follows(c) /\ ToldNamed /\ EnsureNames(c)'
  BY <1>0, <1>3, <1>6, GoOnNames DEF Local, Goto
<1>7. Follows(c) /\ ToldNamed /\ EnsureNames(c)'
  BY <1>5, <1>6 DEF Detach, Attach, Ok, Fail
<1>. QED  BY <1>3, <1>4, <1>7

-----------------------------------------------------------------------------
(* The PUT of a resize.                                                    *)

\* What c is about to write: volumes under their names, all that a claim waits
\* for, and the new volume only when there is none of its name.
LEMMA ArrayNames ==
    ASSUME CtrlInv, NameInv, NEW c \in Callers, pc[c] = "write"
    PROVE  /\ NextArray(c) \in Payloads /\ Knows(NextArray(c).keep)
           /\ NextArray(c).new # None
              => /\ req[c].op = "Ensure" /\ req[c].vol = None
                 /\ NextArray(c).new.name = req[c].name
           /\ \A n \in Names : \A v \in VolIds :
                 /\ claim[n].phase = "pending" /\ Carries(v, n)
                 /\ req[c].server = HomeOf[n]
                 => v \in Ids(NextArray(c).keep)
<1>0. /\ snap[c] \in Arrays /\ Knows(snap[c]) /\ None \notin Attr
      /\ req[c].op \in LockedOps /\ NextArray(c) \in Payloads
      /\ req[c].vol = None \/ req[c].vol \in Ids(snap[c])
      /\ req[c].op # "Ensure" => req[c].vol \in VolIds /\ req[c].name = NoName
      /\ req[c].op = "Ensure" => req[c].name \in Names /\ req[c].name # NoName
      /\ None \notin VolIds
  BY NextArrayType, ApiAssumption
  DEF CtrlInv, TypeInv, TypeOK, ClientTypeOK, CallOK, NameInv, ArraysNamed, OthersNameless
<1>1. ASSUME NEW n \in Names, NEW v \in VolIds, claim[n].phase = "pending",
             Carries(v, n), req[c].server = HomeOf[n]
      PROVE  v \in Ids(snap[c]) /\ (req[c].op = "Delete" => v # req[c].vol)
  <2>1. v \in Ids(snap[c])
    BY <1>1 DEF NameInv, WaitsAtHome
  <2>2. req[c].op = "Delete" => v # req[c].vol
    BY <1>1, OwnedIsNotWaiting
  <2>. QED  BY <2>1, <2>2
<1>2. CASE req[c].op = "Delete"
  <2>1. /\ NextArray(c).new = None
        /\ NextArray(c).keep = [snap[c] EXCEPT ![req[c].vol] = None]
    BY <1>2 DEF NextArray, ArrayWithout
  <2>2. \A v \in VolIds : NextArray(c).keep[v] = IF v = req[c].vol THEN None ELSE snap[c][v]
    BY <1>0, <2>1 DEF Arrays
  <2>3. Knows(NextArray(c).keep)
    BY <1>0, <2>2 DEF Knows, Ids
  <2>4. \A v \in Ids(snap[c]) : v # req[c].vol => v \in Ids(NextArray(c).keep)
    BY <2>2 DEF Ids
  <2>. QED  BY <1>0, <1>1, <1>2, <2>1, <2>3, <2>4
<1>3. CASE req[c].op # "Delete" /\ req[c].vol # None
  <2>. DEFINE item == [name |-> IF req[c].name = NoName THEN snap[c][req[c].vol].name
                                ELSE req[c].name,
                       size |-> req[c].size]
  <2>1. NextArray(c).new = None
    BY <1>3 DEF NextArray, ResizeArray
  <2>2. NextArray(c).keep = [snap[c] EXCEPT ![req[c].vol] = item]
    BY <1>3 DEF NextArray, ResizeArray
  <2>3. req[c].vol \in Ids(snap[c]) /\ req[c].vol \in VolIds
        /\ place[req[c].vol] # Unborn
        /\ snap[c][req[c].vol].name = attr[req[c].vol].name
    BY <1>0, <1>3 DEF Knows, Ids
  <2>4. item.name = attr[req[c].vol].name
    <3>1. req[c].op = "Ensure" => Carries(req[c].vol, req[c].name)
      BY <1>3 DEF NameInv, EnsureNames
    <3>. QED  BY <1>0, <2>3, <3>1 DEF Carries
  <2>5. item # None
    <3>1. snap[c][req[c].vol] \in Attr /\ req[c].size \in Nat
      BY <1>0, <2>3 DEF Arrays, Ids, CtrlInv, TypeInv, TypeOK, ClientTypeOK, Reqs
    <3>2. item \in Attr
      BY <1>0, <3>1 DEF Attr
    <3>. QED  BY <1>0, <3>2
  <2>. HIDE DEF item
  <2>6. \A v \in VolIds : NextArray(c).keep[v] = IF v = req[c].vol THEN item ELSE snap[c][v]
    BY <1>0, <2>2 DEF Arrays
  <2>7. Ids(NextArray(c).keep) = Ids(snap[c])
    BY <2>3, <2>5, <2>6 DEF Ids
  <2>8. Knows(NextArray(c).keep)
    BY <1>0, <2>3, <2>4, <2>6, <2>7 DEF Knows, Ids
  <2>. QED  BY <1>0, <1>1, <2>1, <2>7, <2>8
<1>4. CASE req[c].op # "Delete" /\ req[c].vol = None
  <2>1. /\ req[c].op = "Ensure"
        /\ NextArray(c) = [keep |-> snap[c],
                           new |-> [name |-> req[c].name, size |-> req[c].size]]
    BY <1>0, <1>4 DEF NextArray, ResizeArray
  <2>. QED  BY <1>0, <1>1, <1>4, <2>1
<1>. QED  BY <1>2, <1>3, <1>4

-----------------------------------------------------------------------------
(* NameInv under a PUT of a resize.                                        *)

LEMMA WriteFacts ==
    ASSUME CtrlInv, NameInv, NEW c \in Callers, Write(c), NamesKept
    PROVE  /\ pc[c] = "write" /\ pc'[c] \in {"poll", "done"} /\ req' = req
           /\ Follows(c) /\ ToldNamed
           /\ pc'[c] = "done" => EnsureNames(c)'
<1>1. pc[c] = "write" /\ pc \in [Callers -> Steps]
  BY DEF Write, CtrlInv, TypeInv, TypeOK, ClientTypeOK
<1>2. CASE \E r : Return(c, r) /\ (r.ok => req[c].op = "Delete")
  <2>1. PICK r : Return(c, r) /\ (r.ok => req[c].op = "Delete")
    BY <1>2
  <2>2. pc'[c] = "done" /\ req' = req
    BY <1>1, <2>1 DEF Return, Goto
  <2>. QED  BY <1>1, <2>1, <2>2, ReturnNames
<1>3. CASE Goto(c, "poll") /\ UNCHANGED <<Local, snap>>
  BY <1>1, <1>3 DEF Goto, Local, Follows, ToldNamed, NameInv, ArraysNamed
<1>4. NoRet.ok = FALSE
  BY DEF NoRet
<1>5. (\E r : Return(c, r) /\ (r.ok => req[c].op = "Delete"))
      \/ (Goto(c, "poll") /\ UNCHANGED <<Local, snap>>)
  BY <1>4 DEF Write, Ok, Fail
<1>. QED  BY <1>2, <1>3, <1>5

\* The array changes or deletes volumes, at once or later.
LEMMA PlainWriteNames ==
    ASSUME KeepsNames, HomesAtOnce, CtrlInv, NameInv, [CtrlNext]_allVars,
           OthersNameless', NEW c \in Callers, Write(c), NextArray(c).new = None
    PROVE  NameInv'
<1>. DEFINE s == req[c].server
<1>. DEFINE p == NextArray(c)
<1>0. /\ pc[c] = "write" /\ s \in Servers /\ AcceptResize(s, p)
      /\ ApiTypeOK /\ queue \in [Servers -> Seq(Payloads)]
  BY DEF Write, CtrlInv, TypeInv, CallOK, TypeOK, ApiTypeOK
<1>1. /\ p \in Payloads /\ Knows(p.keep)
      /\ \A n \in Names : \A v \in VolIds :
            /\ claim[n].phase = "pending" /\ Carries(v, n) /\ s = HomeOf[n]
            => v \in Ids(p.keep)
  BY <1>0, ArrayNames
<1>2. req[c].op = "Ensure" => req[c].vol # None
  <2>1. CASE req[c].op = "Ensure" /\ req[c].vol = None
    <3>1. p.new = [name |-> req[c].name, size |-> req[c].size]
      BY <2>1 DEF NextArray, ResizeArray
    <3>2. req[c].name \in Names /\ req[c].size \in Nat
      BY <1>0, <2>1 DEF CtrlInv, TypeInv, CallOK, TypeOK, ClientTypeOK, Reqs
    <3>. QED  BY <3>1, <3>2, ApiAssumption DEF Attr
  <2>. QED  BY <2>1
<1>. HIDE DEF p
<1>3. /\ NamesKept /\ NoBirth
      /\ UNCHANGED <<place, attr>> \/ Untouched(s, p)
  <2>1. CASE UNCHANGED <<place, attr>>
    BY <2>1 DEF NamesKept, NoBirth
  <2>2. CASE TakeEffect(s, p)
    BY <1>0, <1>1, <2>2, EffectOnNames DEF p
  <2>. QED  BY <1>0, <2>1, <2>2 DEF AcceptResize
<1>4. WaitingStay
  <2>1. CASE UNCHANGED <<place, attr>>
    BY <2>1 DEF WaitingStay
  <2>2. CASE Untouched(s, p)
    BY <1>1, <2>2 DEF WaitingStay, Untouched, Carries, NameInv, WaitsAtHome
  <2>. QED  BY <1>3, <2>1, <2>2
<1>5. QueuesNamed'
  <2>1. CASE queue' = queue
    BY <1>3, <2>1, QueuesStay
  <2>2. CASE /\ Len(queue[s]) < MaxDeferred[s]
             /\ queue' = [queue EXCEPT ![s] = Append(@, p)]
    <3>1. queue[s] \in Seq(Payloads) /\ Len(queue[s]) \in Nat
      BY <1>0
    <3>2. \A n \in Names : s # HomeOf[n]
      BY <2>2, <3>1 DEF HomesAtOnce
    <3>3. ASSUME NEW t \in Servers, NEW i \in 1..Len(queue'[t])
          PROVE  queue'[t][i].new = None /\ Knows(queue[t][i].keep)'
      <4>1. queue'[t][i] = p \/ \E j \in 1..Len(queue[t]) : queue'[t][i] = queue[t][j]
        <5>1. CASE t = s
          BY <1>0, <1>1, <2>2, <3>1, <5>1
        <5>2. CASE t # s
          BY <1>0, <2>2, <5>2
        <5>. QED  BY <5>1, <5>2
      <4>2. p.new = None
        BY DEF p
      <4>3. queue'[t][i].new = None /\ Knows(queue'[t][i].keep)
        BY <1>1, <4>1, <4>2 DEF NameInv, ArraysNamed, QueuesNamed
      <4>. QED  BY <1>3, <4>3 DEF Knows, NamesKept, Ids
    <3>4. \A n \in Names : queue'[HomeOf[n]] = <<>>
      BY <1>0, <2>2, <3>2, ClientAssumption DEF NameInv, ArraysNamed, QueuesNamed
    <3>. QED  BY <3>3, <3>4 DEF QueuesNamed
  <2>. QED  BY <1>0, <2>1, <2>2 DEF AcceptResize
<1>6. Follows(c) /\ ToldNamed /\ req' = req /\ pc'[c] \in {"poll", "done"}
      /\ (pc'[c] = "done" => EnsureNames(c)')
  BY <1>3, WriteFacts
<1>7. EnsureNames(c)'
  <2>1. req[c].op = "Ensure" => Carries(req[c].vol, req[c].name)
    BY <1>0, <1>2 DEF NameInv, EnsureNames
  <2>2. req[c].op = "Ensure" => Carries(req[c].vol, req[c].name)'
    BY <1>3, <1>6, <2>1 DEF Carries, NamesKept
  <2>3. CASE pc'[c] = "poll"
    BY <1>6, <2>2, <2>3 DEF EnsureNames, Carries
  <2>. QED  BY <1>6, <2>3
<1>8. OneCall(c)
  BY ProgressFacts DEF Progress, CtrlInv
<1>. QED  BY <1>3, <1>4, <1>5, <1>6, <1>7, <1>8, StepNames

\* EnsureVolume's array creates the one volume of the name.
LEMMA BirthNames ==
    ASSUME KeepsNames, HomesAtOnce, CtrlInv, LockDiscipline, NameInv,
           [CtrlNext]_allVars, OthersNameless',
           NEW c \in Callers, Write(c), NextArray(c).new # None
    PROVE  NameInv'
<1>. DEFINE s == req[c].server
<1>. DEFINE n == req[c].name
<1>. DEFINE p == NextArray(c)
<1>0. /\ pc[c] = "write" /\ s \in Servers /\ AcceptResize(s, p)
      /\ ApiTypeOK /\ queue \in [Servers -> Seq(Payloads)]
      /\ snap \in [Callers -> Arrays]
  BY DEF Write, CtrlInv, TypeInv, CallOK, TypeOK, ApiTypeOK, ClientTypeOK
<1>1. /\ p \in Payloads /\ Knows(p.keep) /\ p.new # None
      /\ req[c].op = "Ensure" /\ req[c].vol = None /\ p.new.name = n
      /\ \A m \in Names : \A v \in VolIds :
            /\ claim[m].phase = "pending" /\ Carries(v, m) /\ s = HomeOf[m]
            => v \in Ids(p.keep)
  BY <1>0, ArrayNames
<1>2. n \in Names /\ n # NoName /\ s = HomeOf[n] /\ claim[n].phase = "pending"
  BY <1>0, <1>1, EnsureCalls
<1>. HIDE DEF p
<1>3. TakeEffect(s, p) /\ queue' = queue
  BY <1>0, <1>2 DEF AcceptResize, HomesAtOnce
<1>4. NamesKept /\ Untouched(s, p) /\ Birth(s, n)
  BY <1>0, <1>1, <1>3, EffectOnNames
<1>5. PICK v \in VolIds :
          /\ place[v] = Unborn /\ place'[v] = s /\ attr'[v].name = n
          /\ \A w \in VolIds \ {v} : place'[w] # Unborn => place[w] # Unborn
  BY <1>4 DEF Birth
<1>6. \A w \in VolIds : ~Carries(w, n)
  BY <1>0, <1>1 DEF NameInv, EnsureNames
<1>7. ASSUME NEW w \in VolIds, w # v, NEW m, Carries(w, m)'  PROVE Carries(w, m)
  BY <1>4, <1>5, <1>7 DEF Carries, NamesKept
<1>8. ASSUME NEW w, NEW m, Carries(w, m)  PROVE Carries(w, m)'
  BY <1>4, <1>8 DEF Carries, NamesKept
<1>9. OneOfAName'
  <2>1. ASSUME NEW w \in VolIds, w # v, place'[w] # Unborn  PROVE attr'[w].name # n
    BY <1>6, <1>7, <2>1 DEF Carries
  <2>2. ASSUME NEW u \in VolIds, NEW w \in VolIds, u # v, w # v,
               place'[u] # Unborn, place'[w] # Unborn,
               attr'[u].name = attr'[w].name, attr'[u].name # NoName
        PROVE  u = w
    BY <1>4, <1>5, <2>2 DEF NameInv, OneOfAName, NamesKept
  <2>. QED  BY <1>5, <2>1, <2>2 DEF OneOfAName
<1>10. ClaimsNamed' /\ ToldNamed /\ Follows(c) /\ pc'[c] \in {"poll", "done"} /\ req' = req
       /\ (pc'[c] = "done" => EnsureNames(c)')
  <2>1. /\ ToldNamed /\ Follows(c) /\ pc'[c] \in {"poll", "done"} /\ req' = req
        /\ (pc'[c] = "done" => EnsureNames(c)')
    BY <1>4, WriteFacts
  <2>2. ClaimsNamed'
    BY <1>8, <2>1, ClaimsGoOn DEF NameInv, ClaimsNamed, ToldNamed
  <2>. QED  BY <2>1, <2>2
<1>11. ASSUME NEW d \in Callers, d # c
       PROVE  /\ pc'[d] = pc[d] /\ ret'[d] = ret[d] /\ snap'[d] = snap[d]
              /\ req[d].op = "Ensure" /\ pc[d] # "idle" => req[d].name # n
              /\ pc[d] = "write" => req[d].server # s
  <2>1. OneCall(c)
    BY ProgressFacts DEF Progress, CtrlInv
  <2>2. req[d].op = "Ensure" /\ pc[d] # "idle" => req[d].name # n
    BY <1>0, <1>1, <1>11, EnsureCalls
  <2>3. pc[d] = "write" => req[d].server # s
    BY <1>0, <1>11 DEF LockDiscipline
  <2>. QED  BY <1>11, <2>1, <2>2, <2>3 DEF OneCall
<1>12. ASSUME NEW d \in Callers, d # c  PROVE EnsureNames(d)'
  <2>1. req[d].op = "Ensure" /\ pc[d] # "idle" =>
           \A w \in VolIds : Carries(w, req[d].name)' => Carries(w, req[d].name)
    <3>1. ASSUME NEW w \in VolIds, Carries(w, req[d].name)', req[d].name # n
          PROVE  Carries(w, req[d].name)
      BY <1>5, <1>7, <1>10, <3>1 DEF Carries, NamesKept
    <3>. QED  BY <1>11, <1>12, <3>1
  <2>. QED  BY <1>8, <1>10, <1>11, <1>12, <2>1 DEF NameInv, EnsureNames
<1>13. EnsureNames(c)'
  <2>1. Carries(v, n)'
    BY <1>0, <1>5, <1>10, ApiAssumption DEF Carries
  <2>. QED  BY <1>1, <1>10, <2>1 DEF EnsureNames
<1>14. WaitsAtHome'
  <2>1. ASSUME NEW m \in Names, NEW w \in VolIds, claim'[m].phase = "pending",
               Carries(w, m)'
        PROVE  /\ place'[w] = HomeOf[m]
               /\ \A d \in Callers : pc'[d] = "write" /\ req'[d].server = HomeOf[m]
                     => w \in Ids(snap'[d])
    <3>1. CASE w = v
      <4>1. m = n
        BY <1>5, <2>1, <3>1 DEF Carries
      <4>. QED  BY <1>2, <1>5, <1>10, <1>11, <3>1, <4>1
    <3>2. CASE w # v
      <4>1. Carries(w, m) /\ claim[m].phase = "pending"
        BY <1>7, <2>1, <3>2, ClaimsGoOn
      <4>2. place[w] = HomeOf[m] /\ w \in VolIds /\ place[w] # Unborn
        BY <4>1 DEF NameInv, WaitsAtHome, Carries
      <4>3. place'[w] = place[w]
        BY <1>1, <1>4, <4>1, <4>2 DEF Untouched
      <4>4. ASSUME NEW d \in Callers, pc'[d] = "write", req'[d].server = HomeOf[m]
            PROVE  w \in Ids(snap'[d])
        BY <1>10, <1>11, <4>1, <4>4 DEF NameInv, WaitsAtHome, Ids
      <4>. QED  BY <4>2, <4>3, <4>4
    <3>. QED  BY <3>1, <3>2
  <2>. QED  BY <2>1 DEF WaitsAtHome
<1>15. ArraysNamed'
  <2>1. ASSUME NEW d \in Callers  PROVE Knows(snap[d])'
    <3>1. Knows(snap'[d])
      BY <1>10, <1>11 DEF Follows, NameInv, ArraysNamed
    <3>. QED  BY <1>4, <3>1 DEF Knows, NamesKept, Ids
  <2>. QED  BY <1>3, <1>4, <2>1, QueuesStay DEF ArraysNamed
<1>. QED  BY <1>9, <1>10, <1>12, <1>13, <1>14, <1>15 DEF NameInv

LEMMA InitNames == CtrlInit => NameInv
<1>. SUFFICES ASSUME CtrlInit  PROVE NameInv
  OBVIOUS
<1>1. /\ \A c \in Callers : snap[c] = NoArray /\ pc[c] = "idle" /\ req[c] = NoReq
      /\ \A s \in Servers : queue[s] = <<>>
      /\ \A v \in VolIds : attr[v].name = NoName
      /\ \A n \in Names : claim[n].vol = None /\ told[n] = {}
  BY DEF CtrlInit, Init, ApiInit
<1>2. Knows(NoArray)
  BY DEF Knows, NoArray, Ids
<1>3. ArraysNamed /\ OneOfAName
  BY <1>1, <1>2, ClientAssumption DEF ArraysNamed, QueuesNamed, OneOfAName
<1>4. WaitsAtHome /\ ClaimsNamed
  BY <1>1, ApiAssumption DEF WaitsAtHome, ClaimsNamed, Carries
<1>5. OthersNameless /\ \A c \in Callers : EnsureNames(c)
  BY <1>1 DEF OthersNameless, EnsureNames, NoReq
<1>. QED  BY <1>3, <1>4, <1>5 DEF NameInv

LEMMA ProgressNames ==
    ASSUME KeepsNames, HomesAtOnce, CtrlInv, LockDiscipline, NameInv,
           [CtrlNext]_allVars, OthersNameless', NEW c \in Callers, Progress(c)
    PROVE  NameInv'
<1>1. OneCall(c)
  BY ProgressFacts DEF CtrlInv
<1>2. CASE Write(c)
  BY <1>2, PlainWriteNames, BirthNames
<1>3. CASE \/ EnsureRead(c) \/ DeleteRead(c) \/ ExpandRead(c) \/ Poll(c)
           \/ FindGet(c) \/ Verify(c) \/ Lock(c) \/ RequestFails(c)
  <2>1. UNCHANGED apiVars /\ Follows(c) /\ ToldNamed /\ EnsureNames(c)'
    BY <1>3, EnsureReadNames, OtherReadNames, PollNames, FindNames
  <2>2. queue' = queue /\ NamesKept /\ NoBirth /\ WaitingStay
    BY <2>1, SameVolumesNames
  <2>. QED  BY <1>1, <2>1, <2>2, QueuesStay, StepNames
<1>4. CASE Detach(c) \/ Attach(c)
  BY <1>1, <1>4, MoveNames, QueuesStay, StepNames
<1>. QED  BY <1>2, <1>3, <1>4 DEF Progress

LEMMA NextNames ==
    ASSUME KeepsNames, HomesAtOnce, CtrlInv, LockDiscipline, NameInv,
           [CtrlNext]_allVars
    PROVE  NameInv'
<1>1. [Next]_vars
  BY CtrlStepIsClientStep
<1>2. OthersNameless'
  BY <1>1, NamelessGoesOn DEF NameInv
<1>3. (\E c \in Callers : Progress(c)) \/ Quiet \/ Appliance
  BY <1>1, QuietOrNot DEF CtrlInv
<1>. QED  BY <1>2, <1>3, ProgressNames, QuietNames, ApplianceNames

LEMMA NamesInvariant ==
    ASSUME KeepsNames, HomesAtOnce
    PROVE  CtrlSpec => [](CtrlInv /\ NameInv)
<1>1. CtrlInit => CtrlInv /\ LockDiscipline /\ NameInv
  BY InitCtrlInv, InitNames, ClientAssumption DEF CtrlInit, Init, LockDiscipline
<1>2. CtrlInv /\ LockDiscipline /\ NameInv /\ [CtrlNext]_allVars
      => CtrlInv' /\ LockDiscipline' /\ NameInv'
  <2>1. CtrlInv /\ LockDiscipline /\ [CtrlNext]_allVars => LockDiscipline'
    BY CtrlStepIsClientStep, NextLock DEF CtrlInv
  <2>. QED  BY <2>1, NextCtrlInv, NextNames
<1>. QED  BY <1>1, <1>2, PTL DEF CtrlSpec

\* controller.go:27-75 and client.go:241-261: a CreateVolume that was cut short at
\* any point, and repeated, leaves no second volume behind: the claim's volume is
\* the one of its name, whatever is published, expanded and deleted meanwhile.
THEOREM NoOrphans ==
    ASSUME KeepsNames, HomesAtOnce
    PROVE  CtrlSpec => []NoOrphan
<1>1. ASSUME NameInv, NEW n \in Names, NEW v \in VolIds,
             attr[v].name = n, Live(v), claim[n].vol # None
      PROVE  v = claim[n].vol
  <2>1. Carries(claim[n].vol, n)
    BY <1>1 DEF NameInv, ClaimsNamed
  <2>2. place[v] # Unborn /\ n # NoName
    BY <1>1, ApiAssumption DEF Live
  <2>. QED  BY <1>1, <2>1, <2>2 DEF NameInv, OneOfAName, Carries
<1>2. NameInv => NoOrphan
  BY <1>1 DEF NoOrphan
<1>. QED  BY <1>2, NamesInvariant, PTL

\* client.go:756-786: no two claims are given the same volume, although
\* findNewVolume takes any new disk that is large enough.
THEOREM ClaimsAreApart ==
    ASSUME KeepsNames, HomesAtOnce
    PROVE  CtrlSpec => []ClaimsAreDisjoint
<1>1. CtrlInv /\ NameInv => ClaimsAreDisjoint
  BY DEF NameInv, ClaimsNamed, Carries, ClaimsAreDisjoint
<1>. QED  BY <1>1, NamesInvariant, PTL

-----------------------------------------------------------------------------
(* Deletion. No request fails, every node carries a label, and every       *)
(* resize takes effect at once. Volumes move, grow, and are forgotten.     *)

DeletionSetting ==
    /\ KeepsNames /\ ~Faults
    /\ \A s \in Servers : MaxDeferred[s] = 0
    /\ HasResolver /\ ~LabelFaults
    /\ \A node \in Nodes : LabelOf[node] # None

\* Where DeleteVolume looks: the server of the volume id and the labelled ones.
Reach(n) == {HomeOf[n]} \cup {LabelOf[node] : node \in Nodes}

\* Deleted, or detached by ControllerUnpublishVolume, if that is called at all.
Out(v) == \/ place[v] = Deleted
          \/ place[v] = Detached /\ "Unpublish" \in Lifecycle

OnItsWay(n) ==
    \E c \in Callers : rpc[c].kind = "Publish" /\ rpc[c].name = n /\ pc[c] = "attach"

\* DeleteVolume can find a claim's volume, unless a move is under way.
Findable(n) ==
    /\ claim[n].phase # "pending" =>
          \/ place[claim[n].vol] \in Reach(n)
          \/ Out(claim[n].vol)
          \/ place[claim[n].vol] = Detached /\ OnItsWay(n)
    /\ claim[n].phase = "gone" => Out(claim[n].vol)

\* Until DeleteVolume is done, the volume is where it has yet to look, or where it
\* will delete it.
Looking(c) ==
    rpc[c].kind = "Delete" =>
        /\ pc[c] # "poll"
        /\ \/ Out(Mine(c).vol)
           \/ pc[c] = "find" /\ place[Mine(c).vol] \in todo[c]
           \/ /\ pc[c] = "done" /\ rpc[c].current = None
              /\ ret[c].ok /\ place[Mine(c).vol] = ret[c].server
           \/ /\ ~(pc[c] = "done" /\ ret[c].ok)
              /\ rpc[c].current # None /\ place[Mine(c).vol] = rpc[c].current

\* The attacher moves volumes to labelled servers.
Attaching(c) ==
    /\ rpc[c].kind = "Publish" => req[c].server \in Reach(rpc[c].name)
    /\ rpc[c].kind = "Unpublish" => "Unpublish" \in Lifecycle

NothingOutstanding == \A s \in Servers : queue[s] = <<>>

DeletionInv ==
    /\ NothingOutstanding
    /\ \A n \in Names : Findable(n)
    /\ \A c \in Callers : Looking(c) /\ Attaching(c)

\* What the invariants say of a claim's volume.
LEMMA OwnedVolume ==
    ASSUME CtrlInv, NameInv, NEW n \in Names, claim[n].phase # "pending"
    PROVE  /\ claim[n].vol \in VolIds /\ place[claim[n].vol] # Unborn
           /\ \A m \in Names : claim[m].vol = claim[n].vol => m = n
<1>1. claim[n].vol \in VolIds /\ claim[n].vol # None
  BY ApiAssumption DEF CtrlInv, ClaimOK
<1>. QED  BY <1>1 DEF NameInv, ClaimsNamed, Carries

LEMMA Places ==
    ASSUME CtrlInv
    PROVE  /\ place \in [VolIds -> Servers \cup {Unborn, Detached, Deleted}]
           /\ pc \in [Callers -> Steps] /\ req \in [Callers -> Reqs]
           /\ todo \in [Callers -> SUBSET Servers] /\ ret \in [Callers -> Rets]
           /\ Servers \cap {Unborn, Detached, Deleted} = {} /\ None \notin VolIds \cup Servers
           /\ Unborn \notin {Detached, Deleted} /\ Detached # Deleted
  BY ApiAssumption
  DEF CtrlInv, TypeInv, TypeOK, ApiTypeOK, ClientTypeOK, Unborn, Detached, Deleted

\* A step of a call deletes volumes, detaches or attaches the one it is about, or
\* leaves them where they are.
Moves(c, v) ==
    \/ place'[v] = place[v]
    \/ pc[c] = "write" /\ place'[v] = Deleted
    \/ pc[c] = "detach" /\ v = req[c].vol /\ place'[v] = Detached
    \/ pc[c] = "attach" /\ v = req[c].vol /\ place'[v] = req[c].server

LEMMA PutTakesEffect ==
    ASSUME DeletionSetting, CtrlInv, NothingOutstanding, NEW c \in Callers, Write(c)
    PROVE  /\ TakeEffect(req[c].server, NextArray(c)) /\ queue' = queue
           /\ req[c].server \in Servers /\ NextArray(c) \in Payloads
<1>1. pc[c] = "write" /\ AcceptResize(req[c].server, NextArray(c))
  BY DEF Write
<1>2. req[c].server \in Servers /\ NextArray(c) \in Payloads
  BY <1>1, NextArrayType DEF CtrlInv, TypeInv, CallOK
<1>3. MaxDeferred[req[c].server] = 0 /\ queue[req[c].server] = <<>>
  BY <1>2 DEF DeletionSetting, NothingOutstanding
<1>4. ~(Len(queue[req[c].server]) < MaxDeferred[req[c].server])
  BY <1>3
<1>. QED  BY <1>1, <1>2, <1>4 DEF AcceptResize

LEMMA StepPlaces ==
    ASSUME DeletionSetting, CtrlInv, NothingOutstanding, NEW c \in Callers, Progress(c)
    PROVE  /\ queue' = queue
           /\ \A d \in Callers : d # c => todo'[d] = todo[d]
           /\ \A v \in VolIds : place[v] # Unborn => Moves(c, v)
<1>. USE Places
<1>1. ASSUME UNCHANGED apiVars
      PROVE  queue' = queue /\ \A v \in VolIds : Moves(c, v)
  BY <1>1 DEF apiVars, Moves
<1>2. CASE Write(c)
  <2>1. PICK fresh \in IF NextArray(c).new = None THEN {None} ELSE Fresh :
            place' = PlaceAfter(req[c].server, NextArray(c), fresh)
    BY <1>2, PutTakesEffect DEF TakeEffect
  <2>2. ASSUME NEW v \in VolIds, place[v] # Unborn  PROVE Moves(c, v)
    <3>1. v # fresh
      BY <2>1, <2>2 DEF Fresh
    <3>. QED  BY <1>2, <2>1, <3>1 DEF PlaceAfter, Moves, Write
  <2>. QED  BY <1>2, <2>2, PutTakesEffect DEF Write, Ok, Fail, Return
<1>3. CASE Detach(c)
  BY <1>3 DEF Detach, DetachFrom, Moves, Ok, Fail, Return
<1>4. CASE Attach(c)
  BY <1>4 DEF Attach, AttachTo, Moves, Fail, Return
<1>5. CASE \/ Lock(c) \/ EnsureRead(c) \/ DeleteRead(c) \/ ExpandRead(c) \/ Poll(c)
           \/ FindGet(c) \/ Verify(c) \/ RequestFails(c)
  BY <1>1, <1>5 DEF Lock, EnsureRead, DeleteRead, ExpandRead, Poll, FindGet, Verify,
                    RequestFails, KeepSnap, Ok, Fail, Return
<1>. QED  BY <1>2, <1>3, <1>4, <1>5 DEF Progress

\* Only the attacher moves a claim's volume between servers.
LEMMA OthersDelete ==
    ASSUME DeletionSetting, CtrlInv, NameInv, NothingOutstanding,
           NEW c \in Callers, Progress(c), NEW n \in Names, claim[n].phase # "pending",
           ~(rpc[c].kind \in Attacher /\ rpc[c].name = n)
    PROVE  place'[claim[n].vol] \in {place[claim[n].vol], Deleted}
<1>1. claim[n].vol \in VolIds /\ Moves(c, claim[n].vol)
  BY OwnedVolume, StepPlaces
<1>2. ASSUME pc[c] \in {"detach", "attach"}, claim[n].vol = req[c].vol  PROVE FALSE
  <2>1. pc[c] # "idle" /\ req[c].op \in {"Move", "Detach"}
    BY <1>2 DEF CtrlInv, TypeInv, CallOK
  <2>2. /\ rpc[c].kind \in Attacher /\ rpc[c].name \in Names
        /\ req[c].vol = claim[rpc[c].name].vol
    BY <2>1, KindOfCall DEF Attacher, Mine
  <2>. QED  BY <1>2, <2>2, OwnedVolume
<1>. QED  BY <1>1, <1>2 DEF Moves

\* A volume that is out stays out, unless the attacher has it.
LEMMA OutStays ==
    ASSUME DeletionSetting, CtrlInv, NameInv, NothingOutstanding,
           NEW c \in Callers, Progress(c), NEW n \in Names, claim[n].phase # "pending",
           ~(rpc[c].kind \in Attacher /\ rpc[c].name = n)
    PROVE  /\ Out(claim[n].vol) => place'[claim[n].vol] = Deleted
                                   \/ (place'[claim[n].vol] = Detached
                                       /\ "Unpublish" \in Lifecycle)
           /\ place'[claim[n].vol] = place[claim[n].vol] \/ place'[claim[n].vol] = Deleted
  BY OthersDelete DEF Out

\* The steps of FindVolume and DeleteVolume themselves.
LEMMA LookingOn ==
    ASSUME DeletionSetting, CtrlInv, NameInv, DeletionInv,
           NEW c \in Callers, Progress(c), UNCHANGED ctrlVars
    PROVE  Looking(c)'
<1>. SUFFICES ASSUME rpc[c].kind = "Delete"  PROVE Looking(c)'
  BY DEF Looking, ctrlVars
<1>. DEFINE v == Mine(c).vol
<1>. USE Places, NoneIsNoRpc
<1>1. /\ pc[c] \notin {"idle", "done"} /\ rpc' = rpc /\ claim' = claim
      /\ Mine(c)' = Mine(c)
  BY ProgressFacts DEF CtrlInv, OneCall, ctrlVars, Mine
<1>2. PICK n \in Names : rpc[c].name = n
  BY MineIsGood
<1>3. /\ v = claim[n].vol /\ v = req[c].vol /\ claim[n].phase # "pending"
      /\ req[c].op \in {"Find", "Delete"} /\ (rpc[c].current = None <=> req[c].op = "Find")
      /\ v \in VolIds
  BY <1>1, <1>2, KindOfCall, OwnedVolume DEF Mine
<1>4. rpc[c].current # None => rpc[c].current = req[c].server
  BY <1>1 DEF CtrlInv, RpcsOK, Serves
<1>5. Looking(c) /\ NothingOutstanding
  BY DEF DeletionInv
<1>6. Out(v) => Out(v)'
  <2>1. ~(rpc[c].kind \in Attacher /\ rpc[c].name = n)
    BY DEF Attacher
  <2>2. Out(claim[n].vol) => place'[claim[n].vol] = Deleted
                             \/ (place'[claim[n].vol] = Detached
                                 /\ "Unpublish" \in Lifecycle)
    BY <1>3, <1>5, <2>1, OutStays
  <2>. HIDE DEF v
  <2>3. Out(claim[n].vol) => Out(claim[n].vol)'
    BY <1>1, <2>2 DEF Out
  <2>. QED  BY <1>1, <1>3, <2>3 DEF v
<1>7. pc'[c] = "poll" => pc[c] = "poll"
  <2>1. CASE Write(c)
    <3>1. req[c].op = "Delete"
      BY <1>3, <2>1 DEF Write, CtrlInv, TypeInv, CallOK
    <3>. QED  BY <2>1, <3>1 DEF Write, Ok, Fail, Return, Goto
  <2>2. CASE Lock(c)
    BY <2>2 DEF Lock, Goto
  <2>3. CASE EnsureRead(c) \/ DeleteRead(c) \/ ExpandRead(c)
    BY <2>3 DEF EnsureRead, DeleteRead, ExpandRead, Goto, Ok, Fail, Return, KeepSnap
  <2>4. CASE Poll(c)
    BY <2>4 DEF Poll
  <2>5. CASE FindGet(c)
    BY <2>5 DEF FindGet, Goto, Ok, Fail, Return
  <2>6. CASE Detach(c) \/ Attach(c) \/ Verify(c) \/ RequestFails(c)
    BY <2>6 DEF Detach, Attach, Verify, RequestFails, Goto, Ok, Fail, Return
  <2>. QED  BY <2>1, <2>2, <2>3, <2>4, <2>5, <2>6 DEF Progress
<1>8. CASE Out(v)
  BY <1>1, <1>5, <1>6, <1>7, <1>8 DEF Looking
<1>9. CASE pc[c] = "find" /\ place[v] \in todo[c] /\ ~Out(v)
  <2>1. FindGet(c) /\ place' = place
    BY <1>9 DEF Progress, Lock, EnsureRead, DeleteRead, ExpandRead, Write, Poll, FindGet,
                Detach, Attach, Verify, RequestFails, Refused, DeletionSetting, apiVars
  <2>2. PICK s \in todo[c] :
          \/ v \in On(s) /\ Ok(c, v, s)
          \/ v \notin On(s) /\ todo[c] # {s} /\ todo' = [todo EXCEPT ![c] = @ \ {s}]
             /\ UNCHANGED pc
    BY <1>3, <1>9, <2>1 DEF FindGet, On, CtrlInv, TypeInv, CallOK
  <2>3. CASE v \in On(s) /\ Ok(c, v, s)
    <3>1. rpc[c].current = None
      BY <1>3, <1>9 DEF CtrlInv, TypeInv, CallOK
    <3>2. pc'[c] = "done" /\ ret'[c].ok /\ ret'[c].server = s
      BY <2>3 DEF Ok, Return, Goto
    <3>3. place'[v] = s
      BY <2>1, <2>3 DEF On
    <3>. QED  BY <1>1, <3>1, <3>2, <3>3 DEF Looking
  <2>4. CASE v \notin On(s) /\ todo' = [todo EXCEPT ![c] = @ \ {s}] /\ UNCHANGED pc
    <3>1. todo'[c] = todo[c] \ {s} /\ place[v] # s
      BY <1>3, <2>4 DEF On
    <3>. QED  BY <1>1, <1>9, <2>1, <2>4, <3>1 DEF Looking
  <2>. QED  BY <2>2, <2>3, <2>4
<1>10. CASE rpc[c].current # None /\ place[v] = rpc[c].current /\ ~Out(v)
  <2>1. req[c].op = "Delete" /\ place[v] = req[c].server /\ v \in On(req[c].server)
    BY <1>3, <1>4, <1>10 DEF On
  <2>2. pc[c] \in {"lock", "read", "write"}
    BY <1>1, <1>5, <2>1 DEF Looking, CtrlInv, TypeInv, CallOK, Steps
  <2>3. CASE Write(c)
    <3>1. NextArray(c).new = None /\ v \notin Ids(NextArray(c).keep)
      <4>1. snap[c] \in Arrays
        BY DEF CtrlInv, TypeInv, TypeOK, ClientTypeOK
      <4>. QED  BY <1>3, <2>1, <4>1 DEF NextArray, ArrayWithout, Ids, Arrays
    <3>2. place'[v] = Deleted
      BY <1>3, <1>5, <2>1, <2>3, <3>1, PutTakesEffect DEF TakeEffect, PlaceAfter
    <3>. QED  BY <1>1, <1>7, <2>2, <3>2 DEF Looking, Out
  <2>4. CASE ~Write(c)
    <3>1. Lock(c) \/ DeleteRead(c) \/ (RequestFails(c) /\ Fail(c))
      BY <2>1, <2>2, <2>4 DEF Progress, EnsureRead, ExpandRead, Poll, FindGet, Detach,
                              Attach, Verify, RequestFails
    <3>2. place' = place /\ ~(pc'[c] = "done" /\ ret'[c].ok)
      BY <1>3, <2>1, <3>1 DEF Lock, DeleteRead, RequestFails, Fail, Return, KeepSnap, Goto,
                              NoRet, apiVars
    <3>. QED  BY <1>1, <1>7, <1>10, <2>2, <3>2 DEF Looking
  <2>. QED  BY <2>3, <2>4
<1>. QED  BY <1>1, <1>5, <1>8, <1>9, <1>10 DEF Looking

\* What the attacher does to the volume of its claim, and the others do not undo.
LEMMA FindableOn ==
    ASSUME DeletionSetting, CtrlInv, NameInv, DeletionInv,
           NEW c \in Callers, Progress(c), UNCHANGED ctrlVars, NEW n \in Names
    PROVE  Findable(n)'
<1>. DEFINE v == claim[n].vol
<1>. USE Places, NoneIsNoRpc
<1>1. /\ OneCall(c) /\ rpc' = rpc /\ claim' = claim /\ Findable(n) /\ NothingOutstanding
  BY ProgressFacts DEF CtrlInv, ctrlVars, DeletionInv
<1>2. CASE claim[n].phase = "pending"
  BY <1>1, <1>2 DEF Findable
<1>3. CASE claim[n].phase # "pending" /\ ~(rpc[c].kind \in Attacher /\ rpc[c].name = n)
  <2>1. OnItsWay(n) => OnItsWay(n)'
    BY <1>1, <1>3 DEF OnItsWay, OneCall, Attacher
  <2>2. (Out(v) => Out(v)') /\ (place'[v] = place[v] \/ Out(v)')
    BY <1>1, <1>3, OutStays DEF Out
  <2>. QED  BY <1>1, <2>1, <2>2 DEF Findable
<1>4. CASE claim[n].phase # "pending" /\ rpc[c].kind \in Attacher /\ rpc[c].name = n
  <2>1. /\ claim[n].phase # "gone" /\ v = req[c].vol /\ v \in VolIds /\ Moves(c, v)
        /\ Attaching(c)
        /\ rpc[c].kind = "Publish" <=> req[c].op = "Move"
        /\ rpc[c].kind = "Unpublish" <=> req[c].op = "Detach"
    BY <1>1, <1>4, KindOfCall, MineIsGood, OwnedVolume, StepPlaces
    DEF Attacher, Mine, DeletionInv, OneCall
  <2>2. CASE rpc[c].kind = "Unpublish"
    BY <1>1, <1>4, <2>1, <2>2 DEF Findable, Attaching, Moves, Out, CtrlInv, TypeInv, CallOK
  <2>3. CASE rpc[c].kind = "Publish"
    <3>1. OnItsWay(n) => pc[c] = "attach"
      BY <1>4, <2>3 DEF OnItsWay, CtrlInv, RpcsOK, OneRpcOfAKind
    <3>2. CASE pc[c] = "attach"
      <4>1. Attach(c) \/ RequestFails(c)
        BY <3>2 DEF Progress, Lock, EnsureRead, DeleteRead, ExpandRead, Write, Poll, FindGet,
                    Detach, Verify
      <4>2. CASE Attach(c)
        BY <1>1, <2>1, <2>3, <4>2, <1>4 DEF Attach, AttachTo, Attaching, Findable
      <4>3. CASE RequestFails(c)
        BY <1>1, <1>4, <2>1, <3>2, <4>3
        DEF RequestFails, Refused, DeletionSetting, Findable, apiVars, Out
      <4>. QED  BY <4>1, <4>2, <4>3
    <3>3. CASE pc[c] = "detach"
      <4>1. Detach(c) \/ RequestFails(c)
        BY <3>3 DEF Progress, Lock, EnsureRead, DeleteRead, ExpandRead, Write, Poll, FindGet,
                    Attach, Verify
      <4>2. CASE Detach(c)
        <5>1. pc'[c] = "attach"
          BY <2>1, <2>3, <4>2 DEF Detach, DeletionSetting, Goto
        <5>2. OnItsWay(n)'
          BY <1>1, <1>4, <2>3, <5>1 DEF OnItsWay
        <5>. QED  BY <1>1, <2>1, <3>3, <5>2 DEF Findable, Moves, Out
      <4>3. CASE RequestFails(c)
        BY <1>1, <1>4, <2>1, <3>1, <3>3, <4>3 DEF RequestFails, Findable, apiVars, Out
      <4>. QED  BY <4>1, <4>2, <4>3
    <3>4. CASE pc[c] \notin {"attach", "detach"}
      BY <1>1, <1>4, <2>1, <3>1, <3>4 DEF Findable, Moves, Out
    <3>. QED  BY <3>2, <3>3, <3>4
  <2>. QED  BY <1>4, <2>2, <2>3 DEF Attacher
<1>. QED  BY <1>2, <1>3, <1>4

LEMMA ProgressDeletion ==
    ASSUME DeletionSetting, CtrlInv, NameInv, DeletionInv,
           NEW c \in Callers, Progress(c), UNCHANGED ctrlVars
    PROVE  DeletionInv'
<1>. USE Places, NoneIsNoRpc
<1>1. /\ OneCall(c) /\ rpc' = rpc /\ claim' = claim /\ NothingOutstanding /\ queue' = queue
      /\ \A d \in Callers : d # c => todo'[d] = todo[d]
  BY ProgressFacts, StepPlaces DEF CtrlInv, ctrlVars, DeletionInv
<1>2. ASSUME NEW d \in Callers, d # c  PROVE Looking(d)'
  <2>. SUFFICES ASSUME rpc[d].kind = "Delete"  PROVE Looking(d)'
    BY <1>1 DEF Looking
  <2>1. PICK n \in Names : rpc[d].name = n
    BY MineIsGood
  <2>2. claim[n].phase = "deleting" /\ Mine(d) = claim[n] /\ Mine(d)' = claim[n]
    BY <1>1, <2>1, MineIsGood DEF Mine
  <2>3. ~(rpc[c].kind \in Attacher /\ rpc[c].name = n)
    BY <2>2, MineIsGood DEF Attacher, Mine
  <2>4. (Out(claim[n].vol) => Out(claim[n].vol)')
        /\ (place'[claim[n].vol] = place[claim[n].vol] \/ Out(claim[n].vol)')
    BY <1>1, <2>2, <2>3, OutStays DEF Out
  <2>. QED  BY <1>1, <1>2, <2>2, <2>4 DEF Looking, DeletionInv, OneCall
<1>3. ASSUME NEW d \in Callers  PROVE Attaching(d)'
  BY <1>1 DEF DeletionInv, Attaching, OneCall
<1>. QED
  BY <1>1, <1>2, <1>3, LookingOn, FindableOn DEF DeletionInv, NothingOutstanding

\* An RPC or a call begins or ends.
Stays(d) == /\ pc'[d] = pc[d] /\ req'[d] = req[d] /\ ret'[d] = ret[d]
            /\ todo'[d] = todo[d] /\ rpc'[d] = rpc[d]

LEMMA QuietDeletion ==
    ASSUME CtrlInv, DeletionInv, UNCHANGED apiVars, NEW n \in Names,
           \A m \in Names : m # n => claim'[m] = claim[m],
           claim[n].phase = "pending" => Findable(n)',
           claim[n].phase # "pending"
              => /\ claim'[n].vol = claim[n].vol
                 /\ claim'[n].phase = "gone" => claim[n].phase = "gone" \/ Out(claim[n].vol),
           \A d \in Callers : Stays(d) \/ (pc[d] # "attach" /\ Looking(d)' /\ Attaching(d)')
    PROVE  DeletionInv'
<1>1. NothingOutstanding'
  BY DEF DeletionInv, NothingOutstanding, apiVars
<1>2. ASSUME NEW m \in Names  PROVE Findable(m)'
  <2>1. OnItsWay(m) => OnItsWay(m)'
    BY DEF OnItsWay, Stays
  <2>2. CASE m # n \/ claim[n].phase # "pending"
    BY <2>1, <2>2 DEF DeletionInv, Findable, Out, apiVars
  <2>. QED  BY <2>2
<1>3. ASSUME NEW d \in Callers, Stays(d)  PROVE Looking(d)' /\ Attaching(d)'
  <2>1. Looking(d) /\ Attaching(d)
    BY DEF DeletionInv
  <2>2. rpc[d].kind = "Delete" => Mine(d)'.vol = Mine(d).vol
    <3>1. rpc[d].kind = "Delete" => rpc[d].name \in Names /\ Mine(d).phase = "deleting"
      BY MineIsGood, NoneIsNoRpc
    <3>. QED  BY <1>3, <3>1 DEF Mine, Stays
  <2>3. Looking(d)'
    BY <1>3, <2>1, <2>2 DEF Looking, Out, Stays, apiVars
  <2>. QED  BY <1>3, <2>1, <2>3 DEF Attaching, Stays
<1>. QED  BY <1>1, <1>2, <1>3 DEF DeletionInv

LEMMA EndDeletion ==
    ASSUME CtrlInv, NameInv, DeletionInv, NEW c \in Callers,
           \/ VolumeCreated(c) \/ VolumePublished(c) \/ VolumeUnpublished(c)
           \/ VolumeDeleted(c) \/ VolumeExpanded(c)
    PROVE  DeletionInv'
<1>. USE Places, ClaimTypes
<1>1. PICK kind \in Rpcs : \E k : End(c, kind, k)
  BY DEF VolumeCreated, VolumePublished, VolumeUnpublished, VolumeDeleted,
         VolumeExpanded, Rpcs, Provisioner, Attacher, Resizer
<1>2. /\ pc[c] = "done" /\ rpc[c].kind # None /\ rpc'[c] = NoRpc
      /\ UNCHANGED apiVars
      /\ \A d \in Callers : d # c => Stays(d)
  BY <1>1, NoneIsNoRpc
  DEF End, Finish, Goto, Stays, Rpcs, Provisioner, Attacher, Resizer
<1>3. PICK n \in Names : rpc[c].name = n
  BY <1>2
<1>4. \A m \in Names : m # n => claim'[m] = claim[m]
  BY <1>1, <1>3 DEF End
<1>5. Looking(c)' /\ Attaching(c)'
  BY <1>2, NoneIsNoRpc DEF Looking, Attaching, NoRpc
<1>6. ASSUME claim[n].phase = "pending"  PROVE Findable(n)'
  <2>1. VolumeCreated(c)
    BY <1>2, <1>3, <1>6, MineIsGood
    DEF VolumePublished, VolumeUnpublished, VolumeDeleted, VolumeExpanded, End, Mine
  <2>2. CASE ~ret[c].ok
    BY <1>6, <2>1, <2>2 DEF VolumeCreated, End, Findable
  <2>3. CASE ret[c].ok
    <3>1. Carries(ret[c].vol, n)
      BY <1>2, <1>3, <2>1, <2>3
      DEF VolumeCreated, End, CtrlInv, RpcsOK, Serves, NameInv, EnsureNames
    <3>2. place[ret[c].vol] = HomeOf[n]
      BY <1>6, <3>1 DEF NameInv, WaitsAtHome, Carries
    <3>3. claim'[n].vol = ret[c].vol /\ claim'[n].phase = "bound"
      BY <1>3, <2>1, <2>3 DEF VolumeCreated, End, Mine
    <3>. QED  BY <1>2, <3>2, <3>3 DEF Findable, Reach, apiVars
  <2>. QED  BY <2>2, <2>3
<1>7. ASSUME claim[n].phase # "pending"
      PROVE  /\ claim'[n].vol = claim[n].vol
             /\ claim'[n].phase = "gone" => claim[n].phase = "gone" \/ Out(claim[n].vol)
  <2>1. rpc[c].kind # "Create"
    BY <1>3, <1>7 DEF CtrlInv, RpcsOK, RpcFits, Mine
  <2>2. CASE VolumePublished(c) \/ VolumeUnpublished(c) \/ VolumeExpanded(c)
    <3>1. PICK new : /\ new.vol = claim[n].vol
                     /\ new.phase \in {claim[n].phase, "published", "bound"}
                     /\ claim' = IF ret[c].ok THEN [claim EXCEPT ![n] = new] ELSE claim
      <4>1. claim[n] \in [phase : Phases, vol : VolIds \cup {None},
                          node : Nodes \cup {None}, size : Nat]
        OBVIOUS
      <4>. QED
        BY <1>3, <2>2, <4>1
        DEF VolumePublished, VolumeUnpublished, VolumeExpanded, End, Mine
    <3>. QED  BY <3>1
  <2>3. CASE VolumeDeleted(c)
    <3>1. ret[c].ok => Out(claim[n].vol)
      BY <1>2, <1>3, <2>3 DEF VolumeDeleted, End, Mine, DeletionInv, Looking
    <3>. QED  BY <1>3, <2>3, <3>1 DEF VolumeDeleted, End, Mine
  <2>. QED  BY <2>1, <2>2, <2>3 DEF VolumeCreated, End
<1>. QED  BY <1>2, <1>4, <1>5, <1>6, <1>7, QuietDeletion

\* DeleteVolume goes on from FindVolume to the client's DeleteVolume.
LEMMA LocatedDeletion ==
    ASSUME CtrlInv, DeletionInv, NEW c \in Callers, DeleteLocated(c)
    PROVE  DeletionInv'
<1>. USE Places, ClaimTypes
<1>1. /\ pc[c] = "done" /\ pc'[c] = "idle" /\ UNCHANGED apiVars /\ claim' = claim
      /\ rpc'[c] = [rpc[c] EXCEPT !.current =
                       IF ret[c].ok THEN ret[c].server ELSE HomeOf[rpc[c].name]]
      /\ \A d \in Callers : d # c => Stays(d)
  BY DEF DeleteLocated, Finish, Goto, Stays
<1>2. PICK n \in Names : rpc[c].name = n
  BY NoneIsNoRpc DEF DeleteLocated
<1>3. Out(Mine(c).vol) \/ (ret[c].ok /\ place[Mine(c).vol] = ret[c].server)
  BY <1>1 DEF DeleteLocated, DeletionInv, Looking
<1>4. rpc'[c].kind = "Delete" /\ rpc'[c].name = n
      /\ (ret[c].ok => rpc'[c].current = ret[c].server)
  BY <1>1, <1>2 DEF DeleteLocated
<1>5. Mine(c)' = Mine(c) /\ (ret[c].ok => ret[c].server # None)
  BY <1>1, <1>2, <1>4, AnswersCtrl DEF Mine
<1>6. Looking(c)' /\ Attaching(c)'
  BY <1>1, <1>3, <1>4, <1>5 DEF Looking, Attaching, Out, apiVars
<1>. QED  BY <1>1, <1>2, <1>6, QuietDeletion DEF DeletionInv, Findable

LEMMA CurrentRefDeletion ==
    ASSUME CtrlInv, DeletionInv, NEW c \in Callers, DeleteCurrentRef(c)
    PROVE  DeletionInv'
<1>. USE Places, ClaimTypes
<1>1. /\ pc[c] = "idle" /\ pc'[c] = "lock" /\ UNCHANGED apiVars /\ rpc' = rpc
      /\ claim' = claim /\ rpc[c].kind = "Delete" /\ rpc[c].current # None
      /\ \A d \in Callers : d # c => Stays(d)
  BY DEF DeleteCurrentRef, CallDelete, Call, Goto, Stays, ctrlVars
<1>2. PICK n \in Names : rpc[c].name = n
  BY <1>1, NoneIsNoRpc
<1>3. Looking(c)' /\ Attaching(c)'
  BY <1>1 DEF DeletionInv, Looking, Attaching, Mine, Out, apiVars
<1>. QED  BY <1>1, <1>2, <1>3, QuietDeletion DEF DeletionInv, Findable

\* An RPC begins: the attacher is given a server that carries a label, and
\* DeleteVolume looks wherever the volume can be.
Leads(c, n, kind, r, step) ==
    /\ kind = "Publish" => r.server \in Reach(n)
    /\ kind = "Delete" => /\ step = "find"
                          /\ Out(claim[n].vol) \/ place[claim[n].vol] \in todo'[c]

Retains(n, k) ==
    /\ claim' = [claim EXCEPT ![n] = k]
    /\ k.vol = claim[n].vol /\ k.phase # "gone"
    /\ k.phase = "pending" <=> claim[n].phase = "pending"

LEMMA BeginDeletion ==
    ASSUME CtrlInv, DeletionInv, NEW c \in Callers, NEW n \in Names, NEW kind \in Lifecycle,
           Begin(c, n, kind), NEW r, NEW step \in Steps, Call(c, r, step),
           \A d \in Callers : d # c => todo'[d] = todo[d],
           NEW k, Retains(n, k), Leads(c, n, kind, r, step)
    PROVE  DeletionInv'
<1>. USE Places, ClaimTypes
<1>1. /\ pc[c] = "idle" /\ pc'[c] = step /\ req'[c] = r /\ UNCHANGED apiVars
      /\ rpc'[c] = [kind |-> kind, name |-> n, current |-> None]
      /\ \A d \in Callers : d # c => Stays(d)
  BY DEF Begin, Call, Goto, Stays
<1>2. claim'[n] = k /\ \A m \in Names : m # n => claim'[m] = claim[m]
  BY DEF Retains
<1>3. Looking(c)' /\ Attaching(c)'
  BY <1>1, <1>2 DEF Looking, Attaching, Mine, Out, apiVars, Retains, Leads
<1>. QED  BY <1>1, <1>2, <1>3, QuietDeletion DEF Findable, Retains

\* Every node has a label: it is the server of the node, and the labels are the
\* candidates.
LEMMA LabelsLead ==
    ASSUME DeletionSetting, NEW n \in Names
    PROVE  /\ \A node \in Nodes : ServerIDForNode(node, HomeOf[n]) \ {None} \subseteq Reach(n)
           /\ \A S \in CandidateServerIDs({HomeOf[n]}) : UniqueNonEmpty(S) = Reach(n)
           /\ Reach(n) \subseteq Servers
<1>1. HomeOf[n] \in Servers /\ None \notin Servers
      /\ \A node \in Nodes : LabelOf[node] \in Servers
  BY ClientAssumption, ApiAssumption, ControllerAssumption DEF DeletionSetting
<1>2. \A node \in Nodes : Label(node) = {LabelOf[node]}
  BY DEF Label, DeletionSetting
<1>3. Labels = {{LabelOf[node] : node \in Nodes}}
  BY <1>1 DEF Labels, DeletionSetting
<1>4. CandidateServerIDs({HomeOf[n]}) = {Reach(n)} /\ UniqueNonEmpty(Reach(n)) = Reach(n)
  BY <1>1, <1>3 DEF CandidateServerIDs, UniqueNonEmpty, Reach
<1>5. ASSUME NEW node \in Nodes
      PROVE  ServerIDForNode(node, HomeOf[n]) \ {None} \subseteq Reach(n)
  BY <1>1, <1>2 DEF ServerIDForNode, Reach
<1>. QED  BY <1>1, <1>4, <1>5 DEF Reach

LEMMA BegunDeletion ==
    ASSUME DeletionSetting, CtrlInv, DeletionInv, NEW c \in Callers, NEW n \in Names,
           \/ CreateVolume(c, n) \/ DeleteVolume(c, n) \/ ControllerUnpublishVolume(c, n)
           \/ \E node \in Nodes : ControllerPublishVolume(c, n, node)
           \/ \E size \in Sizes : ControllerExpandVolume(c, n, size)
    PROVE  DeletionInv'
<1>. USE Places, ClaimTypes
<1>1. ASSUME CreateVolume(c, n) \/ \E size \in Sizes : ControllerExpandVolume(c, n, size)
      PROVE  DeletionInv'
  <2>1. PICK r : Call(c, r, "lock") /\ todo' = todo
    BY <1>1 DEF CreateVolume, CallEnsure, ControllerExpandVolume, CallExpand
  <2>2. PICK kind \in Lifecycle \cap {"Create", "Expand"} : Begin(c, n, kind)
    BY <1>1 DEF CreateVolume, ControllerExpandVolume, Begin
  <2>3. Retains(n, claim[n]) /\ Leads(c, n, kind, r, "lock")
    BY <1>1, <2>2 DEF CreateVolume, ControllerExpandVolume, Retains, Leads
  <2>. QED  BY <2>1, <2>2, <2>3, BeginDeletion DEF Steps
<1>2. ASSUME NEW phase \in {"publishing", "unpublishing", "deleting"},
             NEW node \in Nodes \cup {None},
             claim' = [claim EXCEPT ![n] = Changed(n, phase, node)],
             claim[n].phase # "pending"
      PROVE  Retains(n, Changed(n, phase, node))
  BY <1>2 DEF Retains, Changed
<1>3. CASE ControllerUnpublishVolume(c, n)
  <2>1. PICK r : Call(c, r, "detach") /\ todo' = todo
    BY <1>3 DEF ControllerUnpublishVolume, CallDetach
  <2>2. PICK k : Retains(n, k)
    <3>1. claim' = [claim EXCEPT ![n] = Changed(n, "unpublishing", claim[n].node)]
          /\ claim[n].phase # "pending" /\ claim[n].node \in Nodes \cup {None}
      BY <1>3 DEF ControllerUnpublishVolume, Changed
    <3>. QED  BY <1>2, <3>1
  <2>3. Begin(c, n, "Unpublish") /\ "Unpublish" \in Lifecycle
        /\ Leads(c, n, "Unpublish", r, "detach")
    BY <1>3 DEF ControllerUnpublishVolume, Begin, Leads
  <2>. QED  BY <2>1, <2>2, <2>3, BeginDeletion DEF Steps
<1>4. ASSUME NEW node \in Nodes, ControllerPublishVolume(c, n, node)  PROVE DeletionInv'
  <2>1. PICK target \in ServerIDForNode(node, HomeOf[n]) \ {None} :
            \E S : CallMove(c, HomeOf[n], target, claim[n].vol, S)
    BY <1>4 DEF ControllerPublishVolume
  <2>2. target \in Reach(n)
    BY <2>1, LabelsLead
  <2>3. PICK r : Call(c, r, "find") /\ r.server = target
                 /\ \A d \in Callers : d # c => todo'[d] = todo[d]
    BY <2>1 DEF CallMove, NoReq
  <2>4. PICK k : Retains(n, k)
    BY <1>2, <1>4 DEF ControllerPublishVolume, ToPublish, Publishing, Changed
  <2>5. Begin(c, n, "Publish") /\ "Publish" \in Lifecycle /\ Leads(c, n, "Publish", r, "find")
    BY <1>4, <2>2, <2>3 DEF ControllerPublishVolume, Begin, Leads
  <2>. QED  BY <2>3, <2>4, <2>5, BeginDeletion DEF Steps
<1>5. CASE DeleteVolume(c, n)
  <2>1. PICK S \in CandidateServerIDs({HomeOf[n]}) : CallFind(c, claim[n].vol, S)
    BY <1>5 DEF DeleteVolume
  <2>2. PICK r : /\ Call(c, r, "find") /\ todo'[c] = Reach(n)
                 /\ \A d \in Callers : d # c => todo'[d] = todo[d]
    BY <2>1, LabelsLead DEF CallFind
  <2>3. PICK k : Retains(n, k)
    <3>1. claim' = [claim EXCEPT ![n] = Changed(n, "deleting", claim[n].node)]
          /\ claim[n].phase # "pending" /\ claim[n].node \in Nodes \cup {None}
      BY <1>5 DEF DeleteVolume, Changed
    <3>. QED  BY <1>2, <3>1
  <2>4. claim[n].phase \in {"bound", "deleting"} /\ Begin(c, n, "Delete") /\ "Delete" \in Lifecycle
    BY <1>5 DEF DeleteVolume, Begin
  <2>5. ~OnItsWay(n)
    BY <2>4, MineIsGood, NoneIsNoRpc DEF OnItsWay, Mine
  <2>6. place[claim[n].vol] \in Reach(n) \/ Out(claim[n].vol)
    BY <2>4, <2>5 DEF DeletionInv, Findable
  <2>7. Leads(c, n, "Delete", r, "find")
    BY <2>2, <2>6 DEF Leads
  <2>. QED  BY <2>2, <2>3, <2>4, <2>7, BeginDeletion DEF Steps
<1>. QED  BY <1>1, <1>3, <1>4, <1>5

LEMMA NextDeletion ==
    ASSUME DeletionSetting, CtrlInv, NameInv, DeletionInv, [CtrlNext]_allVars
    PROVE  DeletionInv'
<1>1. ASSUME \A d \in Callers : Stays(d), UNCHANGED apiVars, NEW n \in Names,
             \A m \in Names : m # n => claim'[m] = claim[m],
             \/ claim'[n] = claim[n]
             \/ /\ claim[n].phase # "pending"
                /\ claim'[n].vol = claim[n].vol /\ claim'[n].phase # "gone"
      PROVE  DeletionInv'
  BY <1>1, QuietDeletion DEF Findable
<1>2. ASSUME UNCHANGED allVars  PROVE DeletionInv'
  BY <1>2
  DEF DeletionInv, NothingOutstanding, Findable, Looking, Attaching, Out, OnItsWay, Mine,
      allVars, ctrlVars, vars, apiVars, clientVars, callVars
<1>3. ASSUME NEW c \in Callers, Serve(c)  PROVE DeletionInv'
  BY <1>3, ProgressDeletion, EndDeletion, LocatedDeletion, CurrentRefDeletion DEF Serve
<1>4. ASSUME NEW n \in Names, Provision(n)  PROVE DeletionInv'
  BY <1>4, BegunDeletion DEF Provision
<1>5. ASSUME NEW n \in Names, NEW node \in Nodes, Publish(n, node)  PROVE DeletionInv'
  <2>1. ASSUME NEW c \in Callers, PublishUnresolved(c, n, node)  PROVE DeletionInv'
    <3>1. /\ \A d \in Callers : Stays(d)
          /\ UNCHANGED apiVars /\ claim[n].phase # "pending"
      BY <2>1 DEF PublishUnresolved, ToPublish, Stays, vars, clientVars, callVars
    <3>2. /\ claim'[n].vol = claim[n].vol /\ claim'[n].phase = "publishing"
          /\ \A m \in Names : m # n => claim'[m] = claim[m]
      BY <2>1, ClaimTypes DEF PublishUnresolved, Publishing
    <3>. QED  BY <1>1, <3>1, <3>2
  <2>. QED  BY <1>5, <2>1, BegunDeletion DEF Publish
<1>6. ASSUME NEW n \in Names, NEW c \in Callers,
             ControllerUnpublishVolume(c, n)
             \/ \E size \in Sizes : ControllerExpandVolume(c, n, size)
      PROVE  DeletionInv'
  BY <1>6, BegunDeletion
<1>7. ASSUME NEW n \in Names, Forget(n)  PROVE DeletionInv'
  <2>1. /\ \A d \in Callers : Stays(d)
        /\ UNCHANGED apiVars /\ claim[n].phase # "pending"
    BY <1>7 DEF Forget, Stays, vars, clientVars, callVars
  <2>2. /\ claim'[n].vol = claim[n].vol /\ claim'[n].phase = "bound"
        /\ \A m \in Names : m # n => claim'[m] = claim[m]
    BY <1>7, ClaimTypes DEF Forget
  <2>. QED  BY <1>1, <2>1, <2>2
<1>8. ~Appliance /\ ~CtrlRestart
  BY DEF Appliance, Apply, JobFails, DeletionInv, NothingOutstanding, CtrlRestart, Restart,
         DeletionSetting
<1>. QED  BY <1>2, <1>3, <1>4, <1>5, <1>6, <1>7, <1>8 DEF CtrlNext

LEMMA InitDeletion ==
    ASSUME CtrlInit
    PROVE  DeletionInv
<1>1. /\ \A s \in Servers : queue[s] = <<>>
      /\ \A n \in Names : claim[n].phase = "pending"
      /\ \A c \in Callers : rpc[c].kind = None
  BY DEF CtrlInit, Init, ApiInit, NoRpc
<1>. QED
  BY <1>1, NoneIsNoRpc DEF DeletionInv, NothingOutstanding, Findable, Looking, Attaching

LEMMA DeletionInvariant ==
    ASSUME DeletionSetting
    PROVE  CtrlSpec => [](CtrlInv /\ NameInv /\ DeletionInv)
<1>1. KeepsNames /\ HomesAtOnce
  BY ClientAssumption DEF DeletionSetting, HomesAtOnce
<1>2. CtrlSpec => [](CtrlInv /\ NameInv)
  BY <1>1, NamesInvariant
<1>3. CtrlInit => DeletionInv
  BY InitDeletion
<1>4. CtrlInv /\ NameInv /\ DeletionInv /\ [CtrlNext]_allVars => DeletionInv'
  BY NextDeletion
<1>. QED  BY <1>2, <1>3, <1>4, PTL DEF CtrlSpec

\* controller.go:77-96 and client.go:289-304: when DeleteVolume has succeeded, the
\* claim's volume is attached to no server any more, wherever it was moved to:
\* FindVolume misses a volume only while it is detached, and DeleteVolume, which
\* takes a missing volume for a deleted one, is then wrong about that alone.
THEOREM DeletionLeavesNothingAttached ==
    ASSUME DeletionSetting
    PROVE  CtrlSpec => [](\A n \in Names : claim[n].phase = "gone"
                              => place[claim[n].vol] \in {Deleted, Detached})
<1>1. DeletionInv => \A n \in Names : claim[n].phase = "gone"
                         => place[claim[n].vol] \in {Deleted, Detached}
  BY DEF DeletionInv, Findable, Out
<1>. QED  BY <1>1, DeletionInvariant, PTL
=============================================================================

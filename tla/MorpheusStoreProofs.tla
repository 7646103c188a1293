------------------------ MODULE MorpheusStoreProofs ------------------------
(***************************************************************************)
(* When only EnsureVolume, DeleteVolume and ExpandVolume are called and    *)
(* the appliance applies every resize before it answers, MorpheusClient    *)
(* implements VolumeStore: for any number of callers, servers, names and   *)
(* volumes, each PUT of a whole array changes exactly the one volume its   *)
(* call is about. Neither condition can be dropped: client_unlocked_attach *)
(* shows it for the calls, client_locked with deferred resizes fails.      *)
(*                                                                         *)
(* The argument: a caller that is to PUT holds the mutex of its server, so *)
(* no other PUT went to that server since its GET; arrays of other servers *)
(* touch other volumes; hence what it read is still what is there          *)
(* (Current), and its array differs from it in one volume (Prepared).      *)
(***************************************************************************)
EXTENDS MorpheusClientProofs

USE DEF LockedOps, AllOps

\* The conditions on the calls made and on the appliance.
Serialized == Ops \subseteq LockedOps /\ MaxDeferred = [s \in Servers |-> 0]

\* Nothing is outstanding on the appliance and no unlocked call is under way.
OnlyLocked ==
    /\ \A s \in Servers : queue[s] = <<>>
    /\ \A c \in Callers : pc[c] \notin {"find", "detach", "attach", "verify"}

\* What a locked call carries from its start to its PUT.
Requested ==
    \A c \in Callers : pc[c] \in {"lock", "read", "write"} =>
        /\ req[c].op = "Delete" => req[c].vol \in asked
        /\ req[c].op # "Delete" => req[c].size \in Sizes
        /\ req[c].op = "Ensure" => req[c].server = HomeOf[req[c].name]
        /\ req[c].op = "Expand" => req[c].name = NoName

\* What the decision taken on the array says about the volume to change.
Prepared ==
    \A c \in Callers : pc[c] = "write" =>
        /\ req[c].op = "Delete" => req[c].vol \in Ids(snap[c]) \ Roots
        /\ req[c].op # "Delete" /\ req[c].vol # None =>
              /\ req[c].vol \in Ids(snap[c]) \ Roots
              /\ snap[c][req[c].vol].size < req[c].size
              /\ req[c].name \in {NoName, snap[c][req[c].vol].name}
        /\ req[c].vol = None =>
              /\ req[c].op = "Ensure"
              /\ Named(snap[c], req[c].name) = {}

StoreInv == /\ TypeInv /\ LockDiscipline /\ RootSafe
            /\ OnlyLocked /\ Requested /\ Prepared /\ ReadIsCurrent

-----------------------------------------------------------------------------
(* One PUT.                                                                *)

LEMMA AcceptedAtOnce ==
    ASSUME Serialized, StoreInv, NEW s \in Servers, NEW p, AcceptResize(s, p)
    PROVE  TakeEffect(s, p) /\ UNCHANGED queue
<1>1. Len(queue[s]) = 0
  BY DEF StoreInv, OnlyLocked
<1>. QED  BY <1>1 DEF AcceptResize, Serialized

\* An array leaves what another server reports alone.
LEMMA OtherServersKeep ==
    ASSUME TypeInv, NEW s \in Servers, NEW t \in Servers, t # s, NEW p,
           TakeEffect(s, p)
    PROVE  Volumes(t)' = Volumes(t)
<1>1. PICK fresh \in IF p.new = None THEN {None} ELSE Fresh :
          place' = PlaceAfter(s, p, fresh) /\ attr' = AttrAfter(s, p, fresh)
  BY DEF TakeEffect
<1>2. ASSUME NEW v \in VolIds
      PROVE  /\ place'[v] = t <=> place[v] = t
             /\ place[v] = t => attr'[v] = attr[v]
  <2>1. place[v] = t => v # fresh
    BY ApiAssumption DEF Fresh
  <2>. QED  BY <1>1, <2>1, ApiAssumption DEF PlaceAfter, AttrAfter
<1>. QED  BY <1>2 DEF Volumes

\* What the PUT of c does, by kind of call.
DestroyStep(c) ==
    /\ req[c].op = "Delete"
    /\ place[req[c].vol] = req[c].server
    /\ place' = [place EXCEPT ![req[c].vol] = Deleted]
    /\ attr' = attr

GrowStep(c) ==
    /\ req[c].op # "Delete" /\ req[c].vol # None
    /\ place[req[c].vol] = req[c].server
    /\ attr[req[c].vol].size < req[c].size
    /\ place' = place
    /\ attr' = [attr EXCEPT ![req[c].vol].size = req[c].size]

ProvisionStep(c) ==
    /\ req[c].op = "Ensure" /\ req[c].vol = None
    /\ \A w \in VolIds : place[w] = req[c].server => attr[w].name # req[c].name
    /\ \E v \in Fresh :
        /\ place' = [place EXCEPT ![v] = req[c].server]
        /\ attr' = [attr EXCEPT ![v] =
              [name |-> IF KeepsNames THEN req[c].name ELSE NoName,
               size |-> req[c].size]]

LEMMA OnePutOneVolume ==
    ASSUME Serialized, StoreInv, NEW c \in Callers, Write(c)
    PROVE  DestroyStep(c) \/ GrowStep(c) \/ ProvisionStep(c)
<1>. DEFINE s == req[c].server
            p == NextArray(c)
<1>1. /\ s \in Servers /\ pc[c] = "write" /\ req[c] \in Reqs
      /\ place \in [VolIds -> Servers \cup {Unborn, Detached, Deleted}]
      /\ attr \in [VolIds -> Attr]
  BY DEF Write, StoreInv, TypeInv, TypeOK, ApiTypeOK, ClientTypeOK, CallOK
<1>2. snap[c] = Volumes(s) /\ snap[c] \in Arrays /\ Ids(snap[c]) = On(s)
  BY <1>1, VolumesType DEF StoreInv, ReadIsCurrent, TypeInv, TypeOK
<1>3. \A v \in VolIds : place[v] = s => v \in Ids(snap[c]) /\ snap[c][v] = attr[v]
  BY <1>1, <1>2 DEF On, Volumes
<1>4. PICK fresh \in IF p.new = None THEN {None} ELSE Fresh :
          place' = PlaceAfter(s, p, fresh) /\ attr' = AttrAfter(s, p, fresh)
  BY <1>1, AcceptedAtOnce DEF Write, TakeEffect
<1>5. \A v \in Fresh : place[v] # s
  BY <1>1, ApiAssumption DEF Fresh
<1>. HIDE DEF s
<1>6. CASE req[c].op = "Delete"
  <2>1. req[c].vol \in VolIds /\ place[req[c].vol] = s
    BY <1>1, <1>2, <1>6 DEF StoreInv, Prepared, On
  <2>2. p.new = None /\ p.keep = [snap[c] EXCEPT ![req[c].vol] = None]
    BY <1>6 DEF NextArray, ArrayWithout
  <2>3. fresh = None /\ None \notin VolIds
    BY <1>4, <2>2, ApiAssumption
  <2>4. Ids(p.keep) = Ids(snap[c]) \ {req[c].vol}
    BY <1>2, <2>1, <2>2 DEF Ids, Arrays
  <2>5. PlaceAfter(s, p, fresh) = [place EXCEPT ![req[c].vol] = Deleted]
    BY <1>1, <1>3, <2>1, <2>3, <2>4 DEF PlaceAfter
  <2>6. ASSUME NEW v \in VolIds  PROVE AttrAfter(s, p, fresh)[v] = attr[v]
    BY <1>1, <1>2, <1>3, <2>1, <2>2, <2>3, <2>4 DEF AttrAfter, Arrays
  <2>7. AttrAfter(s, p, fresh) = attr
    BY <1>1, <2>6 DEF AttrAfter
  <2>. QED  BY <1>4, <1>6, <2>1, <2>5, <2>7 DEF DestroyStep, s
<1>7. CASE req[c].op # "Delete" /\ req[c].vol # None
  <2>1. /\ req[c].vol \in VolIds /\ place[req[c].vol] = s
        /\ attr[req[c].vol].size < req[c].size
        /\ req[c].name \in {NoName, attr[req[c].vol].name}
    BY <1>1, <1>2, <1>3, <1>7 DEF StoreInv, Prepared, On
  <2>2. /\ p.new = None
        /\ p.keep = [snap[c] EXCEPT ![req[c].vol] =
              [name |-> IF req[c].name = NoName THEN snap[c][req[c].vol].name
                                                ELSE req[c].name,
               size |-> req[c].size]]
    BY <1>2, <1>7, <2>1 DEF NextArray, ResizeArray, Arrays
  <2>3. fresh = None /\ None \notin VolIds
    BY <1>4, <2>2, ApiAssumption
  <2>4. p.keep[req[c].vol] = [attr[req[c].vol] EXCEPT !.size = req[c].size]
    <3>1. snap[c][req[c].vol] = attr[req[c].vol] /\ attr[req[c].vol] \in Attr
      BY <1>1, <1>3, <2>1
    <3>2. p.keep[req[c].vol] = [name |-> attr[req[c].vol].name, size |-> req[c].size]
      BY <1>2, <2>1, <2>2, <3>1 DEF Arrays
    <3>. QED  BY <3>1, <3>2 DEF Attr
  <2>5. p.keep[req[c].vol] # None
    BY <1>1, <2>1, <2>4, ApiAssumption DEF Attr, Reqs
  <2>6. Ids(p.keep) = Ids(snap[c])
    BY <1>2, <1>3, <2>1, <2>2, <2>5 DEF Ids, Arrays
  <2>7. PlaceAfter(s, p, fresh) = place
    BY <1>1, <1>3, <2>3, <2>6 DEF PlaceAfter
  <2>8. ASSUME NEW v \in VolIds
        PROVE  AttrAfter(s, p, fresh)[v] =
                  [attr EXCEPT ![req[c].vol].size = req[c].size][v]
    BY <1>1, <1>2, <1>3, <2>1, <2>2, <2>3, <2>4, <2>6 DEF AttrAfter, Arrays
  <2>9. AttrAfter(s, p, fresh) = [attr EXCEPT ![req[c].vol].size = req[c].size]
    BY <1>1, <2>8 DEF AttrAfter
  <2>. QED  BY <1>4, <1>7, <2>1, <2>7, <2>9 DEF GrowStep, s
<1>8. CASE req[c].vol = None
  <2>1. req[c].op = "Ensure" /\ Named(snap[c], req[c].name) = {}
    BY <1>1, <1>8 DEF StoreInv, Prepared
  <2>2. p.keep = snap[c] /\ p.new = [name |-> req[c].name, size |-> req[c].size]
    BY <1>8, <2>1 DEF NextArray, ResizeArray
  <2>3. p.new \in Attr /\ p.new # None
    BY <1>1, <2>2, ApiAssumption DEF Attr, Reqs
  <2>4. fresh \in Fresh /\ fresh \in VolIds
    BY <1>4, <2>3 DEF Fresh
  <2>5. PlaceAfter(s, p, fresh) = [place EXCEPT ![fresh] = s]
    BY <1>1, <1>3, <2>2, <2>4 DEF PlaceAfter
  <2>6. ASSUME NEW v \in VolIds, v # fresh  PROVE AttrAfter(s, p, fresh)[v] = attr[v]
    BY <1>3, <2>2, <2>6 DEF AttrAfter
  <2>7. AttrAfter(s, p, fresh)[fresh] =
            [name |-> IF KeepsNames THEN req[c].name ELSE NoName,
             size |-> req[c].size]
    BY <2>2, <2>4 DEF AttrAfter
  <2>8. AttrAfter(s, p, fresh) = [attr EXCEPT ![fresh] =
            [name |-> IF KeepsNames THEN req[c].name ELSE NoName,
             size |-> req[c].size]]
    BY <1>1, <2>4, <2>6, <2>7 DEF AttrAfter
  <2>9. \A w \in VolIds : place[w] = s => attr[w].name # req[c].name
    BY <1>3, <2>1 DEF Named
  <2>. QED  BY <1>4, <1>8, <2>1, <2>4, <2>5, <2>8, <2>9 DEF ProvisionStep, s
<1>. QED  BY <1>6, <1>7, <1>8

-----------------------------------------------------------------------------
(* StoreInv is inductive.                                                  *)

CallsInv == OnlyLocked /\ Requested /\ Prepared /\ ReadIsCurrent

\* A step of c that leaves the appliance alone: what is left to show is about c.
LEMMA QuietStep ==
    ASSUME StoreInv, NEW c \in Callers, UNCHANGED apiVars, asked \subseteq asked',
           \A d \in Callers : d # c => /\ pc'[d] = pc[d] /\ req'[d] = req[d]
                                      /\ snap'[d] = snap[d],
           pc'[c] \in {"idle", "lock", "read", "poll", "done"},
           pc'[c] \in {"lock", "read"} =>
              /\ req'[c].op = "Delete" => req'[c].vol \in asked'
              /\ req'[c].op # "Delete" => req'[c].size \in Sizes
              /\ req'[c].op = "Ensure" => req'[c].server = HomeOf[req'[c].name]
              /\ req'[c].op = "Expand" => req'[c].name = NoName
    PROVE  CallsInv'
<1>1. \A s \in Servers : Volumes(s)' = Volumes(s)
  BY DEF apiVars, Volumes
<1>2. OnlyLocked'
  BY DEF StoreInv, OnlyLocked, apiVars
<1>3. Requested'
  BY DEF StoreInv, Requested
<1>4. Prepared'
  BY DEF StoreInv, Prepared, Named, Ids
<1>5. ReadIsCurrent'
  <2>1. ASSUME NEW d \in Callers, pc'[d] = "write"
        PROVE  (snap[d] = Volumes(req[d].server))'
    <3>1. d # c /\ pc[d] = "write" /\ req[d].server \in Servers
      BY <2>1 DEF StoreInv, TypeInv, CallOK
    <3>. QED  BY <1>1, <3>1 DEF StoreInv, ReadIsCurrent, Volumes
  <2>. QED  BY <2>1 DEF ReadIsCurrent
<1>. QED  BY <1>2, <1>3, <1>4, <1>5 DEF CallsInv

LEMMA ReturnCallsInv ==
    ASSUME StoreInv, NEW c \in Callers, NEW r, Return(c, r), UNCHANGED apiVars
    PROVE  CallsInv'
  BY QuietStep DEF Return, Goto, StoreInv, TypeInv, TypeOK, ClientTypeOK

LEMMA KeepSnapCallsInv ==
    ASSUME StoreInv, NEW c \in Callers, pc[c] = "read", UNCHANGED apiVars,
           NEW v, KeepSnap(c, v),
           \/ req[c].op = "Delete" /\ v = req[c].vol /\ v \in On(req[c].server) \ Roots
           \/ /\ req[c].op # "Delete" /\ v \in On(req[c].server) \ Roots
              /\ attr[v].size < req[c].size /\ req[c].name \in {NoName, attr[v].name}
           \/ /\ req[c].op = "Ensure" /\ v = None
              /\ Named(Volumes(req[c].server), req[c].name) = {}
    PROVE  CallsInv'
<1>. DEFINE s == req[c].server
<1>1. /\ s \in Servers /\ req[c] \in Reqs
      /\ \A t \in Servers : Volumes(t)' = Volumes(t)
      /\ Ids(Volumes(s)) = On(s)
  BY VolumesType
  DEF StoreInv, TypeInv, TypeOK, ClientTypeOK, CallOK, apiVars, Volumes
<1>2. \A d \in Callers : d # c => /\ pc'[d] = pc[d] /\ req'[d] = req[d]
                                  /\ snap'[d] = snap[d]
  BY DEF KeepSnap, Goto, StoreInv, TypeInv, TypeOK, ClientTypeOK
<1>3. /\ pc'[c] = "write" /\ snap'[c] = Volumes(s)
      /\ req'[c] = [req[c] EXCEPT !.vol = v]
  BY DEF KeepSnap, Goto, StoreInv, TypeInv, TypeOK, ClientTypeOK
<1>4. /\ req'[c].op = req[c].op /\ req'[c].server = s /\ req'[c].vol = v
      /\ req'[c].size = req[c].size /\ req'[c].name = req[c].name
  BY <1>1, <1>3 DEF Reqs
<1>5. OnlyLocked'
  BY <1>2, <1>3 DEF StoreInv, OnlyLocked, apiVars
<1>6. Requested'
  BY <1>2, <1>3, <1>4 DEF StoreInv, Requested, KeepSnap
<1>7. v # None => Volumes(s)[v] = attr[v]
  BY <1>1 DEF On, Volumes
<1>8. None \notin On(s)
  BY ApiAssumption DEF On
<1>. HIDE DEF s
<1>9. Prepared'
  <2>1. ASSUME NEW d \in Callers, d # c, pc'[d] = "write"
        PROVE  /\ req'[d].op = "Delete" => req'[d].vol \in Ids(snap'[d]) \ Roots
               /\ req'[d].op # "Delete" /\ req'[d].vol # None =>
                     /\ req'[d].vol \in Ids(snap'[d]) \ Roots
                     /\ snap'[d][req'[d].vol].size < req'[d].size
                     /\ req'[d].name \in {NoName, snap'[d][req'[d].vol].name}
               /\ req'[d].vol = None =>
                     /\ req'[d].op = "Ensure"
                     /\ Named(snap'[d], req'[d].name) = {}
    BY <1>2, <2>1 DEF StoreInv, Prepared
  <2>2. /\ req'[c].op = "Delete" => req'[c].vol \in Ids(snap'[c]) \ Roots
        /\ req'[c].op # "Delete" /\ req'[c].vol # None =>
              /\ req'[c].vol \in Ids(snap'[c]) \ Roots
              /\ snap'[c][req'[c].vol].size < req'[c].size
              /\ req'[c].name \in {NoName, snap'[c][req'[c].vol].name}
        /\ req'[c].vol = None =>
              /\ req'[c].op = "Ensure"
              /\ Named(snap'[c], req'[c].name) = {}
    BY <1>1, <1>3, <1>4, <1>7, <1>8 DEF s
  <2>. QED  BY <2>1, <2>2 DEF Prepared, Ids, Named
<1>10. ReadIsCurrent'
  <2>1. ASSUME NEW d \in Callers, d # c, pc'[d] = "write"
        PROVE  (snap[d] = Volumes(req[d].server))'
    <3>1. pc[d] = "write" /\ req[d].server \in Servers
      BY <1>2, <2>1 DEF StoreInv, TypeInv, CallOK
    <3>. QED  BY <1>1, <1>2, <2>1, <3>1 DEF StoreInv, ReadIsCurrent, Volumes
  <2>2. (snap[c] = Volumes(req[c].server))'
    BY <1>1, <1>3, <1>4 DEF Volumes
  <2>. QED  BY <2>1, <2>2 DEF ReadIsCurrent
<1>. QED  BY <1>5, <1>6, <1>9, <1>10 DEF CallsInv

\* The heart of the matter: a PUT leaves what the other callers read current,
\* because they hold the mutexes of other servers.
LEMMA WriteCallsInv ==
    ASSUME Serialized, StoreInv, NEW c \in Callers, Write(c)
    PROVE  CallsInv'
<1>1. /\ req[c].server \in Servers /\ pc[c] = "write"
      /\ pc \in [Callers -> Steps]
  BY DEF Write, StoreInv, TypeInv, TypeOK, ClientTypeOK, CallOK
<1>2. TakeEffect(req[c].server, NextArray(c)) /\ UNCHANGED queue
  BY <1>1, AcceptedAtOnce DEF Write
<1>3. /\ pc'[c] \in {"poll", "done"} /\ req' = req /\ asked' = asked
      /\ \A d \in Callers : d # c => pc'[d] = pc[d] /\ snap'[d] = snap[d]
  BY <1>1 DEF Write, Ok, Fail, Return, Goto, Local, StoreInv, TypeInv, TypeOK,
              ClientTypeOK
<1>4. OnlyLocked'
  BY <1>2, <1>3 DEF StoreInv, OnlyLocked
<1>5. Requested'
  BY <1>3 DEF StoreInv, Requested
<1>6. Prepared'
  BY <1>3 DEF StoreInv, Prepared, Named, Ids
<1>7. ASSUME NEW d \in Callers, pc'[d] = "write"
      PROVE  (snap[d] = Volumes(req[d].server))'
  <2>1. d # c /\ pc[d] = "write" /\ req[d].server \in Servers
    BY <1>3, <1>7 DEF StoreInv, TypeInv, CallOK
  <2>2. req[d].server # req[c].server
    BY <1>1, <2>1 DEF StoreInv, LockDiscipline
  <2>3. \A t \in Servers : t # req[c].server => Volumes(t)' = Volumes(t)
    BY <1>1, <1>2, OtherServersKeep DEF StoreInv
  <2>. QED
    BY <1>3, <2>1, <2>2, <2>3 DEF StoreInv, ReadIsCurrent, Volumes
<1>. QED  BY <1>4, <1>5, <1>6, <1>7 DEF CallsInv, ReadIsCurrent

LEMMA StepCallsInv ==
    ASSUME Serialized, StoreInv, NEW c \in Callers, Step(c)
    PROVE  CallsInv'
<1>0. /\ pc \in [Callers -> Steps] /\ req \in [Callers -> Reqs]
      /\ snap \in [Callers -> Arrays]
  BY DEF StoreInv, TypeInv, TypeOK, ClientTypeOK
<1>1. CASE Lock(c)
  BY <1>0, <1>1, QuietStep DEF Lock, Goto, StoreInv, Requested
<1>2. CASE EnsureRead(c)
  <2>1. /\ pc[c] = "read" /\ req[c].op = "Ensure" /\ req[c].server \in Servers
        /\ req[c].name \in Names /\ req[c].size \in Nat
    BY <1>0, <1>2 DEF EnsureRead, StoreInv, TypeInv, CallOK, Reqs
  <2>2. ASSUME NEW v \in Named(Volumes(req[c].server), req[c].name)
        PROVE  v \in On(req[c].server) \ Roots /\ attr[v].name = req[c].name
               /\ attr[v].size \in Nat
    <3>1. v \in On(req[c].server) /\ attr[v].name = req[c].name
      BY <2>2 DEF Named, Ids, Volumes, On
    <3>2. \A s \in Servers : attr[RootOf[s]].name = NoName
      BY DEF StoreInv, RootSafe, RootsHome, RootAttr
    <3>3. attr[v] \in Attr
      BY <3>1 DEF On, StoreInv, TypeInv, TypeOK, ApiTypeOK
    <3>. QED  BY <2>1, <3>1, <3>2, <3>3, ApiAssumption DEF Roots, Attr
  <2>3. \/ \E r : Return(c, r)
        \/ \E v \in On(req[c].server) \ Roots :
              /\ attr[v].size < req[c].size /\ attr[v].name = req[c].name
              /\ KeepSnap(c, v)
        \/ Named(Volumes(req[c].server), req[c].name) = {} /\ KeepSnap(c, None)
    <3>1. CASE Named(Volumes(req[c].server), req[c].name) = {} /\ KeepSnap(c, None)
      BY <3>1
    <3>2. ASSUME NEW v \in Named(Volumes(req[c].server), req[c].name),
                 IF attr[v].size >= req[c].size
                 THEN Ok(c, v, req[c].server) ELSE KeepSnap(c, v)
          PROVE  \/ \E r : Return(c, r)
                 \/ \E w \in On(req[c].server) \ Roots :
                       /\ attr[w].size < req[c].size /\ attr[w].name = req[c].name
                       /\ KeepSnap(c, w)
      <4>1. v \in On(req[c].server) \ Roots /\ attr[v].name = req[c].name
        BY <2>2
      <4>2. CASE attr[v].size >= req[c].size
        BY <3>2, <4>2 DEF Ok
      <4>3. CASE attr[v].size < req[c].size /\ KeepSnap(c, v)
        BY <4>1, <4>3
      <4>. QED  BY <2>1, <2>2, <3>2, <4>2, <4>3
    <3>. QED  BY <1>2, <3>1, <3>2 DEF EnsureRead
  <2>4. UNCHANGED apiVars
    BY <1>2 DEF EnsureRead
  <2>. QED  BY <2>1, <2>3, <2>4, ReturnCallsInv, KeepSnapCallsInv
<1>3. CASE DeleteRead(c)
  BY <1>3, ReturnCallsInv, KeepSnapCallsInv DEF DeleteRead, Ok, Fail
<1>4. CASE ExpandRead(c)
  <2>1. /\ pc[c] = "read" /\ req[c].op = "Expand" /\ req[c].size \in Nat
        /\ req[c].vol \in VolIds /\ req[c].name = NoName
    BY <1>0, <1>4 DEF ExpandRead, StoreInv, TypeInv, CallOK, Reqs, Requested
  <2>2. attr[req[c].vol].size \in Nat
    BY <2>1 DEF StoreInv, TypeInv, TypeOK, ApiTypeOK, Attr
  <2>3. \/ \E r : Return(c, r)
        \/ /\ req[c].vol \in On(req[c].server) \ Roots
           /\ attr[req[c].vol].size < req[c].size
           /\ KeepSnap(c, req[c].vol)
    BY <1>4, <2>1, <2>2 DEF ExpandRead, Ok, Fail
  <2>4. UNCHANGED apiVars
    BY <1>4 DEF ExpandRead
  <2>. QED  BY <2>1, <2>3, <2>4, ReturnCallsInv, KeepSnapCallsInv
<1>5. CASE Write(c)
  BY <1>5, WriteCallsInv
<1>6. CASE Poll(c)
  <2>1. ASSUME UNCHANGED <<Local, pc, snap, todo>>, UNCHANGED apiVars, pc[c] = "poll"
        PROVE  CallsInv'
    BY <2>1, QuietStep DEF Local
  <2>. QED  BY <1>6, <2>1, ReturnCallsInv DEF Poll, Ok, Fail
<1>7. CASE FindGet(c) \/ Detach(c) \/ Attach(c) \/ Verify(c)
  BY <1>7 DEF FindGet, Detach, Attach, Verify, StoreInv, OnlyLocked
<1>8. CASE RequestFails(c)
  BY <1>8, ReturnCallsInv DEF RequestFails, Fail
<1>9. CASE Finish(c)
  BY <1>0, <1>9, QuietStep DEF Finish, Goto
<1>. QED  BY <1>1, <1>2, <1>3, <1>4, <1>5, <1>6, <1>7, <1>8, <1>9 DEF Step, Progress

LEMMA StartCallsInv ==
    ASSUME Serialized, StoreInv, NEW c \in Callers, Start(c)
    PROVE  CallsInv'
<1>. USE ApiAssumption, ClientAssumption
<1>1. ASSUME NEW r, Call(c, r, "lock"), asked \subseteq asked',
             /\ r.op = "Delete" => r.vol \in asked'
             /\ r.op # "Delete" => r.size \in Sizes
             /\ r.op = "Ensure" => r.server = HomeOf[r.name]
             /\ r.op = "Expand" => r.name = NoName
      PROVE  CallsInv'
  BY <1>1, QuietStep DEF Call, Goto, StoreInv, TypeInv, TypeOK, ClientTypeOK
<1>2. ASSUME NEW n \in Names, NEW size \in Sizes, CallEnsure(c, n, size)
      PROVE  CallsInv'
  <2>. DEFINE r == [NoReq EXCEPT !.op = "Ensure", !.server = HomeOf[n],
                                 !.name = n, !.size = size]
  <2>1. /\ r.op = "Ensure" /\ r.server = HomeOf[n] /\ r.name = n /\ r.size = size
    BY DEF NoReq
  <2>2. Call(c, r, "lock") /\ asked' = asked
    BY <1>2 DEF CallEnsure
  <2>. HIDE DEF r
  <2>. QED  BY <1>1, <2>1, <2>2
<1>3. ASSUME NEW s \in Servers, NEW v \in VolIds, CallDelete(c, s, v)
      PROVE  CallsInv'
  <2>. DEFINE r == [NoReq EXCEPT !.op = "Delete", !.server = s, !.vol = v]
  <2>1. r.op = "Delete" /\ r.vol = v
    BY DEF NoReq
  <2>2. Call(c, r, "lock") /\ asked' = asked \cup {v}
    BY <1>3 DEF CallDelete
  <2>. HIDE DEF r
  <2>. QED  BY <1>1, <2>1, <2>2
<1>4. ASSUME NEW s \in Servers, NEW v \in VolIds, NEW size \in Sizes,
             CallExpand(c, s, v, size)
      PROVE  CallsInv'
  <2>. DEFINE r == [NoReq EXCEPT !.op = "Expand", !.server = s, !.vol = v,
                                 !.size = size]
  <2>1. r.op = "Expand" /\ r.size = size /\ r.name = NoName
    BY DEF NoReq
  <2>2. Call(c, r, "lock") /\ asked' = asked
    BY <1>4 DEF CallExpand
  <2>. HIDE DEF r
  <2>. QED  BY <1>1, <2>1, <2>2
<1>5. ASSUME NEW r, NEW step, r.op \notin LockedOps, Call(c, r, step)  PROVE FALSE
  BY <1>5 DEF Call, Serialized
<1>6. ASSUME NEW s \in Servers, NEW v \in VolIds, CallDetach(c, s, v)  PROVE FALSE
  <2>. DEFINE r == [NoReq EXCEPT !.op = "Detach", !.server = s, !.from = s,
                                 !.vol = v]
  <2>1. r.op = "Detach" /\ Call(c, r, "detach")
    BY <1>6 DEF NoReq, CallDetach
  <2>. HIDE DEF r
  <2>. QED  BY <1>5, <2>1
<1>7. ASSUME NEW v \in VolIds, NEW S \in SUBSET Servers, CallFind(c, v, S)
      PROVE  FALSE
  <2>. DEFINE r == [NoReq EXCEPT !.op = "Find", !.vol = v]
  <2>1. r.op = "Find" /\ Call(c, r, "find")
    BY <1>7 DEF NoReq, CallFind
  <2>. HIDE DEF r
  <2>. QED  BY <1>5, <2>1
<1>8. ASSUME NEW v \in VolIds, NEW S \in SUBSET Servers, NEW s \in Servers,
             CallMove(c, None, s, v, S)
      PROVE  FALSE
  <2>. DEFINE r == [NoReq EXCEPT !.op = "Move", !.server = s, !.vol = v]
  <2>1. r.op = "Move" /\ Call(c, r, "find")
    BY <1>8 DEF NoReq, CallMove
  <2>. HIDE DEF r
  <2>. QED  BY <1>5, <2>1
<1>. QED  BY <1>2, <1>3, <1>4, <1>6, <1>7, <1>8 DEF Start

LEMMA InitStoreInv == Init => StoreInv
<1>. SUFFICES ASSUME Init PROVE StoreInv
  OBVIOUS
<1>1. TypeInv /\ RootSafe
  BY InitTypeInv, InitRoots
<1>2. LockDiscipline /\ OnlyLocked /\ Requested /\ Prepared /\ ReadIsCurrent
  BY ClientAssumption
  DEF Init, ApiInit, LockDiscipline, OnlyLocked, Requested, Prepared, ReadIsCurrent
<1>. QED  BY <1>1, <1>2 DEF StoreInv

LEMMA NextStoreInv ==
    ASSUME Serialized, StoreInv, [Next]_vars
    PROVE  StoreInv'
<1>1. TypeInv' /\ LockDiscipline' /\ RootSafe'
  BY NextTypeInv, NextLock, NextRoots DEF StoreInv
<1>2. CallsInv'
  <2>1. CASE UNCHANGED vars
    <3>1. \A s \in Servers : Volumes(s)' = Volumes(s)
      BY <2>1 DEF vars, apiVars, Volumes
    <3>2. OnlyLocked' /\ Requested' /\ Prepared'
      BY <2>1 DEF vars, apiVars, clientVars, callVars, StoreInv, OnlyLocked,
                  Requested, Prepared, Named, Ids
    <3>3. ReadIsCurrent'
      BY <2>1, <3>1 DEF vars, clientVars, callVars, StoreInv, TypeInv, CallOK,
                        ReadIsCurrent
    <3>. QED  BY <3>2, <3>3 DEF CallsInv
  <2>2. CASE Restart
    BY <2>2 DEF Restart, apiVars, CallsInv, StoreInv, OnlyLocked, Requested,
                Prepared, ReadIsCurrent
  <2>3. CASE Appliance
    BY <2>3 DEF Appliance, Apply, JobFails, StoreInv, OnlyLocked
  <2>. QED  BY <2>1, <2>2, <2>3, StartCallsInv, StepCallsInv DEF Next
<1>. QED  BY <1>1, <1>2 DEF StoreInv, CallsInv

-----------------------------------------------------------------------------
(* The theorems.                                                           *)

\* A PUT is one step of the store, and so is a request to delete; whatever
\* else the client does, the store does not notice.
LEMMA NextStoreStep ==
    ASSUME Serialized, StoreInv, [Next]_vars
    PROVE  [Store!Next]_(Store!storeVars)
<1>. USE ApiAssumption, ClientAssumption
<1>0. /\ place \in [VolIds -> Servers \cup {Unborn, Detached, Deleted}]
      /\ attr \in [VolIds -> Attr]
      /\ req \in [Callers -> Reqs]
  BY DEF StoreInv, TypeInv, TypeOK, ApiTypeOK, ClientTypeOK
<1>1. ASSUME UNCHANGED <<place, attr, asked>>
      PROVE  [Store!Next]_(Store!storeVars)
  BY <1>1 DEF Store!storeVars
<1>2. CASE UNCHANGED vars
  BY <1>1, <1>2 DEF vars, apiVars, clientVars
<1>3. CASE Restart
  BY <1>1, <1>3 DEF Restart, apiVars
<1>4. CASE Appliance
  BY <1>4 DEF Appliance, Apply, JobFails, StoreInv, OnlyLocked
<1>5. ASSUME NEW c \in Callers, Write(c)
      PROVE  Store!Next
  <2>. DEFINE v == req[c].vol
  <2>1. /\ pc[c] = "write" /\ asked' = asked
        /\ req[c].server \in Servers
    BY <1>5 DEF Write, Ok, Fail, Return, Local, StoreInv, TypeInv, CallOK
  <2>2. CASE DestroyStep(c)
    <3>1. v \in VolIds \ Roots /\ v \in asked /\ place[v] \in Servers
      BY <2>1, <2>2 DEF DestroyStep, StoreInv, Prepared, Requested, Ids
    <3>2. Store!Destroy(v)
      BY <2>1, <2>2, <3>1
      DEF DestroyStep, Store!Destroy, Store!Attached, Store!IsRoot, Roots, Deleted
    <3>. QED  BY <3>1, <3>2 DEF Store!Next
  <2>3. CASE GrowStep(c)
    <3>1. /\ v \in VolIds \ Roots /\ place[v] \in Servers
          /\ req[c].size \in Sizes
      BY <2>1, <2>3 DEF GrowStep, StoreInv, Prepared, Requested, Ids
    <3>2. req[c].size > attr[v].size
      BY <1>0, <2>3, <3>1 DEF GrowStep, Attr, Reqs
    <3>3. Store!Grow(v, req[c].size)
      BY <2>1, <2>3, <3>1, <3>2
      DEF GrowStep, Store!Grow, Store!Attached, Store!IsRoot, Roots
    <3>. QED  BY <3>1, <3>3 DEF Store!Next
  <2>4. CASE ProvisionStep(c)
    <3>1. /\ req[c].server = HomeOf[req[c].name] /\ req[c].size \in Sizes
          /\ req[c].name \in Names
      BY <2>1, <2>4 DEF ProvisionStep, StoreInv, Requested, TypeInv, CallOK
    <3>2. Store!Provision(req[c].name, req[c].size)
      BY <2>1, <2>4, <3>1 DEF ProvisionStep, Store!Provision, Fresh, Unborn
    <3>. QED  BY <3>1, <3>2 DEF Store!Next
  <2>. QED  BY <1>5, <2>2, <2>3, <2>4, OnePutOneVolume
<1>6. ASSUME NEW c \in Callers, Step(c), ~Write(c)
      PROVE  UNCHANGED <<place, attr, asked>>
  <2>1. ~(FindGet(c) \/ Detach(c) \/ Attach(c) \/ Verify(c))
    BY DEF FindGet, Detach, Attach, Verify, StoreInv, OnlyLocked
  <2>. QED
    BY <1>6, <2>1
    DEF Step, Progress, Lock, EnsureRead, DeleteRead, ExpandRead, Poll, RequestFails,
        Finish, Ok, Fail, Return, KeepSnap, Local, apiVars
<1>7. ASSUME NEW c \in Callers, Start(c)
      PROVE  [Store!Next]_(Store!storeVars)
  <2>1. ASSUME NEW s \in Servers, NEW v \in VolIds, CallDelete(c, s, v)
        PROVE  Store!Next
    <3>1. Store!Ask(v)
      BY <2>1 DEF CallDelete, Call, Known, Unborn, apiVars, Store!Ask
    <3>. QED  BY <3>1 DEF Store!Next
  <2>2. CASE \E s \in Servers, v \in VolIds : CallDelete(c, s, v)
    BY <2>1, <2>2
  <2>3. CASE ~ \E s \in Servers, v \in VolIds : CallDelete(c, s, v)
    <3>1. UNCHANGED <<place, attr, asked>>
      BY <1>7, <2>3
      DEF Start, CallEnsure, CallExpand, CallDetach, CallFind, CallMove, Call,
          apiVars
    <3>. QED  BY <1>1, <3>1
  <2>. QED  BY <2>2, <2>3
<1>. QED  BY <1>1, <1>2, <1>3, <1>4, <1>5, <1>6, <1>7 DEF Next

LEMMA InitStore == Init => Store!Init
  BY DEF Init, ApiInit, Store!Init, Store!IsRoot, Roots, Unborn

\* A step of the store deletes only what was asked for, and shrinks nothing.
LEMMA StoreStepKeeps ==
    ASSUME TypeOK, [Store!Next]_(Store!storeVars)
    PROVE  /\ NoSilentDrop => NoSilentDrop'
           /\ \A v \in VolIds : Live(v) => attr'[v].size >= attr[v].size
<1>. USE ApiAssumption, ClientAssumption
<1>0. /\ place \in [VolIds -> Servers \cup {Unborn, Detached, Deleted}]
      /\ attr \in [VolIds -> Attr] /\ \A v \in VolIds : attr[v].size \in Nat
  BY DEF TypeOK, ApiTypeOK, Attr
<1>1. CASE UNCHANGED Store!storeVars
  BY <1>0, <1>1 DEF Store!storeVars, NoSilentDrop, Live
<1>2. ASSUME NEW n \in Names, NEW size \in Sizes, Store!Provision(n, size)
      PROVE  /\ NoSilentDrop => NoSilentDrop'
             /\ \A v \in VolIds : Live(v) => attr'[v].size >= attr[v].size
  <2>1. HomeOf[n] # Deleted
    OBVIOUS
  <2>. QED
    BY <1>0, <1>2, <2>1 DEF Store!Provision, NoSilentDrop, Live, Unborn
<1>3. ASSUME NEW v \in VolIds, NEW size \in Sizes, Store!Grow(v, size)
      PROVE  /\ NoSilentDrop => NoSilentDrop'
             /\ \A w \in VolIds : Live(w) => attr'[w].size >= attr[w].size
  <2>1. size \in Nat /\ attr[v] \in Attr
    BY <1>0
  <2>2. attr'[v].size = size /\ \A w \in VolIds \ {v} : attr'[w] = attr[w]
    BY <1>0, <1>3, <2>1 DEF Store!Grow, Attr
  <2>. QED
    BY <1>0, <1>3, <2>1, <2>2 DEF Store!Grow, NoSilentDrop
<1>4. ASSUME NEW v \in VolIds,
             \/ Store!Ask(v) \/ Store!Destroy(v) \/ Store!Detach(v)
             \/ \E s \in Servers : Store!Attach(v, s)
      PROVE  /\ NoSilentDrop => NoSilentDrop'
             /\ \A w \in VolIds : Live(w) => attr'[w].size >= attr[w].size
  BY <1>0, <1>4
  DEF Store!Ask, Store!Destroy, Store!Detach, Store!Attach, NoSilentDrop,
      Deleted, Detached
<1>. QED  BY <1>1, <1>2, <1>3, <1>4 DEF Store!Next

\* Only locked calls and nothing deferred: what a caller is about to write back
\* is what the server still reports.
THEOREM ReadsAreCurrent ==
    ASSUME Serialized
    PROVE  Spec => []ReadIsCurrent
<1>1. StoreInv => ReadIsCurrent
  BY DEF StoreInv
<1>. QED  BY <1>1, InitStoreInv, NextStoreInv, PTL DEF Spec

\* EnsureVolume, DeleteVolume and ExpandVolume, run concurrently, behave like
\* indivisible operations on one volume each: the detailed client implements
\* the abstract store under the identity mapping.
THEOREM Refinement ==
    ASSUME Serialized
    PROVE  Spec => ImplementsStore
<1>1. StoreInv /\ [Next]_vars => [Store!Next]_(Store!storeVars)
  BY NextStoreStep
<1>. QED
  BY <1>1, InitStore, InitStoreInv, NextStoreInv, PTL
  DEF Spec, ImplementsStore, Store!Spec

\* A volume goes only when DeleteVolume was called for it: no array of another
\* call ever omits it.
THEOREM NothingDropped ==
    ASSUME Serialized
    PROVE  Spec => []NoSilentDrop
<1>1. Init => NoSilentDrop
  <2>. SUFFICES ASSUME Init, NEW v \in VolIds  PROVE place[v] # Deleted
    BY DEF NoSilentDrop
  <2>1. CASE v \in Roots
    BY <2>1, InitRoots, ApiAssumption DEF Roots, RootIntact
  <2>2. CASE v \notin Roots
    BY <2>2 DEF Init, ApiInit, Unborn, Deleted
  <2>. QED  BY <2>1, <2>2
<1>2. StoreInv /\ NoSilentDrop /\ [Next]_vars => NoSilentDrop'
  BY NextStoreStep, StoreStepKeeps DEF StoreInv, TypeInv
<1>. QED  BY <1>1, <1>2, InitStoreInv, NextStoreInv, PTL DEF Spec

\* No interleaving of the locked calls writes back a size that is out of date:
\* a live volume never gets smaller.
THEOREM SizesOnlyGrow ==
    ASSUME Serialized
    PROVE  Spec => NeverShrinks
<1>1. StoreInv /\ [Next]_vars
      => [\A v \in VolIds : Live(v) => attr'[v].size >= attr[v].size]_vars
  BY NextStoreStep, StoreStepKeeps DEF StoreInv, TypeInv
<1>. QED
  BY <1>1, InitStoreInv, NextStoreInv, PTL DEF Spec, NeverShrinks
=============================================================================

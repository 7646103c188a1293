------------------------ MODULE MorpheusClientProofs ------------------------
(***************************************************************************)
(* Theorems about MorpheusClient, for every number of servers, volumes,    *)
(* names, callers and polling attempts.                                    *)
(*                                                                         *)
(* The invariants are layered: CallOK says what a call in progress has     *)
(* resolved and makes TypeOK inductive; RootSafe adds what keeps the root  *)
(* disks out of reach; the mutex and, for an appliance that applies each   *)
(* resize at once, the currency of what was read under it come on top.     *)
(***************************************************************************)
EXTENDS MorpheusClient, TLAPS

USE DEF LockedOps, AllOps

\* A call in progress names a locked call, its server and its volume where the
\* step it is at relies on them; the array of the next PUT holds the volume it
\* is about to change.
CallOK ==
    \A c \in Callers :
        /\ pc[c] \in {"lock", "read", "write", "poll"}
           => /\ req[c].op \in LockedOps
              /\ req[c].server \in Servers
              /\ req[c].op = "Ensure" => req[c].name \in Names
              /\ req[c].op # "Ensure" => req[c].vol \in VolIds
        /\ pc[c] = "write"
           => req[c].vol = None \/ req[c].vol \in Ids(snap[c])
        /\ pc[c] = "find" => /\ req[c].op \in {"Find", "Move"}
                             /\ req[c].vol \in VolIds
        /\ pc[c] = "find" /\ req[c].op = "Move" => req[c].server \in Servers
        /\ pc[c] = "detach" => /\ req[c].op \in {"Move", "Detach"}
                               /\ req[c].vol \in VolIds
                               /\ req[c].server \in Servers
        /\ pc[c] \in {"attach", "verify"}
           => /\ req[c].op = "Move"
              /\ req[c].vol \in VolIds
              /\ req[c].server \in Servers

TypeInv == TypeOK /\ CallOK

-----------------------------------------------------------------------------
(* What the helpers return.                                                *)

LEMMA VolumesType ==
    ASSUME ApiTypeOK, NEW s \in Servers
    PROVE  /\ Volumes(s) \in Arrays
           /\ Ids(Volumes(s)) = On(s)
  BY ApiAssumption DEF ApiTypeOK, Volumes, Arrays, Ids, On

LEMMA NextArrayType ==
    ASSUME TypeInv, NEW c \in Callers, pc[c] = "write"
    PROVE  NextArray(c) \in Payloads
<1>1. snap[c] \in Arrays /\ req[c] \in Reqs
  BY DEF TypeInv, TypeOK, ClientTypeOK
<1>2. CASE req[c].op = "Delete"
  BY <1>1, <1>2 DEF NextArray, ArrayWithout, Payloads, Arrays
<1>3. CASE req[c].op # "Delete" /\ req[c].vol = None
  <2>1. [name |-> req[c].name, size |-> req[c].size] \in Attr
    BY <1>1 DEF Reqs, Attr
  <2>. QED  BY <1>1, <1>3, <2>1 DEF NextArray, ResizeArray, Payloads
<1>4. CASE req[c].op # "Delete" /\ req[c].vol # None
  <2>1. req[c].vol \in Ids(snap[c])
    BY <1>4 DEF TypeInv, CallOK
  <2>2. req[c].vol \in VolIds /\ snap[c][req[c].vol] \in Attr
    BY <1>1, <2>1 DEF Ids, Arrays
  <2>3. [name |-> IF req[c].name = NoName THEN snap[c][req[c].vol].name
                                          ELSE req[c].name,
         size |-> req[c].size] \in Attr
    BY <1>1, <2>2 DEF Reqs, Attr
  <2>. QED  BY <1>1, <1>4, <2>2, <2>3 DEF NextArray, ResizeArray, Payloads, Arrays
<1>. QED  BY <1>2, <1>3, <1>4

LEMMA FindResizedType ==
    ASSUME NEW before, NEW after, NEW r,
           NEW v \in FindResized(before, after, r)
    PROVE  v \in VolIds
  BY DEF FindResized, Named, FindNew, Ids

LEMMA TakeEffectType ==
    ASSUME ApiTypeOK, NEW s \in Servers, NEW p \in Payloads, TakeEffect(s, p)
    PROVE  /\ place' \in [VolIds -> Servers \cup {Unborn, Detached, Deleted}]
           /\ attr' \in [VolIds -> Attr]
<1>1. PICK fresh \in IF p.new = None THEN {None} ELSE Fresh :
          place' = PlaceAfter(s, p, fresh) /\ attr' = AttrAfter(s, p, fresh)
  BY DEF TakeEffect
<1>2. place' \in [VolIds -> Servers \cup {Unborn, Detached, Deleted}]
  BY <1>1 DEF ApiTypeOK, PlaceAfter
<1>3. ASSUME NEW v \in VolIds
      PROVE  AttrAfter(s, p, fresh)[v] \in Attr
  <2>1. CASE v = fresh
    <3>1. p.new \in Attr
      BY <2>1, ApiAssumption DEF Payloads
    <3>2. [p.new EXCEPT !.name = NoName] \in Attr
      BY <3>1 DEF Attr
    <3>. QED  BY <2>1, <3>1, <3>2 DEF AttrAfter
  <2>2. CASE v # fresh /\ place[v] = s /\ v \in Ids(p.keep)
    BY <2>2 DEF AttrAfter, Ids, Payloads, Arrays
  <2>3. CASE v # fresh /\ ~(place[v] = s /\ v \in Ids(p.keep))
    BY <2>3 DEF AttrAfter, ApiTypeOK
  <2>. QED  BY <2>1, <2>2, <2>3
<1>4. attr' \in [VolIds -> Attr]
  BY <1>1, <1>3 DEF AttrAfter
<1>. QED  BY <1>2, <1>4

LEMMA AcceptResizeType ==
    ASSUME ApiTypeOK, NEW s \in Servers, NEW p \in Payloads, AcceptResize(s, p)
    PROVE  ApiTypeOK'
<1>1. CASE TakeEffect(s, p) /\ UNCHANGED queue
  BY <1>1, TakeEffectType DEF ApiTypeOK
<1>2. CASE queue' = [queue EXCEPT ![s] = Append(@, p)] /\ UNCHANGED <<place, attr>>
  BY <1>2 DEF ApiTypeOK
<1>. QED  BY <1>1, <1>2 DEF AcceptResize

LEMMA ReturnType ==
    ASSUME TypeOK, NEW c \in Callers, NEW r \in Rets, Return(c, r),
           r.ok /\ req[c].op = "Ensure" => r.vol \in VolIds
    PROVE  ClientTypeOK'
<1>1. holder' \in [Servers -> Callers \cup {None}]
  BY DEF TypeOK, ClientTypeOK, Return, Released
<1>2. told' \in [Names -> SUBSET VolIds]
  BY DEF TypeOK, ClientTypeOK, Return
<1>3. NoArray \in Arrays
  BY DEF NoArray, Arrays
<1>. QED
  BY <1>1, <1>2, <1>3 DEF TypeOK, ClientTypeOK, Return, Goto, Steps

LEMMA ReturnCallOK ==
    ASSUME TypeInv, NEW c \in Callers, NEW r, Return(c, r)
    PROVE  CallOK'
  BY DEF TypeInv, TypeOK, ClientTypeOK, CallOK, Return, Goto

LEMMA ReturnTypeInv ==
    ASSUME TypeInv, ApiTypeOK', NEW c \in Callers, NEW r \in Rets, Return(c, r),
           r.ok /\ req[c].op = "Ensure" => r.vol \in VolIds
    PROVE  TypeInv'
  BY ReturnType, ReturnCallOK DEF TypeInv, TypeOK

LEMMA FailTypeInv ==
    ASSUME TypeInv, ApiTypeOK', NEW c \in Callers, Fail(c)
    PROVE  TypeInv'
<1>1. NoRet \in Rets /\ ~NoRet.ok
  BY DEF NoRet, Rets
<1>. QED  BY <1>1, ReturnTypeInv DEF Fail

LEMMA OkTypeInv ==
    ASSUME TypeInv, ApiTypeOK', NEW c \in Callers, NEW v \in VolIds,
           NEW s \in Servers, Ok(c, v, s)
    PROVE  TypeInv'
<1>. DEFINE r == [ok |-> TRUE, vol |-> v, server |-> s, size |-> attr[v].size]
<1>0. attr[v].size \in Nat
  BY DEF TypeInv, TypeOK, ApiTypeOK, Attr
<1>1. r \in Rets /\ r.vol \in VolIds
  BY <1>0 DEF Rets
<1>2. Return(c, r)
  BY DEF Ok
<1>. HIDE DEF r
<1>. QED  BY <1>1, <1>2, ReturnTypeInv

\* Going on to the next step of a call, with everything but pc, todo, tries
\* and the request's "from" as it was.
LEMMA GoOnTypeInv ==
    ASSUME TypeInv, ApiTypeOK', NEW c \in Callers, NEW step \in Steps,
           Goto(c, step), UNCHANGED <<holder, snap, ret, asked, told>>,
           todo' \in [Callers -> SUBSET Servers], tries' \in [Callers -> Nat],
           \/ req' = req
           \/ \E s \in Servers : req' = [req EXCEPT ![c].from = s],
           \/ step = pc[c]
           \/ step \in {"read", "poll"} /\ pc[c] \in {"lock", "write"}
           \/ step \in {"detach", "attach", "verify"} /\ req[c].op = "Move"
              /\ pc[c] \in {"find", "detach", "attach"}
    PROVE  TypeInv'
<1>1. req' \in [Callers -> Reqs]
  <2>1. req \in [Callers -> Reqs]
    BY DEF TypeInv, TypeOK, ClientTypeOK
  <2>2. ASSUME NEW s \in Servers  PROVE [req[c] EXCEPT !.from = s] \in Reqs
    BY <2>1 DEF Reqs
  <2>. QED  BY <2>1, <2>2
<1>2. pc' \in [Callers -> Steps]
  BY DEF TypeInv, TypeOK, ClientTypeOK, Goto
<1>3. ClientTypeOK'
  BY <1>1, <1>2 DEF TypeInv, TypeOK, ClientTypeOK
<1>4. \A d \in Callers : /\ req'[d].op = req[d].op
                          /\ req'[d].vol = req[d].vol
                          /\ req'[d].server = req[d].server
                          /\ req'[d].name = req[d].name
  BY DEF TypeInv, TypeOK, ClientTypeOK, Reqs
<1>5. \A d \in Callers : d # c => pc'[d] = pc[d]
  BY DEF TypeInv, TypeOK, ClientTypeOK, Goto
<1>6. pc'[c] = step
  BY DEF TypeInv, TypeOK, ClientTypeOK, Goto
<1>7. CallOK'
  BY <1>4, <1>5, <1>6 DEF TypeInv, CallOK
<1>. QED  BY <1>3, <1>7 DEF TypeInv, TypeOK

LEMMA KeepSnapTypeInv ==
    ASSUME TypeInv, UNCHANGED apiVars, NEW c \in Callers, pc[c] = "read",
           NEW v, KeepSnap(c, v),
           \/ v = None /\ req[c].op = "Ensure"
           \/ v \in On(req[c].server)
    PROVE  TypeInv'
<1>. USE DEF TypeInv, TypeOK, ClientTypeOK
<1>1. req[c].server \in Servers /\ req[c] \in Reqs
  BY DEF CallOK
<1>2. Volumes(req[c].server) \in Arrays /\ Ids(Volumes(req[c].server)) = On(req[c].server)
  BY <1>1, VolumesType
<1>3. v \in VolIds \cup {None}
  BY DEF On
<1>4. req' \in [Callers -> Reqs]
  BY <1>1, <1>3 DEF KeepSnap, Reqs
<1>5. ApiTypeOK' /\ ClientTypeOK'
  BY <1>2, <1>4 DEF KeepSnap, Goto, Steps, ApiTypeOK, apiVars
<1>6. \A d \in Callers : d # c => /\ pc'[d] = pc[d]
                                  /\ req'[d] = req[d]
                                  /\ snap'[d] = snap[d]
  BY DEF KeepSnap, Goto
<1>7. /\ pc'[c] = "write"
      /\ req'[c] = [req[c] EXCEPT !.vol = v]
      /\ snap'[c] = Volumes(req[c].server)
  BY DEF KeepSnap, Goto
<1>8. v = None \/ v \in Ids(snap'[c])
  BY <1>2, <1>7
<1>9. CallOK'
  BY <1>1, <1>3, <1>6, <1>7, <1>8 DEF CallOK, Reqs, On
<1>. QED  BY <1>5, <1>9

-----------------------------------------------------------------------------
(* TypeInv is inductive.                                                   *)

LEMMA InitTypeInv == Init => TypeInv
<1>. SUFFICES ASSUME Init PROVE TypeInv
  OBVIOUS
<1>. USE ApiAssumption, ClientAssumption
<1>1. place \in [VolIds -> Servers \cup {Unborn, Detached, Deleted}]
  <2>1. ASSUME NEW v \in Roots  PROVE (CHOOSE s \in Servers : RootOf[s] = v) \in Servers
    BY DEF Roots
  <2>. QED  BY <2>1 DEF Init, ApiInit
<1>2. attr \in [VolIds -> Attr]
  BY DEF Init, ApiInit, Attr
<1>3. queue \in [Servers -> Seq(Payloads)]
  BY DEF Init, ApiInit
<1>4. NoReq \in Reqs /\ NoRet \in Rets /\ NoArray \in Arrays
  BY DEF NoReq, Reqs, NoRet, Rets, NoArray, Arrays
<1>5. ClientTypeOK
  BY <1>4 DEF Init, ClientTypeOK, Steps
<1>6. CallOK
  BY DEF Init, CallOK
<1>. QED  BY <1>1, <1>2, <1>3, <1>5, <1>6 DEF TypeInv, TypeOK, ApiTypeOK

LEMMA CallTypeInv ==
    ASSUME TypeInv, NEW c \in Callers, NEW r \in Reqs, NEW step \in Steps,
           Call(c, r, step), todo' \in [Callers -> SUBSET Servers],
           asked' \subseteq VolIds,
           \/ step = "lock" /\ r.op \in LockedOps /\ r.server \in Servers
              /\ (r.op = "Ensure" => r.name \in Names)
              /\ (r.op # "Ensure" => r.vol \in VolIds)
           \/ step = "find" /\ r.op \in {"Find", "Move"} /\ r.vol \in VolIds
              /\ (r.op = "Move" => r.server \in Servers)
           \/ step = "detach" /\ r.op = "Detach" /\ r.vol \in VolIds
              /\ r.server \in Servers
    PROVE  TypeInv'
<1>. USE DEF TypeInv, TypeOK, ClientTypeOK
<1>1. NoRet \in Rets
  BY DEF NoRet, Rets
<1>2. ApiTypeOK' /\ ClientTypeOK'
  BY <1>1 DEF Call, Goto, ApiTypeOK, apiVars
<1>3. CallOK'
  BY DEF Call, Goto, CallOK
<1>. QED  BY <1>2, <1>3

LEMMA StartTypeInv ==
    ASSUME TypeInv, NEW c \in Callers, Start(c)
    PROVE  TypeInv'
<1>. USE ApiAssumption, ClientAssumption
<1>0. /\ todo \in [Callers -> SUBSET Servers]
      /\ asked \subseteq VolIds
  BY DEF TypeInv, TypeOK, ClientTypeOK
<1>1. ASSUME NEW n \in Names, NEW size \in Sizes, CallEnsure(c, n, size)
      PROVE  TypeInv'
  <2>. DEFINE r == [NoReq EXCEPT !.op = "Ensure", !.server = HomeOf[n],
                                 !.name = n, !.size = size]
  <2>1. r \in Reqs /\ r.op = "Ensure" /\ r.server \in Servers /\ r.name \in Names
    BY DEF NoReq, Reqs
  <2>2. Call(c, r, "lock") /\ UNCHANGED <<todo, asked>>
    BY <1>1 DEF CallEnsure
  <2>. HIDE DEF r
  <2>. QED  BY <1>0, <2>1, <2>2, CallTypeInv DEF Steps
<1>2. ASSUME NEW s \in Servers, NEW v \in VolIds, CallDelete(c, s, v)
      PROVE  TypeInv'
  <2>. DEFINE r == [NoReq EXCEPT !.op = "Delete", !.server = s, !.vol = v]
  <2>1. r \in Reqs /\ r.op = "Delete" /\ r.server \in Servers /\ r.vol \in VolIds
    BY DEF NoReq, Reqs
  <2>2. Call(c, r, "lock") /\ asked' = asked \cup {v} /\ UNCHANGED todo
    BY <1>2 DEF CallDelete
  <2>. HIDE DEF r
  <2>. QED  BY <1>0, <2>1, <2>2, CallTypeInv DEF Steps
<1>3. ASSUME NEW s \in Servers, NEW v \in VolIds, CallDetach(c, s, v)
      PROVE  TypeInv'
  <2>. DEFINE r == [NoReq EXCEPT !.op = "Detach", !.server = s, !.from = s,
                                 !.vol = v]
  <2>1. r \in Reqs /\ r.op = "Detach" /\ r.server \in Servers /\ r.vol \in VolIds
    BY DEF NoReq, Reqs
  <2>2. Call(c, r, "detach") /\ UNCHANGED <<todo, asked>>
    BY <1>3 DEF CallDetach
  <2>. HIDE DEF r
  <2>. QED  BY <1>0, <2>1, <2>2, CallTypeInv DEF Steps
<1>4. ASSUME NEW s \in Servers, NEW v \in VolIds, NEW size \in Sizes,
             CallExpand(c, s, v, size)
      PROVE  TypeInv'
  <2>. DEFINE r == [NoReq EXCEPT !.op = "Expand", !.server = s, !.vol = v,
                                 !.size = size]
  <2>1. r \in Reqs /\ r.op = "Expand" /\ r.server \in Servers /\ r.vol \in VolIds
    BY DEF NoReq, Reqs
  <2>2. Call(c, r, "lock") /\ UNCHANGED <<todo, asked>>
    BY <1>4 DEF CallExpand
  <2>. HIDE DEF r
  <2>. QED  BY <1>0, <2>1, <2>2, CallTypeInv DEF Steps
<1>5. ASSUME NEW v \in VolIds, NEW S \in SUBSET Servers, CallFind(c, v, S)
      PROVE  TypeInv'
  <2>. DEFINE r == [NoReq EXCEPT !.op = "Find", !.vol = v]
  <2>1. r \in Reqs /\ r.op = "Find" /\ r.vol \in VolIds
    BY DEF NoReq, Reqs
  <2>. DEFINE T == UniqueNonEmpty(S)
  <2>2. Call(c, r, "find") /\ todo' = [todo EXCEPT ![c] = T] /\ UNCHANGED asked
    BY <1>5 DEF CallFind
  <2>3. T \in SUBSET Servers
    BY DEF UniqueNonEmpty
  <2>. HIDE DEF r, T
  <2>. QED  BY <1>0, <2>1, <2>2, <2>3, CallTypeInv DEF Steps
<1>6. ASSUME NEW v \in VolIds, NEW S \in SUBSET Servers, NEW s \in Servers,
             CallMove(c, None, s, v, S)
      PROVE  TypeInv'
  <2>. DEFINE r == [NoReq EXCEPT !.op = "Move", !.server = s, !.vol = v]
  <2>. DEFINE T == UniqueNonEmpty(S \cup {None, s})
  <2>1. r \in Reqs /\ r.op = "Move" /\ r.server \in Servers /\ r.vol \in VolIds
    BY DEF NoReq, Reqs
  <2>2. /\ Call(c, r, "find")
        /\ todo' = [todo EXCEPT ![c] = T]
        /\ UNCHANGED asked
    BY <1>6 DEF CallMove
  <2>3. T \in SUBSET Servers
    BY DEF UniqueNonEmpty
  <2>. HIDE DEF r, T
  <2>. QED  BY <1>0, <2>1, <2>2, <2>3, CallTypeInv DEF Steps
<1>. QED  BY <1>1, <1>2, <1>3, <1>4, <1>5, <1>6 DEF Start

\* What the leaves below keep using: the types of one caller's state.
LEMMA CallerTypes ==
    ASSUME TypeInv, NEW c \in Callers
    PROVE  /\ req[c] \in Reqs /\ pc[c] \in Steps /\ tries[c] \in Nat
           /\ todo \in [Callers -> SUBSET Servers]
           /\ tries \in [Callers -> Nat]
           /\ pc' = [pc EXCEPT ![c] = pc[c]] => pc' = pc
  BY DEF TypeInv, TypeOK, ClientTypeOK

LEMMA SameApiType ==
    ASSUME TypeInv, UNCHANGED apiVars
    PROVE  ApiTypeOK'
  BY DEF TypeInv, TypeOK, ApiTypeOK, apiVars

\* A polling loop that found nothing goes round once more.
LEMMA TryAgainTypeInv ==
    ASSUME TypeInv, NEW c \in Callers, UNCHANGED apiVars,
           tries' = [tries EXCEPT ![c] = @ + 1],
           UNCHANGED <<Local, pc, snap, todo>>
    PROVE  TypeInv'
<1>1. tries' \in [Callers -> Nat]
  BY CallerTypes
<1>. QED
  BY <1>1, SameApiType DEF TypeInv, TypeOK, ClientTypeOK, CallOK, Local

LEMMA StepTypeInv ==
    ASSUME TypeInv, NEW c \in Callers, Step(c)
    PROVE  TypeInv'
<1>. USE CallerTypes DEF Steps
<1>1. CASE Lock(c)
  <2>1. ApiTypeOK'
    BY <1>1, SameApiType DEF Lock
  <2>2. req[c].server \in Servers /\ pc[c] = "lock"
    BY <1>1 DEF Lock, TypeInv, CallOK
  <2>3. holder' \in [Servers -> Callers \cup {None}]
    BY <1>1, <2>2 DEF Lock, TypeInv, TypeOK, ClientTypeOK
  <2>4. ClientTypeOK'
    BY <1>1, <2>3 DEF Lock, Goto, TypeInv, TypeOK, ClientTypeOK
  <2>5. CallOK'
    BY <1>1 DEF Lock, Goto, TypeInv, TypeOK, ClientTypeOK, CallOK
  <2>. QED  BY <2>1, <2>4, <2>5 DEF TypeInv, TypeOK
<1>2. CASE EnsureRead(c)
  <2>1. req[c].server \in Servers /\ pc[c] = "read" /\ req[c].op = "Ensure"
    BY <1>2 DEF EnsureRead, TypeInv, CallOK
  <2>2. \A v \in Named(Volumes(req[c].server), req[c].name) :
            v \in VolIds /\ v \in On(req[c].server)
    BY <2>1, VolumesType DEF Named, TypeInv, TypeOK, On
  <2>3. UNCHANGED apiVars /\ ApiTypeOK'
    BY <1>2, SameApiType DEF EnsureRead
  <2>4. \/ \E v \in VolIds : Ok(c, v, req[c].server)
        \/ \E v \in On(req[c].server) : KeepSnap(c, v)
        \/ KeepSnap(c, None)
    BY <1>2, <2>2 DEF EnsureRead
  <2>. QED  BY <2>1, <2>3, <2>4, OkTypeInv, KeepSnapTypeInv
<1>3. CASE DeleteRead(c)
  <2>1. /\ req[c].server \in Servers /\ req[c].vol \in VolIds
        /\ pc[c] = "read" /\ req[c].op = "Delete"
    BY <1>3 DEF DeleteRead, TypeInv, CallOK
  <2>2. UNCHANGED apiVars /\ ApiTypeOK'
    BY <1>3, SameApiType DEF DeleteRead
  <2>3. \/ Ok(c, req[c].vol, req[c].server)
        \/ Fail(c)
        \/ req[c].vol \in On(req[c].server) /\ KeepSnap(c, req[c].vol)
    BY <1>3 DEF DeleteRead
  <2>. QED  BY <2>1, <2>2, <2>3, OkTypeInv, FailTypeInv, KeepSnapTypeInv
<1>4. CASE ExpandRead(c)
  <2>1. /\ req[c].server \in Servers /\ req[c].vol \in VolIds
        /\ pc[c] = "read" /\ req[c].op = "Expand"
    BY <1>4 DEF ExpandRead, TypeInv, CallOK
  <2>2. UNCHANGED apiVars /\ ApiTypeOK'
    BY <1>4, SameApiType DEF ExpandRead
  <2>3. \/ Ok(c, req[c].vol, req[c].server)
        \/ Fail(c)
        \/ req[c].vol \in On(req[c].server) /\ KeepSnap(c, req[c].vol)
    BY <1>4 DEF ExpandRead
  <2>. QED  BY <2>1, <2>2, <2>3, OkTypeInv, FailTypeInv, KeepSnapTypeInv
<1>5. CASE Write(c)
  <2>1. /\ pc[c] = "write" /\ req[c].server \in Servers
        /\ req[c].op # "Ensure" => req[c].vol \in VolIds
    BY <1>5 DEF Write, TypeInv, CallOK
  <2>2. ApiTypeOK'
    BY <1>5, <2>1, NextArrayType, AcceptResizeType DEF Write, TypeInv, TypeOK
  <2>3. \/ req[c].op = "Delete" /\ Ok(c, req[c].vol, req[c].server)
        \/ Goto(c, "poll") /\ UNCHANGED <<Local, snap, todo, tries>>
        \/ Fail(c)
    BY <1>5 DEF Write
  <2>4. CASE Goto(c, "poll") /\ UNCHANGED <<Local, snap, todo, tries>>
    BY <2>1, <2>2, <2>4, GoOnTypeInv DEF Local
  <2>. QED  BY <2>1, <2>2, <2>3, <2>4, OkTypeInv, FailTypeInv
<1>6. CASE Poll(c)
  <2>1. pc[c] = "poll" /\ req[c].server \in Servers
    BY <1>6 DEF Poll, TypeInv, CallOK
  <2>2. UNCHANGED apiVars /\ ApiTypeOK'
    BY <1>6, SameApiType DEF Poll
  <2>3. \/ \E v \in VolIds : Ok(c, v, req[c].server)
        \/ Fail(c)
        \/ tries' = [tries EXCEPT ![c] = @ + 1] /\ UNCHANGED <<Local, pc, snap, todo>>
    BY <1>6, FindResizedType DEF Poll
  <2>. QED  BY <2>1, <2>2, <2>3, OkTypeInv, FailTypeInv, TryAgainTypeInv
<1>7. CASE FindGet(c)
  <2>1. /\ pc[c] = "find" /\ req[c].vol \in VolIds
        /\ req[c].op \in {"Find", "Move"}
    BY <1>7 DEF FindGet, TypeInv, CallOK
  <2>2. UNCHANGED apiVars /\ ApiTypeOK'
    BY <1>7, SameApiType DEF FindGet
  <2>3. PICK s \in todo[c] :
          \/ Ok(c, req[c].vol, s)
          \/ Fail(c)
          \/ /\ req[c].op # "Find"
             /\ req' = [req EXCEPT ![c].from = s] /\ Goto(c, "detach")
             /\ UNCHANGED <<holder, snap, todo, tries, ret, asked, told>>
          \/ todo' = [todo EXCEPT ![c] = @ \ {s}] /\ UNCHANGED <<Local, pc, snap, tries>>
    BY <1>7 DEF FindGet
  <2>4. s \in Servers
    BY <2>3
  <2>5. CASE /\ req[c].op # "Find"
             /\ req' = [req EXCEPT ![c].from = s] /\ Goto(c, "detach")
             /\ UNCHANGED <<holder, snap, todo, tries, ret, asked, told>>
    BY <2>1, <2>2, <2>4, <2>5, GoOnTypeInv
  <2>6. CASE todo' = [todo EXCEPT ![c] = @ \ {s}] /\ UNCHANGED <<Local, pc, snap, tries>>
    <3>1. todo' \in [Callers -> SUBSET Servers]
      BY <2>6
    <3>. QED  BY <2>2, <2>6, <3>1 DEF TypeInv, TypeOK, ClientTypeOK, CallOK, Local
  <2>. QED  BY <2>1, <2>2, <2>3, <2>4, <2>5, <2>6, OkTypeInv, FailTypeInv
<1>8. CASE Detach(c)
  <2>1. /\ pc[c] = "detach" /\ req[c].vol \in VolIds /\ req[c].server \in Servers
        /\ req[c].op \in {"Move", "Detach"}
    BY <1>8 DEF Detach, TypeInv, CallOK
  <2>2. ApiTypeOK'
    BY <1>8, <2>1 DEF Detach, DetachFrom, TypeInv, TypeOK, ApiTypeOK
  <2>3. \/ Ok(c, req[c].vol, req[c].server)
        \/ Fail(c)
        \/ /\ req[c].op = "Move" /\ Goto(c, "attach")
           /\ UNCHANGED <<Local, snap, todo, tries>>
    BY <1>8 DEF Detach
  <2>4. CASE /\ req[c].op = "Move" /\ Goto(c, "attach")
             /\ UNCHANGED <<Local, snap, todo, tries>>
    BY <2>1, <2>2, <2>4, GoOnTypeInv DEF Local
  <2>. QED  BY <2>1, <2>2, <2>3, <2>4, OkTypeInv, FailTypeInv
<1>9. CASE Attach(c)
  <2>1. /\ pc[c] = "attach" /\ req[c].vol \in VolIds /\ req[c].server \in Servers
        /\ req[c].op = "Move"
    BY <1>9 DEF Attach, TypeInv, CallOK
  <2>2. ApiTypeOK'
    BY <1>9, <2>1 DEF Attach, AttachTo, TypeInv, TypeOK, ApiTypeOK
  <2>3. \/ Goto(c, "verify") /\ UNCHANGED <<Local, snap, todo, tries>>
        \/ Fail(c)
    BY <1>9 DEF Attach
  <2>4. CASE Goto(c, "verify") /\ UNCHANGED <<Local, snap, todo, tries>>
    BY <2>1, <2>2, <2>4, GoOnTypeInv DEF Local
  <2>. QED  BY <2>2, <2>3, <2>4, FailTypeInv
<1>10. CASE Verify(c)
  <2>1. pc[c] = "verify" /\ req[c].vol \in VolIds /\ req[c].server \in Servers
    BY <1>10 DEF Verify, TypeInv, CallOK
  <2>2. UNCHANGED apiVars /\ ApiTypeOK'
    BY <1>10, SameApiType DEF Verify
  <2>3. \/ Ok(c, req[c].vol, req[c].server)
        \/ Fail(c)
        \/ tries' = [tries EXCEPT ![c] = @ + 1] /\ UNCHANGED <<Local, pc, snap, todo>>
    BY <1>10 DEF Verify
  <2>. QED  BY <2>1, <2>2, <2>3, OkTypeInv, FailTypeInv, TryAgainTypeInv
<1>11. CASE RequestFails(c)
  BY <1>11, SameApiType, FailTypeInv DEF RequestFails
<1>12. CASE Finish(c)
  <2>1. NoReq \in Reqs /\ NoRet \in Rets
    BY ApiAssumption DEF NoReq, Reqs, NoRet, Rets
  <2>2. ApiTypeOK'
    BY <1>12, SameApiType DEF Finish
  <2>3. ClientTypeOK'
    BY <1>12, <2>1 DEF Finish, Goto, TypeInv, TypeOK, ClientTypeOK
  <2>4. CallOK'
    BY <1>12 DEF Finish, Goto, TypeInv, TypeOK, ClientTypeOK, CallOK
  <2>. QED  BY <2>2, <2>3, <2>4 DEF TypeInv, TypeOK
<1>. QED
  BY <1>1, <1>2, <1>3, <1>4, <1>5, <1>6, <1>7, <1>8, <1>9, <1>10, <1>11, <1>12
  DEF Step, Progress

LEMMA ApplianceTypeInv ==
    ASSUME TypeInv, Appliance
    PROVE  TypeInv'
<1>1. PICK s \in Servers : (Apply(s) \/ JobFails(s)) /\ UNCHANGED clientVars
  BY DEF Appliance
<1>2. queue[s] # <<>> /\ queue[s] \in Seq(Payloads)
  BY <1>1 DEF Apply, JobFails, TypeInv, TypeOK, ApiTypeOK
<1>3. Head(queue[s]) \in Payloads /\ Tail(queue[s]) \in Seq(Payloads)
  BY <1>2
<1>4. ApiTypeOK'
  <2>1. CASE Apply(s)
    <3>1. queue' \in [Servers -> Seq(Payloads)]
      BY <2>1, <1>3 DEF Apply, TypeInv, TypeOK, ApiTypeOK
    <3>2. TakeEffect(s, Head(queue[s]))
      BY <2>1 DEF Apply
    <3>. QED  BY <1>3, <3>1, <3>2, TakeEffectType DEF TypeInv, TypeOK, ApiTypeOK
  <2>2. CASE JobFails(s)
    BY <2>2, <1>3 DEF JobFails, TypeInv, TypeOK, ApiTypeOK
  <2>. QED  BY <1>1, <2>1, <2>2
<1>5. ClientTypeOK' /\ CallOK'
  BY <1>1 DEF clientVars, callVars, TypeInv, TypeOK, ClientTypeOK, CallOK
<1>. QED  BY <1>4, <1>5 DEF TypeInv, TypeOK

LEMMA RestartTypeInv ==
    ASSUME TypeInv, Restart
    PROVE  TypeInv'
<1>1. NoReq \in Reqs /\ NoRet \in Rets /\ NoArray \in Arrays
  BY ApiAssumption DEF NoReq, Reqs, NoRet, Rets, NoArray, Arrays
<1>2. ApiTypeOK'
  BY SameApiType DEF Restart
<1>3. ClientTypeOK' /\ CallOK'
  BY <1>1 DEF Restart, TypeInv, TypeOK, ClientTypeOK, CallOK, Steps
<1>. QED  BY <1>2, <1>3 DEF TypeInv, TypeOK

LEMMA NextTypeInv == TypeInv /\ [Next]_vars => TypeInv'
<1>. SUFFICES ASSUME TypeInv, [Next]_vars  PROVE TypeInv'
  OBVIOUS
<1>1. CASE UNCHANGED vars
  <2>1. ApiTypeOK'
    BY <1>1, SameApiType DEF vars
  <2>2. ClientTypeOK' /\ CallOK'
    BY <1>1 DEF vars, clientVars, callVars, TypeInv, TypeOK, ClientTypeOK, CallOK
  <2>. QED  BY <2>1, <2>2 DEF TypeInv, TypeOK
<1>. QED  BY <1>1, StartTypeInv, StepTypeInv, ApplianceTypeInv, RestartTypeInv DEF Next

\* Every variable keeps its type, and a call in progress has resolved the
\* server, volume and array that the step it is at relies on.
THEOREM TypeInvariant == Spec => []TypeInv
  BY InitTypeInv, NextTypeInv, PTL DEF Spec

THEOREM TypeCorrect == Spec => []TypeOK
<1>1. TypeInv => TypeOK
  BY DEF TypeInv
<1>. QED  BY <1>1, TypeInvariant, PTL

-----------------------------------------------------------------------------
(* The mutexes.                                                            *)

Critical == {"read", "write", "poll"}

\* LockDiscipline is about the caller that moves only: for the others neither
\* the step nor the mutexes they hold change.
LEMMA ReturnLock ==
    ASSUME TypeInv, LockDiscipline, NEW c \in Callers, NEW r, Return(c, r)
    PROVE  LockDiscipline'
  BY ClientAssumption
  DEF TypeInv, TypeOK, ClientTypeOK, LockDiscipline, Return, Released, Goto

LEMMA SameLock ==
    ASSUME TypeInv, LockDiscipline, NEW c \in Callers, UNCHANGED holder,
           NEW step, Goto(c, step), step \in Critical <=> pc[c] \in Critical,
           \A d \in Callers : d # c => req'[d] = req[d],
           step \in Critical => req'[c].server = req[c].server
    PROVE  LockDiscipline'
  BY DEF TypeInv, TypeOK, ClientTypeOK, LockDiscipline, Goto, Critical

LEMMA StepLock ==
    ASSUME TypeInv, LockDiscipline, NEW c \in Callers, Step(c)
    PROVE  LockDiscipline'
<1>0. /\ pc \in [Callers -> Steps] /\ req \in [Callers -> Reqs]
      /\ holder \in [Servers -> Callers \cup {None}]
  BY DEF TypeInv, TypeOK, ClientTypeOK
<1>1. CASE Lock(c)
  <2>1. req[c].server \in Servers
    BY <1>1 DEF Lock, TypeInv, CallOK
  <2>. QED
    BY <1>0, <1>1, <2>1, ClientAssumption DEF Lock, LockFree, Goto, LockDiscipline
<1>2. ASSUME NEW v, KeepSnap(c, v), pc[c] = "read"  PROVE LockDiscipline'
  <2>1. /\ \A d \in Callers : d # c => req'[d] = req[d]
        /\ req'[c].server = req[c].server
    BY <1>0, <1>2 DEF KeepSnap, Reqs
  <2>. QED  BY <1>2, <2>1, SameLock DEF KeepSnap, Critical
<1>3. ASSUME NEW step, Goto(c, step), UNCHANGED <<holder, req>>,
             step \in Critical <=> pc[c] \in Critical
      PROVE  LockDiscipline'
  BY <1>3, SameLock
<1>4. ASSUME UNCHANGED <<Local, pc>>  PROVE LockDiscipline'
  BY <1>4 DEF LockDiscipline, Local
<1>5. CASE EnsureRead(c)
  BY <1>2, <1>5, ReturnLock DEF EnsureRead, Ok
<1>6. CASE DeleteRead(c)
  BY <1>2, <1>6, ReturnLock DEF DeleteRead, Ok, Fail
<1>7. CASE ExpandRead(c)
  BY <1>2, <1>7, ReturnLock DEF ExpandRead, Ok, Fail
<1>8. CASE Write(c)
  <2>1. CASE Goto(c, "poll") /\ UNCHANGED <<Local, snap, todo, tries>>
    BY <1>3, <1>8, <2>1 DEF Write, Local, Critical
  <2>. QED  BY <1>8, <2>1, ReturnLock DEF Write, Ok, Fail
<1>9. CASE Poll(c)
  BY <1>4, <1>9, ReturnLock DEF Poll, Ok, Fail
<1>10. CASE FindGet(c)
  <2>1. ASSUME NEW s, req' = [req EXCEPT ![c].from = s], Goto(c, "detach"),
               UNCHANGED holder, pc[c] = "find"
        PROVE  LockDiscipline'
    BY <1>0, <2>1, SameLock DEF Critical
  <2>. QED  BY <1>4, <1>10, <2>1, ReturnLock DEF FindGet, Ok, Fail
<1>11. CASE Detach(c)
  <2>1. CASE Goto(c, "attach") /\ UNCHANGED <<Local, snap, todo, tries>>
    BY <1>3, <1>11, <2>1 DEF Detach, Local, Critical
  <2>. QED  BY <1>11, <2>1, ReturnLock DEF Detach, Ok, Fail
<1>12. CASE Attach(c)
  <2>1. CASE Goto(c, "verify") /\ UNCHANGED <<Local, snap, todo, tries>>
    BY <1>3, <1>12, <2>1 DEF Attach, Local, Critical
  <2>. QED  BY <1>12, <2>1, ReturnLock DEF Attach, Ok, Fail
<1>13. CASE Verify(c)
  BY <1>4, <1>13, ReturnLock DEF Verify, Ok, Fail
<1>14. CASE RequestFails(c)
  BY <1>14, ReturnLock DEF RequestFails, Fail
<1>15. CASE Finish(c)
  BY <1>0, <1>15, SameLock, SMTT(30) DEF Finish, Critical
<1>. QED
  BY <1>1, <1>5, <1>6, <1>7, <1>8, <1>9, <1>10, <1>11, <1>12, <1>13, <1>14, <1>15
  DEF Step, Progress

LEMMA StartLock ==
    ASSUME TypeInv, LockDiscipline, NEW c \in Callers, Start(c)
    PROVE  LockDiscipline'
<1>1. ASSUME NEW r, NEW step \in {"lock", "find", "detach"}, Call(c, r, step)
      PROVE  LockDiscipline'
  BY <1>1, SameLock DEF Call, Critical, TypeInv, TypeOK, ClientTypeOK
<1>. QED
  BY <1>1 DEF Start, CallEnsure, CallDelete, CallDetach, CallExpand, CallFind,
              CallMove

LEMMA NextLock == TypeInv /\ LockDiscipline /\ [Next]_vars => LockDiscipline'
<1>. SUFFICES ASSUME TypeInv, LockDiscipline, [Next]_vars  PROVE LockDiscipline'
  OBVIOUS
<1>1. CASE UNCHANGED vars \/ Appliance
  BY <1>1 DEF Appliance, vars, clientVars, callVars, LockDiscipline
<1>2. CASE Restart
  BY <1>2, ClientAssumption DEF Restart, LockDiscipline
<1>. QED  BY <1>1, <1>2, StartLock, StepLock DEF Next

\* The mutex of a server is held exactly by the one call that is between its
\* GET and its last lookup there: lockServer and the deferred unlock balance on
\* every path, whatever fails.
THEOREM MutexSafe == Spec => []LockDiscipline
<1>1. Init => LockDiscipline
  BY ClientAssumption DEF Init, LockDiscipline
<1>. QED  BY <1>1, NextLock, TypeInvariant, PTL DEF Spec

\* No two calls are at once between the GET and the last lookup of one server.
OneCriticalCall ==
    \A c, d \in Callers :
        /\ pc[c] \in Critical /\ pc[d] \in Critical
        /\ req[c].server = req[d].server
        => c = d

\* Calls that replace a server's volume array exclude each other.
THEOREM MutualExclusion == Spec => []OneCriticalCall
<1>1. TypeInv /\ LockDiscipline => OneCriticalCall
  BY DEF TypeInv, CallOK, LockDiscipline, OneCriticalCall, Critical
<1>. QED  BY <1>1, MutexSafe, TypeInvariant, PTL

-----------------------------------------------------------------------------
(* The root disks. Only DetachVolume may take one from its server. As long *)
(* as it is there, every array that was or will be sent states it          *)
(* unchanged; the other calls change, delete, detach and return none.      *)

RootAttr == [name |-> NoName, size |-> 1]

RootsHome ==
    \A s \in Servers : place[RootOf[s]] \in {s, Detached} /\ attr[RootOf[s]] = RootAttr

QueuesKeepRoots ==
    \A s \in Servers : place[RootOf[s]] = s
        => \A i \in 1..Len(queue[s]) : queue[s][i].keep[RootOf[s]] = RootAttr

\* What a call is about to send states the root disk of s.
StatesRoot(c, s) == place[RootOf[s]] = s => snap[c][RootOf[s]] = RootAttr

SparesRoots(c) ==
    /\ pc[c] = "write" => StatesRoot(c, req[c].server)
    /\ pc[c] \in {"write", "poll", "attach"} => req[c].vol \notin Roots
    /\ pc[c] = "detach" => req[c].vol \notin Roots \/ req[c].op = "Detach"
    /\ pc[c] = "done" /\ ret[c].ok /\ req[c].op = "Ensure" => ret[c].vol \notin Roots

RootSafe == /\ RootsHome /\ QueuesKeepRoots
            /\ \A c \in Callers : SparesRoots(c)

\* No root disk moves in a step, and none changes.
RootsStay == \A s \in Servers : /\ place'[RootOf[s]] = place[RootOf[s]]
                               /\ attr'[RootOf[s]] = attr[RootOf[s]]

\* Or one is detached by a call of DetachVolume that was given it.
RootsStep ==
    \A s \in Servers :
        /\ attr'[RootOf[s]] = attr[RootOf[s]]
        /\ \/ place'[RootOf[s]] = place[RootOf[s]]
           \/ /\ place'[RootOf[s]] = Detached
              /\ \E c \in Callers : /\ pc[c] = "detach" /\ req[c].op = "Detach"
                                    /\ req[c].vol = RootOf[s] /\ req[c].from = s

LEMMA RootFacts ==
    /\ \A s \in Servers : RootOf[s] \in Roots /\ RootOf[s] \in VolIds
    /\ None \notin Roots
    /\ RootAttr # None
    /\ Servers \cap {Unborn, Detached, Deleted} = {}
<1>1. RootAttr \in Attr
  BY ApiAssumption DEF RootAttr, Attr
<1>. QED  BY <1>1, ApiAssumption DEF Roots

LEMMA StayIsStep == ASSUME RootsHome, RootsStay PROVE RootsStep /\ RootsHome'
  BY DEF RootsStay, RootsStep, RootsHome

LEMMA StepKeepsHome == ASSUME RootsHome, RootsStep PROVE RootsHome'
  BY DEF RootsStep, RootsHome

LEMMA TakeEffectSparesRoots ==
    ASSUME RootsHome, NEW s \in Servers, NEW p,
           place[RootOf[s]] = s => p.keep[RootOf[s]] = RootAttr, TakeEffect(s, p)
    PROVE  RootsStay
<1>1. PICK fresh \in IF p.new = None THEN {None} ELSE Fresh :
          place' = PlaceAfter(s, p, fresh) /\ attr' = AttrAfter(s, p, fresh)
  BY DEF TakeEffect
<1>2. fresh \notin Roots
  BY RootFacts DEF Fresh, RootsHome, Roots, Unborn, Detached
<1>3. place[RootOf[s]] = s => RootOf[s] \in Ids(p.keep)
  BY RootFacts DEF Ids
<1>4. ASSUME NEW t \in Servers
      PROVE  place'[RootOf[t]] = place[RootOf[t]] /\ attr'[RootOf[t]] = attr[RootOf[t]]
  <2>1. /\ RootOf[t] \in VolIds /\ RootOf[t] # fresh
        /\ place[RootOf[t]] \in {t, Detached} /\ attr[RootOf[t]] = RootAttr
    BY <1>2, RootFacts DEF RootsHome
  <2>2. place[RootOf[t]] = s => t = s
    BY <2>1, RootFacts
  <2>3. PlaceAfter(s, p, fresh)[RootOf[t]] = place[RootOf[t]]
    BY <2>1, <2>2, <1>3 DEF PlaceAfter
  <2>4. AttrAfter(s, p, fresh)[RootOf[t]] = attr[RootOf[t]]
    BY <2>1, <2>2, <1>3 DEF AttrAfter
  <2>. QED  BY <1>1, <2>3, <2>4
<1>. QED  BY <1>4 DEF RootsStay

LEMMA NextArrayKeepsRoot ==
    ASSUME TypeInv, NEW c \in Callers, SparesRoots(c), pc[c] = "write",
           place[RootOf[req[c].server]] = req[c].server
    PROVE  NextArray(c).keep[RootOf[req[c].server]] = RootAttr
<1>. DEFINE root == RootOf[req[c].server]
<1>1. req[c].server \in Servers /\ root \in Roots /\ root \in VolIds
  BY RootFacts DEF TypeInv, CallOK
<1>2. snap[c] \in Arrays /\ snap[c][root] = RootAttr /\ req[c].vol # root
  BY <1>1 DEF TypeInv, TypeOK, ClientTypeOK, SparesRoots, StatesRoot
<1>. HIDE DEF root
<1>3. NextArray(c).keep[root] = RootAttr
  <2>1. CASE req[c].op = "Delete"
    BY <1>1, <1>2, <2>1 DEF NextArray, ArrayWithout, Arrays
  <2>2. CASE req[c].op # "Delete"
    BY <1>1, <1>2, <2>2 DEF NextArray, ResizeArray, Arrays
  <2>. QED  BY <2>1, <2>2
<1>. QED  BY <1>3 DEF root

LEMMA AcceptResizeSparesRoots ==
    ASSUME TypeInv, RootsHome, QueuesKeepRoots, NEW s \in Servers,
           NEW p \in Payloads, place[RootOf[s]] = s => p.keep[RootOf[s]] = RootAttr,
           AcceptResize(s, p)
    PROVE  RootsStay /\ QueuesKeepRoots'
<1>1. CASE TakeEffect(s, p) /\ UNCHANGED queue
  BY <1>1, TakeEffectSparesRoots DEF QueuesKeepRoots, RootsStay
<1>2. CASE queue' = [queue EXCEPT ![s] = Append(@, p)] /\ UNCHANGED <<place, attr>>
  <2>1. RootsStay
    BY <1>2 DEF RootsStay
  <2>2. ASSUME NEW t \in Servers, place'[RootOf[t]] = t, NEW i \in 1..Len(queue'[t])
        PROVE  queue'[t][i].keep[RootOf[t]] = RootAttr
    <3>1. queue[s] \in Seq(Payloads) /\ queue[t] \in Seq(Payloads)
      BY DEF TypeInv, TypeOK, ApiTypeOK
    <3>2. CASE t # s
      BY <1>2, <2>2, <3>2 DEF QueuesKeepRoots, TypeInv, TypeOK, ApiTypeOK
    <3>3. CASE t = s
      <4>1. queue'[t] = Append(queue[s], p)
        BY <1>2, <3>3 DEF TypeInv, TypeOK, ApiTypeOK
      <4>2. CASE i \in 1..Len(queue[s])
        BY <1>2, <2>2, <3>1, <3>3, <4>1, <4>2 DEF QueuesKeepRoots
      <4>3. CASE i = Len(queue[s]) + 1
        BY <1>2, <2>2, <3>1, <3>3, <4>1, <4>3
      <4>. QED  BY <2>2, <3>1, <4>1, <4>2, <4>3
    <3>. QED  BY <3>2, <3>3
  <2>. QED  BY <2>1, <2>2 DEF QueuesKeepRoots
<1>. QED  BY <1>1, <1>2 DEF AcceptResize

\* A root disk that is on its server was there before the step.
LEMMA StepSparesQueues ==
    ASSUME RootsHome, QueuesKeepRoots, RootsStep, UNCHANGED queue
    PROVE  QueuesKeepRoots'
  BY RootFacts DEF QueuesKeepRoots, RootsStep

LEMMA SameApi == ASSUME UNCHANGED apiVars PROVE RootsStay
  BY DEF RootsStay, apiVars

LEMMA SameCallSparesRoots ==
    ASSUME RootsHome, RootsStep, TypeInv, NEW d \in Callers, SparesRoots(d),
           pc'[d] = pc[d], req'[d] = req[d], snap'[d] = snap[d],
           ret'[d] = ret[d] \/ ret'[d] = NoRet
    PROVE  SparesRoots(d)'
<1>1. pc[d] = "write" => req[d].server \in Servers
  BY DEF TypeInv, CallOK
<1>2. pc[d] = "write" => StatesRoot(d, req[d].server)'
  BY <1>1, RootFacts DEF SparesRoots, StatesRoot, RootsStep
<1>. QED  BY <1>2 DEF SparesRoots, NoRet

\* What a step of c leaves to show: what the appliance is asked to do, and the
\* call itself. The others' calls are as they were.
Others(c) ==
    \A d \in Callers : d # c => /\ pc'[d] = pc[d] /\ req'[d] = req[d]
                               /\ snap'[d] = snap[d] /\ ret'[d] = ret[d]

LEMMA OwnStepSparesRoots ==
    ASSUME TypeInv, RootSafe, NEW c \in Callers, RootsStep, QueuesKeepRoots',
           Others(c), SparesRoots(c)'
    PROVE  RootSafe'
<1>1. ASSUME NEW d \in Callers, d # c  PROVE SparesRoots(d)'
  BY <1>1, SameCallSparesRoots DEF Others, RootSafe
<1>. QED  BY <1>1, StepKeepsHome DEF RootSafe

LEMMA ReturnSparesRoots ==
    ASSUME TypeInv, NEW c \in Callers, NEW r,
           r.ok /\ req[c].op = "Ensure" => r.vol \notin Roots, Return(c, r)
    PROVE  Others(c) /\ SparesRoots(c)'
  BY DEF Return, Goto, Others, SparesRoots, TypeInv, TypeOK, ClientTypeOK

LEMMA FailSparesRoots ==
    ASSUME TypeInv, NEW c \in Callers, Fail(c)
    PROVE  Others(c) /\ SparesRoots(c)'
  BY ReturnSparesRoots DEF Fail, NoRet

LEMMA OkSparesRoots ==
    ASSUME TypeInv, NEW c \in Callers, NEW v, NEW s,
           req[c].op = "Ensure" => v \notin Roots, Ok(c, v, s)
    PROVE  Others(c) /\ SparesRoots(c)'
  BY ReturnSparesRoots DEF Ok

LEMMA KeepSnapSparesRoots ==
    ASSUME TypeInv, RootSafe, NEW c \in Callers, pc[c] = "read", UNCHANGED apiVars,
           NEW v, v \notin Roots, KeepSnap(c, v)
    PROVE  Others(c) /\ SparesRoots(c)'
<1>1. req[c].server \in Servers
  BY DEF TypeInv, CallOK
<1>2. place[RootOf[req[c].server]] = req[c].server
      => Volumes(req[c].server)[RootOf[req[c].server]] = RootAttr
  BY <1>1, RootFacts DEF RootSafe, RootsHome, Volumes
<1>3. /\ snap'[c] = Volumes(req[c].server)
      /\ req'[c].server = req[c].server /\ req'[c].vol = v
      /\ pc'[c] = "write" /\ place' = place
  BY DEF KeepSnap, Goto, TypeInv, TypeOK, ClientTypeOK, Reqs, apiVars
<1>4. Others(c)
  BY DEF Others, KeepSnap, Goto, TypeInv, TypeOK, ClientTypeOK
<1>. QED  BY <1>1, <1>2, <1>3, <1>4 DEF SparesRoots, StatesRoot

\* A call goes on to a step that needs nothing of it.
LEMMA GotoSparesRoots ==
    ASSUME TypeInv, NEW c \in Callers, NEW step, Goto(c, step),
           step \notin {"write", "poll", "attach", "detach", "done"},
           UNCHANGED <<req, snap, ret>>
    PROVE  Others(c) /\ SparesRoots(c)'
  BY DEF Goto, Others, SparesRoots, TypeInv, TypeOK, ClientTypeOK

LEMMA StaySparesRoots ==
    ASSUME TypeInv, RootSafe, RootsStay, NEW c \in Callers,
           UNCHANGED <<pc, req, snap, ret>>
    PROVE  Others(c) /\ SparesRoots(c)'
  BY SameCallSparesRoots, StayIsStep DEF Others, RootSafe

\* The parts of a step of a call: those of the reading steps, which leave the
\* appliance alone.
LEMMA ReadingSparesRoots ==
    ASSUME TypeInv, RootSafe, NEW c \in Callers,
           \/ Lock(c) \/ EnsureRead(c) \/ DeleteRead(c) \/ ExpandRead(c)
           \/ Poll(c) \/ FindGet(c) \/ Verify(c) \/ RequestFails(c) \/ Finish(c)
    PROVE  UNCHANGED apiVars /\ Others(c) /\ SparesRoots(c)'
<1>0. /\ pc \in [Callers -> Steps] /\ req \in [Callers -> Reqs]
      /\ place \in [VolIds -> Servers \cup {Unborn, Detached, Deleted}]
      /\ SparesRoots(c)
  BY DEF TypeInv, TypeOK, ClientTypeOK, ApiTypeOK, RootSafe
<1>a. UNCHANGED apiVars => RootsStay
  BY SameApi
<1>n. ASSUME NEW v, NEW n \in Names, v \in VolIds, attr[v].name = n
      PROVE  v \notin Roots
  BY <1>n, ApiAssumption DEF RootSafe, RootsHome, Roots, RootAttr
<1>1. CASE Lock(c)
  BY <1>1, GotoSparesRoots DEF Lock
<1>2. CASE EnsureRead(c)
  <2>1. /\ req[c].server \in Servers /\ pc[c] = "read" /\ req[c].name \in Names
    BY <1>2 DEF EnsureRead, TypeInv, CallOK
  <2>2. ASSUME NEW v \in Named(Volumes(req[c].server), req[c].name)
        PROVE  v \notin Roots
    BY <2>1, <2>2, <1>n DEF Named, Ids, Volumes
  <2>3. \/ \E v : v \notin Roots /\ Ok(c, v, req[c].server)
        \/ \E v : v \notin Roots /\ KeepSnap(c, v)
    BY <1>2, <2>2, RootFacts DEF EnsureRead
  <2>. QED
    BY <1>2, <2>1, <2>3, KeepSnapSparesRoots, OkSparesRoots DEF EnsureRead
<1>3. CASE DeleteRead(c)
  BY <1>3, KeepSnapSparesRoots, OkSparesRoots, FailSparesRoots DEF DeleteRead
<1>4. CASE ExpandRead(c)
  BY <1>4, KeepSnapSparesRoots, OkSparesRoots, FailSparesRoots DEF ExpandRead
<1>5. CASE Poll(c)
  <2>1. pc[c] = "poll" /\ req[c].vol \notin Roots /\ req[c].server \in Servers
        /\ req[c].op \in LockedOps /\ (req[c].op = "Ensure" => req[c].name \in Names)
    BY <1>0, <1>5 DEF Poll, SparesRoots, TypeInv, CallOK
  <2>2. ASSUME NEW v \in FindResized(snap[c], Volumes(req[c].server), req[c]),
               req[c].op = "Ensure"
        PROVE  v \notin Roots
    <3>1. CASE v \in Named(Volumes(req[c].server), req[c].name)
      BY <2>1, <2>2, <3>1, <1>n DEF Named, Ids, Volumes
    <3>2. CASE v \in {req[c].vol}
      BY <2>1, <3>2
    <3>3. CASE v \in FindNew(snap[c], Volumes(req[c].server), req[c].size)
      BY <3>3 DEF FindNew
    <3>. QED  BY <2>2, <3>1, <3>2, <3>3 DEF FindResized
  <2>3. \/ \E v : (req[c].op = "Ensure" => v \notin Roots) /\ Ok(c, v, req[c].server)
        \/ Fail(c)
        \/ UNCHANGED <<Local, pc, snap>>
    BY <1>5, <2>2 DEF Poll
  <2>4. UNCHANGED apiVars
    BY <1>5 DEF Poll
  <2>. QED
    BY <1>a, <2>3, <2>4, OkSparesRoots, FailSparesRoots, StaySparesRoots DEF Local
<1>6. CASE FindGet(c)
  <2>1. pc[c] = "find" /\ req[c].op # "Ensure" /\ UNCHANGED apiVars
    BY <1>6 DEF FindGet, TypeInv, CallOK
  <2>2. PICK s \in todo[c] :
          \/ Fail(c)
          \/ \E v, t : Ok(c, v, t)
          \/ /\ req[c].vol \notin Roots
             /\ req' = [req EXCEPT ![c].from = s] /\ Goto(c, "detach")
             /\ UNCHANGED <<snap, ret>>
          \/ UNCHANGED <<pc, req, snap, ret>>
    BY <1>6 DEF FindGet, Local
  <2>3. CASE /\ req[c].vol \notin Roots
             /\ req' = [req EXCEPT ![c].from = s] /\ Goto(c, "detach")
             /\ UNCHANGED <<snap, ret>>
    <3>1. req'[c].vol = req[c].vol /\ pc'[c] = "detach"
      BY <1>0, <2>3 DEF Reqs, Goto
    <3>2. Others(c)
      BY <1>0, <2>3 DEF Goto, Others
    <3>. QED  BY <2>1, <2>3, <3>1, <3>2 DEF SparesRoots
  <2>. QED
    BY <1>a, <2>1, <2>2, <2>3, OkSparesRoots, FailSparesRoots, StaySparesRoots
<1>7. CASE Verify(c)
  <2>1. pc[c] = "verify" /\ req[c].op # "Ensure" /\ UNCHANGED apiVars
    BY <1>7 DEF Verify, TypeInv, CallOK
  <2>. QED
    BY <1>a, <1>7, <2>1, OkSparesRoots, FailSparesRoots, StaySparesRoots
    DEF Verify, Local
<1>8. CASE RequestFails(c)
  BY <1>8, FailSparesRoots DEF RequestFails
<1>9. CASE Finish(c)
  BY <1>0, <1>9
  DEF Finish, Goto, Others, SparesRoots, TypeInv, TypeOK, ClientTypeOK
<1>. QED
  BY <1>1, <1>2, <1>3, <1>4, <1>5, <1>6, <1>7, <1>8, <1>9

LEMMA StepRoots ==
    ASSUME TypeInv, RootSafe, NEW c \in Callers, Step(c)
    PROVE  RootSafe' /\ RootsStep
<1>. USE DEF RootSafe
<1>0. /\ pc \in [Callers -> Steps] /\ req \in [Callers -> Reqs]
      /\ place \in [VolIds -> Servers \cup {Unborn, Detached, Deleted}]
      /\ SparesRoots(c)
  BY DEF TypeInv, TypeOK, ClientTypeOK, ApiTypeOK
<1>1. CASE \/ Lock(c) \/ EnsureRead(c) \/ DeleteRead(c) \/ ExpandRead(c)
           \/ Poll(c) \/ FindGet(c) \/ Verify(c) \/ RequestFails(c) \/ Finish(c)
  <2>1. UNCHANGED apiVars /\ Others(c) /\ SparesRoots(c)'
    BY <1>1, ReadingSparesRoots
  <2>2. RootsStep /\ QueuesKeepRoots'
    BY <2>1, SameApi, StayIsStep, StepSparesQueues DEF apiVars
  <2>. QED  BY <2>1, <2>2, OwnStepSparesRoots
<1>2. CASE Write(c)
  <2>1. req[c].server \in Servers /\ pc[c] = "write" /\ req[c].vol \notin Roots
    BY <1>0, <1>2 DEF Write, TypeInv, CallOK, SparesRoots
  <2>2. RootsStay /\ QueuesKeepRoots'
    BY <1>0, <1>2, <2>1, NextArrayType, NextArrayKeepsRoot, AcceptResizeSparesRoots
    DEF Write
  <2>3. ASSUME Goto(c, "poll"), UNCHANGED <<Local, snap, todo, tries>>
        PROVE  Others(c) /\ SparesRoots(c)'
    BY <1>0, <2>1, <2>3, SMTT(30) DEF Local, Goto, Others, SparesRoots
  <2>4. ASSUME req[c].op = "Delete", Ok(c, req[c].vol, req[c].server)
        PROVE  Others(c) /\ SparesRoots(c)'
    BY <2>4, OkSparesRoots
  <2>5. Others(c) /\ SparesRoots(c)'
    BY <1>2, <2>3, <2>4, FailSparesRoots DEF Write
  <2>. QED  BY <2>2, <2>5, StayIsStep, OwnStepSparesRoots
<1>3. CASE Detach(c)
  <2>1. /\ pc[c] = "detach" /\ req[c].op \in {"Move", "Detach"}
        /\ req[c].vol \in VolIds /\ DetachFrom(req[c].from, req[c].vol)
    BY <1>3 DEF Detach, TypeInv, CallOK
  <2>2. RootsStep
    <3>1. ASSUME NEW s \in Servers, place'[RootOf[s]] # place[RootOf[s]]
          PROVE  /\ req[c].vol = RootOf[s] /\ place[RootOf[s]] = req[c].from
                 /\ place'[RootOf[s]] = Detached
      BY <1>0, <2>1, <3>1, RootFacts DEF DetachFrom
    <3>2. ASSUME NEW s \in Servers, place'[RootOf[s]] # place[RootOf[s]]
          PROVE  req[c].from = s /\ req[c].op = "Detach"
      BY <1>0, <2>1, <3>1, <3>2, RootFacts DEF RootsHome, SparesRoots
    <3>. QED  BY <2>1, <3>1, <3>2 DEF RootsStep, DetachFrom
  <2>3. QueuesKeepRoots'
    BY <2>1, <2>2, StepSparesQueues DEF DetachFrom
  <2>4. ASSUME req[c].op = "Move", Goto(c, "attach"),
               UNCHANGED <<Local, snap, todo, tries>>
        PROVE  Others(c) /\ SparesRoots(c)'
    BY <1>0, <2>1, <2>4, SMTT(30) DEF Local, Goto, Others, SparesRoots
  <2>5. Others(c) /\ SparesRoots(c)'
    BY <1>3, <2>1, <2>4, FailSparesRoots, OkSparesRoots DEF Detach
  <2>. QED  BY <2>2, <2>3, <2>5, OwnStepSparesRoots
<1>4. CASE Attach(c)
  <2>1. /\ pc[c] = "attach" /\ req[c].vol \notin Roots
        /\ AttachTo(req[c].server, req[c].vol)
    BY <1>0, <1>4 DEF Attach, SparesRoots
  <2>2. RootsStay
    BY <1>0, <2>1, RootFacts DEF AttachTo, RootsStay
  <2>3. QueuesKeepRoots'
    BY <2>1, <2>2, StayIsStep, StepSparesQueues DEF AttachTo
  <2>4. Others(c) /\ SparesRoots(c)'
    BY <1>4, GotoSparesRoots, FailSparesRoots DEF Attach, Local
  <2>. QED  BY <2>2, <2>3, <2>4, StayIsStep, OwnStepSparesRoots
<1>. QED  BY <1>1, <1>2, <1>3, <1>4 DEF Step, Progress

LEMMA StartRoots ==
    ASSUME TypeInv, RootSafe, NEW c \in Callers, Start(c)
    PROVE  RootSafe' /\ RootsStep
<1>. USE DEF RootSafe
<1>1. ASSUME NEW r, NEW step \in {"lock", "find"}, Call(c, r, step)
      PROVE  UNCHANGED apiVars /\ Others(c) /\ SparesRoots(c)'
  BY <1>1 DEF Call, Goto, Others, SparesRoots, TypeInv, TypeOK, ClientTypeOK
<1>2. ASSUME NEW r, r.op = "Detach", Call(c, r, "detach")
      PROVE  UNCHANGED apiVars /\ Others(c) /\ SparesRoots(c)'
  BY <1>2 DEF Call, Goto, Others, SparesRoots, TypeInv, TypeOK, ClientTypeOK
<1>3. ASSUME NEW s \in Servers, NEW v \in VolIds, CallDetach(c, s, v)
      PROVE  UNCHANGED apiVars /\ Others(c) /\ SparesRoots(c)'
  <2>1. PICK r : r = [NoReq EXCEPT !.op = "Detach", !.server = s, !.from = s,
                                   !.vol = v]
    OBVIOUS
  <2>2. r.op = "Detach"
    BY <2>1 DEF NoReq
  <2>. QED  BY <1>2, <1>3, <2>1, <2>2 DEF CallDetach
<1>4. UNCHANGED apiVars /\ Others(c) /\ SparesRoots(c)'
  BY <1>1, <1>3 DEF Start, CallEnsure, CallDelete, CallExpand, CallFind, CallMove
<1>5. RootsStep /\ QueuesKeepRoots'
  BY <1>4, SameApi, StayIsStep, StepSparesQueues DEF apiVars
<1>. QED  BY <1>4, <1>5, OwnStepSparesRoots

LEMMA ApplianceRoots ==
    ASSUME TypeInv, RootSafe, Appliance
    PROVE  RootSafe' /\ RootsStep
<1>1. PICK s \in Servers : (Apply(s) \/ JobFails(s)) /\ UNCHANGED clientVars
  BY DEF Appliance
<1>2. queue[s] \in Seq(Payloads) /\ queue[s] # <<>>
  BY <1>1 DEF Apply, JobFails, TypeInv, TypeOK, ApiTypeOK
<1>3. /\ queue' = [queue EXCEPT ![s] = Tail(@)]
      /\ queue \in [Servers -> Seq(Payloads)]
  BY <1>1 DEF Apply, JobFails, TypeInv, TypeOK, ApiTypeOK
<1>4. RootsStay
  <2>1. CASE Apply(s)
    <3>1. Head(queue[s]) = queue[s][1] /\ 1 \in 1..Len(queue[s])
      BY <1>2
    <3>2. place[RootOf[s]] = s => Head(queue[s]).keep[RootOf[s]] = RootAttr
      BY <3>1 DEF RootSafe, QueuesKeepRoots
    <3>. QED  BY <2>1, <3>2, TakeEffectSparesRoots DEF Apply, RootSafe
  <2>2. CASE JobFails(s)
    BY <2>2 DEF JobFails, RootsStay
  <2>. QED  BY <1>1, <2>1, <2>2
<1>5. QueuesKeepRoots'
  <2>1. ASSUME NEW t \in Servers, place'[RootOf[t]] = t, NEW i \in 1..Len(queue'[t])
        PROVE  queue'[t][i].keep[RootOf[t]] = RootAttr
    <3>0. place[RootOf[t]] = t
      BY <1>4, <2>1 DEF RootsStay
    <3>1. CASE t # s
      BY <1>3, <2>1, <3>0, <3>1 DEF RootSafe, QueuesKeepRoots
    <3>2. CASE t = s
      <4>1. queue'[t] = Tail(queue[s])
        BY <1>3, <3>2
      <4>2. i + 1 \in 1..Len(queue[s]) /\ queue'[t][i] = queue[s][i + 1]
        BY <1>2, <2>1, <4>1
      <4>. QED  BY <3>0, <3>2, <4>2 DEF RootSafe, QueuesKeepRoots
    <3>. QED  BY <3>1, <3>2
  <2>. QED  BY <2>1 DEF QueuesKeepRoots
<1>6. RootsStep /\ RootsHome'
  BY <1>4, StayIsStep DEF RootSafe
<1>7. \A c \in Callers : SparesRoots(c)'
  BY <1>1, <1>6, SameCallSparesRoots DEF RootSafe, clientVars, callVars
<1>. QED  BY <1>5, <1>6, <1>7 DEF RootSafe

LEMMA NextRoots == TypeInv /\ RootSafe /\ [Next]_vars => RootSafe' /\ RootsStep
<1>. SUFFICES ASSUME TypeInv, RootSafe, [Next]_vars  PROVE RootSafe' /\ RootsStep
  OBVIOUS
<1>1. CASE UNCHANGED vars
  <2>1. RootsStep /\ RootsHome'
    BY <1>1, SameApi, StayIsStep DEF RootSafe, vars
  <2>2. QueuesKeepRoots'
    BY <1>1, <2>1, StepSparesQueues DEF RootSafe, vars, apiVars
  <2>3. \A c \in Callers : SparesRoots(c)'
    BY <1>1, <2>1, SameCallSparesRoots DEF RootSafe, vars, clientVars, callVars
  <2>. QED  BY <2>1, <2>2, <2>3 DEF RootSafe
<1>2. CASE Restart
  <2>1. UNCHANGED apiVars /\ \A c \in Callers : SparesRoots(c)'
    BY <1>2 DEF Restart, SparesRoots
  <2>2. RootsStep /\ RootsHome'
    BY <2>1, SameApi, StayIsStep DEF RootSafe
  <2>3. QueuesKeepRoots'
    BY <2>1, <2>2, StepSparesQueues DEF RootSafe, apiVars
  <2>. QED  BY <2>1, <2>2, <2>3 DEF RootSafe
<1>. QED  BY <1>1, <1>2, StartRoots, StepRoots, ApplianceRoots DEF Next

LEMMA InitRoots == Init => RootSafe /\ RootIntact
<1>. SUFFICES ASSUME Init PROVE RootSafe /\ RootIntact
  OBVIOUS
<1>1. ASSUME NEW s \in Servers  PROVE place[RootOf[s]] = s /\ attr[RootOf[s]] = RootAttr
  <2>1. (CHOOSE t \in Servers : RootOf[t] = RootOf[s]) = s
    BY ApiAssumption
  <2>. QED  BY <2>1, RootFacts DEF Init, ApiInit, RootAttr
<1>2. QueuesKeepRoots
  BY DEF Init, ApiInit, QueuesKeepRoots
<1>3. \A c \in Callers : SparesRoots(c)
  BY DEF Init, SparesRoots
<1>. QED  BY <1>1, <1>2, <1>3 DEF RootSafe, RootsHome, RootIntact, RootAttr

\* No interleaving of calls, failures, restarts and delayed resizes changes a
\* root disk, and only a DetachVolume that was given it takes it from its server:
\* the guards of the other calls, looked at when the array or the server was
\* read, still hold when the array or the detach takes effect.
THEOREM RootsSafe == Spec => RootMovedByDetachOnly
<1>1. RootsStep => \A s \in Servers :
          LET root == RootOf[s] IN
          /\ attr'[root] = attr[root]
          /\ place'[root] # place[root]
             => \E c \in Callers : /\ pc[c] = "detach" /\ req[c].op = "Detach"
                                   /\ req[c].vol = root /\ req[c].from = s
  BY DEF RootsStep
<1>. QED
  BY <1>1, InitRoots, NextRoots, TypeInvariant, PTL DEF Spec, RootMovedByDetachOnly

\* DetachVolume is not given a root disk.
NoRootDetached ==
    \A c \in Callers : pc[c] = "detach" /\ req[c].op = "Detach" => req[c].vol \notin Roots

LEMMA RootsStayIntact ==
    ASSUME RootIntact, NoRootDetached, RootsStep
    PROVE  RootIntact'
  BY RootFacts DEF RootIntact, NoRootDetached, RootsStep

\* Only the calls this instance makes are under way.
OpsAllowed == \A c \in Callers : pc[c] # "idle" => req[c].op \in Ops

LEMMA NextOps == TypeInv /\ OpsAllowed /\ [Next]_vars => OpsAllowed'
<1>. SUFFICES ASSUME TypeInv, OpsAllowed, [Next]_vars  PROVE OpsAllowed'
  OBVIOUS
<1>0. pc \in [Callers -> Steps] /\ req \in [Callers -> Reqs]
  BY DEF TypeInv, TypeOK, ClientTypeOK
<1>1. ASSUME NEW c \in Callers, NEW r, NEW step, Call(c, r, step)
      PROVE  OpsAllowed'
  BY <1>0, <1>1 DEF Call, Goto, OpsAllowed
<1>2. ASSUME NEW c \in Callers, Start(c)  PROVE OpsAllowed'
  BY <1>1, <1>2
  DEF Start, CallEnsure, CallDelete, CallDetach, CallExpand, CallFind, CallMove
<1>3. ASSUME NEW c \in Callers, Step(c)  PROVE OpsAllowed'
  <2>1. pc[c] # "idle" /\ (UNCHANGED pc \/ \E step \in Steps : Goto(c, step))
    BY <1>3
    DEF Step, Progress, Lock, EnsureRead, DeleteRead, ExpandRead, Write, Poll,
        FindGet, Detach, Attach, Verify, RequestFails, Finish, Ok, Fail, Return,
        KeepSnap, Local, Steps
  <2>2. \A d \in Callers : d # c => pc'[d] = pc[d]
    BY <1>0, <2>1 DEF Goto
  <2>3. ASSUME UNCHANGED req \/ \E v : \/ req' = [req EXCEPT ![c].vol = v]
                                       \/ req' = [req EXCEPT ![c].from = v]
        PROVE  OpsAllowed'
    BY <1>0, <2>1, <2>2, <2>3 DEF OpsAllowed, Reqs
  <2>4. CASE Finish(c)
    BY <1>0, <2>4 DEF Finish, Goto, OpsAllowed
  <2>5. CASE Progress(c)
    BY <2>3, <2>5
    DEF Progress, Lock, EnsureRead, DeleteRead, ExpandRead, Write, Poll,
        FindGet, Detach, Attach, Verify, RequestFails, Ok, Fail, Return,
        KeepSnap, Local
  <2>. QED  BY <1>3, <2>4, <2>5 DEF Step
<1>4. CASE Appliance \/ Restart \/ UNCHANGED vars
  BY <1>4 DEF Appliance, Restart, vars, clientVars, callVars, OpsAllowed
<1>. QED  BY <1>2, <1>3, <1>4 DEF Next

\* client.go:277-279, 317-319 and 377-379: without DetachVolume, no interleaving
\* of the other calls, failures, restarts and delayed resizes moves, deletes or
\* changes the root disk of a server.
THEOREM RootsStayAttached ==
    ASSUME "Detach" \notin Ops
    PROVE  Spec => []RootIntact
<1>. DEFINE Inv == OpsAllowed /\ RootSafe /\ RootIntact
<1>1. Init => Inv
  BY InitRoots DEF Init, NoReq, OpsAllowed
<1>2. TypeInv /\ Inv /\ [Next]_vars => Inv'
  <2>1. TypeInv /\ OpsAllowed => NoRootDetached
    BY DEF TypeInv, CallOK, OpsAllowed, NoRootDetached
  <2>. QED  BY <2>1, NextOps, NextRoots, RootsStayIntact
<1>. QED  BY <1>1, <1>2, TypeInvariant, PTL DEF Spec
=============================================================================

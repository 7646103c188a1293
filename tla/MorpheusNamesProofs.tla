------------------------- MODULE MorpheusNamesProofs -------------------------
(***************************************************************************)
(* What EnsureVolume and ExpandVolume return, under the conditions of      *)
(* MorpheusStoreProofs (locked calls, nothing deferred): a volume that is  *)
(* large enough and, when the appliance reports the requested name back,   *)
(* the one volume of that name, however often the call was cut short.      *)
(*                                                                         *)
(* The argument follows one call from its PUT to its last lookup. All that *)
(* time it holds the mutex of its server, so what its lookup can find      *)
(* (Found) is settled by its own PUT.                                      *)
(***************************************************************************)
EXTENDS MorpheusStoreProofs

USE DEF LockedOps, AllOps

\* What the next lookup of the polling loop of c can answer.
Found(c) == FindResized(snap[c], Volumes(req[c].server), req[c])

Sizing == {"Ensure", "Expand"}

\* A volume that was ever created has a size; what a lookup or an answer gives
\* has the size asked for at least.
SizesHold ==
    /\ \A v \in VolIds : attr[v].size > 0
    /\ \A c \in Callers : pc[c] = "poll" /\ req[c].op \in Sizing =>
          \A v \in Found(c) : attr[v].size >= req[c].size
    /\ \A c \in Callers : pc[c] = "done" /\ ret[c].ok /\ req[c].op \in Sizing =>
          /\ ret[c].vol \in VolIds /\ place[ret[c].vol] # Unborn
          /\ attr[ret[c].vol].size >= req[c].size

\* A named volume is on the server of its name, and the only live one of it;
\* what a lookup can answer, or EnsureVolume did, carries the name.
NamesHold ==
    /\ \A v \in VolIds : Live(v) /\ attr[v].name # NoName
          => place[v] = HomeOf[attr[v].name]
    /\ \A v, w \in VolIds : /\ Live(v) /\ Live(w)
                            /\ attr[v].name = attr[w].name /\ attr[v].name # NoName
          => v = w
    /\ \A c \in Callers : pc[c] = "poll" /\ req[c].op = "Ensure" =>
          \A v \in Found(c) : attr[v].name = req[c].name
    /\ \A n \in Names : \A v \in told[n] : place[v] # Unborn /\ attr[v].name = n

-----------------------------------------------------------------------------
(* What a PUT leaves as it was.                                            *)

LEMMA StoreTypes ==
    ASSUME StoreInv
    PROVE  /\ place \in [VolIds -> Servers \cup {Unborn, Detached, Deleted}]
           /\ attr \in [VolIds -> Attr]
           /\ \A v \in VolIds : attr[v].size \in Nat
           /\ pc \in [Callers -> Steps] /\ req \in [Callers -> Reqs]
           /\ snap \in [Callers -> Arrays] /\ ret \in [Callers -> Rets]
           /\ told \in [Names -> SUBSET VolIds]
           /\ \A c \in Callers : req[c].size \in Nat
           /\ \A s \in Servers : s \notin {Unborn, Detached, Deleted}
  BY ApiAssumption DEF StoreInv, TypeInv, TypeOK, ApiTypeOK, ClientTypeOK, Attr, Reqs

\* A lookup answers a volume of the server.
LEMMA FoundIsThere ==
    ASSUME StoreInv, NEW c \in Callers, pc[c] = "poll"
    PROVE  \A v \in Found(c) : v \in VolIds /\ place[v] = req[c].server
<1>1. \A v \in Ids(Volumes(req[c].server)) : v \in VolIds /\ place[v] = req[c].server
  BY DEF Ids, Volumes
<1>. QED  BY <1>1 DEF Found, FindResized, Named, FindNew

\* Ids are not reused, names do not change and sizes do not shrink.
LEMMA PutKeepsAttr ==
    ASSUME Serialized, StoreInv, NEW c \in Callers, Write(c),
           NEW v \in VolIds, place[v] # Unborn
    PROVE  /\ place'[v] # Unborn
           /\ attr'[v].name = attr[v].name
           /\ attr'[v].size >= attr[v].size
<1>. USE StoreTypes
<1>1. CASE DestroyStep(c)
  BY <1>1 DEF DestroyStep, Unborn, Deleted
<1>2. CASE GrowStep(c)
  <2>1. attr[req[c].vol] \in Attr \/ req[c].vol \notin VolIds
    OBVIOUS
  <2>. QED  BY <1>2, <2>1 DEF GrowStep, Attr
<1>3. CASE ProvisionStep(c)
  BY <1>3 DEF ProvisionStep, Fresh
<1>. QED  BY <1>1, <1>2, <1>3, OnePutOneVolume

\* The PUT of c is not one on a server that another call is looking at, so that
\* call goes on finding what it would have found.
LEMMA PutKeepsFound ==
    ASSUME Serialized, StoreInv, NEW c \in Callers, Write(c),
           NEW d \in Callers, d # c, pc[d] = "poll"
    PROVE  Found(d)' = Found(d)
<1>1. /\ pc[c] = "write" /\ req' = req /\ snap'[d] = snap[d]
      /\ req[c].server \in Servers /\ req[d].server \in Servers
  BY StoreTypes
  DEF Write, Ok, Fail, Return, Goto, Local, StoreInv, TypeInv, CallOK
<1>2. req[d].server # req[c].server
  BY <1>1 DEF StoreInv, LockDiscipline
<1>3. TakeEffect(req[c].server, NextArray(c))
  BY <1>1, AcceptedAtOnce DEF Write
<1>4. ASSUME NEW t \in Servers, t # req[c].server  PROVE Volumes(t)' = Volumes(t)
  BY <1>1, <1>3, <1>4, OtherServersKeep DEF StoreInv
<1>5. Volumes(req[d].server)' = Volumes(req[d].server)
  BY <1>1, <1>2, <1>4 DEF Volumes
<1>. QED  BY <1>1, <1>5 DEF Found

\* What the lookups of c will find after its PUT: the volume that was resized,
\* or the one that was created if it shows its name, or any that is large
\* enough.
LEMMA PutSettlesFound ==
    ASSUME Serialized, StoreInv, NEW c \in Callers, Write(c), pc'[c] = "poll",
           req[c].op \in Sizing, \A v \in VolIds : attr'[v].size > 0
    PROVE  /\ \A v \in Found(c)' : attr'[v].size >= req'[c].size
           /\ req[c].op = "Ensure" /\ KeepsNames
              => \A v \in Found(c)' : attr'[v].name = req'[c].name
<1>. USE StoreTypes
<1>1. /\ pc[c] = "write" /\ req' = req /\ snap' = snap
      /\ req[c].server \in Servers
      /\ req[c].op = "Ensure" => req[c].name \in Names /\ req[c].name # NoName
  BY ApiAssumption
  DEF Write, Ok, Fail, Return, Goto, Local, StoreInv, TypeInv, CallOK
<1>. DEFINE after == Volumes(req[c].server)'
<1>2. /\ Found(c)' = FindResized(snap[c], after, req[c])
      /\ \A v \in Ids(after) : v \in VolIds /\ after[v] = attr'[v]
                               /\ place'[v] = req[c].server
      /\ \A v \in VolIds : place'[v] = req[c].server => after[v] = attr'[v]
  BY <1>1 DEF Found, Ids, Volumes
<1>. HIDE DEF after
<1>3. CASE GrowStep(c)
  <2>1. /\ req[c].vol \in VolIds /\ attr[req[c].vol] \in Attr
        /\ attr' = [attr EXCEPT ![req[c].vol].size = req[c].size]
        /\ req[c].name \in {NoName, snap[c][req[c].vol].name}
        /\ place[req[c].vol] = req[c].server
    BY <1>1, <1>3 DEF GrowStep, StoreInv, Prepared, Ids
  <2>2. snap[c][req[c].vol] = attr[req[c].vol]
    <3>1. snap[c] = Volumes(req[c].server)
      BY <1>1 DEF StoreInv, ReadIsCurrent
    <3>. QED  BY <2>1, <3>1 DEF Volumes
  <2>3. /\ attr'[req[c].vol].size = req[c].size
        /\ attr'[req[c].vol].name = attr[req[c].vol].name
    BY <2>1 DEF Attr
  <2>4. Found(c)' \subseteq {req[c].vol}
    BY <1>2, <1>3 DEF GrowStep, FindResized
  <2>. QED  BY <1>1, <2>1, <2>2, <2>3, <2>4
<1>4. CASE ProvisionStep(c)
  <2>1. PICK v \in Fresh :
          /\ place' = [place EXCEPT ![v] = req[c].server]
          /\ attr' = [attr EXCEPT ![v] =
                [name |-> IF KeepsNames THEN req[c].name ELSE NoName,
                 size |-> req[c].size]]
    BY <1>4 DEF ProvisionStep
  <2>2. /\ v \in VolIds /\ place'[v] = req[c].server
        /\ attr'[v] = [name |-> IF KeepsNames THEN req[c].name ELSE NoName,
                       size |-> req[c].size]
    BY <2>1 DEF Fresh
  <2>3. \A w \in Named(after, req[c].name) : w = v
    BY <1>2, <1>4, <2>1 DEF ProvisionStep, Named
  <2>4. \A w \in FindNew(snap[c], after, req[c].size) : attr'[w].size >= req[c].size
    BY <1>2 DEF FindNew
  <2>5. Found(c)' = IF Named(after, req[c].name) # {} THEN Named(after, req[c].name)
                    ELSE FindNew(snap[c], after, req[c].size)
    BY <1>2, <1>4 DEF ProvisionStep, FindResized
  <2>6. \A w \in Found(c)' : attr'[w].size >= req[c].size
    BY <2>2, <2>3, <2>4, <2>5
  <2>7. ASSUME req[c].op = "Ensure", KeepsNames, NEW w \in Found(c)'
        PROVE  attr'[w].name = req[c].name
    <3>1. after[v] = attr'[v] /\ attr'[v].name = req[c].name /\ attr'[v] # None
      BY <1>2, <2>2, <2>7, ApiAssumption DEF Attr, Reqs
    <3>2. v \in Named(after, req[c].name)
      BY <2>2, <3>1 DEF Named, Ids
    <3>. QED  BY <2>3, <2>5, <2>7, <3>1, <3>2
  <2>. QED  BY <1>1, <2>6, <2>7
<1>5. CASE DestroyStep(c)
  BY <1>5 DEF DestroyStep, Sizing
<1>. QED  BY <1>3, <1>4, <1>5, OnePutOneVolume

-----------------------------------------------------------------------------
(* SizesHold is inductive.                                                 *)

\* A step of c that leaves the appliance alone and does not start polling.
LEMMA QuietSizes ==
    ASSUME StoreInv, SizesHold, NEW c \in Callers, UNCHANGED apiVars,
           \A d \in Callers : d # c => /\ pc'[d] = pc[d] /\ req'[d] = req[d]
                                      /\ snap'[d] = snap[d] /\ ret'[d] = ret[d],
           pc'[c] = "poll"
              => pc[c] = "poll" /\ req'[c] = req[c] /\ snap'[c] = snap[c],
           pc'[c] = "done" /\ ret'[c].ok /\ req'[c].op \in Sizing
              => /\ ret'[c].vol \in VolIds /\ place[ret'[c].vol] # Unborn
                 /\ attr[ret'[c].vol].size >= req'[c].size
    PROVE  SizesHold'
<1>1. place' = place /\ attr' = attr
  BY DEF apiVars
<1>2. ASSUME NEW d \in Callers, pc'[d] = "poll"
      PROVE  pc[d] = "poll" /\ req'[d] = req[d] /\ Found(d)' = Found(d)
  <2>1. pc[d] = "poll" /\ req'[d] = req[d] /\ snap'[d] = snap[d]
    BY <1>2
  <2>. QED  BY <1>1, <2>1 DEF Found, Volumes
<1>3. \A d \in Callers : pc'[d] = "poll" /\ req'[d].op \in Sizing =>
          \A v \in Found(d)' : attr'[v].size >= req'[d].size
  BY <1>1, <1>2 DEF SizesHold
<1>4. \A d \in Callers : pc'[d] = "done" /\ ret'[d].ok /\ req'[d].op \in Sizing =>
          /\ ret'[d].vol \in VolIds /\ place'[ret'[d].vol] # Unborn
          /\ attr'[ret'[d].vol].size >= req'[d].size
  BY <1>1 DEF SizesHold
<1>. QED  BY <1>1, <1>3, <1>4 DEF SizesHold

LEMMA ReturnSizes ==
    ASSUME StoreInv, SizesHold, NEW c \in Callers, NEW r, Return(c, r),
           UNCHANGED apiVars,
           r.ok /\ req[c].op \in Sizing
              => /\ r.vol \in VolIds /\ place[r.vol] # Unborn
                 /\ attr[r.vol].size >= req[c].size
    PROVE  SizesHold'
  BY StoreTypes, QuietSizes DEF Return, Goto

LEMMA OkSizes ==
    ASSUME StoreInv, SizesHold, NEW c \in Callers, NEW v, NEW s, Ok(c, v, s),
           UNCHANGED apiVars,
           req[c].op \in Sizing => /\ v \in VolIds /\ place[v] \in Servers
                                   /\ attr[v].size >= req[c].size
    PROVE  SizesHold'
<1>. DEFINE r == [ok |-> TRUE, vol |-> v, server |-> s, size |-> attr[v].size]
<1>1. Return(c, r) /\ r.vol = v
  BY DEF Ok
<1>. HIDE DEF r
<1>. QED  BY <1>1, StoreTypes, ReturnSizes

LEMMA FailSizes ==
    ASSUME StoreInv, SizesHold, NEW c \in Callers, Fail(c), UNCHANGED apiVars
    PROVE  SizesHold'
  BY ReturnSizes DEF Fail, NoRet

LEMMA WriteSizes ==
    ASSUME Serialized, StoreInv, SizesHold, NEW c \in Callers, Write(c)
    PROVE  SizesHold'
<1>. USE StoreTypes
<1>1. /\ pc[c] = "write" /\ req' = req /\ pc'[c] \in {"poll", "done"}
      /\ \A d \in Callers : d # c => pc'[d] = pc[d] /\ ret'[d] = ret[d]
      /\ req[c].server \in Servers
      /\ pc'[c] = "done" /\ ret'[c].ok => req[c].op = "Delete"
  BY DEF Write, Ok, Fail, Return, NoRet, Goto, Local, StoreInv, TypeInv, CallOK
<1>2. \A v \in VolIds : place[v] # Unborn => /\ place'[v] # Unborn
                                             /\ attr'[v].size >= attr[v].size
  BY PutKeepsAttr
<1>3. attr' \in [VolIds -> Attr]
  BY NextStoreInv DEF Next, Step, Progress, StoreInv, TypeInv, TypeOK, ApiTypeOK
<1>4. \A v \in VolIds : attr'[v].size > 0
  <2>1. CASE DestroyStep(c)
    BY <2>1 DEF DestroyStep, SizesHold
  <2>2. CASE GrowStep(c)
    <3>1. req[c].vol \in VolIds => attr'[req[c].vol].size > 0
      BY <1>2, <2>2 DEF GrowStep, SizesHold, Attr
    <3>. QED  BY <2>2, <3>1 DEF GrowStep, SizesHold
  <2>3. CASE ProvisionStep(c)
    <3>1. req[c].size \in Sizes /\ req[c].size > 0
      BY <1>1, <2>3, ClientAssumption DEF ProvisionStep, StoreInv, Requested
    <3>. QED  BY <2>3, <3>1 DEF ProvisionStep, Fresh, SizesHold
  <2>. QED  BY <2>1, <2>2, <2>3, OnePutOneVolume
<1>5. ASSUME NEW d \in Callers, pc'[d] = "poll", req'[d].op \in Sizing
      PROVE  \A v \in Found(d)' : attr'[v].size >= req'[d].size
  <2>1. CASE d = c
    BY <1>1, <1>4, <1>5, <2>1, PutSettlesFound
  <2>2. CASE d # c
    <3>1. pc[d] = "poll" /\ req'[d] = req[d] /\ Found(d)' = Found(d)
      BY <1>1, <1>5, <2>2, PutKeepsFound
    <3>2. \A v \in Found(d) : v \in VolIds /\ place[v] # Unborn
      BY <3>1, FoundIsThere DEF StoreInv, TypeInv, CallOK
    <3>3. \A v \in Found(d) : attr[v].size >= req[d].size
      BY <1>5, <3>1 DEF SizesHold
    <3>4. \A v \in Found(d) : attr'[v].size \in Nat
      BY <1>3, <3>2 DEF Attr
    <3>. QED  BY <1>2, <3>1, <3>2, <3>3, <3>4
  <2>. QED  BY <2>1, <2>2
<1>6. ASSUME NEW d \in Callers, pc'[d] = "done", ret'[d].ok, req'[d].op \in Sizing
      PROVE  /\ ret'[d].vol \in VolIds /\ place'[ret'[d].vol] # Unborn
             /\ attr'[ret'[d].vol].size >= req'[d].size
  <2>1. d # c
    BY <1>1, <1>6 DEF Sizing
  <2>2. /\ ret'[d] = ret[d] /\ req'[d] = req[d]
        /\ ret[d].vol \in VolIds /\ place[ret[d].vol] # Unborn
        /\ attr[ret[d].vol].size >= req[d].size
    BY <1>1, <1>6, <2>1 DEF SizesHold
  <2>3. attr'[ret[d].vol].size \in Nat
    BY <1>3, <2>2 DEF Attr
  <2>. QED  BY <1>2, <2>2, <2>3
<1>. QED  BY <1>4, <1>5, <1>6 DEF SizesHold

LEMMA StepSizes ==
    ASSUME Serialized, StoreInv, SizesHold, NEW c \in Callers, Step(c)
    PROVE  SizesHold'
<1>. USE StoreTypes
<1>1. CASE Lock(c) \/ Finish(c)
  BY <1>1, QuietSizes DEF Lock, Finish, Goto
<1>2. ASSUME NEW v, KeepSnap(c, v), UNCHANGED apiVars  PROVE SizesHold'
  BY <1>2, QuietSizes DEF KeepSnap, Goto
<1>3. ASSUME UNCHANGED <<Local, pc, snap, todo>>, UNCHANGED apiVars
      PROVE  SizesHold'
  BY <1>3, QuietSizes, ReturnSizes DEF Local, SizesHold
<1>4. CASE EnsureRead(c)
  <2>1. /\ UNCHANGED apiVars /\ req[c].server \in Servers
        /\ \A v \in Named(Volumes(req[c].server), req[c].name) :
              v \in VolIds /\ place[v] = req[c].server
    BY <1>4 DEF EnsureRead, Named, Ids, Volumes, StoreInv, TypeInv, CallOK
  <2>. QED  BY <1>2, <1>4, <2>1, OkSizes DEF EnsureRead
<1>5. CASE DeleteRead(c)
  BY <1>2, <1>5, OkSizes, FailSizes DEF DeleteRead, Sizing
<1>6. CASE ExpandRead(c)
  <2>1. /\ UNCHANGED apiVars /\ req[c].server \in Servers
        /\ \A v \in On(req[c].server) : v \in VolIds /\ place[v] = req[c].server
    BY <1>6 DEF ExpandRead, On, StoreInv, TypeInv, CallOK
  <2>. QED  BY <1>2, <1>6, <2>1, OkSizes, FailSizes DEF ExpandRead
<1>7. CASE Write(c)
  BY <1>7, WriteSizes
<1>8. CASE Poll(c)
  <2>1. /\ UNCHANGED apiVars /\ pc[c] = "poll" /\ req[c].server \in Servers
        /\ \A v \in Found(c) : v \in VolIds /\ place[v] = req[c].server
    BY <1>8, FoundIsThere DEF Poll, StoreInv, TypeInv, CallOK
  <2>2. \/ \E v \in Found(c) : Ok(c, v, req[c].server)
        \/ Fail(c)
        \/ UNCHANGED <<Local, pc, snap, todo>>
    BY <1>8 DEF Poll, Found
  <2>3. ASSUME NEW v \in Found(c), Ok(c, v, req[c].server)  PROVE SizesHold'
    <3>1. req[c].op \in Sizing => attr[v].size >= req[c].size
      BY <2>1 DEF SizesHold
    <3>. QED  BY <2>1, <2>3, <3>1, OkSizes
  <2>. QED  BY <1>3, <2>1, <2>2, <2>3, FailSizes
<1>9. CASE FindGet(c) \/ Detach(c) \/ Attach(c) \/ Verify(c)
  BY <1>9 DEF FindGet, Detach, Attach, Verify, StoreInv, OnlyLocked
<1>10. CASE RequestFails(c)
  <2>1. Fail(c) /\ UNCHANGED apiVars
    BY <1>10, Zenon DEF RequestFails
  <2>. QED  BY <1>3, <2>1, FailSizes
<1>. QED
  BY <1>1, <1>4, <1>5, <1>6, <1>7, <1>8, <1>9, <1>10 DEF Step, Progress

LEMMA StartQuiet ==
    ASSUME NEW c \in Callers, Start(c)
    PROVE  \E r, step : Call(c, r, step) /\ step \in {"lock", "find", "detach"}
  BY DEF Start, CallEnsure, CallDelete, CallDetach, CallExpand, CallFind, CallMove

LEMMA NextSizesHold ==
    ASSUME Serialized, StoreInv, SizesHold, [Next]_vars
    PROVE  SizesHold'
<1>. USE StoreTypes
<1>1. CASE UNCHANGED vars
  BY <1>1 DEF vars, apiVars, clientVars, callVars, SizesHold, Found, Volumes
<1>2. CASE Restart
  BY <1>2 DEF Restart, apiVars, SizesHold
<1>3. CASE Appliance
  BY <1>3 DEF Appliance, Apply, JobFails, StoreInv, OnlyLocked
<1>4. ASSUME NEW c \in Callers, Start(c)  PROVE SizesHold'
  <2>1. PICK r, step : Call(c, r, step) /\ step \in {"lock", "find", "detach"}
    BY <1>4, StartQuiet
  <2>. QED  BY <2>1, QuietSizes DEF Call, Goto
<1>. QED  BY <1>1, <1>2, <1>3, <1>4, StepSizes DEF Next

\* client.go:427-473 and 746-787: what EnsureVolume and ExpandVolume answer has
\* the size asked for, whatever other calls, lost answers and restarts there
\* were in between.
THEOREM ResultsAreLargeEnough ==
    ASSUME Serialized
    PROVE  Spec => []ResultIsLargeEnough
<1>1. Init => SizesHold
  BY DEF Init, ApiInit, SizesHold
<1>2. StoreInv /\ SizesHold /\ [Next]_vars => SizesHold'
  BY NextSizesHold
<1>3. SizesHold => ResultIsLargeEnough
  BY DEF SizesHold, Sizing, ResultIsLargeEnough
<1>. QED  BY <1>1, <1>2, <1>3, InitStoreInv, NextStoreInv, PTL DEF Spec

-----------------------------------------------------------------------------
(* NamesHold is inductive, when the appliance keeps the names.             *)

LEMMA QuietNames ==
    ASSUME StoreInv, NamesHold, NEW c \in Callers, UNCHANGED apiVars,
           \A d \in Callers : d # c => /\ pc'[d] = pc[d] /\ req'[d] = req[d]
                                      /\ snap'[d] = snap[d],
           pc'[c] = "poll"
              => pc[c] = "poll" /\ req'[c] = req[c] /\ snap'[c] = snap[c],
           \A n \in Names : \A v \in told'[n] :
              v \in told[n] \/ (place[v] # Unborn /\ attr[v].name = n)
    PROVE  NamesHold'
<1>1. place' = place /\ attr' = attr
  BY DEF apiVars
<1>2. ASSUME NEW d \in Callers, pc'[d] = "poll"
      PROVE  pc[d] = "poll" /\ req'[d] = req[d] /\ Found(d)' = Found(d)
  <2>1. pc[d] = "poll" /\ req'[d] = req[d] /\ snap'[d] = snap[d]
    BY <1>2
  <2>. QED  BY <1>1, <2>1 DEF Found, Volumes
<1>3. \A d \in Callers : pc'[d] = "poll" /\ req'[d].op = "Ensure" =>
          \A v \in Found(d)' : attr'[v].name = req'[d].name
  BY <1>1, <1>2 DEF NamesHold
<1>. QED  BY <1>1, <1>3 DEF NamesHold, Live

\* The same when no EnsureVolume answers.
LEMMA SilentNames ==
    ASSUME StoreInv, NamesHold, NEW c \in Callers, UNCHANGED apiVars, told' = told,
           \A d \in Callers : d # c => /\ pc'[d] = pc[d] /\ req'[d] = req[d]
                                      /\ snap'[d] = snap[d],
           pc'[c] = "poll"
              => pc[c] = "poll" /\ req'[c] = req[c] /\ snap'[c] = snap[c]
    PROVE  NamesHold'
<1>1. \A n \in Names : \A v \in told'[n] :
          v \in told[n] \/ (place[v] # Unborn /\ attr[v].name = n)
  OBVIOUS
<1>. QED  BY <1>1, QuietNames

LEMMA ReturnNames ==
    ASSUME StoreInv, NamesHold, NEW c \in Callers, NEW r, Return(c, r),
           UNCHANGED apiVars,
           r.ok /\ req[c].op = "Ensure"
              => place[r.vol] # Unborn /\ attr[r.vol].name = req[c].name
    PROVE  NamesHold'
<1>1. ASSUME NEW n \in Names, NEW v \in told'[n]
      PROVE  v \in told[n] \/ (place[v] # Unborn /\ attr[v].name = n)
  BY <1>1, StoreTypes DEF Return
<1>. QED  BY <1>1, StoreTypes, QuietNames DEF Return, Goto

LEMMA OkNames ==
    ASSUME StoreInv, NamesHold, NEW c \in Callers, NEW v, NEW s, Ok(c, v, s),
           UNCHANGED apiVars,
           req[c].op = "Ensure"
              => place[v] \in Servers /\ attr[v].name = req[c].name
    PROVE  NamesHold'
<1>. DEFINE r == [ok |-> TRUE, vol |-> v, server |-> s, size |-> attr[v].size]
<1>1. Return(c, r) /\ r.vol = v
  BY DEF Ok
<1>. HIDE DEF r
<1>. QED  BY <1>1, StoreTypes, ReturnNames

LEMMA FailNames ==
    ASSUME StoreInv, NamesHold, NEW c \in Callers, Fail(c), UNCHANGED apiVars
    PROVE  NamesHold'
  BY ReturnNames DEF Fail, NoRet

\* The volumes after a PUT: each is where its name belongs, and no name is
\* twice. A new one is created only where its name was not found.
LEMMA WriteUnique ==
    ASSUME Serialized, KeepsNames, StoreInv, NamesHold, NEW c \in Callers, Write(c)
    PROVE  /\ \A v \in VolIds : Live(v)' /\ attr'[v].name # NoName
                 => place'[v] = HomeOf[attr'[v].name]
           /\ \A v, w \in VolIds :
                 /\ Live(v)' /\ Live(w)'
                 /\ attr'[v].name = attr'[w].name /\ attr'[v].name # NoName
                 => v = w
<1>. USE StoreTypes
<1>1. CASE DestroyStep(c)
  BY <1>1 DEF DestroyStep, NamesHold, Live
<1>2. CASE GrowStep(c)
  <2>1. \A v \in VolIds : attr'[v].name = attr[v].name
    BY <1>2 DEF GrowStep, Attr
  <2>. QED  BY <1>2, <2>1 DEF GrowStep, NamesHold, Live
<1>3. CASE ProvisionStep(c)
  <2>1. PICK v \in Fresh :
          /\ place' = [place EXCEPT ![v] = req[c].server]
          /\ attr' = [attr EXCEPT ![v] =
                [name |-> IF KeepsNames THEN req[c].name ELSE NoName,
                 size |-> req[c].size]]
    BY <1>3 DEF ProvisionStep
  <2>2. /\ v \in VolIds /\ ~Live(v)
        /\ place'[v] = req[c].server /\ attr'[v].name = req[c].name
        /\ \A w \in VolIds \ {v} : place'[w] = place[w] /\ attr'[w] = attr[w]
    BY <2>1 DEF Fresh, Live
  <2>3. req[c].server = HomeOf[req[c].name]
    BY <1>3 DEF ProvisionStep, Write, StoreInv, Requested
  <2>4. \A w \in VolIds : Live(w) => attr[w].name # req[c].name \/ attr[w].name = NoName
    BY <1>3, <2>3 DEF ProvisionStep, NamesHold
  <2>. QED  BY <2>2, <2>3, <2>4 DEF NamesHold, Live
<1>. QED  BY <1>1, <1>2, <1>3, OnePutOneVolume

LEMMA WriteNames ==
    ASSUME Serialized, KeepsNames, StoreInv, SizesHold, NamesHold,
           NEW c \in Callers, Write(c)
    PROVE  NamesHold'
<1>. USE StoreTypes
<1>1. /\ pc[c] = "write" /\ req' = req /\ pc'[c] \in {"poll", "done"}
      /\ \A d \in Callers : d # c => pc'[d] = pc[d]
      /\ req[c].server \in Servers
      /\ told' = told
  BY DEF Write, Ok, Fail, Return, NoRet, Goto, Local, StoreInv, TypeInv, CallOK
<1>2. \A v \in VolIds : place[v] # Unborn => /\ place'[v] # Unborn
                                             /\ attr'[v].name = attr[v].name
  BY PutKeepsAttr
<1>3. ASSUME NEW d \in Callers, pc'[d] = "poll", req'[d].op = "Ensure"
      PROVE  \A v \in Found(d)' : attr'[v].name = req'[d].name
  <2>1. CASE d = c
    <3>1. \A v \in VolIds : attr'[v].size > 0
      BY WriteSizes DEF SizesHold
    <3>. QED  BY <1>1, <1>3, <2>1, <3>1, PutSettlesFound DEF Sizing
  <2>2. CASE d # c
    <3>1. pc[d] = "poll" /\ req'[d] = req[d] /\ Found(d)' = Found(d)
      BY <1>1, <1>3, <2>2, PutKeepsFound
    <3>2. \A v \in Found(d) : v \in VolIds /\ place[v] # Unborn
      BY <3>1, FoundIsThere DEF StoreInv, TypeInv, CallOK
    <3>3. \A v \in Found(d) : attr[v].name = req[d].name
      BY <1>3, <3>1 DEF NamesHold
    <3>. QED  BY <1>2, <3>1, <3>2, <3>3
  <2>. QED  BY <2>1, <2>2
<1>4. \A n \in Names : \A v \in told'[n] : place'[v] # Unborn /\ attr'[v].name = n
  BY <1>1, <1>2 DEF NamesHold
<1>. QED  BY <1>3, <1>4, WriteUnique DEF NamesHold

LEMMA StepNames ==
    ASSUME Serialized, KeepsNames, StoreInv, SizesHold, NamesHold,
           NEW c \in Callers, Step(c)
    PROVE  NamesHold'
<1>. USE StoreTypes
<1>1. CASE Lock(c) \/ Finish(c)
  BY <1>1, SilentNames DEF Lock, Finish, Goto
<1>2. ASSUME NEW v, KeepSnap(c, v), UNCHANGED apiVars  PROVE NamesHold'
  BY <1>2, SilentNames DEF KeepSnap, Goto
<1>3. ASSUME UNCHANGED <<Local, pc, snap, todo>>, UNCHANGED apiVars
      PROVE  NamesHold'
  BY <1>3, SilentNames DEF Local
<1>4. CASE EnsureRead(c)
  <2>1. /\ UNCHANGED apiVars /\ req[c].server \in Servers
        /\ \A v \in Named(Volumes(req[c].server), req[c].name) :
              place[v] = req[c].server /\ attr[v].name = req[c].name
    BY <1>4 DEF EnsureRead, Named, Ids, Volumes, StoreInv, TypeInv, CallOK
  <2>. QED  BY <1>2, <1>4, <2>1, OkNames DEF EnsureRead
<1>5. CASE DeleteRead(c)
  BY <1>2, <1>5, OkNames, FailNames DEF DeleteRead
<1>6. CASE ExpandRead(c)
  BY <1>2, <1>6, OkNames, FailNames DEF ExpandRead
<1>7. CASE Write(c)
  BY <1>7, WriteNames
<1>8. CASE Poll(c)
  <2>1. /\ UNCHANGED apiVars /\ pc[c] = "poll" /\ req[c].server \in Servers
        /\ \A v \in Found(c) : v \in VolIds /\ place[v] = req[c].server
    BY <1>8, FoundIsThere DEF Poll, StoreInv, TypeInv, CallOK
  <2>2. \/ \E v \in Found(c) : Ok(c, v, req[c].server)
        \/ Fail(c)
        \/ UNCHANGED <<Local, pc, snap, todo>>
    BY <1>8 DEF Poll, Found
  <2>3. ASSUME NEW v \in Found(c), Ok(c, v, req[c].server)  PROVE NamesHold'
    <3>1. req[c].op = "Ensure" => attr[v].name = req[c].name
      BY <2>1 DEF NamesHold
    <3>. QED  BY <2>1, <2>3, <3>1, OkNames
  <2>. QED  BY <1>3, <2>1, <2>2, <2>3, FailNames
<1>9. CASE FindGet(c) \/ Detach(c) \/ Attach(c) \/ Verify(c)
  BY <1>9 DEF FindGet, Detach, Attach, Verify, StoreInv, OnlyLocked
<1>10. CASE RequestFails(c)
  BY <1>10, FailNames DEF RequestFails
<1>. QED
  BY <1>1, <1>4, <1>5, <1>6, <1>7, <1>8, <1>9, <1>10 DEF Step, Progress

LEMMA NextNamesHold ==
    ASSUME Serialized, KeepsNames, StoreInv, SizesHold, NamesHold, [Next]_vars
    PROVE  NamesHold'
<1>. USE StoreTypes
<1>1. CASE UNCHANGED vars
  BY <1>1 DEF vars, apiVars, clientVars, callVars, NamesHold, Live, Found, Volumes
<1>2. CASE Restart
  BY <1>2 DEF Restart, apiVars, NamesHold, Live
<1>3. CASE Appliance
  BY <1>3 DEF Appliance, Apply, JobFails, StoreInv, OnlyLocked
<1>4. ASSUME NEW c \in Callers, Start(c)  PROVE NamesHold'
  <2>1. PICK r, step : Call(c, r, step) /\ step \in {"lock", "find", "detach"}
    BY <1>4, StartQuiet
  <2>. QED  BY <2>1, SilentNames DEF Call, Goto
<1>. QED  BY <1>1, <1>2, <1>3, <1>4, StepNames DEF Next

\* client.go:241-262 and 427-473: however often CreateVolume was cut short or repeated, and
\* by however many callers, a name never gets a second live volume, and what
\* EnsureVolume answered is that one - if the appliance reports the name.
THEOREM NamesAreUnique ==
    ASSUME Serialized, KeepsNames
    PROVE  Spec => []OneVolumePerName
<1>1. Init => SizesHold /\ NamesHold
  BY DEF Init, ApiInit, SizesHold, NamesHold
<1>2. StoreInv /\ SizesHold /\ NamesHold /\ [Next]_vars => SizesHold' /\ NamesHold'
  BY NextSizesHold, NextNamesHold
<1>3. NamesHold => OneVolumePerName
  <2>. SUFFICES ASSUME NamesHold, NEW n \in Names, NEW v \in VolIds, NEW w \in VolIds,
                       Live(v), Live(w), v \in told[n] \/ attr[v].name = n,
                       w \in told[n] \/ attr[w].name = n
                PROVE  v = w
    BY DEF OneVolumePerName
  <2>1. attr[v].name = n /\ attr[w].name = n /\ n # NoName
    BY ApiAssumption DEF NamesHold
  <2>. QED  BY <2>1 DEF NamesHold
<1>. QED  BY <1>1, <1>2, <1>3, InitStoreInv, NextStoreInv, PTL DEF Spec
=============================================================================

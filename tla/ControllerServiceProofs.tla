----------------------- MODULE ControllerServiceProofs -----------------------
(***************************************************************************)
(* Theorems about ControllerService, for every number of claims, nodes,    *)
(* servers, volumes and callers, whatever the sidecars, the Kubernetes API *)
(* and the appliance do.                                                   *)
(*                                                                         *)
(* The controller calls the client the way MorpheusClient allows it to be  *)
(* called: every step of CtrlSpec is one of Spec, or leaves the client     *)
(* alone. What is proved of Spec therefore holds of CtrlSpec.              *)
(***************************************************************************)
EXTENDS ControllerService, MorpheusClientProofs

USE DEF LockedOps, AllOps

\* The phases in which a claim has a node.
OnNode == {"publishing", "published", "unpublishing"}

\* A claim asks for one of Sizes until it has a volume, and has one from then
\* on; it has a node when it is attached to it, or may be.
ClaimOK ==
    \A n \in Names :
        /\ claim[n].phase = "pending" => claim[n].size \in Sizes /\ claim[n].vol = None
        /\ claim[n].phase # "pending" => claim[n].vol \in VolIds
        /\ claim[n].phase \in OnNode  => claim[n].node \in Nodes

\* An RPC is of a claim, which is in the phase the RPC finds it in.
RpcFits(c) ==
    /\ rpc[c].kind = None => rpc[c] = NoRpc
    /\ rpc[c].kind # None => rpc[c].name \in Names
    /\ rpc[c].current # None => rpc[c].kind = "Delete"
    /\ rpc[c].kind = "Create"    => Mine(c).phase = "pending"
    /\ rpc[c].kind = "Publish"   => Mine(c).phase = "publishing"
    /\ rpc[c].kind = "Unpublish" => Mine(c).phase = "unpublishing"
    /\ rpc[c].kind = "Delete"    => Mine(c).phase = "deleting"
    /\ rpc[c].kind = "Expand"    => Mine(c).phase # "pending"

\* There is one RPC of a kind for a claim.
OneRpcOfAKind ==
    \A c, d \in Callers :
        /\ rpc[c].kind # None /\ rpc[c].kind = rpc[d].kind
        /\ rpc[c].name = rpc[d].name
        => c = d

\* The call of the client an RPC is waiting for is the one it made.
CallIs(c, op) == req[c].op = op /\ req[c].vol = Mine(c).vol

Serves(c) ==
    /\ rpc[c].kind = None => pc[c] = "idle"
    /\ rpc[c].kind # None /\ pc[c] = "idle"
       => rpc[c].kind = "Delete" /\ rpc[c].current # None
    /\ rpc[c].kind = "Create"
       => /\ req[c].op = "Ensure" /\ req[c].name = rpc[c].name
          /\ req[c].server = HomeOf[rpc[c].name]
          /\ req[c].size = Mine(c).size
    /\ rpc[c].kind = "Publish"   => CallIs(c, "Move")
    /\ rpc[c].kind = "Unpublish" => CallIs(c, "Detach")
    /\ rpc[c].kind = "Expand"
       => CallIs(c, "Expand") /\ req[c].server = HomeOf[rpc[c].name]
    /\ rpc[c].kind = "Delete" /\ rpc[c].current = None => CallIs(c, "Find")
    /\ rpc[c].kind = "Delete" /\ rpc[c].current # None /\ pc[c] # "idle"
       => CallIs(c, "Delete") /\ req[c].server = rpc[c].current

RpcsOK == /\ \A c \in Callers : RpcFits(c) /\ Serves(c)
          /\ OneRpcOfAKind

\* A successful answer names a volume and a server.
AnswersOK ==
    \A c \in Callers : ret[c].ok => ret[c].vol \in VolIds /\ ret[c].server \in Servers

CtrlInv == TypeInv /\ CtrlTypeOK /\ ClaimOK /\ RpcsOK /\ AnswersOK

-----------------------------------------------------------------------------
(* What the steps of the client do to the calls.                           *)

\* A step of a call is one of that call alone, and does not change what the call
\* asks for; only EnsureVolume chooses its volume on the way.
OneCall(c) ==
    /\ pc[c] \notin {"idle", "done"} /\ pc'[c] # "idle"
    /\ \A d \in Callers : d # c => /\ pc'[d] = pc[d] /\ req'[d] = req[d]
                                   /\ ret'[d] = ret[d] /\ snap'[d] = snap[d]
    /\ req'[c].op = req[c].op /\ req'[c].name = req[c].name
    /\ req'[c].server = req[c].server /\ req'[c].size = req[c].size
    /\ req[c].op # "Ensure" => req'[c].vol = req[c].vol

LEMMA ProgressFacts ==
    ASSUME TypeInv, NEW c \in Callers, Progress(c)
    PROVE  OneCall(c)
<1>0. /\ pc \in [Callers -> Steps] /\ req \in [Callers -> Reqs]
      /\ ret \in [Callers -> Rets] /\ snap \in [Callers -> Arrays]
  BY DEF TypeInv, TypeOK, ClientTypeOK
<1>1. ASSUME NEW r, Return(c, r), pc[c] \notin {"idle", "done"}  PROVE OneCall(c)
  BY <1>0, <1>1 DEF Return, Goto, OneCall
<1>2. ASSUME UNCHANGED Local, UNCHANGED snap, NEW step \in Steps \ {"idle"},
             Goto(c, step) \/ UNCHANGED pc, pc[c] \notin {"idle", "done"}
      PROVE  OneCall(c)
  BY <1>0, <1>2 DEF Local, Goto, OneCall
<1>3. ASSUME NEW v, KeepSnap(c, v), pc[c] = "read",
             req[c].op # "Ensure" => v = req[c].vol
      PROVE  OneCall(c)
  <2>1. /\ req'[c] = [req[c] EXCEPT !.vol = v] /\ pc'[c] = "write"
        /\ \A d \in Callers : d # c => /\ pc'[d] = pc[d] /\ req'[d] = req[d]
                                       /\ ret'[d] = ret[d] /\ snap'[d] = snap[d]
    BY <1>0, <1>3 DEF KeepSnap, Goto
  <2>. QED  BY <1>0, <1>3, <2>1 DEF Reqs, OneCall
<1>4. CASE Lock(c)
  BY <1>0, <1>4 DEF Lock, Goto, OneCall
<1>5. CASE EnsureRead(c)
  BY <1>1, <1>3, <1>5 DEF EnsureRead, Ok
<1>6. CASE DeleteRead(c)
  BY <1>1, <1>3, <1>6 DEF DeleteRead, Ok, Fail
<1>7. CASE ExpandRead(c)
  BY <1>1, <1>3, <1>7 DEF ExpandRead, Ok, Fail
<1>8. CASE Write(c)
  BY <1>1, <1>2, <1>8 DEF Write, Ok, Fail, Steps
<1>9. CASE Poll(c)
  BY <1>1, <1>2, <1>9 DEF Poll, Ok, Fail, Steps
<1>10. CASE FindGet(c)
  <2>1. PICK s \in todo[c] :
          \/ \E r : Return(c, r)
          \/ /\ req' = [req EXCEPT ![c].from = s] /\ Goto(c, "detach")
             /\ UNCHANGED <<snap, ret>>
          \/ UNCHANGED <<Local, pc, snap>>
    BY <1>10 DEF FindGet, Ok, Fail
  <2>2. CASE /\ req' = [req EXCEPT ![c].from = s] /\ Goto(c, "detach")
             /\ UNCHANGED <<snap, ret>>
    BY <1>0, <1>10, <2>2 DEF FindGet, Goto, Reqs, OneCall
  <2>. QED  BY <1>1, <1>2, <1>10, <2>1, <2>2 DEF FindGet, Steps
<1>11. CASE Detach(c)
  BY <1>1, <1>2, <1>11 DEF Detach, Ok, Fail, Steps
<1>12. CASE Attach(c)
  BY <1>1, <1>2, <1>12 DEF Attach, Fail, Steps
<1>13. CASE Verify(c)
  BY <1>1, <1>2, <1>13 DEF Verify, Ok, Fail, Steps
<1>14. CASE RequestFails(c)
  BY <1>1, <1>14 DEF RequestFails, Fail
<1>. QED
  BY <1>4, <1>5, <1>6, <1>7, <1>8, <1>9, <1>10, <1>11, <1>12, <1>13, <1>14
  DEF Progress

\* A call that begins or a handler that takes its answer leaves the others alone.
LEMMA CallFacts ==
    ASSUME TypeInv, NEW c \in Callers, NEW r, NEW step, Call(c, r, step)
    PROVE  /\ pc[c] = "idle" /\ pc'[c] = step /\ req'[c] = r
           /\ \A d \in Callers : d # c => pc'[d] = pc[d] /\ req'[d] = req[d]
  BY DEF TypeInv, TypeOK, ClientTypeOK, Call, Goto

LEMMA FinishFacts ==
    ASSUME TypeInv, NEW c \in Callers, Finish(c)
    PROVE  /\ pc[c] = "done" /\ pc'[c] = "idle"
           /\ \A d \in Callers : d # c => pc'[d] = pc[d] /\ req'[d] = req[d]
  BY DEF TypeInv, TypeOK, ClientTypeOK, Finish, Goto

LEMMA OkAnswer ==
    ASSUME TypeInv, AnswersOK, NEW c \in Callers, NEW v \in VolIds,
           NEW s \in Servers, Ok(c, v, s)
    PROVE  AnswersOK'
  BY DEF TypeInv, TypeOK, ClientTypeOK, AnswersOK, Ok, Return

LEMMA NoAnswer ==
    ASSUME TypeInv, AnswersOK, NEW c \in Callers,
           Fail(c) \/ Finish(c) \/ UNCHANGED ret
    PROVE  AnswersOK'
  BY DEF TypeInv, TypeOK, ClientTypeOK, AnswersOK, Fail, Return, Finish, NoRet

LEMMA ProgressAnswers ==
    ASSUME TypeInv, AnswersOK, NEW c \in Callers, Progress(c)
    PROVE  AnswersOK'
<1>. USE DEF TypeInv, CallOK
<1>1. CASE Lock(c)
  BY <1>1, NoAnswer DEF Lock
<1>2. ASSUME NEW v, KeepSnap(c, v)  PROVE AnswersOK'
  BY <1>2, NoAnswer DEF KeepSnap
<1>3. CASE EnsureRead(c)
  BY <1>2, <1>3, OkAnswer DEF EnsureRead, Named, Ids
<1>4. CASE DeleteRead(c)
  BY <1>2, <1>4, OkAnswer, NoAnswer DEF DeleteRead
<1>5. CASE ExpandRead(c)
  BY <1>2, <1>5, OkAnswer, NoAnswer DEF ExpandRead
<1>6. CASE Write(c)
  BY <1>6, OkAnswer, NoAnswer DEF Write, Local
<1>7. CASE Poll(c)
  BY <1>7, OkAnswer, NoAnswer, FindResizedType DEF Poll, Local
<1>8. CASE FindGet(c)
  <2>1. todo[c] \subseteq Servers
    BY DEF TypeOK, ClientTypeOK
  <2>. QED  BY <1>8, <2>1, OkAnswer, NoAnswer DEF FindGet, Local
<1>9. CASE Detach(c)
  BY <1>9, OkAnswer, NoAnswer DEF Detach, Local
<1>10. CASE Attach(c)
  BY <1>10, NoAnswer DEF Attach, Local
<1>11. CASE Verify(c)
  BY <1>11, OkAnswer, NoAnswer DEF Verify, Local
<1>12. CASE RequestFails(c)
  BY <1>12, NoAnswer DEF RequestFails
<1>. QED
  BY <1>1, <1>3, <1>4, <1>5, <1>6, <1>7, <1>8, <1>9, <1>10, <1>11, <1>12
  DEF Progress

LEMMA NextAnswers ==
    ASSUME TypeInv, AnswersOK, [Next]_vars
    PROVE  AnswersOK'
<1>1. ASSUME NEW c \in Callers, Start(c)  PROVE AnswersOK'
  <2>1. \E r, step : Call(c, r, step)
    BY <1>1 DEF Start, CallEnsure, CallDelete, CallDetach, CallExpand, CallFind, CallMove
  <2>. QED
    BY <2>1, SMTT(30) DEF TypeInv, TypeOK, ClientTypeOK, AnswersOK, Call, NoRet
<1>2. CASE Appliance
  BY <1>2 DEF Appliance, clientVars, callVars, AnswersOK
<1>3. CASE Restart
  BY <1>3 DEF Restart, AnswersOK, NoRet
<1>4. CASE UNCHANGED vars
  BY <1>4 DEF vars, clientVars, callVars, AnswersOK
<1>. QED  BY <1>1, <1>2, <1>3, <1>4, ProgressAnswers, NoAnswer DEF Next, Step

-----------------------------------------------------------------------------
(* Every step of the controller is one the client allows.                  *)

LEMMA RpcKinds ==
    /\ SidecarOf("Create") = Provisioner /\ SidecarOf("Delete") = Provisioner
    /\ SidecarOf("Publish") = Attacher /\ SidecarOf("Unpublish") = Attacher
    /\ SidecarOf("Expand") = Resizer
<1>1. ASSUME NEW kind \in Rpcs, NEW own \in {Provisioner, Attacher, Resizer},
             kind \in own,
             \A other \in {Provisioner, Attacher, Resizer} : kind \in other => other = own
      PROVE  SidecarOf(kind) = own
  BY <1>1 DEF SidecarOf
<1>. QED  BY <1>1 DEF Rpcs, Provisioner, Attacher, Resizer

LEMMA NoneIsNoRpc ==
    None \notin {"Create", "Delete", "Publish", "Unpublish", "Expand"}
  BY ControllerAssumption DEF Rpcs, Provisioner, Attacher, Resizer

\* The types of what an RPC works with.
LEMMA ClaimTypes ==
    ASSUME CtrlInv
    PROVE  /\ rpc \in [Callers -> [kind : Rpcs \cup {None}, name : Names \cup {NoName},
                                   current : Servers \cup {None}]]
           /\ claim \in [Names -> [phase : Phases, vol : VolIds \cup {None},
                                   node : Nodes \cup {None}, size : Nat]]
           /\ None \notin VolIds \cup Servers
           /\ None \notin {"Create", "Delete", "Publish", "Unpublish", "Expand"}
           /\ \A c \in Callers : rpc[c].kind # None => rpc[c].name \in Names
  BY ApiAssumption, NoneIsNoRpc DEF CtrlInv, CtrlTypeOK, RpcsOK, RpcFits

\* A node resolves to a server, or to none.
LEMMA ResolvesToServers ==
    ASSUME NEW node \in Nodes, NEW n \in Names
    PROVE  ServerIDForNode(node, HomeOf[n]) \subseteq Servers \cup {None}
  BY ControllerAssumption, ClientAssumption
  DEF ServerIDForNode, ResolveServerIDByNodeName, Label

LEMMA CandidatesAreServers ==
    ASSUME NEW known \in SUBSET Servers, NEW S \in CandidateServerIDs(known)
    PROVE  S \in SUBSET Servers /\ known \subseteq S
<1>1. \A labels \in Labels : labels \subseteq Servers
  BY ControllerAssumption DEF Labels
<1>2. None \notin Servers
  BY ApiAssumption
<1>. QED  BY <1>1, <1>2 DEF CandidateServerIDs, UniqueNonEmpty

\* ControllerPublishVolume passes the server of the volume id as the source; it
\* is one more candidate.
LEMMA SourceIsCandidate ==
    ASSUME NEW c \in Callers, NEW s \in Servers, NEW t \in Servers, NEW v,
           NEW S \in SUBSET Servers, CallMove(c, s, t, v, S)
    PROVE  CallMove(c, None, t, v, S \cup {s})
<1>1. UniqueNonEmpty(S \cup {s, t}) = UniqueNonEmpty((S \cup {s}) \cup {None, t})
  BY DEF UniqueNonEmpty
<1>. QED  BY <1>1 DEF CallMove

LEMMA ServeIsClientStep ==
    ASSUME CtrlInv, NEW c \in Callers, Serve(c)
    PROVE  Start(c) \/ Step(c)
<1>1. CASE \/ VolumeCreated(c) \/ VolumePublished(c) \/ VolumeUnpublished(c)
           \/ DeleteLocated(c) \/ VolumeDeleted(c) \/ VolumeExpanded(c)
  BY <1>1 DEF VolumeCreated, VolumePublished, VolumeUnpublished, DeleteLocated,
              VolumeDeleted, VolumeExpanded, End, Step
<1>2. CASE DeleteCurrentRef(c)
  <2>1. rpc[c].kind = "Delete" /\ rpc[c].current \in Servers /\ rpc[c].name \in Names
    BY <1>2, ClaimTypes, ApiAssumption DEF DeleteCurrentRef
  <2>2. Mine(c).phase = "deleting"
    BY <2>1 DEF CtrlInv, RpcsOK, RpcFits
  <2>3. Mine(c).vol \in VolIds
    BY <2>1, <2>2 DEF CtrlInv, ClaimOK, Mine
  <2>. QED  BY <1>2, <2>1, <2>3 DEF DeleteCurrentRef, Start
<1>. QED  BY <1>1, <1>2 DEF Serve, Step

LEMMA CtrlStepIsClientStep ==
    ASSUME CtrlInv, [CtrlNext]_allVars
    PROVE  [Next]_vars
<1>. USE ClaimTypes
<1>0. HomeOf \in [Names -> Servers]
  BY ClientAssumption
<1>1. CASE UNCHANGED allVars
  BY <1>1 DEF allVars
<1>2. CASE CtrlRestart \/ Appliance
  BY <1>2 DEF CtrlRestart, Next
<1>3. CASE \E c \in Callers : Serve(c)
  BY <1>3, ServeIsClientStep DEF Next
<1>4. ASSUME NEW n \in Names, NEW c \in Callers, CreateVolume(c, n)  PROVE Next
  <2>1. claim[n].size \in Sizes
    BY <1>4 DEF CreateVolume, CtrlInv, ClaimOK
  <2>. QED  BY <1>4, <2>1 DEF CreateVolume, Start, Next
<1>5. ASSUME NEW n \in Names, claim[n].phase # "pending"
      PROVE  claim[n].vol \in VolIds
  BY <1>5 DEF CtrlInv, ClaimOK
<1>6. ASSUME NEW n \in Names, NEW c \in Callers, DeleteVolume(c, n)  PROVE Next
  <2>1. PICK S \in CandidateServerIDs({HomeOf[n]}) : CallFind(c, claim[n].vol, S)
    BY <1>6 DEF DeleteVolume
  <2>2. S \in SUBSET Servers /\ S # {}
    <3>1. {HomeOf[n]} \in SUBSET Servers
      BY <1>0
    <3>. QED  BY <3>1, CandidatesAreServers
  <2>3. claim[n].vol \in VolIds
    BY <1>5, <1>6 DEF DeleteVolume
  <2>. QED  BY <2>1, <2>2, <2>3 DEF Start, Next
<1>7. ASSUME NEW n \in Names, NEW node \in Nodes, NEW c \in Callers,
             ControllerPublishVolume(c, n, node)
      PROVE  Next
  <2>1. PICK target \in ServerIDForNode(node, HomeOf[n]) \ {None} :
        \E S \in CandidateServerIDs({HomeOf[n], target}) :
            CallMove(c, HomeOf[n], target, claim[n].vol, S)
    BY <1>7 DEF ControllerPublishVolume
  <2>2. target \in Servers /\ HomeOf[n] \in Servers
    BY <1>0, ResolvesToServers
  <2>3. PICK S \in CandidateServerIDs({HomeOf[n], target}) :
            CallMove(c, HomeOf[n], target, claim[n].vol, S)
    BY <2>1
  <2>4. S \in SUBSET Servers
    BY <2>2, CandidatesAreServers
  <2>5. claim[n].vol \in VolIds
    BY <1>5, <1>7 DEF ControllerPublishVolume, ToPublish
  <2>6. S \cup {HomeOf[n]} \in SUBSET Servers
    BY <2>2, <2>4
  <2>7. CallMove(c, None, target, claim[n].vol, S \cup {HomeOf[n]})
    BY <2>2, <2>3, <2>4, SourceIsCandidate
  <2>. QED  BY <2>2, <2>5, <2>6, <2>7 DEF Start, Next
<1>8. ASSUME NEW n \in Names, NEW node \in Nodes, NEW c \in Callers,
             PublishUnresolved(c, n, node)
      PROVE  UNCHANGED vars
  BY <1>8 DEF PublishUnresolved
<1>9. ASSUME NEW n \in Names, NEW c \in Callers, ControllerUnpublishVolume(c, n)
      PROVE  Next
  <2>1. claim[n].vol \in VolIds /\ claim[n].node \in Nodes
    BY <1>5, <1>9 DEF ControllerUnpublishVolume, CtrlInv, ClaimOK, OnNode
  <2>2. PICK s \in ServerIDForNode(claim[n].node, HomeOf[n]) \ {None} :
            CallDetach(c, s, claim[n].vol)
    BY <1>9 DEF ControllerUnpublishVolume
  <2>3. s \in Servers
    BY <2>1, ResolvesToServers
  <2>. QED  BY <2>1, <2>2, <2>3 DEF Start, Next
<1>10. ASSUME NEW n \in Names, NEW c \in Callers, NEW size \in Sizes,
              ControllerExpandVolume(c, n, size)
       PROVE  Next
  BY <1>0, <1>5, <1>10 DEF ControllerExpandVolume, Start, Next
<1>11. ASSUME NEW n \in Names, Forget(n)  PROVE UNCHANGED vars
  BY <1>11 DEF Forget
<1>. QED
  BY <1>1, <1>2, <1>3, <1>4, <1>6, <1>7, <1>8, <1>9, <1>10, <1>11
  DEF CtrlNext, Provision, Publish

-----------------------------------------------------------------------------
(* CtrlInv is inductive.                                                   *)

ClaimRecord == [phase : Phases, vol : VolIds \cup {None},
                node : Nodes \cup {None}, size : Nat]
RpcRecord   == [kind : Rpcs \cup {None}, name : Names \cup {NoName},
                current : Servers \cup {None}]

CtrlTypes == rpc \in [Callers -> RpcRecord] /\ claim \in [Names -> ClaimRecord]

LEMMA CtrlInvParts ==
    ASSUME TypeInv, CtrlTypes, ClaimOK, RpcsOK, AnswersOK
    PROVE  CtrlInv
  BY ApiAssumption
  DEF CtrlInv, TypeInv, CtrlTypeOK, CtrlTypes, RpcRecord, ClaimRecord, ClaimOK

LEMMA CtrlInvTypes == ASSUME CtrlInv PROVE CtrlTypes
  BY DEF CtrlInv, CtrlTypeOK, CtrlTypes, RpcRecord, ClaimRecord

\* What a claim's entry must be.
GoodClaim(k) ==
    /\ k \in ClaimRecord
    /\ k.phase = "pending" => k.size \in Sizes /\ k.vol = None
    /\ k.phase # "pending" => k.vol \in VolIds
    /\ k.phase \in OnNode  => k.node \in Nodes

LEMMA ClaimUpdated ==
    ASSUME CtrlInv, NEW n \in Names, NEW k, GoodClaim(k),
           claim' = [claim EXCEPT ![n] = k]
    PROVE  claim' \in [Names -> ClaimRecord] /\ ClaimOK'
  BY CtrlInvTypes DEF CtrlInv, CtrlTypes, ClaimOK, GoodClaim

\* Nothing happens to the claim of d that its RPC would notice.
Undisturbed(d) ==
    rpc[d].kind # None =>
        /\ claim'[rpc[d].name].vol = claim[rpc[d].name].vol
        /\ \/ claim'[rpc[d].name].phase = claim[rpc[d].name].phase
           \/ rpc[d].kind = "Expand" /\ claim'[rpc[d].name].phase # "pending"
        /\ rpc[d].kind = "Create"
           => claim'[rpc[d].name].size = claim[rpc[d].name].size

SameRequest(d) ==
    /\ req'[d].op = req[d].op /\ req'[d].name = req[d].name
    /\ req'[d].server = req[d].server /\ req'[d].size = req[d].size
    /\ req[d].op # "Ensure" => req'[d].vol = req[d].vol

LEMMA RpcKept ==
    ASSUME NEW d \in Callers, RpcFits(d), Serves(d), rpc'[d] = rpc[d],
           pc'[d] = "idle" <=> pc[d] = "idle", SameRequest(d), Undisturbed(d)
    PROVE  RpcFits(d)' /\ Serves(d)'
<1>1. RpcFits(d)'
  BY NoneIsNoRpc DEF RpcFits, Undisturbed, Mine
<1>2. Serves(d)'
  BY NoneIsNoRpc DEF RpcFits, Serves, Undisturbed, SameRequest, CallIs, Mine
<1>. QED  BY <1>1, <1>2

\* c begins, goes on or ends; the others do not notice.
LEMMA RpcsKept ==
    ASSUME CtrlInv, NEW c \in Callers, RpcFits(c)', Serves(c)',
           \A d \in Callers : d # c =>
              /\ rpc'[d] = rpc[d] /\ pc'[d] = pc[d] /\ req'[d] = req[d]
              /\ Undisturbed(d)
              /\ ~ /\ rpc'[c].kind # None /\ rpc[d].kind = rpc'[c].kind
                   /\ rpc[d].name = rpc'[c].name
    PROVE  RpcsOK'
<1>1. ASSUME NEW d \in Callers, d # c  PROVE RpcFits(d)' /\ Serves(d)'
  BY <1>1, RpcKept DEF CtrlInv, RpcsOK, SameRequest
<1>2. OneRpcOfAKind'
  BY DEF CtrlInv, RpcsOK, OneRpcOfAKind
<1>. QED  BY <1>1, <1>2 DEF RpcsOK

\* No RPC of the claim can be disturbed by what an RPC of that phase does.
LEMMA OnlyExpands ==
    ASSUME CtrlInv, NEW c \in Callers, rpc[c].kind \in {"Create", "Delete", "Publish", "Unpublish"},
           NEW d \in Callers, d # c, rpc[d].kind # None, rpc[d].name = rpc[c].name
    PROVE  rpc[d].kind = "Expand" /\ Mine(c).phase # "pending"
<1>1. RpcFits(c) /\ RpcFits(d) /\ Mine(d) = Mine(c)
  BY DEF CtrlInv, RpcsOK, Mine
<1>2. rpc[d].kind \in {"Create", "Delete", "Publish", "Unpublish", "Expand"}
  BY ClaimTypes DEF Rpcs, Provisioner, Attacher, Resizer
<1>3. rpc[d].kind # rpc[c].kind
  BY DEF CtrlInv, RpcsOK, OneRpcOfAKind
<1>. QED  BY <1>1, <1>2, <1>3 DEF RpcFits

LEMMA NoRpcFits ==
    ASSUME NEW c \in Callers, rpc'[c] = NoRpc, pc'[c] = "idle"
    PROVE  RpcFits(c)' /\ Serves(c)'
  BY NoneIsNoRpc DEF RpcFits, Serves, NoRpc

LEMMA EndKeeps ==
    ASSUME CtrlInv, NEW c \in Callers, NEW kind \in Rpcs, NEW k, End(c, kind, k),
           ret[c].ok => GoodClaim(k) /\ k.phase # "pending",
           ret[c].ok /\ kind # "Create" => k.vol = Mine(c).vol,
           ret[c].ok /\ kind = "Expand" => k.phase = Mine(c).phase
    PROVE  CtrlTypes' /\ ClaimOK' /\ RpcsOK'
<1>. DEFINE n == rpc[c].name
<1>. USE ClaimTypes
<1>1. /\ rpc[c].kind = kind /\ kind # None /\ n \in Names
      /\ rpc' = [rpc EXCEPT ![c] = NoRpc]
      /\ RpcFits(c)
  BY NoneIsNoRpc DEF End, CtrlInv, RpcsOK, Rpcs, Provisioner, Attacher, Resizer
<1>2. /\ rpc'[c] = NoRpc /\ NoRpc.kind = None
      /\ pc'[c] = "idle"
      /\ \A d \in Callers : d # c => /\ rpc'[d] = rpc[d]
                                     /\ pc'[d] = pc[d] /\ req'[d] = req[d]
  BY <1>1, FinishFacts DEF End, CtrlInv, NoRpc
<1>3. rpc' \in [Callers -> RpcRecord]
  BY <1>1 DEF NoRpc, RpcRecord
<1>4. claim' \in [Names -> ClaimRecord] /\ ClaimOK'
  <2>1. CASE ret[c].ok
    <3>1. claim' = [claim EXCEPT ![n] = k]
      BY <2>1 DEF End
    <3>. QED  BY <1>1, <2>1, <3>1, ClaimUpdated
  <2>2. CASE ~ret[c].ok
    BY <2>2 DEF End, CtrlInv, ClaimOK, ClaimRecord
  <2>. QED  BY <2>1, <2>2
<1>5. ASSUME NEW d \in Callers, d # c  PROVE Undisturbed(d)
  <2>1. CASE ~ret[c].ok
    BY <2>1 DEF End, Undisturbed
  <2>2. CASE rpc[d].name # n \/ rpc[d].kind = None
    BY <2>2 DEF End, Undisturbed
  <2>3. CASE ret[c].ok /\ rpc[d].name = n /\ rpc[d].kind # None
    <3>1. claim'[n] = k /\ Mine(c) = claim[n] /\ RpcFits(d)
      BY <1>1, <2>3 DEF End, Mine, CtrlInv, RpcsOK
    <3>2. CASE kind = "Expand"
      <4>1. claim[n].phase # "pending"
        BY <1>1, <3>1, <3>2 DEF RpcFits
      <4>2. rpc[d].kind # "Create"
        BY <2>3, <3>1, <4>1 DEF RpcFits, Mine
      <4>. QED  BY <2>3, <3>1, <3>2, <4>2 DEF Undisturbed
    <3>3. CASE kind # "Expand"
      <4>1. kind \in {"Create", "Delete", "Publish", "Unpublish"}
        BY <3>3 DEF Rpcs, Provisioner, Attacher, Resizer
      <4>2. rpc[d].kind = "Expand" /\ claim[n].phase # "pending"
        BY <1>1, <1>5, <2>3, <3>1, <4>1, OnlyExpands
      <4>3. kind # "Create"
        BY <1>1, <3>1, <4>2 DEF RpcFits
      <4>. QED  BY <2>3, <3>1, <4>2, <4>3 DEF Undisturbed
    <3>. QED  BY <3>2, <3>3
  <2>. QED  BY <2>1, <2>2, <2>3
<1>6. RpcsOK'
  BY <1>2, <1>5, NoRpcFits, RpcsKept
<1>. QED  BY <1>3, <1>4, <1>6 DEF CtrlTypes

LEMMA AnswersCtrl ==
    ASSUME CtrlInv, NEW c \in Callers, ret[c].ok
    PROVE  ret[c].vol \in VolIds /\ ret[c].server \in Servers /\ ret[c].size \in Nat
  BY DEF CtrlInv, AnswersOK, TypeInv, TypeOK, ClientTypeOK, Rets

\* The claim of an RPC that has a volume.
LEMMA MineIsGood ==
    ASSUME CtrlInv, NEW c \in Callers, rpc[c].kind # None
    PROVE  /\ rpc[c].name \in Names /\ GoodClaim(Mine(c))
           /\ rpc[c].kind # "Create" => Mine(c).phase # "pending"
           /\ rpc[c].kind = "Publish" => Mine(c).phase = "publishing"
           /\ rpc[c].kind = "Unpublish" => Mine(c).phase = "unpublishing"
           /\ rpc[c].kind = "Delete" => Mine(c).phase = "deleting"
<1>1. rpc[c].kind \in {"Create", "Delete", "Publish", "Unpublish", "Expand"}
  BY ClaimTypes DEF Rpcs, Provisioner, Attacher, Resizer
<1>2. RpcFits(c) /\ rpc[c].name \in Names
  BY DEF CtrlInv, RpcsOK, RpcFits
<1>3. GoodClaim(Mine(c))
  BY <1>2, CtrlInvTypes DEF Mine, GoodClaim, CtrlInv, ClaimOK, CtrlTypes
<1>. QED  BY <1>1, <1>2, <1>3 DEF RpcFits

LEMMA EndsKeep ==
    ASSUME CtrlInv, NEW c \in Callers,
           \/ VolumeCreated(c) \/ VolumePublished(c) \/ VolumeUnpublished(c)
           \/ VolumeDeleted(c) \/ VolumeExpanded(c)
    PROVE  CtrlTypes' /\ ClaimOK' /\ RpcsOK'
<1>. USE NoneIsNoRpc
<1>. DEFINE k == Mine(c)
<1>1. rpc[c].kind # None
  BY DEF VolumeCreated, VolumePublished, VolumeUnpublished, VolumeDeleted,
         VolumeExpanded, End
<1>2. GoodClaim(k) /\ k \in ClaimRecord
  BY <1>1, MineIsGood DEF GoodClaim
<1>3. /\ \A phase \in Phases : /\ [k EXCEPT !.phase = phase] \in ClaimRecord
                               /\ [k EXCEPT !.phase = phase].phase = phase
                               /\ [k EXCEPT !.phase = phase].vol = k.vol
                               /\ [k EXCEPT !.phase = phase].node = k.node
      /\ [k EXCEPT !.phase = "bound", !.node = None] \in ClaimRecord
      /\ [k EXCEPT !.phase = "bound", !.node = None].phase = "bound"
      /\ [k EXCEPT !.phase = "bound", !.node = None].vol = k.vol
      /\ "bound" \in Phases /\ "published" \in Phases /\ "gone" \in Phases
  BY <1>2 DEF ClaimRecord, Phases
<1>4. CASE VolumeCreated(c)
  <2>. DEFINE new == [k EXCEPT !.phase = "bound", !.vol = ret[c].vol]
  <2>1. ret[c].ok => GoodClaim(new) /\ new.phase # "pending"
    BY <1>2, AnswersCtrl DEF GoodClaim, ClaimRecord, Phases, OnNode
  <2>2. End(c, "Create", new)
    BY <1>4 DEF VolumeCreated
  <2>. HIDE DEF new
  <2>. QED  BY <2>1, <2>2, EndKeeps DEF Rpcs, Provisioner
<1>5. CASE VolumePublished(c)
  <2>. DEFINE new == [k EXCEPT !.phase = "published"]
  <2>1. k.phase = "publishing"
    BY <1>1, <1>5, MineIsGood DEF VolumePublished, End
  <2>2. GoodClaim(new) /\ new.phase # "pending" /\ new.vol = k.vol
    BY <1>2, <1>3, <2>1 DEF GoodClaim, OnNode
  <2>3. End(c, "Publish", new)
    BY <1>5 DEF VolumePublished
  <2>. HIDE DEF new
  <2>. QED  BY <2>2, <2>3, EndKeeps DEF Rpcs, Attacher
<1>6. CASE VolumeUnpublished(c)
  <2>. DEFINE new == [k EXCEPT !.phase = "bound", !.node = None]
  <2>1. k.phase = "unpublishing"
    BY <1>1, <1>6, MineIsGood DEF VolumeUnpublished, End
  <2>2. GoodClaim(new) /\ new.phase # "pending" /\ new.vol = k.vol
    BY <1>2, <1>3, <2>1 DEF GoodClaim, OnNode
  <2>3. End(c, "Unpublish", new)
    BY <1>6 DEF VolumeUnpublished
  <2>. HIDE DEF new
  <2>. QED  BY <2>2, <2>3, EndKeeps DEF Rpcs, Attacher
<1>7. CASE VolumeDeleted(c)
  <2>. DEFINE new == [k EXCEPT !.phase = "gone"]
  <2>1. k.phase = "deleting"
    BY <1>1, <1>7, MineIsGood DEF VolumeDeleted, End
  <2>2. GoodClaim(new) /\ new.phase # "pending" /\ new.vol = k.vol
    BY <1>2, <1>3, <2>1 DEF GoodClaim, OnNode
  <2>3. End(c, "Delete", new)
    BY <1>7 DEF VolumeDeleted
  <2>. HIDE DEF new
  <2>. QED  BY <2>2, <2>3, EndKeeps DEF Rpcs, Provisioner
<1>8. CASE VolumeExpanded(c)
  <2>. DEFINE new == [k EXCEPT !.size = ret[c].size]
  <2>1. k.phase # "pending"
    BY <1>1, <1>8, MineIsGood DEF VolumeExpanded, End
  <2>2. ret[c].ok => new \in ClaimRecord
    BY <1>2, AnswersCtrl DEF ClaimRecord
  <2>3. new.phase = k.phase /\ new.vol = k.vol /\ new.node = k.node
    BY <1>2 DEF ClaimRecord
  <2>4. ret[c].ok => GoodClaim(new) /\ new.phase # "pending"
    <3>. HIDE DEF new
    <3>. QED  BY <1>2, <2>1, <2>2, <2>3 DEF GoodClaim
  <2>5. End(c, "Expand", new)
    BY <1>8 DEF VolumeExpanded
  <2>. HIDE DEF new
  <2>. QED  BY <2>3, <2>4, <2>5, EndKeeps DEF Rpcs, Resizer
<1>. QED  BY <1>4, <1>5, <1>6, <1>7, <1>8

\* A step of a call is not noticed by any RPC.
LEMMA StepKeeps ==
    ASSUME CtrlInv, NEW c \in Callers, Progress(c), UNCHANGED ctrlVars
    PROVE  CtrlTypes' /\ ClaimOK' /\ RpcsOK'
<1>1. OneCall(c) /\ rpc' = rpc /\ claim' = claim
  BY ProgressFacts DEF CtrlInv, ctrlVars
<1>2. CtrlTypes' /\ ClaimOK'
  BY <1>1, CtrlInvTypes DEF CtrlTypes, CtrlInv, ClaimOK
<1>3. ASSUME NEW d \in Callers  PROVE RpcFits(d)' /\ Serves(d)'
  <2>1. (pc'[d] = "idle" <=> pc[d] = "idle") /\ SameRequest(d)
    BY <1>1 DEF OneCall, SameRequest
  <2>. QED  BY <1>1, <2>1, RpcKept DEF CtrlInv, RpcsOK, Undisturbed
<1>4. OneRpcOfAKind'
  BY <1>1 DEF CtrlInv, RpcsOK, OneRpcOfAKind
<1>. QED  BY <1>2, <1>3, <1>4 DEF RpcsOK

\* FindVolume has answered; the server to delete on is settled.
LEMMA LocatedKeeps ==
    ASSUME CtrlInv, NEW c \in Callers, DeleteLocated(c)
    PROVE  CtrlTypes' /\ ClaimOK' /\ RpcsOK'
<1>. USE ClaimTypes
<1>. DEFINE s == IF ret[c].ok THEN ret[c].server ELSE HomeOf[rpc[c].name]
<1>1. /\ rpc[c].kind = "Delete" /\ rpc[c].name \in Names
      /\ rpc' = [rpc EXCEPT ![c].current = s] /\ claim' = claim
      /\ RpcFits(c)
  BY DEF DeleteLocated, CtrlInv, RpcsOK
<1>2. s \in Servers /\ s # None
  BY <1>1, AnswersCtrl, ClientAssumption
<1>. HIDE DEF s
<1>3. /\ rpc'[c].kind = "Delete" /\ rpc'[c].name = rpc[c].name /\ rpc'[c].current = s
      /\ pc'[c] = "idle"
      /\ \A d \in Callers : d # c => /\ rpc'[d] = rpc[d]
                                     /\ pc'[d] = pc[d] /\ req'[d] = req[d]
  BY <1>1, FinishFacts DEF DeleteLocated, CtrlInv
<1>4. CtrlTypes' /\ ClaimOK'
  BY <1>1, <1>2, CtrlInvTypes DEF CtrlTypes, RpcRecord, CtrlInv, ClaimOK
<1>5. RpcFits(c)' /\ Serves(c)'
  BY <1>1, <1>2, <1>3 DEF RpcFits, Serves, Mine
<1>6. ASSUME NEW d \in Callers, d # c
      PROVE  Undisturbed(d) /\ ~(rpc[d].kind = "Delete" /\ rpc[d].name = rpc[c].name)
  BY <1>1, <1>6 DEF Undisturbed, CtrlInv, RpcsOK, OneRpcOfAKind
<1>7. RpcsOK'
  BY <1>3, <1>5, <1>6, RpcsKept
<1>. QED  BY <1>4, <1>7

LEMMA CurrentRefKeeps ==
    ASSUME CtrlInv, NEW c \in Callers, DeleteCurrentRef(c)
    PROVE  CtrlTypes' /\ ClaimOK' /\ RpcsOK'
<1>. USE ClaimTypes
<1>. DEFINE r == [NoReq EXCEPT !.op = "Delete", !.server = rpc[c].current,
                               !.vol = Mine(c).vol]
<1>1. /\ rpc[c].kind = "Delete" /\ rpc[c].current # None /\ RpcFits(c)
      /\ rpc' = rpc /\ claim' = claim
      /\ Call(c, r, "lock")
  BY DEF DeleteCurrentRef, CallDelete, ctrlVars, CtrlInv, RpcsOK
<1>2. r.op = "Delete" /\ r.server = rpc[c].current /\ r.vol = Mine(c).vol
  BY DEF NoReq
<1>. HIDE DEF r
<1>3. /\ pc'[c] = "lock" /\ req'[c] = r
      /\ \A d \in Callers : d # c => pc'[d] = pc[d] /\ req'[d] = req[d]
  BY <1>1, CallFacts DEF CtrlInv
<1>4. CtrlTypes' /\ ClaimOK'
  BY <1>1, CtrlInvTypes DEF CtrlTypes, CtrlInv, ClaimOK
<1>5. RpcFits(c)' /\ Serves(c)'
  BY <1>1, <1>2, <1>3 DEF RpcFits, Serves, Mine, CallIs
<1>6. ASSUME NEW d \in Callers, d # c
      PROVE  Undisturbed(d) /\ ~(rpc[d].kind = rpc[c].kind /\ rpc[d].name = rpc[c].name)
  BY <1>1, <1>6 DEF Undisturbed, CtrlInv, RpcsOK, OneRpcOfAKind
<1>7. RpcsOK'
  BY <1>1, <1>3, <1>5, <1>6, RpcsKept
<1>. QED  BY <1>4, <1>7

-----------------------------------------------------------------------------
\* An RPC begins with a call: the claim has the phase of the RPC from now on, and
\* no RPC of the claim was under way but ControllerExpandVolume.
LEMMA BeginKeeps ==
    ASSUME CtrlInv, NEW c \in Callers, NEW n \in Names, NEW kind \in Rpcs,
           Begin(c, n, kind), NEW r, NEW step, Call(c, r, step), NEW k,
           claim' = [claim EXCEPT ![n] = k], GoodClaim(k),
           k.vol = claim[n].vol, k.size = claim[n].size,
           RpcFits(c)' /\ Serves(c)',
           \A d \in Callers : rpc[d].name = n /\ rpc[d].kind # None =>
              k.phase = claim[n].phase \/ (rpc[d].kind = "Expand" /\ k.phase # "pending")
    PROVE  CtrlTypes' /\ ClaimOK' /\ RpcsOK'
<1>. USE ClaimTypes
<1>1. /\ rpc' = [rpc EXCEPT ![c] = [kind |-> kind, name |-> n, current |-> None]]
      /\ ~Busy(SidecarOf(kind), n)
      /\ pc'[c] = step /\ req'[c] = r
      /\ \A d \in Callers : d # c => pc'[d] = pc[d] /\ req'[d] = req[d]
  BY CallFacts DEF Begin, CtrlInv
<1>2. kind \in SidecarOf(kind)
  BY RpcKinds DEF Rpcs, Provisioner, Attacher, Resizer
<1>3. ASSUME NEW d \in Callers, d # c
      PROVE  rpc'[d] = rpc[d] /\ ~(rpc[d].kind = kind /\ rpc[d].name = n)
  BY <1>1, <1>2, <1>3 DEF Busy
<1>4. ASSUME NEW d \in Callers, d # c  PROVE Undisturbed(d)
  BY <1>4 DEF Undisturbed
<1>5. rpc'[c].kind = kind /\ rpc'[c].name = n
  BY <1>1
<1>6. RpcsOK'
  BY <1>1, <1>3, <1>4, <1>5, RpcsKept
<1>7. rpc' \in [Callers -> RpcRecord]
  BY <1>1, CtrlInvTypes DEF CtrlTypes, RpcRecord
<1>. QED  BY <1>6, <1>7, ClaimUpdated DEF CtrlTypes

\* What an RPC of the attacher or the provisioner can find under way.
LEMMA BusyOrExpands ==
    ASSUME CtrlInv, NEW n \in Names, NEW d \in Callers, rpc[d].name = n,
           rpc[d].kind # None
    PROVE  \/ rpc[d].kind \in Attacher /\ Busy(Attacher, n)
              /\ claim[n].phase \in {"publishing", "unpublishing"}
           \/ rpc[d].kind = "Create" /\ Busy(Provisioner, n) /\ claim[n].phase = "pending"
           \/ rpc[d].kind = "Delete" /\ Busy(Provisioner, n) /\ claim[n].phase = "deleting"
           \/ rpc[d].kind = "Expand" /\ claim[n].phase # "pending"
<1>1. rpc[d].kind \in {"Create", "Delete", "Publish", "Unpublish", "Expand"}
  BY ClaimTypes DEF Rpcs, Provisioner, Attacher, Resizer
<1>2. RpcFits(d) /\ Mine(d) = claim[n]
  BY DEF CtrlInv, RpcsOK, Mine
<1>. QED  BY <1>1, <1>2 DEF RpcFits, Busy, Attacher, Provisioner

\* The entry of a claim whose phase and node change.
Changed(n, phase, node) == [claim[n] EXCEPT !.phase = phase, !.node = node]

LEMMA PhaseChange ==
    ASSUME CtrlInv, NEW n \in Names, NEW phase \in Phases \ {"pending"},
           claim[n].phase # "pending", NEW node \in Nodes \cup {None},
           phase \in OnNode => node \in Nodes
    PROVE  /\ GoodClaim(Changed(n, phase, node))
           /\ Changed(n, phase, node).phase = phase
           /\ Changed(n, phase, node).node = node
           /\ Changed(n, phase, node).vol = claim[n].vol
           /\ Changed(n, phase, node).size = claim[n].size
<1>. DEFINE k == Changed(n, phase, node)
<1>1. claim[n] \in ClaimRecord /\ claim[n].vol \in VolIds
  BY CtrlInvTypes DEF CtrlTypes, CtrlInv, ClaimOK
<1>2. k \in ClaimRecord /\ k.phase = phase /\ k.node = node
      /\ k.vol = claim[n].vol /\ k.size = claim[n].size
  BY <1>1 DEF ClaimRecord, Changed
<1>. QED  BY <1>1, <1>2 DEF GoodClaim

\* c serves the RPC it has just begun.
LEMMA BegunFits ==
    ASSUME NEW c \in Callers, NEW n \in Names, NEW kind \in Rpcs, NEW r,
           rpc'[c] = [kind |-> kind, name |-> n, current |-> None],
           pc'[c] # "idle", req'[c] = r,
           kind = "Create"    => claim'[n].phase = "pending",
           kind = "Publish"   => claim'[n].phase = "publishing",
           kind = "Unpublish" => claim'[n].phase = "unpublishing",
           kind = "Delete"    => claim'[n].phase = "deleting",
           kind = "Expand"    => claim'[n].phase # "pending",
           kind = "Create" => /\ r.op = "Ensure" /\ r.name = n
                              /\ r.server = HomeOf[n] /\ r.size = claim'[n].size,
           kind # "Create" => r.vol = claim'[n].vol,
           kind = "Publish" => r.op = "Move",
           kind = "Unpublish" => r.op = "Detach",
           kind = "Delete" => r.op = "Find",
           kind = "Expand" => r.op = "Expand" /\ r.server = HomeOf[n]
    PROVE  RpcFits(c)' /\ Serves(c)'
<1>1. kind # None /\ kind \in {"Create", "Delete", "Publish", "Unpublish", "Expand"}
  BY NoneIsNoRpc DEF Rpcs, Provisioner, Attacher, Resizer
<1>2. RpcFits(c)'
  BY <1>1 DEF RpcFits, Mine
<1>3. Serves(c)'
  BY <1>1 DEF Serves, CallIs, Mine
<1>. QED  BY <1>2, <1>3

LEMMA CreateKeeps ==
    ASSUME CtrlInv, NEW c \in Callers, NEW n \in Names, CreateVolume(c, n)
    PROVE  CtrlTypes' /\ ClaimOK' /\ RpcsOK'
<1>. DEFINE r == [NoReq EXCEPT !.op = "Ensure", !.server = HomeOf[n],
                               !.name = n, !.size = claim[n].size]
<1>1. /\ Call(c, r, "lock") /\ Begin(c, n, "Create") /\ claim' = claim
      /\ claim[n].phase = "pending"
  BY DEF CreateVolume, CallEnsure
<1>2. /\ r.op = "Ensure" /\ r.server = HomeOf[n] /\ r.name = n
      /\ r.size = claim[n].size
  BY DEF NoReq
<1>. HIDE DEF r
<1>3. pc'[c] = "lock" /\ req'[c] = r
      /\ rpc'[c] = [kind |-> "Create", name |-> n, current |-> None]
  BY <1>1, CallFacts, ClaimTypes DEF CtrlInv, Begin
<1>4. "Create" \in Rpcs /\ RpcFits(c)' /\ Serves(c)'
  <2>1. "Create" \in Rpcs
    BY DEF Rpcs, Provisioner
  <2>. QED  BY <1>1, <1>2, <1>3, <2>1, BegunFits
<1>5. claim' = [claim EXCEPT ![n] = claim[n]] /\ GoodClaim(claim[n])
  BY <1>1, CtrlInvTypes DEF CtrlInv, ClaimOK, GoodClaim, CtrlTypes
<1>. QED  BY <1>1, <1>4, <1>5, BeginKeeps

LEMMA PublishKeeps ==
    ASSUME CtrlInv, NEW c \in Callers, NEW n \in Names, NEW node \in Nodes,
           ControllerPublishVolume(c, n, node)
    PROVE  CtrlTypes' /\ ClaimOK' /\ RpcsOK'
<1>1. PICK target \in ServerIDForNode(node, HomeOf[n]) \ {None} :
      \E S \in CandidateServerIDs({HomeOf[n], target}) :
          CallMove(c, HomeOf[n], target, claim[n].vol, S)
  BY DEF ControllerPublishVolume
<1>. DEFINE r == [NoReq EXCEPT !.op = "Move", !.server = target, !.vol = claim[n].vol]
<1>. DEFINE k == Changed(n, "publishing", node)
<1>2. Call(c, r, "find") /\ Begin(c, n, "Publish")
  BY <1>1 DEF CallMove, ControllerPublishVolume
<1>3. r.op = "Move" /\ r.vol = claim[n].vol
  BY DEF NoReq
<1>4. claim' = [claim EXCEPT ![n] = k] /\ claim[n].phase \in {"bound", "publishing"}
  BY ClaimTypes DEF ControllerPublishVolume, ToPublish, Publishing, Changed
<1>. HIDE DEF r
<1>5. /\ GoodClaim(k) /\ k.phase = "publishing"
      /\ k.vol = claim[n].vol /\ k.size = claim[n].size
  <2>1. "publishing" \in Phases \ {"pending"} /\ claim[n].phase # "pending"
        /\ node \in Nodes \cup {None}
        /\ ("publishing" \in OnNode => node \in Nodes)
    BY <1>4 DEF Phases, OnNode
  <2>. QED  BY <2>1, PhaseChange
<1>. HIDE DEF k
<1>6. pc'[c] = "find" /\ req'[c] = r /\ claim'[n] = k
      /\ rpc'[c] = [kind |-> "Publish", name |-> n, current |-> None]
  BY <1>2, <1>4, CallFacts, ClaimTypes DEF CtrlInv, Begin
<1>7. "Publish" \in Rpcs /\ RpcFits(c)' /\ Serves(c)'
  <2>1. "Publish" \in Rpcs
    BY DEF Rpcs, Attacher
  <2>. QED  BY <1>3, <1>5, <1>6, <2>1, BegunFits
<1>8. \A d \in Callers : rpc[d].name = n /\ rpc[d].kind # None =>
          k.phase = claim[n].phase \/ (rpc[d].kind = "Expand" /\ k.phase # "pending")
  <2>1. ~Busy(Attacher, n)
    BY <1>2, RpcKinds DEF Begin
  <2>. QED  BY <1>4, <1>5, <2>1, BusyOrExpands
<1>. QED  BY <1>2, <1>4, <1>5, <1>7, <1>8, BeginKeeps

LEMMA UnpublishKeeps ==
    ASSUME CtrlInv, NEW c \in Callers, NEW n \in Names,
           ControllerUnpublishVolume(c, n)
    PROVE  CtrlTypes' /\ ClaimOK' /\ RpcsOK'
<1>1. PICK s \in ServerIDForNode(claim[n].node, HomeOf[n]) \ {None} :
          CallDetach(c, s, claim[n].vol)
  BY DEF ControllerUnpublishVolume
<1>. DEFINE r == [NoReq EXCEPT !.op = "Detach", !.server = s, !.from = s,
                               !.vol = claim[n].vol]
<1>. DEFINE k == Changed(n, "unpublishing", claim[n].node)
<1>2. Call(c, r, "detach") /\ Begin(c, n, "Unpublish")
  BY <1>1 DEF CallDetach, ControllerUnpublishVolume
<1>3. r.op = "Detach" /\ r.vol = claim[n].vol
  BY DEF NoReq
<1>4. claim[n].phase \in OnNode /\ claim[n].node \in Nodes
  BY DEF ControllerUnpublishVolume, OnNode, CtrlInv, ClaimOK
<1>5. claim' = [claim EXCEPT ![n] = k]
  BY ClaimTypes DEF ControllerUnpublishVolume, Changed
<1>. HIDE DEF r
<1>6. /\ GoodClaim(k) /\ k.phase = "unpublishing"
      /\ k.vol = claim[n].vol /\ k.size = claim[n].size
  <2>1. "unpublishing" \in Phases \ {"pending"} /\ claim[n].phase # "pending"
        /\ claim[n].node \in Nodes \cup {None}
        /\ ("unpublishing" \in OnNode => claim[n].node \in Nodes)
    BY <1>4 DEF Phases, OnNode
  <2>. QED  BY <2>1, PhaseChange
<1>. HIDE DEF k
<1>7. pc'[c] = "detach" /\ req'[c] = r /\ claim'[n] = k
      /\ rpc'[c] = [kind |-> "Unpublish", name |-> n, current |-> None]
  BY <1>2, <1>5, CallFacts, ClaimTypes DEF CtrlInv, Begin
<1>8. "Unpublish" \in Rpcs /\ RpcFits(c)' /\ Serves(c)'
  <2>1. "Unpublish" \in Rpcs
    BY DEF Rpcs, Attacher
  <2>. QED  BY <1>3, <1>6, <1>7, <2>1, BegunFits
<1>9. \A d \in Callers : rpc[d].name = n /\ rpc[d].kind # None =>
          k.phase = claim[n].phase \/ (rpc[d].kind = "Expand" /\ k.phase # "pending")
  <2>1. ~Busy(Attacher, n)
    BY <1>2, RpcKinds DEF Begin
  <2>. QED  BY <1>4, <1>6, <2>1, BusyOrExpands DEF OnNode
<1>. QED  BY <1>2, <1>5, <1>6, <1>8, <1>9, BeginKeeps

LEMMA DeleteKeeps ==
    ASSUME CtrlInv, NEW c \in Callers, NEW n \in Names, DeleteVolume(c, n)
    PROVE  CtrlTypes' /\ ClaimOK' /\ RpcsOK'
<1>. DEFINE r == [NoReq EXCEPT !.op = "Find", !.vol = claim[n].vol]
<1>. DEFINE k == Changed(n, "deleting", claim[n].node)
<1>1. Call(c, r, "find") /\ Begin(c, n, "Delete")
  BY DEF CallFind, DeleteVolume
<1>2. r.op = "Find" /\ r.vol = claim[n].vol
  BY DEF NoReq
<1>3. claim' = [claim EXCEPT ![n] = k] /\ claim[n].phase \in {"bound", "deleting"}
      /\ claim[n].node \in Nodes \cup {None}
  BY ClaimTypes DEF DeleteVolume, Changed
<1>. HIDE DEF r
<1>4. /\ GoodClaim(k) /\ k.phase = "deleting"
      /\ k.vol = claim[n].vol /\ k.size = claim[n].size
  <2>1. "deleting" \in Phases \ {"pending"} /\ claim[n].phase # "pending"
        /\ claim[n].node \in Nodes \cup {None}
        /\ ("deleting" \in OnNode => claim[n].node \in Nodes)
    BY <1>3 DEF Phases, OnNode
  <2>. QED  BY <2>1, PhaseChange
<1>. HIDE DEF k
<1>5. pc'[c] = "find" /\ req'[c] = r /\ claim'[n] = k
      /\ rpc'[c] = [kind |-> "Delete", name |-> n, current |-> None]
  BY <1>1, <1>3, CallFacts, ClaimTypes DEF CtrlInv, Begin
<1>6. "Delete" \in Rpcs /\ RpcFits(c)' /\ Serves(c)'
  <2>1. "Delete" \in Rpcs
    BY DEF Rpcs, Provisioner
  <2>. QED  BY <1>2, <1>4, <1>5, <2>1, BegunFits
<1>7. \A d \in Callers : rpc[d].name = n /\ rpc[d].kind # None =>
          k.phase = claim[n].phase \/ (rpc[d].kind = "Expand" /\ k.phase # "pending")
  <2>1. ~Busy(Provisioner, n)
    BY <1>1, RpcKinds DEF Begin
  <2>. QED  BY <1>3, <1>4, <2>1, BusyOrExpands
<1>. QED  BY <1>1, <1>3, <1>4, <1>6, <1>7, BeginKeeps

LEMMA ExpandKeeps ==
    ASSUME CtrlInv, NEW c \in Callers, NEW n \in Names, NEW size \in Sizes,
           ControllerExpandVolume(c, n, size)
    PROVE  CtrlTypes' /\ ClaimOK' /\ RpcsOK'
<1>. DEFINE r == [NoReq EXCEPT !.op = "Expand", !.server = HomeOf[n],
                               !.vol = claim[n].vol, !.size = size]
<1>1. /\ Call(c, r, "lock") /\ Begin(c, n, "Expand") /\ claim' = claim
      /\ claim[n].phase # "pending"
  BY DEF ControllerExpandVolume, CallExpand
<1>2. r.op = "Expand" /\ r.server = HomeOf[n] /\ r.vol = claim[n].vol
  BY DEF NoReq
<1>. HIDE DEF r
<1>3. pc'[c] = "lock" /\ req'[c] = r
      /\ rpc'[c] = [kind |-> "Expand", name |-> n, current |-> None]
  BY <1>1, CallFacts, ClaimTypes DEF CtrlInv, Begin
<1>4. "Expand" \in Rpcs /\ RpcFits(c)' /\ Serves(c)'
  <2>1. "Expand" \in Rpcs
    BY DEF Rpcs, Resizer
  <2>. QED  BY <1>1, <1>2, <1>3, <2>1, BegunFits
<1>5. claim' = [claim EXCEPT ![n] = claim[n]] /\ GoodClaim(claim[n])
  BY <1>1, CtrlInvTypes DEF CtrlInv, ClaimOK, GoodClaim, CtrlTypes
<1>. QED  BY <1>1, <1>4, <1>5, BeginKeeps

\* Phase and node of a claim change while no RPC of the attacher is under way.
LEMMA UnservedKeeps ==
    ASSUME CtrlInv, NEW n \in Names, NEW node \in Nodes,
           \E c \in Callers : PublishUnresolved(c, n, node)
    PROVE  CtrlTypes' /\ ClaimOK' /\ RpcsOK'
<1>. DEFINE k == Changed(n, "publishing", node)
<1>1. /\ claim' = [claim EXCEPT ![n] = k] /\ UNCHANGED <<vars, rpc>>
      /\ ~Busy(Attacher, n) /\ claim[n].phase \in {"bound", "publishing"}
  BY ClaimTypes DEF PublishUnresolved, ToPublish, Publishing, Changed
<1>2. GoodClaim(k) /\ k.phase = "publishing" /\ k.vol = claim[n].vol
  <2>1. "publishing" \in Phases \ {"pending"} /\ claim[n].phase # "pending"
    BY <1>1 DEF Phases
  <2>. QED  BY <2>1, PhaseChange
<1>. HIDE DEF k
<1>3. CtrlTypes' /\ ClaimOK'
  BY <1>1, <1>2, CtrlInvTypes, ClaimUpdated DEF CtrlTypes
<1>4. ASSUME NEW d \in Callers  PROVE RpcFits(d)' /\ Serves(d)'
  <2>1. Undisturbed(d)
    BY <1>1, <1>2, BusyOrExpands, ClaimTypes DEF Undisturbed
  <2>. QED  BY <1>1, <2>1, RpcKept
       DEF vars, clientVars, callVars, SameRequest, CtrlInv, RpcsOK
<1>5. OneRpcOfAKind'
  BY <1>1 DEF CtrlInv, RpcsOK, OneRpcOfAKind
<1>. QED  BY <1>3, <1>4, <1>5 DEF RpcsOK

LEMMA ForgetKeeps ==
    ASSUME CtrlInv, NEW n \in Names, Forget(n)
    PROVE  CtrlTypes' /\ ClaimOK' /\ RpcsOK'
<1>. DEFINE k == Changed(n, "bound", None)
<1>1. /\ claim' = [claim EXCEPT ![n] = k] /\ UNCHANGED <<vars, rpc>>
      /\ ~Busy(Attacher, n) /\ claim[n].phase \in OnNode
  BY ClaimTypes DEF Forget, Changed, OnNode
<1>2. GoodClaim(k) /\ k.phase = "bound" /\ k.vol = claim[n].vol
  <2>1. "bound" \in Phases \ {"pending"} /\ claim[n].phase # "pending" /\ "bound" \notin OnNode
    BY <1>1 DEF Phases, OnNode
  <2>. QED  BY <2>1, PhaseChange
<1>. HIDE DEF k
<1>3. CtrlTypes' /\ ClaimOK'
  BY <1>1, <1>2, CtrlInvTypes, ClaimUpdated DEF CtrlTypes
<1>4. ASSUME NEW d \in Callers  PROVE RpcFits(d)' /\ Serves(d)'
  <2>1. Undisturbed(d)
    BY <1>1, <1>2, BusyOrExpands, ClaimTypes DEF Undisturbed, OnNode
  <2>. QED  BY <1>1, <2>1, RpcKept
       DEF vars, clientVars, callVars, SameRequest, CtrlInv, RpcsOK
<1>5. OneRpcOfAKind'
  BY <1>1 DEF CtrlInv, RpcsOK, OneRpcOfAKind
<1>. QED  BY <1>3, <1>4, <1>5 DEF RpcsOK

LEMMA InitCtrlInv == CtrlInit => CtrlInv
<1>. SUFFICES ASSUME CtrlInit  PROVE CtrlInv
  OBVIOUS
<1>1. TypeInv
  BY InitTypeInv DEF CtrlInit
<1>2. AnswersOK
  BY DEF CtrlInit, Init, NoRet, AnswersOK
<1>3. PICK wanted \in [Names -> Sizes] :
          claim = [n \in Names |-> [phase |-> "pending", vol |-> None,
                                    node |-> None, size |-> wanted[n]]]
  BY DEF CtrlInit
<1>4. CtrlTypes /\ ClaimOK
  BY <1>3, ClientAssumption
  DEF CtrlInit, CtrlTypes, RpcRecord, ClaimRecord, NoRpc, Phases, ClaimOK, OnNode
<1>5. ASSUME NEW c \in Callers  PROVE RpcFits(c) /\ Serves(c)
  BY NoneIsNoRpc DEF CtrlInit, Init, RpcFits, Serves, NoRpc
<1>6. OneRpcOfAKind
  BY DEF CtrlInit, OneRpcOfAKind, NoRpc
<1>. QED  BY <1>1, <1>2, <1>4, <1>5, <1>6, CtrlInvParts DEF RpcsOK

Kept == CtrlTypes' /\ ClaimOK' /\ RpcsOK'

LEMMA CtrlNextKeeps ==
    ASSUME CtrlInv, [CtrlNext]_allVars
    PROVE  Kept
<1>1. CASE \E c \in Callers : Serve(c)
  BY <1>1, EndsKeep, StepKeeps, LocatedKeeps, CurrentRefKeeps DEF Serve, Kept
<1>2. ASSUME NEW n \in Names, Provision(n)  PROVE Kept
  BY <1>2, CreateKeeps, DeleteKeeps DEF Provision, Kept
<1>3. ASSUME NEW n \in Names, NEW node \in Nodes, Publish(n, node)  PROVE Kept
  BY <1>3, PublishKeeps, UnservedKeeps DEF Publish, Kept
<1>4. ASSUME NEW n \in Names,
             \/ \E c \in Callers : \/ ControllerUnpublishVolume(c, n)
                                   \/ \E size \in Sizes :
                                         ControllerExpandVolume(c, n, size)
             \/ Forget(n)
      PROVE  Kept
  BY <1>4, UnpublishKeeps, ExpandKeeps, ForgetKeeps DEF Kept
<1>5. CASE UNCHANGED allVars \/ (Appliance /\ UNCHANGED ctrlVars)
  <2>1. UNCHANGED <<callVars, rpc, claim>>
    BY <1>5 DEF allVars, ctrlVars, vars, clientVars, Appliance
  <2>2. CtrlTypes' /\ ClaimOK'
    BY <2>1, CtrlInvTypes DEF CtrlTypes, CtrlInv, ClaimOK
  <2>3. ASSUME NEW d \in Callers  PROVE RpcFits(d)' /\ Serves(d)'
    BY <2>1, RpcKept DEF callVars, SameRequest, Undisturbed, CtrlInv, RpcsOK
  <2>4. OneRpcOfAKind'
    BY <2>1 DEF CtrlInv, RpcsOK, OneRpcOfAKind
  <2>. QED  BY <2>2, <2>3, <2>4 DEF RpcsOK, Kept
<1>6. CASE CtrlRestart
  <2>1. /\ rpc' = [c \in Callers |-> NoRpc] /\ claim' = claim
        /\ pc' = [c \in Callers |-> "idle"]
    BY <1>6 DEF CtrlRestart, Restart
  <2>2. CtrlTypes' /\ ClaimOK'
    BY <2>1, CtrlInvTypes DEF CtrlTypes, RpcRecord, NoRpc, CtrlInv, ClaimOK
  <2>3. \A d \in Callers : RpcFits(d)' /\ Serves(d)'
    BY <2>1, NoRpcFits
  <2>4. OneRpcOfAKind'
    BY <2>1 DEF OneRpcOfAKind, NoRpc
  <2>. QED  BY <2>2, <2>3, <2>4 DEF RpcsOK, Kept
<1>. QED  BY <1>1, <1>2, <1>3, <1>4, <1>5, <1>6 DEF CtrlNext

LEMMA NextCtrlInv == CtrlInv /\ [CtrlNext]_allVars => CtrlInv'
<1>. SUFFICES ASSUME CtrlInv, [CtrlNext]_allVars  PROVE CtrlInv'
  OBVIOUS
<1>1. [Next]_vars
  BY CtrlStepIsClientStep
<1>2. TypeInv' /\ AnswersOK'
  BY <1>1, NextTypeInv, NextAnswers DEF CtrlInv
<1>3. Kept
  BY CtrlNextKeeps
<1>. QED
  BY <1>2, <1>3, ApiAssumption
  DEF Kept, CtrlInv, TypeInv, CtrlTypeOK, CtrlTypes, RpcRecord, ClaimRecord, ClaimOK

\* controller.go:27-190: whatever the sidecars ask for and in whatever order,
\* the RPCs call the client only the way it is made to be called: every step is a
\* step of Spec, or leaves the client and the appliance alone.
THEOREM ControllerUsesClient == CtrlSpec => Spec
<1>1. CtrlInit => Init
  BY DEF CtrlInit
<1>2. CtrlInv /\ [CtrlNext]_allVars => [Next]_vars
  BY CtrlStepIsClientStep
<1>. QED  BY <1>1, <1>2, InitCtrlInv, NextCtrlInv, PTL DEF CtrlSpec, Spec

\* controller.go:27-190: every RPC works with a volume, a server and a node it
\* has, and an answer that is taken for a success names a volume.
THEOREM CtrlTypeCorrect == CtrlSpec => []CtrlTypeOK
<1>1. CtrlInv => CtrlTypeOK
  BY DEF CtrlInv
<1>. QED  BY <1>1, InitCtrlInv, NextCtrlInv, PTL DEF CtrlSpec

-----------------------------------------------------------------------------
\* No claim was given a root disk; nothing else is passed to DetachVolume.
ClaimsSpareRoots == \A n \in Names : claim[n].vol \notin Roots

LEMMA ClaimsDetachNoRoot ==
    ASSUME CtrlInv, ClaimsSpareRoots
    PROVE  NoRootDetached
<1>. SUFFICES ASSUME NEW c \in Callers, pc[c] = "detach", req[c].op = "Detach"
              PROVE  req[c].vol \notin Roots
  BY DEF NoRootDetached
<1>1. rpc[c].kind \in {"Create", "Delete", "Publish", "Unpublish", "Expand", None}
      /\ Serves(c)
  BY ClaimTypes DEF Rpcs, Provisioner, Attacher, Resizer, CtrlInv, RpcsOK
<1>2. rpc[c].kind # None /\ req[c].vol = Mine(c).vol
  BY <1>1, NoneIsNoRpc DEF Serves, CallIs
<1>. QED  BY <1>2, ClaimTypes DEF ClaimsSpareRoots, Mine

LEMMA EndSparesRoots ==
    ASSUME CtrlInv, ClaimsSpareRoots, NEW c \in Callers, NEW kind \in Rpcs, NEW k,
           End(c, kind, k), ret[c].ok => k.vol \notin Roots
    PROVE  ClaimsSpareRoots'
  BY ClaimTypes DEF End, ClaimsSpareRoots

\* ControllerUnpublishVolume and the others change phases, nodes and sizes.
LEMMA NextClaimsSpareRoots ==
    ASSUME CtrlInv, RootSafe, ClaimsSpareRoots, [CtrlNext]_allVars
    PROVE  ClaimsSpareRoots'
<1>. USE ClaimTypes
<1>1. ASSUME NEW c \in Callers, VolumeCreated(c)  PROVE ClaimsSpareRoots'
  <2>1. rpc[c].kind = "Create" /\ pc[c] = "done" /\ Serves(c) /\ SparesRoots(c)
    BY <1>1 DEF VolumeCreated, End, Finish, CtrlInv, RpcsOK, RootSafe
  <2>2. ret[c].ok => ret[c].vol \notin Roots
    BY <2>1 DEF Serves, SparesRoots
  <2>3. rpc[c].name \in Names /\ Mine(c) \in ClaimRecord
    BY <2>1 DEF Mine, ClaimRecord
  <2>4. [Mine(c) EXCEPT !.phase = "bound", !.vol = ret[c].vol].vol = ret[c].vol
    BY <2>3 DEF ClaimRecord
  <2>. QED  BY <1>1, <2>2, <2>4, EndSparesRoots DEF VolumeCreated, Rpcs, Provisioner
<1>2. ASSUME NEW c \in Callers,
             VolumePublished(c) \/ VolumeUnpublished(c) \/ VolumeDeleted(c)
             \/ VolumeExpanded(c)
      PROVE  ClaimsSpareRoots'
  <2>1. rpc[c].kind # None
    BY <1>2 DEF VolumePublished, VolumeUnpublished, VolumeDeleted, VolumeExpanded, End
  <2>2. rpc[c].name \in Names /\ Mine(c) \in ClaimRecord /\ Mine(c).vol \notin Roots
    BY <2>1 DEF Mine, ClaimRecord, ClaimsSpareRoots
  <2>3. /\ [Mine(c) EXCEPT !.phase = "published"].vol = Mine(c).vol
        /\ [Mine(c) EXCEPT !.phase = "bound", !.node = None].vol = Mine(c).vol
        /\ [Mine(c) EXCEPT !.phase = "gone"].vol = Mine(c).vol
        /\ [Mine(c) EXCEPT !.size = ret[c].size].vol = Mine(c).vol
    BY <2>2 DEF ClaimRecord
  <2>4. {"Publish", "Unpublish", "Delete", "Expand"} \subseteq Rpcs
    BY DEF Rpcs, Provisioner, Attacher, Resizer
  <2>. QED
    BY <1>2, <2>2, <2>3, <2>4, EndSparesRoots
    DEF VolumePublished, VolumeUnpublished, VolumeDeleted, VolumeExpanded
<1>3. CASE UNCHANGED claim
  BY <1>3 DEF ClaimsSpareRoots
<1>4. ASSUME NEW n \in Names, NEW phase, NEW node,
             \/ claim' = [claim EXCEPT ![n].phase = phase, ![n].node = node]
             \/ claim' = [claim EXCEPT ![n].phase = phase]
      PROVE  ClaimsSpareRoots'
  BY <1>4 DEF ClaimsSpareRoots
<1>5. CASE \E c \in Callers : Serve(c)
  BY <1>1, <1>2, <1>3, <1>5
  DEF Serve, DeleteLocated, DeleteCurrentRef, ctrlVars
<1>6. ASSUME NEW n \in Names,
             \/ Provision(n) \/ Forget(n)
             \/ \E node \in Nodes : Publish(n, node)
             \/ \E c \in Callers : \/ ControllerUnpublishVolume(c, n)
                                   \/ \E size \in Sizes :
                                         ControllerExpandVolume(c, n, size)
      PROVE  ClaimsSpareRoots'
  BY <1>3, <1>4, <1>6
  DEF Provision, CreateVolume, DeleteVolume, Forget, Publish, Publishing,
      ControllerPublishVolume, PublishUnresolved, ControllerUnpublishVolume,
      ControllerExpandVolume
<1>7. CASE UNCHANGED allVars \/ (Appliance /\ UNCHANGED ctrlVars) \/ CtrlRestart
  BY <1>3, <1>7 DEF allVars, ctrlVars, CtrlRestart
<1>. QED  BY <1>5, <1>6, <1>7 DEF CtrlNext

\* client.go:110-117 and 277-279: under the controller, too, the calls of
\* concurrent RPCs exclude each other on a server, and no RPC touches a root disk:
\* CreateVolume never answers one, so that ControllerUnpublishVolume, whose
\* DetachVolume would take it, is never asked to.
THEOREM CtrlKeepsClientSafe == CtrlSpec => [](LockDiscipline /\ RootIntact)
<1>. DEFINE RootInv == CtrlInv /\ RootSafe /\ RootIntact /\ ClaimsSpareRoots
<1>1. CtrlInit => RootInv
  <2>. SUFFICES ASSUME CtrlInit  PROVE RootInv
    OBVIOUS
  <2>1. CtrlInv /\ RootSafe /\ RootIntact
    BY InitCtrlInv, InitRoots DEF CtrlInit
  <2>2. ClaimsSpareRoots
    BY RootFacts DEF CtrlInit, ClaimsSpareRoots
  <2>. QED  BY <2>1, <2>2
<1>2. RootInv /\ [CtrlNext]_allVars => RootInv'
  <2>. SUFFICES ASSUME RootInv, [CtrlNext]_allVars  PROVE RootInv'
    OBVIOUS
  <2>1. CtrlInv' /\ [Next]_vars /\ TypeInv
    BY NextCtrlInv, CtrlStepIsClientStep DEF CtrlInv
  <2>2. RootSafe' /\ RootIntact'
    BY <2>1, NextRoots, ClaimsDetachNoRoot, RootsStayIntact
  <2>. QED  BY <2>1, <2>2, NextClaimsSpareRoots
<1>3. CtrlSpec => []RootIntact
  BY <1>1, <1>2, PTL DEF CtrlSpec
<1>. QED  BY <1>3, ControllerUsesClient, MutexSafe, PTL
=============================================================================

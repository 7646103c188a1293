-------------------------- MODULE ControllerService --------------------------
(***************************************************************************)
(* internal/driver/controller.go: the CSI controller RPCs, each a sequence *)
(* of calls on morpheus.Client (module MorpheusClient), driven by the      *)
(* Kubernetes sidecars.                                                    *)
(*                                                                         *)
(*   CreateVolume               EnsureVolume                               *)
(*   DeleteVolume               FindVolume, then DeleteVolume              *)
(*   ControllerPublishVolume    node -> server, then MoveVolume            *)
(*   ControllerUnpublishVolume  node -> server, then DetachVolume          *)
(*   ControllerExpandVolume     ExpandVolume on the provisioning server    *)
(*                                                                         *)
(* The volume id "<serverID>:<volumeID>" (EncodeVolumeID) is the pair of   *)
(* HomeOf[n] and claim[n].vol: it never changes, so it goes on naming the  *)
(* server the volume was created on after the volume has moved.            *)
(*                                                                         *)
(* The sidecars are not part of the repository. They are modelled by what  *)
(* CSI grants the driver: a failed RPC is called again, each sidecar has   *)
(* one RPC of a claim under way, the provisioner deletes a volume that is  *)
(* not published, and different sidecars do not wait for each other.       *)
(***************************************************************************)
EXTENDS MorpheusClient

CONSTANTS
    Nodes,        \* Kubernetes nodes
    ServerOf,     \* [Nodes -> Servers]: the Morpheus server the node really is
    LabelOf,      \* [Nodes -> its morpheus.csi/server-id label, or None]
    Matches,      \* [Nodes -> servers GET /api/servers?phrase=node returns]
    Exact,        \* [Nodes -> those among them with that very name]
    HasResolver,  \* is the Kubernetes API configured (Driver.nodes # nil)?
    LabelFaults,  \* may reading nodes from the Kubernetes API fail?
    Lifecycle     \* what the sidecars do in this instance

Provisioner == {"Create", "Delete"}
Attacher    == {"Publish", "Unpublish"}
Resizer     == {"Expand"}
Rpcs        == Provisioner \cup Attacher \cup Resizer

ASSUME ControllerAssumption ==
    /\ ServerOf \in [Nodes -> Servers]
    /\ LabelOf \in [Nodes -> Servers \cup {None}]
    /\ Matches \in [Nodes -> SUBSET Servers]
    /\ Exact \in [Nodes -> SUBSET Servers]
    /\ \A node \in Nodes : Exact[node] \subseteq Matches[node]
    /\ {HasResolver, LabelFaults} \subseteq BOOLEAN
    /\ Lifecycle \subseteq Rpcs \cup {"Forget"}
    /\ None \notin Rpcs

VARIABLES
    rpc,     \* the RPC each caller serves; for DeleteVolume its currentRef
    claim    \* what Kubernetes knows of each claim and its PersistentVolume

ctrlVars == <<rpc, claim>>
allVars  == <<vars, ctrlVars>>

Phases == {"pending", "bound", "publishing", "published", "unpublishing",
           "deleting", "gone"}

NoRpc == [kind |-> None, name |-> NoName, current |-> None]

CtrlTypeOK ==
    /\ TypeOK
    /\ rpc \in [Callers -> [kind : Rpcs \cup {None}, name : Names \cup {NoName},
                            current : Servers \cup {None}]]
    /\ claim \in [Names -> [phase : Phases, vol : VolIds \cup {None},
                            node : Nodes \cup {None}, size : Nat]]
    /\ \A n \in Names : claim[n].phase # "pending" => claim[n].vol # None

\* A claim asks for one of Sizes and keeps asking for it.
CtrlInit ==
    /\ Init
    /\ rpc = [c \in Callers |-> NoRpc]
    /\ \E wanted \in [Names -> Sizes] :
          claim = [n \in Names |-> [phase |-> "pending", vol |-> None,
                                    node |-> None, size |-> wanted[n]]]

-----------------------------------------------------------------------------
(* Which server is a node, and where may a volume be?                      *)

\* mutant: the first match is taken.
FirstMatch(node) == IF Matches[node] = {} THEN {None} ELSE Matches[node]

\* ResolveServerIDByNodeName: the only server of that very name, else the only
\* one the search returned; None is the error.
ResolveServerIDByNodeName(node) ==
    IF Exact[node] # {} /\ Cardinality(Exact[node]) = 1 THEN Exact[node]
    ELSE IF Exact[node] = {} /\ Cardinality(Matches[node]) = 1 THEN Matches[node]
    ELSE {None}

\* kubernetesNodeServerResolver.ServerIDForNode: the label of the node; None
\* when there is none, the API fails or no resolver is configured.
Label(node) ==
    (IF HasResolver THEN {LabelOf[node]} ELSE {None}) \cup
    (IF LabelFaults THEN {None} ELSE {})

\* Driver.serverIDForNode: the label, else the search; the server of the volume
\* id only when there is no resolver. None is the error.
ServerIDForNode(node, fallback) ==
    LET search   == ResolveServerIDByNodeName(node) \cup
                    (IF Faults THEN {None} ELSE {})
        searched == {IF s = None /\ ~HasResolver THEN fallback ELSE s : s \in search}
    IN  (Label(node) \ {None}) \cup
        (IF None \in Label(node) THEN searched ELSE {})

\* ServerIDs: the labels of all nodes; nothing when they cannot be read.
Labels ==
    (IF HasResolver THEN {{LabelOf[node] : node \in Nodes} \ {None}} ELSE {{}}) \cup
    (IF LabelFaults THEN {{}} ELSE {})

\* candidateServerIDs: those, and the servers the RPC knows itself; uniqueStrings
\* is uniqueNonEmpty once more.
CandidateServerIDs(known) ==
    {UniqueNonEmpty(labels \cup known) : labels \in Labels}

-----------------------------------------------------------------------------
(* Serving an RPC.                                                         *)

SidecarOf(kind) == CHOOSE sidecar \in {Provisioner, Attacher, Resizer} :
                      kind \in sidecar

Busy(sidecar, n) ==
    \E c \in Callers : rpc[c].name = n /\ rpc[c].kind \in sidecar

\* A sidecar calls the RPC for the claim.
Begin(c, n, kind) ==
    /\ rpc[c] = NoRpc
    /\ kind \in Lifecycle
    /\ ~Busy(SidecarOf(kind), n)
    /\ rpc' = [rpc EXCEPT ![c] = [kind |-> kind, name |-> n, current |-> None]]

\* The RPC has the answer of its last call and returns it; on success
\* Kubernetes records what new says of the claim.
End(c, kind, new) ==
    /\ rpc[c].kind = kind
    /\ Finish(c)
    /\ rpc' = [rpc EXCEPT ![c] = NoRpc]
    /\ claim' = IF ret[c].ok THEN [claim EXCEPT ![rpc[c].name] = new] ELSE claim

Mine(c) == claim[rpc[c].name]

CreateVolume(c, n) ==
    /\ claim[n].phase = "pending"
    /\ Begin(c, n, "Create")
    /\ CallEnsure(c, n, claim[n].size)
    /\ UNCHANGED claim

\* mutant: the error of EnsureVolume is not looked at.
VolumeCreatedUnchecked(c) ==
    /\ rpc[c].kind = "Create"
    /\ Finish(c)
    /\ rpc' = [rpc EXCEPT ![c] = NoRpc]
    /\ claim' = [claim EXCEPT ![rpc[c].name].phase = "bound",
                              ![rpc[c].name].vol = ret[c].vol]

\* The capacity answered is the one requested.
VolumeCreated(c) ==
    End(c, "Create", [Mine(c) EXCEPT !.phase = "bound", !.vol = ret[c].vol])

\* A node is chosen for the claim, or the call is repeated for that node.
ToPublish(n, node) ==
    \/ claim[n].phase = "bound"
    \/ claim[n].phase = "publishing" /\ claim[n].node = node

Publishing(n, node) ==
    claim' = [claim EXCEPT ![n].phase = "publishing", ![n].node = node]

ControllerPublishVolume(c, n, node) ==
    /\ ToPublish(n, node)
    /\ Begin(c, n, "Publish")
    /\ \E target \in ServerIDForNode(node, HomeOf[n]) \ {None} :
       \E S \in CandidateServerIDs({HomeOf[n], target}) :
          CallMove(c, HomeOf[n], target, claim[n].vol, S)
    /\ Publishing(n, node)

\* The node resolves to no server: the RPC fails before it calls the client.
PublishUnresolved(c, n, node) ==
    /\ ToPublish(n, node)
    /\ "Publish" \in Lifecycle
    /\ rpc[c] = NoRpc
    /\ ~Busy(Attacher, n)
    /\ None \in ServerIDForNode(node, HomeOf[n])
    /\ Publishing(n, node)
    /\ UNCHANGED <<vars, rpc>>

VolumePublished(c) == End(c, "Publish", [Mine(c) EXCEPT !.phase = "published"])

ControllerUnpublishVolume(c, n) ==
    /\ claim[n].phase \in {"publishing", "published", "unpublishing"}
    /\ Begin(c, n, "Unpublish")
    /\ \E s \in ServerIDForNode(claim[n].node, HomeOf[n]) \ {None} :
          CallDetach(c, s, claim[n].vol)
    /\ claim' = [claim EXCEPT ![n].phase = "unpublishing"]

VolumeUnpublished(c) ==
    End(c, "Unpublish", [Mine(c) EXCEPT !.phase = "bound", !.node = None])

\* The volume is looked for on every candidate server first.
DeleteVolume(c, n) ==
    /\ claim[n].phase \in {"bound", "deleting"}
    /\ Begin(c, n, "Delete")
    /\ \E S \in CandidateServerIDs({HomeOf[n]}) : CallFind(c, claim[n].vol, S)
    /\ claim' = [claim EXCEPT ![n].phase = "deleting"]

\* mutant: the server FindVolume found is not used.
DeleteLocatedHome(c) ==
    /\ rpc[c].kind = "Delete" /\ rpc[c].current = None
    /\ Finish(c)
    /\ rpc' = [rpc EXCEPT ![c].current = HomeOf[rpc[c].name]]
    /\ UNCHANGED claim

\* currentRef is where FindVolume found the volume. Not found or failed, the
\* server of the volume id takes its place.
DeleteLocated(c) ==
    /\ rpc[c].kind = "Delete" /\ rpc[c].current = None
    /\ Finish(c)
    /\ rpc' = [rpc EXCEPT ![c].current =
                  IF ret[c].ok THEN ret[c].server ELSE HomeOf[rpc[c].name]]
    /\ UNCHANGED claim

DeleteCurrentRef(c) ==
    /\ rpc[c].kind = "Delete" /\ rpc[c].current # None
    /\ CallDelete(c, rpc[c].current, Mine(c).vol)
    /\ UNCHANGED ctrlVars

VolumeDeleted(c) ==
    /\ rpc[c].current # None
    /\ End(c, "Delete", [Mine(c) EXCEPT !.phase = "gone"])

ControllerExpandVolume(c, n, size) ==
    /\ claim[n].phase \in {"bound", "publishing", "published", "unpublishing"}
    /\ size > claim[n].size
    /\ Begin(c, n, "Expand")
    /\ CallExpand(c, HomeOf[n], claim[n].vol, size)
    /\ UNCHANGED claim

\* The capacity answered is the size Morpheus reported last.
VolumeExpanded(c) == End(c, "Expand", [Mine(c) EXCEPT !.size = ret[c].size])

-----------------------------------------------------------------------------
\* A VolumeAttachment is removed by hand (or its node is gone for good) and no
\* ControllerUnpublishVolume is called.
Forget(n) ==
    /\ "Forget" \in Lifecycle
    /\ claim[n].phase \in {"publishing", "published", "unpublishing"}
    /\ ~Busy(Attacher, n)
    /\ claim' = [claim EXCEPT ![n].phase = "bound", ![n].node = None]
    /\ UNCHANGED <<vars, rpc>>

\* The controller pod restarts: its RPCs are gone, Kubernetes remembers.
CtrlRestart ==
    /\ Restart
    /\ rpc' = [c \in Callers |-> NoRpc]
    /\ UNCHANGED claim

Serve(c) ==
    \/ VolumeCreated(c) \/ VolumePublished(c) \/ VolumeUnpublished(c)
    \/ DeleteLocated(c) \/ DeleteCurrentRef(c) \/ VolumeDeleted(c)
    \/ VolumeExpanded(c)
    \/ Progress(c) /\ UNCHANGED ctrlVars

Provision(n) == \E c \in Callers : CreateVolume(c, n) \/ DeleteVolume(c, n)

Publish(n, node) ==
    \E c \in Callers : \/ ControllerPublishVolume(c, n, node)
                       \/ PublishUnresolved(c, n, node)

CtrlNext ==
    \/ \E c \in Callers : Serve(c)
    \/ \E n \in Names :
        \/ Provision(n)
        \/ \E node \in Nodes : Publish(n, node)
        \/ \E c \in Callers : \/ ControllerUnpublishVolume(c, n)
                              \/ \E size \in Sizes :
                                    ControllerExpandVolume(c, n, size)
        \/ Forget(n)
    \/ Appliance /\ UNCHANGED ctrlVars
    \/ CtrlRestart

CtrlSpec == CtrlInit /\ [][CtrlNext]_allVars

\* The Go scheduler serves every RPC; a sidecar repeats an RPC until it
\* succeeds, once it has begun (a claim being deleted, a node being published
\* to). Taking a mutex, or one of the callers, needs strong fairness. Which of
\* several claims or sizes comes next is left open.
CtrlFairness ==
    /\ \A c \in Callers : WF_allVars(Serve(c))
                          /\ SF_allVars(Lock(c) /\ UNCHANGED ctrlVars)
    /\ \A n \in Names :
        /\ SF_allVars(claim[n].phase \in {"pending", "deleting"} /\ Provision(n))
        /\ \A node \in Nodes :
              SF_allVars(claim[n].phase = "publishing" /\ Publish(n, node))

FairCtrlSpec == CtrlSpec /\ CtrlFairness

-----------------------------------------------------------------------------
(* What Kubernetes relies on.                                              *)

\* A volume Kubernetes has published to a node is attached to that node's
\* server, whatever other claims, retries, failures and expansions do.
PublishedIsAttached ==
    \A n \in Names : claim[n].phase = "published"
        => place[claim[n].vol] = ServerOf[claim[n].node]

\* A claim that has a volume and is not being deleted has not lost it, and the
\* volume is at least as large as the capacity Kubernetes was told.
ClaimKeepsItsVolume ==
    \A n \in Names : claim[n].phase \notin {"pending", "deleting", "gone"}
        => /\ Live(claim[n].vol)
           /\ attr[claim[n].vol].size >= claim[n].size

\* Two claims are never given the same volume, although findNewVolume accepts
\* any new disk of the server that is large enough.
ClaimsAreDisjoint ==
    \A m, n \in Names : m # n /\ claim[m].vol # None
        => claim[m].vol # claim[n].vol

\* docs/mvp-scope.md:14: when the claim is deleted, the driver deletes the
\* Morpheus volume. Once DeleteVolume has succeeded, there is nothing left.
DeletedIsGone ==
    \A n \in Names : claim[n].phase = "gone" => ~Live(claim[n].vol)

\* client.go:253-258: what failed or interrupted attempts to bind a claim
\* have made is what it gets in the end. Of a claim that has a volume there
\* is no other live volume.
NoOrphan ==
    \A n \in Names : \A v \in VolIds :
        attr[v].name = n /\ Live(v) /\ claim[n].vol # None => v = claim[n].vol

\* A claim that asks for a volume gets it, and a claim being deleted goes.
ClaimsAreServed ==
    \A n \in Names : /\ claim[n].phase = "pending" ~> claim[n].phase # "pending"
                     /\ claim[n].phase = "deleting" ~> claim[n].phase = "gone"

\* README.md:107-110: the PVC remains available for a later pod, also on
\* another worker. Publishing to a node is not repeated forever.
PublishingEnds ==
    \A n \in Names :
        claim[n].phase = "publishing" ~> claim[n].phase # "publishing"
=============================================================================

--------------------------- MODULE MorpheusClient ---------------------------
(***************************************************************************)
(* internal/morpheus/client.go: the calls the controller makes on          *)
(* morpheus.Client, step by step. A caller is one gRPC request being       *)
(* served; every HTTP request of a call is one step, so that the requests  *)
(* of concurrent calls interleave the way the appliance can see them.      *)
(*                                                                         *)
(*   EnsureVolume   lock, GET, PUT resize, GET until the volume shows      *)
(*   DeleteVolume   lock, GET, PUT resize without the volume               *)
(*   ExpandVolume   lock, GET, PUT resize, GET until the volume shows      *)
(*   FindVolume     GET each candidate server, no lock                     *)
(*   MoveVolume     FindVolume, PUT detach, PUT attach, GET, no lock       *)
(*   DetachVolume   PUT detach, no lock                                    *)
(*                                                                         *)
(* A request can fail before it reaches the appliance or be carried out    *)
(* with its answer lost (Client.do returns an error for both); a context   *)
(* that is cancelled shows as such a failure. Storage type, datastore and  *)
(* device path are left out: one storage class per name.                   *)
(***************************************************************************)
EXTENDS MorpheusApi

CONSTANTS
    Callers,       \* concurrent requests served by the controller process
    Ops,           \* the calls this instance makes
    HomeOf,        \* [Names -> Servers]: StorageClassServerID of the name
    Sizes,         \* sizes requested, in GiB
    PollAttempts,  \* postResizeVolumeLookupAttempts
    Faults         \* may requests fail, answers get lost, the process restart?

LockedOps == {"Ensure", "Delete", "Expand"}
AllOps    == LockedOps \cup {"Find", "Move", "Detach"}

ASSUME ClientAssumption ==
    /\ Ops \subseteq AllOps
    /\ HomeOf \in [Names -> Servers]
    /\ Sizes \subseteq Nat \ {0}
    /\ PollAttempts \in Nat \ {0}
    /\ Faults \in BOOLEAN
    /\ None \notin Callers

VARIABLES
    holder,   \* serverLocks: [Servers -> the caller holding its mutex, or None]
    pc,       \* the next step of each caller
    req,      \* the call being served, and what it has resolved so far
    snap,     \* the volume array read under the lock (the local "volumes")
    todo,     \* candidate servers FindVolume has not asked yet
    tries,    \* lookups already made by the polling loop
    ret,      \* what the last call returned
    asked,    \* history: ids DeleteVolume was called for
    told      \* history: [Names -> ids EnsureVolume returned for the name]

callVars   == <<holder, pc, req, snap, todo, tries, ret>>
clientVars == <<callVars, asked, told>>
vars       == <<apiVars, clientVars>>

Steps == {"idle", "lock", "read", "write", "poll",
          "find", "detach", "attach", "verify", "done"}

NoReq == [op |-> None, server |-> None, from |-> None, vol |-> None,
          name |-> NoName, size |-> 0]
NoRet == [ok |-> FALSE, vol |-> None, server |-> None, size |-> 0]

Reqs == [op : AllOps \cup {None},
         server : Servers \cup {None}, from : Servers \cup {None},
         vol : VolIds \cup {None}, name : Names \cup {NoName}, size : Nat]
Rets == [ok : BOOLEAN, vol : VolIds \cup {None}, server : Servers \cup {None},
         size : Nat]

ClientTypeOK ==
    /\ holder \in [Servers -> Callers \cup {None}]
    /\ pc \in [Callers -> Steps]
    /\ req \in [Callers -> Reqs]
    /\ snap \in [Callers -> Arrays]
    /\ todo \in [Callers -> SUBSET Servers]
    /\ tries \in [Callers -> Nat]
    /\ ret \in [Callers -> Rets]
    /\ asked \subseteq VolIds
    /\ told \in [Names -> SUBSET VolIds]

\* The types of the client's and the appliance's state.
TypeOK == ApiTypeOK /\ ClientTypeOK

Init ==
    /\ ApiInit
    /\ holder = [s \in Servers |-> None]
    /\ pc = [c \in Callers |-> "idle"]
    /\ req = [c \in Callers |-> NoReq]
    /\ snap = [c \in Callers |-> NoArray]
    /\ todo = [c \in Callers |-> {}]
    /\ tries = [c \in Callers |-> 0]
    /\ ret = [c \in Callers |-> NoRet]
    /\ asked = {}
    /\ told = [n \in Names |-> {}]

-----------------------------------------------------------------------------
(* Looking volumes up, and building the array of the next PUT.             *)

\* mutant: the lookup by name is forgotten.
NamedNever(volumes, n) == {}

\* findVolumeByName: the ids of the array that carry the name. The code takes
\* the first; the order is the appliance's.
Named(volumes, n) == {v \in Ids(volumes) : volumes[v].name = n}

\* mutant: volumes that were there before are not excluded.
FindNewAmongAll(before, after, size) ==
    {v \in Ids(after) \ Roots : after[v].size = 0 \/ after[v].size >= size}

\* findNewVolume: a volume that was not there before, is not the root disk
\* and is not smaller than requested, whatever its name.
FindNew(before, after, size) ==
    {v \in Ids(after) \ (Ids(before) \cup Roots) :
        after[v].size = 0 \/ after[v].size >= size}

\* findResizedVolume
FindResized(before, after, r) ==
    IF r.vol # None THEN {r.vol} \cap Ids(after)
    ELSE IF Named(after, r.name) # {} THEN Named(after, r.name)
    ELSE FindNew(before, after, r.size)

\* mutant: only the volume that changes is sent.
ResizeArrayOfOne(volumes, r) ==
    IF r.vol # None
    THEN [keep |-> [NoArray EXCEPT ![r.vol] = [volumes[r.vol] EXCEPT !.size = r.size]],
          new |-> None]
    ELSE [keep |-> NoArray, new |-> [name |-> r.name, size |-> r.size]]

\* resizeVolume's array: the volume found gets the new size (and the name, if
\* the request has one), or an item without an id is added; the rest stays.
ResizeArray(volumes, r) ==
    IF r.vol # None
    THEN [keep |-> [volumes EXCEPT ![r.vol] =
                       [name |-> IF r.name = NoName THEN @.name ELSE r.name,
                        size |-> r.size]],
          new |-> None]
    ELSE [keep |-> volumes, new |-> [name |-> r.name, size |-> r.size]]

\* DeleteVolume's array: every volume but the one to delete.
ArrayWithout(volumes, v) ==
    [keep |-> [volumes EXCEPT ![v] = None], new |-> None]

NextArray(c) ==
    IF req[c].op = "Delete" THEN ArrayWithout(snap[c], req[c].vol)
                            ELSE ResizeArray(snap[c], req[c])

-----------------------------------------------------------------------------
(* Calling and returning.                                                  *)

Goto(c, step) == pc' = [pc EXCEPT ![c] = step]

\* mutant: no mutex.
LockNever(s) == TRUE

\* The mutex of s can be taken.
LockFree(s) == holder[s] = None

\* mutant: an early return forgets to unlock.
NotReleased(c) == holder

\* The deferred unlock: c gives up what it holds.
Released(c) == [s \in Servers |-> IF holder[s] = c THEN None ELSE holder[s]]

\* The call of c returns r. Locals are reset; EnsureVolume's answer is noted.
Return(c, r) ==
    /\ Goto(c, "done")
    /\ holder' = Released(c)
    /\ ret' = [ret EXCEPT ![c] = r]
    /\ snap' = [snap EXCEPT ![c] = NoArray]
    /\ todo' = [todo EXCEPT ![c] = {}]
    /\ tries' = [tries EXCEPT ![c] = 0]
    /\ told' = IF r.ok /\ req[c].op = "Ensure"
               THEN [told EXCEPT ![req[c].name] = @ \cup {r.vol}] ELSE told
    /\ UNCHANGED <<req, asked>>

\* Success: the volume as the call last saw it.
Ok(c, v, s) == Return(c, [ok |-> TRUE, vol |-> v, server |-> s,
                          size |-> attr[v].size])
Fail(c)     == Return(c, NoRet)

\* The steps between the call and its return change only these.
Local == <<holder, req, ret, asked, told>>

Call(c, r, step) ==
    /\ pc[c] = "idle"
    /\ r.op \in Ops
    /\ Goto(c, step)
    /\ req' = [req EXCEPT ![c] = r]
    /\ ret' = [ret EXCEPT ![c] = NoRet]
    /\ UNCHANGED <<apiVars, holder, snap, tries, told>>

\* A volume id some handle names: CreateVolume's, or a hand-written PV's, which
\* may name any disk that exists, the root disk included.
Known == {v \in VolIds : place[v] # Unborn}

CallEnsure(c, n, size) ==
    /\ Call(c, [NoReq EXCEPT !.op = "Ensure", !.server = HomeOf[n],
                             !.name = n, !.size = size], "lock")
    /\ UNCHANGED <<todo, asked>>

CallDelete(c, s, v) ==
    /\ v \in Known
    /\ Call(c, [NoReq EXCEPT !.op = "Delete", !.server = s, !.vol = v], "lock")
    /\ asked' = asked \cup {v}
    /\ UNCHANGED todo

CallExpand(c, s, v, size) ==
    /\ v \in Known
    /\ Call(c, [NoReq EXCEPT !.op = "Expand", !.server = s, !.vol = v,
                             !.size = size], "lock")
    /\ UNCHANGED <<todo, asked>>

\* mutant: an empty server id is not left out.
EmptyKept(servers) == servers

\* uniqueNonEmpty
UniqueNonEmpty(servers) == servers \ {None}

CallFind(c, v, candidates) ==
    /\ v \in Known
    /\ Call(c, [NoReq EXCEPT !.op = "Find", !.vol = v], "find")
    /\ todo' = [todo EXCEPT ![c] = UniqueNonEmpty(candidates)]
    /\ UNCHANGED asked

\* MoveVolume appends the source, which may be empty, and the target server to
\* the candidates.
CallMove(c, source, target, v, candidates) ==
    /\ v \in Known
    /\ Call(c, [NoReq EXCEPT !.op = "Move", !.server = target, !.vol = v],
            "find")
    /\ todo' = [todo EXCEPT ![c] =
                   UniqueNonEmpty(candidates \cup {source, target})]
    /\ UNCHANGED asked

\* DetachVolume detaches what it is given, the root disk too: it has no guard.
CallDetach(c, s, v) ==
    /\ v \in Known
    /\ Call(c, [NoReq EXCEPT !.op = "Detach", !.server = s, !.from = s,
                             !.vol = v], "detach")
    /\ UNCHANGED <<todo, asked>>

\* The gRPC handler has taken the answer.
Finish(c) ==
    /\ pc[c] = "done"
    /\ Goto(c, "idle")
    /\ req' = [req EXCEPT ![c] = NoReq]
    /\ ret' = [ret EXCEPT ![c] = NoRet]
    /\ UNCHANGED <<apiVars, holder, snap, todo, tries, asked, told>>

-----------------------------------------------------------------------------
(* EnsureVolume, DeleteVolume and ExpandVolume, under the server's mutex.  *)

\* lockServer
Lock(c) ==
    /\ pc[c] = "lock"
    /\ LockFree(req[c].server)
    /\ holder' = [holder EXCEPT ![req[c].server] = c]
    /\ Goto(c, "read")
    /\ UNCHANGED <<apiVars, req, snap, todo, tries, ret, asked, told>>

\* getServerState, and the decision each call takes on the array it reads.
\* The array is kept for the PUT.
KeepSnap(c, v) ==
    /\ snap' = [snap EXCEPT ![c] = Volumes(req[c].server)]
    /\ req' = [req EXCEPT ![c].vol = v]
    /\ Goto(c, "write")
    /\ UNCHANGED <<holder, todo, tries, ret, asked, told>>

\* mutant: any volume of the name is the answer, whatever its size.
EnsureReadAnySize(c) ==
    /\ pc[c] = "read" /\ req[c].op = "Ensure"
    /\ LET named == Named(Volumes(req[c].server), req[c].name) IN
        \/ \E v \in named : Ok(c, v, req[c].server)
        \/ named = {} /\ KeepSnap(c, None)
    /\ UNCHANGED apiVars

\* A volume of the requested name that is large enough is the answer; one that
\* is too small is resized, whatever it is.
EnsureRead(c) ==
    /\ pc[c] = "read" /\ req[c].op = "Ensure"
    /\ LET named == Named(Volumes(req[c].server), req[c].name) IN
        \/ \E v \in named : IF attr[v].size >= req[c].size
                            THEN Ok(c, v, req[c].server)
                            ELSE KeepSnap(c, v)
        \/ named = {} /\ KeepSnap(c, None)
    /\ UNCHANGED apiVars

\* mutant: the root-disk guard of DeleteVolume is dropped.
DeleteReadNoRootGuard(c) ==
    /\ pc[c] = "read" /\ req[c].op = "Delete"
    /\ IF req[c].vol \notin On(req[c].server)
       THEN Ok(c, req[c].vol, req[c].server)
       ELSE KeepSnap(c, req[c].vol)
    /\ UNCHANGED apiVars

\* A volume that is not there counts as deleted; the root disk is refused.
DeleteRead(c) ==
    /\ pc[c] = "read" /\ req[c].op = "Delete"
    /\ IF req[c].vol \notin On(req[c].server)
       THEN Ok(c, req[c].vol, req[c].server)
       ELSE IF req[c].vol \in Roots THEN Fail(c)
       ELSE KeepSnap(c, req[c].vol)
    /\ UNCHANGED apiVars

\* mutant: ExpandVolume does not refuse a smaller size.
ExpandReadShrinks(c) ==
    /\ pc[c] = "read" /\ req[c].op = "Expand"
    /\ LET v == req[c].vol IN
        IF v \notin On(req[c].server) \/ v \in Roots
        THEN Fail(c)
        ELSE IF attr[v].size = req[c].size THEN Ok(c, v, req[c].server)
        ELSE KeepSnap(c, v)
    /\ UNCHANGED apiVars

\* Missing, root and larger volumes are refused; one of the size asked for is
\* the answer already.
ExpandRead(c) ==
    /\ pc[c] = "read" /\ req[c].op = "Expand"
    /\ LET v == req[c].vol IN
        IF \/ v \notin On(req[c].server)
           \/ v \in Roots
           \/ attr[v].size > req[c].size
        THEN Fail(c)
        ELSE IF attr[v].size = req[c].size THEN Ok(c, v, req[c].server)
        ELSE KeepSnap(c, v)
    /\ UNCHANGED apiVars

\* resizeServer: PUT the array. DeleteVolume returns on its answer, the others
\* poll for the volume.
Write(c) ==
    /\ pc[c] = "write"
    /\ AcceptResize(req[c].server, NextArray(c))
    /\ \/ IF req[c].op = "Delete" THEN Ok(c, req[c].vol, req[c].server)
          ELSE Goto(c, "poll") /\ UNCHANGED <<Local, snap, todo, tries>>
       \/ Faults /\ Fail(c)                         \* the answer is lost

\* One lookup of the polling loop: the volume shows, or the loop goes on until
\* its attempts are used up. The first volume that matches is the answer.
Poll(c) ==
    /\ pc[c] = "poll"
    /\ LET found == FindResized(snap[c], Volumes(req[c].server), req[c]) IN
        \/ \E v \in found : Ok(c, v, req[c].server)
        \/ /\ found = {}
           /\ IF tries[c] + 1 = PollAttempts THEN Fail(c)
              ELSE /\ tries' = [tries EXCEPT ![c] = @ + 1]
                   /\ UNCHANGED <<Local, pc, snap, todo>>
    /\ UNCHANGED apiVars

\* The appliance refuses the request: it has no id left for a new volume, the
\* volume to attach is attached elsewhere or gone, or the one to detach is not
\* attached there.
Refused(c) ==
    \/ pc[c] = "write" /\ NextArray(c).new # None /\ Fresh = {}
    \/ pc[c] = "attach" /\ place[req[c].vol] \notin {Detached, req[c].server}
    \/ pc[c] = "detach" /\ place[req[c].vol] # req[c].from

\* A request is refused; or a GET fails, a PUT does not reach the appliance, or
\* the context ends between two lookups.
RequestFails(c) ==
    /\ pc[c] \in {"read", "write", "poll", "find", "detach", "attach"}
    /\ Faults \/ Refused(c)
    /\ Fail(c)
    /\ UNCHANGED apiVars

-----------------------------------------------------------------------------
(* FindVolume, MoveVolume and DetachVolume, without the mutex.             *)

\* mutant: MoveVolume returns the volume wherever it finds it.
FindGetStaysPut(c) ==
    /\ pc[c] = "find"
    /\ \E s \in todo[c] :
        IF req[c].vol \in On(s)
        THEN Ok(c, req[c].vol, req[c].server)
        ELSE IF todo[c] = {s} THEN Fail(c)
             ELSE /\ todo' = [todo EXCEPT ![c] = @ \ {s}]
                  /\ UNCHANGED <<Local, pc, snap, tries>>
    /\ UNCHANGED apiVars

\* mutant: MoveVolume does not refuse the root disk.
FindGetMovesRoot(c) ==
    /\ pc[c] = "find"
    /\ \E s \in todo[c] :
        IF req[c].vol \in On(s)
        THEN IF req[c].op = "Find" \/ s = req[c].server
             THEN Ok(c, req[c].vol, s)
             ELSE /\ req' = [req EXCEPT ![c].from = s]
                  /\ Goto(c, "detach")
                  /\ UNCHANGED <<holder, snap, todo, tries, ret, asked, told>>
        ELSE IF todo[c] = {s} THEN Fail(c)
             ELSE /\ todo' = [todo EXCEPT ![c] = @ \ {s}]
                  /\ UNCHANGED <<Local, pc, snap, tries>>
    /\ UNCHANGED apiVars

\* mutant: MoveVolume attaches without detaching first.
FindGetNoDetach(c) ==
    /\ pc[c] = "find"
    /\ \E s \in todo[c] :
        IF req[c].vol \in On(s)
        THEN IF req[c].op = "Find" \/ s = req[c].server
             THEN Ok(c, req[c].vol, s)
             ELSE Goto(c, "attach") /\ UNCHANGED <<Local, snap, todo, tries>>
        ELSE IF todo[c] = {s} THEN Fail(c)
             ELSE /\ todo' = [todo EXCEPT ![c] = @ \ {s}]
                  /\ UNCHANGED <<Local, pc, snap, tries>>
    /\ UNCHANGED apiVars

\* One GET of FindVolume. MoveVolume goes on from its result: there already,
\* the root disk, or to be detached from where it was found.
FindGet(c) ==
    /\ pc[c] = "find"
    /\ \E s \in todo[c] :
        IF req[c].vol \in On(s)
        THEN IF req[c].op = "Find" \/ s = req[c].server
             THEN Ok(c, req[c].vol, s)
             ELSE IF req[c].vol \in Roots THEN Fail(c)
             ELSE /\ req' = [req EXCEPT ![c].from = s]
                  /\ Goto(c, "detach")
                  /\ UNCHANGED <<holder, snap, todo, tries, ret, asked, told>>
        ELSE IF todo[c] = {s} THEN Fail(c)
             ELSE /\ todo' = [todo EXCEPT ![c] = @ \ {s}]
                  /\ UNCHANGED <<Local, pc, snap, tries>>
    /\ UNCHANGED apiVars

\* PUT detach is carried out, and answered or its answer lost: from where
\* MoveVolume found the volume, or from the server DetachVolume was given.
Detach(c) ==
    /\ pc[c] = "detach"
    /\ DetachFrom(req[c].from, req[c].vol)
    /\ \/ IF req[c].op = "Move"
          THEN Goto(c, "attach") /\ UNCHANGED <<Local, snap, todo, tries>>
          ELSE Ok(c, req[c].vol, req[c].server)
       \/ Faults /\ Fail(c)

\* PUT attach is carried out, and answered or its answer lost.
Attach(c) ==
    /\ pc[c] = "attach"
    /\ AttachTo(req[c].server, req[c].vol)
    /\ \/ Goto(c, "verify") /\ UNCHANGED <<Local, snap, todo, tries>>
       \/ Faults /\ Fail(c)

\* One GetVolume of MoveVolume's loop. A failed GET counts as "not there yet",
\* and the context is looked at before every lookup but the first.
Verify(c) ==
    /\ pc[c] = "verify"
    /\ \/ req[c].vol \in On(req[c].server) /\ Ok(c, req[c].vol, req[c].server)
       \/ /\ Faults \/ req[c].vol \notin On(req[c].server)
          /\ IF tries[c] + 1 = PollAttempts THEN Fail(c)
             ELSE /\ tries' = [tries EXCEPT ![c] = @ + 1]
                  /\ UNCHANGED <<Local, pc, snap, todo>>
       \/ Faults /\ tries[c] > 0 /\ Fail(c)
    /\ UNCHANGED apiVars

-----------------------------------------------------------------------------
\* The controller process dies and starts again: calls, locals and mutexes are
\* gone, what the appliance accepted is not.
Restart ==
    /\ Faults
    /\ holder' = [s \in Servers |-> None]
    /\ pc' = [c \in Callers |-> "idle"]
    /\ req' = [c \in Callers |-> NoReq]
    /\ snap' = [c \in Callers |-> NoArray]
    /\ todo' = [c \in Callers |-> {}]
    /\ tries' = [c \in Callers |-> 0]
    /\ ret' = [c \in Callers |-> NoRet]
    /\ UNCHANGED <<apiVars, asked, told>>

Start(c) ==
    \/ \E n \in Names, size \in Sizes : CallEnsure(c, n, size)
    \/ \E s \in Servers, v \in VolIds : \/ CallDelete(c, s, v)
                                        \/ CallDetach(c, s, v)
    \/ \E s \in Servers, v \in VolIds, size \in Sizes : CallExpand(c, s, v, size)
    \/ \E v \in VolIds, S \in SUBSET Servers :
          \/ S # {} /\ CallFind(c, v, S)
          \/ \E s \in Servers : CallMove(c, None, s, v, S)

\* The steps of a call in progress.
Progress(c) ==
    \/ Lock(c)
    \/ EnsureRead(c) \/ DeleteRead(c) \/ ExpandRead(c)
    \/ Write(c) \/ Poll(c)
    \/ FindGet(c) \/ Detach(c) \/ Attach(c) \/ Verify(c)
    \/ RequestFails(c)

Step(c) == Progress(c) \/ Finish(c)

Appliance == \E s \in Servers : (Apply(s) \/ JobFails(s)) /\ UNCHANGED clientVars

Next ==
    \/ \E c \in Callers : Start(c) \/ Step(c)
    \/ Appliance
    \/ Restart

Spec == Init /\ [][Next]_vars

\* The Go scheduler runs every caller; its mutexes do not starve a waiter, so
\* taking one needs strong fairness. Nothing is assumed of the appliance, of
\* new calls or of restarts.
Fairness ==
    \A c \in Callers : WF_vars(Step(c)) /\ SF_vars(Lock(c))

FairSpec == Spec /\ Fairness

-----------------------------------------------------------------------------
(* Safety. Live volumes are those a claim could still be using.            *)

Live(v) == place[v] \notin {Unborn, Deleted}

\* lockServer and its deferred unlock: from its GET to its last lookup a call
\* holds the mutex of its server, so at most one such call is under way there,
\* and a mutex is held by no one else.
LockDiscipline ==
    \A c \in Callers, s \in Servers :
        holder[s] = c <=> pc[c] \in {"read", "write", "poll"} /\ req[c].server = s

\* client.go:110-117: the read-modify-write of a server's array is serialized.
\* While a caller is between its GET and its PUT, the array it read is still
\* the server's array, so that its PUT changes only what it means to change.
ReadIsCurrent ==
    \A c \in Callers : pc[c] = "write" => snap[c] = Volumes(req[c].server)

\* client.go:110-117: no volume is lost to somebody else's resize. Only a
\* volume DeleteVolume was called for is ever deleted on the appliance.
NoSilentDrop == \A v \in VolIds : place[v] = Deleted => v \in asked

\* EnsureVolume finds what an earlier, failed or interrupted attempt left
\* behind: a name never has two live volumes, and what EnsureVolume returned
\* for the name is that volume.
OneVolumePerName ==
    \A n \in Names : \A v, w \in VolIds :
        /\ Live(v) /\ Live(w)
        /\ v \in told[n] \/ attr[v].name = n
        /\ w \in told[n] \/ attr[w].name = n
        => v = w

\* client.go:277-279, 317-319 and 377-379 refuse the root disk of a server: it
\* stays attached, with its size and name. No array the client sends omits or
\* changes it, and nothing moves it.
RootIntact ==
    \A s \in Servers : /\ place[RootOf[s]] = s
                       /\ attr[RootOf[s]] = [name |-> NoName, size |-> 1]

\* The one call without that guard is DetachVolume (client.go:345-357): nothing
\* changes a root disk, and what takes it from its server is a DetachVolume that
\* was given that very disk, whatever arrays are still on their way.
RootMovedByDetachOnly ==
    [][\A s \in Servers :
          LET root == RootOf[s] IN
          /\ attr'[root] = attr[root]
          /\ place'[root] # place[root]
             => \E c \in Callers : /\ pc[c] = "detach" /\ req[c].op = "Detach"
                                   /\ req[c].vol = root /\ req[c].from = s]_vars

\* What EnsureVolume and ExpandVolume return is at least as large as what was
\* asked for, unless the volume was deleted before the caller looked.
ResultIsLargeEnough ==
    \A c \in Callers :
        /\ pc[c] = "done" /\ ret[c].ok /\ req[c].op \in {"Ensure", "Expand"}
        /\ Live(ret[c].vol)
        => attr[ret[c].vol].size >= req[c].size

\* No resize makes a live volume smaller: EnsureVolume and ExpandVolume decide
\* not to shrink on the size they read, and write it back later.
NeverShrinks ==
    [][\A v \in VolIds : Live(v) => attr'[v].size >= attr[v].size]_vars

\* FindVolume's answer is where the volume is, and MoveVolume's is the target
\* server: as long as calls do not overlap, the answer is still true when the
\* caller looks at it.
AnswerIsWhereVolumeIs ==
    \A c \in Callers :
        pc[c] = "done" /\ ret[c].ok /\ req[c].op \in {"Find", "Move"}
        => place[ret[c].vol] = ret[c].server

\* The calls behave like the indivisible one-volume operations of VolumeStore.
Store == INSTANCE VolumeStore WITH place <- place, attr <- attr, asked <- asked
ImplementsStore == Store!Spec

\* Every call returns: nobody waits for a mutex forever, and the polling loops
\* and the search end, whatever the appliance answers.
CallsReturn == \A c \in Callers : pc[c] # "idle" ~> pc[c] = "idle"
=============================================================================

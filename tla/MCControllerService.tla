------------------------ MODULE MCControllerService ------------------------
(***************************************************************************)
(* Small instances of ControllerService for TLC: servers s1 and s2, which  *)
(* are the nodes n1 and n2. Every claim is provisioned on s1, so that      *)
(* publishing to n2 moves its volume.                                      *)
(***************************************************************************)
EXTENDS ControllerService, TLC

CONSTANTS s1, s2, root1, root2, n1, n2, NewIds,
          Labelled,   \* the nodes that carry a label
          Renamed     \* is the VM of n1 unknown, and that of n2 named after n1?

MCRootOf == [s \in Servers |-> IF s = s1 THEN root1 ELSE root2]
MCVolIds == {MCRootOf[s] : s \in Servers} \cup NewIds
MCHomeOf == [n \in Names |-> s1]

MCServerOf == [node \in Nodes |-> IF node = n1 THEN s1 ELSE s2]
MCLabelOf  == [node \in Nodes |-> IF node \in Labelled THEN MCServerOf[node]
                                                       ELSE None]

\* Resizes take effect at once; or may be late on s2, where a claim's volume is
\* deleted after a move.
AtOnce       == [s \in Servers |-> 0]
DeferredAway == [s \in Servers |-> IF s = s1 THEN 0 ELSE 1]
Deferred     == [s \in Servers |-> 1]

\* The search for "n1" also returns a server whose name contains it.
MCMatches == [node \in Nodes |-> IF Renamed THEN {s2}
                                 ELSE IF node = n1 THEN {s1, s2} ELSE {s2}]
MCExact   == [node \in Nodes |-> IF node = n1 /\ ~Renamed THEN {s1} ELSE {}]

MCSymmetry == Permutations(NewIds) \cup Permutations(Callers)
MCClaimSymmetry == MCSymmetry \cup Permutations(Names)
=============================================================================

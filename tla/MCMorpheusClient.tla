-------------------------- MODULE MCMorpheusClient --------------------------
(***************************************************************************)
(* Small instances of MorpheusClient for TLC: servers s1 and s2, their     *)
(* root disks and a few ids for new volumes. Bounds are in the cfg files.  *)
(***************************************************************************)
EXTENDS MorpheusClient, TLC

CONSTANTS s1, s2, root1, root2, claim1, claim2, NewIds

MCRootOf == [s \in Servers |-> IF s = s1 THEN root1 ELSE root2]
MCVolIds == {MCRootOf[s] : s \in Servers} \cup NewIds

\* Both claims use the storage class of s1: they contend for one array.
MCHomeOf == [n \in Names |-> s1]

\* Resizes take effect at once, or one on s1 may be late.
AtOnce       == [s \in Servers |-> 0]
DeferredHome == [s \in Servers |-> IF s = s1 THEN 1 ELSE 0]

MCSymmetry == Permutations(NewIds) \cup Permutations(Callers)
=============================================================================

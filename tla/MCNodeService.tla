--------------------------- MODULE MCNodeService ---------------------------
(***************************************************************************)
(* Small instances of NodeService for TLC: volumes v1 and v2, names sda    *)
(* and sdb. Bounds are in the cfg files.                                   *)
(***************************************************************************)
EXTENDS NodeService

CONSTANTS v1, v2, sda

\* What CreateVolume recorded: nothing, or a name v1 had elsewhere.
NoContext  == [v \in Volumes |-> None]
OldContext == [v \in Volumes |-> IF v = v1 THEN sda ELSE None]

\* The sizes tell the volumes apart: v1 may grow from 1 GiB to 3, v2 has 2.
HintsApart == [v \in Volumes |-> IF v = v1 THEN 1 ELSE 2]
SizesApart == [v \in Volumes |-> IF v = v1 THEN {1, 3} ELSE {2}]
SizesFixed == [v \in Volumes |-> {HintsApart[v]}]

\* They do not: v1 may grow to the size of v2; or all volumes are of 1 GiB.
SizesMeet == [v \in Volumes |-> IF v = v1 THEN {1, 2} ELSE {2}]
HintsSame == [v \in Volumes |-> 1]
SizesSame == [v \in Volumes |-> {1}]
=============================================================================

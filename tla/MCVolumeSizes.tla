--------------------------- MODULE MCVolumeSizes ---------------------------
(***************************************************************************)
(* Small instances of VolumeSizes for TLC, with 4 bytes to a GiB: v1 is    *)
(* reported in bytes, v2 in GiB. Requests need not be whole GiB, and some  *)
(* have a limit they exceed or that rounding up exceeds.                   *)
(***************************************************************************)
EXTENDS VolumeSizes

CONSTANTS v1, v2

Fields == [v \in Volumes |-> IF v = v1 THEN "maxStorage" ELSE "size"]

Ranges(required) == [required : required, limit : {0, 9}]

\* v1 has more than one GiB.
AboveOneGiB == [v \in Volumes |-> Ranges(IF v = v1 THEN 5 .. 13 ELSE 0 .. 9)]

\* Volumes of one GiB.
OneGiB == [v \in Volumes |-> Ranges({4})]
=============================================================================

------------------------------- MODULE Search -------------------------------
(***************************************************************************)
(* The result of a loop over the indices of a hardware table: the driver   *)
(* scans upwards and stops at the first hit, or scans downwards and keeps  *)
(* the last one.                                                           *)
(***************************************************************************)
EXTENDS Naturals

Highest(i, S) == i \in S /\ \A j \in S : j <= i
Lowest(i, S)  == i \in S /\ \A j \in S : i <= j
=============================================================================

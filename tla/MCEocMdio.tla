----------------------------- MODULE MCEocMdio -----------------------------
(***************************************************************************)
(* Instance of EocMdio for TLC: two registers are enough for a frame about *)
(* another register, two values for a write that changes something.        *)
(***************************************************************************)
EXTENDS EocMdio, TLC
=============================================================================

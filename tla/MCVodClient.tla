---------------------------- MODULE MCVodClient ----------------------------
(***************************************************************************)
(* Instance of VodClient for TLC.  Two queued names are what choosing a    *)
(* position leaves behind; they stay queued while further handlers run.    *)
(***************************************************************************)
EXTENDS VodClient
=============================================================================

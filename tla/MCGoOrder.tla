----------------------------- MODULE MCGoOrder -----------------------------
(***************************************************************************)
(* Instance of GoOrder for TLC.                                            *)
(***************************************************************************)
EXTENDS GoOrder
=============================================================================

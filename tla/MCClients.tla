------------------------------ MODULE MCClients ------------------------------
(***************************************************************************)
(* The instance of Clients for TLC.                                        *)
(***************************************************************************)
EXTENDS Clients, TLC
=============================================================================

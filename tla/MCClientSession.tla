---------------------------- MODULE MCClientSession ----------------------------
(***************************************************************************)
(* ClientSession for one page or two.                                      *)
(***************************************************************************)
EXTENDS ClientSession
=============================================================================

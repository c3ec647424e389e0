---------------------------- MODULE MCSubgraphs ------------------------------
(***************************************************************************)
(* A small instance of Subgraphs: a stateful child that does not ask.      *)
(***************************************************************************)
EXTENDS Subgraphs
=============================================================================

---------------------------- MODULE MCTraveller ----------------------------
(***************************************************************************)
(* Traveller on the graphs of MCCoupledSearch.                             *)
(***************************************************************************)
EXTENDS MCCoupledSearch, Traveller
=============================================================================

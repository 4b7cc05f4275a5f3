---------------------------- MODULE IntrusiveListMC ----------------------------
(***************************************************************************)
(* A small instance of IntrusiveList: three nodes are enough for a node    *)
(* with two neighbours, two lists for a node to move between.              *)
(***************************************************************************)
EXTENDS IntrusiveList
=============================================================================

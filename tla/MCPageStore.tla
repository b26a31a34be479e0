---------------------------- MODULE MCPageStore ----------------------------
(* Instances of PageStore for TLC.                                         *)
EXTENDS PageStore
=============================================================================

---------------------------- MODULE MCSwarmBoard ----------------------------
(* A board of one lane. *)
EXTENDS SwarmBoard

Solo == <<{}>>
=============================================================================

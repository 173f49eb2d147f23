-------------------------- MODULE MCInterceptBroker --------------------------
(***************************************************************************)
(* InterceptBroker on small sets of flows.  The flows of Ads match an      *)
(* auto_forward_regex unless a plugin sends them elsewhere; the others     *)
(* match it only once a plugin has.  Each group is interchangeable.        *)
(***************************************************************************)
EXTENDS InterceptBroker, TLC

CONSTANT Ads

MCAutoForward == (Ads \X {"original"}) \cup ((Flow \ Ads) \X Rewritten)

\* Sound for the runs without liveness properties.
Symmetry == Permutations(Flow \ Ads)
=============================================================================

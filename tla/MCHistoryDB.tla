----------------------------- MODULE MCHistoryDB -----------------------------
(***************************************************************************)
(* HistoryDB with three flows, two of them with the same request, and two  *)
(* reports of one finding.                                                 *)
(***************************************************************************)
EXTENDS HistoryDB, TLC

CONSTANTS f1, f2, f3, getA, getB, r1, r2, secret

MCRequestOf == f1 :> getA @@ f2 :> getA @@ f3 :> getB
MCFindingOf == r1 :> secret @@ r2 :> secret
=============================================================================

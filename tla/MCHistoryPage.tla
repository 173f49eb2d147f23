----------------------------- MODULE MCHistoryPage -----------------------------
(***************************************************************************)
(* HistoryPage on a small table.                                           *)
(***************************************************************************)
EXTENDS HistoryPage
=============================================================================

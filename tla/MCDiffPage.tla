----------------------------- MODULE MCDiffPage -----------------------------
(***************************************************************************)
(* DiffPage with every text of up to three lines over four lines, and two  *)
(* texts with a body that pretty printing gives other lines.               *)
(***************************************************************************)
EXTENDS DiffPage

CONSTANTS a, b, json, open

MCToken == {a, b, json, open}
Line == {<<>>, <<a>>, <<b>>, <<a, b>>}
MCRaws ==
    UNION {[1 .. n -> Line] : n \in 0 .. 3}
      \cup {<< <<json>>, <<>>, <<open, a>> >>, << <<json>>, <<>>, <<open, b>> >>}
MCTyped == <<json>>
=============================================================================

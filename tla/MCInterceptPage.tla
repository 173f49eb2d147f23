--------------------------- MODULE MCInterceptPage ---------------------------
(***************************************************************************)
(* InterceptPage, that is proxy, broker and page together, on small        *)
(* instances.                                                              *)
(***************************************************************************)
EXTENDS InterceptPage

\* What a person typed, a response and what a plugin wrote do not come out of
\* the parsers as they went in; a request nobody touched does.
MCParse ==
    [text \in B!RequestText \cup B!ResponseText |->
        IF text \in Drafts \cup Rewritten \cup {"upstream"}
        THEN CHOOSE p \in Parsed : TRUE ELSE text]

\* The flows can be renamed freely: none is singled out by a constant.
Symmetry == Permutations(Flow)
=============================================================================

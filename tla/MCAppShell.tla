------------------------------ MODULE MCAppShell ------------------------------
(***************************************************************************)
(* AppShell on a small instance, and the copy formats on every request of  *)
(* up to four lines.                                                       *)
(***************************************************************************)
EXTENDS AppShell, CopyFormats

CopyLines ==
    {Blank, CR, TextLine("t"), Header("host", "h"), Header("host", "h2"),
     Header("content-length", "1"), Header("content-type", "c")}
CopyPath == [base |-> "/p", query |-> "q"]
CopyRaws ==
    [first : {<<"GET">>, <<"GET", CopyPath, "HTTP/1.1">>, <<"GET", [CopyPath EXCEPT !.query = "none"]>>},
     lines : UNION {[1 .. n -> CopyLines] : n \in 0 .. 4}]

ASSUME CopiesAgree ==
    \A raw \in CopyRaws, scheme \in {"", "http"} :
        OverlaysAgree(raw, scheme) /\ SnippetsFaithful(raw, scheme) /\ LengthLeftOut(raw, scheme)
=============================================================================

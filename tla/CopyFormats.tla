------------------------------ MODULE CopyFormats ------------------------------
(***************************************************************************)
(* What the two copy overlays put into the clipboard                       *)
(* (internal/ui/components/copy and copyas), and the parser they rest on   *)
(* (internal/util/rawhttp.go).                                             *)
(*                                                                         *)
(* A raw request is its first line, split at spaces, and the lines after   *)
(* it, "\r\n" and "\n" ending a line alike.  A line is empty, a lone "\r", *)
(* a header, or a text without ": ".  Header names are compared without    *)
(* regard to case.  A snippet is what it says is to be sent; how it is     *)
(* worded and quoted is left out.                                          *)
(***************************************************************************)
EXTENDS Integers, Sequences, FiniteSets, SequencesExt, FiniteSetsExt

Blank == <<"blank">>
CR    == <<"cr">>
Header(name, value) == <<"header", name, value>>
TextLine(t) == <<"text", t>>

IsHeader(l) == l[1] = "header"
Named(l, names) == IsHeader(l) /\ l[2] \in names

\* strings.TrimRight(..., "\n") of joined lines.
TrimRight(lines) ==
    LET written == {k \in DOMAIN lines : lines[k] # Blank}
    IN  IF written = {} THEN <<>> ELSE SubSeq(lines, 1, Max(written))

\* The position of the first line that is one of "ends", or one after the last.
FirstOf(lines, ends) ==
    Min({k \in DOMAIN lines : lines[k] \in ends} \cup {Len(lines) + 1})

Before(lines, k) == SubSeq(lines, 1, k - 1)
After(lines, k) == SubSeq(lines, k + 1, Len(lines))

\* The value of the last Host header, as each one replaces the one before.
HostOf(headers) ==
    LET hosts == {k \in DOMAIN headers : Named(headers[k], {"host"})}
    IN  IF hosts = {} THEN "" ELSE headers[Max(hosts)][3]

NoPath == [base |-> "", query |-> "none"]
Method(raw) == raw.first[1]
Path(raw) == IF Len(raw.first) >= 2 THEN raw.first[2] ELSE NoPath

ParseRawRequest(raw) ==
    LET end == FirstOf(raw.lines, {Blank, CR})
        headers == SelectSeq(Before(raw.lines, end), IsHeader)
    IN  [method |-> Method(raw), path |-> Path(raw), host |-> HostOf(headers),
         headers |-> headers, body |-> TrimRight(After(raw.lines, end))]

FullURL(scheme, host, path) ==
    [scheme |-> IF scheme = "" THEN "https" ELSE scheme, host |-> host, path |-> path]
-----------------------------------------------------------------------------
(* The copy overlay: extract, of "headers", "body" and "url".  It looks    *)
(* for an empty line by itself, a lone "\r" is not one.                    *)

ExtractHeaders(raw) == Before(raw.lines, FirstOf(raw.lines, {Blank}))
ExtractBody(raw) == TrimRight(After(raw.lines, FirstOf(raw.lines, {Blank})))
ExtractURL(raw, scheme) == FullURL(scheme, HostOf(ExtractHeaders(raw)), Path(raw))
-----------------------------------------------------------------------------
(* The copy-as overlay: formatAs.                                          *)

Without(headers, names) == SelectSeq(headers, LAMBDA h : ~Named(h, names))

\* A map of names to values keeps the last value of a name.
AsMap(headers) ==
    LET last == {k \in DOMAIN headers : \A j \in DOMAIN headers : j > k => headers[j][2] # headers[k][2]}
    IN  [k \in 1 .. Cardinality(last) |-> headers[SetToSortSeq(last, <)[k]]]

Snippet(url, headers, body) == [url |-> url, headers |-> headers, body |-> body]
UrlOf(pr, scheme) == FullURL(scheme, pr.host, pr.path)

ToMarkdown(pr, scheme) == Snippet(UrlOf(pr, scheme), pr.headers, pr.body)
ToCurl(pr, scheme) == Snippet(UrlOf(pr, scheme), Without(pr.headers, {"content-length"}), pr.body)

\* The dictionary of the script, and Header.Set, keep one value of a name.
ToPython(pr, scheme) == Snippet(UrlOf(pr, scheme), AsMap(Without(pr.headers, {"content-length"})), pr.body)
ToGo(pr, scheme) == Snippet(UrlOf(pr, scheme), AsMap(Without(pr.headers, {"host", "content-length"})), pr.body)

\* "<<< %q": the line breaks of a body are written as \n, which the shell
\* leaves as they are, in one line.
ToHTTPie(pr, scheme) ==
    Snippet(UrlOf(pr, scheme), Without(pr.headers, {"content-length"}),
            IF Len(pr.body) <= 1 THEN pr.body ELSE << <<"escaped", pr.body>> >>)

\* FUZZ takes the place of the query; an empty scheme stays empty.
ToFFUF(pr, scheme) ==
    Snippet([scheme |-> scheme, host |-> pr.host, path |-> [base |-> pr.path.base, query |-> "FUZZ"]],
            Without(pr.headers, {"content-length"}), pr.body)

\* What follows from these (query list, type of the body) is left out.
ToHAR(pr, scheme) == Snippet(UrlOf(pr, scheme), pr.headers, pr.body)
-----------------------------------------------------------------------------
\* The snippets that send a request.
Snippets(pr, scheme) ==
    {ToMarkdown(pr, scheme), ToCurl(pr, scheme), ToPython(pr, scheme), ToGo(pr, scheme), ToHAR(pr, scheme)}

\* The two overlays agree on the URL and on the body of a request without a
\* lone "\r", and the URL names the host of the Host header.
OverlaysAgree(raw, scheme) ==
    LET pr == ParseRawRequest(raw)
    IN  CR \notin ToSet(raw.lines) =>
          /\ ExtractURL(raw, scheme) = UrlOf(pr, scheme)
          /\ ExtractBody(raw) = pr.body
          /\ SelectSeq(ExtractHeaders(raw), IsHeader) = pr.headers

\* Every snippet sends the request to its URL with its body, and with all its
\* headers but those that its sender makes itself, if no name occurs twice.
SnippetsFaithful(raw, scheme) ==
    LET pr == ParseRawRequest(raw)
        h  == pr.headers
        NameOnce == \A j, k \in DOMAIN h : h[j][2] = h[k][2] => j = k
        Kept(s) == NameOnce => Without(h, {"host", "content-length"}) = Without(s.headers, {"host", "content-length"})
    IN  /\ \A s \in Snippets(pr, scheme) : s.url = UrlOf(pr, scheme) /\ s.body = pr.body /\ Kept(s)
        /\ Kept(ToHTTPie(pr, scheme)) /\ Kept(ToFFUF(pr, scheme))
        /\ ToFFUF(pr, scheme).url.path.base = pr.path.base

\* No snippet repeats a length that an edit of its body would make wrong,
\* except the two that only document the request.
LengthLeftOut(raw, scheme) ==
    LET pr == ParseRawRequest(raw)
    IN  \A s \in {ToCurl(pr, scheme), ToPython(pr, scheme), ToGo(pr, scheme), ToHTTPie(pr, scheme), ToFFUF(pr, scheme)} :
          \A k \in DOMAIN s.headers : s.headers[k][2] # "content-length"
=============================================================================

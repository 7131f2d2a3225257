----------------------------- MODULE ProxyRequest -----------------------------
(***************************************************************************)
(* What the HTTP proxy of src/Examples/HTTP-proxy does to the text of a    *)
(* request: parseRequest of main.c, on the strings of SXString.            *)
(***************************************************************************)
EXTENDS SXString

CONSTANTS Methods, Schemes, Hosts   \* bound: the parts requests are built of

\* A part of a request contains none of what ends one in it, and a host has a name.
ASSUME ProxyRequestAssumption ==
    /\ \A w \in Methods \cup Schemes \cup Hosts :
         w \in Seq(ToSet(w)) /\ ToSet(w) \cap {" ", "/", "\r"} = {}
    /\ <<>> \notin Hosts

Space == <<" ">>
CRLF  == <<"\r", "\n">>
Sep   == <<":", "/", "/">>

-----------------------------------------------------------------------------
(* trimURLProtocol(string, offset): offset is where the URL begins.  The   *)
(* range it removes begins at the difference of two positions, and is that *)
(* and three bytes long.                                                   *)

\* Mutant: the separator is taken to be two bytes long.
TrimRangeShort(s, offset) ==
    LET loca == SXStringSubStringLocation(s, Sep, 0)
    IN  <<loca - offset, loca - offset + 2>>

TrimRange(s, offset) ==
    LET loca == SXStringSubStringLocation(s, Sep, 0)
    IN  <<loca - offset, loca - offset + 3>>

trimURLProtocolDefined(s, offset) ==
    /\ SXStringSubStringLocation(s, Sep, 0) # -1
    /\ InRange(s, TrimRange(s, offset)[1], TrimRange(s, offset)[2])

trimURLProtocol(s, offset) ==
    SXStringRemovingRange(s, TrimRange(s, offset)[1], TrimRange(s, offset)[2])

-----------------------------------------------------------------------------
(* parseRequest.                                                           *)

Lines(text) == SXStringSubStringsTrimmedByString(text, CRLF)

Words(line) == SXStringSubStringsTrimmedByString(line, Space)

\* One past the first space of the first line.
UrlStart(line) == SXStringSubCStringLocations(line, Space)[1] + 1

\* The first line without scheme and host name; the host name is the second word of
\* the second line, whatever header that is.
Rewritten(text) ==
    SXStringRemoveOcurrenceOfCString(
        trimURLProtocol(Lines(text)[1], UrlStart(Lines(text)[1])),
        Words(Lines(text)[2])[2])

\* The texts parseRequest gets through without reading a NULL vector, an item a
\* vector does not have, or memory outside a string.
parseRequestDefined(text) ==
    /\ SXStringSubStringsTrimmedByStringDefined(text, CRLF)
    /\ SXStringSubCStringLocations(Lines(text)[1], Space) # <<>>
    /\ trimURLProtocolDefined(Lines(text)[1], UrlStart(Lines(text)[1]))
    /\ SXStringSubStringsTrimmedByStringDefined(Lines(text)[2], Space)
    /\ SXStringReplacingOccurrencesOfStringDefined(text, Lines(text)[1], Rewritten(text))

\* The host name, and the text with every occurrence of its first line rewritten.
parseRequest(text) ==
    [domain |-> Words(Lines(text)[2])[2],
     text   |-> SXStringReplacingOccurrencesOfString(text, Lines(text)[1], Rewritten(text), {})]

-----------------------------------------------------------------------------
(* Properties.                                                             *)

Path == <<"/">>

Request(method, scheme, host) ==
    method \o Space \o scheme \o Sep \o host \o Path \o CRLF \o <<"H">> \o Space \o host \o CRLF

\* The form the comment at main.c:59-70 promises.
Form(method, host) ==
    method \o Space \o Path \o CRLF \o <<"H">> \o Space \o host \o CRLF

\* The range that is meant to be the scheme also takes the k characters by which that is
\* too long from the host, and leaves as many of the scheme: the host is found and removed
\* only if they are its own, and removed from the method too if that contains it.
Fits(m, s, h) ==
    LET k == Len(s) - (Len(m) + 1)
    IN  k \in 0..Len(h) /\ SubSeq(s, 1, k) = SubSeq(h, 1, k) /\ Occurrences(m, h) = {}

\* What can be relied on of a request with a scheme and a host line: unless the scheme is
\* longer than all of the rest it is read within its bounds; where it is, its host is
\* found; and one that Fits is given the documented form, as GET and http do
\* (main.c:54-102).
ParserSound ==
    \A m \in Methods, s \in Schemes, h \in Hosts :
        LET text == Request(m, s, h)
        IN  /\ Len(s) <= Len(m) + Len(h) + 2 => parseRequestDefined(text)
            /\ parseRequestDefined(text) => parseRequest(text).domain = h
            /\ parseRequestDefined(text) /\ Fits(m, s, h)
                 => parseRequest(text).text = Form(m, h)

\* And exactly what the code does: no other request is read within its bounds, none but
\* those that Fit takes the documented form (POST and http never do, GET and https by
\* chance for a host that begins with h), and the parser does not survive a request with
\* no scheme before its path, as CONNECT makes, or one of a single line.
ParserExact ==
    \A m \in Methods, h \in Hosts :
        /\ \A s \in Schemes :
             LET text == Request(m, s, h)
             IN  /\ parseRequestDefined(text) <=> Len(s) <= Len(m) + Len(h) + 2
                 /\ parseRequestDefined(text) =>
                      /\ parseRequest(text).domain = h
                      /\ parseRequest(text).text = Form(m, h) <=> Fits(m, s, h)
        /\ ~parseRequestDefined(Form(m, h))
        /\ ~parseRequestDefined(m \o Space \o h)
=============================================================================

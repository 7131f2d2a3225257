------------------------------ MODULE SwiftData ------------------------------
(***************************************************************************)
(* The search of Helper.swift (findBytes) and the segments NSDataSegment   *)
(* cuts data into with it, as the proxy of the Swift examples does with    *)
(* its requests.  Data are sequences of bytes, positions from 0.           *)
(*                                                                         *)
(* The search compares a whole separator at every position up to the end,  *)
(* so at the last ones it reads bytes that are not the data's.  They may   *)
(* be anything: an operator gives the set of what the code may return.     *)
(***************************************************************************)
EXTENDS SXString

\* Less than a separator is left, and the foreign bytes after it may complete it.
MayMatchAt(d, i, b) == Len(d) - i < Len(b) /\ IsPrefix(SubSeq(d, i + 1, Len(d)), b)

\* -1 stands for nil.  At the end the loop gives up, and returns that position too.
findBytes(d, b, offset) ==
    LET found == {i \in offset..Len(d) - Len(b) : MatchesAt(d, i, b)}
    IN  CASE d = <<>> \/ Len(b) + offset > Len(d) -> {-1}
          [] Len(b) + offset <= Len(d) /\ found # {} -> {Min(found)}
          [] OTHER -> {i \in offset..Len(d) : i = Len(d) \/ MayMatchAt(d, i, b)}

\* Mutant: the next search begins one byte on, in the separator.
nextInside(d, b, from) ==
    { [val |-> SubSeq(d, from + 1, e), nextOffset |-> e + 1] : e \in findBytes(d, b, from) \ {-1} }

\* curVal and where the search goes on; none is the nil of next().
next(d, b, from) ==
    { [val |-> SubSeq(d, from + 1, e), nextOffset |-> e + Len(b)] : e \in findBytes(d, b, from) \ {-1} }

\* findall, its handler never content: every sequence of values it may be given.  An
\* empty separator is found where it was, for ever.
findallDefined(b) == b # <<>>
findall(d, b) ==
    LET Rest[from \in 0..Len(d) + Len(b)] ==
            IF next(d, b, from) = {} THEN {<<>>}
            ELSE UNION {{<<n.val>> \o vals : vals \in Rest[n.nextOffset]} : n \in next(d, b, from)}
    IN  Rest[0]

\* The values are free of the separator, in their order and complete, except that the
\* end is lost where it is shorter than a separator, or is the beginning of one that
\* foreign bytes complete; data shorter than a separator have no values at all
\* (Helper.swift:36-85).
SegmentsSound ==
    \A d \in Texts, b \in {m \in Marks : findallDefined(m)} : \A vals \in findall(d, b) :
        /\ vals = <<>> <=> Len(d) < Len(b)
        /\ \A i \in DOMAIN vals : Occurrences(vals[i], b) = {}
        /\ vals # <<>> =>
             LET given == Joined(vals, b)
                 lost  == SubSeq(d, Len(given) + 1, Len(d))
             IN  /\ IsPrefix(given, d)
                 /\ IsPrefix(lost, b) \/ (IsPrefix(b, lost) /\ Len(lost) < 2 * Len(b))
=============================================================================

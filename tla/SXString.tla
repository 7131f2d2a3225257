------------------------------- MODULE SXString -------------------------------
(***************************************************************************)
(* The strings and vectors of SXString.c and SXVector.c, as values: a      *)
(* string is the sequence of its characters, its reference counts and      *)
(* buffers left out, a vector the sequence of its items.  Positions are    *)
(* the C code's, from 0.                                                   *)
(*                                                                         *)
(* Where the C code reads or writes outside its memory for some arguments, *)
(* an operator named ...Defined says for which arguments it does not.      *)
(***************************************************************************)
EXTENDS Integers, SequencesExt

CONSTANTS Texts,    \* bound: the strings the properties are stated for
          Marks     \* bound: what is looked for in them and put in its place

ASSUME SXStringAssumption == \A s \in Texts \cup Marks : s \in Seq(ToSet(s))

\* A for loop of n turns: step gives what the k-th makes of what the ones before left.
Loop(n, start, step(_, _)) ==
    LET after[k \in 0..n] == IF k = 0 THEN start ELSE step(after[k - 1], k)
    IN  after[n]

-----------------------------------------------------------------------------
(* Vectors.  count is what the vector believes it holds, mem the items its *)
(* memory has room for, given the items handed to dealloc.                 *)

SXCreateVectorWithArray(items) == [count |-> Len(items), mem |-> items, given |-> <<>>]

\* The item stays in memory; the count goes down.
SXVectorPopback(v) ==
    IF v.count <= 0 THEN v
    ELSE [v EXCEPT !.count = @ - 1, !.given = Append(@, v.mem[v.count])]

\* realloc keeps what fits, and the count is not touched; the loop that would
\* deallocate runs from count up to something smaller: never.
SXVectorResize(v, n) ==
    [v EXCEPT !.mem = SubSeq(v.mem, 1, IF n < Len(v.mem) THEN n ELSE Len(v.mem))]

\* dealloc for each of count items, then the memory.
SXFreeVectorDefined(v) == v.count <= Len(v.mem)
SXFreeVector(v) == v.given \o SubSeq(v.mem, 1, v.count)

-----------------------------------------------------------------------------
(* Searching.                                                              *)

\* !strncmp(s->chars + i, t, |t|): the terminator of s ends the comparison.
MatchesAt(s, i, t) == i + Len(t) <= Len(s) /\ SubSeq(s, i + 1, i + Len(t)) = t

\* All of them, overlapping ones too; <<>> stands for the NULL of no match.
SXStringSubCStringLocations(s, t) ==
    Loop(Len(s), <<>>,
         LAMBDA locas, k : IF MatchesAt(s, k - 1, t) THEN Append(locas, k - 1) ELSE locas)

\* The n-th, or -1 as a size_t.
SXStringSubStringLocation(s, t, n) ==
    LET locas == SXStringSubCStringLocations(s, t)
    IN  IF n < Len(locas) THEN locas[n + 1] ELSE -1

\* A string longer than cstr contains nothing, any other is compared at its start
\* only; if cstr is longer by two or more, the unsigned bound of the loop has wrapped.
SXStringContainsCString(s, cstr) ==
    CASE Len(s) > Len(cstr)      -> "no"
      [] Len(s) = Len(cstr)      -> IF s = cstr THEN "yes" ELSE "no"
      [] Len(s) = Len(cstr) - 1  -> "no"
      [] OTHER                   -> "loops"

-----------------------------------------------------------------------------
(* Cutting.                                                                *)

\* memcpy of len bytes from loca on: a negative len is a huge size_t.
InRange(s, loca, len) == loca >= 0 /\ len >= 0 /\ loca + len <= Len(s)

SXStringGetSubstringInRange(s, loca, len) == SubSeq(s, loca + 1, loca + len)

\* The ranges <<loca, len>> between the occurrences of t.
TrimRanges(s, t) ==
    LET locas == SXStringSubCStringLocations(s, t)
        n     == Len(locas)
    IN  [i \in 1..n + 1 |->
            CASE i = 1     -> <<0, locas[1]>>
              [] i = n + 1 -> LET len == Len(s) - (locas[n] + Len(t)) IN <<Len(s) - len, len>>
              [] OTHER     -> <<locas[i - 1] + Len(t), locas[i] - locas[i - 1] - Len(t)>>]

\* Without an occurrence the vector of locations is NULL, and read.
SXStringSubStringsTrimmedByStringDefined(s, t) ==
    /\ SXStringSubCStringLocations(s, t) # <<>>
    /\ \A i \in DOMAIN TrimRanges(s, t) :
         InRange(s, TrimRanges(s, t)[i][1], TrimRanges(s, t)[i][2])

SXStringSubStringsTrimmedByString(s, t) ==
    [i \in DOMAIN TrimRanges(s, t) |->
        SXStringGetSubstringInRange(s, TrimRanges(s, t)[i][1], TrimRanges(s, t)[i][2])]

\* The tail is moved down with a memcpy whose regions may overlap: it is taken to
\* copy forward.
SXStringRemovingRange(s, loca, len) ==
    SubSeq(s, 1, loca) \o SubSeq(s, loca + len + 1, Len(s))

\* One pass over the positions of a string that shrinks under it: what moves down to
\* the position of a removal is not looked at.
SXStringRemoveOcurrenceOfCString(s, t) ==
    Loop(Len(s), s,
         LAMBDA str, k : IF k - 1 < Len(str) /\ MatchesAt(str, k - 1, t)
                         THEN SXStringRemovingRange(str, k - 1, Len(t)) ELSE str)

\* do ... while the length has changed since it was last noted: one pass.
SXStringRemoveOcurrencesOfCStrings(s, t) == SXStringRemoveOcurrenceOfCString(s, t)

-----------------------------------------------------------------------------
(* Joining.  length is not changed and the bytes have no terminator.       *)

Object(s) == [length |-> Len(s), chars |-> s]

SXStringJoinCString(o, cstr) == [o EXCEPT !.chars = SubSeq(@, 1, o.length) \o cstr]

SXStringByJoiningSubStrings(pieces) ==
    Loop(Len(pieces) - 1, Object(pieces[1]),
         LAMBDA first, k : SXStringJoinCString(first, pieces[k + 1]))

-----------------------------------------------------------------------------
(* Replacing.  The loop fills buf up to a length computed beforehand; once *)
(* all locations are used it compares with the int after them: stray is    *)
(* the set of positions that this word of memory happens to name.          *)

\* Mutant: a replaced occurrence is not skipped in the source.
ReplaceStepKeeps(s, t, r, locas, stray, st) ==
    IF st.n < Len(locas) /\ st.pos = locas[st.n + 1]
    THEN [pos |-> st.pos + 1, n |-> st.n + 1, buf |-> st.buf \o r]
    ELSE [st EXCEPT !.pos = @ + 1, !.buf = Append(@, s[st.pos + 1])]

ReplaceStep(s, t, r, locas, stray, st) ==
    IF (st.n < Len(locas) /\ st.pos = locas[st.n + 1]) \/ (st.n >= Len(locas) /\ st.pos \in stray)
    THEN [pos |-> st.pos + Len(t), n |-> st.n + 1, buf |-> st.buf \o r]
    ELSE [st EXCEPT !.pos = @ + 1, !.buf = Append(@, s[st.pos + 1])]

\* What the loop fills: a negative total wraps to a huge one.
ReplacedLength(s, t, r) ==
    Len(s) + (Len(r) - Len(t)) * Len(SXStringSubCStringLocations(s, t))

\* The loop ends at the computed length or, for its result, at the terminator of s.
SXStringReplacingOccurrencesOfString(s, t, r, stray) ==
    LET locas == SXStringSubCStringLocations(s, t)
        total == ReplacedLength(s, t, r)
    IN  Loop(Len(s) + Len(locas), [pos |-> 0, n |-> 0, buf |-> <<>>],
             LAMBDA st, k : IF Len(st.buf) < total /\ st.pos < Len(s)
                            THEN ReplaceStep(s, t, r, locas, stray, st) ELSE st).buf

\* Without an occurrence the vector of locations is NULL, and read; with overlapping
\* ones the loop may run past the end of s.
SXStringReplacingOccurrencesOfStringDefined(s, t, r) ==
    /\ SXStringSubCStringLocations(s, t) # <<>>
    /\ ReplacedLength(s, t, r) \in 0..Len(SXStringReplacingOccurrencesOfString(s, t, r, {}))

\* The same loop into a new string ...
SXStringByReplacingOccurrencesOfString(s, t, r, stray) ==
    SXStringReplacingOccurrencesOfString(s, t, r, stray)

\* ... which the variant for C strings drops: the string stays what it was.
SXStringReplacingOccurrencesOfCString(s, ctarget, creplacement) == s

-----------------------------------------------------------------------------
(* Properties, of every string and mark of the instance.                   *)

Occurrences(s, t) == {i \in 0..Len(s) - 1 : MatchesAt(s, i, t)}

\* No two occurrences of t are closer than d.
Apart(s, t, d) == \A i, j \in Occurrences(s, t) : i < j => j - i >= d

Joined(pieces, t) ==
    Loop(Len(pieces) - 1, pieces[1], LAMBDA whole, k : whole \o t \o pieces[k + 1])

\* Splitting is safe exactly when the separator occurs and never overlaps itself, and
\* then the pieces are free of it and give the string back (SXString.c:92-119).
SplitSound ==
    \A s \in Texts, t \in Marks \ {<<>>} :
        /\ SXStringSubStringsTrimmedByStringDefined(s, t)
             <=> Occurrences(s, t) # {} /\ Apart(s, t, Len(t))
        /\ SXStringSubStringsTrimmedByStringDefined(s, t) =>
             LET pieces == SXStringSubStringsTrimmedByString(s, t)
             IN  /\ Joined(pieces, t) = s
                 /\ \A i \in DOMAIN pieces : Occurrences(pieces[i], t) = {}

\* Replacing in place, which counts bytes ahead and walks two positions at once,
\* agrees with cutting the string up and joining it with the replacement, and stays
\* within the string, unless occurrences overlap or the word after the locations
\* happens to name a position (SXString.c:130-166).
ReplaceSound ==
    \A s \in Texts, t \in Marks \ {<<>>}, r \in Marks :
        Occurrences(s, t) # {} /\ Apart(s, t, Len(t)) =>
            /\ SXStringReplacingOccurrencesOfStringDefined(s, t, r)
            /\ SXStringReplacingOccurrencesOfString(s, t, r, {})
                 = Joined(SXStringSubStringsTrimmedByString(s, t), r)

\* Removing, which shortens the string it is walking through, removes everything
\* when no two occurrences touch (SXString.c:228-253).
RemoveSound ==
    \A s \in Texts, t \in Marks \ {<<>>} :
        Occurrences(s, t) # {} /\ Apart(s, t, Len(t) + 1) =>
            SXStringRemoveOcurrencesOfCStrings(s, t)
                = Joined(SXStringSubStringsTrimmedByString(s, t), <<>>)

\* Joining what was split in two gives the bytes of the string without its mark, and
\* the length of the first piece (SXString.c:71-85).
JoinTwo ==
    \A s \in Texts, t \in Marks :
        SXStringSubStringsTrimmedByStringDefined(s, t) =>
            LET pieces == SXStringSubStringsTrimmedByString(s, t)
                whole  == SXStringByJoiningSubStrings(pieces)
            IN  /\ whole.length = Len(Head(pieces))
                /\ Len(pieces) = 2 => whole.chars = Joined(pieces, <<>>)

\* A string said to contain another does; the search that does not end is one for
\* something longer (SXString.c:177-184).
ContainsSound ==
    \A s \in Texts, t \in Marks :
        /\ SXStringContainsCString(s, t) = "yes" => MatchesAt(s, 0, t)
        /\ SXStringContainsCString(s, t) = "loops" => Len(t) > Len(s)

\* Whatever is popped, and however often a vector is resized without shrinking it
\* below its count, each of its items is given to dealloc exactly once
\* (SXVector.c:46-89).
ItemsGivenOnce ==
    \A size \in 0..3, pops \in 0..2, n \in 0..3 :
        LET Popped[k \in 0..2] ==
                IF k = 0 THEN SXCreateVectorWithArray([i \in 1..size |-> i])
                         ELSE SXVectorPopback(Popped[k - 1])
            resized == SXVectorResize(Popped[pops], n)
        IN  /\ SXFreeVectorDefined(resized) <=> n >= resized.count
            /\ SXFreeVectorDefined(resized) =>
                 /\ ToSet(SXFreeVector(resized)) = 1..size
                 /\ Len(SXFreeVector(resized)) = size

\* What the operations above compute of every short string is what their names say,
\* in the cases each of these names, although lengths are counted ahead, positions
\* move and counts go stale (SXString.c, SXVector.c).
StringsAgree == /\ SplitSound /\ ReplaceSound /\ RemoveSound
                /\ JoinTwo /\ ContainsSound /\ ItemsGivenOnce
=============================================================================

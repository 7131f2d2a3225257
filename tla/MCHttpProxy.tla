----------------------------- MODULE MCHttpProxy -----------------------------
(* Instances of HttpProxy for TLC. *)
EXTENDS HttpProxy

CONSTANTS c1, c2

TwoGuests == {c1, c2}
GuestSymmetry == Permutations(Conns)

Words0To(n, chars) == UNION {[1..k -> chars] : k \in 0..n}

ShortTexts == Words0To(4, {"a", "b"})
ShortMarks == Words0To(2, {"a", "b"})

Name    == <<"h", "o">>
Address == <<"1">>

SomeMethods == {[i \in 1..n |-> "M"] : n \in {1, 2, 3, 5}}
SomeSchemes == {[i \in 1..n |-> "s"] : n \in {1, 2, 3, 5}}

\* Besides, one host that begins as the schemes do and one that is a method.
SomeHosts   == {Name, Address, <<"s", "o">>, <<"M">>}
SomeAddresses == {Address}

\* One request by name, one by address, and one the parser does not survive.
SomeRequests == { Request(<<"M">>, <<"s", "s">>, Name),
                  Request(<<"M">>, <<"s", "s">>, Address),
                  Form(<<"M">>, Name) }
=============================================================================

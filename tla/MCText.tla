------------------------------- MODULE MCText -------------------------------
(***************************************************************************)
(* Calls of the builtins, each on the texts and numbers that are easy to   *)
(* get wrong for it, and programs that read their input.                   *)
(***************************************************************************)
EXTENDS FireText

C(name, args) == [name |-> name, args |-> args]

\* Every text of up to n of some bytes.
Texts(bytes, n) == BoundedSeq(bytes, n)

AB == {97, 98}

Searches ==
  { C(f, <<t, s>>) : f \in {"split", "find"}, t \in Texts(AB, 4), s \in Texts(AB, 2) }
    \cup { C("replace", <<t, s, u>>) : t \in Texts(AB, 4), s \in Texts(AB, 2),
                                       u \in {<<>>, <<97>>, <<98, 97>>} }
    \cup { C("join", <<ps, s>>) : ps \in BoundedSeq(Texts({97}, 1), 3), s \in Texts(AB, 1) }

\* Either side of every limit of ToUpper and ToLower, and a byte of a long character.
Cases == { C(f, <<t>>) : f \in {"upper", "lower"},
                         t \in {<<>>} \cup { <<x, 97>> : x \in {64, 65, 90, 91, 96, 97, 122, 123, 195} } }

Trims == { C("trim", <<t>>) : t \in Texts({32, 9, 97}, 4) }

\* Texts of a space, signs, digits, a letter and NUL.
Numbers == { C("int", <<t>>) : t \in Texts({32, 43, 45, 48, 55, 56, 97, 0}, 3) }

Repeats == { C("repeat", <<u, n>>) : u \in Texts({97}, 3), n \in IntRange }

\* Either side of every limit of the encoding.
Points == { 0, 65, 127, 128, 2047, 2048, 55296, 65535, 65536, 128293, 1114111, 1114112, -1 }
Characters ==
  { C("chr", <<n>>) : n \in Points }
    \cup { C("ord", <<t>>) : t \in Texts({97, 128, 195, 226, 240}, 2) }

Randoms == { C("rand_int", <<l, h>>) : l \in IntRange, h \in IntRange }

\* Programs that ask for lines and for the end in every order.
Readers == BoundedSeq({ C("input", <<>>), C("eof", <<>>) }, 5)

MCRuns ==
  { [calls |-> <<c>>, stdin |-> <<>>] :
      c \in Searches \cup Cases \cup Trims \cup Numbers \cup Repeats \cup Characters \cup Randoms }
    \cup { [calls |-> cs, stdin |-> t] : cs \in Readers, t \in Texts({97, 10, 13}, 3) }
=============================================================================

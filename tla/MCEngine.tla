------------------------------ MODULE MCEngine ------------------------------
(***************************************************************************)
(* Instances of Engine for TLC.  The rows differ in what a pass tells      *)
(* apart: the prompts share two, four or no tokens before their first      *)
(* marker, some with an image, and each flaw a row can have occurs.        *)
(***************************************************************************)
EXTENDS Engine

a == "a"
b == "b"
M == "M"

MCImages == {"photo", "copy", "other", "third", "broken"}

\* Two objects have the same bytes.
MCImageId ==
  [i \in MCImages |-> IF i \in {"photo", "copy"} THEN "photo id" ELSE i]

Text(tokens)         == [tokens |-> tokens, labels |-> 2, image |-> NoImage]
Picture(img, tokens) == [tokens |-> tokens, labels |-> 2, image |-> img]

Sound ==
  {Text(<<a, a, M, b, M>>), Text(<<a, a, b, M, M>>), Text(<<b, b, M, M>>),
   Text(<<a, a, M, b, b, M>>),
   Text(<<a, a, a, a, M, M>>), Text(<<a, a, a, a, b, M, M>>)}

Pictured ==
  {Picture("photo", <<a, a, M, M>>), Picture("photo", <<a, a, b, M, M>>),
   Picture("copy", <<a, a, M, b, M>>), Picture("other", <<b, M, M>>)}

Flawed ==
  {Text(<<>>), Text(<<a, a, a, a, a, a, M, M>>), Text(<<a, a, M>>),
   [Text(<<a, M>>) EXCEPT !.labels = 1],
   Picture("broken", <<a, a, M, M>>), Picture("other", <<a, a, a, a, a, M, M>>)}

\* A row with a flaw comes alone, or second after a sound one.
MCCalls ==
  {<<r>> : r \in Sound \cup Pictured \cup Flawed \cup {Picture("third", <<M, M>>)}}
    \cup {<<q, r>> : q, r \in Sound}
    \cup {<<q, r>> : q, r \in Pictured}
    \cup {<<Text(<<a, a, M, b, M>>), r>> : r \in Flawed \cup {Picture("copy", <<a, a, M, b, M>>)}}
    \cup {<<Text(<<b, b, M, M>>), Text(<<a, a, a, a, M, M>>), Text(<<a, a, M, b, M>>)>>}
=============================================================================

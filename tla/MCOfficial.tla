------------------------------ MODULE MCOfficial ------------------------------
(***************************************************************************)
(* Instances of Official for TLC: prompts of one state, or of none in      *)
(* common; a model that reads labels at the last token, one that reads a   *)
(* pointer behind its markers, and prompts the profile refuses.            *)
(***************************************************************************)
EXTENDS Official

Labels(ids)  == [kind |-> "labels", ids |-> ids, markers |-> <<>>]
Markers(ids) == [kind |-> "markers", ids |-> ids,
                 markers |-> <<Len(ids)>> \o [k \in 1..Len(ids) - 3 |-> k + 2]]
Of(kind)     == [Labels(<<"s", "s", "a">>) EXCEPT !.kind = kind]

a  == <<"s", "s", "a">>
b  == <<"s", "s", "b", "a">>
bb == <<"s", "s", "b", "b">>
c  == <<"t", "t", "t", "c">>
long == <<"s", "s", "a", "a", "a", "a">>

\* One question with two variants; two questions; three tasks; no common prefix.
Shapes(Task1(_)) ==
  {<<<<Task1(p)>>>> : p \in {a, b, long}}
    \cup {<<<<Task1(b), Task1(bb)>>>>, <<<<Task1(a)>>, <<Task1(bb)>>>>, <<<<Task1(a)>>, <<Task1(c)>>>>}
    \cup {<<<<Task1(b), Task1(bb)>>, <<Task1(a)>>>>, <<<<Task1(a)>>, <<Task1(b), Task1(long)>>>>}
    \cup {<<<<Task1(a), Task1(b)>>, <<Task1(bb), Task1(c)>>>>}

Refused == {Malformed, <<<<Of("joint")>>, <<Of("joint")>>>>, <<<<Labels(a)>>, <<Of("media")>>>>}

MCRequests == Shapes(Labels) \cup Shapes(Markers) \cup Refused

MCCalls ==
  {<<r>> : r \in MCRequests}
    \cup {<<<<<<Markers(b), Markers(bb)>>, <<Markers(a)>>>>, r>> : r \in Shapes(Markers) \cup Refused}
===============================================================================

------------------------------ MODULE MCRoutes ------------------------------
(***************************************************************************)
(* Instances of Routes for TLC: bodies of up to two requests of up to four *)
(* questions around a limit of three, every way a request can be wrong,    *)
(* every method on every path, two clients and a service with one place.   *)
(***************************************************************************)
EXTENDS Routes

Item(size) == [before |-> "none", size |-> size, after |-> "none"]

ItemSeqs ==
  {<<>>} \cup {<<Item(n)>> : n \in {0, 2, 3, 4}}
    \cup {<<Item(m), Item(n)>> : m, n \in 1..3}
    \cup {<<[Item(2) EXCEPT !.before = "json"]>>, <<[Item(4) EXCEPT !.before = "argument"]>>,
          <<Item(1), [Item(1) EXCEPT !.after = "argument"]>>, <<[Item(4) EXCEPT !.after = "json"]>>}

Post(path, kind, items) ==
  [method |-> "POST", path |-> path, bearer |-> TRUE, huge |-> FALSE, json |-> TRUE,
   kind |-> kind, items |-> items]

Bodies ==
  {Post(path, "array", items) : path \in Inferring, items \in ItemSeqs}
    \cup {Post("/v1/systemone", "object", items) : items \in {i \in ItemSeqs : Len(i) = 1}}
    \cup {Post("/predict", "other", <<[Item(1) EXCEPT !.before = "argument"]>>)}

One == Post("/predict", "object", <<Item(1)>>)

MCArrivals ==
  Bodies \cup {[One EXCEPT !.json = FALSE], [One EXCEPT !.huge = TRUE]}
    \cup {[One EXCEPT !.method = m, !.path = p, !.bearer = b] :
            m \in Methods, p \in Informing \cup Inferring \cup {"/other"}, b \in BOOLEAN}

Exchange == Permutations(Clients)
=============================================================================

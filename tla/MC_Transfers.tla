------------------------------ MODULE MC_Transfers ------------------------------
(* Requests for the two connections of the HTTP server. *)
EXTENDS Transfers

Asks(m, t, l, b) == [method |-> m, target |-> t, length |-> l, body |-> b]

Page == Asks("GET", "script", -1, 0)

\* Two scripts at once, and each kind of request beside one that is refused.
Pairs   == {<<Asks("POST", "script", 2, 2), Page>>, <<Asks("POST", "broken", 1, 1), Page>>}
Singles == {Asks("GET", t, -1, 0) : t \in {"file", "tail", "missing", "secret"}}
           \union {Asks("POST", "script", -1, 1), Asks("POST", "script", 1, 2),
                   Asks("POST", "script", 2, 1), Asks("POST", "file", 1, 1)}

AskedTogether == Pairs \union {<<r, Asks("PUT", "file", -1, 0)>> : r \in Singles}
===============================================================================

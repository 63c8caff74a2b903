--------------------------- MODULE MCHttpdSimple ----------------------------
(* Instances of HttpdSimple for TLC. *)
EXTENDS HttpdSimple

(* A request for the page, and another method. *)
SomeRequests == {<<"GET", "/name">>, <<"PUT">>}

(* No neighbour, and one routing link or no node at all. *)
SomeTables == {<<0>>, <<0, 1>>}
=============================================================================

----------------------------- MODULE MCSession -----------------------------
(* Tables of three seats for TLC: the protocol counts seats, never to four. *)
EXTENDS Session

Three == <<0, 1, 2>>
First == {0}
Nobody == {}
Second == {1}
=============================================================================

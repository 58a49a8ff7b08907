-------------------------- MODULE MCOutboxDatabase --------------------------
(* Two or three writers and a reader on one connection.                      *)
EXTENDS OutboxDatabase

CONSTANTS a, b, c, r

TwoWriters == {a, b}
ThreeWriters == {a, b, c}
OneReader == {r}
=============================================================================

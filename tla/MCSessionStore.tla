---------------------------- MODULE MCSessionStore ----------------------------
(* SessionStore with a root message and a reply, and two timer threads. *)
EXTENDS SessionStore

CONSTANTS m1, m2, w1, w2

MCMessages == {m1, m2}
MCWriters == {w1, w2}
=============================================================================

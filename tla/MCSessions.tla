----------------------------- MODULE MCSessions ------------------------------
(***************************************************************************)
(* An instance of Sessions for TLC: a session and its successor, with two  *)
(* requests at a time.                                                     *)
(***************************************************************************)
EXTENDS Sessions, TLC

CONSTANTS q1, q2, s1, s2

TwoRequests == {q1, q2}
TwoSessions == {s1, s2}
Symmetry == Permutations(TwoRequests) \cup Permutations(TwoSessions)
=============================================================================

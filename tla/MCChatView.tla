----------------------------- MODULE MCChatView ------------------------------
(***************************************************************************)
(* An instance of ChatView for TLC: a conversation that exists, one that a *)
(* message will begin, and a search that finds the second only.            *)
(***************************************************************************)
EXTENDS ChatView, TLC

CONSTANTS a, b, q1, q2

TwoChats == {a, b}
TwoSearches == {"all", "second"}
Finds == [f \in TwoSearches |-> IF f = "all" THEN TwoChats ELSE {b}]
Begun == {a}
Few == [c \in TwoChats |-> IF c = a THEN 2 ELSE 1]
TwoRequests == {q1, q2}
Symmetry == Permutations(TwoRequests)
=============================================================================

---------------------------- MODULE MCDirectSend ----------------------------
(***************************************************************************)
(* An instance of DirectSend for TLC: two submissions of one bulk send     *)
(* under one key, a list send without a key and a chat send.               *)
(***************************************************************************)
EXTENDS DirectSend, TLC

CONSTANTS b1, b2, l, c, kb

Mixed == {b1, b2, l, c}

Route(r) == IF r = l THEN "list" ELSE IF r = c THEN "chat" ELSE "bulk"
Key(r) == IF r \in {l, c} THEN NoKey ELSE kb

MCRouteOf == [r \in Requests |-> Route(r)]
MCKeyOf == [r \in Requests |-> Key(r)]

SubmissionSymmetry == Permutations(Requests \ {l, c})
=============================================================================

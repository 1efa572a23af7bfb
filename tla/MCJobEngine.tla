---------------------------- MODULE MCJobEngine -----------------------------
(***************************************************************************)
(* Instances of JobEngine for TLC: one job with two recipients, or that    *)
(* job and a second one with a single recipient.                           *)
(***************************************************************************)
EXTENDS JobEngine, TLC

CONSTANTS j1, j2, r1, r2, r3

OneJob == {j1}
OneJobItems == {r1, r2}
OneJobOf == [i \in OneJobItems |-> j1]

TwoJobs == {j1, j2}
TwoJobsItems == {r1, r2, r3}
TwoJobsOf == [i \in TwoJobsItems |-> IF i = r3 THEN j2 ELSE j1]

\* The outcomes that the worker tells apart, without two of one category.
AllCategories == {"sent", "not_on_whatsapp", "error", "skipped", "exception"}
AllOutcomes == AllCategories \cup {"not_ready"}
SentOrError == {"sent", "error"}

\* The recipients of the first job are interchangeable.
RecipientSymmetry == Permutations({r1, r2})
=============================================================================

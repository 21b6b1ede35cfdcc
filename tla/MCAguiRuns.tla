----------------------------- MODULE MCAguiRuns ------------------------------
(* Small instances of AguiRuns for TLC. *)
EXTENDS AguiRuns, TLC

CONSTANTS r1, r2, q1, q2, q3

\* What the system prompts ask of the agents, and batches they warn against.
Prompted == {<<"credentials">>, <<"submit">>, <<"malformed">>, <<"confirm">>}
Mixed == Prompted \cup {<<"other", "submit">>, <<"confirm", "credentials">>}
Parallel == {<<"submit">>, <<"other", "confirm">>, <<"confirm", "confirm">>}

Interchangeable == Permutations(Run) \cup Permutations(Request)

-----------------------------------------------------------------------------
\* What a comment says of a run and the code does not keep.

\* "Populated when a run pauses on confirm_listing_change" (backend/main.py).
PausedOnConfirm == \A r \in Run : pausedRuns[r] # None => pausedRuns[r].name = "confirm"
==============================================================================

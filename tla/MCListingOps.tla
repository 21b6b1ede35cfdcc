---------------------------- MODULE MCListingOps -----------------------------
(* Small instances of ListingOps for TLC. *)
EXTENDS ListingOps, TLC

CONSTANTS l1, l2, x, t1, t2, i1, i2, i3, marcus, dana

OneListing == [l \in {l1} |-> 4]
TwoListings == (l1 :> 4) @@ (l2 :> 6)

Interchangeable == Permutations(Invocation) \cup Permutations(Token)

-----------------------------------------------------------------------------
\* What the documentation says of a price change and the code does not keep.

\* "Confirm an exact listing price change" (app/brokerAgent/harness.json): the
\* price a write replaces is the old price the broker was shown, if that was the
\* listing's price when the agent asked.
OldPriceAsConfirmed ==
  \A w \in writes :
    mint[w.approvalToken].asRead => w.oldPrice = Shown(mint[w.approvalToken].oldPrice)

\* "After a successful write, tell the broker the change is recorded"
\* (app/brokerAgent/system-prompt.md): an updated price has its entry.
UpdatedIsRecorded ==
  \A i \in Invocation :
    call[i].pc = "done" /\ call[i].result = "updated" => LogEntry(i) \in changelog
===============================================================================

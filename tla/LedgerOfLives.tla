---------------------------- MODULE LedgerOfLives ----------------------------
(***************************************************************************)
(* PriceLedger with a reset: a listing may be put back to its opening      *)
(* price at any time, and a new life of it begins, with versions counted   *)
(* from 1 again.  Grants outlive the reset, so that one given in an        *)
(* earlier life may be spent on the edition of this life that has its      *)
(* number.  What holds of grants is what holds in PriceLedger: each under  *)
(* a token of its own, spent once, against its version.                    *)
(*                                                                         *)
(* Reseed is shown to implement this module.                               *)
(***************************************************************************)
EXTENDS PriceLedger

CONSTANT Opening   \* price each listing is put back to

VARIABLE existed   \* the editions there ever were, in whichever life

livesVars == <<vars, existed>>

LivesInit ==
  /\ Init /\ price = Opening
  /\ existed = {<<l, 1>> : l \in Listing}

\* A grant against an edition of this life or an earlier one.
IssueAgainst(t, e, p) == Issue(t, e[1], p, e[2]) /\ UNCHANGED existed

SpendAndNumber(g) ==
  /\ Spend(g)
  /\ existed' = existed \cup {<<g.listing, version'[g.listing]>>}

Reset(l) ==
  /\ price' = [price EXCEPT ![l] = Opening[l]]
  /\ version' = [version EXCEPT ![l] = 1]
  /\ UNCHANGED <<grant, granted, existed>>

LivesNext ==
  \/ \E t \in Token, e \in existed, p \in Price : IssueAgainst(t, e, p)
  \/ \E g \in grant : SpendAndNumber(g) \/ (Lose(g) /\ UNCHANGED existed)
  \/ \E l \in Listing : Reset(l)

LivesSpec == LivesInit /\ [][LivesNext]_livesVars
==============================================================================

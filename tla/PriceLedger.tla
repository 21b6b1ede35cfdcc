----------------------------- MODULE PriceLedger -----------------------------
(***************************************************************************)
(* What a confirmed price change promises, with no table, Lambda or clock  *)
(* in sight.  A grant is one broker's approval of one price for one        *)
(* listing, given against the version the listing had when the grant was   *)
(* made.  The asking price of a listing moves only by spending a grant,    *)
(* a grant is spent at most once, and it is worthless as soon as another   *)
(* change has moved the version on.  Grants may also be lost.              *)
(*                                                                         *)
(* ListingOps is shown to implement this module.                           *)
(***************************************************************************)
EXTENDS Naturals

CONSTANTS Listing, Token,
  Price   \* the prices a broker may approve

VARIABLES
  price,     \* asking price of each listing
  version,   \* number of the listing's current edition
  grant,     \* grants that may still be spent
  granted    \* tokens ever granted: none of them is granted again

vars == <<price, version, grant, granted>>

Grant == [token : Token, listing : Listing, price : Price, version : Nat]

Init ==
  /\ price \in [Listing -> Nat]
  /\ version = [l \in Listing |-> 1]
  /\ grant = {}
  /\ granted = {}

\* A broker's yes becomes a grant, under a token never granted before and
\* against an edition that exists.
Issue(t, l, p, v) ==
  /\ t \notin granted
  /\ grant' = grant \cup {[token |-> t, listing |-> l, price |-> p, version |-> v]}
  /\ granted' = granted \cup {t}
  /\ UNCHANGED <<price, version>>

\* The one way a price moves.
Spend(g) ==
  /\ g \in grant
  /\ version[g.listing] = g.version
  /\ price' = [price EXCEPT ![g.listing] = g.price]
  /\ version' = [version EXCEPT ![g.listing] = @ + 1]
  /\ grant' = grant \ {g}
  /\ UNCHANGED granted

\* Expiry, a stale version and a failed call all end a grant unspent.
Lose(g) ==
  /\ g \in grant
  /\ grant' = grant \ {g}
  /\ UNCHANGED <<price, version, granted>>

Next ==
  \/ \E t \in Token, l \in Listing, p \in Price : \E v \in 1..version[l] : Issue(t, l, p, v)
  \/ \E g \in grant : Spend(g) \/ Lose(g)

Spec == Init /\ [][Next]_vars
===============================================================================

------------------------------- MODULE Reseed --------------------------------
(***************************************************************************)
(* The tables of ListingOps put back to their opening state while changes  *)
(* are under way: the custom resource's handler                            *)
(* (services/seed/seed_handler.py), which `make seed` runs again.  It puts *)
(* every listing as version 1, then queries and clears each listing's      *)
(* changelog; it does not look at the approvals, and it may stop half-way. *)
(* The put of a listing begins a new life of it, in which the versions of  *)
(* the earlier ones come again.                                            *)
(***************************************************************************)
EXTENDS ListingOps

CONSTANT MaxReseeds   \* bound: runs of the handler

ASSUME ReseedsAssumption == MaxReseeds \in Nat

VARIABLES
  seeder,   \* the handler: its phase, the listings left, the rows it has queried
  reseeds,  \* runs of it so far
  undone,   \* history: the writes of earlier lives
  found     \* history: rows that its queries returned, and that were not put again

seeding == <<seeder, reseeds>>
reseedVars == <<vars, seeding, undone, found>>

SeederState ==
  [pc : {"rest", "put", "query", "delete", "failed"}, left : SUBSET Seeded, rows : SUBSET LogRow]

ReseedTypeOK ==
  /\ TypeOK
  /\ seeder \in SeederState /\ reseeds \in 0..MaxReseeds
  /\ undone \subseteq WriteRecord /\ found \subseteq LogRow

ReseedInit ==
  /\ Init
  /\ seeder = [pc |-> "rest", left |-> {}, rows |-> {}] /\ reseeds = 0
  /\ undone = {} /\ found = {}

-----------------------------------------------------------------------------
\* Everything else goes on.  Only an append puts an entry.
Appended(i) ==
  IF call[i].pc = "log" /\ call'[i].pc = "done" /\ call'[i].result # "timeout"
  THEN {LogEntry(i)} ELSE {}

Meanwhile ==
  /\ Next
  /\ found' = found \ UNION {Appended(i) : i \in Invocation}
  /\ UNCHANGED <<seeding, undone>>

\* A replica that lags may return an edition of an earlier life.
EarlierEditions(l) == {w.version + 1 : w \in {w \in undone : w.listingId = l}}

MintGetEarlier(t) ==
  /\ mint[t].pc = "get" /\ mint[t].listingId \in Seeded
  /\ \E v \in EarlierEditions(mint[t].listingId) :
       mint' = [mint EXCEPT ![t].pc = "put", ![t].version = v, ![t].mintedAt = now]
  /\ UNCHANGED <<tables, now, call, history, seeding, undone, found>>

\* on_event, Create or Update.
SeedStart ==
  /\ seeder.pc \in {"rest", "failed"} /\ reseeds < MaxReseeds
  /\ seeder' = [pc |-> "put", left |-> Seeded, rows |-> {}]
  /\ reseeds' = reseeds + 1
  /\ found' = {}
  /\ UNCHANGED <<vars, undone>>

\* Mutant: the price is put back and the version is not.
OpeningPriceOnly(l) ==
  [askingPrice |-> OpeningPrice[l], version |-> listings[l].version]

OpeningItem(l) == [askingPrice |-> OpeningPrice[l], version |-> 1]

\* batch.put_item has no condition.
SeedPut(l) ==
  /\ seeder.pc = "put" /\ l \in seeder.left
  /\ listings' = [listings EXCEPT ![l] = OpeningItem(l)]
  /\ undone' = undone \cup {w \in writes : w.listingId = l}
  /\ LET left == seeder.left \ {l}
     IN  seeder' = IF left # {} THEN [seeder EXCEPT !.left = left]
                   ELSE [seeder EXCEPT !.pc = "query", !.left = Seeded]
  /\ UNCHANGED <<approvals, changelog, now, mint, call, history, reseeds, found>>

LogOf(l) == {c \in changelog : c.listingId = l}

\* changelog.query: one page, and not a consistent read, so that it may return
\* any of the entries.
SeedQuery(l) ==
  /\ seeder.pc = "query" /\ l \in seeder.left
  /\ \E rows \in SUBSET LogOf(l) :
       /\ seeder' = [pc |-> "delete", left |-> seeder.left \ {l}, rows |-> rows]
       /\ found' = found \cup rows
  /\ UNCHANGED <<vars, reseeds, undone>>

\* batch.delete_item: by key, whatever is there by now.
SeedDelete(c) ==
  /\ seeder.pc = "delete" /\ c \in seeder.rows
  /\ changelog' = {d \in changelog : ~SameKey(d, c)}
  /\ seeder' = [seeder EXCEPT !.rows = @ \ {c}]
  /\ UNCHANGED <<listings, approvals, now, mint, call, history, reseeds, undone, found>>

\* Mutant: the batch is not flushed, its deletes are never sent.
BatchDropped == TRUE

BatchFlushed == seeder.rows = {}

SeedNextListing ==
  /\ seeder.pc = "delete" /\ BatchFlushed
  /\ seeder' = [seeder EXCEPT !.pc = IF seeder.left = {} THEN "rest" ELSE "query"]
  /\ UNCHANGED <<vars, reseeds, undone, found>>

\* A call fails, or the function's time is up.
SeedFails ==
  /\ seeder.pc \in {"put", "query", "delete"}
  /\ seeder' = [seeder EXCEPT !.pc = "failed"]
  /\ UNCHANGED <<vars, reseeds, undone, found>>

SeedStep ==
  \/ SeedStart \/ SeedNextListing \/ SeedFails
  \/ \E l \in Seeded : SeedPut(l) \/ SeedQuery(l)
  \/ \E c \in seeder.rows : SeedDelete(c)

ReseedNext == Meanwhile \/ SeedStep \/ \E t \in Token : MintGetEarlier(t)

ReseedSpec == ReseedInit /\ [][ReseedNext]_reseedVars

-----------------------------------------------------------------------------
\* In each life of a listing the versions number the writes made in it, from
\* the opening price on, and the table shows the last: a token of an earlier
\* life counts as a change of this one, and overwrites no change of it
\* (seed_handler.py:26-31 against handler.py:91-101).
LifeIsLinear ==
  \A l \in Seeded :
    LET ws == {w \in writes \ undone : w.listingId = l}
        PriceAt(v) == IF v = 1 THEN {OpeningPrice[l]}
                      ELSE {w.newPrice : w \in {w \in ws : w.version = v - 1}}
    IN  /\ {w.version : w \in ws} = 1..(listings[l].version - 1)
        /\ \A w \in ws : PriceAt(w.version) = {w.oldPrice}
        /\ PriceAt(listings[l].version) = {listings[l].askingPrice}

\* "A stale changelog row can mislead the agent into thinking a price change
\* already happened" (seed_handler.py:33-36): when the handler has finished, no
\* row that its queries returned is left, whatever was appended between a query
\* and its deletes, and unless the same entry was put again.  Which rows a query
\* returns nothing promises: one that it missed stays.
FoundIsCleared == seeder.pc = "rest" => found \cap changelog = {}

\* With the handler the tables and both programs implement a ledger in which
\* listings begin new lives and grants outlive them.
Lives == INSTANCE LedgerOfLives WITH
  Listing <- Seeded,
  Opening <- OpeningPrice,
  Price   <- {ToInt(a) : a \in Amount},
  price   <- [l \in Seeded |-> listings[l].askingPrice],
  version <- [l \in Seeded |-> listings[l].version],
  grant   <- {GrantOf(r) : r \in Live},
  granted <- {r.approvalToken : r \in issued},
  existed <- {<<l, 1>> : l \in Seeded} \cup {<<w.listingId, w.version + 1>> : w \in writes}

ImplementsLives == Lives!LivesSpec
==============================================================================

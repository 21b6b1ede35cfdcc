---------------------------- MODULE Reseed_proofs -----------------------------
(***************************************************************************)
(* Theorems about Reseed, for any number of listings, tokens, invocations  *)
(* and runs of the seed handler, with or without faults.  What ListingOps  *)
(* keeps by itself is cited from its own proofs.                           *)
(***************************************************************************)
EXTENDS Reseed, ListingOps_history

USE ListingAssumption, AmountAssumption, ClockAssumption, FaultsAssumption, ReseedsAssumption

-----------------------------------------------------------------------------
\* What the handler and the history add to the types and to single use.
SeedTypes ==
  /\ seeder \in SeederState /\ reseeds \in 0..MaxReseeds
  /\ undone \subseteq writes /\ found \subseteq LogRow

RInv == SInv /\ SeedTypes

LEMMA RInvInit == ReseedInit => RInv
  BY SInvInit DEF ReseedInit, RInv, SeedTypes, SeederState, Init

\* A mint may have read an edition of an earlier life.
LEMMA SInvEarlier ==
  ASSUME RInv, NEW t \in Token, MintGetEarlier(t)
  PROVE  SInv'
  <1> USE DEF RInv, SeedTypes, SInv
  <1>1. PICK v \in EarlierEditions(mint[t].listingId) :
          mint' = [mint EXCEPT ![t].pc = "put", ![t].version = v, ![t].mintedAt = now]
    BY DEF MintGetEarlier
  <1>2. v \in Nat /\ now \in Nat
    BY <1>1 DEF EarlierEditions, TInv, TypeOK, WriteRecord
  <1>3. /\ mint[t] \in MintState /\ mint[t].listingId \in Seeded /\ mint[t].pc = "get"
        /\ UNCHANGED <<listings, approvals, changelog, now, call, issued, writes>>
    BY DEF MintGetEarlier, TInv, TypeOK, Idle, tables, history
  <1>4. [mint[t] EXCEPT !.pc = "put", !.version = v, !.mintedAt = now] \in MintState
    BY <1>2, <1>3 DEF MintState
  <1>5. mint' \in [Token -> MintState \cup {Idle}] /\ \A s \in Token : s # t => mint'[s] = mint[s]
    BY <1>1, <1>4 DEF TInv, TypeOK
  <1>6. mint'[t].listingId = mint[t].listingId
    BY <1>1, <1>3 DEF TInv, TypeOK, MintState
  <1>7. TInv'
    BY <1>3, <1>5, <1>6 DEF TInv, TypeOK, FoundListing, Checked, CheckedRow, Matches
  <1>8. \A r \in issued : r.approvalToken \in Token /\ r.approvalToken # t
    BY <1>3 DEF TInv, TypeOK, Fresh, ApprovalRow
  <1>9. Fresh'
    BY <1>3, <1>5, <1>8 DEF Fresh, MintedRow
  <1> QED
    BY <1>3, <1>7, <1>9 DEF RowsIssued, Exclusive, Spent, WriteOf

\* The handler puts listings and deletes entries, and touches nothing else of
\* ListingOps.
LEMMA SInvSeed ==
  ASSUME RInv, SeedStep
  PROVE  SInv'
  <1> USE DEF RInv, SeedTypes, SInv
  <1>1. /\ UNCHANGED <<approvals, now, mint, call, issued, writes>>
        /\ listings' \in [Seeded -> [askingPrice : Nat, version : Nat \ {0}]]
        /\ changelog' \subseteq LogRow
    <2>1. CASE \E l \in Seeded : SeedPut(l)
      BY <2>1 DEF SeedPut, OpeningItem, history, TInv, TypeOK
    <2>2. CASE \E c \in seeder.rows : SeedDelete(c)
      BY <2>2 DEF SeedDelete, history, TInv, TypeOK
    <2>3. CASE SeedStart \/ SeedNextListing \/ SeedFails \/ \E l \in Seeded : SeedQuery(l)
      BY <2>3 DEF SeedStart, SeedNextListing, SeedFails, SeedQuery, vars, tables, history, TInv, TypeOK
    <2> QED
      BY <2>1, <2>2, <2>3 DEF SeedStep
  <1>2. TInv'
    BY <1>1 DEF TInv, TypeOK, FoundListing, Checked, CheckedRow, Matches
  <1> QED
    BY <1>1, <1>2 DEF Fresh, MintedRow, RowsIssued, Exclusive, Spent, WriteOf

LEMMA SeedTypesSeed ==
  ASSUME RInv, SeedStep
  PROVE  SeedTypes'
  <1> USE DEF RInv, SeedTypes, SeederState
  <1>1. CASE SeedStart
    BY <1>1 DEF SeedStart, vars, tables, history, SInv, TInv, TypeOK
  <1>2. CASE \E l \in Seeded : SeedPut(l)
    <2>1. PICK l \in Seeded : SeedPut(l)
      BY <1>2
    <2>2. /\ undone' = undone \cup {w \in writes : w.listingId = l}
          /\ UNCHANGED <<writes, reseeds, found>>
      BY <2>1 DEF SeedPut, history
    <2>3. seeder' \in SeederState
      BY <2>1 DEF SeedPut
    <2> QED
      BY <2>2, <2>3
  <1>3. CASE \E l \in Seeded : SeedQuery(l)
    BY <1>3 DEF SeedQuery, LogOf, vars, tables, history, SInv, TInv, TypeOK
  <1>4. CASE \E c \in seeder.rows : SeedDelete(c)
    BY <1>4 DEF SeedDelete, history
  <1>5. CASE SeedNextListing \/ SeedFails
    BY <1>5 DEF SeedNextListing, SeedFails, vars, history
  <1> QED
    BY <1>1, <1>2, <1>3, <1>4, <1>5 DEF SeedStep

LEMMA RInvStep == RInv /\ [ReseedNext]_reseedVars => RInv'
  <1> SUFFICES ASSUME RInv, [ReseedNext]_reseedVars PROVE RInv'
    OBVIOUS
  <1>1. CASE Meanwhile
    <2>1. SInv'
      BY <1>1, SInvStep DEF Meanwhile, RInv
    <2>2. SeedTypes'
      BY <1>1, WritesGrow DEF Meanwhile, RInv, SeedTypes, seeding
    <2> QED
      BY <2>1, <2>2 DEF RInv
  <1>2. CASE SeedStep
    BY <1>2, SInvSeed, SeedTypesSeed DEF RInv
  <1>3. CASE \E t \in Token : MintGetEarlier(t)
    <2>1. SInv'
      BY <1>3, SInvEarlier
    <2>2. SeedTypes'
      BY <1>3 DEF MintGetEarlier, RInv, SeedTypes, seeding, history
    <2> QED
      BY <2>1, <2>2 DEF RInv
  <1>4. CASE UNCHANGED reseedVars
    <2>1. SInv'
      BY <1>4, SInvStep DEF reseedVars, RInv
    <2> QED
      BY <1>4, <2>1 DEF reseedVars, seeding, vars, history, RInv, SeedTypes
  <1> QED
    BY <1>1, <1>2, <1>3, <1>4 DEF ReseedNext

LEMMA RInvAlways == ReseedSpec => []RInv
  BY RInvInit, RInvStep, PTL DEF ReseedSpec

\* The tables, both programs and the handler keep their types, whenever it is
\* run again.
THEOREM ReseedTypeCorrect == ReseedSpec => []ReseedTypeOK
  <1>1. RInv => ReseedTypeOK
    BY DEF RInv, SeedTypes, SInv, TInv, TypeOK, ReseedTypeOK
  <1> QED
    BY <1>1, RInvAlways, PTL

\* A token stays single-use when listings are put back under it: it is consumed
\* by at most one invocation and changes at most one price, in whichever life.
THEOREM SingleUseOverReseeds == ReseedSpec => []SingleUse
  <1>1. RInv => SingleUse
    BY DEF RInv, SInv, Exclusive, Spent, SingleUse
  <1> QED
    BY <1>1, RInvAlways, PTL

\* The handler takes entries out of the changelog and puts none in.
LEMMA LogOverReseeds == ReseedSpec => []LogInv
  <1>1. ReseedInit => LogInv
    BY SInvInit DEF ReseedInit, Init, LogInv, Appenders, Entries, Updated, Idle
  <1>2. RInv /\ LogInv /\ [ReseedNext]_reseedVars => LogInv'
    <2> SUFFICES ASSUME RInv, LogInv, [ReseedNext]_reseedVars PROVE LogInv'
      OBVIOUS
    <2>1. CASE Meanwhile \/ UNCHANGED reseedVars
      BY <2>1, LogStep DEF Meanwhile, reseedVars
    <2>2. CASE SeedStep \/ \E t \in Token : MintGetEarlier(t)
      <3>1. UNCHANGED <<call, writes, issued>> /\ changelog' \subseteq changelog
        BY <2>2 DEF SeedStep, SeedStart, SeedPut, SeedQuery, SeedDelete, SeedNextListing, SeedFails,
                    MintGetEarlier, vars, tables, history
      <3>2. SInv'
        BY RInvStep DEF RInv
      <3>3. Appenders'
        BY <3>1 DEF LogInv, Appenders, Updated, Wrote, CheckedRow, Matches
      <3>4. Entries'
        BY <3>1 DEF LogInv, Entries
      <3> QED
        BY <3>2, <3>3, <3>4 DEF LogInv
    <2> QED
      BY <2>1, <2>2 DEF ReseedNext
  <1> QED
    BY <1>1, <1>2, RInvAlways, PTL DEF ReseedSpec

LogIsOfWrites == \A c \in changelog : \E w \in writes : Records(c, w)

\* However often the tables are put back under mints and invocations that are on
\* their way (seed_handler.py:26-44 against handler.py:66-115): every write is one
\* a broker said yes to, at a dollar's distance from the dialog at most, and the
\* changelog has no entry but of a write, with its broker and the time of its mint.
THEOREM ConfirmedOverReseeds == ReseedSpec => [](WritesAreApproved /\ WithinADollar /\ LogIsOfWrites)
  <1>1. SInv => WritesAreApproved
    BY DEF SInv, Fresh, Spent, WriteOf, WritesAreApproved, MintedRow
  <1>2. LogInv => WritesAreApproved /\ WithinADollar /\ LogIsOfWrites
    BY <1>1, DollarApart, EntryRecords DEF LogInv, LogIsOfWrites
  <1> QED
    BY <1>2, LogOverReseeds, PTL

-----------------------------------------------------------------------------
\* The writes of the current life of each listing.
Lines == \A l \in Seeded : Line(undone, l)

LEMMA LinesInit == ReseedInit => Lines
  BY DEF ReseedInit, Init, Lines, Line, WritesSince, Shows

LEMMA LinesStep == RInv /\ Lines /\ [ReseedNext]_reseedVars => Lines'
  <1> SUFFICES ASSUME RInv, Lines, [ReseedNext]_reseedVars PROVE Lines'
    OBVIOUS
  <1>a. PICK old, new : old = undone /\ new = undone'
    OBVIOUS
  <1>b. old \subseteq writes /\ \A l \in Seeded : Line(old, l)
    BY <1>a DEF RInv, SeedTypes, Lines, Line, Shows, WritesSince
  <1>c. ASSUME \A l \in Seeded : Line(new, l)' PROVE Lines'
    BY <1>a, <1>c DEF Lines, Line, Shows, WritesSince
  <1>1. ASSUME UNCHANGED <<listings, writes, undone>> PROVE Lines'
    BY <1>1, <1>a, <1>b, <1>c, LineKept DEF WritesSince
  <1>2. CASE Meanwhile
    <2>1. UNCHANGED undone /\ Next
      BY <1>2 DEF Meanwhile
    <2>2. ASSUME NEW i \in Invocation, call[i].pc = "write", ApplyWrite(i) PROVE Lines'
      BY <1>a, <1>b, <1>c, <2>1, <2>2, LineWrite DEF RInv
    <2> QED
      BY <1>1, <2>1, <2>2, WritesGrow
  <1>3. CASE \E l \in Seeded : SeedPut(l)
    <2>1. PICK l \in Seeded : SeedPut(l)
      BY <1>3
    <2>2. /\ listings' = [listings EXCEPT ![l] = OpeningItem(l)]
          /\ new = old \cup {w \in writes : w.listingId = l} /\ writes' = writes
      BY <1>a, <2>1 DEF SeedPut, history
    <2>3. listings'[l] = OpeningItem(l) /\ \A k \in Seeded : k # l => listings'[k] = listings[k]
      BY <2>2 DEF RInv, SInv, TInv, TypeOK
    <2>4. WritesSince(new, l)' = {}
      BY <2>2 DEF WritesSince
    <2>5. Line(new, l)'
      BY <2>3, <2>4 DEF Line, Shows, OpeningItem
    <2>6. ASSUME NEW k \in Seeded, k # l PROVE Line(new, k)'
      <3>1. WritesSince(new, k)' = WritesSince(old, k)
        BY <2>2, <2>6 DEF WritesSince
      <3> QED
        BY <1>b, <2>3, <2>6, <3>1, LineKept
    <2> QED
      BY <1>c, <2>5, <2>6
  <1>4. CASE SeedStep /\ ~\E l \in Seeded : SeedPut(l)
    <2>1. UNCHANGED <<listings, writes, undone>>
      BY <1>4 DEF SeedStep, SeedStart, SeedQuery, SeedDelete, SeedNextListing, SeedFails, vars, tables, history
    <2> QED
      BY <1>1, <2>1
  <1>5. CASE (\E t \in Token : MintGetEarlier(t)) \/ UNCHANGED reseedVars
    <2>1. UNCHANGED <<listings, writes, undone>>
      BY <1>5 DEF MintGetEarlier, reseedVars, vars, tables, history
    <2> QED
      BY <1>1, <2>1
  <1> QED
    BY <1>2, <1>3, <1>4, <1>5 DEF ReseedNext

\* In each life of a listing the versions number the writes made in it, each on
\* top of the price that the one before it left, whenever the handler ran and
\* whichever tokens of earlier lives were spent.
THEOREM LifeIsLinearHolds == ReseedSpec => []LifeIsLinear
  <1>1. ASSUME RInv, Lines PROVE LifeIsLinear
    <2>1. PICK old : old = undone
      OBVIOUS
    <2>2. \A l \in Seeded : Line(old, l)
      BY <1>1, <2>1 DEF Lines, Line, Shows, WritesSince
    <2>3. \A l \in Seeded : Linear(WritesSince(old, l), l)
      BY <1>1, <2>2, LineTells DEF RInv, SInv, TInv
    <2>4. \A l \in Seeded : WritesSince(old, l) = {w \in writes \ undone : w.listingId = l}
      BY <2>1 DEF WritesSince
    <2>5. \A l \in Seeded : Linear({w \in writes \ undone : w.listingId = l}, l)
      BY <2>3, <2>4
    <2> QED
      BY <2>5 DEF Linear, LifeIsLinear
  <1> QED
    BY <1>1, LinesInit, LinesStep, RInvInit, RInvStep, PTL DEF ReseedSpec

-----------------------------------------------------------------------------
\* What is left of the rows found is still among those to be deleted.
Remaining ==
  /\ seeder.pc \in {"query", "rest"} => found \cap changelog = {}
  /\ seeder.pc = "delete" => found \cap changelog \subseteq seeder.rows
  /\ seeder.pc = "put" => found = {}

LEMMA LogGrows ==
  ASSUME TInv, Next
  PROVE  changelog' \subseteq changelog \cup UNION {Appended(i) : i \in Invocation}
  <1>1. CASE \E t \in Token : MintNext(t)
    BY <1>1 DEF MintNext, Propose, Approve, Decline, MintGet, MintRefused, MintPut, MintFails, PutRow,
                tables
  <1>2. CASE \E i \in Invocation, l \in ListingId, a \in Amount, t \in Token : Call(i, l, a, t)
    BY <1>2 DEF Call, tables
  <1>3. CASE \E i \in Invocation : AppendLog(i)
    <2>1. PICK i \in Invocation : AppendLog(i)
      BY <1>3
    <2>2. call'[i].pc = "done" /\ call'[i].result # "timeout" /\ call[i].pc = "log"
      <3>1. call[i] \in CallState
        BY <2>1 DEF AppendLog, At, TInv, TypeOK, Idle
      <3> QED
        BY <2>1, <3>1 DEF AppendLog, At, Return, TInv, TypeOK, CallState
    <2>3. changelog' \subseteq changelog \cup {LogEntry(i)}
      BY <2>1 DEF AppendLog, PutLog
    <2> QED
      BY <2>2, <2>3 DEF Appended
  <1>4. CASE \E i \in Invocation : LambdaStep(i) /\ ~AppendLog(i)
    BY <1>4 DEF LambdaStep, GetNothing, GetApproval, DeleteApproval, WriteListing, Stopped, tables
  <1>5. CASE Tick \/ \E r \in approvals : TtlSweep(r)
    BY <1>5 DEF Tick, TtlSweep, tables
  <1> QED
    BY <1>1, <1>2, <1>3, <1>4, <1>5 DEF Next

LEMMA RemainingStep == RInv /\ Remaining /\ [ReseedNext]_reseedVars => Remaining'
  <1> SUFFICES ASSUME RInv, Remaining, [ReseedNext]_reseedVars PROVE Remaining'
    OBVIOUS
  <1>0. seeder \in SeederState
    BY DEF RInv, SeedTypes
  <1>1. CASE Meanwhile
    <2>1. /\ (found \cap changelog)' \subseteq found \cap changelog
          /\ found' \subseteq found /\ UNCHANGED seeder
      BY <1>1, LogGrows DEF Meanwhile, seeding, RInv, SInv
    <2> QED
      BY <2>1 DEF Remaining
  <1>2. CASE SeedStart
    BY <1>0, <1>2 DEF SeedStart, Remaining
  <1>3. CASE \E l \in Seeded : SeedPut(l)
    <2>1. UNCHANGED <<found, changelog>> /\ seeder.pc = "put"
      BY <1>3 DEF SeedPut
    <2>2. seeder'.pc \in {"put", "query"}
      BY <1>0, <1>3 DEF SeedPut, SeederState
    <2> QED
      BY <2>1, <2>2 DEF Remaining
  <1>4. CASE \E l \in Seeded : SeedQuery(l)
    <2>0. PICK l \in Seeded : SeedQuery(l)
      BY <1>4
    <2>1. PICK rows \in SUBSET LogOf(l) :
            /\ seeder' = [pc |-> "delete", left |-> seeder.left \ {l}, rows |-> rows]
            /\ found' = found \cup rows
      BY <2>0 DEF SeedQuery
    <2>2. seeder'.pc = "delete" /\ seeder'.rows = rows /\ seeder.pc = "query" /\ changelog' = changelog
      BY <1>4, <2>1 DEF SeedQuery, vars, tables
    <2> QED
      BY <2>1, <2>2 DEF Remaining
  <1>5. CASE \E c \in seeder.rows : SeedDelete(c)
    <2>1. PICK c \in seeder.rows : SeedDelete(c)
      BY <1>5
    <2>2. seeder'.pc = "delete" /\ seeder'.rows = seeder.rows \ {c} /\ found' = found
      BY <1>0, <2>1 DEF SeedDelete, SeederState
    <2>3. changelog' \subseteq changelog \ {c} /\ seeder.pc = "delete"
      BY <2>1 DEF SeedDelete, SameKey
    <2> QED
      BY <2>2, <2>3 DEF Remaining
  <1>6. CASE SeedNextListing
    BY <1>0, <1>6 DEF SeedNextListing, BatchFlushed, vars, tables, Remaining, SeederState
  <1>7. CASE SeedFails
    BY <1>0, <1>7 DEF SeedFails, Remaining, SeederState
  <1>8. CASE (\E t \in Token : MintGetEarlier(t)) \/ UNCHANGED reseedVars
    <2>1. UNCHANGED <<found, changelog, seeder>>
      BY <1>8 DEF MintGetEarlier, reseedVars, seeding, vars, tables
    <2> QED
      BY <2>1 DEF Remaining
  <1> QED
    BY <1>1, <1>2, <1>3, <1>4, <1>5, <1>6, <1>7, <1>8 DEF ReseedNext, SeedStep

\* When the handler has finished, no row that its queries returned is left but one
\* that was put again, whatever was appended meanwhile (seed_handler.py:37-45).
\* Nothing is assumed of what a query returns.
THEOREM FoundIsClearedHolds == ReseedSpec => []FoundIsCleared
  <1>1. ReseedInit => Remaining
    BY DEF ReseedInit, Remaining
  <1>2. Remaining => FoundIsCleared
    BY DEF Remaining, FoundIsCleared
  <1> QED
    BY <1>1, <1>2, RemainingStep, RInvInit, RInvStep, PTL DEF ReseedSpec

-----------------------------------------------------------------------------
\* The editions there ever were, and that a mint has read one of them.
Existed == {<<l, 1>> : l \in Seeded} \cup {<<w.listingId, w.version + 1>> : w \in writes}

MintRead ==
  \A t \in Token : mint[t].pc = "put" => <<mint[t].listingId, mint[t].version>> \in Existed

\* Each edition of the current life is one of them.
LEMMA EditionsExisted ==
  ASSUME RInv, Lines, NEW l \in Seeded, NEW v \in 1..listings[l].version
  PROVE  <<l, v>> \in Existed
  <1>0. listings[l].version \in Nat \ {0}
    BY DEF RInv, SInv, TInv, TypeOK
  <1>1. CASE v = 1
    BY <1>1 DEF Existed
  <1>2. CASE v # 1
    <2>1. v - 1 \in 1..(listings[l].version - 1) /\ (v - 1) + 1 = v
      BY <1>0, <1>2
    <2>2. Line(undone, l)
      BY DEF Lines
    <2>3. PICK w \in WritesSince(undone, l) : w.version = v - 1
      BY <2>1, <2>2 DEF Line
    <2>4. w \in writes /\ w.listingId = l /\ w.version + 1 = v
      BY <2>1, <2>3 DEF WritesSince
    <2> QED
      BY <2>4 DEF Existed
  <1> QED
    BY <1>1, <1>2

\* An edition that was read at some time has existed at that time and later.
LEMMA MintReadStep == RInv /\ Lines /\ MintRead /\ [ReseedNext]_reseedVars => MintRead'
  <1> SUFFICES ASSUME RInv, Lines, MintRead, [ReseedNext]_reseedVars,
                      NEW t \in Token, mint'[t].pc = "put"
               PROVE  <<mint'[t].listingId, mint'[t].version>> \in Existed'
    BY DEF MintRead
  <1>0. mint \in [Token -> MintState \cup {Idle}]
    BY DEF RInv, SInv, TInv, TypeOK
  <1>1. Existed \subseteq Existed'
    <2>1. writes \subseteq writes'
      <3>1. CASE Meanwhile
        BY <3>1, WritesGrow DEF Meanwhile
      <3>2. CASE SeedStep \/ (\E s \in Token : MintGetEarlier(s)) \/ UNCHANGED reseedVars
        BY <3>2 DEF SeedStep, SeedStart, SeedPut, SeedQuery, SeedDelete, SeedNextListing, SeedFails,
                    MintGetEarlier, reseedVars, vars, tables, history
      <3> QED
        BY <3>1, <3>2 DEF ReseedNext
    <2> QED
      BY <2>1 DEF Existed
  <1>2. CASE mint'[t] = mint[t]
    BY <1>1, <1>2 DEF MintRead
  <1>3. CASE MintGet(t)
    <2>1. PICK v \in Editions(mint[t].listingId) :
            mint' = [mint EXCEPT ![t].pc = "put", ![t].version = v, ![t].mintedAt = now]
      BY <1>3 DEF MintGet
    <2>2. mint[t] \in MintState /\ mint[t].listingId \in Seeded
      BY <1>0, <1>3 DEF MintGet, Idle
    <2>3. mint'[t].version = v /\ mint'[t].listingId = mint[t].listingId
      BY <1>0, <2>1, <2>2 DEF MintState
    <2> QED
      BY <1>1, <2>1, <2>2, <2>3, EditionsExisted DEF Editions
  <1>4. CASE MintGetEarlier(t)
    <2>1. PICK v \in EarlierEditions(mint[t].listingId) :
            mint' = [mint EXCEPT ![t].pc = "put", ![t].version = v, ![t].mintedAt = now]
      BY <1>4 DEF MintGetEarlier
    <2>2. mint[t] \in MintState
      BY <1>0, <1>4 DEF MintGetEarlier, Idle
    <2>3. mint'[t].version = v /\ mint'[t].listingId = mint[t].listingId
      BY <1>0, <2>1, <2>2 DEF MintState
    <2>4. PICK w \in undone : w.listingId = mint[t].listingId /\ w.version + 1 = v
      BY <2>1 DEF EarlierEditions
    <2>5. <<mint[t].listingId, v>> \in Existed
      BY <2>4 DEF Existed, RInv, SeedTypes
    <2> QED
      BY <1>1, <2>3, <2>5
  <1>5. mint'[t] = mint[t] \/ MintGet(t) \/ MintGetEarlier(t)
    <2>1. CASE \E s \in Token : MintNext(s)
      <3>1. PICK s \in Token : MintNext(s)
        BY <2>1
      <3>2. CASE s = t
        BY <1>0, <3>1, <3>2 DEF MintNext, Propose, Approve, Decline, MintRefused, MintPut, MintFails,
           MintStep, Idle, MintState
      <3>3. CASE s # t
        BY <1>0, <3>1, <3>3 DEF MintNext, Propose, Approve, Decline, MintGet, MintRefused, MintPut,
           MintFails, MintStep
      <3> QED
        BY <3>2, <3>3
    <2>2. CASE \E i \in Invocation : LambdaStep(i)
      BY <2>2, LambdaFrame DEF RInv, SInv
    <2>3. CASE Next /\ ~(\E s \in Token : MintNext(s)) /\ ~\E i \in Invocation : LambdaStep(i)
      BY <2>3 DEF Next, Call, TtlSweep, Tick
    <2>4. CASE SeedStep \/ UNCHANGED reseedVars
      BY <2>4 DEF SeedStep, SeedStart, SeedPut, SeedQuery, SeedDelete, SeedNextListing, SeedFails,
                  reseedVars, vars
    <2>5. CASE \E s \in Token : MintGetEarlier(s)
      BY <1>0, <2>5 DEF MintGetEarlier
    <2> QED
      BY <2>1, <2>2, <2>3, <2>4, <2>5 DEF ReseedNext, Meanwhile
  <1> QED
    BY <1>2, <1>3, <1>4, <1>5

\* What numbers the editions: a spent grant adds one, nothing else does.
LEMMA ExistedKept ==
  ASSUME SInv, [Next]_vars, UNCHANGED listings
  PROVE  Existed' = Existed
  <1>1. ASSUME NEW i \in Invocation, call[i].pc = "write", ApplyWrite(i) PROVE FALSE
    <2>1. call[i].listingId \in Seeded
      BY <1>1 DEF SInv, TInv, Checked, CheckedRow, Matches, ApprovalRow
    <2>2. listings' = [listings EXCEPT ![call[i].listingId] = NewEdition(i, @)]
      BY <1>1 DEF ApplyWrite
    <2>3. /\ listings \in [Seeded -> [askingPrice : Nat, version : Nat \ {0}]]
          /\ listings[call[i].listingId].version \in Nat
      BY <2>1 DEF SInv, TInv, TypeOK
    <2>4. listings'[call[i].listingId].version = listings[call[i].listingId].version + 1
      BY <2>1, <2>2, <2>3 DEF NewEdition
    <2> QED
      BY <2>3, <2>4
  <1>2. UNCHANGED writes
    BY <1>1, WritesGrow DEF vars, history
  <1> QED
    BY <1>2 DEF Existed

LEMMA ExistedSpent ==
  ASSUME SInv, Next, NEW r, Spends(r)
  PROVE  Existed' = Existed \cup {<<r.listingId, listings'[r.listingId].version>>}
  <1>0. /\ listings \in [Seeded -> [askingPrice : Nat, version : Nat \ {0}]]
        /\ r.listingId \in Seeded /\ listings[r.listingId].version \in Nat
    BY LiveIssued DEF SInv, TInv, TypeOK, Spends, ApprovalRow
  <1>1. listings'[r.listingId].version = listings[r.listingId].version + 1
    BY <1>0 DEF Spends
  <1>2. ~UNCHANGED listings
    BY <1>0, <1>1
  <1>3. PICK i \in Invocation : call[i].pc = "write" /\ ApplyWrite(i)
    BY <1>2, WritesGrow
  <1>4. call[i].listingId = r.listingId
    BY <1>0, <1>1, <1>3 DEF ApplyWrite
  <1> DEFINE w == [approvalToken |-> call[i].approvalToken, listingId |-> r.listingId,
                   oldPrice |-> listings[r.listingId].askingPrice, newPrice |-> call[i].newPrice,
                   version |-> listings[r.listingId].version, at |-> now]
  <1>5. writes' = writes \cup {w} /\ w.listingId = r.listingId /\ w.version = listings[r.listingId].version
    BY <1>3, <1>4 DEF ApplyWrite
  <1> HIDE DEF w
  <1>6. <<w.listingId, w.version + 1>> = <<r.listingId, listings'[r.listingId].version>>
    BY <1>1, <1>5
  <1> QED
    BY <1>5, <1>6 DEF Existed

\* A put of the handler is a reset.
LEMMA PutResets ==
  ASSUME SInv, NEW l \in Seeded, SeedPut(l)
  PROVE  Lives!Reset(l)
  <1>0. /\ listings \in [Seeded -> [askingPrice : Nat, version : Nat \ {0}]]
        /\ listings' = [listings EXCEPT ![l] = OpeningItem(l)]
        /\ UNCHANGED <<approvals, call, issued, writes>>
    BY DEF SInv, TInv, TypeOK, SeedPut, history
  <1>1. Live' = Live
    BY <1>0 DEF Live, Held
  <1>2. [k \in Seeded |-> listings'[k].askingPrice] =
          [[k \in Seeded |-> listings[k].askingPrice] EXCEPT ![l] = OpeningPrice[l]]
    BY <1>0 DEF OpeningItem
  <1>3. [k \in Seeded |-> listings'[k].version] =
          [[k \in Seeded |-> listings[k].version] EXCEPT ![l] = 1]
    BY <1>0 DEF OpeningItem
  <1> QED
    BY <1>0, <1>1, <1>2, <1>3 DEF Lives!Reset

LEMMA NextLives ==
  ASSUME RInv, Lines, MintRead, Next
  PROVE  [Lives!LivesNext]_(Lives!livesVars)
  <1>0. SInv
    BY DEF RInv
  <1>1. CASE Quiet
    BY <1>0, <1>1, ExistedKept DEF Quiet, Existed, Lives!livesVars, Lives!vars
  <1>2. CASE \E r : Loses(r)
    <2>1. PICK r : Loses(r)
      BY <1>2
    <2>2. Existed' = Existed
      BY <1>0, <2>1, ExistedKept DEF Loses
    <2>3. GrantOf(r) \in {GrantOf(q) : q \in Live} /\ Lives!Lose(GrantOf(r))
      BY <1>0, <2>1, LoseLedger DEF Ledger!Lose, Lives!Lose
    <2> QED
      BY <2>2, <2>3 DEF Existed, Lives!LivesNext
  <1>3. CASE \E r : Issues(r)
    <2>1. PICK r : Issues(r)
      BY <1>3
    <2>2. /\ Lives!Issue(r.approvalToken, r.listingId, r.newPrice, r.version)
          /\ r.approvalToken \in Token /\ r.listingId \in Seeded
          /\ r.newPrice \in {ToInt(a) : a \in Amount}
      BY <1>0, <2>1, IssueLedger DEF Ledger!Issue, Lives!Issue
    <2>3. <<r.listingId, r.version>> \in Existed
      <3>1. PICK t \in Token : mint[t].pc = "put" /\ r = MintedRow(t)
        BY <2>1 DEF Issues
      <3>2. r.listingId = mint[t].listingId /\ r.version = mint[t].version
        BY <3>1 DEF MintedRow
      <3>3. <<mint[t].listingId, mint[t].version>> \in Existed
        BY <3>1 DEF MintRead
      <3> QED
        BY <3>2, <3>3
    <2>4. Existed' = Existed
      BY <1>0, <2>1, ExistedKept DEF Issues
    <2>5. Lives!IssueAgainst(r.approvalToken, <<r.listingId, r.version>>, r.newPrice)
      BY <2>2, <2>4 DEF Existed, Lives!IssueAgainst
    <2> QED
      BY <2>2, <2>3, <2>5 DEF Existed, Lives!LivesNext
  <1>4. CASE \E r : Spends(r)
    <2>1. PICK r : Spends(r)
      BY <1>4
    <2>2. GrantOf(r) \in {GrantOf(q) : q \in Live} /\ Lives!Spend(GrantOf(r))
      BY <1>0, <2>1, SpendLedger DEF Ledger!Spend, Lives!Spend
    <2>3. Existed' = Existed \cup {<<r.listingId, listings'[r.listingId].version>>}
      BY <1>0, <2>1, ExistedSpent
    <2>4. GrantOf(r).listing = r.listingId /\ r.listingId \in Seeded
      BY <1>0, <2>1, LiveIssued DEF GrantOf, Spends, SInv, TInv, TypeOK, ApprovalRow
    <2>5. Lives!SpendAndNumber(GrantOf(r))
      BY <2>2, <2>3, <2>4 DEF Existed, Lives!SpendAndNumber
    <2> QED
      BY <2>2, <2>5 DEF Lives!LivesNext
  <1> QED
    BY <1>0, <1>1, <1>2, <1>3, <1>4, StepLive

LEMMA StepLives ==
  ASSUME RInv, Lines, MintRead, [ReseedNext]_reseedVars
  PROVE  [Lives!LivesNext]_(Lives!livesVars)
  <1>1. CASE Meanwhile
    BY <1>1, NextLives DEF Meanwhile
  <1>2. CASE \E l \in Seeded : SeedPut(l)
    BY <1>2, PutResets DEF RInv, Lives!LivesNext
  <1>3. CASE \/ SeedStep /\ ~\E l \in Seeded : SeedPut(l)
             \/ \E t \in Token : MintGetEarlier(t)
             \/ UNCHANGED reseedVars
    <2>1. UNCHANGED <<listings, approvals, call, issued, writes>>
      BY <1>3 DEF SeedStep, SeedStart, SeedQuery, SeedDelete, SeedNextListing, SeedFails,
                  MintGetEarlier, reseedVars, vars, tables, history
    <2>2. Live' = Live
      BY <2>1 DEF Live, Held
    <2> QED
      BY <2>1, <2>2 DEF Lives!livesVars, Lives!vars
  <1> QED
    BY <1>1, <1>2, <1>3 DEF ReseedNext

LEMMA InitLives == ReseedInit => Lives!LivesInit
  BY ListingAssumption DEF ReseedInit, Init, Lives!LivesInit, Lives!Init, Live, Held, Idle

\* Whenever the handler puts listings back, the tables and both programs
\* implement the ledger of grants with resets: a price moves only by spending,
\* once, a grant issued under a fresh token against an edition of this life or
\* an earlier one, or back to its opening, and no reset makes or ends a grant.
THEOREM ImplementsLivesHolds == ReseedSpec => ImplementsLives
  <1>1. ReseedInit => MintRead
    BY DEF ReseedInit, Init, MintRead, Idle
  <1>2. RInv /\ Lines /\ MintRead /\ [ReseedNext]_reseedVars => [Lives!LivesNext]_(Lives!livesVars)
    BY StepLives
  <1> QED
    BY <1>1, <1>2, InitLives, RInvInit, RInvStep, LinesInit, LinesStep, MintReadStep, PTL
    DEF ReseedSpec, ImplementsLives, Lives!LivesSpec
===============================================================================

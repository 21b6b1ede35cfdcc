----------------------------- MODULE ListingOps ------------------------------
(***************************************************************************)
(* A confirmed price change, from the broker's answer to the changelog.    *)
(*                                                                         *)
(* Two programs work on three DynamoDB tables and share nothing else: the  *)
(* backend mints an approval row once the broker has said yes              *)
(* (backend/confirmation.py), and the listing-ops Lambda checks it,        *)
(* consumes it, writes the price and appends to the changelog              *)
(* (services/mcp_listing_ops/handler.py).  Every call to a table is an     *)
(* action of its own.  Any number of mints and Lambda invocations          *)
(* interleave, a read may come from a replica that lags, and with Faults a *)
(* call may fail before or after it took effect and either program may die *)
(* between two calls.                                                      *)
(*                                                                         *)
(* A token names a run of the backend from its proposal on: the code draws *)
(* the uuid only in mint_price_change_approval, which nothing can observe. *)
(***************************************************************************)
EXTENDS Integers, FiniteSets

CONSTANTS
  ListingId,      \* the ids a caller may name
  Seeded,         \* the ones that have a row in the listings table
  Amount,         \* JSON numbers, in tenths of a dollar
  Misnamed,       \* what the agent may name as the old price and never read
  Actor,          \* verified users
  Token,          \* uuids, each drawn once
  Invocation,     \* invocations of the Lambda
  OpeningPrice,   \* asking price of each seeded listing
  Ttl,            \* config.APPROVAL_TOKEN_TTL_SECONDS
  LambdaTimeout,  \* the function's timeout in infra/stacks/tools_stack.py
  MaxTime,        \* bound: the clock stops here
  Faults,         \* whether calls may fail and programs die
  NoApproval      \* the handler's `approval` before it is read

ASSUME ListingAssumption == Seeded \subseteq ListingId /\ OpeningPrice \in [Seeded -> Nat]
ASSUME AmountAssumption == Amount \subseteq Nat /\ Misnamed \subseteq Nat
ASSUME ClockAssumption == Ttl \in Nat /\ LambdaTimeout \in Nat /\ MaxTime \in Nat
ASSUME FaultsAssumption == Faults \in BOOLEAN

VARIABLES
  listings,   \* listings table: asking price and version of each listing
  approvals,  \* approvals table
  changelog,  \* changelog table, keyed by (listingId, changedAt)
  now,        \* the clock, in seconds
  mint,       \* confirmation of each proposed change, in the backend
  call,       \* each invocation of update_listing_price
  issued,     \* history: every approval row ever put
  writes      \* history: every update of a listing that was applied

tables == <<listings, approvals, changelog>>
history == <<issued, writes>>
vars == <<tables, now, mint, call, history>>

ApprovalRow ==
  [approvalToken : Token, listingId : Seeded, newPrice : Nat, oldPrice : Nat,
   version : Nat, actor : Actor, mintedAt : Nat, expiresAt : Nat]

LogRow ==
  [listingId : Seeded, changedAt : Nat, actor : Actor, oldValue : Nat, newValue : Nat]

WriteRecord ==
  [approvalToken : Token, listingId : Seeded, oldPrice : Nat, newPrice : Nat,
   version : Nat, at : Nat]

Result ==
  {"none", "updated", "notFound", "mismatch", "expired", "consumed",
   "writeFailed", "exception", "timeout"}

\* Before it starts, a confirmation or an invocation has no state at all.
Idle == [pc |-> "idle"]

MintState ==
  [pc : {"proposed", "get", "put", "minted", "refused", "declined", "failed"},
   listingId : ListingId, oldPrice : Nat, newPrice : Amount, actor : Actor,
   asRead : BOOLEAN,  \* history: the old price was the listing's at the proposal
   version : Nat, mintedAt : Nat]

CallState ==
  [pc : {"get", "delete", "write", "log", "done"},
   listingId : ListingId, newPrice : Nat, approvalToken : Token,
   approval : ApprovalRow \cup {NoApproval}, startedAt : Nat, result : Result]

TypeOK ==
  /\ listings \in [Seeded -> [askingPrice : Nat, version : Nat \ {0}]]
  /\ approvals \subseteq ApprovalRow
  /\ changelog \subseteq LogRow
  /\ now \in 0..MaxTime
  /\ mint \in [Token -> MintState \cup {Idle}]
  /\ call \in [Invocation -> CallState \cup {Idle}]
  /\ issued \subseteq ApprovalRow
  /\ writes \subseteq WriteRecord

-----------------------------------------------------------------------------
\* int(): tenths of a dollar to whole dollars, towards zero.
ToInt(a) == a \div 10

\* f"${a:,.0f}": the whole dollars the broker is shown, halves to even.
Shown(a) ==
  LET whole == a \div 10
      rest == a % 10
  IN  IF rest > 5 \/ (rest = 5 /\ whole % 2 = 1) THEN whole + 1 ELSE whole

Init ==
  /\ listings = [l \in Seeded |-> [askingPrice |-> OpeningPrice[l], version |-> 1]]
  /\ approvals = {}
  /\ changelog = {}
  /\ now = 0
  /\ mint = [t \in Token |-> Idle]
  /\ call = [i \in Invocation |-> Idle]
  /\ issued = {}
  /\ writes = {}

-----------------------------------------------------------------------------
\* The backend: a proposal, the broker's answer, and the mint.

\* The current price, if the agent has just read the listing; of an id that it
\* made up it read none.
ReadPrice(l) == IF l \in Seeded THEN 10 * listings[l].askingPrice ELSE 0

\* confirm_listing_change reaches the backend.  Nothing compares the old price
\* that the agent names with the listing: it may be any.
Propose(t, u, l, new) ==
  /\ mint[t] = Idle
  /\ \E old \in Misnamed \cup {ReadPrice(l)} :
       mint' = [mint EXCEPT ![t] =
         [pc |-> "proposed", listingId |-> l, newPrice |-> new, actor |-> u,
          oldPrice |-> old, asRead |-> l \in Seeded /\ old = ReadPrice(l),
          version |-> 0, mintedAt |-> 0]]
  /\ UNCHANGED <<tables, now, call, history>>

MintStep(t, from, to) ==
  /\ mint[t].pc = from
  /\ mint' = [mint EXCEPT ![t].pc = to]
  /\ UNCHANGED <<now, call>>

Approve(t) == MintStep(t, "proposed", "get") /\ UNCHANGED <<tables, history>>
Decline(t) == MintStep(t, "proposed", "declined") /\ UNCHANGED <<tables, history>>

\* get_item is not a consistent read: it may return any edition so far.
Editions(l) == 1..listings[l].version

\* listings.get_item found the listing; the row is stamped right after.
MintGet(t) ==
  /\ mint[t].pc = "get"
  /\ mint[t].listingId \in Seeded
  /\ \E v \in Editions(mint[t].listingId) :
       mint' = [mint EXCEPT ![t].pc = "put", ![t].version = v, ![t].mintedAt = now]
  /\ UNCHANGED <<tables, now, call, history>>

MintRefused(t) ==
  /\ MintStep(t, "get", "refused")
  /\ mint[t].listingId \notin Seeded
  /\ UNCHANGED <<tables, history>>

MintedRow(t) ==
  [approvalToken |-> t,
   listingId     |-> mint[t].listingId,
   newPrice      |-> ToInt(mint[t].newPrice),
   oldPrice      |-> ToInt(mint[t].oldPrice),
   version       |-> mint[t].version,
   actor         |-> mint[t].actor,
   mintedAt      |-> mint[t].mintedAt,
   expiresAt     |-> mint[t].mintedAt + Ttl]

PutRow(t) ==
  /\ approvals' = approvals \cup {MintedRow(t)}
  /\ issued' = issued \cup {MintedRow(t)}
  /\ UNCHANGED <<listings, changelog, writes>>

MintPut(t) == MintStep(t, "put", "minted") /\ PutRow(t)

\* The backend dies or a call of its fails; a put may have been applied.
MintFails(t) ==
  /\ Faults
  /\ \/ /\ \E from \in {"proposed", "get", "put"} : MintStep(t, from, "failed")
        /\ UNCHANGED <<tables, history>>
     \/ MintStep(t, "put", "failed") /\ PutRow(t)

-----------------------------------------------------------------------------
\* The Lambda: update_listing_price.

\* The agent calls the tool with whatever arguments it chooses, as often as
\* it likes; a retry is another invocation.
Call(i, l, a, t) ==
  /\ call[i] = Idle
  /\ call' = [call EXCEPT ![i] =
       [pc |-> "get", listingId |-> l, newPrice |-> ToInt(a), approvalToken |-> t,
        approval |-> NoApproval, startedAt |-> now, result |-> "none"]]
  /\ UNCHANGED <<tables, now, mint, history>>

Alive(i) == now <= call[i].startedAt + LambdaTimeout

At(i, pc) == call[i].pc = pc /\ Alive(i)

Goto(i, pc) == call' = [call EXCEPT ![i].pc = pc]

Return(i, result) == call' = [call EXCEPT ![i].pc = "done", ![i].result = result]

\* Mutant: only the listing is compared.
MatchesListing(i, r) == r.listingId = call[i].listingId

Matches(i, r) == r.listingId = call[i].listingId /\ r.newPrice = call[i].newPrice

\* Mutant: the TTL is left to the table.
NeverExpired(r) == FALSE

Expired(r) == now > r.expiresAt

\* approvals.get_item, with the checks on what it returns.  A replica that
\* lags may not have the row yet, or have it still after it was deleted.
GetNothing(i) ==
  /\ At(i, "get")
  /\ Return(i, "notFound")
  /\ UNCHANGED <<tables, now, mint, history>>

GetApproval(i, r) ==
  /\ At(i, "get")
  /\ r.approvalToken = call[i].approvalToken
  /\ \/ ~Matches(i, r) /\ Return(i, "mismatch")
     \/ Matches(i, r) /\ Expired(r) /\ Return(i, "expired")
     \/ /\ Matches(i, r) /\ ~Expired(r)
        /\ call' = [call EXCEPT ![i].pc = "delete", ![i].approval = r]
  /\ UNCHANGED <<tables, now, mint, history>>

\* Mutant: delete_item without a condition.
DeleteAnyway(i) == TRUE

\* The condition of approvals.delete_item.
TokenUnspent(i) == call[i].approval \in approvals

RemoveRow(i) == approvals' = approvals \ {call[i].approval}

DeleteApproval(i) ==
  /\ At(i, "delete")
  /\ \/ TokenUnspent(i) /\ RemoveRow(i) /\ Goto(i, "write")
     \/ ~TokenUnspent(i) /\ Return(i, "consumed") /\ UNCHANGED approvals
     \/ Faults /\ Return(i, "consumed") /\ (RemoveRow(i) \/ UNCHANGED approvals)
  /\ UNCHANGED <<listings, changelog, now, mint, history>>

\* Mutant: compared with the version the write would produce.
VersionAfter(i) ==
  listings[call[i].listingId].version + 1 = call[i].approval.version

\* The condition of listings.update_item.
VersionCurrent(i) ==
  listings[call[i].listingId].version = call[i].approval.version

\* Mutants: the version stays; the item is put anew, without one.
SameVersion(i, old) == [askingPrice |-> call[i].newPrice, version |-> old.version]
NoVersion(i, old) == [askingPrice |-> call[i].newPrice]

NewEdition(i, old) == [askingPrice |-> call[i].newPrice, version |-> old.version + 1]

ApplyWrite(i) ==
  LET l == call[i].listingId
  IN  /\ VersionCurrent(i)
      /\ listings' = [listings EXCEPT ![l] = NewEdition(i, @)]
      /\ writes' = writes \cup
           {[approvalToken |-> call[i].approvalToken, listingId |-> l,
             oldPrice |-> listings[l].askingPrice, newPrice |-> call[i].newPrice,
             version |-> listings[l].version, at |-> now]}

WriteListing(i) ==
  /\ At(i, "write")
  /\ \/ ApplyWrite(i) /\ Goto(i, "log")
     \/ ~VersionCurrent(i) /\ Return(i, "writeFailed") /\ UNCHANGED <<listings, writes>>
     \/ Faults /\ Return(i, "writeFailed") /\ (ApplyWrite(i) \/ UNCHANGED <<listings, writes>>)
  /\ UNCHANGED <<approvals, changelog, now, mint, issued>>

\* Mutant: the time of the append.
AppendedAt(i) == now

ChangedAt(i) == call[i].approval.mintedAt

LogEntry(i) ==
  [listingId |-> call[i].listingId,
   changedAt |-> ChangedAt(i),
   actor     |-> call[i].approval.actor,
   oldValue  |-> call[i].approval.oldPrice,
   newValue  |-> call[i].newPrice]

\* Mutant: a table keyed by listing alone.
SameListingKey(c, d) == c.listingId = d.listingId

\* put_item replaces the item that has the same key.
SameKey(c, d) == c.listingId = d.listingId /\ c.changedAt = d.changedAt

PutLog(i) ==
  changelog' = {c \in changelog : ~SameKey(c, LogEntry(i))} \cup {LogEntry(i)}

AppendLog(i) ==
  /\ At(i, "log")
  /\ \/ PutLog(i) /\ Return(i, "updated")
     \/ Faults /\ Return(i, "exception") /\ (PutLog(i) \/ UNCHANGED changelog)
  /\ UNCHANGED <<listings, approvals, now, mint, history>>

\* Lambda stops an invocation that is out of time; with Faults, any.
Stopped(i) ==
  /\ call[i].pc \in {"get", "delete", "write", "log"}
  /\ Faults \/ ~Alive(i)
  /\ Return(i, "timeout")
  /\ UNCHANGED <<tables, now, mint, history>>

-----------------------------------------------------------------------------
\* The approvals table's TTL removes expired rows, some time later.
TtlSweep(r) ==
  /\ Expired(r)
  /\ approvals' = approvals \ {r}
  /\ UNCHANGED <<listings, changelog, now, mint, call, history>>

Tick ==
  /\ now < MaxTime
  /\ now' = now + 1
  /\ UNCHANGED <<tables, mint, call, history>>

MintNext(t) ==
  \/ \E u \in Actor, l \in ListingId, a \in Amount : Propose(t, u, l, a)
  \/ Approve(t) \/ Decline(t) \/ MintGet(t) \/ MintRefused(t) \/ MintPut(t) \/ MintFails(t)

LambdaStep(i) ==
  \/ GetNothing(i) \/ \E r \in issued : GetApproval(i, r)
  \/ DeleteApproval(i) \/ WriteListing(i) \/ AppendLog(i) \/ Stopped(i)

Next ==
  \/ \E t \in Token : MintNext(t)
  \/ \E i \in Invocation :
       \/ \E l \in ListingId, a \in Amount, t \in Token : Call(i, l, a, t)
       \/ LambdaStep(i)
  \/ \E r \in approvals : TtlSweep(r)
  \/ Tick

Spec == Init /\ [][Next]_vars

\* An invocation that has started takes its steps: Lambda runs it, or stops it.
FairSpec == Spec /\ \A i \in Invocation : WF_vars(LambdaStep(i))
-----------------------------------------------------------------------------
\* Rows and writes, joined by their token.
RowOf(w) == CHOOSE r \in issued : r.approvalToken = w.approvalToken
SameListing(v, w) == v.listingId = w.listingId

\* "Single-use" (backend/confirmation.py, handler.py): a row that one
\* invocation has consumed is gone and no other invocation works on it, and
\* no token ever changes a price twice.
SingleUse ==
  /\ \A i, j \in Invocation :
       /\ call[i].pc \in {"write", "log"} /\ call[j].pc \in {"write", "log"}
       /\ call[i].approvalToken = call[j].approvalToken
       => i = j /\ call[i].approval \notin approvals
  /\ \A v, w \in writes : v.approvalToken = w.approvalToken => v = w

\* "Bound to this exact write": whatever the agent passes to the tool, a price
\* changes only to what a broker confirmed, on the listing confirmed, on top
\* of an edition that the mint saw.  No concurrent change is overwritten.
WritesAreApproved ==
  \A w \in writes : \E r \in issued :
    /\ r.approvalToken = w.approvalToken
    /\ r.listingId = w.listingId /\ r.newPrice = w.newPrice /\ r.version = w.version
    /\ mint[r.approvalToken].pc \in {"minted", "failed"}
    /\ ToInt(mint[r.approvalToken].newPrice) = w.newPrice
    /\ mint[r.approvalToken].listingId = w.listingId /\ mint[r.approvalToken].actor = r.actor

\* The versions of a listing number its history: one write per edition, each
\* replacing the price its predecessor left, and the table shows the last.
LinearHistory ==
  \A l \in Seeded :
    LET ws == {w \in writes : w.listingId = l}
        PriceAt(v) == IF v = 1 THEN {OpeningPrice[l]}
                      ELSE {w.newPrice : w \in {w \in ws : w.version = v - 1}}
    IN  /\ {w.version : w \in ws} = 1..(listings[l].version - 1)
        /\ \A w \in ws : PriceAt(w.version) = {w.oldPrice}
        /\ PriceAt(listings[l].version) = {listings[l].askingPrice}

Records(c, w) ==
  /\ SameListing(c, w)
  /\ c.changedAt = RowOf(w).mintedAt /\ c.actor = RowOf(w).actor
  /\ c.newValue = w.newPrice

\* get_change_log sorts by changedAt, which is the time of the mint and not of
\* the write: every entry is a change that happened, and two entries are
\* never in the wrong order, whatever order the invocations ran in.
LogTellsHistory ==
  /\ \A c \in changelog : \E w \in writes : Records(c, w)
  /\ \A v, w \in writes :
       SameListing(v, w) /\ v.version < w.version => RowOf(v).mintedAt <= RowOf(w).mintedAt

\* A change reported as updated keeps its entry, but for a change of the same
\* listing minted in the same second.
LogKeepsChanges ==
  \A i \in Invocation : call[i].pc = "done" /\ call[i].result = "updated" =>
    \/ LogEntry(i) \in changelog
    \/ \E w \in writes : /\ SameListing(w, call[i]) /\ w.approvalToken # call[i].approvalToken
                         /\ RowOf(w).mintedAt = call[i].approval.mintedAt

\* Expiry is checked before the token is consumed and not again: a write
\* comes after it by less than one invocation.
WriteSoonAfterExpiry ==
  \A w \in writes : w.at <= RowOf(w).expiresAt + LambdaTimeout

\* Without faults the two refusals mean what they say: "already consumed" that
\* another invocation got the token or it expired, "write failed" that another
\* change was written on top of the edition the broker's approval was for.
RefusalsAreHonest ==
  ~Faults => \A i \in Invocation : call[i].pc = "done" =>
    /\ call[i].result = "consumed" =>
         \/ Expired(call[i].approval)
         \/ \E j \in Invocation \ {i} : /\ call[j].pc \in {"write", "log", "done"}
                                       /\ call[j].approval = call[i].approval
                                       /\ call[j].result # "consumed"
    /\ call[i].result = "writeFailed" =>
         \E w \in writes : /\ SameListing(w, call[i])
                          /\ w.version = call[i].approval.version
                          /\ w.approvalToken # call[i].approvalToken

\* Invocations that race on one edition do not all lose: when one is about to
\* write on the current edition, some change gets through unless that
\* invocation runs out of time.
RaceIsDecided ==
  \A i \in Invocation, l \in Seeded, n \in 1..Cardinality(Token) :
    /\ call[i].pc = "write" /\ call[i].listingId = l
    /\ call[i].approval.version = n /\ listings[l].version = n
    ~> \/ listings[l].version > n
       \/ call[i].pc = "done" /\ call[i].result = "timeout"

\* The tables and the two programs implement the ledger of grants: a row that
\* was put, or is held by the invocation that deleted it, is a grant.
GrantOf(r) == [token |-> r.approvalToken, listing |-> r.listingId,
               price |-> r.newPrice, version |-> r.version]

Held == {call[i].approval : i \in {j \in Invocation : call[j].pc = "write"}}

Live == approvals \cup Held

Ledger == INSTANCE PriceLedger WITH
  Listing <- Seeded,
  Price   <- {ToInt(a) : a \in Amount},
  price   <- [l \in Seeded |-> listings[l].askingPrice],
  version <- [l \in Seeded |-> listings[l].version],
  grant   <- {GrantOf(r) : r \in Live},
  granted <- {r.approvalToken : r \in issued}

ImplementsLedger == Ledger!Spec
=============================================================================

------------------------- MODULE ListingOps_history --------------------------
(***************************************************************************)
(* Theorems about what the tables of ListingOps tell of the past: the      *)
(* editions of a listing, the times of its changes and the changelog.      *)
(***************************************************************************)
EXTENDS ListingOps_ledger

USE ListingAssumption, AmountAssumption, ClockAssumption, FaultsAssumption

-----------------------------------------------------------------------------
\* Histories only grow under ListingOps.
LEMMA WritesGrow ==
  ASSUME Next
  PROVE  /\ writes \subseteq writes'
         /\ \/ UNCHANGED <<listings, writes>>
            \/ \E i \in Invocation : call[i].pc = "write" /\ ApplyWrite(i)
  <1>1. CASE \E t \in Token : MintNext(t)
    BY <1>1 DEF MintNext, Propose, Approve, Decline, MintGet, MintRefused, MintPut, MintFails, PutRow,
                tables, history
  <1>2. CASE \E i \in Invocation, l \in ListingId, a \in Amount, t \in Token : Call(i, l, a, t)
    BY <1>2 DEF Call, tables, history
  <1>3. CASE \E i \in Invocation : WriteListing(i)
    BY <1>3 DEF WriteListing, ApplyWrite, At
  <1>4. CASE \E i \in Invocation : LambdaStep(i) /\ ~WriteListing(i)
    BY <1>4 DEF LambdaStep, GetNothing, GetApproval, DeleteApproval, AppendLog, Stopped, tables, history
  <1>5. CASE Tick \/ \E r \in approvals : TtlSweep(r)
    BY <1>5 DEF Tick, TtlSweep, tables, history
  <1> QED
    BY <1>1, <1>2, <1>3, <1>4, <1>5 DEF Next

\* The writes of a listing but for some earlier ones, one by one: they have the
\* versions so far, each found the price that the one before it left, and the
\* table shows what the last one left.
WritesSince(old, l) == {w \in writes \ old : w.listingId = l}

Shows(old, l, version, price) ==
  IF version = 1 THEN price = OpeningPrice[l]
  ELSE \A w \in WritesSince(old, l) : w.version = version - 1 => w.newPrice = price

Line(old, l) ==
  /\ \A w \in WritesSince(old, l) : w.version \in 1..(listings[l].version - 1)
  /\ \A n \in 1..(listings[l].version - 1) : \E w \in WritesSince(old, l) : w.version = n
  /\ \A w \in WritesSince(old, l) : Shows(old, l, w.version, w.oldPrice)
  /\ Shows(old, l, listings[l].version, listings[l].askingPrice)

LEMMA LineKept ==
  ASSUME NEW old, NEW new, NEW l \in Seeded, Line(old, l), listings'[l] = listings[l],
         WritesSince(new, l)' = WritesSince(old, l)
  PROVE  Line(new, l)'
  BY DEF Line, Shows

\* A write goes on top of the last edition and becomes the last.
LEMMA LineWrite ==
  ASSUME SInv, NEW old, old \subseteq writes, \A l \in Seeded : Line(old, l),
         NEW i \in Invocation, call[i].pc = "write", ApplyWrite(i)
  PROVE  \A l \in Seeded : Line(old, l)'
  <1>0. call[i].listingId \in Seeded
    BY DEF SInv, TInv, Checked, CheckedRow, Matches, ApprovalRow
  <1>1. PICK l \in Seeded : l = call[i].listingId
    BY <1>0
  <1>a. PICK v, price : v = listings[l].version /\ price = call[i].newPrice
    OBVIOUS
  <1>b. PICK n : n = [approvalToken |-> call[i].approvalToken, listingId |-> l,
                      oldPrice |-> listings[l].askingPrice, newPrice |-> price,
                      version |-> v, at |-> now]
    OBVIOUS
  <1>2. /\ listings \in [Seeded -> [askingPrice : Nat, version : Nat \ {0}]]
        /\ \A w \in writes : w.version \in Nat
    BY DEF SInv, TInv, TypeOK, WriteRecord
  <1>3. /\ writes' = writes \cup {n}
        /\ listings' = [listings EXCEPT ![l] = NewEdition(i, listings[l])]
    BY <1>1, <1>a, <1>b DEF ApplyWrite
  <1>4. n \notin writes
    BY <1>b DEF SInv, Spent
  <1>5. n \notin old
    BY <1>4
  <1>6. /\ n.listingId = l /\ n.version = v
        /\ n.oldPrice = listings[l].askingPrice /\ n.newPrice = price
    BY <1>b
  <1>7. /\ listings'[l].version = v + 1
        /\ listings'[l].askingPrice = price
        /\ \A k \in Seeded : k # l => listings'[k] = listings[k]
    BY <1>1, <1>2, <1>3, <1>a DEF NewEdition
  <1>8. WritesSince(old, l)' = WritesSince(old, l) \cup {n}
    BY <1>3, <1>5, <1>6 DEF WritesSince
  <1>9. ASSUME NEW k \in Seeded, k # l PROVE Line(old, k)'
    <2>1. WritesSince(old, k)' = WritesSince(old, k)
      BY <1>3, <1>6, <1>9 DEF WritesSince
    <2> QED
      BY <1>7, <1>9, <2>1, LineKept
  <1>10. Line(old, l)'
    <2>1. /\ v \in Nat \ {0} /\ Line(old, l)
          /\ \A w \in WritesSince(old, l) : w.version \in 1..(v - 1)
      BY <1>2, <1>a DEF Line
    <2>2. \A w \in WritesSince(old, l)' : w.version \in 1..v
      BY <1>6, <1>8, <2>1
    <2>3. \A m \in 1..v : \E w \in WritesSince(old, l)' : w.version = m
      <3> SUFFICES ASSUME NEW m \in 1..v PROVE \E w \in WritesSince(old, l)' : w.version = m
        OBVIOUS
      <3>1. CASE m = v
        BY <1>6, <1>8, <3>1
      <3>2. CASE m # v
        <4>1. m \in 1..(v - 1)
          BY <2>1, <3>2
        <4> QED
          BY <1>8, <1>a, <2>1, <4>1 DEF Line
      <3> QED
        BY <3>1, <3>2
    <2>4. \A p : \A m \in 1..v : Shows(old, l, m, p) => Shows(old, l, m, p)'
      BY <1>6, <1>8, <2>1 DEF Shows
    <2>5. \A w \in WritesSince(old, l)' : Shows(old, l, w.version, w.oldPrice)'
      <3> SUFFICES ASSUME NEW w \in WritesSince(old, l)' PROVE Shows(old, l, w.version, w.oldPrice)'
        OBVIOUS
      <3>1. CASE w = n
        BY <1>6, <1>a, <2>1, <2>4, <3>1 DEF Line
      <3>2. CASE w # n
        <4>1. w \in WritesSince(old, l)
          BY <1>8, <3>2
        <4>2. Shows(old, l, w.version, w.oldPrice) /\ w.version \in 1..v
          BY <2>1, <4>1 DEF Line
        <4> QED
          BY <2>4, <4>2
      <3> QED
        BY <3>1, <3>2
    <2>6. Shows(old, l, v + 1, price)'
      BY <1>6, <1>8, <2>1 DEF Shows
    <2> QED
      BY <1>7, <2>1, <2>2, <2>3, <2>5, <2>6 DEF Line
  <1> QED
    BY <1>1, <1>9, <1>10

\* The same in the words of LinearHistory and of LifeIsLinear.
Linear(ws, l) ==
  LET PriceAt(v) == IF v = 1 THEN {OpeningPrice[l]}
                    ELSE {w.newPrice : w \in {w \in ws : w.version = v - 1}}
  IN  /\ {w.version : w \in ws} = 1..(listings[l].version - 1)
      /\ \A w \in ws : PriceAt(w.version) = {w.oldPrice}
      /\ PriceAt(listings[l].version) = {listings[l].askingPrice}

LEMMA LineTells ==
  ASSUME TypeOK, NEW old, NEW l \in Seeded, Line(old, l)
  PROVE  Linear(WritesSince(old, l), l)
  <1> DEFINE PriceAt(v) == IF v = 1 THEN {OpeningPrice[l]}
                           ELSE {w.newPrice : w \in {w \in WritesSince(old, l) : w.version = v - 1}}
  <1>1. Line(old, l) /\ listings[l].version \in Nat \ {0}
    BY DEF TypeOK
  <1>2. {w.version : w \in WritesSince(old, l)} = 1..(listings[l].version - 1)
    BY <1>1 DEF Line
  <1>3. ASSUME NEW v \in 1..listings[l].version, NEW p, Shows(old, l, v, p) PROVE PriceAt(v) = {p}
    <2>1. CASE v = 1
      BY <1>3, <2>1 DEF Shows
    <2>2. CASE v # 1
      <3>1. v - 1 \in 1..(listings[l].version - 1)
        BY <1>1, <2>2
      <3>2. PICK w \in WritesSince(old, l) : w.version = v - 1
        BY <1>1, <3>1 DEF Line
      <3>3. \A u \in WritesSince(old, l) : u.version = v - 1 => u.newPrice = p
        BY <1>3, <2>2 DEF Shows
      <3> QED
        BY <2>2, <3>2, <3>3
    <2> QED
      BY <2>1, <2>2
  <1>4. \A w \in WritesSince(old, l) : PriceAt(w.version) = {w.oldPrice}
    <2> SUFFICES ASSUME NEW w \in WritesSince(old, l) PROVE PriceAt(w.version) = {w.oldPrice}
      OBVIOUS
    <2>1. w.version \in 1..listings[l].version /\ Shows(old, l, w.version, w.oldPrice)
      BY <1>1 DEF Line
    <2> HIDE DEF PriceAt
    <2> QED
      BY <1>3, <2>1
  <1>5. PriceAt(listings[l].version) = {listings[l].askingPrice}
    <2>1. listings[l].version \in 1..listings[l].version
      BY <1>1
    <2> HIDE DEF PriceAt
    <2> QED
      BY <1>1, <1>3, <2>1 DEF Line
  <1> QED
    BY <1>2, <1>4, <1>5 DEF Linear

\* LinearHistory of ListingOps: no edition is lost, overwritten unseen or counted
\* twice, whatever fails (handler.py:91-101).
THEOREM LinearHistoryHolds == Spec => []LinearHistory
  <1> DEFINE Lines == \A l \in Seeded : Line({}, l)
  <1>1. Init => Lines
    BY DEF Init, Line, WritesSince, Shows
  <1>2. ASSUME SInv, Lines, [Next]_vars PROVE Lines'
    <2>1. ASSUME UNCHANGED <<listings, writes>> PROVE Lines'
      BY <1>2, <2>1, LineKept DEF WritesSince
    <2>2. CASE Next
      BY <1>2, <2>1, <2>2, WritesGrow, LineWrite
    <2>3. CASE UNCHANGED vars
      BY <2>1, <2>3 DEF vars, tables, history
    <2> QED
      BY <1>2, <2>2, <2>3
  <1>3. ASSUME SInv, Lines PROVE LinearHistory
    <2>1. \A l \in Seeded : WritesSince({}, l) = {w \in writes : w.listingId = l}
      BY DEF WritesSince
    <2>2. \A l \in Seeded : Linear(WritesSince({}, l), l)
      BY <1>3, LineTells DEF SInv, TInv
    <2>3. \A l \in Seeded : Linear({w \in writes : w.listingId = l}, l)
      BY <2>1, <2>2
    <2> QED
      BY <2>3 DEF Linear, LinearHistory
  <1> QED
    BY <1>1, <1>2, <1>3, SInvInit, SInvStep, PTL DEF Spec

-----------------------------------------------------------------------------
\* What one step of the Lambda leaves of its invocation, and of the others.
LEMMA InvocationFrame ==
  ASSUME TInv, NEW i \in Invocation, LambdaStep(i)
  PROVE  /\ UNCHANGED <<now, mint, issued>>
         /\ \A j \in Invocation : j # i => call'[j] = call[j]
         /\ call'[i].startedAt = call[i].startedAt /\ call'[i].listingId = call[i].listingId
         /\ call'[i].newPrice = call[i].newPrice
         /\ call'[i].approvalToken = call[i].approvalToken
         /\ call'[i].pc # "get"
         /\ call'[i].pc = "delete" => \E r \in issued : GetApproval(i, r) /\ call'[i].approval = r
         /\ call[i].pc # "get" => call'[i].approval = call[i].approval
  <1>1. call[i] \in CallState /\ call \in [Invocation -> CallState \cup {Idle}]
    BY CallStarted DEF TInv, TypeOK
  <1>2. CASE GetNothing(i) \/ DeleteApproval(i) \/ WriteListing(i) \/ AppendLog(i) \/ Stopped(i)
    <2>1. /\ UNCHANGED <<now, mint, issued>>
          /\ \E p \in {"write", "log", "done"}, res \in Result :
               \/ call' = [call EXCEPT ![i].pc = p]
               \/ call' = [call EXCEPT ![i].pc = p, ![i].result = res]
      BY <1>2 DEF GetNothing, DeleteApproval, WriteListing, AppendLog, Stopped, Goto, Return,
                  Result, tables, history
    <2> QED
      BY <1>1, <2>1 DEF CallState
  <1>3. ASSUME NEW r \in issued, GetApproval(i, r)
        PROVE  /\ UNCHANGED <<now, mint, issued>>
               /\ call[i].pc = "get"
               /\ \/ \E res : call' = [call EXCEPT ![i].pc = "done", ![i].result = res]
                  \/ call' = [call EXCEPT ![i].pc = "delete", ![i].approval = r]
    BY <1>3 DEF GetApproval, Return, At, tables, history
  <1>4. ASSUME NEW r \in issued, GetApproval(i, r)
        PROVE  /\ \A j \in Invocation : j # i => call'[j] = call[j]
               /\ call'[i].startedAt = call[i].startedAt /\ call'[i].listingId = call[i].listingId
               /\ call'[i].newPrice = call[i].newPrice
               /\ call'[i].approvalToken = call[i].approvalToken
               /\ call'[i].pc # "get"
               /\ call'[i].pc = "delete" => call'[i].approval = r
    BY <1>1, <1>3, <1>4 DEF CallState
  <1>5. CASE \E r \in issued : GetApproval(i, r)
    <2>1. PICK r \in issued : GetApproval(i, r)
      BY <1>5
    <2>2. call[i].pc = "get" /\ UNCHANGED <<now, mint, issued>>
      BY <1>3, <2>1
    <2> QED
      BY <1>4, <2>1, <2>2, Zenon
  <1> QED
    BY <1>2, <1>5 DEF LambdaStep

-----------------------------------------------------------------------------
\* Times.  What a mint read was there by then, and what was written before the
\* edition it read was written by then.
ReadBy(l, version, time) ==
  \A w \in writes : w.listingId = l /\ w.version < version => w.at <= time

Times ==
  /\ \A t \in Token : mint[t].pc = "put" =>
       /\ mint[t].mintedAt <= now
       /\ ReadBy(mint[t].listingId, mint[t].version, mint[t].mintedAt)
  /\ \A r \in issued :
       /\ r.mintedAt <= now
       /\ r.version <= listings[r.listingId].version
       /\ ReadBy(r.listingId, r.version, r.mintedAt)

\* An invocation starts before its approval expires, and writes in its time.
Punctual ==
  /\ \A i \in Invocation : call[i].pc = "get" => call[i].startedAt <= now
  /\ \A i \in Invocation : call[i].pc \in {"delete", "write"} =>
       call[i].startedAt <= call[i].approval.expiresAt
  /\ \A w \in writes : w.at <= now
  /\ \A w \in writes, r \in issued : r.approvalToken = w.approvalToken =>
       r.mintedAt <= w.at /\ w.at <= r.expiresAt + LambdaTimeout

HInv == LInv /\ Times /\ Punctual

\* A write belongs to the approval its invocation holds.
LEMMA NewWrite ==
  ASSUME SInv, NEW i \in Invocation, call[i].pc = "write", ApplyWrite(i)
  PROVE  \E n \in WriteRecord, r \in issued :
           /\ writes' = writes \cup {n}
           /\ n.listingId = call[i].listingId /\ n.newPrice = call[i].newPrice
           /\ n.approvalToken = call[i].approvalToken /\ r.approvalToken = call[i].approvalToken
           /\ n.version = listings[n.listingId].version /\ n.at = now
           /\ r = call[i].approval /\ r.listingId = n.listingId
  <1> DEFINE n == [approvalToken |-> call[i].approvalToken, listingId |-> call[i].listingId,
                   oldPrice |-> listings[call[i].listingId].askingPrice,
                   newPrice |-> call[i].newPrice,
                   version |-> listings[call[i].listingId].version, at |-> now]
  <1>1. /\ call[i].approval \in issued
        /\ call[i].approval.approvalToken = call[i].approvalToken
        /\ call[i].approval.listingId = call[i].listingId /\ call[i].listingId \in Seeded
    BY DEF SInv, RowsIssued, TInv, TypeOK, Checked, CheckedRow, Matches, ApprovalRow
  <1>2. call[i] \in CallState /\ now \in Nat /\ listings \in [Seeded -> [askingPrice : Nat, version : Nat \ {0}]]
    BY DEF SInv, TInv, TypeOK, Idle
  <1>3. n \in WriteRecord
    BY <1>1, <1>2 DEF WriteRecord, CallState
  <1>4. writes' = writes \cup {n}
    BY DEF ApplyWrite
  <1> QED
    BY <1>1, <1>3, <1>4

LEMMA HInvMint ==
  ASSUME HInv, NEW t \in Token, MintNext(t)
  PROVE  Times' /\ Punctual'
  <1> USE DEF HInv, LInv, SInv
  <1>1. /\ UNCHANGED <<listings, now, call, writes>>
        /\ \A r \in issued : r.approvalToken # t
        /\ \/ UNCHANGED issued
           \/ /\ issued' = issued \cup {MintedRow(t)}
              /\ mint[t].pc = "put" /\ mint'[t].pc \in {"minted", "failed"}
    BY MintFrame
  <1>2. \A s \in Token : s # t => mint'[s] = mint[s]
    BY DEF MintNext, Propose, Approve, Decline, MintGet, MintRefused, MintPut, MintFails, MintStep,
           TInv, TypeOK
  <1>3. mint'[t].pc = "put" => mint'[t].mintedAt <= now /\ ReadBy(mint'[t].listingId, mint'[t].version, mint'[t].mintedAt)
    <2>1. CASE MintGet(t)
      <3>1. PICK v \in Editions(mint[t].listingId) :
              mint' = [mint EXCEPT ![t].pc = "put", ![t].version = v, ![t].mintedAt = now]
        BY <2>1 DEF MintGet
      <3>2. mint[t] \in MintState /\ now \in Nat
        BY <2>1 DEF MintGet, TInv, TypeOK, Idle
      <3>3. mint'[t].mintedAt = now
        BY <3>1, <3>2 DEF TInv, TypeOK, MintState
      <3> QED
        BY <3>2, <3>3 DEF ReadBy, Punctual
    <2>2. CASE ~MintGet(t)
      <3>1. mint'[t].pc # "put"
        BY <2>2 DEF MintNext, Propose, Approve, Decline, MintRefused, MintPut, MintFails, MintStep,
                    TInv, TypeOK, MintState, Idle
      <3> QED
        BY <3>1
    <2> QED
      BY <2>1, <2>2
  <1>4. mint[t].pc = "put" =>
          LET r == MintedRow(t)
          IN  /\ r.mintedAt <= now /\ r.version <= listings[r.listingId].version
              /\ ReadBy(r.listingId, r.version, r.mintedAt)
              /\ r.approvalToken = t
    <2> SUFFICES ASSUME mint[t].pc = "put"
                 PROVE  LET r == MintedRow(t)
                        IN  /\ r.mintedAt <= now /\ r.version <= listings[r.listingId].version
                            /\ ReadBy(r.listingId, r.version, r.mintedAt)
                            /\ r.approvalToken = t
      OBVIOUS
    <2>1. mint[t].version <= listings[mint[t].listingId].version
      <3>1. mint[t].listingId \in Seeded
        BY DEF TInv, FoundListing
      <3> QED
        BY <3>1 DEF MintSeen, TInv, TypeOK
    <2> QED
      BY <2>1 DEF MintedRow, Times
  <1>5. Times'
    <2>1. \A s \in Token : mint'[s].pc = "put" =>
            mint'[s].mintedAt <= now /\ ReadBy(mint'[s].listingId, mint'[s].version, mint'[s].mintedAt)
      BY <1>2, <1>3 DEF Times
    <2>2. \A r \in issued' : /\ r.mintedAt <= now /\ r.version <= listings[r.listingId].version
                             /\ ReadBy(r.listingId, r.version, r.mintedAt)
      BY <1>1, <1>4 DEF Times
    <2> QED
      BY <1>1, <2>1, <2>2 DEF Times, ReadBy
  <1>6. Punctual'
    <2>1. \A w \in writes : w.approvalToken # t
      BY <1>1 DEF Spent, WriteOf
    <2>2. \A r \in issued' : r \in issued \/ (r.approvalToken = t)
      BY <1>1, <1>4
    <2> QED
      BY <1>1, <2>1, <2>2 DEF Punctual
  <1> QED
    BY <1>5, <1>6

LEMMA HInvWrite ==
  ASSUME HInv, NEW i \in Invocation, WriteListing(i), ApplyWrite(i)
  PROVE  Times' /\ Punctual'
  <1> USE DEF HInv, LInv, SInv
  <1>0. call[i].pc = "write" /\ now <= call[i].startedAt + LambdaTimeout
    BY DEF WriteListing, At, Alive
  <1>1. PICK n \in WriteRecord, a \in issued :
           /\ writes' = writes \cup {n}
           /\ n.listingId = call[i].listingId
           /\ n.approvalToken = a.approvalToken
           /\ n.version = listings[n.listingId].version /\ n.at = now
           /\ a = call[i].approval
    BY <1>0, NewWrite
  <1>2. LambdaStep(i) /\ UNCHANGED <<now, mint, issued>>
    BY DEF LambdaStep, WriteListing
  <1>3. ASSUME NEW l \in Seeded, NEW v \in Nat, NEW time, v <= listings[l].version, ReadBy(l, v, time)
        PROVE  ReadBy(l, v, time)'
    <2>1. listings[l].version \in Nat
      BY DEF TInv, TypeOK
    <2> QED
      BY <1>1, <1>3, <2>1 DEF ReadBy
  <1>4. \A l \in Seeded : /\ listings[l].version \in Nat /\ listings'[l].version \in Nat
                          /\ listings[l].version <= listings'[l].version
    <2>1. TypeOK /\ TypeOK' /\ Next
      BY <1>2, TInvStep DEF TInv, Next
    <2> QED
      BY <2>1, VersionsGrow DEF TypeOK
  <1>5. Times'
    <2>1. ASSUME NEW t \in Token, mint'[t].pc = "put"
          PROVE  (mint[t].mintedAt <= now /\ ReadBy(mint[t].listingId, mint[t].version, mint[t].mintedAt))'
      <3>1. PICK l, v, time : l = mint[t].listingId /\ v = mint[t].version /\ time = mint[t].mintedAt
        OBVIOUS
      <3>2. mint[t].pc = "put" /\ mint' = mint
        BY <1>2, <2>1
      <3>3. l \in Seeded /\ v \in 1..listings[l].version /\ time <= now /\ ReadBy(l, v, time)
        BY <3>1, <3>2 DEF TInv, FoundListing, MintSeen, Times
      <3>4. ReadBy(l, v, time)'
        BY <1>3, <1>4, <3>3
      <3> QED
        BY <1>2, <3>1, <3>2, <3>3, <3>4 DEF ReadBy
    <2>2. ASSUME NEW r \in issued'
          PROVE  /\ r.mintedAt <= now' /\ r.version <= listings'[r.listingId].version
                 /\ ReadBy(r.listingId, r.version, r.mintedAt)'
      <3>1. r \in issued /\ r.listingId \in Seeded /\ r.version \in Nat
        BY <1>2, <2>2 DEF TInv, TypeOK, ApprovalRow
      <3>2. r.mintedAt <= now /\ r.version <= listings[r.listingId].version /\ ReadBy(r.listingId, r.version, r.mintedAt)
        BY <3>1 DEF Times
      <3>3. ReadBy(r.listingId, r.version, r.mintedAt)'
        BY <1>3, <3>1, <3>2
      <3> QED
        BY <1>2, <1>4, <3>1, <3>2, <3>3
    <2> QED
      BY <1>2, <2>1, <2>2 DEF Times
  <1>6. Punctual'
    <2>1. \A r \in issued : r.approvalToken = n.approvalToken => r = a
      BY <1>1, RowOfToken
    <2>2. a.mintedAt <= now /\ now <= a.expiresAt + LambdaTimeout
      <3>1. call[i].startedAt <= a.expiresAt /\ a \in ApprovalRow /\ call[i] \in CallState /\ now \in Nat
        BY <1>0, <1>1 DEF Punctual, TInv, TypeOK, Idle
      <3> QED
        BY <1>0, <3>1 DEF ApprovalRow, CallState, Times
    <2>3. \A w \in writes', r \in issued' : r.approvalToken = w.approvalToken =>
            r.mintedAt <= w.at /\ w.at <= r.expiresAt + LambdaTimeout
      BY <1>1, <1>2, <2>1, <2>2 DEF Punctual
    <2>4. \A w \in writes' : w.at <= now'
      <3>1. now \in Nat
        BY DEF TInv, TypeOK
      <3> QED
        BY <1>1, <1>2, <3>1 DEF Punctual
    <2>5. ASSUME NEW j \in Invocation
          PROVE  /\ call'[j].pc = "get" => call'[j].startedAt <= now'
                 /\ call'[j].pc \in {"delete", "write"} => call'[j].startedAt <= call'[j].approval.expiresAt
      <3>1. j = i => call'[j].pc \notin {"get", "delete", "write"}
        BY <1>0 DEF WriteListing, Goto, Return, TInv, TypeOK, CallState, Idle
      <3>2. j # i => call'[j] = call[j]
        BY <1>2, InvocationFrame
      <3> QED
        BY <1>2, <3>1, <3>2 DEF Punctual
    <2> QED
      BY <2>3, <2>4, <2>5 DEF Punctual
  <1> QED
    BY <1>5, <1>6

LEMMA HInvLambda ==
  ASSUME HInv, NEW i \in Invocation, LambdaStep(i), UNCHANGED <<listings, writes>>
  PROVE  Times' /\ Punctual'
  <1> USE DEF HInv, LInv, SInv
  <1>1. UNCHANGED <<now, mint, issued>>
    BY InvocationFrame
  <1>2. Times'
    BY <1>1 DEF Times, ReadBy
  <1>3. ASSUME NEW j \in Invocation
        PROVE  /\ call'[j].pc = "get" => call'[j].startedAt <= now'
               /\ call'[j].pc \in {"delete", "write"} => call'[j].startedAt <= call'[j].approval.expiresAt
    <2>1. CASE j # i
      BY <1>1, <2>1, InvocationFrame DEF Punctual
    <2>2. CASE j = i /\ call'[i].pc = "delete"
      <3>1. PICK r \in issued : GetApproval(i, r) /\ call'[i].approval = r
        BY <2>2, InvocationFrame
      <3>2. call[i].pc = "get" /\ call[i] \in CallState
        BY <3>1 DEF GetApproval, At, TInv, TypeOK, Idle
      <3>3. ~Expired(r)
        <4>1. \A res : Return(i, res) => call'[i].pc = "done"
          BY <3>2 DEF Return, TInv, TypeOK, CallState
        <4> QED
          BY <2>2, <3>1, <4>1 DEF GetApproval
      <3>4. r.expiresAt \in Nat /\ now \in Nat /\ call[i].startedAt \in Nat
        BY <3>2 DEF TInv, TypeOK, ApprovalRow, CallState
      <3>5. call'[i].startedAt = call[i].startedAt
        BY InvocationFrame
      <3> QED
        BY <2>2, <3>1, <3>2, <3>3, <3>4, <3>5 DEF Expired, Punctual
    <2>3. CASE j = i /\ call'[i].pc = "write"
      <3>1. call[i].pc = "delete"
        BY <2>3 DEF LambdaStep, GetNothing, GetApproval, DeleteApproval, WriteListing, AppendLog,
                    Stopped, Goto, Return, At, TInv, TypeOK, CallState, Idle
      <3> QED
        BY <2>3, <3>1, InvocationFrame DEF Punctual
    <2> QED
      BY <2>1, <2>2, <2>3, InvocationFrame
  <1> QED
    BY <1>1, <1>2, <1>3 DEF Punctual

LEMMA HInvStep == HInv /\ [Next]_vars => HInv'
  <1> SUFFICES ASSUME HInv, [Next]_vars PROVE HInv'
    OBVIOUS
  <1>0. LInv'
    BY SInvStep, MintSeenStep DEF HInv, LInv, SInv
  <1>1. CASE \E t \in Token : MintNext(t)
    BY <1>0, <1>1, HInvMint DEF HInv
  <1>2. ASSUME NEW i \in Invocation, LambdaStep(i) PROVE HInv'
    <2>1. \/ UNCHANGED <<listings, writes>>
          \/ WriteListing(i) /\ ApplyWrite(i)
      BY <1>2 DEF LambdaStep, GetNothing, GetApproval, DeleteApproval, WriteListing, AppendLog, Stopped,
                  tables, history
    <2> QED
      BY <1>0, <1>2, <2>1, HInvWrite, HInvLambda DEF HInv
  <1>3. ASSUME NEW i \in Invocation, NEW l \in ListingId, NEW a \in Amount, NEW t \in Token, Call(i, l, a, t)
        PROVE  HInv'
    <2>1. /\ UNCHANGED <<listings, now, mint, issued, writes>>
          /\ \A j \in Invocation : j # i => call'[j] = call[j]
          /\ call'[i].pc = "get" /\ call'[i].startedAt = now
      BY <1>3 DEF Call, tables, history, HInv, LInv, SInv, TInv, TypeOK
    <2>2. now \in Nat
      BY DEF HInv, LInv, SInv, TInv, TypeOK
    <2>3. Times' /\ Punctual'
      BY <2>1, <2>2 DEF HInv, Times, ReadBy, Punctual
    <2> QED
      BY <1>0, <2>3 DEF HInv
  <1>4. CASE Tick
    <2>1. /\ UNCHANGED <<listings, mint, issued, writes, call>>
          /\ now \in Nat /\ now' = now + 1
      BY <1>4 DEF Tick, tables, history, HInv, LInv, SInv, TInv, TypeOK
    <2>2. /\ \A w \in writes : w.at \in Nat
          /\ \A r \in issued : r.mintedAt \in Nat
          /\ \A t \in Token : mint[t].pc = "put" => mint[t].mintedAt \in Nat
          /\ \A i \in Invocation : call[i].pc = "get" => call[i].startedAt \in Nat
      BY DEF HInv, LInv, SInv, TInv, TypeOK, WriteRecord, ApprovalRow, MintState, CallState, Idle
    <2>3. Times'
      BY <2>1, <2>2 DEF HInv, Times, ReadBy
    <2>4. Punctual'
      BY <2>1, <2>2 DEF HInv, Punctual
    <2> QED
      BY <1>0, <2>3, <2>4 DEF HInv
  <1>5. CASE (\E r \in approvals : TtlSweep(r)) \/ UNCHANGED vars
    <2>1. UNCHANGED <<listings, now, mint, call, issued, writes>>
      BY <1>5 DEF TtlSweep, vars, tables, history
    <2> QED
      BY <1>0, <2>1 DEF HInv, Times, ReadBy, Punctual
  <1> QED
    BY <1>1, <1>2, <1>3, <1>4, <1>5 DEF Next

LEMMA HInvAlways == Spec => []HInv
  <1>1. Init => HInv
    BY SInvInit DEF Init, HInv, LInv, MintSeen, Times, Punctual, Idle
  <1> QED
    BY <1>1, HInvStep, PTL DEF Spec

\* The row of a write, picked by its token.
LEMMA RowOfWrite ==
  ASSUME SInv, NEW w \in writes
  PROVE  RowOf(w) \in issued /\ RowOf(w).approvalToken = w.approvalToken /\ WriteOf(w, RowOf(w))
  <1>1. PICK r \in issued : r.approvalToken = w.approvalToken /\ WriteOf(w, r)
    BY DEF SInv, Spent, WriteOf
  <1>2. RowOf(w) \in issued /\ RowOf(w).approvalToken = w.approvalToken
    BY <1>1 DEF RowOf
  <1>3. RowOf(w) = r
    BY <1>1, <1>2, RowOfToken DEF SInv
  <1> QED
    BY <1>1, <1>3

\* WriteSoonAfterExpiry of ListingOps: the expiry is checked once, and what is
\* checked holds for as long as the invocation has (handler.py:79).
THEOREM WriteSoonAfterExpiryHolds == Spec => []WriteSoonAfterExpiry
  <1>1. HInv => WriteSoonAfterExpiry
    BY RowOfWrite DEF HInv, LInv, Punctual, WriteSoonAfterExpiry
  <1> QED
    BY <1>1, HInvAlways, PTL

-----------------------------------------------------------------------------
\* The changelog.  Who comes to the append has written, and who has appended is
\* alone with its token.
Updated(i) == call[i].pc = "done" /\ call[i].result = "updated"

Wrote(i) ==
  \E w \in writes : /\ w.approvalToken = call[i].approvalToken
                    /\ w.listingId = call[i].listingId /\ w.newPrice = call[i].newPrice

Appenders ==
  /\ \A i \in Invocation : call[i].pc = "log" \/ Updated(i) =>
       /\ Wrote(i)
       /\ CheckedRow(i) /\ call[i].approval \in issued
  /\ \A i, j \in Invocation : Updated(i) /\ call[j].pc = "log" =>
       call[i].approvalToken # call[j].approvalToken

\* An entry is of a write and its row.
EntryOf(c, w, r) ==
  /\ r.approvalToken = w.approvalToken
  /\ c.listingId = w.listingId /\ c.newValue = w.newPrice
  /\ c.changedAt = r.mintedAt /\ c.actor = r.actor /\ c.oldValue = r.oldPrice

Entries == \A c \in changelog : \E w \in writes, r \in issued : EntryOf(c, w, r)

\* An update keeps its entry, or another took its place with the same key.
Displaced(i) ==
  \E w \in writes, r \in issued :
    /\ r.approvalToken = w.approvalToken /\ w.listingId = call[i].listingId
    /\ w.approvalToken # call[i].approvalToken /\ r.mintedAt = call[i].approval.mintedAt

Kept == \A i \in Invocation : Updated(i) => LogEntry(i) \in changelog \/ Displaced(i)

\* The last only where nobody clears the changelog.
LogInv == SInv /\ Appenders /\ Entries

CInv == LogInv /\ Kept

\* Writes and rows are never forgotten.
LEMMA PastStays ==
  ASSUME SInv, [Next]_vars
  PROVE  writes \subseteq writes' /\ issued \subseteq issued'
  <1>1. CASE \E t \in Token : MintNext(t)
    BY <1>1, MintFrame DEF SInv
  <1>2. CASE \E i \in Invocation : LambdaStep(i)
    BY <1>2, WritesGrow, InvocationFrame DEF SInv, Next
  <1>3. CASE ~(\E t \in Token : MintNext(t)) /\ ~(\E i \in Invocation : LambdaStep(i))
    BY <1>3 DEF Next, Call, Tick, TtlSweep, vars, history
  <1> QED
    BY <1>1, <1>2, <1>3

\* An invocation and the log, where neither moves.
LEMMA LogKept ==
  ASSUME LogInv, writes \subseteq writes', issued \subseteq issued', UNCHANGED changelog,
         \A i \in Invocation : call'[i].pc = "log" \/ Updated(i)' => call'[i] = call[i]
  PROVE  Appenders' /\ Entries' /\ (Kept => Kept')
  <1>1. \A i \in Invocation : Wrote(i) /\ call'[i] = call[i] => Wrote(i)'
    BY DEF Wrote
  <1>2. \A i \in Invocation : Displaced(i) /\ call'[i] = call[i] => Displaced(i)'
    BY DEF Displaced
  <1>3. Appenders'
    BY <1>1 DEF LogInv, Appenders, Updated, CheckedRow, Matches
  <1>4. Kept => Kept'
    BY <1>2 DEF Kept, Updated, LogEntry, ChangedAt
  <1>5. Entries'
    BY DEF LogInv, Entries
  <1> QED
    BY <1>3, <1>4, <1>5

\* The update was applied and the invocation goes on to the append.
LEMMA LogAhead ==
  ASSUME LogInv, NEW i \in Invocation, WriteListing(i), call'[i].pc = "log"
  PROVE  Appenders' /\ Entries' /\ (Kept => Kept')
  <1> USE DEF LogInv
  <1>0. /\ LambdaStep(i) /\ TInv /\ SInv /\ UNCHANGED changelog /\ call[i].pc = "write"
        /\ call[i] \in CallState
    BY CallStarted DEF LambdaStep, WriteListing, At, SInv, TInv, TypeOK
  <1>1. ApplyWrite(i)
    BY <1>0 DEF WriteListing, Return, SInv, TInv, TypeOK, CallState
  <1>2. PICK n \in writes' : /\ writes' = writes \cup {n}
                             /\ n.listingId = call[i].listingId /\ n.newPrice = call[i].newPrice
                             /\ n.approvalToken = call[i].approvalToken
    BY <1>0, <1>1, NewWrite
  <1>3. /\ UNCHANGED <<now, mint, issued>>
        /\ \A j \in Invocation : j # i => call'[j] = call[j]
        /\ call'[i].listingId = call[i].listingId /\ call'[i].newPrice = call[i].newPrice
        /\ call'[i].approvalToken = call[i].approvalToken /\ call'[i].approval = call[i].approval
    BY <1>0, InvocationFrame
  <1>4. call[i].approval \in issued /\ CheckedRow(i)
    BY <1>0 DEF SInv, RowsIssued, TInv, Checked
  <1>5. Wrote(i)' /\ CheckedRow(i)'
    BY <1>2, <1>3, <1>4 DEF Wrote, CheckedRow, Matches
  <1>6. ASSUME NEW j \in Invocation, Updated(j) PROVE call[j].approvalToken # call[i].approvalToken
    <2>1. Wrote(j)
      BY <1>6 DEF Appenders
    <2> QED
      BY <1>0, <2>1 DEF Wrote, SInv, Spent
  <1>7. ~Updated(i)'
    BY DEF Updated
  <1>8. Appenders'
    <2>1. ASSUME NEW j \in Invocation, j # i, call'[j].pc = "log" \/ Updated(j)'
          PROVE  Wrote(j)' /\ CheckedRow(j)' /\ call'[j].approval \in issued'
      <3>1. Wrote(j) /\ CheckedRow(j) /\ call[j].approval \in issued
        BY <1>3, <2>1 DEF Appenders, Updated
      <3> QED
        BY <1>2, <1>3, <2>1, <3>1 DEF Wrote, CheckedRow, Matches
    <2>2. ASSUME NEW j \in Invocation, NEW k \in Invocation, Updated(j)', call'[k].pc = "log"
          PROVE  call'[j].approvalToken # call'[k].approvalToken
      <3>1. j # i /\ Updated(j) /\ call'[j] = call[j]
        BY <1>3, <1>7, <2>2 DEF Updated
      <3> QED
        BY <1>3, <1>6, <2>2, <3>1 DEF Appenders
    <2> QED
      BY <1>3, <1>4, <1>5, <2>1, <2>2 DEF Appenders
  <1>9. Entries'
    BY <1>0, <1>2, <1>3 DEF Entries
  <1>10. ASSUME Kept PROVE Kept'
    <2>1. ASSUME NEW j \in Invocation, Updated(j)'
          PROVE  LogEntry(j)' \in changelog' \/ Displaced(j)'
      <3>1. j # i /\ Updated(j) /\ call'[j] = call[j]
        BY <1>3, <1>7, <2>1 DEF Updated
      <3> QED
        BY <1>0, <1>2, <1>3, <1>10, <3>1 DEF Kept, Displaced, LogEntry, ChangedAt
    <2> QED
      BY <2>1 DEF Kept
  <1> QED
    BY <1>8, <1>9, <1>10

\* The append: it may take the place of an entry with the same key.
LEMMA LogAppended ==
  ASSUME LogInv, NEW i \in Invocation, AppendLog(i)
  PROVE  Appenders' /\ Entries' /\ (Kept => Kept')
  <1> USE DEF LogInv
  <1>0. /\ LambdaStep(i) /\ TInv /\ call[i].pc = "log" /\ UNCHANGED <<writes, issued>>
        /\ call[i] \in CallState
    BY CallStarted DEF LambdaStep, AppendLog, At, history, SInv, TInv, TypeOK
  <1>1. /\ \A j \in Invocation : j # i => call'[j] = call[j]
        /\ call'[i].listingId = call[i].listingId /\ call'[i].newPrice = call[i].newPrice
        /\ call'[i].approvalToken = call[i].approvalToken /\ call'[i].approval = call[i].approval
    BY <1>0, InvocationFrame
  <1>2. Wrote(i) /\ CheckedRow(i) /\ call[i].approval \in issued
    BY <1>0 DEF Appenders
  <1>3. PICK w \in writes : /\ w.approvalToken = call[i].approvalToken
                            /\ w.listingId = call[i].listingId /\ w.newPrice = call[i].newPrice
    BY <1>2 DEF Wrote
  <1>4. PICK r \in issued : r = call[i].approval /\ r.approvalToken = call[i].approvalToken
    BY <1>2 DEF CheckedRow
  <1>5. PICK e : e = LogEntry(i)
    OBVIOUS
  <1>6. /\ e.listingId = call[i].listingId /\ e.newValue = call[i].newPrice
        /\ e.changedAt = r.mintedAt /\ e.actor = r.actor /\ e.oldValue = r.oldPrice
    BY <1>4, <1>5 DEF LogEntry, ChangedAt
  <1>7. /\ call'[i].pc = "done"
        /\ \/ changelog' = {c \in changelog : ~SameKey(c, e)} \cup {e}
           \/ UNCHANGED changelog /\ call'[i].result # "updated"
    BY <1>0, <1>5 DEF AppendLog, PutLog, Return, SInv, TInv, TypeOK, CallState
  <1>8. \A j \in Invocation : j # i /\ call[j].pc \in {"write", "log"} =>
          call[j].approvalToken # call[i].approvalToken
    BY <1>0 DEF SInv, Exclusive
  <1>9. Appenders'
    <2>1. ASSUME NEW j \in Invocation, call'[j].pc = "log" \/ Updated(j)'
          PROVE  Wrote(j)' /\ CheckedRow(j)' /\ call'[j].approval \in issued'
      <3>1. Wrote(j) /\ CheckedRow(j) /\ call[j].approval \in issued
        BY <1>1, <1>2, <2>1 DEF Appenders, Updated
      <3>2. /\ call'[j].listingId = call[j].listingId /\ call'[j].newPrice = call[j].newPrice
            /\ call'[j].approvalToken = call[j].approvalToken /\ call'[j].approval = call[j].approval
        BY <1>1
      <3> QED
        BY <1>0, <3>1, <3>2 DEF Wrote, CheckedRow, Matches
    <2>2. ASSUME NEW j \in Invocation, NEW k \in Invocation, Updated(j)', call'[k].pc = "log"
          PROVE  call'[j].approvalToken # call'[k].approvalToken
      <3>1. k # i /\ call'[k] = call[k]
        BY <1>1, <1>7, <2>2
      <3>2. CASE j = i
        BY <1>1, <1>8, <2>2, <3>1, <3>2
      <3>3. CASE j # i
        BY <1>1, <2>2, <3>1, <3>3 DEF Appenders, Updated
      <3> QED
        BY <3>2, <3>3
    <2> QED
      BY <2>1, <2>2 DEF Appenders
  <1>10. Entries'
    <2>1. EntryOf(e, w, r)
      BY <1>3, <1>4, <1>6 DEF EntryOf
    <2> QED
      BY <1>0, <1>7, <2>1 DEF Entries
  <1>11. ASSUME Kept, NEW j \in Invocation, Updated(j)'
         PROVE  LogEntry(j)' \in changelog' \/ Displaced(j)'
    <2>1. CASE j = i
      <3>1. LogEntry(i)' = e
        BY <1>1, <1>5 DEF LogEntry, ChangedAt
      <3> QED
        BY <1>7, <1>11, <2>1, <3>1 DEF Updated
    <2>2. CASE j # i
      <3>1. Updated(j) /\ call'[j] = call[j] /\ LogEntry(j)' = LogEntry(j)
        BY <1>1, <1>11, <2>2 DEF Updated, LogEntry, ChangedAt
      <3>2. Displaced(j) => Displaced(j)'
        BY <1>0, <3>1 DEF Displaced
      <3>3. ASSUME SameKey(LogEntry(j), e) PROVE Displaced(j)'
        <4>1. call[j].listingId = w.listingId /\ call[j].approval.mintedAt = r.mintedAt
          BY <1>3, <1>6, <3>3 DEF SameKey, LogEntry, ChangedAt
        <4>2. w.approvalToken # call[j].approvalToken
          BY <1>0, <1>3, <3>1 DEF Appenders
        <4> QED
          BY <1>0, <1>3, <1>4, <3>1, <4>1, <4>2 DEF Displaced
      <3> QED
        BY <1>7, <1>11, <3>1, <3>2, <3>3 DEF Kept
    <2> QED
      BY <2>1, <2>2
  <1> QED
    BY <1>9, <1>10, <1>11 DEF Kept

LEMMA LogStep ==
  ASSUME LogInv, [Next]_vars
  PROVE  LogInv' /\ (Kept => Kept')
  <1>0. SInv' /\ writes \subseteq writes' /\ issued \subseteq issued' /\ TInv /\ SInv
    BY SInvStep, PastStays DEF LogInv, SInv
  <1>1. ASSUME NEW i \in Invocation, LambdaStep(i) PROVE LogInv' /\ (Kept => Kept')
    <2>1. CASE AppendLog(i)
      BY <1>0, <2>1, LogAppended DEF LogInv
    <2>2. CASE WriteListing(i) /\ call'[i].pc = "log"
      BY <1>0, <2>2, LogAhead DEF LogInv
    <2>3. CASE ~AppendLog(i) /\ ~(WriteListing(i) /\ call'[i].pc = "log")
      <3>1. call[i] \in CallState /\ call \in [Invocation -> CallState \cup {Idle}]
        BY <1>0, <1>1, CallStarted DEF TInv, TypeOK
      <3>2. UNCHANGED changelog
        BY <1>1, <2>3 DEF LambdaStep, GetNothing, GetApproval, DeleteApproval, WriteListing, Stopped, tables
      <3>3. call'[i].pc # "log" /\ ~Updated(i)'
        BY <1>1, <2>3, <3>1 DEF LambdaStep, GetNothing, GetApproval, DeleteApproval, WriteListing,
                                Stopped, Goto, Return, CallState, Updated
      <3>4. \A j \in Invocation : j # i => call'[j] = call[j]
        BY <1>0, <1>1, InvocationFrame
      <3> QED
        BY <1>0, <3>2, <3>3, <3>4, LogKept DEF LogInv
    <2> QED
      BY <2>1, <2>2, <2>3
  <1>2. ASSUME NEW i \in Invocation, NEW l \in ListingId, NEW a \in Amount, NEW t \in Token, Call(i, l, a, t)
        PROVE  LogInv' /\ (Kept => Kept')
    <2>1. /\ UNCHANGED changelog /\ call'[i].pc = "get"
          /\ \A j \in Invocation : j # i => call'[j] = call[j]
      BY <1>0, <1>2 DEF Call, tables, TInv, TypeOK
    <2> QED
      BY <1>0, <2>1, LogKept DEF LogInv, Updated
  <1>3. CASE (\E t \in Token : MintNext(t)) \/ (\E r \in approvals : TtlSweep(r)) \/ Tick \/ UNCHANGED vars
    <2>1. UNCHANGED <<changelog, call>>
      BY <1>3 DEF MintNext, Propose, Approve, Decline, MintGet, MintRefused, MintPut, MintFails, MintStep,
                  PutRow, TtlSweep, Tick, vars, tables
    <2> QED
      BY <1>0, <2>1, LogKept DEF LogInv
  <1> QED
    BY <1>1, <1>2, <1>3 DEF Next

LEMMA CInvStep == CInv /\ [Next]_vars => CInv'
  BY LogStep DEF CInv

LEMMA CInvAlways == Spec => []CInv
  <1>1. Init => CInv
    BY SInvInit DEF Init, CInv, LogInv, Appenders, Entries, Kept, Updated, Idle
  <1> QED
    BY <1>1, CInvStep, PTL DEF Spec

LEMMA EntryRecords ==
  ASSUME LogInv, NEW c \in changelog
  PROVE  \E w \in writes : Records(c, w)
  <1>1. PICK w \in writes, r \in issued : EntryOf(c, w, r)
    BY DEF LogInv, Entries
  <1>2. RowOf(w) = r
    BY <1>1, RowOfWrite, RowOfToken DEF LogInv, SInv, EntryOf
  <1> QED
    BY <1>1, <1>2 DEF EntryOf, Records, SameListing

\* LogTellsHistory of ListingOps: every entry is a change that happened, and
\* sorting by the time of the mint sorts by edition (handler.py:106).
THEOREM LogTellsHistoryHolds == Spec => []LogTellsHistory
  <1>1. ASSUME CInv, NEW c \in changelog PROVE \E w \in writes : Records(c, w)
    BY <1>1, EntryRecords DEF CInv
  <1>2. ASSUME HInv, NEW v \in writes, NEW w \in writes, SameListing(v, w), v.version < w.version
        PROVE  RowOf(v).mintedAt <= RowOf(w).mintedAt
    <2>1. /\ RowOf(v) \in issued /\ RowOf(v).approvalToken = v.approvalToken
          /\ RowOf(w) \in issued /\ WriteOf(w, RowOf(w))
      BY <1>2, RowOfWrite DEF HInv, LInv
    <2>2. RowOf(v).mintedAt <= v.at
      BY <1>2, <2>1 DEF HInv, Punctual
    <2>3. v.at <= RowOf(w).mintedAt
      BY <1>2, <2>1 DEF HInv, Times, ReadBy, WriteOf, SameListing
    <2>4. RowOf(v).mintedAt \in Nat /\ v.at \in Nat /\ RowOf(w).mintedAt \in Nat
      BY <1>2, <2>1 DEF HInv, LInv, SInv, TInv, TypeOK, ApprovalRow, WriteRecord
    <2> QED
      BY <2>2, <2>3, <2>4
  <1>3. CInv /\ HInv => LogTellsHistory
    BY <1>1, <1>2 DEF LogTellsHistory
  <1> QED
    BY <1>3, CInvAlways, HInvAlways, PTL

\* LogKeepsChanges of ListingOps: what was reported as updated is in the log,
\* but for a change minted in the same second (handler.py:103-115).
THEOREM LogKeepsChangesHolds == Spec => []LogKeepsChanges
  <1>1. ASSUME CInv, NEW i \in Invocation, Updated(i)
        PROVE  \/ LogEntry(i) \in changelog
               \/ \E w \in writes : /\ SameListing(w, call[i])
                                    /\ w.approvalToken # call[i].approvalToken
                                    /\ RowOf(w).mintedAt = call[i].approval.mintedAt
    <2>1. CASE LogEntry(i) \in changelog
      BY <2>1
    <2>2. CASE Displaced(i)
      <3>1. PICK w \in writes, r \in issued :
              /\ r.approvalToken = w.approvalToken /\ w.listingId = call[i].listingId
              /\ w.approvalToken # call[i].approvalToken /\ r.mintedAt = call[i].approval.mintedAt
        BY <2>2 DEF Displaced
      <3>2. RowOf(w) = r
        BY <1>1, <3>1, RowOfWrite, RowOfToken DEF CInv, LogInv, SInv
      <3> QED
        BY <3>1, <3>2 DEF SameListing
    <2> QED
      BY <1>1, <2>1, <2>2 DEF CInv, Kept
  <1>2. CInv => LogKeepsChanges
    BY <1>1 DEF LogKeepsChanges, Updated
  <1> QED
    BY <1>2, CInvAlways, PTL

-----------------------------------------------------------------------------
\* Refusals, without faults.  A row that is no longer in the table expired, or
\* an invocation has taken it.
Took(j, r) ==
  call[j].pc \in {"write", "log", "done"} /\ call[j].approval = r /\ call[j].result # "consumed"

Accounted == \A r \in issued : r \in approvals \/ Expired(r) \/ \E j \in Invocation : Took(j, r)

Overtaken(i) ==
  \E w \in writes : /\ w.listingId = call[i].listingId /\ w.version = call[i].approval.version
                    /\ w.approvalToken # call[i].approvalToken

Refusals ==
  \A i \in Invocation : call[i].pc = "done" =>
    /\ call[i].result = "consumed" =>
         /\ call[i].approval \in issued
         /\ Expired(call[i].approval) \/ \E j \in Invocation \ {i} : Took(j, call[i].approval)
    /\ call[i].result = "writeFailed" => Overtaken(i)

FirstIsOne == \A r \in issued : r.version # 0
Unbroken == \A l \in Seeded : Line({}, l)

\* A result is given at the end.
Running == \A i \in Invocation : call[i].pc \in {"get", "delete", "write", "log"} => call[i].result = "none"

NInv == ~Faults => Accounted /\ Refusals

LEMMA RunningStep == TInv /\ Running /\ [Next]_vars => Running'
  <1> SUFFICES ASSUME TInv, Running, [Next]_vars PROVE Running'
    OBVIOUS
  <1>1. ASSUME NEW i \in Invocation, LambdaStep(i) PROVE Running'
    <2>1. call[i] \in CallState /\ call[i].result = "none"
      BY <1>1, CallStarted DEF TInv, TypeOK, Running
    <2>2. call'[i].pc \in {"delete", "write", "log"} => call'[i].result = "none"
      BY <1>1, <2>1 DEF LambdaStep, GetNothing, GetApproval, DeleteApproval, WriteListing, AppendLog,
                        Stopped, Goto, Return, TInv, TypeOK, CallState
    <2> QED
      BY <1>1, <2>2, InvocationFrame DEF Running
  <1>2. ASSUME NEW i \in Invocation, NEW l \in ListingId, NEW a \in Amount, NEW t \in Token, Call(i, l, a, t)
        PROVE  Running'
    BY <1>2 DEF Call, Running, TInv, TypeOK
  <1>3. CASE (\E t \in Token : MintNext(t)) \/ (\E q \in approvals : TtlSweep(q)) \/ Tick \/ UNCHANGED vars
    <2>1. UNCHANGED call
      BY <1>3 DEF MintNext, Propose, Approve, Decline, MintGet, MintRefused, MintPut, MintFails, MintStep,
                  TtlSweep, Tick, vars
    <2> QED
      BY <2>1 DEF Running
  <1> QED
    BY <1>1, <1>2, <1>3 DEF Next

LEMMA UnbrokenStep == SInv /\ Unbroken /\ [Next]_vars => Unbroken'
  <1> SUFFICES ASSUME SInv, Unbroken, [Next]_vars PROVE Unbroken'
    OBVIOUS
  <1>1. ASSUME UNCHANGED <<listings, writes>> PROVE Unbroken'
    BY <1>1, LineKept DEF Unbroken, WritesSince
  <1>2. CASE Next
    BY <1>1, <1>2, WritesGrow, LineWrite DEF Unbroken
  <1>3. CASE UNCHANGED vars
    BY <1>1, <1>3 DEF vars, tables, history
  <1> QED
    BY <1>2, <1>3

LEMMA FirstIsOneStep == LInv /\ FirstIsOne /\ [Next]_vars => FirstIsOne'
  <1> SUFFICES ASSUME LInv, FirstIsOne, [Next]_vars PROVE FirstIsOne'
    OBVIOUS
  <1>1. ASSUME NEW t \in Token, MintNext(t) PROVE FirstIsOne'
    <2>1. UNCHANGED issued \/ (issued' = issued \cup {MintedRow(t)} /\ mint[t].pc = "put")
      BY <1>1, MintFrame DEF LInv, SInv
    <2>2. mint[t].pc = "put" => MintedRow(t).version # 0
      BY DEF LInv, MintSeen, MintedRow
    <2> QED
      BY <2>1, <2>2 DEF FirstIsOne
  <1>2. ASSUME NEW i \in Invocation, LambdaStep(i) PROVE FirstIsOne'
    BY <1>2, InvocationFrame DEF LInv, SInv, FirstIsOne
  <1>3. CASE ~(\E t \in Token : MintNext(t)) /\ ~(\E i \in Invocation : LambdaStep(i))
    BY <1>3 DEF Next, Call, Tick, TtlSweep, vars, history, FirstIsOne
  <1> QED
    BY <1>1, <1>2, <1>3

\* What has expired stays so, and who has taken a row has taken it for good.
LEMMA ExpiredStays ==
  ASSUME TInv, [Next]_vars, NEW r \in issued, Expired(r)
  PROVE  Expired(r)'
  <1>1. now \in Nat /\ r.expiresAt \in Nat
    BY DEF TInv, TypeOK, ApprovalRow
  <1>2. now' = now \/ now' = now + 1
    <2>1. CASE \E i \in Invocation : LambdaStep(i)
      BY <2>1, InvocationFrame
    <2>2. CASE ~\E i \in Invocation : LambdaStep(i)
      BY <2>2 DEF Next, MintNext, Propose, Approve, Decline, MintGet, MintRefused, MintPut, MintFails,
                  MintStep, Call, TtlSweep, Tick, vars
    <2> QED
      BY <2>1, <2>2
  <1> QED
    BY <1>1, <1>2 DEF Expired

LEMMA TookStays ==
  ASSUME TInv, [Next]_vars, NEW j \in Invocation, NEW r, Took(j, r)
  PROVE  Took(j, r)'
  <1>1. CASE LambdaStep(j)
    <2>1. call[j] \in CallState /\ call[j].pc \in {"write", "log"}
      BY <1>1, CallStarted DEF TInv, TypeOK, Took
    <2>2. call'[j].approval = call[j].approval
      BY <1>1, <2>1, InvocationFrame
    <2>3. call'[j].pc \in {"log", "done"} /\ call'[j].result # "consumed"
      BY <1>1, <2>1 DEF LambdaStep, GetNothing, GetApproval, DeleteApproval, WriteListing, AppendLog,
                        Stopped, At, Goto, Return, TInv, TypeOK, CallState, Took
    <2> QED
      BY <2>2, <2>3 DEF Took
  <1>2. CASE \E i \in Invocation : i # j /\ LambdaStep(i)
    BY <1>2, InvocationFrame DEF Took
  <1>3. ASSUME NEW i \in Invocation, NEW l \in ListingId, NEW a \in Amount, NEW t \in Token, Call(i, l, a, t)
        PROVE  call'[j] = call[j]
    BY <1>3 DEF Call, Idle, Took, TInv, TypeOK
  <1>4. CASE (\E t \in Token : MintNext(t)) \/ (\E q \in approvals : TtlSweep(q)) \/ Tick \/ UNCHANGED vars
    <2>1. UNCHANGED call
      BY <1>4 DEF MintNext, Propose, Approve, Decline, MintGet, MintRefused, MintPut, MintFails, MintStep,
                  TtlSweep, Tick, vars
    <2> QED
      BY <2>1 DEF Took
  <1> QED
    BY <1>1, <1>2, <1>3, <1>4 DEF Next, Took

LEMMA AccountedStep ==
  ASSUME SInv, Running, ~Faults, Accounted, [Next]_vars
  PROVE  Accounted'
  <1>0. TInv
    BY DEF SInv
  <1>1. ASSUME NEW r \in issued, r \notin approvals PROVE Expired(r)' \/ \E j \in Invocation : Took(j, r)'
    BY <1>0, <1>1, ExpiredStays, TookStays DEF Accounted
  <1>2. ASSUME NEW r \in issued, r \in approvals, r \notin approvals'
        PROVE  Expired(r)' \/ \E j \in Invocation : Took(j, r)'
    <2>1. CASE \E i \in Invocation : LambdaStep(i)
      <3>1. PICK i \in Invocation : LambdaStep(i)
        BY <2>1
      <3>2. DeleteApproval(i)
        BY <1>2, <3>1 DEF LambdaStep, GetNothing, GetApproval, WriteListing, AppendLog, Stopped, tables
      <3>3. call[i] \in CallState /\ r = call[i].approval /\ Goto(i, "write")
        BY <1>2, <3>1, <3>2, CallStarted DEF DeleteApproval, RemoveRow, SInv, TInv, TypeOK
      <3>4. call[i].result = "none"
        BY <3>2 DEF DeleteApproval, At, Running
      <3>5. Took(i, r)'
        BY <3>3, <3>4 DEF Goto, Took, SInv, TInv, TypeOK, CallState
      <3> QED
        BY <3>5
    <2>2. CASE \E q \in approvals : TtlSweep(q)
      BY <1>0, <1>2, <2>2, ExpiredStays DEF TtlSweep
    <2>3. CASE ~(\E i \in Invocation : LambdaStep(i)) /\ ~(\E q \in approvals : TtlSweep(q))
      BY <1>2, <2>3 DEF Next, MintNext, Propose, Approve, Decline, MintGet, MintRefused, MintPut, MintFails,
                        PutRow, Call, Tick, vars, tables
    <2> QED
      BY <2>1, <2>2, <2>3
  <1>3. ASSUME NEW r \in issued', r \notin issued PROVE r \in approvals'
    <2>1. CASE \E t \in Token : MintNext(t)
      BY <1>3, <2>1, MintFrame DEF SInv
    <2>2. CASE \E i \in Invocation : LambdaStep(i)
      BY <1>0, <1>3, <2>2, InvocationFrame
    <2>3. CASE ~(\E t \in Token : MintNext(t)) /\ ~(\E i \in Invocation : LambdaStep(i))
      BY <1>3, <2>3 DEF Next, Call, Tick, TtlSweep, vars, history
    <2> QED
      BY <2>1, <2>2, <2>3
  <1> QED
    BY <1>1, <1>2, <1>3 DEF Accounted

\* What ends an invocation now.
LEMMA RefusedNow ==
  ASSUME HInv, Unbroken, FirstIsOne, Running, ~Faults, Accounted, NEW i \in Invocation, LambdaStep(i),
         call'[i].pc = "done"
  PROVE  /\ call'[i].result = "consumed" =>
              /\ call[i].approval \in issued /\ call[i].pc = "delete"
              /\ Expired(call[i].approval) \/ \E j \in Invocation \ {i} : Took(j, call[i].approval)
         /\ call'[i].result = "writeFailed" => Overtaken(i) /\ call[i].pc = "write" /\ UNCHANGED writes
  <1> USE DEF HInv, LInv, SInv
  <1>0. call[i] \in CallState /\ call \in [Invocation -> CallState \cup {Idle}]
    BY CallStarted DEF TInv, TypeOK
  <1>1. ASSUME call'[i].result = "consumed"
        PROVE  /\ call[i].approval \in issued /\ call[i].pc = "delete"
               /\ Expired(call[i].approval) \/ \E j \in Invocation \ {i} : Took(j, call[i].approval)
    <2>1. call[i].pc = "delete" /\ call[i].approval \notin approvals
      BY <1>0, <1>1 DEF LambdaStep, GetNothing, GetApproval, DeleteApproval, TokenUnspent, WriteListing,
                        AppendLog, Stopped, At, Goto, Return, CallState, Running
    <2>2. call[i].approval \in issued
      BY <2>1 DEF RowsIssued
    <2>3. ~Took(i, call[i].approval)
      BY <2>1 DEF Took
    <2> QED
      BY <2>1, <2>2, <2>3 DEF Accounted
  <1>2. ASSUME call'[i].result = "writeFailed"
        PROVE  Overtaken(i) /\ call[i].pc = "write" /\ UNCHANGED writes
    <2>1. call[i].pc = "write" /\ ~VersionCurrent(i) /\ UNCHANGED writes
      BY <1>0, <1>2 DEF LambdaStep, GetNothing, GetApproval, DeleteApproval, WriteListing,
                        AppendLog, Stopped, At, Goto, Return, CallState, Running
    <2>2. PICK r \in issued : r = call[i].approval
      BY <2>1 DEF RowsIssued
    <2>3. /\ r.listingId = call[i].listingId /\ r.listingId \in Seeded
          /\ r.version \in Nat \ {0} /\ r.version <= listings[r.listingId].version
          /\ listings[r.listingId].version \in Nat
      BY <2>1, <2>2 DEF TInv, TypeOK, Checked, CheckedRow, Matches, ApprovalRow, FirstIsOne, Times
    <2>4. r.version \in 1..(listings[r.listingId].version - 1)
      BY <2>1, <2>2, <2>3 DEF VersionCurrent
    <2>5. PICK w \in WritesSince({}, r.listingId) : w.version = r.version
      BY <2>3, <2>4 DEF Unbroken, Line
    <2>6. w \in writes /\ w.listingId = call[i].listingId
      BY <2>3, <2>5 DEF WritesSince
    <2>7. w.approvalToken # call[i].approvalToken
      BY <2>1, <2>6 DEF Spent
    <2> QED
      BY <2>1, <2>2, <2>5, <2>6, <2>7 DEF Overtaken
  <1> QED
    BY <1>1, <1>2

LEMMA RefusalsStep ==
  ASSUME HInv, Unbroken, FirstIsOne, Running, ~Faults, Accounted, Refusals, [Next]_vars
  PROVE  Refusals'
  <1>0. /\ TInv /\ SInv /\ writes \subseteq writes' /\ issued \subseteq issued'
    BY PastStays DEF HInv, LInv, SInv
  <1>1. ASSUME NEW r \in issued, NEW i \in Invocation,
               Expired(r) \/ \E j \in Invocation \ {i} : Took(j, r)
        PROVE  Expired(r)' \/ \E j \in Invocation \ {i} : Took(j, r)'
    BY <1>0, <1>1, ExpiredStays, TookStays
  <1>2. ASSUME NEW i \in Invocation, call'[i].pc = "done", call'[i] = call[i]
        PROVE  /\ call'[i].result = "consumed" =>
                    /\ call'[i].approval \in issued'
                    /\ (Expired(call[i].approval) \/ \E j \in Invocation \ {i} : Took(j, call[i].approval))'
               /\ call'[i].result = "writeFailed" => Overtaken(i)'
    <2>1. call'[i].result = "writeFailed" => Overtaken(i)'
      BY <1>0, <1>2 DEF Refusals, Overtaken
    <2>2. ASSUME call'[i].result = "consumed"
          PROVE  /\ call'[i].approval \in issued'
                 /\ (Expired(call[i].approval) \/ \E j \in Invocation \ {i} : Took(j, call[i].approval))'
      <3>1. PICK r \in issued : r = call[i].approval
        BY <1>2, <2>2 DEF Refusals
      <3>2. Expired(r) \/ \E j \in Invocation \ {i} : Took(j, r)
        BY <1>2, <2>2, <3>1 DEF Refusals
      <3>3. Expired(r)' \/ \E j \in Invocation \ {i} : Took(j, r)'
        BY <1>1, <3>2
      <3> QED
        BY <1>0, <1>2, <3>1, <3>3 DEF Expired, Took
    <2> QED
      BY <2>1, <2>2
  <1>3. ASSUME NEW i \in Invocation, LambdaStep(i), call'[i].pc = "done"
        PROVE  /\ call'[i].result = "consumed" =>
                    /\ call'[i].approval \in issued'
                    /\ (Expired(call[i].approval) \/ \E j \in Invocation \ {i} : Took(j, call[i].approval))'
               /\ call'[i].result = "writeFailed" => Overtaken(i)'
    <2>1. ASSUME call'[i].result = "consumed"
          PROVE  /\ call'[i].approval \in issued'
                 /\ (Expired(call[i].approval) \/ \E j \in Invocation \ {i} : Took(j, call[i].approval))'
      <3>1. PICK r \in issued : r = call[i].approval
        BY <1>3, <2>1, RefusedNow
      <3>2. (Expired(r) \/ \E j \in Invocation \ {i} : Took(j, r)) /\ call[i].pc = "delete"
        BY <1>3, <2>1, <3>1, RefusedNow
      <3>3. Expired(r)' \/ \E j \in Invocation \ {i} : Took(j, r)'
        BY <1>1, <3>2
      <3>4. call'[i].approval = r
        BY <1>0, <1>3, <3>1, <3>2, InvocationFrame
      <3> QED
        BY <1>0, <3>1, <3>3, <3>4 DEF Expired, Took
    <2>2. ASSUME call'[i].result = "writeFailed"
          PROVE  Overtaken(i)'
      <3>1. Overtaken(i) /\ call[i].pc = "write"
        BY <1>3, <2>2, RefusedNow
      <3>2. /\ call'[i].approval = call[i].approval /\ call'[i].listingId = call[i].listingId
            /\ call'[i].approvalToken = call[i].approvalToken
        BY <1>0, <1>3, <3>1, InvocationFrame
      <3> QED
        BY <1>0, <3>1, <3>2 DEF Overtaken
    <2> QED
      BY <2>1, <2>2
  <1>4. ASSUME NEW i \in Invocation, call'[i].pc = "done"
        PROVE  call'[i] = call[i] \/ LambdaStep(i)
    <2>1. CASE \E j \in Invocation : LambdaStep(j)
      BY <1>0, <2>1, InvocationFrame
    <2>2. ASSUME NEW j \in Invocation, NEW l \in ListingId, NEW a \in Amount, NEW t \in Token, Call(j, l, a, t)
          PROVE  call'[i] = call[i]
      BY <1>0, <1>4, <2>2 DEF Call, TInv, TypeOK
    <2>3. CASE (\E t \in Token : MintNext(t)) \/ (\E q \in approvals : TtlSweep(q)) \/ Tick \/ UNCHANGED vars
      BY <2>3 DEF MintNext, Propose, Approve, Decline, MintGet, MintRefused, MintPut, MintFails, MintStep,
                  TtlSweep, Tick, vars
    <2> QED
      BY <2>1, <2>2, <2>3 DEF Next
  <1>5. ASSUME NEW i \in Invocation, call'[i].pc = "done"
        PROVE  /\ call'[i].result = "consumed" =>
                    /\ call'[i].approval \in issued'
                    /\ (Expired(call[i].approval) \/ \E j \in Invocation \ {i} : Took(j, call[i].approval))'
               /\ call'[i].result = "writeFailed" => Overtaken(i)'
    BY <1>2, <1>3, <1>4, <1>5
  <1> QED
    BY <1>5, Zenon DEF Refusals

\* RefusalsAreHonest of ListingOps: with no fault, "already consumed" and "write
\* failed" have the reason they give (handler.py:88, 100).
THEOREM RefusalsAreHonestHolds == Spec => []RefusalsAreHonest
  <1> DEFINE Inv == Unbroken /\ FirstIsOne /\ Running /\ NInv
  <1>1. Init => Inv
    BY DEF Init, Unbroken, FirstIsOne, Running, NInv, Accounted, Refusals, Line, WritesSince, Shows, Idle
  <1>2. ASSUME HInv, Inv, [Next]_vars PROVE Inv'
    <2>1. Unbroken' /\ FirstIsOne' /\ Running'
      BY <1>2, UnbrokenStep, FirstIsOneStep, RunningStep DEF HInv, LInv, SInv
    <2>2. NInv'
      BY <1>2, AccountedStep, RefusalsStep DEF NInv, HInv, LInv
    <2> QED
      BY <2>1, <2>2
  <1>3. ASSUME HInv, Inv PROVE RefusalsAreHonest
    <2> SUFFICES ASSUME ~Faults, NEW i \in Invocation, call[i].pc = "done"
                 PROVE  /\ call[i].result = "consumed" =>
                             \/ Expired(call[i].approval)
                             \/ \E j \in Invocation \ {i} : /\ call[j].pc \in {"write", "log", "done"}
                                                             /\ call[j].approval = call[i].approval
                                                             /\ call[j].result # "consumed"
                        /\ call[i].result = "writeFailed" =>
                             \E w \in writes : /\ SameListing(w, call[i])
                                              /\ w.version = call[i].approval.version
                                              /\ w.approvalToken # call[i].approvalToken
      BY DEF RefusalsAreHonest
    <2> QED
      BY <1>3 DEF NInv, Refusals, Took, Overtaken, SameListing
  <1> HIDE DEF Inv
  <1> QED
    BY <1>1, <1>2, <1>3, HInvAlways, PTL DEF Spec


-----------------------------------------------------------------------------
\* How far the dialog and the tables can be apart (section 5 of the README has
\* the cases in which they are).  The dialog rounds and the approval truncates.
LEMMA ShownOrLess ==
  ASSUME NEW a \in Nat
  PROVE  /\ ToInt(a) \in Nat /\ ToInt(a) <= Shown(a) /\ Shown(a) <= ToInt(a) + 1
         /\ a % 10 = 0 => Shown(a) = ToInt(a)
  <1>1. a \div 10 \in Nat /\ a % 10 \in Nat
    OBVIOUS
  <1> QED
    BY <1>1 DEF ToInt, Shown

\* A write and the confirmation it is of.
LEMMA ConfirmationOf ==
  ASSUME SInv, NEW w \in writes
  PROVE  /\ w.approvalToken \in Token /\ w.listingId \in Seeded
         /\ mint[w.approvalToken] \in MintState /\ mint[w.approvalToken].listingId = w.listingId
         /\ w.newPrice = ToInt(mint[w.approvalToken].newPrice)
  <1>1. w.approvalToken \in Token /\ w.listingId \in Seeded
    BY DEF SInv, TInv, TypeOK, WriteRecord
  <1>2. PICK r \in issued : WriteOf(w, r)
    BY DEF SInv, Spent
  <1>3. mint[w.approvalToken].pc \in {"minted", "failed"} /\ r = MintedRow(w.approvalToken)
    BY <1>2 DEF SInv, Fresh, WriteOf
  <1>4. mint[w.approvalToken] \in MintState
    BY <1>1, <1>3 DEF SInv, TInv, TypeOK, Idle
  <1> QED
    BY <1>1, <1>2, <1>3, <1>4 DEF WriteOf, MintedRow

\* The price written is never above the one on the dialog and less than a dollar
\* below it, and it is that price if callers name whole dollars (main.py:254,
\* confirmation.py:51).
WithinADollar ==
  \A w \in writes :
    LET shown == Shown(mint[w.approvalToken].newPrice)
    IN  /\ w.newPrice <= shown /\ shown <= w.newPrice + 1
        /\ (\A a \in Amount : a % 10 = 0) => w.newPrice = shown

LEMMA DollarApart == ASSUME SInv PROVE WithinADollar
  <1>1. ASSUME NEW w \in writes, NEW p, p = mint[w.approvalToken].newPrice
        PROVE  /\ w.newPrice <= Shown(p) /\ Shown(p) <= w.newPrice + 1
               /\ (\A a \in Amount : a % 10 = 0) => w.newPrice = Shown(p)
    <2>1. mint[w.approvalToken] \in MintState /\ w.newPrice = ToInt(p)
      BY <1>1, ConfirmationOf
    <2>2. p \in Amount /\ p \in Nat
      BY <1>1, <2>1, AmountAssumption DEF MintState
    <2> QED
      BY <2>1, <2>2, ShownOrLess
  <1> QED
    BY <1>1, Zenon DEF WithinADollar

\* WithinADollar of every write.
THEOREM WithinADollarHolds == Spec => []WithinADollar
  BY DollarApart, SInvAlways, PTL

\* As long as no two approvals of a listing are minted in one second, a change
\* reported as updated has its entry (system-prompt.md:66).
SecondsApart ==
  \A r, s \in issued : r.listingId = s.listingId /\ r.mintedAt = s.mintedAt => r = s

RecordedApart ==
  SecondsApart =>
    \A i \in Invocation :
      call[i].pc = "done" /\ call[i].result = "updated" => LogEntry(i) \in changelog

THEOREM RecordedApartHolds == Spec => []RecordedApart
  <1>1. ASSUME CInv, SecondsApart, NEW i \in Invocation, Updated(i)
        PROVE  LogEntry(i) \in changelog
    <2> SUFFICES ASSUME Displaced(i) PROVE FALSE
      BY <1>1 DEF CInv, Kept
    <2>1. PICK w \in writes, r \in issued :
            /\ r.approvalToken = w.approvalToken /\ w.listingId = call[i].listingId
            /\ w.approvalToken # call[i].approvalToken /\ r.mintedAt = call[i].approval.mintedAt
      BY DEF Displaced
    <2>2. PICK s \in issued : s = call[i].approval
      BY <1>1 DEF CInv, LogInv, Appenders
    <2>3. s.approvalToken = call[i].approvalToken /\ s.listingId = call[i].listingId
      BY <1>1, <2>2 DEF CInv, LogInv, Appenders, CheckedRow, Matches
    <2>4. r.listingId = w.listingId
      BY <1>1, <2>1, RowOfWrite, RowOfToken DEF CInv, LogInv, SInv, WriteOf
    <2>5. r = s
      BY <1>1, <2>1, <2>2, <2>3, <2>4 DEF SecondsApart
    <2> QED
      BY <2>1, <2>3, <2>5
  <1>2. CInv => RecordedApart
    BY <1>1 DEF RecordedApart, Updated
  <1> QED
    BY <1>2, CInvAlways, PTL

-----------------------------------------------------------------------------
\* The old price.  A price the listing had at an edition before the n-th, or at it.
Was(l, p, n) ==
  \/ p = OpeningPrice[l]
  \/ \E v \in writes : v.listingId = l /\ v.version < n /\ v.newPrice = p

\* What an agent has named as the old price, if it was the listing's then.
RememberedOf(t) ==
  \E p \in Nat : /\ mint[t].oldPrice = 10 * p /\ mint[t].listingId \in Seeded
                 /\ Was(mint[t].listingId, p, listings[mint[t].listingId].version)

Remembered == \A t \in Token : mint[t] # Idle /\ mint[t].asRead => RememberedOf(t)

WritesRemember ==
  \A w \in writes : mint[w.approvalToken].asRead =>
    Was(w.listingId, ToInt(mint[w.approvalToken].oldPrice), w.version)

OldInv == Unbroken /\ Remembered /\ WritesRemember

LEMMA PriceWas ==
  ASSUME TypeOK, Unbroken, NEW l \in Seeded
  PROVE  Was(l, listings[l].askingPrice, listings[l].version)
  <1>1. /\ listings[l].version \in Nat \ {0} /\ Line({}, l)
        /\ Shows({}, l, listings[l].version, listings[l].askingPrice)
    BY DEF TypeOK, Unbroken, Line
  <1>2. CASE listings[l].version = 1
    BY <1>1, <1>2 DEF Shows, Was
  <1>3. CASE listings[l].version # 1
    <2>1. listings[l].version - 1 \in 1..(listings[l].version - 1)
      BY <1>1, <1>3
    <2>2. PICK v \in WritesSince({}, l) : v.version = listings[l].version - 1
      BY <1>1, <2>1 DEF Line
    <2>3. v.newPrice = listings[l].askingPrice
      BY <1>1, <1>3, <2>2 DEF Shows
    <2>4. v \in writes /\ v.listingId = l /\ v.version < listings[l].version
      BY <1>1, <2>2 DEF WritesSince
    <2> QED
      BY <2>3, <2>4 DEF Was
  <1> QED
    BY <1>2, <1>3

\* What was stays so.
LEMMA WasStays ==
  ASSUME TypeOK, writes \subseteq writes', NEW l, NEW p, NEW n \in Nat, NEW m \in Nat, n <= m,
         Was(l, p, n)
  PROVE  Was(l, p, m)'
  <1>1. \A v \in writes : v.version \in Nat
    BY DEF TypeOK, WriteRecord
  <1> QED
    BY <1>1 DEF Was

LEMMA WasWhole ==
  ASSUME NEW p \in Nat
  PROVE  ToInt(10 * p) = p /\ Shown(10 * p) = p
  BY DEF ToInt, Shown

\* Only a mint moves a mint.
LEMMA MintOnly ==
  ASSUME TInv, [Next]_vars, ~\E s \in Token : MintNext(s)
  PROVE  UNCHANGED mint
  <1>1. CASE \E i \in Invocation : LambdaStep(i)
    BY <1>1, InvocationFrame
  <1>2. CASE ~\E i \in Invocation : LambdaStep(i)
    BY <1>2 DEF Next, Call, TtlSweep, Tick, vars
  <1> QED
    BY <1>1, <1>2

\* A step starts a confirmation or leaves what it is about.
LEMMA MintKeeps ==
  ASSUME TInv, [Next]_vars, NEW t \in Token
  PROVE  \/ mint'[t] = Idle
         \/ \E u \in Actor, l \in ListingId, a \in Amount : Propose(t, u, l, a) /\ mint'[t].listingId = l
         \/ /\ mint[t] # Idle /\ mint'[t].listingId = mint[t].listingId
            /\ mint'[t].oldPrice = mint[t].oldPrice /\ mint'[t].asRead = mint[t].asRead
  <1>0. TypeOK
    BY DEF TInv
  <1>1. CASE \E s \in Token : MintNext(s)
    <2>1. PICK s \in Token : MintNext(s)
      BY <1>1
    <2>2. CASE s # t
      <3>1. mint'[t] = mint[t]
        BY <1>0, <2>1, <2>2 DEF MintNext, Propose, Approve, Decline, MintGet, MintRefused, MintPut,
                                MintFails, MintStep, TypeOK
      <3> QED
        BY <3>1
    <2>3. CASE s = t /\ \E u \in Actor, l \in ListingId, a \in Amount : Propose(t, u, l, a)
      <3>1. PICK u \in Actor, l \in ListingId, a \in Amount : Propose(t, u, l, a)
        BY <2>3
      <3>2. mint'[t].listingId = l
        BY <1>0, <3>1 DEF Propose, TypeOK
      <3> QED
        BY <3>1, <3>2
    <2>4. CASE s = t /\ ~\E u \in Actor, l \in ListingId, a \in Amount : Propose(t, u, l, a)
      <3>1. mint[t].pc \in {"proposed", "get", "put"}
        BY <2>1, <2>4 DEF MintNext, Approve, Decline, MintGet, MintRefused, MintPut, MintFails, MintStep
      <3>2. mint[t] # Idle /\ mint[t] \in MintState
        BY <1>0, <3>1 DEF TypeOK, Idle
      <3>3. /\ mint'[t].listingId = mint[t].listingId /\ mint'[t].oldPrice = mint[t].oldPrice
            /\ mint'[t].asRead = mint[t].asRead
        <4>1. CASE MintGet(t)
          BY <1>0, <3>2, <4>1 DEF MintGet, TypeOK, MintState
        <4>2. CASE ~MintGet(t)
          <5>1. \E from, to : MintStep(t, from, to)
            BY <2>1, <2>4, <4>2 DEF MintNext, Approve, Decline, MintRefused, MintPut, MintFails
          <5> QED
            BY <1>0, <3>2, <5>1 DEF MintStep, TypeOK, MintState
        <4> QED
          BY <4>1, <4>2
      <3> QED
        BY <3>2, <3>3
    <2> QED
      BY <2>2, <2>3, <2>4
  <1>2. CASE ~\E s \in Token : MintNext(s)
    BY <1>2, MintOnly
  <1> QED
    BY <1>1, <1>2

LEMMA RememberedStep ==
  ASSUME LInv, OldInv, [Next]_vars
  PROVE  Remembered'
  <1>0. TypeOK /\ TInv /\ TypeOK' /\ writes \subseteq writes'
    BY SInvStep, PastStays DEF LInv, SInv, TInv
  <1>1. ASSUME NEW l \in Seeded
        PROVE  /\ listings[l].version \in Nat /\ listings'[l].version \in Nat
               /\ listings[l].version <= listings'[l].version
    BY <1>0, VersionsGrow DEF TypeOK
  <1>2. ASSUME NEW l \in Seeded, NEW p, Was(l, p, listings[l].version)
        PROVE  Was(l, p, listings[l].version)'
    <2>1. PICK n \in Nat, m \in Nat : n = listings[l].version /\ m = listings'[l].version /\ n <= m
      BY <1>1
    <2>2. Was(l, p, m)'
      BY <1>0, <1>2, <2>1, WasStays
    <2> QED
      BY <2>1, <2>2
  <1>3. ASSUME NEW t \in Token, mint[t] # Idle, mint'[t].listingId = mint[t].listingId,
               mint'[t].oldPrice = mint[t].oldPrice, mint[t].asRead
        PROVE  RememberedOf(t)'
    <2>1. PICK l \in Seeded : l = mint[t].listingId
      BY <1>3 DEF OldInv, Remembered, RememberedOf
    <2>2. PICK p \in Nat : mint[t].oldPrice = 10 * p /\ Was(l, p, listings[l].version)
      BY <1>3, <2>1 DEF OldInv, Remembered, RememberedOf
    <2>3. Was(l, p, listings[l].version)'
      BY <1>2, <2>2
    <2>4. mint'[t].oldPrice = 10 * p /\ mint'[t].listingId = l
      BY <1>3, <2>1, <2>2
    <2> QED
      BY <2>3, <2>4 DEF RememberedOf
  <1>4. ASSUME NEW t \in Token, NEW u \in Actor, NEW l \in ListingId, NEW a \in Amount,
               Propose(t, u, l, a), mint'[t].asRead
        PROVE  RememberedOf(t)'
    <2>1. PICK old \in Misnamed \cup {ReadPrice(l)} :
            mint' = [mint EXCEPT ![t] =
              [pc |-> "proposed", listingId |-> l, newPrice |-> a, actor |-> u,
               oldPrice |-> old, asRead |-> l \in Seeded /\ old = ReadPrice(l),
               version |-> 0, mintedAt |-> 0]]
      BY <1>4 DEF Propose
    <2>2. /\ mint'[t].oldPrice = old /\ mint'[t].listingId = l
          /\ mint'[t].asRead = (l \in Seeded /\ old = ReadPrice(l))
      BY <1>0, <2>1 DEF TypeOK
    <2>3. l \in Seeded /\ old = 10 * listings[l].askingPrice
      BY <1>4, <2>2 DEF ReadPrice
    <2>4. PICK p \in Nat : p = listings[l].askingPrice
      BY <1>0, <2>3 DEF TypeOK
    <2>5. Was(l, p, listings[l].version)'
      BY <1>0, <1>2, <2>3, <2>4, PriceWas DEF OldInv
    <2> QED
      BY <2>2, <2>3, <2>4, <2>5 DEF RememberedOf
  <1>5. ASSUME NEW t \in Token, mint'[t] # Idle, mint'[t].asRead
        PROVE  RememberedOf(t)'
    <2>1. CASE \E u \in Actor, l \in ListingId, a \in Amount : Propose(t, u, l, a)
      BY <1>4, <1>5, <2>1
    <2>2. CASE ~\E u \in Actor, l \in ListingId, a \in Amount : Propose(t, u, l, a)
      <3>1. /\ mint[t] # Idle /\ mint'[t].listingId = mint[t].listingId
            /\ mint'[t].oldPrice = mint[t].oldPrice /\ mint'[t].asRead = mint[t].asRead
        BY <1>0, <1>5, <2>2, MintKeeps
      <3> QED
        BY <1>3, <1>5, <3>1
    <2> QED
      BY <2>1, <2>2
  <1> QED
    BY <1>5 DEF Remembered, Idle

LEMMA WritesRememberStep ==
  ASSUME LInv, OldInv, [Next]_vars
  PROVE  WritesRemember'
  <1>0. TypeOK /\ TInv /\ SInv /\ writes \subseteq writes' /\ Fresh
    BY PastStays DEF LInv, SInv, TInv
  <1>a. \A w \in writes : w.version \in Nat /\ w.listingId \in Seeded
    BY <1>0 DEF TypeOK, WriteRecord
  <1>1. ASSUME NEW w \in writes PROVE mint'[w.approvalToken] = mint[w.approvalToken]
    <2>1. PICK r \in issued : r.approvalToken = w.approvalToken
      BY <1>0 DEF SInv, Spent, WriteOf
    <2>2. CASE \E t \in Token : MintNext(t)
      BY <1>0, <2>1, <2>2, MintFrame
    <2>3. CASE ~\E t \in Token : MintNext(t)
      BY <1>0, <2>3, MintOnly
    <2> QED
      BY <2>2, <2>3
  <1>2. ASSUME NEW w \in writes, mint'[w.approvalToken].asRead
        PROVE  Was(w.listingId, ToInt(mint[w.approvalToken].oldPrice), w.version)'
    <2>1. PICK p : p = ToInt(mint[w.approvalToken].oldPrice)
      OBVIOUS
    <2>2. Was(w.listingId, p, w.version)
      BY <1>1, <1>2, <2>1 DEF OldInv, WritesRemember
    <2>3. w.version \in Nat /\ w.version <= w.version
      BY <1>a
    <2>4. Was(w.listingId, p, w.version)'
      BY <1>0, <2>2, <2>3, WasStays
    <2>5. p = ToInt(mint[w.approvalToken].oldPrice)'
      BY <1>1, <2>1
    <2> QED
      BY <2>4, <2>5
  <1>3. ASSUME NEW i \in Invocation, call[i].pc = "write", ApplyWrite(i), NEW w \in writes', w \notin writes,
               mint'[w.approvalToken].asRead
        PROVE  Was(w.listingId, ToInt(mint[w.approvalToken].oldPrice), w.version)'
    <2>1. PICK r \in issued :
            /\ w.version = listings[w.listingId].version /\ r.approvalToken = w.approvalToken
            /\ r.listingId = w.listingId
      BY <1>0, <1>3, NewWrite
    <2>2. PICK t \in Token : t = w.approvalToken
      BY <1>0, <2>1 DEF TypeOK, ApprovalRow
    <2>3. PICK l \in Seeded : l = w.listingId
      BY <1>0, <2>1 DEF TypeOK, ApprovalRow
    <2>4. mint[t].pc \in {"minted", "failed"} /\ mint[t].listingId = l
      BY <1>0, <2>1, <2>2, <2>3 DEF Fresh, MintedRow
    <2>5. mint[t] # Idle
      BY <2>4 DEF Idle
    <2>a. mint'[t] = mint[t]
      <3>1. CASE \E s \in Token : MintNext(s)
        BY <1>0, <1>3, <3>1, MintFrame
      <3>2. CASE ~\E s \in Token : MintNext(s)
        BY <1>0, <3>2, MintOnly
      <3> QED
        BY <3>1, <3>2
    <2>6. PICK p \in Nat : mint[t].oldPrice = 10 * p /\ Was(l, p, listings[l].version)
      BY <1>3, <2>2, <2>4, <2>5, <2>a DEF OldInv, Remembered, RememberedOf
    <2>7. PICK n \in Nat : n = listings[l].version
      BY <1>0 DEF TypeOK
    <2>8. n <= n /\ Was(l, p, n)
      BY <2>6, <2>7
    <2>9. Was(l, p, n)'
      BY <1>0, <2>8, WasStays
    <2>11. ToInt(mint[w.approvalToken].oldPrice)' = p
      BY <2>2, <2>6, <2>a, WasWhole
    <2> QED
      BY <2>1, <2>3, <2>7, <2>9, <2>11
  <1>4. ASSUME NEW w \in writes', mint'[w.approvalToken].asRead
        PROVE  Was(w.listingId, ToInt(mint[w.approvalToken].oldPrice), w.version)'
    <2>1. CASE w \in writes
      BY <1>2, <1>4, <2>1
    <2>2. CASE w \notin writes
      <3>1. Next
        BY <2>2 DEF vars, history
      <3>2. PICK i \in Invocation : call[i].pc = "write" /\ ApplyWrite(i)
        BY <2>2, <3>1, WritesGrow
      <3> QED
        BY <1>3, <1>4, <2>2, <3>2
    <2> QED
      BY <2>1, <2>2
  <1> QED
    BY <1>4 DEF WritesRemember

\* The old price that the agent names is compared with nothing (main.py:250-253,
\* confirmation.py:52), and may be any.  If it was the listing's when the agent asked
\* to confirm, then what the dialog shows, to the dollar, and what the changelog
\* records, is a price the listing had, at an edition no later than the one
\* replaced, however many changes and lagging reads came between.
OldPriceWas ==
  /\ \A w \in writes : mint[w.approvalToken].asRead =>
       Was(w.listingId, Shown(mint[w.approvalToken].oldPrice), w.version)
  /\ \A c \in changelog : \E w \in writes :
       Records(c, w) /\ (mint[w.approvalToken].asRead => Was(c.listingId, c.oldValue, w.version))

THEOREM OldPriceWasHolds == Spec => []OldPriceWas
  <1>1. Init => OldInv
    BY DEF Init, OldInv, Unbroken, Remembered, WritesRemember, Line, WritesSince, Shows
  <1>2. LInv /\ OldInv /\ [Next]_vars => OldInv'
    BY UnbrokenStep, RememberedStep, WritesRememberStep DEF OldInv, LInv
  <1>3. ASSUME LInv, OldInv, NEW w \in writes, mint[w.approvalToken].asRead
        PROVE  Was(w.listingId, Shown(mint[w.approvalToken].oldPrice), w.version)
    <2>1. /\ w.approvalToken \in Token /\ w.listingId \in Seeded
          /\ mint[w.approvalToken] \in MintState /\ mint[w.approvalToken].listingId = w.listingId
      BY <1>3, ConfirmationOf DEF LInv
    <2>2. mint[w.approvalToken] # Idle
      BY <2>1 DEF MintState, Idle
    <2>3. PICK p \in Nat : mint[w.approvalToken].oldPrice = 10 * p
      BY <1>3, <2>1, <2>2 DEF OldInv, Remembered, RememberedOf
    <2>4. ToInt(mint[w.approvalToken].oldPrice) = p /\ Shown(mint[w.approvalToken].oldPrice) = p
      BY <2>3, WasWhole
    <2> QED
      BY <1>3, <2>4 DEF OldInv, WritesRemember
  <1>4. ASSUME CInv, OldInv, NEW c \in changelog
        PROVE  \E w \in writes :
                 Records(c, w) /\ (mint[w.approvalToken].asRead => Was(c.listingId, c.oldValue, w.version))
    <2>1. PICK w \in writes, r \in issued : EntryOf(c, w, r)
      BY <1>4 DEF CInv, LogInv, Entries
    <2>2. RowOf(w) = r
      BY <1>4, <2>1, RowOfWrite, RowOfToken DEF CInv, LogInv, SInv, EntryOf
    <2>3. r = MintedRow(w.approvalToken)
      BY <1>4, <2>1 DEF CInv, LogInv, SInv, Fresh, EntryOf
    <2>4. c.oldValue = ToInt(mint[w.approvalToken].oldPrice) /\ c.listingId = w.listingId
      BY <2>1, <2>3 DEF EntryOf, MintedRow
    <2>5. Records(c, w)
      BY <2>1, <2>2 DEF EntryOf, Records, SameListing
    <2> QED
      BY <1>4, <2>4, <2>5 DEF OldInv, WritesRemember
  <1>5. LInv /\ CInv /\ OldInv => OldPriceWas
    BY <1>3, <1>4 DEF OldPriceWas
  <1> QED
    BY <1>1, <1>2, <1>5, LInvAlways, CInvAlways, PTL DEF Spec


-----------------------------------------------------------------------------
\* The race for an edition: invocation i is about to write on it, and what
\* settles it.
Racing(i, l, n) ==
  /\ call[i].pc = "write" /\ call[i].listingId = l
  /\ call[i].approval.version = n /\ listings[l].version = n

Settled(i, l, n) ==
  \/ listings[l].version > n
  \/ call[i].pc = "done" /\ call[i].result = "timeout"

\* While an invocation waits to write on the current edition, nothing takes it
\* out of the race but a newer edition, and its own next step settles it.
RaceHolds ==
  \A i \in Invocation, l \in Seeded, n \in Nat :
    Racing(i, l, n) => \/ Racing(i, l, n)' /\ ~LambdaStep(i)
                       \/ Settled(i, l, n)'

RacesSettle == ~Faults => [][RaceHolds]_vars

\* Its own step.
LEMMA RacerSettles ==
  ASSUME ~Faults, LInv, NEW i \in Invocation, NEW l \in Seeded, NEW n \in Nat,
         Racing(i, l, n), LambdaStep(i)
  PROVE  Settled(i, l, n)'
  <1>1. call[i] \in CallState /\ call \in [Invocation -> CallState \cup {Idle}]
    BY CallStarted DEF LInv, SInv, TInv, TypeOK, Racing
  <1>2. WriteListing(i) \/ Stopped(i)
    BY DEF Racing, LambdaStep, GetNothing, GetApproval, DeleteApproval, AppendLog, At
  <1>3. CASE Stopped(i)
    <2>1. call' = [call EXCEPT ![i].pc = "done", ![i].result = "timeout"]
      BY <1>3 DEF Stopped, Return
    <2>2. call'[i].pc = "done" /\ call'[i].result = "timeout"
      BY <1>1, <2>1 DEF CallState
    <2> QED
      BY <2>2 DEF Settled
  <1>4. CASE WriteListing(i)
    <2>1. ApplyWrite(i)
      BY <1>4 DEF WriteListing, VersionCurrent, Racing
    <2>2. listings' = [listings EXCEPT ![l] = NewEdition(i, @)]
      BY <2>1 DEF ApplyWrite, Racing
    <2>3. listings \in [Seeded -> [askingPrice : Nat, version : Nat \ {0}]]
      BY DEF LInv, SInv, TInv, TypeOK
    <2>4. listings'[l].version = n + 1
      BY <2>2, <2>3 DEF NewEdition, Racing
    <2> QED
      BY <2>4 DEF Settled
  <1> QED
    BY <1>2, <1>3, <1>4

\* Without its own step an invocation that is about to write stays so.
LEMMA RacerWaits ==
  ASSUME LInv, [Next]_vars, NEW i \in Invocation, call[i].pc = "write", ~LambdaStep(i)
  PROVE  call'[i] = call[i]
  <1>1. CASE \E j \in Invocation : LambdaStep(j)
    BY <1>1, InvocationFrame DEF LInv, SInv
  <1>2. CASE \E j \in Invocation, l \in ListingId, a \in Amount, t \in Token : Call(j, l, a, t)
    <2>1. PICK j \in Invocation : /\ call[j] = Idle
                                  /\ \E v : call' = [call EXCEPT ![j] = v]
      BY <1>2 DEF Call
    <2>2. j # i
      BY <2>1 DEF Idle
    <2> QED
      BY <2>1, <2>2 DEF LInv, SInv, TInv, TypeOK
  <1>3. CASE (\E t \in Token : MintNext(t)) \/ (\E r \in approvals : TtlSweep(r)) \/ Tick \/ UNCHANGED vars
    BY <1>3 DEF MintNext, Propose, Approve, Decline, MintGet, MintRefused, MintPut, MintFails, MintStep,
                TtlSweep, Tick, vars
  <1> QED
    BY <1>1, <1>2, <1>3 DEF Next

\* "One gets through" (handler.py:91-101, the conditional update): of the
\* approvals of one edition, one that reaches the update is not refused while
\* the edition stands, and no step of anybody else takes the chance from it
\* but by writing.  With no fault, what is left of RaceIsDecided is that the
\* invocation takes a step.
THEOREM RacesSettleHold == Spec => RacesSettle
  <1>1. ASSUME ~Faults, LInv, [Next]_vars, NEW i \in Invocation, NEW l \in Seeded, NEW n \in Nat,
               Racing(i, l, n)
        PROVE  (Racing(i, l, n)' /\ ~LambdaStep(i)) \/ Settled(i, l, n)'
    <2>1. CASE LambdaStep(i)
      BY <1>1, <2>1, RacerSettles
    <2>2. CASE ~LambdaStep(i)
      <3>1. call'[i] = call[i]
        BY <1>1, <2>2, RacerWaits DEF Racing
      <3>2. listings[l].version = n /\ n <= listings'[l].version
        BY <1>1, VersionsGrow DEF Racing, LInv, SInv
      <3>3. CASE listings'[l].version = n
        BY <1>1, <2>2, <3>1, <3>3 DEF Racing
      <3>4. CASE listings'[l].version # n
        <4>1. listings'[l].version \in Nat
          <5>1. TInv'
            BY <1>1, SInvStep DEF LInv, SInv
          <5> QED
            BY <5>1 DEF TInv, TypeOK
        <4>2. listings'[l].version > n
          BY <3>2, <3>4, <4>1
        <4> QED
          BY <4>2 DEF Settled
      <3> QED
        BY <3>3, <3>4
    <2> QED
      BY <2>1, <2>2
  <1>2. ASSUME ~Faults PROVE LInv /\ [Next]_vars => [RaceHolds]_vars
    BY <1>1, <1>2 DEF RaceHolds
  <1>3. CASE Faults
    BY <1>3 DEF RacesSettle
  <1>4. CASE ~Faults
    <2>1. LInv /\ [Next]_vars => [RaceHolds]_vars
      BY <1>2, <1>4
    <2>2. Spec => [][RaceHolds]_vars
      BY <2>1, LInvAlways, PTL DEF Spec
    <2> QED
      BY <2>2 DEF RacesSettle
  <1> QED
    BY <1>3, <1>4
===============================================================================

--------------------------- MODULE ListingOps_ledger --------------------------
(***************************************************************************)
(* The tables, the backend and the Lambda implement PriceLedger: under the *)
(* mapping in ListingOps every step issues, spends or loses one grant, or  *)
(* changes nothing the ledger can see.                                     *)
(***************************************************************************)
EXTENDS ListingOps_proofs

\* The edition an approval is for has existed.
MintSeen ==
  \A t \in Token : mint[t].pc = "put" =>
    mint[t].version \in 1..listings[mint[t].listingId].version

LInv == SInv /\ MintSeen

LEMMA VersionsGrow ==
  ASSUME TInv, [Next]_vars, NEW l \in Seeded
  PROVE  listings[l].version <= listings'[l].version
  <1>0. listings[l].version \in Nat /\ listings \in [Seeded -> [askingPrice : Nat, version : Nat \ {0}]]
    BY DEF TInv, TypeOK
  <1>1. CASE UNCHANGED listings
    BY <1>0, <1>1
  <1>2. CASE \E i \in Invocation : ApplyWrite(i)
    BY <1>0, <1>2 DEF ApplyWrite, NewEdition
  <1>3. UNCHANGED listings \/ \E i \in Invocation : ApplyWrite(i)
    <2>1. CASE \E i \in Invocation : LambdaStep(i)
      BY <2>1 DEF LambdaStep, GetNothing, GetApproval, DeleteApproval, WriteListing, AppendLog,
         Stopped, tables
    <2>2. CASE \E t \in Token : MintNext(t)
      BY <2>2 DEF MintNext, Propose, Approve, Decline, MintGet, MintRefused, MintPut,
         MintFails, PutRow, tables
    <2> QED
      BY <2>1, <2>2 DEF Next, Call, TtlSweep, Tick, vars, tables
  <1> QED
    BY <1>1, <1>2, <1>3

LEMMA MintSeenStep ==
  ASSUME TInv, MintSeen, [Next]_vars
  PROVE  MintSeen'
  <1> SUFFICES ASSUME NEW t \in Token, mint'[t].pc = "put"
               PROVE  mint'[t].version \in 1..listings'[mint'[t].listingId].version
    BY DEF MintSeen
  <1>1. CASE MintGet(t)
    <2>1. PICK v \in Editions(mint[t].listingId) :
            mint' = [mint EXCEPT ![t].pc = "put", ![t].version = v, ![t].mintedAt = now]
      BY <1>1 DEF MintGet
    <2>2. mint[t] \in MintState /\ UNCHANGED listings
      BY <1>1 DEF MintGet, tables, TInv, TypeOK, Idle
    <2>3. mint'[t].version = v /\ mint'[t].listingId = mint[t].listingId
      BY <2>1, <2>2 DEF MintState, TInv, TypeOK
    <2> QED
      BY <2>1, <2>2, <2>3 DEF Editions
  <1>2. CASE ~MintGet(t)
    <2>1. mint'[t] = mint[t]
      <3>1. CASE UNCHANGED mint
        BY <3>1
      <3>2. CASE \E s \in Token : MintNext(s)
        <4>1. PICK s \in Token : MintNext(s)
          BY <3>2
        <4>2. CASE s = t
          <5>1. mint[t] \in MintState \cup {Idle} /\ mint \in [Token -> MintState \cup {Idle}]
            BY DEF TInv, TypeOK
          <5> QED
            BY <1>2, <4>1, <4>2, <5>1 DEF MintNext, Propose, Approve, Decline, MintRefused, MintPut,
               MintFails, MintStep, Idle, MintState
        <4>3. CASE s # t
          BY <4>1, <4>3 DEF MintNext, Propose, Approve, Decline, MintGet, MintRefused, MintPut,
             MintFails, MintStep, TInv, TypeOK
        <4> QED
          BY <4>2, <4>3
      <3>3. CASE \E i \in Invocation : LambdaStep(i)
        BY <3>3, LambdaFrame
      <3> QED
        BY <3>1, <3>2, <3>3 DEF Next, Call, TtlSweep, Tick, vars
    <2>2. mint[t].listingId \in Seeded
      BY <2>1 DEF TInv, FoundListing
    <2>3. mint[t].version \in 1..listings[mint[t].listingId].version
      BY <2>1 DEF MintSeen
    <2>4. listings[mint[t].listingId].version <= listings'[mint[t].listingId].version
      BY <2>2, VersionsGrow
    <2>5. TypeOK /\ TypeOK'
      BY TInvStep DEF TInv
    <2> QED
      BY <2>1, <2>2, <2>3, <2>4, <2>5 DEF TypeOK
  <1> QED
    BY <1>1, <1>2

LEMMA LInvAlways == Spec => []LInv
  <1>1. Init => MintSeen
    BY DEF Init, MintSeen, Idle
  <1>2. LInv /\ [Next]_vars => LInv'
    BY SInvStep, MintSeenStep DEF LInv, SInv
  <1> QED
    BY <1>1, <1>2, SInvInit, PTL DEF Spec, LInv

-----------------------------------------------------------------------------
\* What a step does to the rows that are live, the listings and the tokens.
Quiet == UNCHANGED <<listings, issued>> /\ Live' = Live

Issues(r) ==
  /\ r \in ApprovalRow /\ r.newPrice \in {ToInt(a) : a \in Amount}
  /\ \E t \in Token : mint[t].pc = "put" /\ r = MintedRow(t)
  /\ \A q \in issued : q.approvalToken # r.approvalToken
  /\ UNCHANGED listings /\ issued' = issued \cup {r} /\ Live' = Live \cup {r}

Loses(r) ==
  r \in Live /\ UNCHANGED <<listings, issued>> /\ Live' = Live \ {r}

Spends(r) ==
  /\ r \in Live /\ listings[r.listingId].version = r.version
  /\ \E w : /\ w = [askingPrice |-> r.newPrice, version |-> listings[r.listingId].version + 1]
            /\ listings' = [listings EXCEPT ![r.listingId] = w]
  /\ UNCHANGED issued /\ Live' = Live \ {r}

LEMMA LiveIssued == ASSUME SInv PROVE Live \subseteq issued
  BY DEF SInv, RowsIssued, Live, Held

\* The row an invocation holds is held by no other, and is in the table no more.
LEMMA HeldAlone ==
  ASSUME SInv, NEW i \in Invocation, call[i].pc = "write"
  PROVE  /\ call[i].approval \in Held /\ call[i].approval \notin approvals
         /\ \A j \in Invocation : call[j].pc = "write" /\ call[j].approval = call[i].approval => j = i
  <1>1. \A j \in Invocation : call[j].pc = "write" =>
          call[j].approval.approvalToken = call[j].approvalToken
    BY DEF SInv, TInv, Checked, CheckedRow
  <1> QED
    BY <1>1 DEF SInv, Exclusive, Held

\* An invocation that gives up what it holds.
LEMMA HeldLeaves ==
  ASSUME SInv, NEW i \in Invocation, call[i].pc = "write", call'[i].pc # "write",
         \A j \in Invocation : j # i => call'[j] = call[j], UNCHANGED approvals
  PROVE  call[i].approval \in Live /\ Live' = Live \ {call[i].approval}
  <1>1. Held' = Held \ {call[i].approval}
    BY HeldAlone DEF Held
  <1> QED
    BY <1>1, HeldAlone DEF Live

\* An invocation that neither holds nor takes a row.
LEMMA HeldStays ==
  ASSUME NEW i \in Invocation, call[i].pc # "write", call'[i].pc # "write",
         \A j \in Invocation : j # i => call'[j] = call[j]
  PROVE  Held' = Held
  BY DEF Held

LEMMA LambdaLive ==
  ASSUME SInv, NEW i \in Invocation, LambdaStep(i)
  PROVE  Quiet \/ \E r : Loses(r) \/ Spends(r)
  <1>0. SInv /\ TInv
    BY DEF SInv
  <1>1. /\ UNCHANGED issued
        /\ \A j \in Invocation : j # i => call'[j] = call[j]
    BY <1>0, LambdaFrame
  <1>2. call[i] \in CallState /\ call \in [Invocation -> CallState \cup {Idle}]
    BY <1>0, CallStarted DEF TInv, TypeOK
  <1>3. /\ \A res : Return(i, res) => call'[i].pc = "done"
        /\ \A p : Goto(i, p) => call'[i].pc = p
    BY <1>2 DEF Return, Goto, CallState
  <1>4. CASE GetNothing(i) \/ \E r \in issued : GetApproval(i, r)
    <2>1. call[i].pc = "get" /\ UNCHANGED <<listings, approvals>>
      BY <1>4 DEF GetNothing, GetApproval, At, tables
    <2>2. call'[i].pc \in {"delete", "done"}
      <3>1. CASE GetNothing(i)
        BY <1>3, <3>1 DEF GetNothing
      <3>2. CASE \E r \in issued : GetApproval(i, r)
        <4>1. PICK r \in issued : GetApproval(i, r)
          BY <3>2
        <4>2. Return(i, "mismatch") \/ Return(i, "expired")
                \/ call' = [call EXCEPT ![i].pc = "delete", ![i].approval = r]
          BY <4>1 DEF GetApproval
        <4> QED
          BY <1>2, <1>3, <4>2 DEF CallState
      <3> QED
        BY <1>4, <3>1, <3>2
    <2> QED
      BY <1>1, <2>1, <2>2, HeldStays DEF Quiet, Live
  <1>5. CASE DeleteApproval(i)
    <2>1. call[i].pc = "delete" /\ UNCHANGED listings
      BY <1>5 DEF DeleteApproval, At
    <2>2. CASE TokenUnspent(i) /\ RemoveRow(i) /\ Goto(i, "write")
      <3>1. call'[i].pc = "write" /\ call'[i].approval = call[i].approval
        BY <1>2, <2>2 DEF Goto, CallState
      <3>2. Held' = Held \cup {call[i].approval}
        BY <1>1, <2>1, <3>1 DEF Held
      <3> QED
        BY <1>1, <2>1, <2>2, <3>2 DEF TokenUnspent, RemoveRow, Quiet, Live
    <2>3. CASE Return(i, "consumed") /\ UNCHANGED approvals
      BY <1>1, <1>3, <2>1, <2>3, HeldStays DEF Quiet, Live
    <2>4. CASE Return(i, "consumed") /\ RemoveRow(i)
      <3>1. Held' = Held
        BY <1>1, <1>3, <2>1, <2>4, HeldStays
      <3>2. CASE call[i].approval \in approvals
        <4>1. call[i].approval \notin Held
          BY <1>0, <3>2, HeldAlone DEF Held
        <4> QED
          BY <1>1, <2>1, <2>4, <3>1, <3>2, <4>1 DEF RemoveRow, Loses, Live
      <3>3. CASE call[i].approval \notin approvals
        BY <1>1, <2>1, <2>4, <3>1, <3>3 DEF RemoveRow, Quiet, Live
      <3> QED
        BY <3>2, <3>3
    <2> QED
      BY <1>5, <2>2, <2>3, <2>4 DEF DeleteApproval
  <1>6. CASE WriteListing(i)
    <2>1. call[i].pc = "write" /\ UNCHANGED approvals
      BY <1>6 DEF WriteListing, At
    <2>2. call'[i].pc \in {"log", "done"}
      BY <1>3, <1>6 DEF WriteListing
    <2>3. call[i].approval \in Live /\ Live' = Live \ {call[i].approval}
      BY <1>0, <1>1, <2>1, <2>2, HeldLeaves
    <2>4. CASE UNCHANGED listings
      BY <1>1, <2>3, <2>4 DEF Loses
    <2>5. CASE ApplyWrite(i)
      <3>1. call[i].listingId = call[i].approval.listingId /\ call[i].newPrice = call[i].approval.newPrice
        BY <1>0, <2>1 DEF TInv, Checked, CheckedRow, Matches
      <3>2. call[i].listingId \in Seeded
        BY <1>0, <2>1, <3>1 DEF TInv, Checked, CheckedRow, ApprovalRow
      <3> QED
        BY <1>0, <1>1, <2>3, <2>5, <3>1, <3>2
        DEF ApplyWrite, NewEdition, VersionCurrent, Spends, TInv, TypeOK
    <2> QED
      BY <1>6, <2>4, <2>5 DEF WriteListing
  <1>7. CASE AppendLog(i)
    <2>1. call[i].pc = "log" /\ call'[i].pc = "done" /\ UNCHANGED <<listings, approvals>>
      BY <1>3, <1>7 DEF AppendLog, At
    <2> QED
      BY <1>1, <2>1, HeldStays DEF Quiet, Live
  <1>8. CASE Stopped(i)
    <2>1. call'[i].pc = "done" /\ UNCHANGED <<listings, approvals>>
      BY <1>3, <1>8 DEF Stopped, tables
    <2>2. CASE call[i].pc = "write"
      BY <1>0, <1>1, <2>1, <2>2, HeldLeaves DEF Loses
    <2>3. CASE call[i].pc # "write"
      BY <1>1, <2>1, <2>3, HeldStays DEF Quiet, Live
    <2> QED
      BY <2>2, <2>3
  <1> QED
    BY <1>4, <1>5, <1>6, <1>7, <1>8 DEF LambdaStep

LEMMA MintLive ==
  ASSUME SInv, NEW t \in Token, MintNext(t)
  PROVE  Quiet \/ Issues(MintedRow(t))
  <1>0. TInv /\ Fresh
    BY DEF SInv
  <1>1. UNCHANGED <<listings, call>> /\ \A r \in issued : r.approvalToken # t
    BY <1>0, MintFrame
  <1>2. Held' = Held
    BY <1>1 DEF Held
  <1>3. CASE UNCHANGED <<approvals, issued>>
    BY <1>1, <1>2, <1>3 DEF Quiet, Live
  <1>4. CASE /\ issued' = issued \cup {MintedRow(t)}
             /\ approvals' = approvals \cup {MintedRow(t)} /\ mint[t].pc = "put"
    <2>1. MintedRow(t) \in ApprovalRow
      BY <1>0, <1>4, MintedRowType
    <2>2. mint[t] \in MintState
      BY <1>0, <1>4 DEF TInv, TypeOK, Idle
    <2>3. MintedRow(t).newPrice \in {ToInt(a) : a \in Amount}
      BY <2>2 DEF MintedRow, MintState
    <2>4. MintedRow(t).approvalToken = t
      BY DEF MintedRow
    <2> QED
      BY <1>1, <1>2, <1>4, <2>1, <2>3, <2>4 DEF Issues, Live
  <1> QED
    BY <1>0, <1>3, <1>4, MintFrame

LEMMA StepLive ==
  ASSUME SInv, [Next]_vars
  PROVE  Quiet \/ \E r : Issues(r) \/ Loses(r) \/ Spends(r)
  <1>1. CASE \E r \in approvals : TtlSweep(r)
    <2>1. PICK r \in approvals : TtlSweep(r)
      BY <1>1
    <2>2. r \notin Held
      BY HeldAlone DEF Held
    <2>3. Held' = Held
      BY <2>1 DEF TtlSweep, Held
    <2> QED
      BY <2>1, <2>2, <2>3 DEF TtlSweep, Loses, Live, history
  <1>2. CASE Tick \/ UNCHANGED vars
    BY <1>2 DEF Tick, vars, tables, history, Quiet, Live, Held
  <1>3. CASE \E t \in Token : MintNext(t)
    BY <1>3, MintLive
  <1>4. CASE \E i \in Invocation, l \in ListingId, a \in Amount, t \in Token : Call(i, l, a, t)
    <2>1. PICK i \in Invocation : \E l \in ListingId, a \in Amount, t \in Token : Call(i, l, a, t)
      BY <1>4
    <2>2. /\ UNCHANGED <<listings, approvals, issued>> /\ call[i].pc # "write"
          /\ call'[i].pc # "write" /\ \A j \in Invocation : j # i => call'[j] = call[j]
      BY <2>1 DEF Call, Idle, tables, history, SInv, TInv, TypeOK
    <2> QED
      BY <2>2, HeldStays DEF Quiet, Live
  <1>5. CASE \E i \in Invocation : LambdaStep(i)
    BY <1>5, LambdaLive
  <1> QED
    BY <1>1, <1>2, <1>3, <1>4, <1>5 DEF Next

-----------------------------------------------------------------------------
\* A live row is told from the others by its grant.
LEMMA GrantOfInjective ==
  ASSUME SInv, NEW r \in Live, NEW q \in Live, GrantOf(r) = GrantOf(q)
  PROVE  r = q
  BY LiveIssued DEF GrantOf, SInv, Fresh

LEMMA InitLedger == Init => Ledger!Init
  BY ListingAssumption DEF Init, Ledger!Init, Live, Held, Idle

LEMMA LoseLedger ==
  ASSUME SInv, NEW r, Loses(r)
  PROVE  GrantOf(r) \in {GrantOf(q) : q \in Live} /\ Ledger!Lose(GrantOf(r))
  <1>1. {GrantOf(q) : q \in Live'} = {GrantOf(q) : q \in Live} \ {GrantOf(r)}
    BY GrantOfInjective DEF Loses
  <1> QED
    BY <1>1 DEF Loses, Ledger!Lose

LEMMA IssueLedger ==
  ASSUME SInv, NEW r, Issues(r)
  PROVE  /\ Ledger!Issue(r.approvalToken, r.listingId, r.newPrice, r.version)
         /\ r.approvalToken \in Token /\ r.listingId \in Seeded
         /\ r.newPrice \in {ToInt(a) : a \in Amount}
  <1>1. {GrantOf(q) : q \in Live'} = {GrantOf(q) : q \in Live} \cup {GrantOf(r)}
    BY DEF Issues
  <1>2. {q.approvalToken : q \in issued'} = {q.approvalToken : q \in issued} \cup {r.approvalToken}
    BY DEF Issues
  <1>3. r.approvalToken \notin {q.approvalToken : q \in issued}
    BY DEF Issues
  <1>4. Ledger!Issue(r.approvalToken, r.listingId, r.newPrice, r.version)
    BY <1>1, <1>2, <1>3 DEF Issues, Ledger!Issue, GrantOf
  <1> QED
    BY <1>4 DEF Issues, ApprovalRow

LEMMA SpendLedger ==
  ASSUME SInv, NEW r, Spends(r)
  PROVE  GrantOf(r) \in {GrantOf(q) : q \in Live} /\ Ledger!Spend(GrantOf(r))
  <1>0. /\ listings \in [Seeded -> [askingPrice : Nat, version : Nat \ {0}]]
        /\ r \in ApprovalRow
    BY LiveIssued DEF SInv, TInv, TypeOK, Spends
  <1>2. {GrantOf(q) : q \in Live'} = {GrantOf(q) : q \in Live} \ {GrantOf(r)}
    BY GrantOfInjective DEF Spends
  <1>3. r.listingId \in Seeded /\ listings[r.listingId].version \in Nat
    BY <1>0 DEF Spends, ApprovalRow
  <1>4. /\ GrantOf(r) \in {GrantOf(q) : q \in Live}
        /\ GrantOf(r).listing = r.listingId /\ GrantOf(r).price = r.newPrice
        /\ GrantOf(r).version = r.version
    BY DEF Spends, GrantOf
  <1>5. \A l \in Seeded :
          /\ listings'[l].askingPrice =
               IF l = r.listingId THEN r.newPrice ELSE listings[l].askingPrice
          /\ listings'[l].version =
               IF l = r.listingId THEN listings[l].version + 1 ELSE listings[l].version
    BY <1>0, <1>3 DEF Spends
  <1>6. [l \in Seeded |-> listings'[l].askingPrice] =
          [[l \in Seeded |-> listings[l].askingPrice] EXCEPT ![GrantOf(r).listing] = GrantOf(r).price]
    BY <1>3, <1>4, <1>5
  <1>7. [l \in Seeded |-> listings'[l].version] =
          [[l \in Seeded |-> listings[l].version] EXCEPT ![GrantOf(r).listing] = @ + 1]
    BY <1>3, <1>4, <1>5
  <1> QED
    BY <1>2, <1>3, <1>4, <1>6, <1>7 DEF Spends, Ledger!Spend

LEMMA StepLedger ==
  ASSUME LInv, [Next]_vars
  PROVE  [Ledger!Next]_(Ledger!vars)
  <1>0. SInv
    BY DEF LInv
  <1>1. CASE Quiet
    BY <1>1 DEF Quiet, Ledger!vars
  <1>2. CASE \E r : Loses(r)
    BY <1>0, <1>2, LoseLedger DEF Ledger!Next
  <1>3. CASE \E r : Issues(r)
    <2>1. PICK r : Issues(r)
      BY <1>3
    <2>2. /\ Ledger!Issue(r.approvalToken, r.listingId, r.newPrice, r.version)
          /\ r.approvalToken \in Token /\ r.listingId \in Seeded
          /\ r.newPrice \in {ToInt(a) : a \in Amount}
      BY <1>0, <2>1, IssueLedger
    <2>3. r.version \in 1..listings[r.listingId].version
      BY <2>1 DEF Issues, LInv, MintSeen, MintedRow
    <2>4. r.version \in 1..[l \in Seeded |-> listings[l].version][r.listingId]
      BY <2>2, <2>3
    <2> QED
      BY <2>2, <2>4 DEF Ledger!Next
  <1>4. CASE \E r : Spends(r)
    BY <1>0, <1>4, SpendLedger DEF Ledger!Next
  <1> QED
    BY <1>0, <1>1, <1>2, <1>3, <1>4, StepLive

\* The tables, the backend and the Lambda implement the ledger of grants, for
\* any number of listings, tokens, invocations and brokers, with every fault:
\* a price moves only by spending, once and against the version it was given
\* for, a grant that was issued under a fresh token.
THEOREM ImplementsLedgerHolds == Spec => ImplementsLedger
  <1>1. LInv /\ [Next]_vars => [Ledger!Next]_(Ledger!vars)
    BY StepLedger
  <1> QED
    BY <1>1, InitLedger, LInvAlways, PTL DEF Spec, ImplementsLedger, Ledger!Spec
===============================================================================

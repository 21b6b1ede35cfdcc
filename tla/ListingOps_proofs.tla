-------------------------- MODULE ListingOps_proofs ---------------------------
(***************************************************************************)
(* Theorems about ListingOps, for any number of listings, tokens,          *)
(* invocations and brokers, any clock bound and with or without faults.    *)
(***************************************************************************)
EXTENDS ListingOps, TLAPS

USE ListingAssumption, AmountAssumption, ClockAssumption, FaultsAssumption

-----------------------------------------------------------------------------
\* Type correctness needs two facts beside the types: a mint that is about to
\* put its row has found the listing, and an invocation that is past its
\* checks holds a row for the listing it was called with.
FoundListing == \A t \in Token : mint[t].pc = "put" => mint[t].listingId \in Seeded

CheckedRow(i) ==
  /\ call[i].approval \in ApprovalRow
  /\ call[i].approval.approvalToken = call[i].approvalToken
  /\ Matches(i, call[i].approval)

Checked == \A i \in Invocation : call[i].pc \in {"delete", "write", "log"} => CheckedRow(i)

TInv == TypeOK /\ FoundListing /\ Checked

LEMMA ToIntNat == ASSUME NEW a \in Nat PROVE ToInt(a) \in Nat
  BY DEF ToInt

LEMMA MintedRowType ==
  ASSUME TInv, NEW t \in Token, mint[t].pc = "put"
  PROVE  MintedRow(t) \in ApprovalRow
  <1>1. mint[t] \in MintState
    BY DEF TInv, TypeOK, Idle
  <1>2. ToInt(mint[t].newPrice) \in Nat /\ ToInt(mint[t].oldPrice) \in Nat
    BY <1>1, ToIntNat DEF MintState
  <1>3. mint[t].listingId \in Seeded
    BY DEF TInv, FoundListing
  <1> QED
    BY <1>1, <1>2, <1>3 DEF MintedRow, ApprovalRow, MintState

LEMMA TInvInit == Init => TInv
  BY DEF Init, TInv, TypeOK, FoundListing, Checked, Idle

LEMMA TInvMint ==
  ASSUME TInv, NEW t \in Token, MintNext(t)
  PROVE  TInv'
  <1> USE DEF TInv, TypeOK, FoundListing, Checked, CheckedRow, Matches, tables, history
  <1>1. CASE \E u \in Actor, l \in ListingId, a \in Amount : Propose(t, u, l, a)
    <2>1. PICK u \in Actor, l \in ListingId, a \in Amount : Propose(t, u, l, a)
      BY <1>1
    <2>2. ReadPrice(l) \in Nat
      BY DEF ReadPrice
    <2>3. PICK old \in Nat :
            mint' = [mint EXCEPT ![t] =
              [pc |-> "proposed", listingId |-> l, newPrice |-> a, actor |-> u,
               oldPrice |-> old, asRead |-> l \in Seeded /\ old = ReadPrice(l),
               version |-> 0, mintedAt |-> 0]]
      BY <2>1, <2>2 DEF Propose
    <2>4. PICK read \in BOOLEAN : read = (l \in Seeded /\ old = ReadPrice(l))
      OBVIOUS
    <2>5. [pc |-> "proposed", listingId |-> l, newPrice |-> a, actor |-> u, oldPrice |-> old,
           asRead |-> read, version |-> 0, mintedAt |-> 0] \in MintState
      BY DEF MintState
    <2>6. mint' \in [Token -> MintState \cup {Idle}] /\ mint'[t].pc = "proposed"
          /\ \A s \in Token : s # t => mint'[s] = mint[s]
      BY <2>3, <2>4, <2>5
    <2> QED
      BY <2>1, <2>6 DEF Propose
  <1>2. CASE Approve(t) \/ Decline(t) \/ MintRefused(t)
    BY <1>2 DEF Approve, Decline, MintRefused, MintStep, MintState, Idle
  <1>3. CASE MintGet(t)
    <2>1. PICK v \in Editions(mint[t].listingId) :
            mint' = [mint EXCEPT ![t].pc = "put", ![t].version = v, ![t].mintedAt = now]
      BY <1>3 DEF MintGet
    <2>2. v \in Nat /\ now \in Nat
      BY <2>1 DEF Editions
    <2>3. mint[t] \in MintState /\ mint[t].listingId \in Seeded
      BY <1>3 DEF MintGet, Idle
    <2>4. [mint[t] EXCEPT !.pc = "put", !.version = v, !.mintedAt = now] \in MintState
      BY <2>2, <2>3 DEF MintState
    <2>5. mint' \in [Token -> MintState \cup {Idle}]
      BY <2>1, <2>4
    <2>6. FoundListing'
      BY <2>1, <2>3
    <2> QED
      BY <1>3, <2>5, <2>6 DEF MintGet
  <1>4. CASE MintPut(t)
    BY <1>4, MintedRowType DEF MintPut, MintStep, PutRow, MintState, Idle
  <1>5. CASE MintFails(t)
    BY <1>5, MintedRowType DEF MintFails, MintStep, PutRow, MintState, Idle
  <1> QED
    BY <1>1, <1>2, <1>3, <1>4, <1>5 DEF MintNext

LEMMA TInvCall ==
  ASSUME TInv, NEW i \in Invocation, NEW l \in ListingId, NEW a \in Amount, NEW t \in Token,
         Call(i, l, a, t)
  PROVE  TInv'
  <1>1. ToInt(a) \in Nat
    BY ToIntNat
  <1> QED
    BY <1>1 DEF Call, CallState, Result, TInv, TypeOK, FoundListing, Checked, CheckedRow,
                Matches, tables, history

LEMMA CallStarted ==
  ASSUME NEW i \in Invocation, LambdaStep(i)
  PROVE  call[i].pc \in {"get", "delete", "write", "log"} /\ call[i] # Idle
  <1>1. call[i].pc \in {"get", "delete", "write", "log"}
    BY DEF LambdaStep, GetNothing, GetApproval, DeleteApproval, WriteListing, AppendLog,
           Stopped, At
  <1> QED
    BY <1>1 DEF Idle

\* Checked survives a step that moves one invocation and leaves its row.
LEMMA CheckedKept ==
  ASSUME TInv, NEW i \in Invocation, call[i].pc \in {"delete", "write", "log"},
         NEW p \in {"write", "log", "done"}, NEW res \in Result,
         call' = [call EXCEPT ![i].pc = p] \/ call' = [call EXCEPT ![i].pc = p, ![i].result = res]
  PROVE  Checked' /\ call' \in [Invocation -> CallState \cup {Idle}]
  <1>0. call[i] \in CallState
    BY DEF TInv, TypeOK, Idle
  <1>1. /\ call' \in [Invocation -> CallState \cup {Idle}]
        /\ call'[i].listingId = call[i].listingId
        /\ call'[i].newPrice = call[i].newPrice
        /\ call'[i].approvalToken = call[i].approvalToken
        /\ call'[i].approval = call[i].approval
        /\ \A j \in Invocation : j # i => call'[j] = call[j]
    BY <1>0 DEF TInv, TypeOK, CallState
  <1> SUFFICES ASSUME NEW j \in Invocation, call'[j].pc \in {"delete", "write", "log"}
               PROVE  CheckedRow(j)'
    BY <1>1 DEF Checked
  <1>2. CheckedRow(j)
    BY <1>1 DEF TInv, Checked
  <1> QED
    BY <1>1, <1>2 DEF CheckedRow, Matches

LEMMA TInvLambda ==
  ASSUME TInv, NEW i \in Invocation, LambdaStep(i)
  PROVE  TInv'
  <1>0. call[i] \in CallState
    BY CallStarted DEF TInv, TypeOK
  <1>1. CASE GetNothing(i) \/ Stopped(i)
    BY <1>0, <1>1 DEF GetNothing, Stopped, Return, At, CallState, Result, TInv, TypeOK, FoundListing,
                      Checked, CheckedRow, Matches, tables, history
  <1>2. CASE \E r \in issued : GetApproval(i, r)
    <2>1. PICK r \in issued : GetApproval(i, r)
      BY <1>2
    <2>2. r \in ApprovalRow
      BY DEF TInv, TypeOK
    <2>3. CASE Return(i, "mismatch") \/ Return(i, "expired")
      BY <1>0, <2>1, <2>3 DEF GetApproval, Return, CallState, Result, TInv, TypeOK, FoundListing,
         Checked, CheckedRow, Matches, tables, history
    <2>4. CASE Matches(i, r) /\ call' = [call EXCEPT ![i].pc = "delete", ![i].approval = r]
      <3>1. /\ call' \in [Invocation -> CallState \cup {Idle}]
            /\ CheckedRow(i)'
            /\ \A j \in Invocation : j # i => call'[j] = call[j]
        BY <1>0, <2>1, <2>2, <2>4 DEF GetApproval, CallState, CheckedRow, Matches, TInv, TypeOK
      <3>2. Checked'
        BY <3>1 DEF Checked, CheckedRow, Matches, TInv
      <3> QED
        BY <2>1, <3>1, <3>2 DEF GetApproval, TInv, TypeOK, FoundListing, tables, history
    <2> QED
      BY <2>1, <2>3, <2>4 DEF GetApproval
  <1>3. CASE DeleteApproval(i)
    <2>1. PICK p \in {"write", "done"}, res \in Result :
            call' = [call EXCEPT ![i].pc = p] \/ call' = [call EXCEPT ![i].pc = p, ![i].result = res]
      BY <1>3 DEF DeleteApproval, Goto, Return, Result
    <2>2. approvals' \subseteq approvals /\ call[i].pc = "delete"
      BY <1>3 DEF DeleteApproval, RemoveRow, At
    <2>3. Checked' /\ call' \in [Invocation -> CallState \cup {Idle}]
      BY <2>1, <2>2, CheckedKept
    <2> QED
      BY <1>3, <2>2, <2>3 DEF DeleteApproval, TInv, TypeOK, FoundListing, history
  <1>4. CASE WriteListing(i)
    <2>1. PICK p \in {"log", "done"}, res \in Result :
            call' = [call EXCEPT ![i].pc = p] \/ call' = [call EXCEPT ![i].pc = p, ![i].result = res]
      BY <1>4 DEF WriteListing, Goto, Return, Result
    <2>2. call[i].pc = "write" /\ call[i].listingId \in Seeded /\ call[i].newPrice \in Nat
      BY <1>0, <1>4 DEF WriteListing, At, CallState, ApprovalRow, TInv, Checked, CheckedRow, Matches
    <2>3. ApplyWrite(i) => /\ listings' \in [Seeded -> [askingPrice : Nat, version : Nat \ {0}]]
                           /\ writes' \subseteq WriteRecord
      BY <1>0, <2>2 DEF ApplyWrite, NewEdition, WriteRecord, CallState, TInv, TypeOK
    <2>4. /\ listings' \in [Seeded -> [askingPrice : Nat, version : Nat \ {0}]]
          /\ writes' \subseteq WriteRecord
      BY <1>4, <2>3 DEF WriteListing, TInv, TypeOK
    <2>5. Checked' /\ call' \in [Invocation -> CallState \cup {Idle}]
      BY <2>1, <2>2, CheckedKept
    <2> QED
      BY <1>4, <2>4, <2>5 DEF WriteListing, TInv, TypeOK, FoundListing
  <1>5. CASE AppendLog(i)
    <2>1. PICK res \in Result : call' = [call EXCEPT ![i].pc = "done", ![i].result = res]
      BY <1>5 DEF AppendLog, Return, Result
    <2>2. LogEntry(i) \in LogRow
      BY <1>0, <1>5 DEF AppendLog, At, LogEntry, ChangedAt, LogRow, ApprovalRow, CallState,
         TInv, Checked, CheckedRow, Matches
    <2>3. changelog' \subseteq LogRow
      BY <1>5, <2>2 DEF AppendLog, PutLog, TInv, TypeOK
    <2>4. Checked' /\ call' \in [Invocation -> CallState \cup {Idle}]
      BY <1>5, <2>1, CheckedKept DEF AppendLog, At
    <2> QED
      BY <1>5, <2>3, <2>4 DEF AppendLog, TInv, TypeOK, FoundListing, history
  <1> QED
    BY <1>1, <1>2, <1>3, <1>4, <1>5 DEF LambdaStep

LEMMA TInvStep == TInv /\ [Next]_vars => TInv'
  <1> SUFFICES ASSUME TInv, [Next]_vars PROVE TInv'
    OBVIOUS
  <1>1. CASE \E r \in approvals : TtlSweep(r)
    BY <1>1 DEF TtlSweep, TInv, TypeOK, FoundListing, Checked, CheckedRow, Matches, history
  <1>2. CASE Tick
    BY <1>2 DEF Tick, TInv, TypeOK, FoundListing, Checked, CheckedRow, Matches, tables, history
  <1>3. CASE UNCHANGED vars
    BY <1>3 DEF vars, TInv, TypeOK, FoundListing, Checked, CheckedRow, Matches, tables, history
  <1> QED
    BY <1>1, <1>2, <1>3, TInvMint, TInvCall, TInvLambda DEF Next

\* The tables, the clock and both programs keep their types.
THEOREM TypeCorrect == Spec => []TypeOK
  <1>1. TInv => TypeOK
    BY DEF TInv
  <1> QED
    BY <1>1, TInvInit, TInvStep, PTL DEF Spec

-----------------------------------------------------------------------------
\* Single use.  A row is determined by its token, and is in the table, or held
\* by the one invocation that deleted it, or spent.
Fresh ==
  \A r \in issued :
    mint[r.approvalToken].pc \in {"minted", "failed"} /\ r = MintedRow(r.approvalToken)

RowsIssued ==
  /\ approvals \subseteq issued
  /\ \A i \in Invocation : call[i].pc \in {"delete", "write", "log"} => call[i].approval \in issued

Exclusive ==
  /\ \A i \in Invocation : call[i].pc \in {"write", "log"} => call[i].approval \notin approvals
  /\ \A i, j \in Invocation :
       /\ call[i].pc \in {"write", "log"} /\ call[j].pc \in {"write", "log"}
       /\ call[i].approvalToken = call[j].approvalToken
       => i = j

WriteOf(w, r) ==
  /\ r.approvalToken = w.approvalToken /\ r.listingId = w.listingId
  /\ r.newPrice = w.newPrice /\ r.version = w.version

Spent ==
  /\ \A w \in writes : \E r \in issued : r \notin approvals /\ WriteOf(w, r)
  /\ \A w \in writes, i \in Invocation :
       call[i].pc = "write" => call[i].approvalToken # w.approvalToken
  /\ \A v, w \in writes : v.approvalToken = w.approvalToken => v = w

SInv == TInv /\ Fresh /\ RowsIssued /\ Exclusive /\ Spent

LEMMA RowOfToken ==
  ASSUME Fresh, NEW r \in issued, NEW q \in issued, r.approvalToken = q.approvalToken
  PROVE  r = q
  BY DEF Fresh

LEMMA SInvInit == Init => SInv
  BY TInvInit DEF Init, SInv, Fresh, RowsIssued, Exclusive, Spent, Idle

\* A mint moves its own record, before it is minted or failed, and puts at most
\* one row, under a token no row has.
LEMMA MintFrame ==
  ASSUME TInv, Fresh, NEW t \in Token, MintNext(t)
  PROVE  /\ UNCHANGED <<listings, now, call, writes>>
         /\ \A r \in issued : r.approvalToken # t
         /\ \A r \in issued : /\ mint'[r.approvalToken] = mint[r.approvalToken]
                             /\ MintedRow(r.approvalToken)' = MintedRow(r.approvalToken)
         /\ \/ UNCHANGED <<approvals, issued>>
            \/ /\ issued' = issued \cup {MintedRow(t)}
               /\ approvals' = approvals \cup {MintedRow(t)}
               /\ mint[t].pc = "put" /\ mint'[t].pc \in {"minted", "failed"}
               /\ MintedRow(t)' = MintedRow(t)
  <1>1. /\ mint[t].pc \in {"idle", "proposed", "get", "put"}
        /\ \A s \in Token : s # t => mint'[s] = mint[s]
        /\ UNCHANGED <<listings, now, call, writes>>
    <2>1. CASE \E u \in Actor, l \in ListingId, a \in Amount : Propose(t, u, l, a)
      BY <2>1 DEF Propose, tables, history, Idle, TInv, TypeOK
    <2>2. CASE MintGet(t)
      BY <2>2 DEF MintGet, tables, history, TInv, TypeOK
    <2>3. CASE Approve(t) \/ Decline(t) \/ MintRefused(t) \/ MintPut(t) \/ MintFails(t)
      <3>1. /\ mint[t].pc \in {"proposed", "get", "put"} /\ UNCHANGED <<now, call>>
            /\ \A s \in Token : s # t => mint'[s] = mint[s]
        BY <2>3 DEF Approve, Decline, MintRefused, MintPut, MintFails, MintStep, TInv, TypeOK
      <3>2. UNCHANGED <<listings, writes>>
        BY <2>3 DEF Approve, Decline, MintRefused, MintPut, MintFails, PutRow, tables, history
      <3> QED
        BY <3>1, <3>2
    <2> QED
      BY <2>1, <2>2, <2>3 DEF MintNext
  <1>2. \A r \in issued : r.approvalToken # t
    BY <1>1 DEF Fresh
  <1>3. \A r \in issued : r.approvalToken \in Token
    BY DEF TInv, TypeOK, ApprovalRow
  <1>4. \A r \in issued : /\ mint'[r.approvalToken] = mint[r.approvalToken]
                        /\ MintedRow(r.approvalToken)' = MintedRow(r.approvalToken)
    BY <1>1, <1>2, <1>3 DEF MintedRow
  <1>5. CASE MintPut(t) \/ (MintFails(t) /\ ~UNCHANGED <<approvals, issued>>)
    <2>1. \E to \in {"minted", "failed"} : MintStep(t, "put", to) /\ PutRow(t)
      BY <1>5 DEF MintPut, MintFails, tables, history
    <2>2. mint[t] \in MintState /\ mint[t].pc = "put"
      BY <2>1 DEF MintStep, TInv, TypeOK, Idle
    <2>3. mint'[t].pc \in {"minted", "failed"} /\ MintedRow(t)' = MintedRow(t)
      BY <2>1, <2>2 DEF MintStep, MintedRow, TInv, TypeOK, MintState
    <2> QED
      BY <1>1, <1>2, <1>4, <2>1, <2>2, <2>3 DEF PutRow
  <1>6. CASE ~(MintPut(t) \/ (MintFails(t) /\ ~UNCHANGED <<approvals, issued>>))
    <2>1. UNCHANGED <<approvals, issued>>
      <3>1. CASE MintFails(t)
        BY <1>6, <3>1 DEF MintFails, PutRow, tables, history
      <3>2. CASE ~MintFails(t)
        BY <1>6, <3>2 DEF MintNext, Propose, Approve, Decline, MintGet, MintRefused, tables, history
      <3> QED
        BY <3>1, <3>2
    <2> QED
      BY <1>1, <1>2, <1>4, <2>1
  <1> QED
    BY <1>5, <1>6

LEMMA SInvMint ==
  ASSUME SInv, NEW t \in Token, MintNext(t)
  PROVE  Fresh' /\ RowsIssued' /\ Exclusive' /\ Spent'
  <1>0. TInv /\ Fresh
    BY DEF SInv
  <1>1. /\ UNCHANGED <<listings, now, call, writes>>
        /\ \A r \in issued : r.approvalToken # t
        /\ \A r \in issued : /\ mint'[r.approvalToken] = mint[r.approvalToken]
                            /\ MintedRow(r.approvalToken)' = MintedRow(r.approvalToken)
    BY <1>0, MintFrame
  <1>2. \/ UNCHANGED <<approvals, issued>>
        \/ /\ issued' = issued \cup {MintedRow(t)}
           /\ approvals' = approvals \cup {MintedRow(t)}
           /\ mint[t].pc = "put" /\ mint'[t].pc \in {"minted", "failed"}
           /\ MintedRow(t)' = MintedRow(t)
    BY <1>0, MintFrame
  <1>3. MintedRow(t).approvalToken = t
    BY DEF MintedRow
  <1>4. Fresh'
    BY <1>1, <1>2, <1>3 DEF SInv, Fresh
  <1>5. RowsIssued'
    BY <1>1, <1>2 DEF SInv, RowsIssued
  <1>6. MintedRow(t) \notin issued
    BY <1>1, <1>3
  <1>7. Exclusive'
    BY <1>1, <1>2, <1>6 DEF SInv, RowsIssued, Exclusive
  <1>8. Spent'
    BY <1>1, <1>2, <1>6 DEF SInv, RowsIssued, Spent, WriteOf
  <1> QED
    BY <1>4, <1>5, <1>7, <1>8

LEMMA SInvCall ==
  ASSUME SInv, NEW i \in Invocation, NEW l \in ListingId, NEW a \in Amount, NEW t \in Token,
         Call(i, l, a, t)
  PROVE  Fresh' /\ RowsIssued' /\ Exclusive' /\ Spent'
  <1>1. /\ UNCHANGED <<approvals, mint, issued, writes>>
        /\ call'[i].pc = "get"
        /\ \A j \in Invocation : j # i => call'[j] = call[j]
    BY DEF Call, tables, history, SInv, TInv, TypeOK
  <1>2. Fresh'
    BY <1>1 DEF SInv, Fresh, MintedRow
  <1> QED
    BY <1>1, <1>2 DEF SInv, RowsIssued, Exclusive, Spent, WriteOf

\* One invocation moves; the others, the mints and the rows put stay.
LEMMA LambdaFrame ==
  ASSUME TInv, NEW i \in Invocation, LambdaStep(i)
  PROVE  /\ UNCHANGED <<mint, issued, now>>
         /\ \A j \in Invocation : j # i => call'[j] = call[j]
         /\ Fresh => Fresh'
  <1>1. UNCHANGED <<mint, issued, now>>
    BY DEF LambdaStep, GetNothing, GetApproval, DeleteApproval, WriteListing, AppendLog, Stopped,
           history
  <1>2. \A j \in Invocation : j # i => call'[j] = call[j]
    BY DEF LambdaStep, GetNothing, GetApproval, DeleteApproval, WriteListing, AppendLog, Stopped,
           Goto, Return, TInv, TypeOK
  <1> QED
    BY <1>1, <1>2 DEF Fresh, MintedRow

LEMMA SInvLambda ==
  ASSUME SInv, NEW i \in Invocation, LambdaStep(i)
  PROVE  Fresh' /\ RowsIssued' /\ Exclusive' /\ Spent'
  <1>a. Fresh'
    BY LambdaFrame DEF SInv
  <1> SUFFICES RowsIssued' /\ Exclusive' /\ Spent'
    BY <1>a
  <1>1. /\ UNCHANGED <<mint, issued, now>>
        /\ \A j \in Invocation : j # i => call'[j] = call[j]
    BY LambdaFrame DEF SInv
  <1>2. call \in [Invocation -> CallState \cup {Idle}] /\ call[i] \in CallState
    BY CallStarted DEF SInv, TInv, TypeOK
  \* The invocation ends, or goes on to a read row: the tables stay.
  <1>3. ASSUME UNCHANGED <<approvals, writes>>, call'[i].pc \notin {"delete", "write", "log"}
        PROVE  RowsIssued' /\ Exclusive' /\ Spent'
    BY <1>1, <1>3 DEF SInv, RowsIssued, Exclusive, Spent, WriteOf
  <1>0. \A res : Return(i, res) => call'[i].pc = "done"
    BY <1>2 DEF Return
  <1>4. CASE GetNothing(i) \/ Stopped(i)
    <2>1. call'[i].pc = "done" /\ UNCHANGED <<approvals, writes>>
      BY <1>0, <1>4 DEF GetNothing, Stopped, tables, history
    <2> QED
      BY <1>3, <2>1
  <1>5. CASE \E r \in issued : GetApproval(i, r)
    <2>1. PICK r \in issued : GetApproval(i, r)
      BY <1>5
    <2>2. CASE Return(i, "mismatch") \/ Return(i, "expired")
      <3>1. call'[i].pc = "done" /\ UNCHANGED <<approvals, writes>>
        BY <1>0, <2>1, <2>2 DEF GetApproval, tables, history
      <3> QED
        BY <1>3, <3>1
    <2>3. CASE call' = [call EXCEPT ![i].pc = "delete", ![i].approval = r]
      <3>1. call'[i].pc = "delete" /\ call'[i].approval = r
        BY <1>2, <2>3 DEF CallState
      <3> QED
        BY <1>1, <2>1, <3>1 DEF GetApproval, tables, history, SInv, RowsIssued, Exclusive, Spent, WriteOf
    <2> QED
      BY <2>1, <2>2, <2>3 DEF GetApproval
  <1>6. CASE DeleteApproval(i)
    <2>1. call[i].pc = "delete" /\ call[i].approval \in issued
      BY <1>6 DEF DeleteApproval, At, SInv, RowsIssued
    <2>2. CASE TokenUnspent(i) /\ RemoveRow(i) /\ Goto(i, "write")
      <3>1. /\ call'[i].pc = "write" /\ call'[i].approval = call[i].approval
            /\ call'[i].approvalToken = call[i].approvalToken
        BY <1>2, <2>2 DEF Goto, CallState
      <3>2. approvals' = approvals \ {call[i].approval} /\ writes' = writes
        BY <1>6, <2>2 DEF DeleteApproval, RemoveRow, history
      <3>3. call[i].approval.approvalToken = call[i].approvalToken
        BY <2>1 DEF SInv, TInv, Checked, CheckedRow
      <3>4. RowsIssued'
        BY <1>1, <2>1, <3>1, <3>2 DEF SInv, RowsIssued
      <3>5. \A j \in Invocation : call[j].pc \in {"write", "log"} =>
              call[j].approvalToken # call[i].approvalToken
        BY <2>1, <2>2, <3>3, RowOfToken
        DEF TokenUnspent, SInv, TInv, Checked, CheckedRow, RowsIssued, Exclusive
      <3>6. Exclusive'
        BY <1>1, <3>1, <3>2, <3>5 DEF SInv, Exclusive
      <3>7. \A w \in writes : w.approvalToken # call[i].approvalToken
        BY <2>1, <2>2, <3>3, RowOfToken DEF TokenUnspent, SInv, Spent, WriteOf
      <3>8. Spent'
        BY <1>1, <3>1, <3>2, <3>7 DEF SInv, Spent, WriteOf
      <3> QED
        BY <3>4, <3>6, <3>8
    <2>3. CASE Return(i, "consumed") /\ (RemoveRow(i) \/ UNCHANGED approvals)
      <3>1. call'[i].pc = "done" /\ approvals' \subseteq approvals /\ writes' = writes
        BY <1>0, <1>6, <2>3 DEF DeleteApproval, RemoveRow, history
      <3> QED
        BY <1>1, <3>1 DEF SInv, RowsIssued, Exclusive, Spent, WriteOf
    <2> QED
      BY <1>6, <2>2, <2>3 DEF DeleteApproval
  <1>7. CASE WriteListing(i)
    <2>1. /\ call[i].pc = "write" /\ call[i].approval \in issued
          /\ call[i].approval \notin approvals /\ approvals' = approvals
      BY <1>7 DEF WriteListing, At, SInv, RowsIssued, Exclusive
    <2>2. CASE ApplyWrite(i) /\ (Goto(i, "log") \/ Return(i, "writeFailed"))
      <3>1. /\ call'[i].pc \in {"log", "done"} /\ call'[i].approval = call[i].approval
            /\ call'[i].approvalToken = call[i].approvalToken
        BY <1>2, <2>2 DEF Goto, Return, CallState
      <3>2. PICK w : writes' = writes \cup {w} /\ WriteOf(w, call[i].approval)
        <4>1. CheckedRow(i)
          BY <2>1 DEF SInv, TInv, Checked
        <4> DEFINE n == [approvalToken |-> call[i].approvalToken, listingId |-> call[i].listingId,
                         oldPrice |-> listings[call[i].listingId].askingPrice,
                         newPrice |-> call[i].newPrice,
                         version |-> listings[call[i].listingId].version, at |-> now]
        <4>2. writes' = writes \cup {n} /\ n.version = call[i].approval.version
          BY <2>2 DEF ApplyWrite, VersionCurrent
        <4>3. WriteOf(n, call[i].approval)
          BY <4>1, <4>2 DEF WriteOf, CheckedRow, Matches
        <4> HIDE DEF n
        <4> QED
          BY <4>2, <4>3
      <3>3. w.approvalToken = call[i].approvalToken
        BY <2>1, <3>2 DEF WriteOf, SInv, TInv, Checked, CheckedRow
      <3>4. RowsIssued' /\ Exclusive'
        BY <1>1, <2>1, <3>1 DEF SInv, RowsIssued, Exclusive
      <3>5. \A v \in writes' : \E r \in issued' : r \notin approvals' /\ WriteOf(v, r)
        BY <1>1, <2>1, <3>2 DEF SInv, Spent
      <3>6. \A v \in writes', j \in Invocation :
              call'[j].pc = "write" => call'[j].approvalToken # v.approvalToken
        BY <1>1, <2>1, <3>1, <3>2, <3>3 DEF SInv, Exclusive, Spent
      <3>7. \A u, v \in writes' : u.approvalToken = v.approvalToken => u = v
        BY <2>1, <3>2, <3>3 DEF SInv, Spent
      <3> QED
        BY <3>4, <3>5, <3>6, <3>7 DEF Spent, WriteOf
    <2>3. CASE Return(i, "writeFailed") /\ UNCHANGED <<listings, writes>>
      <3>1. call'[i].pc = "done" /\ UNCHANGED <<approvals, writes>>
        BY <1>0, <2>1, <2>3
      <3> QED
        BY <1>3, <3>1
    <2> QED
      BY <1>7, <2>2, <2>3 DEF WriteListing
  <1>8. CASE AppendLog(i)
    <2>1. call'[i].pc = "done" /\ UNCHANGED <<approvals, writes>>
      BY <1>0, <1>8 DEF AppendLog, history
    <2> QED
      BY <1>3, <2>1
  <1> QED
    BY <1>1, <1>4, <1>5, <1>6, <1>7, <1>8 DEF LambdaStep

LEMMA SInvStep == SInv /\ [Next]_vars => SInv'
  <1> SUFFICES ASSUME SInv, [Next]_vars PROVE SInv'
    OBVIOUS
  <1>0. TInv'
    BY TInvStep DEF SInv
  <1>1. CASE \E r \in approvals : TtlSweep(r)
    <2>1. approvals' \subseteq approvals /\ UNCHANGED <<mint, call, issued, writes>>
      BY <1>1 DEF TtlSweep, history
    <2> QED
      BY <1>0, <2>1 DEF SInv, Fresh, MintedRow, RowsIssued, Exclusive, Spent, WriteOf
  <1>2. CASE Tick \/ UNCHANGED vars
    <2>1. UNCHANGED <<approvals, mint, call, issued, writes>>
      BY <1>2 DEF Tick, vars, tables, history
    <2> QED
      BY <1>0, <2>1 DEF SInv, Fresh, MintedRow, RowsIssued, Exclusive, Spent, WriteOf
  <1>3. CASE \E t \in Token : MintNext(t)
    BY <1>0, <1>3, SInvMint DEF SInv
  <1>4. CASE \E i \in Invocation, l \in ListingId, a \in Amount, t \in Token : Call(i, l, a, t)
    BY <1>0, <1>4, SInvCall DEF SInv
  <1>5. CASE \E i \in Invocation : LambdaStep(i)
    BY <1>0, <1>5, SInvLambda DEF SInv
  <1> QED
    BY <1>1, <1>2, <1>3, <1>4, <1>5 DEF Next

LEMMA SInvAlways == Spec => []SInv
  BY SInvInit, SInvStep, PTL DEF Spec

\* A token is consumed by at most one invocation and changes at most one price.
THEOREM SingleUseHolds == Spec => []SingleUse
  <1>1. SInv => SingleUse
    BY DEF SInv, Exclusive, Spent, SingleUse
  <1> QED
    BY <1>1, SInvAlways, PTL

\* A price changes only to what a broker confirmed, on the edition the mint saw.
THEOREM WritesAreApprovedHolds == Spec => []WritesAreApproved
  <1>1. SInv => WritesAreApproved
    BY DEF SInv, Fresh, Spent, WriteOf, WritesAreApproved, MintedRow
  <1> QED
    BY <1>1, SInvAlways, PTL
===============================================================================

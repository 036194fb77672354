------------------------ MODULE BidMatchingProofs ------------------------
(***************************************************************************)
(* Theorems about BidMatching for every value of its constants: any number *)
(* of handlers, providers, teams, prices and bids, with or without faults. *)
(*                                                                         *)
(* The argument: MatchingInv is inductive.  A read changes only what one   *)
(* handler knows (ReadStep).  A write keeps what the others know because   *)
(* everything they rely on is monotone (StillInFlight): rows are never     *)
(* removed, a bid keeps its bidder, agreed_price never becomes NULL again  *)
(* and the alignment flags are never reset.                                *)
(***************************************************************************)
EXTENDS BidMatching, FiniteSetTheorems, TLAPS

USE DEF Draft, Published, Matched, Aligning, InProgress, Accepting, Closed,
        Absent, Pending, Accepted, Rejected, Withdrawn

\* The empty row and the idle request are well typed, and so is a new bid.
LEMMA RowTypes ==
    /\ NoRow \in BidRow
    /\ Idle \in Request
    /\ RequestOK(Idle) /\ RequestOK(Idle)'
    /\ \A p \in Provider, t \in Team \cup {None}, x \in Price, ai \in BOOLEAN :
         NewBid(p, t, x, ai) \in BidRow
  BY DEF NoRow, BidRow, Idle, Request, Stage, RequestOK, NewBid

\* A handler changes only what it knows itself.
LEMMA ReadStep ==
    ASSUME MatchingInv, NEW h \in Handler, NEW r \in Request, RequestOK(r),
           req' = [req EXCEPT ![h] = r],
           UNCHANGED <<project, bids, lastBid>>
    PROVE  MatchingInv'
  <1>1. TypeOK'
    BY DEF MatchingInv, TypeOK
  <1>2. RequestOK(r)'
    BY DEF RequestOK, BothAligned
  <1>3. ASSUME NEW g \in Handler PROVE RequestOK(req[g])'
    <2>1. CASE g = h
      BY <2>1, <1>2 DEF MatchingInv, TypeOK
    <2>2. CASE g # h
      <3>1. req'[g] = req[g]
        BY <2>2 DEF MatchingInv, TypeOK
      <3>2. RequestOK(req[g])
        BY DEF MatchingInv, InFlight
      <3> QED
        BY <3>1, <3>2 DEF RequestOK, BothAligned
    <2> QED
      BY <2>1, <2>2
  <1>4. Issued' /\ MatchIsWhole' /\ AlignedByBoth' /\ EngagedIsPriced'
    BY DEF MatchingInv, Issued, MatchIsWhole, AlignedByBoth, EngagedIsPriced, BothAligned
  <1> QED
    BY <1>1, <1>3, <1>4 DEF MatchingInv, InFlight

\* The database may grow under a handler's feet without falsifying what it knows.
LEMMA StillInFlight ==
    ASSUME MatchingInv, NEW h \in Handler, NEW r \in Request, RequestOK(r)',
           req' = [req EXCEPT ![h] = r],
           project.agreedPrice # None => project'.agreedPrice # None,
           BothAligned => BothAligned',
           \A b \in BidId : bids[b].status # Absent =>
               bids'[b].status # Absent /\ bids'[b].bidder = bids[b].bidder
    PROVE  InFlight'
  <1> SUFFICES ASSUME NEW g \in Handler PROVE RequestOK(req[g])'
    BY DEF InFlight
  <1>1. CASE g = h
    BY <1>1 DEF MatchingInv, TypeOK
  <1>2. CASE g # h
    <2>1. req'[g] = req[g]
      BY <1>2 DEF MatchingInv, TypeOK
    <2>2. RequestOK(req[g])
      BY DEF MatchingInv, InFlight
    <2> QED
      BY <2>1, <2>2 DEF RequestOK
  <1> QED
    BY <1>1, <1>2

\* A handler that has done its work forgets what it read.
LEMMA FinishInFlight ==
    ASSUME MatchingInv, NEW h \in Handler, Finish(h),
           project.agreedPrice # None => project'.agreedPrice # None,
           BothAligned => BothAligned',
           \A b \in BidId : bids[b].status # Absent =>
               bids'[b].status # Absent /\ bids'[b].bidder = bids[b].bidder
    PROVE  InFlight' /\ req' \in [Handler -> Request]
  <1>1. Idle \in Request /\ RequestOK(Idle)'
    BY RowTypes
  <1>2. InFlight'
    BY <1>1, StillInFlight DEF Finish
  <1> QED
    BY <1>1, <1>2 DEF Finish, MatchingInv, TypeOK

\* What a call reads keeps the invariant.
LEMMA ArriveInv ==
    ASSUME MatchingInv, NEW h \in Handler, Arrive(h) PROVE MatchingInv'
  <1>1. ASSUME NEW p \in Provider, NEW t \in Team \cup {None}, NEW x \in Price, CreateRead(h, p, t, x) PROVE MatchingInv'
    <2> DEFINE r == [Idle EXCEPT !.at = "create", !.row = NewBid(p, t, x, FALSE), !.count = project.bidCount]
    <2>1. r \in Request
      BY <1>1, RowTypes, MatchingAssumption
      DEF MatchingInv, TypeOK, Request, Idle, Stage, ProjectRow, BidRow, NoRow, NewBid, User
    <2>2. RequestOK(r)
      BY <1>1, MatchingAssumption
      DEF CreateRead, MatchingInv, Issued, AlignedByBoth, EngagedIsPriced, RequestOK, Idle, NewBid
    <2> QED
      BY <1>1, <2>1, <2>2, ReadStep DEF CreateRead, Begin
  <1>2. ASSUME NEW b \in BidId, AcceptRead(h, b) PROVE MatchingInv'
    <2> DEFINE r == [Idle EXCEPT !.at = "accept", !.bid = b, !.row = bids[b]]
    <2>1. r \in Request
      BY <1>2, RowTypes, MatchingAssumption
      DEF MatchingInv, TypeOK, Request, Idle, Stage, ProjectRow, BidRow, NoRow, NewBid, User
    <2>2. RequestOK(r)
      BY <1>2, MatchingAssumption
      DEF AcceptRead, MatchingInv, Issued, AlignedByBoth, EngagedIsPriced, RequestOK, Idle, NewBid
    <2> QED
      BY <1>2, <2>1, <2>2, ReadStep DEF AcceptRead, Begin
  <1>3. ASSUME NEW b \in BidId, ConfirmRead(h, b) PROVE MatchingInv'
    <2> DEFINE r == [Idle EXCEPT !.at = "confirm", !.bid = b]
    <2>1. r \in Request
      BY <1>3, RowTypes, MatchingAssumption
      DEF MatchingInv, TypeOK, Request, Idle, Stage, ProjectRow, BidRow, NoRow, NewBid, User
    <2>2. RequestOK(r)
      BY <1>3, MatchingAssumption
      DEF ConfirmRead, MatchingInv, Issued, AlignedByBoth, EngagedIsPriced, RequestOK, Idle, NewBid
    <2> QED
      BY <1>3, <2>1, <2>2, ReadStep DEF ConfirmRead, Begin
  <1>4. ASSUME NEW b \in BidId, RejectRead(h, b) PROVE MatchingInv'
    <2> DEFINE r == [Idle EXCEPT !.at = "reset", !.bid = b]
    <2>1. r \in Request
      BY <1>4, RowTypes, MatchingAssumption
      DEF MatchingInv, TypeOK, Request, Idle, Stage, ProjectRow, BidRow, NoRow, NewBid, User
    <2>2. RequestOK(r)
      BY <1>4, MatchingAssumption
      DEF RejectRead, MatchingInv, Issued, AlignedByBoth, EngagedIsPriced, RequestOK, Idle, NewBid
    <2> QED
      BY <1>4, <2>1, <2>2, ReadStep DEF RejectRead, Begin
  <1>5. ASSUME NEW b \in BidId, CancelRead(h, b) PROVE MatchingInv'
    <2> DEFINE r == [Idle EXCEPT !.at = "reset", !.bid = b]
    <2>1. r \in Request
      BY <1>5, RowTypes, MatchingAssumption
      DEF MatchingInv, TypeOK, Request, Idle, Stage, ProjectRow, BidRow, NoRow, NewBid, User
    <2>2. RequestOK(r)
      BY <1>5, MatchingAssumption
      DEF CancelRead, MatchingInv, Issued, AlignedByBoth, EngagedIsPriced, RequestOK, Idle, NewBid
    <2> QED
      BY <1>5, <2>1, <2>2, ReadStep DEF CancelRead, Begin
  <1>6. ASSUME NEW b \in BidId, WithdrawRead(h, b) PROVE MatchingInv'
    <2> DEFINE r == [Idle EXCEPT !.at = "withdrawCount", !.bid = b]
    <2>1. r \in Request
      BY <1>6, RowTypes, MatchingAssumption
      DEF MatchingInv, TypeOK, Request, Idle, Stage, ProjectRow, BidRow, NoRow, NewBid, User
    <2>2. RequestOK(r)
      BY <1>6, MatchingAssumption
      DEF WithdrawRead, MatchingInv, Issued, AlignedByBoth, EngagedIsPriced, RequestOK, Idle, NewBid
    <2> QED
      BY <1>6, <2>1, <2>2, ReadStep DEF WithdrawRead, Begin
  <1>7. ASSUME NEW b \in BidId, NEW x \in Price, QuoteRead(h, b, x) PROVE MatchingInv'
    <2> DEFINE r == [Idle EXCEPT !.at = "quote", !.bid = b, !.row.price = x]
    <2>1. r \in Request
      BY <1>7, RowTypes, MatchingAssumption
      DEF MatchingInv, TypeOK, Request, Idle, Stage, ProjectRow, BidRow, NoRow, NewBid, User
    <2>2. RequestOK(r)
      BY <1>7, MatchingAssumption
      DEF QuoteRead, MatchingInv, RequestOK, Idle, NoRow
    <2> QED
      BY <1>7, <2>1, <2>2, ReadStep DEF QuoteRead, Begin
  <1>8. ASSUME NEW p \in Provider, NEW t \in Team, QuickRead(h, p, t) PROVE MatchingInv'
    <2> DEFINE r == [Idle EXCEPT !.at = "quickFind", !.count = project.bidCount, !.row = NewBid(p, t, QuickPrice, TRUE)]
    <2>1. r \in Request
      BY <1>8, RowTypes, MatchingAssumption
      DEF MatchingInv, TypeOK, Request, Idle, Stage, ProjectRow, BidRow, NoRow, NewBid, User
    <2>2. RequestOK(r)
      BY <1>8, MatchingAssumption
      DEF QuickRead, MatchingInv, Issued, AlignedByBoth, EngagedIsPriced, RequestOK, Idle, NewBid
    <2> QED
      BY <1>8, <2>1, <2>2, ReadStep DEF QuickRead, Begin
  <1>9. ASSUME NEW u \in User, AlignRead(h, u) PROVE MatchingInv'
    <2> DEFINE r == [Idle EXCEPT !.at = "alignMark", !.user = u]
    <2>1. r \in Request
      BY <1>9, RowTypes, MatchingAssumption
      DEF MatchingInv, TypeOK, Request, Idle, Stage, ProjectRow, BidRow, NoRow, NewBid, User
    <2>2. RequestOK(r)
      BY <1>9, MatchingAssumption
      DEF AlignRead, MatchingInv, Issued, AlignedByBoth, EngagedIsPriced, RequestOK, Idle, NewBid
    <2> QED
      BY <1>9, <2>1, <2>2, ReadStep DEF AlignRead, Begin
  <1>10. ASSUME PublishRead(h) PROVE MatchingInv'
    <2> DEFINE r == [Idle EXCEPT !.at = "publish"]
    <2>1. r \in Request
      BY <1>10, RowTypes, MatchingAssumption
      DEF MatchingInv, TypeOK, Request, Idle, Stage, ProjectRow, BidRow, NoRow, NewBid, User
    <2>2. RequestOK(r)
      BY <1>10, MatchingAssumption
      DEF PublishRead, MatchingInv, Issued, AlignedByBoth, EngagedIsPriced, RequestOK, Idle, NewBid
    <2> QED
      BY <1>10, <2>1, <2>2, ReadStep DEF PublishRead, Begin
  <1>11. ASSUME StartRead(h) PROVE MatchingInv'
    <2> DEFINE r == [Idle EXCEPT !.at = "start"]
    <2>1. r \in Request
      BY <1>11, RowTypes, MatchingAssumption
      DEF MatchingInv, TypeOK, Request, Idle, Stage, ProjectRow, BidRow, NoRow, NewBid, User
    <2>2. RequestOK(r)
      BY <1>11, MatchingAssumption
      DEF StartRead, MatchingInv, Issued, AlignedByBoth, EngagedIsPriced, RequestOK, Idle, NewBid
    <2> QED
      BY <1>11, <2>1, <2>2, ReadStep DEF StartRead, Begin
  <1>12. ASSUME CloseRead(h) PROVE MatchingInv'
    <2> DEFINE r == [Idle EXCEPT !.at = "close"]
    <2>1. r \in Request
      BY <1>12, RowTypes, MatchingAssumption
      DEF MatchingInv, TypeOK, Request, Idle, Stage, ProjectRow, BidRow, NoRow, NewBid, User
    <2>2. RequestOK(r)
      BY <1>12, MatchingAssumption
      DEF CloseRead, MatchingInv, Issued, AlignedByBoth, EngagedIsPriced, RequestOK, Idle, NewBid
    <2> QED
      BY <1>12, <2>1, <2>2, ReadStep DEF CloseRead, Begin
  <1> QED
    BY <1>1, <1>2, <1>3, <1>4, <1>5, <1>6, <1>7, <1>8, <1>9, <1>10, <1>11, <1>12 DEF Arrive

\* QuickMatch's counter update.
LEMMA QuickCountInv ==
    ASSUME MatchingInv, NEW h \in Handler, QuickCount(h) PROVE MatchingInv'
  <1>1. RequestOK(req[h]) /\ req[h] \in Request
    BY DEF MatchingInv, TypeOK, InFlight
  <1>2. project' \in ProjectRow
    BY <1>1 DEF QuickCount, MatchingInv, TypeOK, ProjectRow, Request
  <1>3. InFlight' /\ req' \in [Handler -> Request]
    BY FinishInFlight DEF QuickCount, MatchingInv, TypeOK, ProjectRow, BothAligned
  <1>4. Issued' /\ MatchIsWhole' /\ AlignedByBoth' /\ EngagedIsPriced'
    BY <1>1 DEF QuickCount, MatchingInv, TypeOK, ProjectRow, RequestOK, Issued,
       MatchIsWhole, AlignedByBoth, EngagedIsPriced, BothAligned
  <1> QED
    BY <1>2, <1>3, <1>4 DEF QuickCount, MatchingInv, TypeOK

\* PublishDraft writes status 2.
LEMMA PublishCommitInv ==
    ASSUME MatchingInv, NEW h \in Handler, PublishCommit(h) PROVE MatchingInv'
  <1>1. RequestOK(req[h]) /\ req[h] \in Request
    BY DEF MatchingInv, TypeOK, InFlight
  <1>2. project' \in ProjectRow
    BY <1>1 DEF PublishCommit, MatchingInv, TypeOK, ProjectRow, Request
  <1>3. InFlight' /\ req' \in [Handler -> Request]
    BY FinishInFlight DEF PublishCommit, MatchingInv, TypeOK, ProjectRow, BothAligned
  <1>4. Issued' /\ MatchIsWhole' /\ AlignedByBoth' /\ EngagedIsPriced'
    BY <1>1 DEF PublishCommit, MatchingInv, TypeOK, ProjectRow, RequestOK, Issued,
       MatchIsWhole, AlignedByBoth, EngagedIsPriced, BothAligned
  <1> QED
    BY <1>2, <1>3, <1>4 DEF PublishCommit, MatchingInv, TypeOK

\* Status 4 is written by a handler that saw both flags.
LEMMA AlignAdvanceInv ==
    ASSUME MatchingInv, NEW h \in Handler, AlignAdvance(h) PROVE MatchingInv'
  <1>1. RequestOK(req[h]) /\ req[h] \in Request
    BY DEF MatchingInv, TypeOK, InFlight
  <1>2. project' \in ProjectRow
    BY <1>1 DEF AlignAdvance, MatchingInv, TypeOK, ProjectRow, Request
  <1>3. InFlight' /\ req' \in [Handler -> Request]
    BY FinishInFlight DEF AlignAdvance, MatchingInv, TypeOK, ProjectRow, BothAligned
  <1>4. Issued' /\ MatchIsWhole' /\ AlignedByBoth' /\ EngagedIsPriced'
    BY <1>1 DEF AlignAdvance, MatchingInv, TypeOK, ProjectRow, RequestOK, Issued,
       MatchIsWhole, AlignedByBoth, EngagedIsPriced, BothAligned
  <1> QED
    BY <1>2, <1>3, <1>4 DEF AlignAdvance, MatchingInv, TypeOK

\* Status 5 is written by a handler that saw status 4, so both flags and a price.
LEMMA StartCommitInv ==
    ASSUME MatchingInv, NEW h \in Handler, StartCommit(h) PROVE MatchingInv'
  <1>1. RequestOK(req[h]) /\ req[h] \in Request
    BY DEF MatchingInv, TypeOK, InFlight
  <1>2. project' \in ProjectRow
    BY <1>1 DEF StartCommit, MatchingInv, TypeOK, ProjectRow, Request
  <1>3. InFlight' /\ req' \in [Handler -> Request]
    BY FinishInFlight DEF StartCommit, MatchingInv, TypeOK, ProjectRow, BothAligned
  <1>4. Issued' /\ MatchIsWhole' /\ AlignedByBoth' /\ EngagedIsPriced'
    BY <1>1 DEF StartCommit, MatchingInv, TypeOK, ProjectRow, RequestOK, Issued,
       MatchIsWhole, AlignedByBoth, EngagedIsPriced, BothAligned
  <1> QED
    BY <1>2, <1>3, <1>4 DEF StartCommit, MatchingInv, TypeOK

\* Close writes status 8.
LEMMA CloseCommitInv ==
    ASSUME MatchingInv, NEW h \in Handler, CloseCommit(h) PROVE MatchingInv'
  <1>1. RequestOK(req[h]) /\ req[h] \in Request
    BY DEF MatchingInv, TypeOK, InFlight
  <1>2. project' \in ProjectRow
    BY <1>1 DEF CloseCommit, MatchingInv, TypeOK, ProjectRow, Request
  <1>3. InFlight' /\ req' \in [Handler -> Request]
    BY FinishInFlight DEF CloseCommit, MatchingInv, TypeOK, ProjectRow, BothAligned
  <1>4. Issued' /\ MatchIsWhole' /\ AlignedByBoth' /\ EngagedIsPriced'
    BY <1>1 DEF CloseCommit, MatchingInv, TypeOK, ProjectRow, RequestOK, Issued,
       MatchIsWhole, AlignedByBoth, EngagedIsPriced, BothAligned
  <1> QED
    BY <1>2, <1>3, <1>4 DEF CloseCommit, MatchingInv, TypeOK

\* A quote writes a bid's price and nothing a handler relies on.
LEMMA QuoteCommitInv ==
    ASSUME MatchingInv, NEW h \in Handler, QuoteCommit(h) PROVE MatchingInv'
  <1>1. RequestOK(req[h]) /\ req[h] \in Request
    BY DEF MatchingInv, TypeOK, InFlight
  <1>2. project' \in ProjectRow
    BY <1>1 DEF QuoteCommit, MatchingInv, TypeOK, ProjectRow, Request, RequestOK, BidRow
  <1>3. bids' \in [BidId -> BidRow] /\ lastBid' \in 0 .. MaxBids
    BY <1>1, MatchingAssumption
    DEF QuoteCommit, InsertBid, MatchingInv, TypeOK, Request, RequestOK, BidRow, BidId
  <1>4. \A b \in BidId : bids[b].status # Absent =>
            bids'[b].status # Absent /\ bids'[b].bidder = bids[b].bidder
    BY <1>1, MatchingAssumption
    DEF QuoteCommit, InsertBid, MatchingInv, TypeOK, Issued, Request, RequestOK, BidRow, BidId
  <1>5. InFlight' /\ req' \in [Handler -> Request]
    BY <1>1, <1>4, FinishInFlight
    DEF QuoteCommit, MatchingInv, TypeOK, ProjectRow, BothAligned, RequestOK
  <1>6. Issued'
    BY <1>1, MatchingAssumption
    DEF QuoteCommit, InsertBid, MatchingInv, TypeOK, Issued, Request, RequestOK, BidRow, BidId
  <1>7. MatchIsWhole'
    BY <1>1, <1>4, MatchingAssumption
    DEF QuoteCommit, InsertBid, MatchingInv, TypeOK, Issued, Request, RequestOK, BidRow,
        BidId, ProjectRow, MatchIsWhole
  <1>8. AlignedByBoth' /\ EngagedIsPriced'
    BY <1>1, MatchingAssumption
    DEF QuoteCommit, MatchingInv, TypeOK, ProjectRow, RequestOK,
        AlignedByBoth, EngagedIsPriced, BothAligned
  <1> QED
    BY <1>2, <1>3, <1>5, <1>6, <1>7, <1>8 DEF MatchingInv, TypeOK

\* QuickMatch gives a pending bid another team.
LEMMA QuickRetagInv ==
    ASSUME MatchingInv, NEW h \in Handler, QuickRetag(h) PROVE MatchingInv'
  <1>1. RequestOK(req[h]) /\ req[h] \in Request
    BY DEF MatchingInv, TypeOK, InFlight
  <1>2. project' \in ProjectRow
    BY <1>1 DEF QuickRetag, MatchingInv, TypeOK, ProjectRow, Request, RequestOK, BidRow
  <1>3. bids' \in [BidId -> BidRow] /\ lastBid' \in 0 .. MaxBids
    BY <1>1, MatchingAssumption
    DEF QuickRetag, InsertBid, MatchingInv, TypeOK, Request, RequestOK, BidRow, BidId
  <1>4. \A b \in BidId : bids[b].status # Absent =>
            bids'[b].status # Absent /\ bids'[b].bidder = bids[b].bidder
    BY <1>1, MatchingAssumption
    DEF QuickRetag, InsertBid, MatchingInv, TypeOK, Issued, Request, RequestOK, BidRow, BidId
  <1>5. InFlight' /\ req' \in [Handler -> Request]
    BY <1>1, <1>4, FinishInFlight
    DEF QuickRetag, MatchingInv, TypeOK, ProjectRow, BothAligned, RequestOK
  <1>6. Issued'
    BY <1>1, MatchingAssumption
    DEF QuickRetag, InsertBid, MatchingInv, TypeOK, Issued, Request, RequestOK, BidRow, BidId
  <1>7. MatchIsWhole'
    BY <1>1, <1>4, MatchingAssumption
    DEF QuickRetag, InsertBid, MatchingInv, TypeOK, Issued, Request, RequestOK, BidRow,
        BidId, ProjectRow, MatchIsWhole
  <1>8. AlignedByBoth' /\ EngagedIsPriced'
    BY <1>1, MatchingAssumption
    DEF QuickRetag, MatchingInv, TypeOK, ProjectRow, RequestOK,
        AlignedByBoth, EngagedIsPriced, BothAligned
  <1> QED
    BY <1>2, <1>3, <1>5, <1>6, <1>7, <1>8 DEF MatchingInv, TypeOK

\* Withdraw writes a status and a counter that stops at zero.
LEMMA WithdrawCommitInv ==
    ASSUME MatchingInv, NEW h \in Handler, WithdrawCommit(h) PROVE MatchingInv'
  <1>1. RequestOK(req[h]) /\ req[h] \in Request
    BY DEF MatchingInv, TypeOK, InFlight
  <1>2. project' \in ProjectRow
    <2>1. (IF req[h].count = 0 THEN 0 ELSE req[h].count - 1) \in Nat
      BY <1>1 DEF Request
    <2> QED
      BY <2>1 DEF WithdrawCommit, MatchingInv, TypeOK, ProjectRow
  <1>3. bids' \in [BidId -> BidRow] /\ lastBid' \in 0 .. MaxBids
    <2>1. bids[req[h].bid] \in BidRow
      BY <1>1 DEF WithdrawCommit, MatchingInv, TypeOK, RequestOK
    <2>2. [bids[req[h].bid] EXCEPT !.status = Withdrawn] \in BidRow
      BY <2>1 DEF BidRow
    <2> QED
      BY <2>2 DEF WithdrawCommit, MatchingInv, TypeOK
  <1>4. \A b \in BidId : bids[b].status # Absent =>
            bids'[b].status # Absent /\ bids'[b].bidder = bids[b].bidder
    BY <1>1, MatchingAssumption
    DEF WithdrawCommit, InsertBid, MatchingInv, TypeOK, Issued, Request, RequestOK, BidRow, BidId
  <1>5. InFlight' /\ req' \in [Handler -> Request]
    BY <1>1, <1>4, FinishInFlight
    DEF WithdrawCommit, MatchingInv, TypeOK, ProjectRow, BothAligned, RequestOK
  <1>6. Issued'
    BY <1>1, MatchingAssumption
    DEF WithdrawCommit, InsertBid, MatchingInv, TypeOK, Issued, Request, RequestOK, BidRow, BidId
  <1>7. MatchIsWhole'
    BY <1>1, <1>4, MatchingAssumption
    DEF WithdrawCommit, InsertBid, MatchingInv, TypeOK, Issued, Request, RequestOK, BidRow,
        BidId, ProjectRow, MatchIsWhole
  <1>8. AlignedByBoth' /\ EngagedIsPriced'
    BY <1>1, MatchingAssumption
    DEF WithdrawCommit, MatchingInv, TypeOK, ProjectRow, RequestOK,
        AlignedByBoth, EngagedIsPriced, BothAligned
  <1> QED
    BY <1>2, <1>3, <1>5, <1>6, <1>7, <1>8 DEF MatchingInv, TypeOK

\* RejectBid and CancelMatch clear provider and bid together.
LEMMA ResetCommitInv ==
    ASSUME MatchingInv, NEW h \in Handler, ResetCommit(h) PROVE MatchingInv'
  <1>1. RequestOK(req[h]) /\ req[h] \in Request
    BY DEF MatchingInv, TypeOK, InFlight
  <1>2. project' \in ProjectRow
    BY <1>1 DEF ResetCommit, MatchingInv, TypeOK, ProjectRow, Request, RequestOK, BidRow
  <1>3. bids' \in [BidId -> BidRow] /\ lastBid' \in 0 .. MaxBids
    <2>1. bids[req[h].bid] \in BidRow
      BY <1>1 DEF ResetCommit, MatchingInv, TypeOK, RequestOK
    <2>2. [bids[req[h].bid] EXCEPT !.status = Rejected] \in BidRow
      BY <2>1 DEF BidRow
    <2> QED
      BY <2>2 DEF ResetCommit, MatchingInv, TypeOK
  <1>4. \A b \in BidId : bids[b].status # Absent =>
            bids'[b].status # Absent /\ bids'[b].bidder = bids[b].bidder
    BY <1>1, MatchingAssumption
    DEF ResetCommit, InsertBid, MatchingInv, TypeOK, Issued, Request, RequestOK, BidRow, BidId
  <1>5. InFlight' /\ req' \in [Handler -> Request]
    BY <1>1, <1>4, FinishInFlight
    DEF ResetCommit, MatchingInv, TypeOK, ProjectRow, BothAligned, RequestOK
  <1>6. Issued'
    BY <1>1, MatchingAssumption
    DEF ResetCommit, InsertBid, MatchingInv, TypeOK, Issued, Request, RequestOK, BidRow, BidId
  <1>7. MatchIsWhole'
    BY <1>1, <1>4, MatchingAssumption
    DEF ResetCommit, InsertBid, MatchingInv, TypeOK, Issued, Request, RequestOK, BidRow,
        BidId, ProjectRow, MatchIsWhole
  <1>8. AlignedByBoth' /\ EngagedIsPriced'
    BY <1>1, MatchingAssumption
    DEF ResetCommit, MatchingInv, TypeOK, ProjectRow, RequestOK,
        AlignedByBoth, EngagedIsPriced, BothAligned
  <1> QED
    BY <1>2, <1>3, <1>5, <1>6, <1>7, <1>8 DEF MatchingInv, TypeOK

\* Accept saves the row it read: bidder and price are still those of the bid.
LEMMA AcceptCommitInv ==
    ASSUME MatchingInv, NEW h \in Handler, AcceptCommit(h) PROVE MatchingInv'
  <1>1. RequestOK(req[h]) /\ req[h] \in Request
    BY DEF MatchingInv, TypeOK, InFlight
  <1>2. project' \in ProjectRow
    BY <1>1 DEF AcceptCommit, MatchingInv, TypeOK, ProjectRow, Request, RequestOK, BidRow
  <1>3. bids' \in [BidId -> BidRow] /\ lastBid' \in 0 .. MaxBids
    <2>1. [req[h].row EXCEPT !.status = Accepted] \in BidRow
      BY <1>1 DEF Request, BidRow
    <2> QED
      BY <2>1 DEF AcceptCommit, MatchingInv, TypeOK
  <1>4. \A b \in BidId : bids[b].status # Absent =>
            bids'[b].status # Absent /\ bids'[b].bidder = bids[b].bidder
    BY <1>1, MatchingAssumption
    DEF AcceptCommit, InsertBid, MatchingInv, TypeOK, Issued, Request, RequestOK, BidRow, BidId
  <1>5. InFlight' /\ req' \in [Handler -> Request]
    <2>1. /\ project'.agreedPrice # None
          /\ BothAligned => BothAligned'
      BY <1>1, MatchingAssumption
      DEF AcceptCommit, MatchingInv, TypeOK, ProjectRow, BothAligned, RequestOK
    <2> QED
      BY <2>1, <1>4, FinishInFlight DEF AcceptCommit
  <1>6. Issued'
    BY <1>1, MatchingAssumption
    DEF AcceptCommit, InsertBid, MatchingInv, TypeOK, Issued, Request, RequestOK, BidRow, BidId
  <1>7. MatchIsWhole'
    BY <1>1, <1>4, MatchingAssumption
    DEF AcceptCommit, InsertBid, MatchingInv, TypeOK, Issued, Request, RequestOK, BidRow,
        BidId, ProjectRow, MatchIsWhole
  <1>8. AlignedByBoth' /\ EngagedIsPriced'
    BY <1>1, MatchingAssumption
    DEF AcceptCommit, MatchingInv, TypeOK, ProjectRow, RequestOK,
        AlignedByBoth, EngagedIsPriced, BothAligned
  <1> QED
    BY <1>2, <1>3, <1>5, <1>6, <1>7, <1>8 DEF MatchingInv, TypeOK

\* A new bid takes a key no handler can know.
LEMMA CreateCommitInv ==
    ASSUME MatchingInv, NEW h \in Handler, CreateCommit(h) PROVE MatchingInv'
  <1>1. RequestOK(req[h]) /\ req[h] \in Request
    BY DEF MatchingInv, TypeOK, InFlight
  <1>2. project' \in ProjectRow
    BY <1>1 DEF CreateCommit, MatchingInv, TypeOK, ProjectRow, Request, RequestOK, BidRow
  <1>3. bids' \in [BidId -> BidRow] /\ lastBid' \in 0 .. MaxBids
    BY <1>1, MatchingAssumption
    DEF CreateCommit, InsertBid, MatchingInv, TypeOK, Request, RequestOK, BidRow, BidId
  <1>4. \A b \in BidId : bids[b].status # Absent =>
            bids'[b].status # Absent /\ bids'[b].bidder = bids[b].bidder
    BY <1>1, MatchingAssumption
    DEF CreateCommit, InsertBid, MatchingInv, TypeOK, Issued, Request, RequestOK, BidRow, BidId
  <1>5. InFlight' /\ req' \in [Handler -> Request]
    <2>1. /\ project.agreedPrice # None => project'.agreedPrice # None
          /\ BothAligned => BothAligned'
      BY DEF CreateCommit, MatchingInv, TypeOK, ProjectRow, BothAligned
    <2> QED
      BY <2>1, <1>4, FinishInFlight DEF CreateCommit
  <1>6. Issued'
    BY <1>1, MatchingAssumption
    DEF CreateCommit, InsertBid, MatchingInv, TypeOK, Issued, Request, RequestOK, BidRow, BidId
  <1>7. MatchIsWhole'
    BY <1>1, <1>4, MatchingAssumption
    DEF CreateCommit, InsertBid, MatchingInv, TypeOK, Issued, Request, RequestOK, BidRow,
        BidId, ProjectRow, MatchIsWhole
  <1>8. AlignedByBoth' /\ EngagedIsPriced'
    BY <1>1, MatchingAssumption
    DEF CreateCommit, MatchingInv, TypeOK, ProjectRow, RequestOK,
        AlignedByBoth, EngagedIsPriced, BothAligned
  <1> QED
    BY <1>2, <1>3, <1>5, <1>6, <1>7, <1>8 DEF MatchingInv, TypeOK


\* So does a new recommendation.
LEMMA QuickInsertInv ==
    ASSUME MatchingInv, NEW h \in Handler, QuickInsert(h) PROVE MatchingInv'
  <1> DEFINE r == [req[h] EXCEPT !.at = "quickCount"]
  <1>1. RequestOK(req[h]) /\ req[h] \in Request
    BY DEF MatchingInv, TypeOK, InFlight
  <1>2. r \in Request /\ RequestOK(r)'
    BY <1>1 DEF Request, Stage, RequestOK
  <1>3. req' = [req EXCEPT ![h] = r] /\ req' \in [Handler -> Request]
    BY <1>2 DEF QuickInsert, MatchingInv, TypeOK
  <1>4. bids' \in [BidId -> BidRow] /\ lastBid' \in 0 .. MaxBids
    BY <1>1, MatchingAssumption
    DEF QuickInsert, InsertBid, MatchingInv, TypeOK, Request, BidId
  <1>5. \A b \in BidId : bids[b].status # Absent =>
            bids'[b].status # Absent /\ bids'[b].bidder = bids[b].bidder
    BY <1>1, MatchingAssumption
    DEF QuickInsert, InsertBid, MatchingInv, TypeOK, Issued, BidId
  <1>6. InFlight'
    BY <1>2, <1>3, <1>5, StillInFlight DEF QuickInsert, BothAligned
  <1>7. Issued'
    BY <1>1, MatchingAssumption
    DEF QuickInsert, InsertBid, MatchingInv, TypeOK, Issued, RequestOK, BidRow, BidId
  <1>8. MatchIsWhole'
    BY <1>1, <1>5, MatchingAssumption
    DEF QuickInsert, InsertBid, MatchingInv, TypeOK, Issued, RequestOK, BidRow,
        BidId, ProjectRow, MatchIsWhole
  <1> QED
    BY <1>3, <1>4, <1>6, <1>7, <1>8
    DEF QuickInsert, MatchingInv, TypeOK, AlignedByBoth, EngagedIsPriced, BothAligned

\* A confirmation sets a flag and clears none.
LEMMA AlignMarkInv ==
    ASSUME MatchingInv, NEW h \in Handler, AlignMark(h) PROVE MatchingInv'
  <1> DEFINE r == [req[h] EXCEPT !.at = "alignReread"]
  <1>1. RequestOK(req[h]) /\ req[h] \in Request
    BY DEF MatchingInv, TypeOK, InFlight
  <1>2. \/ project' = [project EXCEPT !.ownerAligned = TRUE]
        \/ project' = [project EXCEPT !.providerAligned = TRUE]
    BY DEF AlignMark
  <1>3. /\ project' \in ProjectRow
        /\ project'.agreedPrice = project.agreedPrice
        /\ project'.status = project.status
        /\ project'.provider = project.provider
        /\ project'.bid = project.bid
        /\ BothAligned => BothAligned'
    BY <1>2 DEF MatchingInv, TypeOK, ProjectRow, BothAligned
  <1>4. r \in Request /\ RequestOK(r)'
    BY <1>1, <1>3 DEF AlignMark, Request, Stage, RequestOK
  <1>5. req' = [req EXCEPT ![h] = r] /\ req' \in [Handler -> Request]
    BY <1>4 DEF AlignMark, MatchingInv, TypeOK
  <1>6. InFlight'
    BY <1>3, <1>4, <1>5, StillInFlight DEF AlignMark
  <1> QED
    BY <1>3, <1>5, <1>6
    DEF AlignMark, MatchingInv, TypeOK, Issued, MatchIsWhole, AlignedByBoth, EngagedIsPriced

\* The steps that only change what the handler knows.
LEMMA ThinkInv ==
    ASSUME MatchingInv, NEW h \in Handler,
           \/ ConfirmAccept(h) \/ WithdrawCount(h) \/ QuickFind(h)
           \/ AlignReread(h) \/ Drop(h)
    PROVE  MatchingInv'
  <1>1. RequestOK(req[h]) /\ req[h] \in Request
    BY DEF MatchingInv, TypeOK, InFlight
  <1>2. ASSUME Finish(h), UNCHANGED <<project, bids, lastBid>> PROVE MatchingInv'
    BY <1>2, RowTypes, ReadStep DEF Finish
  <1>3. CASE ConfirmAccept(h)
    <2>1. CASE bids[req[h].bid].status = Pending
      <3> DEFINE r == [req[h] EXCEPT !.at = "accept", !.row = bids[req[h].bid]]
      <3>1. r \in Request
        BY <1>1, <1>3 DEF ConfirmAccept, MatchingInv, TypeOK, Request, Stage, RequestOK
      <3>2. RequestOK(r)
        BY <1>1, <1>3 DEF ConfirmAccept, MatchingInv, TypeOK, Issued, Request, RequestOK
      <3>3. req' = [req EXCEPT ![h] = r]
        BY <1>3, <2>1 DEF ConfirmAccept, MatchingInv, TypeOK
      <3> QED
        BY <1>3, <3>1, <3>2, <3>3, ReadStep DEF ConfirmAccept
    <2>2. CASE bids[req[h].bid].status # Pending
      BY <1>2, <1>3, <2>2 DEF ConfirmAccept
    <2> QED
      BY <2>1, <2>2
  <1>4. CASE WithdrawCount(h)
    <2> DEFINE r == [req[h] EXCEPT !.at = "withdraw", !.count = project.bidCount]
    <2>1. r \in Request /\ RequestOK(r)
      BY <1>1, <1>4 DEF WithdrawCount, MatchingInv, TypeOK, Request, Stage, RequestOK, ProjectRow
    <2>2. req' = [req EXCEPT ![h] = r]
      BY <1>4 DEF WithdrawCount, MatchingInv, TypeOK
    <2> QED
      BY <1>4, <2>1, <2>2, ReadStep DEF WithdrawCount
  <1>5. CASE QuickFind(h)
    <2>1. CASE Finish(h)
      BY <1>2, <1>5, <2>1 DEF QuickFind
    <2>2. CASE req' = [req EXCEPT ![h].at = "quickInsert"]
      <3> DEFINE r == [req[h] EXCEPT !.at = "quickInsert"]
      <3>1. r \in Request /\ RequestOK(r)
        BY <1>1, <1>5 DEF QuickFind, Request, Stage, RequestOK
      <3>2. req' = [req EXCEPT ![h] = r]
        BY <2>2 DEF MatchingInv, TypeOK
      <3> QED
        BY <1>5, <3>1, <3>2, ReadStep DEF QuickFind
    <2>3. ASSUME NEW b \in PendingOf(req[h].row.bidder),
                 req' = [req EXCEPT ![h].at = "quickRetag", ![h].bid = b]
          PROVE  MatchingInv'
      <3> DEFINE r == [req[h] EXCEPT !.at = "quickRetag", !.bid = b]
      <3>1. r \in Request
        BY <1>1, <2>3 DEF PendingOf, Request, Stage
      <3>2. RequestOK(r)
        BY <1>1, <2>3 DEF PendingOf, Request, RequestOK
      <3>3. req' = [req EXCEPT ![h] = r]
        BY <2>3 DEF MatchingInv, TypeOK
      <3> QED
        BY <1>5, <3>1, <3>2, <3>3, ReadStep DEF QuickFind
    <2> QED
      BY <1>5, <2>1, <2>2, <2>3 DEF QuickFind
  <1>6. CASE AlignReread(h)
    <2>1. CASE BothAligned
      <3> DEFINE r == [req[h] EXCEPT !.at = "alignAdvance"]
      <3>1. r \in Request /\ RequestOK(r)
        BY <1>1, <1>6, <2>1 DEF AlignReread, Request, Stage, RequestOK
      <3>2. req' = [req EXCEPT ![h] = r]
        BY <1>6, <2>1 DEF AlignReread, MatchingInv, TypeOK
      <3> QED
        BY <1>6, <3>1, <3>2, ReadStep DEF AlignReread
    <2>2. CASE ~BothAligned
      BY <1>2, <1>6, <2>2 DEF AlignReread
    <2> QED
      BY <2>1, <2>2
  <1>7. CASE Drop(h)
    BY <1>2, <1>7 DEF Drop
  <1> QED
    BY <1>3, <1>4, <1>5, <1>6, <1>7

\* The invariant holds initially.
LEMMA InitInv == Init => MatchingInv
  <1> SUFFICES ASSUME Init PROVE MatchingInv
    OBVIOUS
  <1>1. TypeOK
    <2>1. project \in ProjectRow
      <3>1. PICK s \in {Draft, Published} :
              project = [status |-> s, provider |-> None, bid |-> None, team |-> None,
                         agreedPrice |-> None, ownerAligned |-> FALSE,
                         providerAligned |-> FALSE, bidCount |-> 0]
        BY DEF Init
      <3> QED
        BY <3>1 DEF ProjectRow
    <2> QED
      BY <2>1, RowTypes, MatchingAssumption DEF Init, TypeOK
  <1>2. Issued /\ MatchIsWhole /\ AlignedByBoth /\ EngagedIsPriced
    BY MatchingAssumption
    DEF Init, Issued, NoRow, BidId, MatchIsWhole, AlignedByBoth, EngagedIsPriced
  <1>3. InFlight
    BY RowTypes DEF Init, InFlight
  <1> QED
    BY <1>1, <1>2, <1>3 DEF MatchingInv

\* Every step keeps it.
LEMMA StepInv == MatchingInv /\ [Next]_vars => MatchingInv'
  <1> SUFFICES ASSUME MatchingInv, [Next]_vars PROVE MatchingInv'
    OBVIOUS
  <1>1. ASSUME NEW h \in Handler, Serve(h) PROVE MatchingInv'
    BY <1>1, CreateCommitInv, AcceptCommitInv, ResetCommitInv, QuoteCommitInv,
       WithdrawCommitInv, QuickInsertInv, QuickCountInv, QuickRetagInv,
       PublishCommitInv, AlignMarkInv, AlignAdvanceInv, StartCommitInv,
       CloseCommitInv, ThinkInv
    DEF Serve
  <1>2. CASE UNCHANGED vars
    BY <1>2 DEF vars, MatchingInv, TypeOK, Issued, InFlight, RequestOK,
       MatchIsWhole, AlignedByBoth, EngagedIsPriced, BothAligned
  <1> QED
    BY <1>1, <1>2, ArriveInv, ThinkInv DEF Next

\* MatchingInv is an invariant: types, key order, and what each handler knows.
THEOREM MatchingInvariant == Spec => []MatchingInv
  BY InitInv, StepInv, PTL DEF Spec

\* Every variable keeps its type; bid_count, read and written back by several
\* requests at once, never goes below zero.
THEOREM TypeCorrect == Spec => []TypeOK
  BY MatchingInvariant, PTL DEF MatchingInv

\* provider_id and bid_id of the project always belong to the same match.
THEOREM MatchStaysWhole == Spec => []MatchIsWhole
  BY MatchingInvariant, PTL DEF MatchingInv

\* No interleaving of requests takes a project to alignment or to work with
\* only one party's confirmation recorded.
THEOREM NoOneSidedAlignment == Spec => []AlignedByBoth
  BY MatchingInvariant, PTL DEF MatchingInv

\* Every engaged project has an agreed price.
THEOREM EngagedStaysPriced == Spec => []EngagedIsPriced
  BY MatchingInvariant, PTL DEF MatchingInv

\* Only an insertion writes the status "pending", and it writes a new key.
LEMMA NoReopenStep ==
    ASSUME MatchingInv, [Next]_vars, NEW b \in BidId,
           bids[b].status \in {Accepted, Rejected, Withdrawn}
    PROVE  bids'[b].status # Pending
  <1>1. ASSUME NEW h \in Handler, CreateCommit(h) \/ QuickInsert(h)
        PROVE  bids'[b].status # Pending
    <2>1. b # lastBid + 1
      BY DEF MatchingInv, TypeOK, Issued, BidId
    <2> QED
      BY <1>1, <2>1 DEF CreateCommit, QuickInsert, InsertBid, MatchingInv, TypeOK
  <1>2. ASSUME NEW h \in Handler,
               \/ AcceptCommit(h) \/ ResetCommit(h) \/ QuoteCommit(h)
               \/ WithdrawCommit(h) \/ QuickRetag(h)
        PROVE  bids'[b].status # Pending
    <2>1. req[h] \in Request /\ bids[b] \in BidRow
      BY DEF MatchingInv, TypeOK
    <2> QED
      BY <1>2, <2>1
      DEF AcceptCommit, ResetCommit, QuoteCommit, WithdrawCommit, QuickRetag,
          MatchingInv, TypeOK, BidRow, Request
  <1>3. ASSUME UNCHANGED bids PROVE bids'[b].status # Pending
    BY <1>3
  <1>4. ASSUME NEW h \in Handler, Arrive(h) PROVE UNCHANGED bids
    BY <1>4
    DEF Arrive, CreateRead, AcceptRead, ConfirmRead, RejectRead, CancelRead,
        WithdrawRead, QuoteRead, QuickRead, AlignRead, PublishRead, StartRead, CloseRead
  <1>5. ASSUME NEW h \in Handler,
               \/ ConfirmAccept(h) \/ WithdrawCount(h) \/ QuickFind(h)
               \/ QuickCount(h) \/ PublishCommit(h) \/ AlignMark(h) \/ AlignReread(h)
               \/ AlignAdvance(h) \/ StartCommit(h) \/ CloseCommit(h) \/ Drop(h)
        PROVE  UNCHANGED bids
    BY <1>5
    DEF ConfirmAccept, WithdrawCount, QuickFind, QuickCount, PublishCommit, AlignMark,
        AlignReread, AlignAdvance, StartCommit, CloseCommit, Drop
  <1>6. UNCHANGED vars => UNCHANGED bids
    BY DEF vars
  <1> QED
    BY <1>1, <1>2, <1>3, <1>4, <1>5, <1>6 DEF Next, Serve

\* A bid that was decided is never pending again.
THEOREM NoBidReopens == Spec => NeverPendingAgain
  <1>1. MatchingInv /\ [Next]_vars
          => [\A b \in BidId : bids[b].status \in {Accepted, Rejected, Withdrawn}
                                => bids'[b].status # Pending]_vars
    BY NoReopenStep
  <1> QED
    BY <1>1, MatchingInvariant, PTL DEF Spec, NeverPendingAgain

\* Only Accept's and the reset's commit change the match, and they change it as
\* Engagement does: the price a handler accepts with was read from a bid.
LEMMA EngagementStep ==
    ASSUME MatchingInv, [Next]_vars
    PROVE  [Engaged!Next]_<<project.provider, project.agreedPrice>>
  <1> USE DEF MatchingInv, TypeOK
  <1>1. ASSUME NEW h \in Handler, AcceptCommit(h) PROVE Engaged!Engage
    <2>1. req[h].row.bidder \in Provider /\ req[h].row.price \in Price
      BY <1>1 DEF AcceptCommit, InFlight, RequestOK, Issued
    <2>2. project'.provider = req[h].row.bidder /\ project'.agreedPrice = req[h].row.price
      BY <1>1 DEF AcceptCommit, ProjectRow
    <2> QED
      BY <2>1, <2>2 DEF Engaged!Engage
  <1>2. ASSUME NEW h \in Handler, ResetCommit(h) PROVE Engaged!Dissolve
    BY <1>2 DEF ResetCommit, ProjectRow, Engaged!Dissolve
  <1>3. ASSUME NEW h \in Handler,
               \/ CreateCommit(h) \/ QuoteCommit(h) \/ WithdrawCommit(h)
               \/ QuickInsert(h) \/ QuickCount(h) \/ QuickRetag(h)
               \/ PublishCommit(h) \/ AlignMark(h) \/ AlignAdvance(h)
               \/ StartCommit(h) \/ CloseCommit(h)
        PROVE  UNCHANGED <<project.provider, project.agreedPrice>>
    BY <1>3
    DEF CreateCommit, QuoteCommit, WithdrawCommit, QuickInsert, QuickCount,
        QuickRetag, PublishCommit, AlignMark, AlignAdvance, StartCommit, CloseCommit,
        ProjectRow
  <1>4. ASSUME NEW h \in Handler,
               \/ Arrive(h) \/ ConfirmAccept(h) \/ WithdrawCount(h) \/ QuickFind(h)
               \/ AlignReread(h) \/ Drop(h)
        PROVE  UNCHANGED project
    BY <1>4
    DEF Arrive, CreateRead, AcceptRead, ConfirmRead, RejectRead, CancelRead,
        WithdrawRead, QuoteRead, QuickRead, AlignRead, PublishRead, StartRead,
        CloseRead, ConfirmAccept, WithdrawCount, QuickFind, AlignReread, Drop
  <1>5. UNCHANGED vars => UNCHANGED project
    BY DEF vars
  <1> QED
    BY <1>1, <1>2, <1>3, <1>4, <1>5 DEF Next, Serve, Engaged!Next

\* Whatever requests do to each other, the project's match evolves as
\* Engagement says: BidMatching implements it.
THEOREM MatchingImplementsEngagement == Spec => ImplementsEngagement
  <1>1. Init => Engaged!Init
    BY DEF Init, Engaged!Init
  <1>2. MatchingInv /\ [Next]_vars
          => [Engaged!Next]_<<project.provider, project.agreedPrice>>
    BY EngagementStep
  <1> QED
    BY <1>1, <1>2, MatchingInvariant, PTL DEF Spec, ImplementsEngagement, Engaged!Spec

-----------------------------------------------------------------------------
(***************************************************************************)
(* Theorems about BidMatching for behaviours in which requests do not      *)
(* overlap, whatever the number of handlers, providers, prices and bids,   *)
(* and whichever requests die half way: the code checks rows it does not   *)
(* lock, and this is what those checks are good for.                       *)
(*                                                                         *)
(* The argument: while a handler is busy, nobody writes but it.  What it   *)
(* has read is still true when it writes (Fresh), so each write is made    *)
(* under the conditions the code checked (SerialInv).                      *)
(***************************************************************************)

Busy(h) == req[h].at # "idle"

\* No two requests overlap.
OneAtATime == \A g, h \in Handler : Busy(g) /\ Busy(h) => g = h

\* What a handler has read is what the database holds.
Fresh(r) ==
    /\ r.at \in {"confirm", "accept", "reset", "quote", "withdrawCount",
                 "withdraw", "quickRetag"} => bids[r.bid].status = Pending
    /\ r.at = "accept" => r.row = bids[r.bid]
    /\ r.at = "create" => ~r.row.ai
    /\ r.at \in {"create", "withdraw", "quickFind", "quickInsert"} => r.count = project.bidCount
    /\ r.at = "quickInsert" => PendingOf(r.row.bidder) = {}
    /\ r.at = "quickCount" => r.count + 1 <= Cardinality(LiveBids)
    /\ r.at = "publish" => project.status = Draft
    /\ r.at \in {"alignMark", "alignReread", "alignAdvance"} => project.status = Matched
    /\ r.at = "start" => project.status = Aligning
    /\ r.at = "close" => project.status \in {Draft, Published}

\* The matched statuses are those of a project with a provider.
EngagedHasProvider ==
    project.status \in {Matched, Aligning, InProgress} => project.provider # None

\* The inductive invariant of behaviours in which requests do not overlap.
SerialInv ==
    /\ \A h \in Handler : Fresh(req[h])
    /\ EngagedHasProvider
    /\ MatchedBidAccepted
    /\ OneRecommendation
    /\ BidCountAtMost

-----------------------------------------------------------------------------
\* Sets of bids are finite.
LEMMA BidsFinite ==
    ASSUME NEW S \in SUBSET BidId
    PROVE  IsFiniteSet(S) /\ Cardinality(S) \in Nat
  <1>1. IsFiniteSet(1 .. MaxBids)
    BY FS_Interval, MatchingAssumption
  <1> QED
    BY <1>1, FS_Subset, FS_CardinalityType DEF BidId

\* A new pending bid is one live bid more.
LEMMA InsertLive ==
    ASSUME MatchingInv, NEW row \in BidRow, row.status = Pending, InsertBid(row)
    PROVE  /\ Cardinality(LiveBids') = Cardinality(LiveBids) + 1
           /\ \A b \in BidId : IF b = lastBid + 1 THEN bids[b].status = Absent /\ bids'[b] = row
                                                 ELSE bids'[b] = bids[b]
  <1>1. lastBid + 1 \in BidId /\ bids[lastBid + 1].status = Absent
    BY MatchingAssumption DEF MatchingInv, TypeOK, Issued, InsertBid, BidId
  <1>2. \A b \in BidId : bids'[b] = IF b = lastBid + 1 THEN row ELSE bids[b]
    BY <1>1 DEF MatchingInv, TypeOK, InsertBid
  <1>3. LiveBids' = LiveBids \cup {lastBid + 1} /\ lastBid + 1 \notin LiveBids
    <2>1. \A b \in BidId : bids'[b].status =
              IF b = lastBid + 1 THEN Pending ELSE bids[b].status
      BY <1>2
    <2> QED
      BY <1>1, <2>1 DEF LiveBids
  <1>4. IsFiniteSet(LiveBids)
    BY BidsFinite DEF LiveBids
  <1> QED
    BY <1>1, <1>2, <1>3, <1>4, FS_AddElement

\* While a handler is busy the others know nothing that could become false.
LEMMA OthersFresh ==
    ASSUME MatchingInv, OneAtATime, NEW h \in Handler, Busy(h),
           NEW r, req' = [req EXCEPT ![h] = r], Fresh(r)'
    PROVE  \A g \in Handler : Fresh(req[g])'
  <1> SUFFICES ASSUME NEW g \in Handler PROVE Fresh(req[g])'
    OBVIOUS
  <1>1. CASE g = h
    BY <1>1 DEF MatchingInv, TypeOK
  <1>2. CASE g # h
    <2>1. req'[g].at = "idle"
      BY <1>2 DEF MatchingInv, TypeOK, OneAtATime, Busy
    <2> QED
      BY <2>1 DEF Fresh
  <1> QED
    BY <1>1, <1>2

LEMMA FinishFresh ==
    ASSUME MatchingInv, OneAtATime, NEW h \in Handler, Busy(h), Finish(h)
    PROVE  \A g \in Handler : Fresh(req[g])'
  <1>1. Fresh(Idle)'
    BY DEF Idle, Fresh
  <1> QED
    BY <1>1, OthersFresh DEF Finish

\* A step of one handler that leaves the database alone, from what is fresh to
\* what is fresh.
LEMMA QuietStep ==
    ASSUME MatchingInv, SerialInv, NEW h \in Handler, NEW r,
           req' = [req EXCEPT ![h] = r], UNCHANGED <<project, bids, lastBid>>, Fresh(r)
    PROVE  SerialInv'
  <1>1. ASSUME NEW g \in Handler PROVE Fresh(req[g])'
    <2>1. req'[g] = r \/ req'[g] = req[g]
      BY DEF MatchingInv, TypeOK
    <2>2. Fresh(r)' /\ (req'[g] = req[g] => Fresh(req[g])')
      BY DEF SerialInv, Fresh, PendingOf, LiveBids
    <2>3. CASE req'[g] = r
      BY <2>2, <2>3 DEF Fresh
    <2> QED
      BY <2>1, <2>2, <2>3
  <1>2. EngagedHasProvider' /\ MatchedBidAccepted' /\ OneRecommendation' /\ BidCountAtMost'
    BY DEF SerialInv, EngagedHasProvider, MatchedBidAccepted, OneRecommendation, BidCountAtMost, LiveBids
  <1> QED
    BY <1>1, <1>2 DEF SerialInv

\* What a call reads is fresh.
LEMMA ArriveSerial ==
    ASSUME MatchingInv, SerialInv, NEW h \in Handler, Arrive(h) PROVE SerialInv'
  <1>1. ASSUME NEW p \in Provider, NEW t \in Team \cup {None}, NEW x \in Price, CreateRead(h, p, t, x) PROVE SerialInv'
    <2> DEFINE r == [Idle EXCEPT !.at = "create", !.row = NewBid(p, t, x, FALSE), !.count = project.bidCount]
    <2>1. Fresh(r)
      BY <1>1 DEF CreateRead, Fresh, Idle, NewBid
    <2> QED
      BY <1>1, <2>1, QuietStep DEF CreateRead, Begin
  <1>2. ASSUME NEW b \in BidId, AcceptRead(h, b) PROVE SerialInv'
    <2> DEFINE r == [Idle EXCEPT !.at = "accept", !.bid = b, !.row = bids[b]]
    <2>1. Fresh(r)
      BY <1>2 DEF AcceptRead, Fresh, Idle
    <2> QED
      BY <1>2, <2>1, QuietStep DEF AcceptRead, Begin
  <1>3. ASSUME NEW b \in BidId, ConfirmRead(h, b) PROVE SerialInv'
    <2> DEFINE r == [Idle EXCEPT !.at = "confirm", !.bid = b]
    <2>1. Fresh(r)
      BY <1>3 DEF ConfirmRead, Fresh, Idle
    <2> QED
      BY <1>3, <2>1, QuietStep DEF ConfirmRead, Begin
  <1>4. ASSUME NEW b \in BidId, RejectRead(h, b) PROVE SerialInv'
    <2> DEFINE r == [Idle EXCEPT !.at = "reset", !.bid = b]
    <2>1. Fresh(r)
      BY <1>4 DEF RejectRead, Fresh, Idle
    <2> QED
      BY <1>4, <2>1, QuietStep DEF RejectRead, Begin
  <1>5. ASSUME NEW b \in BidId, CancelRead(h, b) PROVE SerialInv'
    <2> DEFINE r == [Idle EXCEPT !.at = "reset", !.bid = b]
    <2>1. Fresh(r)
      BY <1>5 DEF CancelRead, Fresh, Idle
    <2> QED
      BY <1>5, <2>1, QuietStep DEF CancelRead, Begin
  <1>6. ASSUME NEW b \in BidId, WithdrawRead(h, b) PROVE SerialInv'
    <2> DEFINE r == [Idle EXCEPT !.at = "withdrawCount", !.bid = b]
    <2>1. Fresh(r)
      BY <1>6 DEF WithdrawRead, Fresh, Idle
    <2> QED
      BY <1>6, <2>1, QuietStep DEF WithdrawRead, Begin
  <1>7. ASSUME NEW b \in BidId, NEW x \in Price, QuoteRead(h, b, x) PROVE SerialInv'
    <2> DEFINE r == [Idle EXCEPT !.at = "quote", !.bid = b, !.row.price = x]
    <2>1. Fresh(r)
      BY <1>7 DEF QuoteRead, Fresh, Idle
    <2> QED
      BY <1>7, <2>1, QuietStep DEF QuoteRead, Begin
  <1>8. ASSUME NEW p \in Provider, NEW t \in Team, QuickRead(h, p, t) PROVE SerialInv'
    <2> DEFINE r == [Idle EXCEPT !.at = "quickFind", !.count = project.bidCount,
                            !.row = NewBid(p, t, QuickPrice, TRUE)]
    <2>1. Fresh(r)
      BY <1>8 DEF QuickRead, Fresh, Idle, NewBid
    <2> QED
      BY <1>8, <2>1, QuietStep DEF QuickRead, Begin
  <1>9. ASSUME NEW u \in User, AlignRead(h, u) PROVE SerialInv'
    <2> DEFINE r == [Idle EXCEPT !.at = "alignMark", !.user = u]
    <2>1. Fresh(r)
      BY <1>9 DEF AlignRead, Fresh, Idle
    <2> QED
      BY <1>9, <2>1, QuietStep DEF AlignRead, Begin
  <1>10. ASSUME PublishRead(h) PROVE SerialInv'
    <2> DEFINE r == [Idle EXCEPT !.at = "publish"]
    <2>1. Fresh(r)
      BY <1>10 DEF PublishRead, Fresh, Idle
    <2> QED
      BY <1>10, <2>1, QuietStep DEF PublishRead, Begin
  <1>11. ASSUME StartRead(h) PROVE SerialInv'
    <2> DEFINE r == [Idle EXCEPT !.at = "start"]
    <2>1. Fresh(r)
      BY <1>11 DEF StartRead, Fresh, Idle
    <2> QED
      BY <1>11, <2>1, QuietStep DEF StartRead, Begin
  <1>12. ASSUME CloseRead(h) PROVE SerialInv'
    <2> DEFINE r == [Idle EXCEPT !.at = "close"]
    <2>1. Fresh(r)
      BY <1>12 DEF CloseRead, Fresh, Idle, MatchingInv, TypeOK, ProjectRow
    <2> QED
      BY <1>12, <2>1, QuietStep DEF CloseRead, Begin
  <1> QED
    BY <1>1, <1>2, <1>3, <1>4, <1>5, <1>6, <1>7, <1>8, <1>9, <1>10, <1>11, <1>12 DEF Arrive

\* A request that ends without a write leaves nothing to be wrong about.
LEMMA EndSerial ==
    ASSUME MatchingInv, SerialInv, NEW h \in Handler, Finish(h),
           UNCHANGED <<project, bids, lastBid>>
    PROVE  SerialInv'
  <1>1. Fresh(Idle)
    BY DEF Idle, Fresh
  <1> QED
    BY <1>1, QuietStep DEF Finish

\* What a handler reads in the middle of a request is fresh as well.
LEMMA ThinkSerial ==
    ASSUME MatchingInv, SerialInv, NEW h \in Handler,
           \/ ConfirmAccept(h) \/ WithdrawCount(h) \/ QuickFind(h) \/ AlignReread(h) \/ Drop(h)
    PROVE  SerialInv'
  <1> USE DEF MatchingInv, TypeOK, Request
  <1>1. Fresh(req[h]) /\ req[h] \in Request
    BY DEF SerialInv
  <1>2. ASSUME ConfirmAccept(h) PROVE SerialInv'
    <2>1. CASE bids[req[h].bid].status = Pending
      <3> DEFINE r == [req[h] EXCEPT !.at = "accept", !.row = bids[req[h].bid]]
      <3>1. Fresh(r)
        BY <1>1, <1>2, <2>1 DEF Fresh
      <3>2. req' = [req EXCEPT ![h] = r]
        BY <1>2, <2>1 DEF ConfirmAccept
      <3> QED
        BY <1>2, <3>1, <3>2, QuietStep DEF ConfirmAccept
    <2> QED
      BY <1>2, <2>1, EndSerial DEF ConfirmAccept
  <1>3. ASSUME WithdrawCount(h) PROVE SerialInv'
    <2> DEFINE r == [req[h] EXCEPT !.at = "withdraw", !.count = project.bidCount]
    <2>1. Fresh(r)
      BY <1>1, <1>3 DEF WithdrawCount, Fresh
    <2> QED
      BY <1>3, <2>1, QuietStep DEF WithdrawCount
  <1>4. ASSUME QuickFind(h) PROVE SerialInv'
    <2>1. ASSUME PendingOf(req[h].row.bidder) = {},
                 req' = [req EXCEPT ![h].at = "quickInsert"]
          PROVE  SerialInv'
      <3> DEFINE r == [req[h] EXCEPT !.at = "quickInsert"]
      <3>1. Fresh(r)
        BY <1>1, <1>4, <2>1 DEF QuickFind, Fresh
      <3> QED
        BY <1>4, <2>1, <3>1, QuietStep DEF QuickFind
    <2>2. ASSUME NEW b \in PendingOf(req[h].row.bidder),
                 req' = [req EXCEPT ![h].at = "quickRetag", ![h].bid = b]
          PROVE  SerialInv'
      <3> DEFINE r == [req[h] EXCEPT !.at = "quickRetag", !.bid = b]
      <3>1. Fresh(r)
        BY <1>1 DEF Fresh, PendingOf
      <3>2. req' = [req EXCEPT ![h] = r] /\ UNCHANGED <<project, bids, lastBid>>
        BY <1>4, <2>2 DEF QuickFind
      <3> HIDE DEF r
      <3> QED
        BY <3>1, <3>2, QuietStep
    <2>3. ASSUME Finish(h) PROVE SerialInv'
      BY <1>4, <2>3, EndSerial DEF QuickFind
    <2> QED
      BY <1>4, <2>1, <2>2, <2>3 DEF QuickFind
  <1>5. ASSUME AlignReread(h) PROVE SerialInv'
    <2>1. CASE BothAligned
      <3> DEFINE r == [req[h] EXCEPT !.at = "alignAdvance"]
      <3>1. Fresh(r)
        BY <1>1, <1>5 DEF AlignReread, Fresh
      <3> QED
        BY <1>5, <2>1, <3>1, QuietStep DEF AlignReread
    <2> QED
      BY <1>5, <2>1, EndSerial DEF AlignReread
  <1> QED
    BY <1>2, <1>3, <1>4, <1>5, EndSerial DEF Drop

-----------------------------------------------------------------------------
\* A write to a pending bid keeps the recommendations apart and no match stale,
\* whatever becomes of that bid.
LEMMA OneBidWritten ==
    ASSUME MatchingInv, SerialInv, NEW c \in BidId, bids[c].status = Pending,
           NEW row \in BidRow, bids' = [bids EXCEPT ![c] = row],
           row.bidder = bids[c].bidder, row.ai = bids[c].ai
    PROVE  /\ OneRecommendation'
           /\ project.bid # c
           /\ row.status = Withdrawn => Cardinality(LiveBids') = Cardinality(LiveBids) - 1
           /\ row.status \in {Pending, Accepted, Rejected} => LiveBids' = LiveBids
  <1> USE DEF MatchingInv, TypeOK
  <1>1. \A b \in BidId : bids'[b] = IF b = c THEN row ELSE bids[b]
    OBVIOUS
  <1>2. OneRecommendation'
    BY <1>1 DEF SerialInv, OneRecommendation
  <1>3. project.bid # c
    BY DEF SerialInv, MatchedBidAccepted
  <1>4. \A b \in BidId : bids'[b].status = IF b = c THEN row.status ELSE bids[b].status
    BY <1>1
  <1>5. IsFiniteSet(LiveBids) /\ c \in LiveBids
    BY BidsFinite DEF LiveBids
  <1>6. ASSUME row.status = Withdrawn PROVE LiveBids' = LiveBids \ {c}
    BY <1>4, <1>6 DEF LiveBids
  <1>7. ASSUME row.status \in {Pending, Accepted, Rejected} PROVE LiveBids' = LiveBids
    BY <1>4, <1>7 DEF LiveBids
  <1> QED
    BY <1>2, <1>3, <1>5, <1>6, <1>7, FS_RemoveElement

\* An accepted bid was pending when it was accepted, so it is the match and its price
\* the one agreed.
LEMMA AcceptSerial ==
    ASSUME MatchingInv, SerialInv, OneAtATime, NEW h \in Handler, AcceptCommit(h)
    PROVE  SerialInv'
  <1> USE DEF MatchingInv, TypeOK, Request
  <1> DEFINE c == req[h].bid
             row == [req[h].row EXCEPT !.status = Accepted]
  <1>1. /\ c \in BidId /\ bids[c].status = Pending /\ req[h].row = bids[c]
        /\ bids[c].bidder \in Provider
    BY DEF AcceptCommit, InFlight, RequestOK, SerialInv, Fresh, Issued
  <1>2. /\ row \in BidRow /\ row.status = Accepted
        /\ row.bidder = bids[c].bidder /\ row.ai = bids[c].ai /\ row.price = bids[c].price
    BY <1>1 DEF BidRow
  <1>3. bids' = [bids EXCEPT ![c] = row]
    BY DEF AcceptCommit
  <1>4. /\ project'.provider = bids[c].bidder /\ project'.bid = c
        /\ project'.status = Matched /\ project'.agreedPrice = bids[c].price
        /\ project'.bidCount = project.bidCount
    BY <1>1 DEF AcceptCommit, ProjectRow
  <1>5. OneRecommendation' /\ LiveBids' = LiveBids
    BY <1>1, <1>2, <1>3, OneBidWritten
  <1>6. BidCountAtMost'
    BY <1>4, <1>5 DEF SerialInv, BidCountAtMost
  <1>7. MatchedBidAccepted'
    BY <1>1, <1>2, <1>3, <1>4 DEF MatchedBidAccepted
  <1>8. EngagedHasProvider'
    BY <1>1, <1>4, MatchingAssumption DEF EngagedHasProvider
  <1>9. \A g \in Handler : Fresh(req[g])'
    BY FinishFresh DEF AcceptCommit, Busy
  <1> QED
    BY <1>5, <1>6, <1>7, <1>8, <1>9 DEF SerialInv

\* A rejection or a cancellation takes the project back, with no match.
LEMMA ResetSerial ==
    ASSUME MatchingInv, SerialInv, OneAtATime, NEW h \in Handler, ResetCommit(h)
    PROVE  SerialInv'
  <1> USE DEF MatchingInv, TypeOK, Request
  <1> DEFINE c == req[h].bid
             row == [bids[c] EXCEPT !.status = Rejected]
  <1>1. c \in BidId /\ bids[c].status = Pending
    BY DEF ResetCommit, InFlight, RequestOK, SerialInv, Fresh
  <1>2. /\ row \in BidRow /\ row.status = Rejected
        /\ row.bidder = bids[c].bidder /\ row.ai = bids[c].ai
    BY <1>1 DEF BidRow
  <1>3. bids' = [bids EXCEPT ![c] = row]
    BY DEF ResetCommit
  <1>4. project'.status = Published /\ project'.bid = None /\ project'.bidCount = project.bidCount
    BY DEF ResetCommit, ProjectRow
  <1>5. OneRecommendation' /\ LiveBids' = LiveBids
    BY <1>1, <1>2, <1>3, OneBidWritten
  <1>6. BidCountAtMost' /\ EngagedHasProvider'
    BY <1>4, <1>5 DEF SerialInv, BidCountAtMost, EngagedHasProvider
  <1>7. MatchedBidAccepted'
    BY <1>4, MatchingAssumption DEF MatchedBidAccepted, BidId
  <1>8. \A g \in Handler : Fresh(req[g])'
    BY FinishFresh DEF ResetCommit, Busy
  <1> QED
    BY <1>5, <1>6, <1>7, <1>8 DEF SerialInv

\* A quote or another team changes a pending bid, which is not the match.
LEMMA EditSerial ==
    ASSUME MatchingInv, SerialInv, OneAtATime, NEW h \in Handler, QuoteCommit(h) \/ QuickRetag(h)
    PROVE  SerialInv'
  <1> USE DEF MatchingInv, TypeOK, Request
  <1> DEFINE c == req[h].bid
  <1>1. c \in BidId /\ bids[c].status = Pending
    BY DEF QuoteCommit, QuickRetag, InFlight, RequestOK, SerialInv, Fresh
  <1>2. PICK row \in BidRow : /\ bids' = [bids EXCEPT ![c] = row]
                              /\ row.status = Pending
                              /\ row.bidder = bids[c].bidder /\ row.ai = bids[c].ai
    <2>1. CASE QuoteCommit(h)
      <3> DEFINE row == [bids[c] EXCEPT !.price = req[h].row.price]
      <3>1. row \in BidRow /\ bids' = [bids EXCEPT ![c] = row]
        BY <1>1, <2>1 DEF QuoteCommit, BidRow
      <3> QED
        BY <1>1, <3>1 DEF BidRow
    <2>2. CASE QuickRetag(h)
      <3> DEFINE row == [bids[c] EXCEPT !.team = req[h].row.team]
      <3>1. row \in BidRow /\ bids' = [bids EXCEPT ![c] = row]
        BY <1>1, <2>2 DEF QuickRetag, BidRow
      <3> QED
        BY <1>1, <3>1 DEF BidRow
    <2> QED
      BY <2>1, <2>2
  <1>3. UNCHANGED project
    BY DEF QuoteCommit, QuickRetag
  <1>4. OneRecommendation' /\ LiveBids' = LiveBids /\ project.bid # c
    BY <1>1, <1>2, OneBidWritten
  <1>5. BidCountAtMost' /\ EngagedHasProvider'
    BY <1>3, <1>4 DEF SerialInv, BidCountAtMost, EngagedHasProvider
  <1>6. MatchedBidAccepted'
    BY <1>1, <1>2, <1>3, <1>4 DEF SerialInv, MatchedBidAccepted
  <1>7. \A g \in Handler : Fresh(req[g])'
    BY FinishFresh DEF QuoteCommit, QuickRetag, Busy
  <1> QED
    BY <1>4, <1>5, <1>6, <1>7 DEF SerialInv

\* A withdrawal takes one from the live bids and one from the count.
LEMMA WithdrawSerial ==
    ASSUME MatchingInv, SerialInv, OneAtATime, NEW h \in Handler, WithdrawCommit(h)
    PROVE  SerialInv'
  <1> USE DEF MatchingInv, TypeOK, Request
  <1> DEFINE c == req[h].bid
             row == [bids[c] EXCEPT !.status = Withdrawn]
  <1>1. c \in BidId /\ bids[c].status = Pending /\ req[h].count = project.bidCount
    BY DEF WithdrawCommit, InFlight, RequestOK, SerialInv, Fresh
  <1>2. /\ row \in BidRow /\ row.status = Withdrawn
        /\ row.bidder = bids[c].bidder /\ row.ai = bids[c].ai
    BY <1>1 DEF BidRow
  <1>3. bids' = [bids EXCEPT ![c] = row]
    BY DEF WithdrawCommit
  <1>4. /\ project'.status = project.status /\ project'.bid = project.bid
        /\ project'.provider = project.provider /\ project'.agreedPrice = project.agreedPrice
        /\ project'.bidCount = IF project.bidCount = 0 THEN 0 ELSE project.bidCount - 1
    BY <1>1 DEF WithdrawCommit, ProjectRow
  <1>5. /\ OneRecommendation' /\ project.bid # c
        /\ Cardinality(LiveBids') = Cardinality(LiveBids) - 1
    BY <1>1, <1>2, <1>3, OneBidWritten
  <1>6. BidCountAtMost'
    <2>1. Cardinality(LiveBids') \in Nat /\ Cardinality(LiveBids) \in Nat
      BY BidsFinite DEF LiveBids
    <2>2. project.bidCount \in Nat
      BY DEF ProjectRow
    <2> QED
      BY <1>4, <1>5, <2>1, <2>2 DEF SerialInv, BidCountAtMost
  <1>7. MatchedBidAccepted'
    BY <1>1, <1>3, <1>4, <1>5 DEF SerialInv, MatchedBidAccepted
  <1>8. EngagedHasProvider'
    BY <1>4 DEF SerialInv, EngagedHasProvider
  <1>9. \A g \in Handler : Fresh(req[g])'
    BY FinishFresh DEF WithdrawCommit, Busy
  <1> QED
    BY <1>5, <1>6, <1>7, <1>8, <1>9 DEF SerialInv

\* A bid is only inserted as a recommendation where its bidder has none open.
LEMMA InsertSerial ==
    ASSUME MatchingInv, SerialInv, OneAtATime, NEW h \in Handler, CreateCommit(h) \/ QuickInsert(h)
    PROVE  SerialInv'
  <1> USE DEF MatchingInv, TypeOK, Request
  <1> DEFINE row == req[h].row
  <1>1. /\ row \in BidRow /\ row.status = Pending /\ req[h].count = project.bidCount
        /\ CreateCommit(h) => ~row.ai
        /\ QuickInsert(h) => PendingOf(row.bidder) = {}
    BY DEF CreateCommit, QuickInsert, InFlight, RequestOK, SerialInv, Fresh
  <1>2. InsertBid(row)
    BY DEF CreateCommit, QuickInsert
  <1>3. /\ Cardinality(LiveBids') = Cardinality(LiveBids) + 1
        /\ \A b \in BidId : IF b = lastBid + 1 THEN bids[b].status = Absent /\ bids'[b] = row
                                              ELSE bids'[b] = bids[b]
    BY <1>1, <1>2, InsertLive
  <1>4. /\ project'.status = project.status /\ project'.bid = project.bid
        /\ project'.provider = project.provider /\ project'.agreedPrice = project.agreedPrice
        /\ project'.bidCount \in {project.bidCount, project.bidCount + 1}
        /\ QuickInsert(h) => project'.bidCount = project.bidCount
    BY <1>1 DEF CreateCommit, QuickInsert, ProjectRow
  <1>5. BidCountAtMost' /\ project.bidCount + 1 <= Cardinality(LiveBids')
    <2>1. Cardinality(LiveBids) \in Nat
      BY BidsFinite DEF LiveBids
    <2>2. project.bidCount \in Nat
      BY DEF ProjectRow
    <2> QED
      BY <1>3, <1>4, <2>1, <2>2 DEF SerialInv, BidCountAtMost
  <1>6. MatchedBidAccepted'
    BY <1>3, <1>4 DEF SerialInv, MatchedBidAccepted
  <1>7. OneRecommendation'
    <2>1. \A b \in BidId : bids[b].status = Pending /\ bids[b].bidder = row.bidder => ~QuickInsert(h)
      BY <1>1 DEF PendingOf
    <2> QED
      BY <1>1, <1>3, <2>1 DEF SerialInv, OneRecommendation
  <1>8. EngagedHasProvider'
    BY <1>4 DEF SerialInv, EngagedHasProvider
  <1>9. \A g \in Handler : Fresh(req[g])'
    <2>1. CASE CreateCommit(h)
      BY <2>1, FinishFresh DEF CreateCommit, Busy
    <2>2. CASE QuickInsert(h)
      <3> DEFINE r == [req[h] EXCEPT !.at = "quickCount"]
      <3>1. Fresh(r)'
        BY <1>1, <1>5, <2>2 DEF QuickInsert, Fresh
      <3> QED
        BY <2>2, <3>1, OthersFresh DEF QuickInsert, Busy
    <2> QED
      BY <2>1, <2>2
  <1> QED
    BY <1>5, <1>6, <1>7, <1>8, <1>9 DEF SerialInv

\* A write to the project alone that keeps its match.
LEMMA ProjectWritten ==
    ASSUME MatchingInv, SerialInv, NEW h \in Handler, UNCHANGED bids,
           project'.bid = project.bid, project'.agreedPrice = project.agreedPrice,
           project'.bidCount <= Cardinality(LiveBids),
           project'.status \in {Matched, Aligning, InProgress} => project'.provider # None,
           \A g \in Handler : Fresh(req[g])'
    PROVE  SerialInv'
  BY DEF SerialInv, EngagedHasProvider, MatchedBidAccepted, OneRecommendation, BidCountAtMost, LiveBids

\* The counter, the flags and the statuses that follow one another.
LEMMA ProjectSerial ==
    ASSUME MatchingInv, SerialInv, OneAtATime, NEW h \in Handler,
           \/ QuickCount(h) \/ PublishCommit(h) \/ AlignMark(h) \/ AlignAdvance(h)
           \/ StartCommit(h) \/ CloseCommit(h)
    PROVE  SerialInv'
  <1> USE DEF MatchingInv, TypeOK, Request
  <1>1. Fresh(req[h]) /\ req[h] \in Request /\ project \in ProjectRow
    BY DEF SerialInv
  <1>2. UNCHANGED bids
    BY DEF QuickCount, PublishCommit, AlignMark, AlignAdvance, StartCommit, CloseCommit
  <1>3. /\ project'.bid = project.bid /\ project'.agreedPrice = project.agreedPrice
        /\ project'.provider = project.provider
        /\ project'.bidCount = IF QuickCount(h) THEN req[h].count + 1 ELSE project.bidCount
    BY <1>1 DEF QuickCount, PublishCommit, AlignMark, AlignAdvance, StartCommit, CloseCommit, ProjectRow
  <1>4. project'.bidCount <= Cardinality(LiveBids)
    BY <1>1, <1>3 DEF QuickCount, Fresh, SerialInv, BidCountAtMost
  <1>5. project'.status \in {Matched, Aligning, InProgress} => project'.provider # None
    BY <1>1, <1>3
    DEF QuickCount, PublishCommit, AlignMark, AlignAdvance, StartCommit, CloseCommit, ProjectRow,
        Fresh, SerialInv, EngagedHasProvider
  <1>6. \A g \in Handler : Fresh(req[g])'
    <2>1. CASE AlignMark(h)
      <3> DEFINE r == [req[h] EXCEPT !.at = "alignReread"]
      <3>1. Fresh(r)'
        BY <1>1, <2>1 DEF AlignMark, ProjectRow, Fresh
      <3> QED
        BY <2>1, <3>1, OthersFresh DEF AlignMark, Busy
    <2>2. CASE ~AlignMark(h)
      BY <2>2, FinishFresh
      DEF QuickCount, PublishCommit, AlignAdvance, StartCommit, CloseCommit, Busy
    <2> QED
      BY <2>1, <2>2
  <1> QED
    BY <1>2, <1>3, <1>4, <1>5, <1>6, ProjectWritten

-----------------------------------------------------------------------------
LEMMA SerialInit == Init => SerialInv
  <1> SUFFICES ASSUME Init PROVE SerialInv
    OBVIOUS
  <1>1. project.bidCount = 0 /\ project.bid = None /\ project.status \in {Draft, Published}
    BY DEF Init
  <1>2. MatchedBidAccepted /\ OneRecommendation
    BY <1>1, MatchingAssumption DEF Init, NoRow, BidId, MatchedBidAccepted, OneRecommendation
  <1>3. BidCountAtMost
    <2>1. Cardinality(LiveBids) \in Nat
      BY BidsFinite DEF LiveBids
    <2> QED
      BY <1>1, <2>1 DEF BidCountAtMost
  <1>4. \A h \in Handler : Fresh(req[h])
    BY DEF Init, Idle, Fresh
  <1> QED
    BY <1>1, <1>2, <1>3, <1>4 DEF SerialInv, EngagedHasProvider

LEMMA SerialStep ==
    ASSUME MatchingInv, SerialInv, OneAtATime, [Next]_vars PROVE SerialInv'
  <1>1. ASSUME NEW h \in Handler, Serve(h) PROVE SerialInv'
    BY <1>1, ThinkSerial, AcceptSerial, ResetSerial, EditSerial, WithdrawSerial, InsertSerial,
       ProjectSerial DEF Serve
  <1>2. CASE UNCHANGED vars
    <2>1. ASSUME NEW h \in Handler PROVE Fresh(req[h])'
      BY <1>2 DEF vars, SerialInv, Fresh, PendingOf, LiveBids
    <2> QED
      BY <1>2, <2>1 DEF vars, SerialInv, EngagedHasProvider, MatchedBidAccepted,
         OneRecommendation, BidCountAtMost, LiveBids
  <1> QED
    BY <1>1, <1>2, ArriveSerial, ThinkSerial DEF Next

\* As long as no two requests overlap, every request decides on rows that are
\* still what it read when it writes (bid_service.go, project_service.go).
THEOREM SerialInvariant == Spec /\ []OneAtATime => []SerialInv
  BY SerialInit, SerialStep, MatchingInvariant, PTL DEF Spec

\* The matched bid is then the accepted one, at the agreed price.
THEOREM MatchIsAccepted == Spec /\ []OneAtATime => []MatchedBidAccepted
  BY SerialInvariant, PTL DEF SerialInv

\* A provider has at most one open recommendation.
THEOREM RecommendedOnce == Spec /\ []OneAtATime => []OneRecommendation
  BY SerialInvariant, PTL DEF SerialInv

\* bid_count never counts bids that are not there, however many were withdrawn.
THEOREM CountIsBounded == Spec /\ []OneAtATime => []BidCountAtMost
  BY SerialInvariant, PTL DEF SerialInv

\* Each commit is the abstract step its request stands for.
LEMMA LifecycleStep ==
    ASSUME MatchingInv, SerialInv, [Next]_vars
    PROVE  [Lifecycle!Next]_<<project.status, project.provider>>
  <1> USE DEF MatchingInv, TypeOK, ProjectRow, Request,
              Lifecycle!Draft, Lifecycle!Published, Lifecycle!Matched, Lifecycle!Aligning,
              Lifecycle!InProgress, Lifecycle!Closed
  <1>1. ASSUME NEW h \in Handler, AcceptCommit(h) PROVE Lifecycle!Engage
    <2>1. req[h].row.bidder \in Provider
      BY <1>1 DEF AcceptCommit, InFlight, RequestOK, Issued
    <2> QED
      BY <1>1, <2>1 DEF AcceptCommit, Lifecycle!Engage
  <1>2. ASSUME NEW h \in Handler, ResetCommit(h) PROVE Lifecycle!Release
    BY <1>2 DEF ResetCommit, Lifecycle!Release
  <1>3. ASSUME NEW h \in Handler, PublishCommit(h) PROVE Lifecycle!Publish
    BY <1>3 DEF PublishCommit, SerialInv, Fresh, Lifecycle!Publish
  <1>4. ASSUME NEW h \in Handler, AlignAdvance(h) PROVE Lifecycle!Align
    BY <1>4 DEF AlignAdvance, SerialInv, Fresh, EngagedHasProvider, Lifecycle!Align
  <1>5. ASSUME NEW h \in Handler, StartCommit(h) PROVE Lifecycle!Start
    BY <1>5 DEF StartCommit, SerialInv, Fresh, Lifecycle!Start
  <1>6. ASSUME NEW h \in Handler, CloseCommit(h) PROVE Lifecycle!Close
    BY <1>6 DEF CloseCommit, SerialInv, Fresh, Lifecycle!Close
  <1>7. ASSUME NEW h \in Handler,
               \/ CreateCommit(h) \/ QuoteCommit(h) \/ WithdrawCommit(h) \/ QuickInsert(h)
               \/ QuickCount(h) \/ QuickRetag(h) \/ AlignMark(h)
        PROVE  UNCHANGED <<project.status, project.provider>>
    BY <1>7 DEF CreateCommit, QuoteCommit, WithdrawCommit, QuickInsert, QuickCount, QuickRetag, AlignMark
  <1>8. ASSUME NEW h \in Handler,
               \/ Arrive(h) \/ ConfirmAccept(h) \/ WithdrawCount(h) \/ QuickFind(h)
               \/ AlignReread(h) \/ Drop(h)
        PROVE  UNCHANGED project
    BY <1>8
    DEF Arrive, CreateRead, AcceptRead, ConfirmRead, RejectRead, CancelRead,
        WithdrawRead, QuoteRead, QuickRead, AlignRead, PublishRead, StartRead,
        CloseRead, ConfirmAccept, WithdrawCount, QuickFind, AlignReread, Drop
  <1>9. UNCHANGED vars => UNCHANGED project
    BY DEF vars
  <1> QED
    BY <1>1, <1>2, <1>3, <1>4, <1>5, <1>6, <1>7, <1>8, <1>9 DEF Next, Serve, Lifecycle!Next

\* As long as no two requests overlap, the server implements the atomic life of
\* a project: a status is only ever left from where the code checked it to be.
THEOREM MatchingImplementsLifecycle == Spec /\ []OneAtATime => AtomicLifecycle
  <1>1. Init => Lifecycle!Init
    BY DEF Init, Lifecycle!Init, Lifecycle!Draft, Lifecycle!Published
  <1>2. MatchingInv /\ SerialInv /\ [Next]_vars
          => [Lifecycle!Next]_<<project.status, project.provider>>
    BY LifecycleStep
  <1> QED
    BY <1>1, <1>2, MatchingInvariant, SerialInvariant, PTL DEF Spec, AtomicLifecycle, Lifecycle!Spec

=============================================================================

---------------------------- MODULE BidMatching ----------------------------
(***************************************************************************)
(* Matching one project with a provider: server/internal/service's         *)
(* BidService together with the operations of ProjectService that move a   *)
(* project from draft to in-progress or closed.                            *)
(*                                                                         *)
(* The server keeps no state of its own between requests.  Every HTTP      *)
(* request is served by a goroutine (a Handler) that first reads rows,     *)
(* decides on what it read, and then writes: either in one database        *)
(* transaction or in single UPDATE statements.  The rows it decided on are *)
(* not locked, so a request is modelled as one action per read and one per *)
(* commit, with what was read kept in req[h].                              *)
(*                                                                         *)
(* Requests that the code refuses change nothing and are not actions.      *)
(***************************************************************************)
EXTENDS Integers, FiniteSets

CONSTANTS
    Handler,    \* goroutines serving requests
    Provider,   \* users other than the project's owner
    Team,       \* teams a provider may bid for
    Price,      \* quotable prices
    QuickPrice, \* the price QuickMatch derives from the project's budget
    MaxBids,    \* bound on the rows of the bids table
    Faults,     \* whether a request may die half way (panic, lost DB, crash)
    Owner,      \* the project's owner
    None        \* SQL NULL

ASSUME MatchingAssumption ==
    /\ MaxBids \in Nat
    /\ QuickPrice \in Price
    /\ Faults \in BOOLEAN
    /\ Owner \notin Provider
    /\ None \notin Provider \cup Team \cup Price \cup {Owner} \cup Nat

VARIABLES
    project,  \* the row of table projects
    bids,     \* table bids, by primary key
    lastBid,  \* last primary key handed out
    req       \* what each handler is doing, and what it has read

vars == <<project, bids, lastBid, req>>
-----------------------------------------------------------------------------
\* model.ProjectStatus*: 6 and 7 are reached through the milestones only.
Draft == 1
Published == 2
Matched == 3
Aligning == 4
InProgress == 5
Accepting == 6
Closed == 8

\* model.BidStatus*; 0 is a row that is not there yet.
Absent == 0
Pending == 1
Accepted == 2
Rejected == 3
Withdrawn == 4

BidId == 1 .. MaxBids
User == Provider \cup {Owner}

BidRow == [bidder : Provider \cup {None}, team : Team \cup {None},
           price : Price \cup {None}, status : Absent .. Withdrawn,
           ai : BOOLEAN]

ProjectRow == [status : {Draft, Published, Matched, Aligning, InProgress, Closed},
               provider : Provider \cup {None}, bid : BidId \cup {None},
               team : Team \cup {None}, agreedPrice : Price \cup {None},
               ownerAligned : BOOLEAN, providerAligned : BOOLEAN,
               bidCount : Nat]

\* Where a handler stands: the statement it executes next.
Stage == {"idle", "create", "confirm", "accept", "reset", "quote",
          "withdrawCount", "withdraw", "quickFind", "quickInsert",
          "quickCount", "quickRetag", "publish", "alignMark", "alignReread",
          "alignAdvance", "start", "close"}

Request == [at : Stage, bid : BidId \cup {None}, row : BidRow,
            count : Nat, user : User \cup {None}]

NoRow == [bidder |-> None, team |-> None, price |-> None,
          status |-> Absent, ai |-> FALSE]

Idle == [at |-> "idle", bid |-> None, row |-> NoRow, count |-> 0, user |-> None]

TypeOK ==
    /\ project \in ProjectRow
    /\ bids \in [BidId -> BidRow]
    /\ lastBid \in 0 .. MaxBids
    /\ req \in [Handler -> Request]

\* ProjectService.Create: a new project is a draft or published at once.
Init ==
    /\ project \in [status : {Draft, Published}, provider : {None}, bid : {None},
                    team : {None}, agreedPrice : {None}, ownerAligned : {FALSE},
                    providerAligned : {FALSE}, bidCount : {0}]
    /\ bids = [b \in BidId |-> NoRow]
    /\ lastBid = 0
    /\ req = [h \in Handler |-> Idle]
-----------------------------------------------------------------------------
Begin(h, r) == req[h].at = "idle" /\ req' = [req EXCEPT ![h] = r]
Finish(h) == req' = [req EXCEPT ![h] = Idle]

NewBid(p, t, x, ai) ==
    [bidder |-> p, team |-> t, price |-> x, status |-> Pending, ai |-> ai]

\* Requests on their way to inserting a bid; counting them keeps the bound
\* MaxBids from ever stopping a request half way.
Inserting == {h \in Handler : req[h].at \in {"create", "quickFind", "quickInsert"}}
RoomForBid == lastBid + Cardinality(Inserting) < MaxBids

\* bidRepository.Create: the row gets the next key of the table.
InsertBid(row) ==
    /\ lastBid < MaxBids
    /\ lastBid' = lastBid + 1
    /\ bids' = [bids EXCEPT ![lastBid + 1] = row]

-----------------------------------------------------------------------------
(***************************************************************************)
(* Mutated forms of the actions below, each a plausible slip in the code.  *)
(* Only mutation runs use them.                                            *)
(***************************************************************************)
\* The quote is written with Save, like Accept writes, and so carries the
\* status that was read.
QuoteCommitSavesRow(h) ==
    /\ req[h].at = "quote"
    /\ bids' = [bids EXCEPT ![req[h].bid].price = req[h].row.price,
                            ![req[h].bid].status = Pending]
    /\ Finish(h)
    /\ UNCHANGED <<project, lastBid>>

\* Accept forgets the agreed price.
AcceptCommitNoPrice(h) ==
    /\ req[h].at = "accept"
    /\ LET row == req[h].row IN
       /\ bids' = [bids EXCEPT ![req[h].bid] = [row EXCEPT !.status = Accepted]]
       /\ project' = [project EXCEPT !.provider = row.bidder, !.bid = req[h].bid,
                                     !.status = Matched]
    /\ Finish(h)
    /\ UNCHANGED lastBid

\* Withdraw does not check that the bid is pending.
WithdrawReadAnyBid(h, b) ==
    /\ bids[b].status # Absent
    /\ Begin(h, [Idle EXCEPT !.at = "withdrawCount", !.bid = b])
    /\ UNCHANGED <<project, bids, lastBid>>

\* QuickMatch's counter update adds two.
QuickCountTwice(h) ==
    /\ req[h].at = "quickCount"
    /\ project' = [project EXCEPT !.bidCount = req[h].count + 2]
    /\ Finish(h)
    /\ UNCHANGED <<bids, lastBid>>

\* QuickMatch inserts without looking for the provider's pending bid.
QuickFindNothing(h) ==
    /\ req[h].at = "quickFind"
    /\ req' = [req EXCEPT ![h].at = "quickInsert"]
    /\ UNCHANGED <<project, bids, lastBid>>

\* One confirmation is enough.
AlignRereadEither(h) ==
    /\ req[h].at = "alignReread"
    /\ IF project.ownerAligned \/ project.providerAligned
       THEN req' = [req EXCEPT ![h].at = "alignAdvance"]
       ELSE Finish(h)
    /\ UNCHANGED <<project, bids, lastBid>>

\* Only the owner's own confirmation moves the project on.
AlignRereadOwnerOnly(h) ==
    /\ req[h].at = "alignReread"
    /\ IF project.ownerAligned /\ project.providerAligned /\ req[h].user = Owner
       THEN req' = [req EXCEPT ![h].at = "alignAdvance"]
       ELSE Finish(h)
    /\ UNCHANGED <<project, bids, lastBid>>

\* StartProject does not wait for the alignment.
StartReadMatched(h) ==
    /\ project.status \in {Matched, Aligning}
    /\ Begin(h, [Idle EXCEPT !.at = "start"])
    /\ UNCHANGED <<project, bids, lastBid>>
-----------------------------------------------------------------------------
\* BidService.Create
CreateRead(h, p, t, x) ==
    /\ RoomForBid
    /\ Begin(h, [Idle EXCEPT !.at = "create", !.row = NewBid(p, t, x, FALSE),
                             !.count = project.bidCount])
    /\ UNCHANGED <<project, bids, lastBid>>

CreateCommit(h) ==
    /\ req[h].at = "create"
    /\ InsertBid(req[h].row)
    /\ project' = [project EXCEPT !.bidCount = req[h].count + 1]
    /\ Finish(h)

\* BidService.Accept: the whole bid row is read here and saved by the commit.
AcceptRead(h, b) ==
    /\ bids[b].status = Pending
    /\ Begin(h, [Idle EXCEPT !.at = "accept", !.bid = b, !.row = bids[b]])
    /\ UNCHANGED <<project, bids, lastBid>>

AcceptCommit(h) ==
    /\ req[h].at = "accept"
    /\ LET row == req[h].row IN
       /\ bids' = [bids EXCEPT ![req[h].bid] = [row EXCEPT !.status = Accepted]]
       /\ project' = [project EXCEPT !.provider = row.bidder, !.bid = req[h].bid,
                                     !.status = Matched, !.agreedPrice = row.price,
                                     !.team = IF row.team = None THEN @ ELSE row.team]
    /\ Finish(h)
    /\ UNCHANGED lastBid

\* BidService.ConfirmBid: checks the bid, then calls Accept, which reads it again.
ConfirmRead(h, b) ==
    /\ bids[b].status = Pending
    /\ Begin(h, [Idle EXCEPT !.at = "confirm", !.bid = b])
    /\ UNCHANGED <<project, bids, lastBid>>

ConfirmAccept(h) ==
    /\ req[h].at = "confirm"
    /\ IF bids[req[h].bid].status = Pending
       THEN req' = [req EXCEPT ![h].at = "accept", ![h].row = bids[req[h].bid]]
       ELSE Finish(h)
    /\ UNCHANGED <<project, bids, lastBid>>

\* BidService.RejectBid, by the bidder.
RejectRead(h, b) ==
    /\ bids[b].status = Pending
    /\ Begin(h, [Idle EXCEPT !.at = "reset", !.bid = b])
    /\ UNCHANGED <<project, bids, lastBid>>

\* BidService.CancelMatch, by the owner, for a bid QuickMatch made.
CancelRead(h, b) ==
    /\ bids[b].status = Pending /\ bids[b].ai
    /\ Begin(h, [Idle EXCEPT !.at = "reset", !.bid = b])
    /\ UNCHANGED <<project, bids, lastBid>>

\* The transaction RejectBid and CancelMatch share.
ResetCommit(h) ==
    /\ req[h].at = "reset"
    /\ bids' = [bids EXCEPT ![req[h].bid].status = Rejected]
    /\ project' = [project EXCEPT !.status = Published, !.provider = None,
                                  !.bid = None, !.team = None]
    /\ Finish(h)
    /\ UNCHANGED lastBid
-----------------------------------------------------------------------------
\* BidService.QuoteBid, by the bidder of a bid QuickMatch made.
QuoteRead(h, b, x) ==
    /\ bids[b].status = Pending /\ bids[b].ai
    /\ Begin(h, [Idle EXCEPT !.at = "quote", !.bid = b, !.row.price = x])
    /\ UNCHANGED <<project, bids, lastBid>>

QuoteCommit(h) ==
    /\ req[h].at = "quote"
    /\ bids' = [bids EXCEPT ![req[h].bid].price = req[h].row.price]
    /\ Finish(h)
    /\ UNCHANGED <<project, lastBid>>

\* BidService.Withdraw, by the bidder: reads the bid, then the project.
WithdrawRead(h, b) ==
    /\ bids[b].status = Pending
    /\ Begin(h, [Idle EXCEPT !.at = "withdrawCount", !.bid = b])
    /\ UNCHANGED <<project, bids, lastBid>>

WithdrawCount(h) ==
    /\ req[h].at = "withdrawCount"
    /\ req' = [req EXCEPT ![h].at = "withdraw", ![h].count = project.bidCount]
    /\ UNCHANGED <<project, bids, lastBid>>

WithdrawCommit(h) ==
    /\ req[h].at = "withdraw"
    /\ bids' = [bids EXCEPT ![req[h].bid].status = Withdrawn]
    /\ project' = [project EXCEPT
            !.bidCount = IF req[h].count = 0 THEN 0 ELSE req[h].count - 1]
    /\ Finish(h)
    /\ UNCHANGED lastBid

\* BidService.QuickMatch: recommends provider p of team t for a published,
\* unmatched project.  Its statements commit one by one.
QuickRead(h, p, t) ==
    /\ RoomForBid
    /\ project.status = Published /\ project.provider = None
    /\ Begin(h, [Idle EXCEPT !.at = "quickFind", !.count = project.bidCount,
                             !.row = NewBid(p, t, QuickPrice, TRUE)])
    /\ UNCHANGED <<project, bids, lastBid>>

\* bidRepository.FindPendingByProjectAndBidderID returns one of these: the
\* newest, but created_at counts in seconds and equal ones go by their key.
PendingOf(p) == {b \in BidId : bids[b].status = Pending /\ bids[b].bidder = p}

QuickFind(h) ==
    /\ req[h].at = "quickFind"
    /\ LET p == req[h].row.bidder IN
       \/ /\ PendingOf(p) = {}
          /\ req' = [req EXCEPT ![h].at = "quickInsert"]
       \/ \E b \in PendingOf(p) :
            IF bids[b].team = req[h].row.team
            THEN Finish(h)
            ELSE req' = [req EXCEPT ![h].at = "quickRetag", ![h].bid = b]
    /\ UNCHANGED <<project, bids, lastBid>>

QuickInsert(h) ==
    /\ req[h].at = "quickInsert"
    /\ InsertBid(req[h].row)
    /\ req' = [req EXCEPT ![h].at = "quickCount"]
    /\ UNCHANGED project

QuickCount(h) ==
    /\ req[h].at = "quickCount"
    /\ project' = [project EXCEPT !.bidCount = req[h].count + 1]
    /\ Finish(h)
    /\ UNCHANGED <<bids, lastBid>>

QuickRetag(h) ==
    /\ req[h].at = "quickRetag"
    /\ bids' = [bids EXCEPT ![req[h].bid].team = req[h].row.team]
    /\ Finish(h)
    /\ UNCHANGED <<project, lastBid>>
-----------------------------------------------------------------------------
\* ProjectService.PublishDraft
PublishRead(h) ==
    /\ project.status = Draft
    /\ Begin(h, [Idle EXCEPT !.at = "publish"])
    /\ UNCHANGED <<project, bids, lastBid>>

PublishCommit(h) ==
    /\ req[h].at = "publish"
    /\ project' = [project EXCEPT !.status = Published]
    /\ Finish(h)
    /\ UNCHANGED <<bids, lastBid>>

\* ProjectService.ConfirmAlignment, by the owner or the matched provider: sets
\* the caller's flag, reads the project again and, if both flags are set,
\* moves the project on.
AlignRead(h, u) ==
    /\ project.status = Matched
    /\ u \in {Owner, project.provider}
    /\ Begin(h, [Idle EXCEPT !.at = "alignMark", !.user = u])
    /\ UNCHANGED <<project, bids, lastBid>>

AlignMark(h) ==
    /\ req[h].at = "alignMark"
    /\ project' = IF req[h].user = Owner
                  THEN [project EXCEPT !.ownerAligned = TRUE]
                  ELSE [project EXCEPT !.providerAligned = TRUE]
    /\ req' = [req EXCEPT ![h].at = "alignReread"]
    /\ UNCHANGED <<bids, lastBid>>

BothAligned == project.ownerAligned /\ project.providerAligned

AlignReread(h) ==
    /\ req[h].at = "alignReread"
    /\ IF BothAligned
       THEN req' = [req EXCEPT ![h].at = "alignAdvance"]
       ELSE Finish(h)
    /\ UNCHANGED <<project, bids, lastBid>>

AlignAdvance(h) ==
    /\ req[h].at = "alignAdvance"
    /\ project' = [project EXCEPT !.status = Aligning]
    /\ Finish(h)
    /\ UNCHANGED <<bids, lastBid>>

\* ProjectService.StartProject, by the owner.
StartRead(h) ==
    /\ project.status = Aligning
    /\ Begin(h, [Idle EXCEPT !.at = "start"])
    /\ UNCHANGED <<project, bids, lastBid>>

StartCommit(h) ==
    /\ req[h].at = "start"
    /\ project' = [project EXCEPT !.status = InProgress]
    /\ Finish(h)
    /\ UNCHANGED <<bids, lastBid>>

\* ProjectService.Close
CloseRead(h) ==
    /\ project.status # Closed
    /\ project.status \notin Matched .. Accepting
    /\ Begin(h, [Idle EXCEPT !.at = "close"])
    /\ UNCHANGED <<project, bids, lastBid>>

CloseCommit(h) ==
    /\ req[h].at = "close"
    /\ project' = [project EXCEPT !.status = Closed]
    /\ Finish(h)
    /\ UNCHANGED <<bids, lastBid>>

\* A request dies between two of its statements: a panic caught by
\* gin.Recovery, a lost connection (an open transaction rolls back), or the
\* process going down, which is a Drop of every handler.
Drop(h) ==
    /\ Faults
    /\ req[h].at # "idle"
    /\ Finish(h)
    /\ UNCHANGED <<project, bids, lastBid>>
-----------------------------------------------------------------------------
\* A client's call reaches an idle handler.
Arrive(h) ==
    \/ \E p \in Provider, t \in Team \cup {None}, x \in Price : CreateRead(h, p, t, x)
    \/ \E b \in BidId : \/ AcceptRead(h, b)
                        \/ ConfirmRead(h, b)
                        \/ RejectRead(h, b)
                        \/ CancelRead(h, b)
                        \/ WithdrawRead(h, b)
    \/ \E b \in BidId, x \in Price : QuoteRead(h, b, x)
    \/ \E p \in Provider, t \in Team : QuickRead(h, p, t)
    \/ \E u \in User : AlignRead(h, u)
    \/ PublishRead(h)
    \/ StartRead(h)
    \/ CloseRead(h)

\* The handler's own next statement.
Serve(h) ==
    \/ CreateCommit(h)
    \/ ConfirmAccept(h)
    \/ AcceptCommit(h)
    \/ ResetCommit(h)
    \/ QuoteCommit(h)
    \/ WithdrawCount(h)
    \/ WithdrawCommit(h)
    \/ QuickFind(h)
    \/ QuickInsert(h)
    \/ QuickCount(h)
    \/ QuickRetag(h)
    \/ PublishCommit(h)
    \/ AlignMark(h)
    \/ AlignReread(h)
    \/ AlignAdvance(h)
    \/ StartCommit(h)
    \/ CloseCommit(h)

Next == \E h \in Handler : Arrive(h) \/ Serve(h) \/ Drop(h)

Spec == Init /\ [][Next]_vars

\* A goroutine that has started keeps running; nothing makes clients call.
FairSpec == Spec /\ \A h \in Handler : WF_vars(Serve(h))
-----------------------------------------------------------------------------
(***************************************************************************)
(* What holds whatever the interleaving of requests, and when they die.    *)
(***************************************************************************)
\* The project names a provider exactly when it names a bid, and the provider
\* is that bid's bidder: Accept, RejectBid and CancelMatch write both columns
\* in one UPDATE, so a race between them cannot mix two matches.
MatchIsWhole ==
    /\ (project.provider = None) <=> (project.bid = None)
    /\ \A b \in BidId : project.bid = b => bids[b].bidder = project.provider

\* A project that is being aligned or is in progress was confirmed by an owner
\* and by a provider (ConfirmAlignment, StartProject), though the confirmations
\* raced with each other and with a new match.
AlignedByBoth == project.status \in {Aligning, InProgress} => BothAligned

\* From the match on there is a price: the milestones' amounts and the order
\* are computed from agreed_price.
EngagedIsPriced ==
    project.status \in {Matched, Aligning, InProgress} => project.agreedPrice # None

\* A bid that was accepted, rejected or withdrawn is never pending again, so
\* what the code decided about it once cannot be decided afresh: no writer of
\* the bids table that read the row as pending puts that status back.
NeverPendingAgain ==
    [][\A b \in BidId : bids[b].status \in {Accepted, Rejected, Withdrawn}
                            => bids'[b].status # Pending]_vars

\* The match changes only as Engagement says, which is all that ProjectOrders
\* relies on: nobody becomes the provider without a price agreed in the same
\* UPDATE, and no other request touches either column.
Engaged == INSTANCE Engagement
              WITH provider <- project.provider, price <- project.agreedPrice
ImplementsEngagement == Engaged!Spec

\* Keys are handed out in order and a row, once there, has a bidder and a price.
Issued ==
    \A b \in BidId : IF bids[b].status = Absent
                     THEN bids[b].bidder = None
                     ELSE /\ b <= lastBid
                          /\ bids[b].bidder \in Provider
                          /\ bids[b].price \in Price

\* What a handler knows that no other request can take from it: the bid it is
\* about exists and keeps its bidder; a price was agreed before anybody could
\* confirm, and both flags were seen before status 4 or 5 is written.
RequestOK(r) ==
    /\ r.at \in {"create", "quickFind", "quickInsert"} =>
           r.row.bidder \in Provider /\ r.row.price \in Price /\ r.row.status = Pending
    /\ r.at \in {"confirm", "accept", "reset", "quote", "withdrawCount",
                 "withdraw", "quickRetag"} =>
           r.bid \in BidId /\ bids[r.bid].status # Absent
    /\ r.at = "accept" =>
           r.row.bidder = bids[r.bid].bidder /\ r.row.price \in Price
    /\ r.at = "quote" => r.row.price \in Price
    /\ r.at \in {"alignMark", "alignReread", "alignAdvance", "start"} =>
           project.agreedPrice # None
    /\ r.at \in {"alignAdvance", "start"} => BothAligned

InFlight == \A h \in Handler : RequestOK(req[h])

\* The inductive invariant of Spec.
MatchingInv ==
    TypeOK /\ Issued /\ InFlight /\ MatchIsWhole /\ AlignedByBoth /\ EngagedIsPriced

(***************************************************************************)
(* What holds when requests are served one at a time.                      *)
(***************************************************************************)
LiveBids == {b \in BidId : bids[b].status \in {Pending, Accepted, Rejected}}

\* The matched bid is accepted and is the one whose price was agreed.
MatchedBidAccepted ==
    \A b \in BidId : project.bid = b => /\ bids[b].status = Accepted
                                       /\ bids[b].price = project.agreedPrice

\* QuickMatch reuses a pending bid of the provider, so a provider never has two
\* open recommendations for the project.
OneRecommendation ==
    \A b, c \in BidId :
        /\ bids[b].status = Pending /\ bids[b].ai
        /\ bids[c].status = Pending /\ bids[c].ai
        /\ bids[b].bidder = bids[c].bidder
        => b = c

\* projects.bid_count never exceeds the number of bids that were not withdrawn.
\* It may fall behind: a request that dies between QuickMatch's two statements
\* leaves a bid nobody counts.
BidCountAtMost == project.bidCount <= Cardinality(LiveBids)

\* Each request looks like one atomic step of ProjectLifecycle: what it checked
\* about the project still holds when it writes.
Lifecycle == INSTANCE ProjectLifecycle
                WITH status <- project.status, provider <- project.provider
AtomicLifecycle == Lifecycle!Spec

(***************************************************************************)
(* Liveness.                                                               *)
(***************************************************************************)
\* When the owner's and the provider's confirmations race, at least one of them
\* sees both flags and moves the project on: ConfirmAlignment reads the row
\* again after writing its flag.
RacingConfirmationsAdvance ==
    \A g, h \in Handler :
        (/\ req[g].at = "alignMark" /\ req[g].user = Owner
         /\ req[h].at = "alignMark" /\ req[h].user # Owner)
        ~> (project.status = Aligning)
=============================================================================

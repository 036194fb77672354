# Formal models of the Kaizao platform

Kaizao brings clients (项目方) and teams of developers (团队方) together: a client
describes a project, providers bid or are recommended, both sides align the
requirements, the work proceeds milestone by milestone and is accepted. This
directory holds TLA+ models of the parts of the platform that decide what happens to a
project, the TLC configurations that check them, and theorems proved with TLAPS.

Paths below are relative to the repository; `service/` stands for
`server/internal/service/`, and so on for the server's other packages.

## Inventory

### How the system runs

The Go server (`server/`) keeps no state between requests. Every HTTP request is a
goroutine that reads rows of one MySQL database through gorm, decides on what it
read, and writes: either in one transaction (`repos.DB().Transaction`) or in single
UPDATE and INSERT statements. Almost every service reads *outside* the transaction
that writes, takes no lock, and writes by primary key with no condition on what it
read; `UpdateFields` writes chosen columns, `Update` (gorm's `Save`) writes the whole
row that was read. Only the creation of milestones, tasks and orders locks the
project's row (`SELECT ... FOR UPDATE`), and only the consumption of an invitation code
locks the code's. A request can die anywhere (a panic caught by `gin.Recovery`, a lost
connection, the process going down): its open transaction rolls back and what it had
committed stays.

The AI agent (`ai-agent/`, Python, asyncio) talks to language models, keeps the state
of its pipeline in Redis and MySQL, documents on disk and in MinIO, vectors in Milvus,
and writes plans (tasks, milestones), evaluations and team rows straight into the
server's tables. `ai-agent/Dockerfile` starts it with two processes. Within a process a
request is a coroutine: it runs alone from one `await` to the next, and shares the
process' agent objects, with their fields, with every other request. Between processes
anything interleaves; but calls of Milvus, MinIO and the disk are not awaited, so they
block the whole process they are made in.

A GitHub workflow (`.github/workflows/ai-review.yml`) reviews pull requests with
`.github/scripts/pr_ai_review.py`; all its state is on GitHub.

### Components

| component | state | operations | interacts with | status |
|---|---|---|---|---|
| Bids and matching (`service/bid_service.go`) | `bids`; `projects.status`, `provider_id`, `bid_id`, `team_id`, `agreed_price`, `bid_count` | Create, Accept, ConfirmBid, RejectBid, CancelMatch, QuoteBid, Withdraw, QuickMatch | writes the project's row | `BidMatching` |
| Project life cycle (`service/project_service.go`) | `projects.status`, `owner_aligned`, `provider_aligned` | Create, PublishDraft, ConfirmAlignment, StartProject, Close; Update, view counter | shares the row with all others | `BidMatching`, `Milestones`; Update and the counter not modelled |
| Milestones and delivery (`MilestoneService` in `service/mgmt_service.go`) | `milestones`, `projects.status` 5 to 7, the project's row lock | Create, Deliver, Accept, StartMilestone, CompleteMilestone, DeliverProject, AcceptProject, RequestRevision | locks the project's row; the AI agent writes the same table | `Milestones` |
| Tasks (`TaskService` in `service/mgmt_service.go`) | `tasks`, the project's row lock | Create, UpdateStatus | the AI agent writes the same table | not modelled |
| Orders and wallets (`service/pay_service.go`) | `orders`, `wallets`, `wallet_transactions` | CreateOrderByOwner, Prepay; Withdraw | locks the project's row, reads its provider and price | `ProjectOrders`; wallets not modelled: no code credits one, so Withdraw always refuses |
| Teams and invitations (`service/social_service.go`, `repository/invite_repo.go`) | `teams`, `team_members`, `invite_codes` | CreateTeam, ConsumeWithTx, reviews, posts | roles of `users` | not modelled |
| Favorites (`service/favorite_service.go`) | `favorites`, `projects.favorite_count` | AddFavorite, RemoveFavorite | | not modelled |
| Conversations, notifications (`service/chat_service.go`) | `conversations`, `messages`, `conversation_members` | SendMessage, MarkRead, Delete | Accept opens a conversation | not modelled |
| Administration (`service/admin_service.go`) | any row | ReviewProject, UpdateProjectFields, edits | writes statuses by hand | not modelled |
| Users and authentication | `users`, tokens | registration, login, profile | | not modelled: single rows behind unique keys |
| Files and uploads | `project_files`, object store | upload, list, delete | | not modelled: I/O |
| HTTP layer (`router/`, `handler/`) | none | parsing, authentication | | a request's arrival, end and death |
| AI agent: plans (`db/repository.py`, `agents/requirement_agent.py`) | `tasks`, `milestones` | `save_ears_to_tasks`, `save_milestones_to_go` | no lock on the project | milestones in `Milestones`, both tables in `AgentPipeline`; the tasks' codes and roles not modelled |
| AI agent: pipeline and sessions (`pipeline/`, `session/`, `routers/`, `agents/base_agent.py`) | project state and history in Redis and MySQL, the fields of the agents, documents, rows | init, start, message, confirm, decompose, design, confirm design, plan, regenerate, status; streamed or not | background writes, language models | `PipelineState`, `AgentPipeline` |
| AI agent: ratings and matching (`routers/rating_router.py`, `agents/rating_agent.py`, `agents/smart_matcher.py`, `storage/milvus_store.py`) | profiles, history of points, team rows, vectors, stored recommendations, the rating agent's fields | evaluate, adjust points, sync a profile, recommend | the server's `teams` and `users` | `Rating`, `Providers` |
| AI agent: documents (`routers/document_router.py`, `outputs/writer.py`, `storage/minio_client.py`) | disk, MinIO, `ai_documents`, PRD items, overview | save, upload, download, reanalyse | tasks nobody waits for | `Documents` |
| AI agent: models and retrieval (`llm/`, `rag/`) | knowledge collection | prompts, embeddings | | not modelled: an answer is a choice in the models |
| Review of pull requests (`.github/`) | threads, reviews and comments of a pull request | a job, from the files to the summary | pushes, people, language models | `PrScope`, `PrReview` |
| Mobile app (`app/`), administration web (`admin-web/`) | screens | API calls | | not modelled: clients |

### What is hard here

* **Stale decisions.** Between the read that decides and the write, any other request
  may commit. `PROJECT.json` lists each such place; most of what can go wrong does so
  in this gap.
* **Partial work.** QuickMatch and CompleteMilestone consist of several statements
  that commit one by one.
* **Lost updates.** `bid_count`, `view_count`, wallet balances and saved rows are
  computed from what was read; a conversation is saved whole over its deletion.
* **Two writers of one table.** The AI agent replaces milestones and tasks without the
  lock the server relies on, also when the project is long under way.
* **Fields shared across awaits.** One requirement agent and one rating agent serve
  every request of a process and keep what a request is doing in their own fields.
* **Several stores for one thing.** Redis before MySQL; disk, then MinIO, then a row;
  profile, then points, then team row, then vector. Each write may fail alone, most
  failures are only logged, and a reader may find the stores apart.
* **Restarts.** The tasks nobody waits for die with their process; the disk is on no
  volume and dies with its container; a review job is cancelled by the next push.
* **Long legal sequences.** Several pending bids of one project outlive the match; the
  alignment flags outlive the match they were given for.

What makes each part correct: a match is whole (provider, bid, price and status belong
together) and is agreed on by both parties; a decided bid stays decided; the counter
of bids does not overstate; the milestones never promise more than the whole payment,
their orders differ, work follows that order, and a project is submitted exactly when
its milestones are done; a project's history and documents are its own and none is lost;
a design that is said to be there is there; points, level, history of points, team row and
vector of a provider belong together; the last PRD is the one that is downloaded; every
finding of a review has one thread, and the last push is reported.

## Modules

| module | what it is |
|---|---|
| `BidMatching` | one project from draft to in-progress or closed, its bids, and the requests that change them |
| `ProjectLifecycle` | the abstract life cycle: status and provider, one action per kind of request |
| `MCBidMatching` | instance for TLC: the symmetry of handlers and providers |
| `BidMatchingProofs` | the theorems about `BidMatching` |
| `Milestones` | one project from alignment to completion, its milestones, the requests that change them, and the AI agent's plans |
| `Delivery` | the abstract specification of milestones and project status |
| `MCMilestones` | instance for TLC: plans, symmetry |
| `MilestonesProofs` | the theorems about `Milestones` |
| `Engagement` | the abstract specification of a project's match: provider and agreed price. `BidMatching` implements it, `ProjectOrders` runs against it |
| `ProjectOrders` | the payment orders of one project, while its match comes and goes |
| `MCProjectOrders` | instance for TLC: symmetry |
| `ProjectOrdersProofs` | the theorems about `ProjectOrders` |
| `PipelineState` | the state of a project in the AI agent's pipeline, and what of it MySQL keeps |
| `AgentPipeline` | the requests that move projects through the pipeline, await by await |
| `MCAgentPipeline` | scenarios for TLC, symmetry and view |
| `AgentPipelineProofs` | the theorems about `AgentPipeline`, one layer of its invariant after the other |
| `Rating` | pure: points, levels, scores, pages |
| `Providers` | evaluations, adjustments, synced profiles and searches |
| `MCProviders` | scenarios for TLC; `Rating` against its reference over bounded inputs |
| `ProvidersProofs` | the theorems about `Rating` and `Providers` |
| `Documents` | the documents of a project over disk, MinIO and rows |
| `MCDocuments` | scenarios for TLC |
| `DocumentsProofs` | the theorems about `Documents` |
| `PrScope` | pure: which files are reviewed, how they are packed, where a finding stands |
| `PrReview` | review jobs on one pull request |
| `MCPrReview` | instance for TLC; the packing against its reference over bounded inputs |
| `PrReviewProofs` | the theorems about `PrScope` and `PrReview` |
| `FoldFacts` | lemmas the other proofs share: induction over numbers and finite sets, sums, folds, the places of a sort |

### How a request of the server is modelled

`req[h]` is what goroutine `h` is doing: the statement it executes next (`at`) and what
it has read. A request is one action per read that matters and one per commit.
`XxxRead` carries the guards of the code's early returns on the rows it reads and
remembers what the later statements use; `XxxCommit` (or `XxxWrite`) is the transaction
or the single statement. A request the code refuses changes nothing and is no action.
`Serve(h)` is the handler's own next statement, `Arrive(h)` a client's call, `Drop(h)`
the death of a request: it forgets what it read, and its lock is released.

Reads of rows that never change in the part modelled (users, the project's owner, the
bid's bidder) are not kept apart. Notifications, conversation, texts and dates are
left out: nothing decides on them. They sit inside the same transactions, so their
failure is a `Drop` before the commit.

### BidMatching

| variable | code |
|---|---|
| `project` | the row of `projects`: status, provider_id, bid_id, team_id, agreed_price, owner_aligned, provider_aligned, bid_count |
| `bids` | the rows of `bids` of this project by primary key: bidder_id, team_id, price, status, is_ai_recommended |
| `lastBid` | the AUTO_INCREMENT counter |
| `req` | the goroutines |

All operations of BidService and those of ProjectService up to status 5 are actions.
`ResetCommit` is the transaction RejectBid and CancelMatch have in common. `AcceptCommit`
saves the bid row as it was read, so it undoes what was committed to that row in between,
as gorm's `Save` does; the others write columns. ConfirmBid checks and then calls Accept,
which reads the bid a second time: `ConfirmRead`, `ConfirmAccept`, `AcceptCommit`.
QuickMatch, despite its comment, accepts nothing; its four statements commit one by one.
`FindPendingByProjectAndBidderID` orders by `created_at`, which counts whole seconds, so
with two pending bids of one provider `QuickFind` takes any of them.

### Milestones

| variable | code |
|---|---|
| `status` | `projects.status`, 4 to 7 |
| `ms` | the rows of `milestones` of this project: sort_order, payment_ratio in 1/100 percent (DECIMAL(5,2)), status; `planned` says that the AI agent wrote it |
| `lastMs` | the AUTO_INCREMENT counter |
| `lock` | which transaction holds the project's row |
| `req` | goroutines and tasks of the AI agent |

Create takes the lock (`MsLock`), sums and settles the order on one snapshot
(`MsCheck`; InnoDB's REPEATABLE READ takes it at the first plain SELECT, after the
lock), and inserts (`MsInsert`). Updates of the project's row (`SetProject`) wait for
the lock; reads do not. Deliver, Accept and RequestRevision save the whole row they
read (`SaveRow`), which inserts a row again that a plan deleted meanwhile;
StartMilestone and CompleteMilestone write columns, which leaves a deleted row
deleted. `PlanWrite` is the AI agent's transaction: it deletes all milestones and
inserts the plan without the lock.

### ProjectOrders

| variable | code |
|---|---|
| `provider`, `price` | `projects.provider_id`, `agreed_price` |
| `orders` | the rows of `orders` of this project: payee_id, amount, status |
| `lastOrder`, `lock`, `req` | as above |

CreateOrderByOwner reads the project (`OrderRead`), then in one transaction locks its row
(`OrderLock`), looks for a pending order (`OrderFind`, where InnoDB takes the snapshot)
and inserts (`OrderInsert`). Prepay reads an order and saves it as paid, without a lock
and whatever its status. Instead of bids the module has `Rematch`: a step of `Engagement`
that waits for the lock. `BidMatching!ImplementsEngagement` is what makes that sound:
bids change provider and price in no other way. Payment itself is a mock in the code;
no other order status is ever written.

The tolerance of 0.0001 percent in Create's sum does not matter: stored ratios have two
decimals, so a sum that passes with the tolerance rounds to at most 100 percent.

### PrScope and PrReview

`PrScope` holds the script's pure functions over abstract files (a text is its length, a
patch the kinds of its lines). `PrReview` is the job: one action per request it sends to
GitHub or to the model. `threads`, `reviews` and `comments` are GitHub's; `job` is what
the script has read and decided; `queued` is the workflow's concurrency group, in which
a newer job replaces a waiting one and `CancelJob` ends the running one between any two
requests. `RequestFails` ends a job with an error wherever it sends one.
People resolve, reopen and write in between. Left out: prompts and wording, the result
file, and the counts the summary prints.

### PipelineState and AgentPipeline

| variable | code |
|---|---|
| `cache`, `hcache` | Redis: state and history of a project, until they expire |
| `stages`, `hrows` | MySQL: `ai_project_stages`, the messages of the conversation |
| `docs`, `tables` | which project's or request's work is in each document, and in the PRD items, tasks and milestones |
| `unsaved` | writes to those tables that have been fired off with `asyncio.create_task` |
| `agents` | the fields of the shared agents: the project each works on, the requirement agent's sub-stage and `_stream_result` |
| `handlers` | the requests under way: the steps a request has before it (`todo`) and what it does if one raises (`catch`) |

A request's program is its sequence of awaits (`start_requirement`, `send_message`, ...);
`GetProject`, `SelectProject`, `RefillProject` are the three awaits of
`get_project_state`, `SaveProject` and `PersistProject` those of `save_project_state`.
`AnswerTool` executes what the model calls, `ExecuteTool` is the same in a stream, where
another await lies before it. What the model answers is a choice among the tools
offered, and so is what a tool makes of it (`ExecutesTool`): the sub-stage is set first;
the document is written only if the model gave a text for it and the writer does not raise,
which the loop swallows (`FilesOf`); each list of rows is stored only if it is not empty
(`ListsOf`, `Stores`), and the file that `save_document` writes is the model's to name.
To keep the runs small a scenario says which tools are `loose`, that is, have these outcomes
beside the complete one; the theorems hold for every choice, all tools included. The agents
belong to a process, and the module has the requests of one process:
overlaps between the two, which share the stores but no agent, are not in it. Left out: several tool calls
in one answer (one each), the PRD's text in the prompt,
session identifiers, and the path of the documents in the state.

`seen` remembers what the properties must except: projects two of whose requests overlapped
(`crowded`), that shared an agent with another project (`mixed`), whose streamed message
was refused (`refused`), one of whose writes was lost (`torn`), whose stores could not be
read (`blind`), that began its conversation anew over an older one in MySQL: a start whose
`persist_history` was lost, after which a message stores the shorter history (`over`), whose
last decomposition that gave tasks or milestones gave only one of the two (`halved`). A property excepts only the marks it needs: each exception is a behaviour
of the code that the run reaches, and the property fails without it. The same holds
of the marks in `Providers` and `Documents`.

### Rating and Providers

| variable | code |
|---|---|
| `profiles`, `logs`, `teams` | `ai_provider_profiles`, `ai_vibe_power_logs`, the server's `teams` |
| `vectors` | the providers' collection in Milvus, which has no unique key |
| `results` | `ai_match_results` |
| `agents` | the fields of the rating agent of each process: whose resume was parsed, scored, reported, and with what |
| `handlers` | the requests under way and the process each runs in |

Every transaction of `_do_evaluate`, of the stream's variants, of `adjust_points` and of
`sync_provider_profile` is an action; the upsert of a vector is `DeleteVector` and
`InsertVector`, during which the process runs nothing else. The ORM writes only columns
that were changed, which `Written` follows. Shares and factors are in thousandths, with
divisions rounded down where the code keeps a float. Points are integers of any sign,
because nothing checks what the model claims in its report. The weight of a level,
names and texts are left out. `seen` marks providers two of whose requests overlapped
(`crowded`), who were evaluated while another was in the same process (`mixed`), whose
writes were interrupted (`torn`), and whose profile the server sent last (`synced`).

### Documents

| variable | code |
|---|---|
| `local`, `objects` | the disk and MinIO: which content is at each name and version |
| `rows` | `ai_documents` |
| `items`, `overview` | `ai_prd_items`, `ai_project_overview`: of which content they were made |
| `tasks` | tasks nobody waits for, and the process they die with |

A content is the number of the save that wrote it. A save is `WriteLocal`, `PutObject`
and, later, `RunTask` for the row; an upload goes on with `CleanStale` and
`delete_documents_by_ids`. A redeployment empties the disk. Rows an earlier release may
have left (another file name, two versions) are among the initial states.
`seen` marks two overlapping saves of one document (`crowded`), a save below the version
the rows already had, which follows an emptied disk (`older`), a lost row or an
interrupted request (`torn`), a document only the emptied disk had (`lost`), and
overlapping plans (`mixed`).
`DocumentWriter.new_version` has no caller in the service and is left out, like
presigned URLs and lists of documents. A download by id asks for the newest row of the PRD
and ends with 404 if there is none (`Unlisted`).

Close of a completed project and the administrator's direct writes of the status are
not in `Milestones`; leaving them out keeps its status between 4 and 7.

## Runs

| run | instance | states | question |
|---|---|---|---|
| `matching_concurrent` | 2 handlers, 2 providers, 1 team, 1 price, 2 bids, faults | 493 000 | what stays true of project and bids whatever two requests do to each other |
| `matching_crash` | 1 handler, 2 providers, 2 prices, 2 bids, faults | 74 000 | what holds when requests are served one at a time but may die half way; the project follows `ProjectLifecycle` |
| `matching_fair` | 2 handlers, 2 providers, 1 bid, fairness | 8 500 | racing confirmations of the alignment cannot miss each other |
| `milestones_concurrent` | 2 handlers, 2 milestones, ratios 40 % and 70 %, orders given or not, faults | 182 000 | the lock keeps the sum and the orders right |
| `milestones_serial` | 1 handler, 4 milestones, plans of two halves, faults | 913 000 | each request is one step of `Delivery` |
| `milestones_fair` | 2 handlers, 2 milestones, fairness | 18 000 | the last completion submits the project |
| `orders_concurrent` | 2 handlers, 2 providers, prices 0 and 100, 3 orders, faults | 2 100 | one order to pay at a time, whatever two requests and the match do |
| `review_jobs` | 2 pushes, 1 repetition, 1 act of a person, 4 files, faults, fairness | 102 000 | no file is lost, no finding gets a second thread, threads follow findings, the last push is reported |
| `pipeline` | 2 projects, 12 scenarios of 2 or 3 requests, 2 at once or 1 with up to 2 troubles, tools that bring less than they should | 1 335 000 | histories, documents and rows stay with their project, a design that is said to be there is there, no plan is mixed of two decompositions, the stores agree, nothing is lost |
| `providers` | 2 providers, 2 processes, 7 scenarios of 2 or 3 requests, 2 at once or 1 with a trouble | 563 000 | profile, points, level, team row and vector belong together; pages, levels and scores over bounded inputs |
| `documents` | 2 processes, 6 scenarios of 2 or 3 requests, up to 2 at once, up to 2 troubles | 113 000 | every reader gets the last PRD, an upload leaves one, a reanalysis replaces all it should |
| `finding_profile_vector` | as `providers` | 460, to the violation | refutes: a rated provider can be found by the search |

The invariants `MatchingInv`, `MilestonesInv`, `OrdersInv`, `ReviewInv`, `ProvidersInv` and
`DocumentsInv` are conjunctions of named parts, the type invariant first; four of them are
the inductive invariants of the proofs. `MatchingRulesSound` and `PackingSound` compare pure
operators with a reference over all bounded inputs and are evaluated at the initial states.

**Bounds.** `MaxBids` and `MaxMilestones` bound the tables; `RoomForBid` and `Room` count
the insertions on their way, so that the bound stops a request before it starts and
never half way. Two handlers suffice for every race between one read and one write;
the theorems do not depend on the number. Two providers and two bids give a match, a
leftover bid and a change of provider. Two prices tell a quoted from an agreed price, in
`matching_crash`; `matching_concurrent` has one price to keep its state space small.
Ratios of 40 and 70 percent fit alone and twice 40, but not 70 with either. Three orders
let one be paid while two more are asked for; a price of 0 shows the refusal of an
unpriced order. Handlers and providers are interchangeable (`ActorSymmetry`,
`HandlerSymmetry`); runs of liveness use no symmetry.

The Python modules take their bounds from *scenarios*: where the projects or rows stand,
which kinds each request may be (`asked`), how many run at once (`width`) and how many
troubles come (`troubles`). Two overlapping requests show every race between them; one
at a time, with a trouble anywhere, shows every partial failure and what the next
request makes of it; the third request reads what the first two left. In `MCPrReview` the third of four files does not fit the chunks and the fourth is past
the limit of files; a page has one entry (`PageSize`) instead of a hundred, so that both
sides of its edge are reached. In `MCProviders` scores of 100 give exactly 749
points, a claim of 760 is within the tolerance of 20 and one of 800 is not. Processes and
slots are interchangeable, in `MCAgentPipeline` projects too; its `VIEW` hides fields of
agents nobody runs, which are set before they are read again.

**Deadlock** is not checked: a server nobody can usefully call is not stuck. With the
table full, or the project closed or completed, no further call changes anything.

**Fairness.** `BidMatching!FairSpec` is weak fairness of each handler's own next
statement: the Go scheduler and the database do not starve a goroutine, and no
statement there waits for a lock. In `Milestones!FairSpec` it is strong, because Create
and the updates of the project's row wait for a lock that others keep taking and
releasing, and InnoDB grants a row lock first come, first served. Clients' calls and
deaths of requests are never fair. `PrReview!FairSpec` says that GitHub starts a waiting job
and that no job runs for ever (`[]<>At("idle")`: GitHub limits the time of a job, and it
does not matter here whether it ended or was killed); pushes, people and failing requests are not
obliged to anything. The AI agent's modules state no fairness: what a language model
answers decides whether anything comes of a request, and nothing obliges it.

### Where code and documents disagree

`finding_profile_vector` refutes a line of the repository. `routers/rating_router.py:31`
says that a rated provider's profile is put into Milvus for matching, but line 45 joins
the skills as if they were strings, while the server's sync (lines 619-624) and the
schema of `parse_resume` give objects: the join raises, line 63 logs it, and the provider is
never found.

Further behaviours of the models that a comment or an error text of the repository speaks
against. They are reached by the models and stated here rather than by runs of their own:

* *RejectBid and CancelMatch reset the project for any pending bid*
  (`service/bid_service.go:532`). `model/project.go:30` knows only the step from matched back
  to published. Refusing a leftover bid sends a project that is under way back to
  published with its provider cleared, a closed project included. Accept has the same
  gap: it checks the bid, never the project's status.
* *Withdraw writes over an acceptance* (`service/bid_service.go:707`, against line 683): the
  project stays matched to a withdrawn bid. QuoteBid (line 676) has the same gap.
* *A late submission reopens a completed project* (`service/mgmt_service.go:555`, against
  `model/project.go:27`).
* *Two units for payment_ratio*: the AI agent stores 0.5 for half
  (`ai-agent/app/tools/agent_tools.py:271`), the server's sum reads it as half a percent, so
  the limit of 100 percent (`pkg/errcode/errcode.go:243`) is no limit after a plan.
* *An order for somebody else* (`service/pay_service.go:129`, against line 32): the payee is
  read before the lock, so an acceptance in between leaves an order to the former
  provider.
* *A confirmed design that ends in a ValueError* (`pipeline/project_state.py:77`, against its
  docstring): the stage restored from MySQL may be `pm`, which `STAGES` lacks
  (`AgentPipeline!ServerError`).

* *A sub-stage without its document* (`agents/requirement_agent.py:145`, 167): `prd_draft` and
  `tasks_ready` are set before the document is written, which happens only if the model gave a
  text for it, and an error of the tool leaves the sub-stage (`agents/base_agent.py:221`).
  `ai-agent/FRONTEND_FLOW.md:154` takes `prd_draft` for "the PRD has been generated" and lets the
  client show it. Only the design is looked for on the disk before its stage is set
  (`routers/design_router.py:52`), so `StatusEarned` speaks of the design alone.
* *Half a plan* (`agents/requirement_agent.py:173`): a decomposition that gives tasks and no
  milestones, or the reverse, leaves the other half of the one before beside its own. The
  next decomposition with both puts it right, which `PlanWhole` says.

No line of the repository states the opposite of these plainly: the alignment flags are
never cleared, so after a rejection and a new match the new provider counts as having
confirmed; an unpaid order outlives its match and blocks the next; a streamed message
that is refused stores the previous stream's messages, maybe another project's; two
evaluations in one process may store each other's result; an adjustment of points
leaves the vector as it was; a reanalysis takes the first row with the PRD's name, not the
newest.

## Proofs

Seven `...Proofs` modules, with `FoldFacts` beneath four of them, prove the following for every value of the
constants that satisfies the modules' named assumptions, with and without faults. A theorem of
the form `Spec => []...` holds of every specification the runs use: those with fairness
imply `Spec`.

| theorem | states |
|---|---|
| `BidMatchingProofs!MatchingInvariant`, `TypeCorrect` | `[]MatchingInv`, `[]TypeOK`: in particular bid_count never goes negative |
| `MatchStaysWhole` | `[]MatchIsWhole`: provider_id and bid_id belong to the same match |
| `NoOneSidedAlignment` | `[]AlignedByBoth`: an aligned or started project was confirmed by both parties |
| `EngagedStaysPriced` | `[]EngagedIsPriced` |
| `NoBidReopens` | `NeverPendingAgain`, an action property |
| `MatchingImplementsEngagement` | `ImplementsEngagement`: a refinement, each step an acceptance, a dissolution or a stutter |
| `SerialInvariant`, `MatchIsAccepted`, `RecommendedOnce`, `CountIsBounded` | while no two requests overlap (`[]OneAtATime`): `MatchedBidAccepted`, `OneRecommendation`, `BidCountAtMost` |
| `MatchingImplementsLifecycle` | under the same condition the refinement `AtomicLifecycle` |
| `MilestonesProofs!MilestonesInvariant`, `TypeCorrect` | `[]MilestonesInv`, `[]TypeOK` |
| `CreatesExclude` | `[]LockHeld`: Create's critical sections exclude each other, though requests die |
| `DefaultOrdersDiffer` | `Plans = {} => []NextOrderFree` |
| `RatiosAreCapped` | `Plans = {} => []RatioCap`: the milestones never promise more than the whole payment, whatever overlaps or dies |
| `SerialInvariant`, `NextOrderStaysFree` | under `[]OneAtATime`: `NextOrderFree`, plans included |
| `MilestonesImplementDelivery` | under the same condition the refinement `AtomicDelivery` |
| `ProjectOrdersProofs!OrdersInvariant` | `[]OrdersInv` |
| `NoDoubleOrder` | `[]OnePendingOrder`: never two orders to pay |
| `ProvidersProofs!ProvidersInvariant` | `[]ProvidersInv` |
| `EvaluationsStayApart` | `[]FoundTogether`: what was found about one provider is in another's profile only if both were evaluated while another was in the same process |
| `FoundAreRated` | `[]VectorBacked`: whatever overlaps or fails, whoever the search finds has a profile |
| `LevelIsOne`, `MorePointsNoLowerLevel` | every number of points has one of the ten levels; more points never a lower one; an evaluation alone never one above the fifth |
| `RatedInvariant`, `LedgerIsReplayed`, `TeamsFollow`, `LevelsAreEarned`, `VectorsAreCurrent` | `LedgerReplays`, `TeamFollows`, `LevelEarned`, `VectorCurrent`: points, history of points, team row, level and vector of a provider belong together unless its requests overlapped or were interrupted |
| `BestComeFirst` | `[]RankingSound`: what a search recommends from its scores has the best first, and no provider twice unless its requests overlapped |
| `EachOnOnePage`, `MoreSkillsNeverHurt` | turning pages of any size shows every candidate exactly once; knowing more never lowers a score, whatever the demand |
| `AgentPipelineProofs!ControlInvariant`, `TypesAreKept` | every request is at a step its program has; `[]TypeOK` |
| `ProductsAreOwn`, `HistoryIsOwn` | documents, rows and messages of a project are its own unless an agent was shared |
| `PlansAreWhole` | `[]PlanWhole`: tasks and milestones are of one decomposition, whatever the tools leave out, once the last one that gave either gave both |
| `StatusIsEarned` | `[]StatusEarned`: a design that waits for its confirmation, or has it, is on the disk, whatever runs overlap and whatever their tools do |
| `StoreInvariant`, `StoresStayAgreed` | Redis and MySQL agree on a project nobody works on |
| `HistoryStaysKept`, `StagesStayApart` | action properties: no stored message is lost, work on one stage leaves the others alone |
| `DocumentsProofs!PlansStayWhole`, `ReanalysesAreExact` | after a reanalysis that nothing overlapped, items and overview are of its document |
| `StoresKeepOrder` | `[]Inv`, the inductive invariant of disk, MinIO, rows and tasks |
| `RowsLeadToDocuments` | `[]DocumentsInv`: whatever overlaps, fails or restarts, at rest every row leads to its document |
| `UploadsReplace` | `[]UploadReplaces`: after an upload one row is left that is a PRD |
| `DownloadsAreLast`, `DownloadsAreFresh` | `[]DownloadIsLast`, `[]DownloadFresh`: at rest the last PRD is served; beside uploads and failing reads never one older than the download found complete |
| `PrReviewProofs!PackingHolds` | for every sequence of sections `PackingIsSound`: nothing lost or doubled, order kept, both limits kept |
| `JobInvariant`, `ReviewsAreOrderly` | `[]ReviewInv`: every changed file is reviewed or reported, once; one review and one summary per page |
| `KeysStayUnique` | `[]ThreadKeysUnique`: no finding gets a second thread, however jobs repeat, fail and are cancelled |
| `FindingsAreTracked`, `ThreadsAreSettled` | after a publication each finding has its thread, and the threads are open exactly when they should be, but for what people touched |

**BidMatching.** None of the three safety invariants is inductive: what a handler read
may be stale. `MatchingInv` adds what a handler knows that no other request can take from
it (`InFlight`): the bid it is about exists and keeps its bidder, because no statement
changes `bidder_id`; a price was agreed before anybody could confirm, because
agreed_price is never cleared; and a handler about to write status 4 or 5 saw both
flags, which are never cleared either. The same fact that makes the alignment flags
stale makes `AlignedByBoth` provable. `Issued` says that keys are handed out in order, so a
new bid is one no handler can know. The proof has one lemma per commit; the steps that
only read share `ReadStep`.

`MatchedBidAccepted`, `OneRecommendation`, `BidCountAtMost` and the refinement of `ProjectLifecycle` are false
when requests overlap (see the divergences above), so their theorems assume
`[]OneAtATime`: no two handlers are busy at once. Every behaviour of a run with one handler
satisfies it, and so do any number of handlers that take turns; requests may still die
anywhere. `SerialInv` then says that what a handler read is what the database holds
(`Fresh`), for each statement the part that its write relies on; for the
counter, that it is at most the cardinality of a set that the statements change one bid at a
time (`BidsFinite`).

**Milestones.** `LockHeld` ties the two stages inside Create's transaction to `lock`.
`NextOrderFree` needs that nobody else inserts while a Create holds the lock, that saving
a row keeps its order, and that no row comes back that was deleted, which is where
`Saved` and the assumption `Plans = {}` come in: with the agent's plans it is false, since a
plan is written between Create's SELECT MAX and its INSERT. `RatioInv` strengthens `RatioCap`
by what requests know (`FitsOK`): the row Create is about to insert still fits, since the lock
lets no other be inserted meanwhile, and a row about to be saved has the ratio that is stored.
That a sum over a set of rows takes one row more is `FoldFacts!SumTakes`. With plans `RatioCap` is false,
since a plan's ratios are in another unit. `SerialInv` and the refinement of `Delivery` follow
the same plan as in `BidMatching`.

**ProjectOrders.** `OnePendingOrder` needs to know that the project still has no pending order
when one is inserted (`StillNonePending`); that needs the inserting handler to hold the
lock (`LockHeld`), and that what others save is never pending: an order about to be
inserted is (`Known`), a payment is not.

**Providers.** `VectorBacked` needs that a request which is about to write points, team row
or vector has a profile (`ProfileKept`): no action deletes one, every such step comes after
the profile's, and a failed write ends the request (`OnError`). `FoundTogether` is no part of
the invariant; it follows from two parts that follow the shared fields. A request resets them when it begins, so what
they hold of another provider was written by an evaluation beside it, and both are marked
(`FieldsOwn`); the same holds of the profile it carries (`StoredOwn`). Both evaluations of an overlapping pair must be marked, not
only the one that came later (`MixedMarked`), since either may store the other's result.
Storing a profile then keeps `FoundTogether`, an adjustment does not change whose it is, and no
mark is taken away (`FoundStep`).
`InFlight` is the type of what a request carries, which depends on its kind and step.
For the levels, `LevelBounds` says that the bounds of `VIBE_LEVELS` rise without a
gap; the rest is arithmetic on them.

`RatedInv` is about providers that were neither `crowded` nor `torn`. At most one request is on the
way for such a provider (`OneRates`), and `RatedView` says for each of its steps which of the
stores already have the new points and which still have the old: profile, history,
team row, vector, in the order of `_do_evaluate` and of `adjust_points`. That the points are
what the history adds up to is a fold over a sequence that grows by one entry
(`FoldFacts`).

`RankInv` follows a search. A request has a number of its own and no results stored under it
until its last step (`NumberInv`); a provider that is not `crowded` has at most one vector, and
none between the two halves of an upsert, which needs `OneRates` (`SingleInv`); so the hits of a
search, its sorted page and its rows name each such provider once, and pages and rows are in the
order of the scores (`FoundInv`). `sort_candidates` is a permutation because the places of the
candidates, counted from those they come behind, are all taken (`PlacesTaken`). The page may be
any number: the slice of page 0 is empty, as in Python. What a language model answers instead of
the scores may be in any order, and the property does not speak of it.

**AgentPipeline.** The invariant has layers, each proved from those before it. `ControlInv`: what
a request still has to do is a rest of the program of its kind, and it carries a state of
its own project. `OwnerInv`: an agent's fields hold the project of the request that runs it,
or one that shared it and is marked `mixed`; so what a tool writes is that project's.
`HistoryInv`: the messages a request or the agent carries are of their project unless it
is `mixed` or `refused`. `StatusInv`: every copy of a project's state, in Redis, in MySQL and with a
request, that claims a design belongs to a project whose design is on the disk; no document
is ever taken away, so it needs nothing of the agents. `PlanInv`: the rows a plan has still
to write belong to one turn, and where it has only one of the two left, the other is in its
table already; a decomposition that gives half a plan takes the project out of it until the
next whole one. `StoreInv`: for each project that
is not `crowded`, at most one request is under way (`OnlyOne`), and its next step says how Redis, MySQL and
what it carries differ: the state (`StateView`), the stage about to be saved
(`StageView`), the messages (`TalkView`). Each layer has one lemma per await; the programs are
sequences of which the provers see only the first step and the rest.
`HistoryStaysKept` needs the mark `over`, which TLC showed first: without it the invariant was false.

**Documents.** `PlanInv` says that while no two plans overlapped and no step was lost, at most one
request plans, none does while a task still writes what an earlier one found, and a
planner past the deletion of the items is alone until it has written them and the
overview.

The four properties of the stores follow from one invariant, `Inv`, whose parts build on each
other; most of them name the history they need.
`StoreInv` (no condition): nothing has a version above `Top`, the newest an earlier release
left, so that an upload always writes `PrdKey`, the PRD of that version; and under the names an
earlier release had for the PRD there are only its own rows. `OwnInv` (no condition): the
number of a row stands for one key in the table, in what a request read of it and in every task, so
that a cleanup by numbers removes what it means to. `OrderInv` (not `crowded`): a save under
way is alone with its document. `LowInv` (nothing `Collided`): a save of a PRD below the newest follows an
emptied disk and is never beside an upload. `CoverInv`: each upload has read every row it
must remove. Then `FileInv`: a row or task has its file until the upload that removes it has
only the row left to delete; the files go first, and the same file is never another row's.
`UploadedInv`: once an upload wrote, the stale rows are on its list or gone, and the new row
is there or in a task. `PrdInv` follows the latest PRD from the disk (`DiskInv`) over MinIO to its task
and row (`LastInv`), and says which contents a download that read the rows earlier can
still meet (`FreshInv`). All parts were first checked by TLC as invariants, on the instance
of the run, on a larger one and by simulation.

**PrReview.** The pure functions come first. A fold over a sequence is unrolled into a run of
values (`PackRuns`, `KeptRuns`, `NewRuns`), and what holds of a run is shown place by place (`UpToLast`).
`StableSort` is a permutation because the places of its elements differ (`PlacesTaken` of `FoldFacts`). `Packing`
is the invariant of the packing loop: the chunks so far are cut out of the sections one after the
other, the current one goes on from the last cut, and what is omitted lies behind it. Then the
job: `JobInv` types it and says that its findings differ in their keys (`Apart`, from the
merge); `PageInv` that a job about to publish has not found its head on the page; and `SyncInv`, with
`OnTheWay`, that behind the thread at hand the listed ones are settled and exactly their
wanted keys tracked, while the others are as they were listed, but for those that people
touched. `create_pull_request_review` then opens only keys that are not tracked, hence of no listed thread; since one
job runs at a time, the listed threads are all there are.

**The refinement.** That Accept's commit is a step of `Engagement` rests on `InFlight`: the
bidder and the price it writes were read from a bid that exists.

**Induction.** The induction theorems of the library take an operator as parameter, which no
installed prover can instantiate. `FoldFacts` proves induction for sets instead (`NaturalsFrom`,
`UpToLast`, `SubsetsFrom`), from the well-foundedness of the natural numbers, and from it
that a fold over a finite set has the value its recursion says (`FoldExists`,
`FoldUpwards`). The folds of the models are over sets and sequences that the state bounds, so this is enough.

**Assumptions.** Each constant's are named in the module that declares it. Beside bounds and types:
`MatchingAssumption`, `MilestonesAssumption` and `OrdersAssumption` keep the null value apart from keys; `Named`
says that no project has the name of the absent one and `Standing` that a scenario's
projects are in states `init_project` and the stages lead to, with the design on the disk if
the stage claims one; `Asking` and
`ScenarioAssumption` that scenarios ask for requests there are; `Listed` that a pull
request has finitely many files, `Found` and `Inherited` that findings and old threads say which file
and severity they have. Of `Providers`, `UsersKnown` and `Demanded` give rows of users and the demand their
types; a demand names finitely many skills. Of `Documents`, `NilAssumption` keeps the null value apart from rows; `Leaving` says what
an earlier release can leave: rows with numbers before all others, kept in MinIO, versions
from one, and a PRD at the newest version, since the stages after the first need it; and
`Saving` that the agent gives the stage of the PRD to `requirement.md` only
(`requirement_agent.py:160`) and saves nothing else under a name an earlier release had for the
PRD. The second half of `Saving` is about what the language model answers: the file name of the
`save_document` tool is its choice, and if it takes such a name, the save turns the old PRD's
row into another document's, and the properties no longer hold. `Stage` has the stages that callers of
`save_document` give.

**Only model-checked.** Liveness (fairness and ENABLED are beyond the prover): `LastPushReported` and
the properties of `matching_fair` and `milestones_fair`. Of the invariants only
`MatchingRulesSound` and `PackingSound`, comparisons over bounded inputs: they show that the mutants of
the pure functions break something, and what they compare is proved for every input, the second by
`PackingHolds`, the first by `LevelBounds` (one level for every number of points the levels
reach), `MorePointsNoLowerLevel`, `EachOnOnePage` and `MoreSkillsNeverHurt`.

## Not modelled

* Tasks, teams and invitation codes, favorites, conversations: small services with one row
  or one short transaction per call. Their hazards are the check that locks nothing
  (`service/social_service.go:252`: two primary teams), the counter lowered twice
  (`service/favorite_service.go:209`), the conversation saved whole over a newer one
  (`service/chat_service.go:180`), and a task code given twice after a plan of the AI agent
  replaced the tasks (`ai-agent/app/db/repository.py:537`).
* Administration writes any status by hand; users, authentication, files and the HTTP layer
  are single rows behind unique keys, cryptography and I/O.
* Language models, embeddings and retrieval answer; what they answer is a choice.
* The mobile app and the administration web are clients.

## Plan

1. `TaskCards`: TaskService and the agent's task plans; task codes unique under the
   project's lock as long as plans keep their size.
2. `TeamInvites`: CreateTeam with ConsumeWithTx, and favorites with their counter.
3. Composition of `BidMatching` and `Milestones` over one project row, with Close and the
   administrator's writes.

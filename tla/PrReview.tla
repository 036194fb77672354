------------------------------ MODULE PrReview ------------------------------
(***************************************************************************)
(* The review job of .github/scripts/pr_ai_review.py on one pull request:  *)
(* a job lists the changed files, asks the model chunk by chunk, settles   *)
(* the review threads it opened earlier, posts one review with the new     *)
(* findings and one summary comment.  Jobs are started by pushes and by    *)
(* hand; the workflow (.github/workflows/ai-review.yml) runs one at a time *)
(* and cancels it when a newer one waits.  A job dies at any request that  *)
(* fails.  People resolve and reopen threads and write notes meanwhile.    *)
(***************************************************************************)
EXTENDS PrScope

CONSTANTS Contents,     \* what the pull request may consist of after a push
          Answers,      \* the answers the model may give on one chunk
          Legacy,       \* the threads earlier versions of the script may have left
          MaxComments,  \* AI_REVIEW_MAX_COMMENTS
          PageSize,     \* the 100 entries of the one page that is read
          MaxPushes, MaxDispatches, MaxActs,   \* bounds on the surroundings
          Faults        \* whether requests may fail

ASSUME Bounds == /\ {MaxComments, PageSize, MaxPushes} \subseteq Nat \ {0}
                 /\ {MaxDispatches, MaxActs} \subseteq Nat
\* A pull request has finitely many files; an answer and a thread say which file they are about.
ASSUME Listed == \A c \in Contents : IsFiniteSet(DOMAIN c) /\ DOMAIN c \subseteq Nat /\ c \in [DOMAIN c -> FileInfo]
Thread == [key : Nat \X Severities \X STRING, file : Nat, resolved : BOOLEAN]
ASSUME Found == \A a \in Answers : a.findings \in Seq(Finding)
ASSUME Inherited == Legacy \subseteq Seq(Thread)

VARIABLES head,        \* the number of pushes: the head commit
          content,     \* the changed files at the head
          threads,     \* the bot's review threads, in the order of creation
          reviews,     \* the reviews: the head a bot's review is of, 0 for a person's
          comments,    \* the issue comments: the head a summary is of, 0 for a person's
          queued,      \* a job waits
          job,         \* the running job
          conclusion,  \* of the last job that was not cancelled
          dispatches,  \* jobs started by hand
          acts         \* what people did so far

vars == <<head, content, threads, reviews, comments, queued, job, conclusion, dispatches, acts>>
world == <<head, content, queued, dispatches, acts>>

Person == 0
Idle == [pc |-> "idle"]
At(pc) == job.pc = pc
Key(i) == threads[i].key
Wanted == {build_finding_key(f) : f \in ToSet(job.merged.findings)}
NoReview == [findings |-> <<>>, verdict |-> "pass"]
NoScope == [changed |-> {}, included |-> {}, omitted |-> {}, chunks |-> <<>>]

Init ==
    /\ head = 1
    /\ content \in Contents
    /\ threads \in Legacy
    /\ reviews = <<>>
    /\ comments = <<>>
    /\ queued = TRUE
    /\ job = Idle
    /\ conclusion = "none"
    /\ dispatches = 0
    /\ acts = 0

-----------------------------------------------------------------------------
\* The surroundings.

Push ==
    /\ head < MaxPushes
    /\ head' = head + 1
    /\ content' \in Contents
    /\ queued' = TRUE
    /\ UNCHANGED <<threads, reviews, comments, job, conclusion, dispatches, acts>>

Dispatch ==
    /\ dispatches < MaxDispatches
    /\ dispatches' = dispatches + 1
    /\ queued' = TRUE
    /\ UNCHANGED <<head, content, threads, reviews, comments, job, conclusion, acts>>

\* A person resolves or reopens a thread, or leaves a note or a review.
PersonToggles ==
    /\ acts < MaxActs /\ acts' = acts + 1
    /\ \E i \in DOMAIN threads :
          /\ threads' = [threads EXCEPT ![i].resolved = ~@]
          /\ job' = IF At("idle") THEN job ELSE [job EXCEPT !.touched = @ \cup {i}]
    /\ UNCHANGED <<head, content, reviews, comments, queued, conclusion, dispatches>>

PersonWrites ==
    /\ acts < MaxActs /\ acts' = acts + 1
    /\ \/ comments' = Append(comments, Person) /\ UNCHANGED reviews
       \/ reviews' = Append(reviews, Person) /\ UNCHANGED comments
    /\ UNCHANGED <<head, content, queued, dispatches, threads, job, conclusion>>

\* A waiting job starts when none runs, and has the running one cancelled.
StartJob ==
    /\ queued /\ At("idle")
    /\ queued' = FALSE
    /\ job' = [pc |-> "scope", head |-> head, files |-> <<>>, scope |-> NoScope, reviews |-> <<>>,
               merged |-> NoReview, listed |-> <<>>, left |-> 0, tracked |-> {},
               posted |-> {}, synced |-> FALSE, touched |-> {}]
    /\ UNCHANGED <<head, content, threads, reviews, comments, conclusion, dispatches, acts>>

CancelJob ==
    /\ queued /\ ~At("idle")
    /\ job' = Idle
    /\ UNCHANGED <<world, threads, reviews, comments, conclusion>>

\* A request of the job fails: the exception leaves main.
RequestFails ==
    /\ Faults /\ ~At("idle")
    /\ job' = Idle
    /\ conclusion' = "error"
    /\ UNCHANGED <<world, threads, reviews, comments>>

-----------------------------------------------------------------------------
\* The job, in the order of main.

\* The files listed are those of the head now, whatever head started the job.
BuildScope ==
    /\ At("scope")
    /\ job' = [job EXCEPT !.pc = "ask", !.files = content, !.scope = build_review_scope(content)]
    /\ UNCHANGED <<world, threads, reviews, comments, conclusion>>

\* The answer on the next chunk; the last one is followed by the merge.
Answered(review) ==
    LET answers == Append(job.reviews, normalize_review(review))
        done == Len(answers) = Len(job.scope.chunks)
    IN  job' = [job EXCEPT !.reviews = IF done THEN <<>> ELSE answers,
                           !.pc = IF done THEN "find_review" ELSE "ask",
                           !.merged = IF done THEN merge_reviews(job.scope, answers) ELSE @]

\* The responses API answers, or its failure leads to the chat API.
AskResponses ==
    /\ At("ask")
    /\ \/ \E review \in Answers : Answered(review)
       \/ Faults /\ job' = [job EXCEPT !.pc = "fallback"]
    /\ UNCHANGED <<world, threads, reviews, comments, conclusion>>

AskChatCompletions ==
    /\ At("fallback")
    /\ \E review \in Answers : Answered(review)
    /\ UNCHANGED <<world, threads, reviews, comments, conclusion>>

Page(entries) == {entries[i] : i \in DOMAIN entries \cap 1..PageSize}

\* Mutant: a repeated job does not look for the review it already gave.
find_existing_review_never ==
    /\ At("find_review")
    /\ job' = [job EXCEPT !.pc = "list_threads"]
    /\ UNCHANGED <<world, threads, reviews, comments, conclusion>>

\* Mutant: the early return skips the summary too.
find_existing_review_ends_job ==
    /\ At("find_review")
    /\ IF job.head \in Page(reviews)
       THEN job' = Idle /\ conclusion' = "success"
       ELSE job' = [job EXCEPT !.pc = "list_threads"] /\ UNCHANGED conclusion
    /\ UNCHANGED <<world, threads, reviews, comments>>

\* A review of this head on the page ends the publication.
find_existing_review_for_head ==
    /\ At("find_review")
    /\ job' = [job EXCEPT !.pc = IF job.head \in Page(reviews) THEN "comment" ELSE "list_threads"]
    /\ UNCHANGED <<world, threads, reviews, comments, conclusion>>

list_pull_request_review_threads ==
    /\ At("list_threads")
    /\ job' = [job EXCEPT !.pc = "sync", !.listed = threads, !.left = Len(threads), !.touched = {}]
    /\ UNCHANGED <<world, threads, reviews, comments, conclusion>>

\* Mutant: a resolved thread of a finding that came back stays resolved.
SettledNoReopening(i) ==
    LET thread == job.listed[i]
    IN  CASE thread.key \in Wanted -> thread.key \in job.tracked \/ thread.resolved
          [] thread.key \notin Wanted /\ thread.file \in job.scope.changed \ job.scope.included ->
               thread.resolved
          [] OTHER -> TRUE

\* Mutant: whatever was not found again is closed, reviewed or not.
SettledUnreviewed(i) == job.listed[i].key \in Wanted => job.listed[i].key \in job.tracked

\* What becomes of the listed thread i: the newest of a wanted key is tracked
\* and open, an older one is closed; others are closed unless their file is
\* changed and was not reviewed.  Its state is the one listed, not the present.
Settled(i) ==
    LET thread == job.listed[i]
    IN  CASE thread.key \in Wanted -> thread.key \in job.tracked
          [] thread.key \notin Wanted /\ thread.file \in job.scope.changed \ job.scope.included ->
               thread.resolved
          [] OTHER -> TRUE

\* Mutant: only the threads that were open are remembered as tracked.
sync_review_threads_open_only ==
    /\ At("sync") /\ job.left > 0
    /\ LET i == job.left
       IN  /\ threads' = IF Settled(i) = job.listed[i].resolved THEN threads
                         ELSE [threads EXCEPT ![i].resolved = Settled(i)]
           /\ job' = [job EXCEPT !.left = i - 1,
                                 !.tracked = IF Key(i) \in Wanted /\ ~job.listed[i].resolved
                                             THEN @ \cup {Key(i)} ELSE @]
    /\ UNCHANGED <<world, reviews, comments, conclusion>>

\* One thread, newest first.
sync_review_threads ==
    /\ At("sync") /\ job.left > 0
    /\ LET i == job.left
       IN  /\ threads' = IF Settled(i) = job.listed[i].resolved THEN threads
                         ELSE [threads EXCEPT ![i].resolved = Settled(i)]
           /\ job' = [job EXCEPT !.left = i - 1,
                                 !.tracked = IF Key(i) \in Wanted THEN @ \cup {Key(i)} ELSE @]
    /\ UNCHANGED <<world, reviews, comments, conclusion>>

\* The findings with no thread yet that have a line to stand on, in order, up to the limit.
Anchor(f) == IF f.file \in job.scope.included
             THEN build_review_comment_location(job.files[f.file].patch, f.line) ELSE NoLine
WithComment(acc, f) ==
    IF Len(acc) < MaxComments /\ build_finding_key(f) \notin job.tracked /\ Anchor(f) # NoLine
    THEN Append(acc, f) ELSE acc
NewFindings == FoldLeft(WithComment, <<>>, job.merged.findings)

\* All new comments are posted in one review; without any there is no review.
create_pull_request_review ==
    /\ At("sync") /\ job.left = 0
    /\ LET new == NewFindings
           opened(f) == [key |-> build_finding_key(f), file |-> f.file, resolved |-> FALSE]
       IN  /\ threads' = threads \o [n \in DOMAIN new |-> opened(new[n])]
           /\ reviews' = IF new = <<>> THEN reviews ELSE Append(reviews, job.head)
           /\ job' = [job EXCEPT !.pc = "comment", !.synced = TRUE,
                                 !.posted = {build_finding_key(f) : f \in ToSet(new)}]
    /\ UNCHANGED <<world, comments, conclusion>>

\* The first summary on the page is rewritten; else a new one is added.
upsert_issue_comment ==
    /\ At("comment")
    /\ LET mine == {i \in DOMAIN comments \cap 1..PageSize : comments[i] # Person}
       IN  comments' = IF mine = {} THEN Append(comments, job.head)
                       ELSE [comments EXCEPT ![Min(mine)] = job.head]
    /\ job' = Idle
    /\ conclusion' = IF job.merged.verdict = "fail" THEN "failure" ELSE "success"
    /\ UNCHANGED <<world, threads, reviews>>

JobSteps ==
    \/ BuildScope \/ AskResponses \/ AskChatCompletions
    \/ find_existing_review_for_head \/ list_pull_request_review_threads
    \/ sync_review_threads \/ create_pull_request_review \/ upsert_issue_comment

Next ==
    \/ Push \/ Dispatch \/ PersonToggles \/ PersonWrites
    \/ StartJob \/ CancelJob \/ RequestFails \/ JobSteps

Spec == Init /\ [][Next]_vars

\* The runner starts a waiting job, and ends a started one (the time limit of
\* a job, if nothing else); people, pushes and failures are not obliged to anything.
FairSpec == Spec /\ WF_vars(StartJob) /\ []<>At("idle")

-----------------------------------------------------------------------------
\* Types: the shape of the state.
TypeOK ==
    /\ head \in 1..MaxPushes /\ content \in Contents
    /\ \A i \in DOMAIN threads : threads[i].file \in Nat /\ threads[i].resolved \in BOOLEAN
    /\ \A i \in DOMAIN reviews : reviews[i] \in 0..head
    /\ \A i \in DOMAIN comments : comments[i] \in 0..head
    /\ queued \in BOOLEAN
    /\ job.pc \in {"idle", "scope", "ask", "fallback", "find_review", "list_threads", "sync", "comment"}
    /\ conclusion \in {"none", "success", "failure", "error"}
    /\ dispatches \in 0..MaxDispatches /\ acts \in 0..MaxActs

\* Every changed file is either reviewed or reported as omitted, never both,
\* and is in one chunk at most: build_review_scope and pack_review_sections
\* lose no file on the early return at the chunk limit.
EveryFileAccountedFor ==
    ~At("idle") =>
        LET chunks == job.scope.chunks
            files(i) == FilesOf(chunks[i])
        IN  /\ job.scope.included \cup job.scope.omitted = job.scope.changed
            /\ job.scope.included \cap job.scope.omitted = {}
            /\ \A i, j \in DOMAIN chunks : i # j => files(i) \cap files(j) = {}

\* The script opens no second thread for a finding that has one, whatever
\* pushes, failures, cancellations, people and repeated jobs come between:
\* two threads of one key were both there before.
ThreadKeysUnique ==
    \A i, j \in DOMAIN threads :
        i < j /\ Key(i) = Key(j) => \E old \in Legacy : j \in DOMAIN old /\ old[j].key = Key(j)

\* After the publication every finding of the job has a thread, open unless a
\* person closed it since it was listed; or it has no line to stand on; or
\* the limit of new comments is used up.
FindingsTracked ==
    At("comment") /\ job.synced =>
        \A f \in ToSet(job.merged.findings) :
            \/ Anchor(f) = NoLine
            \/ Cardinality(job.posted) = MaxComments
            \/ \E i \in DOMAIN threads : /\ Key(i) = build_finding_key(f)
                                         /\ ~threads[i].resolved \/ i \in job.touched

\* After the publication a thread that was listed and that no person touched
\* since is open exactly when it is the newest of a finding of this job, or
\* was open on a changed file that this job did not review.
ThreadsSettled ==
    At("comment") /\ job.synced =>
        \A i \in DOMAIN job.listed \ job.touched :
            ~threads[i].resolved <=>
                \/ Key(i) \in Wanted /\ \A j \in DOMAIN job.listed : j > i => Key(j) # Key(i)
                \/ /\ Key(i) \notin Wanted /\ ~job.listed[i].resolved
                   /\ threads[i].file \in job.scope.changed \ job.scope.included

\* A head gets a second bot review, and a pull request a second summary, only
\* when the first is past the one page that is read.
OnePerPage ==
    /\ \A i, j \in DOMAIN reviews : i < j /\ reviews[i] = reviews[j] /\ reviews[i] # Person => i > PageSize
    /\ \A i, j \in DOMAIN comments : i < j /\ comments[i] # Person /\ comments[j] # Person => i > PageSize

\* Types, files and pages together: true in every state, on the way of a job or not.
ReviewInv == TypeOK /\ EveryFileAccountedFor /\ OnePerPage

\* Once the pushes stop, the summary of the last head is posted for good, or
\* the last job failed visibly: cancelling a job never leaves the last head
\* without one.
LastPushReported ==
    <>[](head \in ToSet(comments) \/ conclusion = "error")
=============================================================================

------------------------------ MODULE Documents ------------------------------
(***************************************************************************)
(* The documents of one project in the AI agent: each is written to the    *)
(* local disk and to MinIO, and its row in ai_documents follows in a task  *)
(* nobody waits for.  An upload of a PRD replaces the earlier ones, a      *)
(* reanalysis replaces the items and the overview taken from it, and the   *)
(* agent writes documents while it plans.  The service runs in several     *)
(* processes; one is blocked while it writes to disk or to MinIO.  A       *)
(* content is the number of the save that wrote it, 0 is none.             *)
(***************************************************************************)
EXTENDS Integers, Sequences, FiniteSets, FiniteSetsExt

CONSTANTS Worker, Slot, Nil,
          Scenarios,    \* what an earlier release left, whether MinIO is connected, what each
                        \* request may be, how many run at once, how many troubles come
          Extracted     \* the items the model finds in each content

ASSUME Contents == \A c \in DOMAIN Extracted : c \in Nat

PRD_FILENAME == "requirement.md"
PRD_STAGE == "requirement"
Stage == {PRD_STAGE, "ears", ""}
Name == {PRD_FILENAME, "prd.md", "ears-tasks.md"}
Version == 0..2
Key == [name : Name, version : Version]

\* What a request may be: an upload of the PRD, a document the agent saves while it may
\* be planning, a reanalysis, a download by name or by the id of the newest row.
File == [extension : STRING, content_type : STRING, size : Nat, utf8 : BOOLEAN]
Ask ==
    [kind : {"upload"}, name : {PRD_FILENAME}, stage : {PRD_STAGE}, file : File]
    \cup [kind : {"agent"}, name : Name, stage : Stage, plans : BOOLEAN]
    \cup [kind : {"reanalyze"}] \cup [kind : {"download"}, by_id : BOOLEAN]
ASSUME Asking == \A s \in Scenarios : s.asked \in Seq(SUBSET Ask)

Row == [id : Int, path : {"object", "local"}, stage : Stage]
ASSUME NilAssumption == Nil \notin Row /\ Nil \notin [Key -> Row \cup {Nil}]

\* Rows of an earlier release have the first numbers, lead to MinIO, and there is a PRD
\* of their newest version.
ASSUME Leaving ==
    \A s \in Scenarios : LET left == s.left IN
        /\ s.minio \in BOOLEAN
        /\ DOMAIN left \subseteq Key /\ (DOMAIN left # {} => s.minio)
        /\ \A k \in DOMAIN left :
              /\ k.version >= 1 /\ left[k] \in Row /\ left[k].id <= 0 /\ left[k].path = "object"
              /\ \A j \in DOMAIN left : left[j].id = left[k].id => j = k
              /\ k.version = 1 \/ \E j \in DOMAIN left : j.name = PRD_FILENAME /\ j.version >= k.version

\* The agent gives the stage of the PRD to no other document, and saves none under the
\* name an earlier release had for it.
ASSUME Saving ==
    \A s \in Scenarios : \A i \in 1..Len(s.asked) : \A ask \in s.asked[i] :
        ask.kind = "agent" /\ ask.name # PRD_FILENAME =>
            /\ ask.stage # PRD_STAGE
            /\ \A k \in DOMAIN s.left : k.name = ask.name => s.left[k].stage # PRD_STAGE

Item == UNION {Extracted[c] : c \in DOMAIN Extracted}

VARIABLES local, objects,   \* what the disk and MinIO hold at each key
          rows,             \* the table ai_documents
          items, overview,  \* ai_prd_items and ai_project_overview
          tasks,            \* tasks nobody waits for, with the process they run in
          handlers,         \* the requests under way
          scenario, requests, saves, troubles,
          last,             \* the latest content of each name
          plan,             \* what the latest reanalysis to end took its items from
          served,           \* the latest download
          seen              \* what special has happened

stores == <<local, objects, rows, items, overview>>
history == <<last, plan, served>>
vars == <<stores, tasks, handlers, scenario, requests, saves, troubles, history, seen>>

Idle == [pc |-> "idle"]
At(h, pc) == handlers[h].pc = pc
Busy(h) == ~At(h, "idle")
Goes(h, r) == handlers' = [handlers EXCEPT ![h] = r]
To(r, pc) == [r EXCEPT !.pc = pc]

\* Writing to disk, to MinIO and removing what is stale is one stretch without an await.
Blocking == {"put", "clean"}
Free(w) == \A h \in Slot : handlers[h].pc \in Blocking => handlers[h].w # w
Runs(h) == Busy(h) /\ (Free(handlers[h].w) \/ handlers[h].pc \in Blocking)

Init ==
    \E s \in Scenarios :
        LET old == s.left IN
        /\ scenario = s
        /\ local = [k \in Key |-> IF k \in DOMAIN old /\ s.disk THEN 1 ELSE 0]
        /\ objects = [k \in Key |-> IF k \in DOMAIN old THEN 1 ELSE 0]
        /\ rows = [k \in Key |-> IF k \in DOMAIN old THEN old[k] ELSE Nil]
        /\ items = [i \in Item |-> 0]
        /\ overview = 0
        /\ tasks = {}
        /\ handlers = [h \in Slot |-> Idle]
        /\ requests = 0
        /\ saves = 1
        /\ troubles = 0
        /\ last = [n \in Name |-> IF \E k \in DOMAIN old : k.name = n THEN 1 ELSE 0]
        /\ plan = 0
        /\ served = [content |-> 0, floor |-> 0]
        /\ seen = IF s.disk THEN {} ELSE {"bare"}

-----------------------------------------------------------------------------
\* Uploads that are refused change nothing; 413 is for more than max_bytes.
Extensions == {".md", ".markdown", ".txt"}
ContentTypes == {"text/markdown", "text/plain", "application/octet-stream", ""}
Read_upload(file, max_bytes) == IF file.size > max_bytes THEN Nil ELSE file
Accepted(file, max_bytes) ==
    /\ file.extension \in Extensions /\ file.content_type \in ContentTypes
    /\ Read_upload(file, max_bytes) # Nil
    /\ file.size > 0 /\ file.utf8

NeedsRows(ask) == ask.kind = "upload" \/ (ask.kind = "download" /\ ask.by_id)
FirstStep(ask) ==
    IF ask.kind = "agent" THEN "local" ELSE IF scenario.minio \/ NeedsRows(ask) THEN "docs" ELSE "read"

KeysOf(name) == {k \in Key : k.name = name /\ rows[k] # Nil}
Writes(r) == r.ask.kind \in {"upload", "agent"}
Settled(name) ==
    /\ \A h \in Slot : Busy(h) /\ Writes(handlers[h]) => handlers[h].ask.name # name
    /\ \A t \in tasks : t.kind # "record" \/ t.key.name # name
Plans(r) == r.ask.kind = "reanalyze" \/ (r.ask.kind = "agent" /\ r.ask.plans)
Planning == (\E h \in Slot : Busy(h) /\ Plans(handlers[h])) \/ \E t \in tasks : t.kind # "record"

Arrive(h) ==
    /\ ~Busy(h) /\ requests < Len(scenario.asked)
    /\ Cardinality({g \in Slot : Busy(g)}) < scenario.width
    /\ requests' = requests + 1
    /\ \E w \in Worker, ask \in scenario.asked[requests + 1] :
          LET r == [pc |-> FirstStep(ask), ask |-> ask, w |-> w, docs |-> Nil, target |-> 0, content |-> 0,
                    floor |-> IF Settled(PRD_FILENAME) THEN last[PRD_FILENAME] ELSE 0]
          IN  /\ Free(w)
              /\ ask.kind = "upload" => Accepted(ask.file, scenario.max_bytes)
              /\ Goes(h, r)
              /\ seen' = seen \cup (IF Writes(r) /\ ~Settled(ask.name) THEN {"crowded"} ELSE {})
                              \cup (IF Plans(r) /\ Planning THEN {"mixed"} ELSE {})
    /\ UNCHANGED <<stores, tasks, scenario, saves, troubles, history>>

RowsFor(docs, name) == {k \in Key : docs[k] # Nil /\ k.name = name}
\* No row has the id a download asks for: the answer is 404, whatever lies on the disk.
Unlisted(r, docs) == r.ask.kind = "download" /\ r.ask.by_id /\ RowsFor(docs, PRD_FILENAME) = {}

\* get_documents: the rows, in the order of their ids.
get_documents(h) ==
    LET r == handlers[h] IN
    /\ At(h, "docs") /\ Runs(h)
    /\ Goes(h, IF Unlisted(r, rows) THEN Idle
               ELSE [To(r, IF r.ask.kind = "upload" THEN "local" ELSE "read") EXCEPT !.docs = rows])
    /\ UNCHANGED <<stores, tasks, scenario, requests, saves, troubles, history, seen>>

-----------------------------------------------------------------------------
\* DocumentWriter.save_document.

latest_version == Max({0} \cup {k.version : k \in {j \in Key : local[j] # 0}})

IsPrd(key, row) == key.name = PRD_FILENAME \/ row.stage = PRD_STAGE
PrdDocs(docs) == {k \in Key : docs[k] # Nil /\ IsPrd(k, docs[k])}

TargetVersion(docs) == IF PrdDocs(docs) = {} THEN 1 ELSE Max({k.version : k \in PrdDocs(docs)})

SaveVersion(r) ==
    IF r.ask.kind = "upload" THEN TargetVersion(r.docs)
    ELSE IF latest_version = 0 THEN 1 ELSE latest_version
KeyOf(r) == [name |-> r.ask.name, version |-> r.target]

WriteLocal(h) ==
    LET r == handlers[h]
        saved == [To(r, "put") EXCEPT !.target = SaveVersion(r), !.content = saves + 1]
    IN  /\ At(h, "local") /\ Runs(h)
        /\ local' = [local EXCEPT ![KeyOf(saved)] = saved.content]
        /\ saves' = saves + 1
        /\ last' = [last EXCEPT ![r.ask.name] = saved.content]
        /\ Goes(h, saved)
        /\ seen' = (seen \ (IF r.ask.name = PRD_FILENAME THEN {"uploaded"} ELSE {}))
                    \cup (IF r.ask.kind = "upload" THEN {"uploaded"} ELSE {})
                    \cup (IF \E k \in KeysOf(r.ask.name) : k.version > saved.target THEN {"older"} ELSE {})
        /\ UNCHANGED <<objects, rows, items, overview, tasks, scenario, requests, troubles, plan, served>>

\* Mutant: the path in MinIO is stored although the upload failed.
StoredPath_always(uploaded) == "object"
StoredPath(uploaded) == IF uploaded THEN "object" ELSE "local"

\* What a save leaves to tasks: its row, and what a generated PRD says of the project.
Record(r, uploaded) ==
    [kind |-> "record", w |-> r.w, key |-> KeyOf(r), path |-> StoredPath(uploaded), stage |-> r.ask.stage, id |-> r.content]
Planned(r) ==
    IF ~Plans(r) THEN {}
    ELSE {[kind |-> "overview", w |-> r.w, content |-> r.content]}
         \cup IF Extracted[r.content] = {} THEN {} ELSE {[kind |-> "items", w |-> r.w, content |-> r.content]}

Uploads(h, uploaded) ==
    LET r == handlers[h] IN
    /\ objects' = IF uploaded THEN [objects EXCEPT ![KeyOf(r)] = r.content] ELSE objects
    /\ tasks' = tasks \cup {Record(r, uploaded)} \cup Planned(r)
    /\ Goes(h, IF r.ask.kind = "upload" THEN To(r, "clean") ELSE Idle)
    /\ UNCHANGED <<local, rows, items, overview, scenario, requests, saves, last, served, seen>>
    /\ plan' = IF Plans(r) THEN 0 ELSE plan

PutObject(h) == At(h, "put") /\ Uploads(h, scenario.minio) /\ UNCHANGED troubles

\* A row that is there keeps its id.
save_document_record(t) ==
    /\ t.kind = "record"
    /\ rows' = [rows EXCEPT ![t.key] = [id |-> IF @ = Nil THEN t.id ELSE @.id, path |-> t.path, stage |-> t.stage]]
    /\ UNCHANGED <<items, overview>>

\* Those of earlier contents stay, with the texts of the new one where the numbers agree.
WithItems(content) == [i \in Item |-> IF i \in Extracted[content] THEN content ELSE items[i]]
persist_prd_items(t) ==
    /\ t.kind = "items"
    /\ items' = WithItems(t.content)
    /\ UNCHANGED <<rows, overview>>
persist_project_overview(t) ==
    /\ t.kind = "overview"
    /\ overview' = t.content
    /\ UNCHANGED <<rows, items>>

RunTask ==
    \E t \in tasks :
        /\ Free(t.w)
        /\ save_document_record(t) \/ persist_prd_items(t) \/ persist_project_overview(t)
        /\ tasks' = tasks \ {t}
        /\ UNCHANGED <<local, objects, handlers, scenario, requests, saves, troubles, history, seen>>

-----------------------------------------------------------------------------
\* An upload goes on: upload_project_prd_document, _cleanup_stale_prd_documents.

\* Mutant: only documents with another name are stale.
Stale_other_names(r) == {k \in PrdDocs(r.docs) : k.name # PRD_FILENAME}
\* Mutant: the document that was just written is stale as well.
Stale_all(r) == PrdDocs(r.docs)
Stale(r) == {k \in PrdDocs(r.docs) : k.name # PRD_FILENAME \/ k.version # r.target}

InMinio(r, k) == r.docs[k].path = "object" /\ scenario.minio
Without(store, keys) == [k \in Key |-> IF k \in keys THEN 0 ELSE store[k]]

\* What cannot be removed is left behind, and its row goes all the same.
Cleans(h, removed) ==
    LET r == handlers[h] IN
    /\ objects' = Without(objects, {k \in removed : InMinio(r, k)})
    /\ local' = Without(local, {k \in removed : r.docs[k].path = "local"})
    /\ Goes(h, IF Stale(r) = {} THEN Idle ELSE To(r, "delete"))
    /\ UNCHANGED <<rows, items, overview, tasks, scenario, requests, saves, history, seen>>

CleanStale(h) == At(h, "clean") /\ Cleans(h, Stale(handlers[h])) /\ UNCHANGED troubles

delete_documents_by_ids(h) ==
    LET r == handlers[h]
        ids == {r.docs[k].id : k \in Stale(r)}
    IN  /\ At(h, "delete") /\ Runs(h)
        /\ rows' = [k \in Key |-> IF rows[k] # Nil /\ rows[k].id \in ids THEN Nil ELSE rows[k]]
        /\ Goes(h, Idle)
        /\ UNCHANGED <<local, objects, items, overview, tasks, scenario, requests, saves, troubles, history, seen>>

-----------------------------------------------------------------------------
\* Downloads and reanalyses read MinIO first.

\* Mutant: what MinIO cannot give is not looked for on the disk.
Fallback_none(name, version) == 0
Fallback(name, version) ==
    LET k == [name |-> name, version |-> IF version # 0 THEN version ELSE IF latest_version = 0 THEN 1 ELSE latest_version]
    IN  local[k]

\* The row a reader takes: the one asked for, the newest, or for a reanalysis the first.
FirstPrd(docs) ==
    CHOOSE k \in RowsFor(docs, PRD_FILENAME) : \A j \in RowsFor(docs, PRD_FILENAME) : docs[k].id <= docs[j].id
Newest(docs, name) == CHOOSE k \in RowsFor(docs, name) : \A j \in RowsFor(docs, name) : j.version <= k.version
Chosen(r) == IF r.ask.kind = "reanalyze" THEN FirstPrd(r.docs) ELSE Newest(r.docs, PRD_FILENAME)

FromMinio(r, works) ==
    IF works /\ r.docs # Nil /\ RowsFor(r.docs, PRD_FILENAME) # {} /\ r.docs[Chosen(r)].path = "object"
    THEN objects[Chosen(r)] ELSE 0
\* A download of an id falls back to the version of its row, the others to the latest.
Content(r, works) ==
    IF FromMinio(r, works) # 0 THEN FromMinio(r, works)
    ELSE IF r.ask.kind = "download" /\ r.ask.by_id /\ r.docs # Nil /\ RowsFor(r.docs, PRD_FILENAME) # {}
    THEN Fallback(PRD_FILENAME, Chosen(r).version) ELSE Fallback(PRD_FILENAME, 0)

Reads(h, works) ==
    LET r == handlers[h]
        content == Content(r, works)
    IN  /\ At(h, "read") /\ Runs(h)
        /\ IF r.ask.kind = "download"
           THEN served' = [content |-> content, floor |-> r.floor] /\ Goes(h, Idle)
           ELSE /\ Goes(h, IF content = 0 THEN Idle ELSE [To(r, "llm") EXCEPT !.content = content])
                /\ UNCHANGED served
        /\ UNCHANGED <<stores, tasks, scenario, requests, saves, last, plan, seen>>

ReadContent(h) == Reads(h, TRUE) /\ UNCHANGED troubles

-----------------------------------------------------------------------------
\* reanalyze_prd: three transactions after the model's answer, which may be of no use.

Extract(h) ==
    LET r == handlers[h] IN
    /\ At(h, "llm") /\ Runs(h)
    /\ Goes(h, To(r, "clear")) \/ Goes(h, Idle)
    /\ UNCHANGED <<stores, tasks, scenario, requests, saves, troubles, history, seen>>

\* Mutant: the earlier items stay.
NoItems_kept == items
NoItems == [i \in Item |-> 0]

delete_prd_items(h) ==
    LET r == handlers[h] IN
    /\ At(h, "clear") /\ Runs(h)
    /\ items' = NoItems
    /\ Goes(h, To(r, IF Extracted[r.content] = {} THEN "overview" ELSE "items"))
    /\ UNCHANGED <<local, objects, rows, overview, tasks, scenario, requests, saves, troubles, history, seen>>

save_prd_items(h) ==
    LET r == handlers[h] IN
    /\ At(h, "items") /\ Runs(h)
    /\ items' = WithItems(r.content)
    /\ Goes(h, To(r, "overview"))
    /\ UNCHANGED <<local, objects, rows, overview, tasks, scenario, requests, saves, troubles, history, seen>>

save_project_overview(h) ==
    LET r == handlers[h] IN
    /\ At(h, "overview") /\ Runs(h)
    /\ overview' = r.content
    /\ plan' = r.content
    /\ Goes(h, Idle)
    /\ UNCHANGED <<local, objects, rows, items, tasks, scenario, requests, saves, troubles, last, served, seen>>

-----------------------------------------------------------------------------
\* Troubles.

Trouble == troubles < scenario.troubles /\ troubles' = troubles + 1

PutFails(h) == scenario.minio /\ Trouble /\ At(h, "put") /\ Uploads(h, FALSE)
RemoveFails(h) ==
    /\ Trouble /\ At(h, "clean") /\ Stale(handlers[h]) # {}
    /\ \E k \in Stale(handlers[h]) : Cleans(h, Stale(handlers[h]) \ {k})
GetFails(h) == scenario.minio /\ Trouble /\ Reads(h, FALSE)

\* MySQL refuses: a reader goes on without the rows, any other request ends.
MySQLFails(h) ==
    LET r == handlers[h] IN
    /\ Trouble /\ Runs(h)
    /\ r.pc \in {"docs", "delete", "clear", "items", "overview"}
    /\ Goes(h, IF r.pc = "docs" /\ ~NeedsRows(r.ask) THEN To(r, "read") ELSE Idle)
    /\ seen' = seen \cup IF r.pc = "docs" THEN {} ELSE {"torn"}
    /\ UNCHANGED <<stores, tasks, scenario, requests, saves, history>>
TaskFails ==
    /\ Trouble
    /\ \E t \in tasks : Free(t.w) /\ tasks' = tasks \ {t}
    /\ seen' = seen \cup {"torn"}
    /\ UNCHANGED <<stores, handlers, scenario, requests, saves, history>>

Ended(ws) == [h \in Slot |-> IF Busy(h) /\ handlers[h].w \in ws THEN Idle ELSE handlers[h]]
Restart(w) ==
    /\ Trouble
    /\ handlers' = Ended({w})
    /\ tasks' = {t \in tasks : t.w # w}
    /\ handlers' # handlers \/ tasks' # tasks
    /\ seen' = seen \cup {"torn"}
    /\ UNCHANGED <<stores, scenario, requests, saves, history>>

\* A new container starts with an empty disk: outputs/ is on no volume.
Redeploy ==
    /\ Trouble
    /\ local' = [k \in Key |-> 0]
    /\ handlers' = Ended(Worker)
    /\ tasks' = {}
    /\ local' # local \/ handlers' # handlers
    /\ seen' = seen \cup {"bare"}
                    \cup (IF handlers' # handlers \/ tasks # {} THEN {"torn"} ELSE {})
                    \cup (IF \E k \in Key : rows[k] # Nil /\ rows[k].path = "local" THEN {"lost"} ELSE {})
    /\ UNCHANGED <<objects, rows, items, overview, scenario, requests, saves, history>>

-----------------------------------------------------------------------------
Next ==
    \/ \E h \in Slot :
          \/ Arrive(h) \/ get_documents(h) \/ WriteLocal(h) \/ PutObject(h)
          \/ CleanStale(h) \/ delete_documents_by_ids(h) \/ ReadContent(h) \/ Extract(h)
          \/ delete_prd_items(h) \/ save_prd_items(h) \/ save_project_overview(h)
          \/ PutFails(h) \/ RemoveFails(h) \/ GetFails(h) \/ MySQLFails(h)
    \/ RunTask \/ TaskFails \/ Redeploy
    \/ \E w \in Worker : Restart(w)

Spec == Init /\ [][Next]_vars

-----------------------------------------------------------------------------
\* Versions count from one, and what is stored was saved.
TypeOK ==
    /\ \A k \in Key :
          /\ local[k] \in 0..saves /\ objects[k] \in 0..saves
          /\ rows[k] # Nil => rows[k].path \in {"object", "local"} /\ k.version >= 1
    /\ \A i \in Item : items[i] \in 0..saves
    /\ overview \in 0..saves

\* No two saves of a document overlapped, none was saved below the version it already
\* had, and no row was lost on its way.
Apart == "crowded" \notin seen /\ "older" \notin seen
Whole == "torn" \notin seen
\* The disk held no document that MinIO did not have when it was emptied.
Backed == "lost" \notin seen
PrdSettled == Whole /\ Settled(PRD_FILENAME)
\* A save below the version a document already has, beside another save of it.
Collided == {"crowded", "older"} \subseteq seen

Downloads(by_id) ==
    Content([ask |-> [kind |-> "download", by_id |-> by_id], docs |-> IF scenario.minio \/ by_id THEN rows ELSE Nil], TRUE)

\* Whatever MinIO refused and wherever the disk went, the PRD that is downloaded, by name
\* or by the id of its newest row, is the last one saved: pipeline_router.py 67-107,
\* document_router.py 185-229, writer.py 50-112.
DownloadIsLast ==
    PrdSettled /\ Apart /\ Backed /\ last[PRD_FILENAME] # 0 =>
        Downloads(FALSE) = last[PRD_FILENAME] /\ Downloads(TRUE) = last[PRD_FILENAME]

\* A download that runs beside uploads and failing reads never serves a PRD older than
\* the one that was complete when it began; it finds none only if the disk was emptied.
DownloadFresh ==
    Whole /\ Apart => served.content >= served.floor \/ (served.content = 0 /\ "bare" \in seen)

\* Every row leads to its document: the cleanup removes files before rows, and never the
\* file another row needs (document_router.py 69-99).
RowsReadable ==
    PrdSettled /\ Backed /\ ~Collided => \A k \in Key : rows[k] # Nil =>
        IF rows[k].path = "object" THEN objects[k] # 0 ELSE local[k] # 0

\* Types and rows together.
DocumentsInv == TypeOK /\ RowsReadable

\* An upload overwrites the PRD persisted before it: one row is left, whatever names and
\* versions there were (document_router.py:107, 130-153).
UploadReplaces ==
    PrdSettled /\ ~Collided /\ "uploaded" \in seen => {k \in Key : rows[k] # Nil /\ IsPrd(k, rows[k])} =
        {[name |-> PRD_FILENAME, version |-> Max({k.version : k \in KeysOf(PRD_FILENAME)})]}

\* After a reanalysis that nothing overlapped, the items are those of its document and
\* the overview is of the same one, whatever was there before (document_router.py 355-385).
ReanalysisExact ==
    plan # 0 /\ ~Planning /\ seen \cap {"mixed", "torn"} = {} =>
        /\ overview = plan
        /\ \A i \in Item : items[i] = IF i \in Extracted[plan] THEN plan ELSE 0

=============================================================================

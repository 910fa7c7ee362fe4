---------------------------- MODULE KnowledgeJobs ----------------------------
(***************************************************************************)
(* One document of the knowledge base and everybody who writes it: the     *)
(* indexing job (services/knowledge-pipeline.ts) and the routes that edit, *)
(* replace, import over, reprocess or delete the document (routes/misc.ts).*)
(*                                                                         *)
(* The row and its chunks are written by separate statements outside any   *)
(* transaction, and no writer looks whether another one is at work.  A     *)
(* document is followed from the request that stored it.                   *)
(***************************************************************************)
EXTENDS Naturals, FiniteSets

CONSTANTS
    Texts,      \* contents
    NoText,     \* the request carries no content
    Writers,    \* requests and jobs that may be in flight together
    MaxEdits, MaxFailures, MaxDeaths   \* bounds of the model

ASSUME NoTextApart == NoText \notin Texts
ASSUME KnowledgeBounds == {MaxEdits, MaxFailures, MaxDeaths} \subseteq Nat

VARIABLES
    doc,        \* the KnowledgeDoc row; processed and updated say whether the stamps are
                \* older than STUCK_MS
    chunks,     \* how many times the chunks of each text are stored for the document
    queue,      \* processKnowledgeDocument calls behind setImmediate
    writer,     \* what each request or job has read and where it stands
    asked, writeFailures, deaths,
    alone       \* history: nobody else has written the document since this writer read it

knowledgeVars == <<doc, chunks, queue, writer, asked, writeFailures, deaths, alone>>

Requested == {"same", "draft", "ready", "archived"}
IdleWriter == [at |-> "idle", op |-> "job", text |-> NoText, status |-> "same"]
NoChunks == [t \in Texts |-> 0]
Once(text) == [t \in Texts |-> IF t = text THEN 1 ELSE 0]

\* Type invariant.
KnowledgeTypeOK ==
    /\ doc \in [exists : BOOLEAN, content : Texts,
                status : {"queued", "processing", "ready", "failed", "draft", "archived"},
                processed : {"never", "recent", "old"}, updated : {"recent", "old"}]
    /\ chunks \in [Texts -> Nat] /\ queue \in Nat
    /\ writer \in [Writers ->
          [at : {"idle", "mark", "delete", "create", "finish", "fail", "update", "clear", "put", "requeue"},
           op : {"job", "patch", "replace", "import", "reprocess"},
           text : Texts \union {NoText}, status : Requested]]
    /\ asked \in 0..MaxEdits /\ writeFailures \in 0..MaxFailures
    /\ deaths \in 0..MaxDeaths
    /\ alone \in [Writers -> BOOLEAN]

\* An uploaded document (createKnowledgeFromUpload), or one typed in (POST /knowledge).
KnowledgeInit ==
    /\ \E t \in Texts :
          \/ /\ doc = [exists |-> TRUE, content |-> t, status |-> "queued",
                       processed |-> "never", updated |-> "recent"]
             /\ chunks = NoChunks /\ queue = 1
          \/ /\ doc = [exists |-> TRUE, content |-> t, status |-> "ready",
                       processed |-> "never", updated |-> "recent"]
             /\ chunks = Once(t) /\ queue = 0
    /\ writer = [w \in Writers |-> IdleWriter]
    /\ asked = 0 /\ writeFailures = 0 /\ deaths = 0
    /\ alone = [w \in Writers |-> TRUE]

-----------------------------------------------------------------------------
Busy(w) == writer[w].at # "idle"
IsJob(w) == writer[w].op = "job"
Move(w, place) == writer' = [writer EXCEPT ![w].at = place]
Done(w) == writer' = [writer EXCEPT ![w] = IdleWriter]

\* What w wrote counts for everybody else who has read the document.
Wrote(w) == alone' = [v \in Writers |-> alone[v] /\ (v = w \/ ~Busy(v))]
Reads(w, state) ==
    /\ ~Busy(w)
    /\ writer' = [writer EXCEPT ![w] = state]
    /\ alone' = [alone EXCEPT ![w] = TRUE]

\* The process ends, with every request and every job.
Dies == /\ deaths < MaxDeaths /\ deaths' = deaths + 1
        /\ queue' = 0 /\ writer' = [w \in Writers |-> IdleWriter]

-----------------------------------------------------------------------------
\* processKnowledgeDocument: reads the document, and its text with it.
ReadDocument(w) ==
    /\ queue > 0 /\ queue' = queue - 1
    /\ IF doc.exists
       THEN Reads(w, [IdleWriter EXCEPT !.at = "mark", !.text = doc.content])
       ELSE ~Busy(w) /\ UNCHANGED <<writer, alone>>
    /\ UNCHANGED <<doc, chunks, asked, writeFailures, deaths>>

\* status processing, outside the try.
MarkProcessing(w) ==
    /\ writer[w].at = "mark" /\ doc.exists
    /\ doc' = [doc EXCEPT !.status = "processing", !.processed = "recent", !.updated = "recent"]
    /\ Move(w, "delete") /\ Wrote(w)
    /\ UNCHANGED <<chunks, queue, asked, writeFailures, deaths>>

\* (Mutant) the new chunks are added to the old ones.
DeleteChunksNever(w) ==
    /\ writer[w].at = "delete"
    /\ Move(w, "create") /\ Wrote(w)
    /\ UNCHANGED <<doc, chunks, queue, asked, writeFailures, deaths>>

\* indexKnowledgeDocument, for a job and for a PATCH that changes the content: the chunks
\* are deleted, then created, then embedded (a failure there is swallowed).
DeleteChunks(w) ==
    /\ writer[w].at = "delete"
    /\ chunks' = NoChunks
    /\ Move(w, "create") /\ Wrote(w)
    /\ UNCHANGED <<doc, queue, asked, writeFailures, deaths>>

\* A statement that throws: the job records it, the request answers with an error.
Throws(w) == IF IsJob(w) THEN Move(w, "fail") ELSE Done(w)

CreateChunks(w) ==
    /\ writer[w].at = "create"
    /\ IF doc.exists
       THEN /\ chunks' = [chunks EXCEPT ![writer[w].text] = @ + 1]
            /\ Move(w, IF IsJob(w) THEN "finish" ELSE "update")
       ELSE Throws(w) /\ UNCHANGED chunks
    /\ Wrote(w)
    /\ UNCHANGED <<doc, queue, asked, writeFailures, deaths>>

StatementFails(w) ==
    /\ writer[w].at \in {"delete", "create"}
    /\ writeFailures < MaxFailures /\ writeFailures' = writeFailures + 1
    /\ Throws(w)
    /\ UNCHANGED <<doc, chunks, queue, asked, deaths, alone>>

\* The text the job has read is stored again, with the status.
FinishJob(w) ==
    /\ writer[w].at = "finish"
    /\ IF doc.exists
       THEN /\ doc' = [doc EXCEPT !.content = writer[w].text, !.status = "ready",
                                  !.processed = "recent", !.updated = "recent"]
            /\ Done(w)
       ELSE Throws(w) /\ UNCHANGED doc
    /\ Wrote(w)
    /\ UNCHANGED <<chunks, queue, asked, writeFailures, deaths>>

FailJob(w) ==
    /\ writer[w].at = "fail" /\ doc.exists
    /\ doc' = [doc EXCEPT !.status = "failed", !.processed = "recent", !.updated = "recent"]
    /\ Done(w) /\ Wrote(w)
    /\ UNCHANGED <<chunks, queue, asked, writeFailures, deaths>>

\* The update of a deleted row, outside the try or in its catch, rejects a promise nobody
\* handles: Node ends the process.
UnhandledRejection(w) ==
    /\ writer[w].at \in {"mark", "fail"} /\ ~doc.exists
    /\ Dies
    /\ UNCHANGED <<doc, chunks, asked, writeFailures, alone>>

-----------------------------------------------------------------------------
Ask == asked < MaxEdits /\ asked' = asked + 1

\* PATCH /knowledge/:id: only a content that differs from the one read rebuilds the chunks.
ReadForPatch(w) ==
    /\ Ask /\ doc.exists
    /\ \E text \in Texts \union {NoText}, status \in Requested :
          Reads(w, [at |-> IF text \in {NoText, doc.content} THEN "update" ELSE "delete",
                    op |-> "patch", text |-> text, status |-> status])
    /\ UNCHANGED <<doc, chunks, queue, writeFailures, deaths>>

UpdateDocument(w) ==
    LET text == writer[w].text  status == writer[w].status IN
    /\ writer[w].at = "update"
    /\ doc' = IF ~doc.exists THEN doc
              ELSE [doc EXCEPT !.content = IF text = NoText THEN @ ELSE text,
                               !.status = IF status = "same" THEN @ ELSE status,
                               !.updated = "recent"]
    /\ Done(w) /\ Wrote(w)
    /\ UNCHANGED <<chunks, queue, asked, writeFailures, deaths>>

\* A file over the document (createKnowledgeFromUpload with replaceId), or an import over
\* it: the chunks are deleted, then the row is written.
ReadForReplace(w) ==
    /\ Ask /\ doc.exists
    /\ \E text \in Texts, op \in {"replace", "import"} :
          Reads(w, [at |-> "clear", op |-> op, text |-> text, status |-> "same"])
    /\ UNCHANGED <<doc, chunks, queue, writeFailures, deaths>>

ClearChunks(w) ==
    /\ writer[w].at = "clear"
    /\ chunks' = NoChunks
    /\ Move(w, "put") /\ Wrote(w)
    /\ UNCHANGED <<doc, queue, asked, writeFailures, deaths>>

\* The replacement is queued for a job and keeps the old processedAt; the import brings its
\* chunks in the same statement.
PutDocument(w) ==
    LET text == writer[w].text IN
    /\ writer[w].at = "put"
    /\ CASE ~doc.exists -> UNCHANGED <<doc, chunks, queue>>
         [] doc.exists /\ writer[w].op = "replace" ->
              /\ doc' = [doc EXCEPT !.content = text, !.status = "queued", !.updated = "recent"]
              /\ queue' = queue + 1
              /\ UNCHANGED chunks
         [] OTHER ->
              /\ doc' = [doc EXCEPT !.content = text, !.status = "ready",
                                    !.processed = "recent", !.updated = "recent"]
              /\ chunks' = [chunks EXCEPT ![text] = @ + 1]
              /\ UNCHANGED queue
    /\ Done(w) /\ Wrote(w)
    /\ UNCHANGED <<asked, writeFailures, deaths>>

\* POST /knowledge/:id/reprocess.
ReadForReprocess(w) ==
    /\ Ask /\ doc.exists
    /\ Reads(w, [IdleWriter EXCEPT !.at = "requeue", !.op = "reprocess"])
    /\ UNCHANGED <<doc, chunks, queue, writeFailures, deaths>>

Requeue(w) ==
    /\ writer[w].at = "requeue"
    /\ IF doc.exists
       THEN /\ doc' = [doc EXCEPT !.status = "queued", !.updated = "recent"]
            /\ queue' = queue + 1
       ELSE UNCHANGED <<doc, queue>>
    /\ Done(w) /\ Wrote(w)
    /\ UNCHANGED <<chunks, asked, writeFailures, deaths>>

\* DELETE /knowledge/:id and the bulk delete; the chunks go with the row.
DeleteDocument ==
    /\ Ask /\ doc.exists
    /\ doc' = [doc EXCEPT !.exists = FALSE] /\ chunks' = NoChunks
    /\ alone' = [w \in Writers |-> ~Busy(w)]
    /\ UNCHANGED <<queue, writer, writeFailures, deaths>>

-----------------------------------------------------------------------------
\* failStuckKnowledgeJobs, at boot and whenever the list is read: it does not know whether
\* a job is at work.
FailStuck ==
    /\ doc.exists /\ doc.status \in {"queued", "processing"}
    /\ \/ doc.processed = "old"
       \/ doc.processed = "never" /\ doc.updated = "old"
    /\ doc' = [doc EXCEPT !.status = "failed", !.updated = "recent"]
    /\ UNCHANGED <<chunks, queue, writer, asked, writeFailures, deaths, alone>>

\* STUCK_MS go by.
Age ==
    /\ doc.exists
    /\ doc' = [doc EXCEPT !.processed = IF @ = "recent" THEN "old" ELSE @, !.updated = "old"]
    /\ doc' # doc
    /\ UNCHANGED <<chunks, queue, writer, asked, writeFailures, deaths, alone>>

Killed == Dies /\ UNCHANGED <<doc, chunks, asked, writeFailures, alone>>

WriterStep(w) ==
    \/ MarkProcessing(w) \/ DeleteChunks(w) \/ CreateChunks(w) \/ FinishJob(w) \/ FailJob(w)
    \/ UnhandledRejection(w) \/ UpdateDocument(w) \/ ClearChunks(w) \/ PutDocument(w)
    \/ Requeue(w)

KnowledgeNext ==
    \/ \E w \in Writers : \/ ReadDocument(w) \/ WriterStep(w) \/ StatementFails(w)
                          \/ ReadForPatch(w) \/ ReadForReplace(w) \/ ReadForReprocess(w)
    \/ DeleteDocument \/ FailStuck \/ Age \/ Killed

KnowledgeSpec == KnowledgeInit /\ [][KnowledgeNext]_knowledgeVars

-----------------------------------------------------------------------------
\* The writer brings a content and the index of it.
Indexes(w) ==
    \/ writer[w].at = "finish"
    \/ writer[w].at = "put" /\ writer[w].op = "import"

\* A job or an import that nobody disturbed leaves the document with the index of its
\* content, once, whatever earlier writers that overlapped, failed half way or died with
\* the process had left behind: indexing again repairs.
IndexedAlone ==
    [][\A w \in Writers :
          Indexes(w) /\ writer'[w] = IdleWriter /\ alone[w] /\ deaths' = deaths
          => doc'.status = "ready" /\ chunks' = Once(doc'.content)]_knowledgeVars

NobodyAtWork == queue = 0 /\ \A w \in Writers : ~Busy(w)

\* knowledge-pipeline.ts:2, "CHUNK -> INDEX -> READY": when nobody is at work, a ready
\* document has the index of its content.
ReadyIsIndexed == doc.exists /\ doc.status = "ready" /\ NobodyAtWork => chunks = Once(doc.content)
=============================================================================

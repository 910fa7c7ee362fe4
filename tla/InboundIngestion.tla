-------------------------- MODULE InboundIngestion --------------------------
(***************************************************************************)
(* The messages of one phone number on their way into the inbox:           *)
(* ingestInboundMessage and ingestExternalOutboundMessage                  *)
(* (services/whatsapp/index.ts), with the contact they find or create      *)
(* (identity-resolver.ts), the conversation they find, reopen or create    *)
(* (conversation-close.ts) and the satisfaction survey they may answer     *)
(* (csat.ts).                                                              *)
(*                                                                         *)
(* Each webhook or socket event is handled by a promise of its own, and    *)
(* the gateway may deliver an event again.  One action is what runs        *)
(* between two awaits.  No column is unique here: what a handler did not   *)
(* find, it creates.  Conversations and surveys are numbered as they are   *)
(* created.  A closing is cut down to what the ingestion can see of it.    *)
(***************************************************************************)
EXTENDS Naturals, Sequences, FiniteSets

CONSTANTS
    Handlers,     \* handlers that may be running together
    Events, NoEvent,
    content,      \* of each event: a plain text; a rating; a text with a digit
                  \* from 1 to 5 in it; or a message sent from the phone itself
    Closers,      \* closings of a conversation
    ReopenMode,   \* settings.attendance.reopen.mode = "reopen"
    MaxDeliveries, MaxThrows   \* bounds on the events delivered and on the writes that fail

ASSUME NoEventApart == NoEvent \notin Events
ASSUME ContentKinds == content \in [Events -> {"text", "rating", "number", "device"}]
ASSUME IngestionBounds == ReopenMode \in BOOLEAN /\ {MaxDeliveries, MaxThrows} \subseteq Nat

VARIABLES
    contacts,     \* Contact rows of the phone number, numbered from 1
    convs,        \* Conversation rows: whose, status, and closed inside the window
    messages,     \* for each event, the conversations its Message rows are in, oldest first
    surveys,      \* messages with csatSurvey: their conversation, awaitingCsat, feedback rows
    handler,      \* where each handler stands, and what it has found
    closer,       \* where each closing stands
    deliveries, throws,
    lost,         \* history: events whose handler died with the process
    overlapped,   \* history: events looked up while another handler was about to store them
    raced,        \* history: two handlers looked for the contact or the conversation at once
    doubted,      \* history: surveys read while another handler was answering them, or
                  \* whose answer was interrupted
    askRaced      \* history: conversations for which two closings asked at once

database == <<contacts, convs, messages, surveys>>
bounded == <<deliveries, throws>>
ingestionHistory == <<lost, overlapped, raced, doubted, askRaced>>
ingestionVars == <<database, handler, closer, bounded, ingestionHistory>>

Found == {"create", "capture", "feedback", "mark", "reply"}
Resolving == {"open", "closed", "reopen", "begin", "store", "update"}

MaxRows == MaxDeliveries + 1

\* Type invariant.
IngestionTypeOK ==
    /\ contacts \in 0..MaxRows
    /\ \A i \in DOMAIN convs : convs[i] \in
          [contact : 1..MaxRows, status : {"OPEN", "PENDING", "CLOSED"}, recent : BOOLEAN]
    /\ Len(convs) <= MaxRows
    /\ handler \in [Handlers ->
          [at : {"idle", "find"} \union Found \union Resolving, event : Events \union {NoEvent},
           contact : 0..MaxRows, conv : 0..MaxRows, survey : 0..Cardinality(Closers)]]
    /\ \A e \in Events : \A i \in DOMAIN messages[e] : messages[e][i] \in 1..MaxRows
    /\ \A i \in DOMAIN surveys : surveys[i] \in
          [conv : 1..MaxRows, awaiting : BOOLEAN, feedback : Nat]
    /\ closer \in [Closers -> [at : {"idle", "closing", "ask", "send", "done"}, conv : 0..MaxRows]]

IdleHandler == [at |-> "idle", event |-> NoEvent, contact |-> 0, conv |-> 0, survey |-> 0]

\* A number that never wrote, or a customer with an open conversation.
IngestionInit ==
    /\ \/ contacts = 0 /\ convs = <<>>
       \/ contacts = 1 /\ convs = <<[contact |-> 1, status |-> "OPEN", recent |-> FALSE]>>
    /\ handler = [h \in Handlers |-> IdleHandler]
    /\ messages = [e \in Events |-> <<>>]
    /\ surveys = <<>>
    /\ closer = [a \in Closers |-> [at |-> "idle", conv |-> 0]]
    /\ deliveries = 0 /\ throws = 0
    /\ lost = {} /\ overlapped = {} /\ raced = FALSE /\ doubted = {} /\ askRaced = {}

-----------------------------------------------------------------------------
At(h) == handler[h].at
Kind(h) == content[handler[h].event]
Goto(h, place) == handler' = [handler EXCEPT ![h].at = place]
End(h) == handler' = [handler EXCEPT ![h] = IdleHandler]

Others(h, places) == \E g \in Handlers \ {h} : At(g) \in places

Unstored(e) == \E h \in Handlers : handler[h].event = e /\ At(h) # "update"

\* (Mutant) the duplicate is only looked for in conversations that are not closed.
ReceiveByOpen(h, e) ==
    /\ At(h) = "idle" /\ deliveries < MaxDeliveries
    /\ deliveries' = deliveries + 1
    /\ \/ /\ \E i \in DOMAIN messages[e] : convs[messages[e][i]].status # "CLOSED"
          /\ UNCHANGED handler
       \/ /\ \A i \in DOMAIN messages[e] : convs[messages[e][i]].status = "CLOSED"
          /\ handler' = [handler EXCEPT ![h] = [IdleHandler EXCEPT !.at = "find", !.event = e]]
    /\ overlapped' = overlapped \union {f \in {e} : Unstored(f)}
    /\ UNCHANGED <<database, closer, throws, lost, raced, doubted, askRaced>>

\* An event arrives, perhaps again: a message with its externalId, in any conversation
\* of the company, makes it a duplicate.
Receive(h, e) ==
    /\ At(h) = "idle" /\ deliveries < MaxDeliveries
    /\ deliveries' = deliveries + 1
    /\ \/ messages[e] # <<>> /\ UNCHANGED handler
       \/ /\ messages[e] = <<>>
          /\ handler' = [handler EXCEPT ![h] = [IdleHandler EXCEPT !.at = "find", !.event = e]]
    /\ overlapped' = overlapped \union {f \in {e} : Unstored(f)}
    /\ UNCHANGED <<database, closer, throws, lost, raced, doubted, askRaced>>

\* resolveWhatsAppIdentity.  What the phone sent itself answers no survey.
AfterContact(h) == IF Kind(h) = "device" THEN "open" ELSE "capture"

FindContact(h) ==
    /\ At(h) = "find"
    /\ \/ /\ contacts = 0
          /\ Goto(h, "create")
       \/ \E c \in 1..contacts :
             handler' = [handler EXCEPT ![h].at = AfterContact(h), ![h].contact = c]
    /\ raced' = (raced \/ Others(h, {"create"}))
    /\ UNCHANGED <<database, closer, bounded, lost, overlapped, doubted, askRaced>>

CreateContact(h) ==
    /\ At(h) = "create"
    /\ contacts' = contacts + 1
    /\ handler' = [handler EXCEPT ![h].at = AfterContact(h), ![h].contact = contacts + 1]
    /\ UNCHANGED <<convs, messages, surveys, closer, bounded, ingestionHistory>>

-----------------------------------------------------------------------------
\* tryCaptureCsatReply.  parseCsatRating takes any text of up to 80 characters with a
\* digit from 1 to 5 anywhere in it.
ParsesAsRating(h) == Kind(h) \in {"rating", "number"}

OfContact(h) == {i \in DOMAIN surveys : convs[surveys[i].conv].contact = handler[h].contact}
Newest(S) == CHOOSE i \in S : \A j \in S : j <= i

Capture(h) ==
    LET awaiting == {i \in OfContact(h) : surveys[i].awaiting} IN
    /\ At(h) = "capture"
    /\ IF ParsesAsRating(h) /\ awaiting # {}
       THEN LET s == Newest(awaiting) IN
            /\ handler' = [handler EXCEPT ![h].at = "feedback", ![h].survey = s]
            /\ doubted' = doubted \union {i \in {s} : \E g \in Handlers \ {h} :
                             At(g) \in {"feedback", "mark"} /\ handler[g].survey = i}
       ELSE Goto(h, "open") /\ UNCHANGED doubted
    /\ UNCHANGED <<database, closer, bounded, lost, overlapped, raced, askRaced>>

\* recordAgentFeedback, whose errors are swallowed.
Feedback(h) ==
    /\ At(h) = "feedback"
    /\ \/ surveys' = [surveys EXCEPT ![handler[h].survey].feedback = @ + 1] /\ UNCHANGED throws
       \/ throws < MaxThrows /\ throws' = throws + 1 /\ UNCHANGED surveys
    /\ Goto(h, "mark")
    /\ UNCHANGED <<contacts, convs, messages, closer, deliveries, ingestionHistory>>

\* (Mutant) only the score is written: the survey goes on waiting.
MarkScoreOnly(h) ==
    /\ At(h) = "mark"
    /\ Goto(h, "reply")
    /\ UNCHANGED <<contacts, convs, messages, surveys, closer, bounded, ingestionHistory>>

\* The survey no longer waits; then the event of the timeline and the thanks.
Mark(h) ==
    /\ At(h) = "mark"
    /\ surveys' = [surveys EXCEPT ![handler[h].survey].awaiting = FALSE]
    /\ Goto(h, "reply")
    /\ UNCHANGED <<contacts, convs, messages, closer, bounded, ingestionHistory>>

\* The rating is stored where the newest survey is, and that is all: nothing is
\* reopened, and no AI, automation or webhook follows.
StoreRating(h) ==
    /\ At(h) = "reply"
    /\ messages' = [messages EXCEPT ![handler[h].event] =
          Append(@, surveys[Newest(OfContact(h))].conv)]
    /\ End(h)
    /\ UNCHANGED <<contacts, convs, surveys, closer, bounded, ingestionHistory>>

\* (Mutant) the error ends the handler.
CaptureThrowsOut(h) ==
    /\ At(h) \in {"mark", "reply"} /\ throws < MaxThrows
    /\ throws' = throws + 1
    /\ doubted' = doubted \union {i \in {handler[h].survey} : At(h) = "mark"}
    /\ End(h)
    /\ UNCHANGED <<database, closer, deliveries, lost, overlapped, raced, askRaced>>

\* The database refuses one of these writes: the message goes the common way.
CaptureThrows(h) ==
    /\ At(h) \in {"mark", "reply"} /\ throws < MaxThrows
    /\ throws' = throws + 1
    /\ doubted' = doubted \union {i \in {handler[h].survey} : At(h) = "mark"}
    /\ Goto(h, "open")
    /\ UNCHANGED <<database, closer, deliveries, lost, overlapped, raced, askRaced>>

-----------------------------------------------------------------------------
\* resolveConversationForInbound.
Mine(h) == {i \in DOMAIN convs : convs[i].contact = handler[h].contact}

\* (Mutant) a conversation in the human queue is not found.
FindNotQueued(h) ==
    /\ At(h) = "open"
    /\ \/ \E i \in Mine(h) :
             /\ convs[i].status = "OPEN"
             /\ handler' = [handler EXCEPT ![h].at = "store", ![h].conv = i]
       \/ /\ \A i \in Mine(h) : convs[i].status # "OPEN"
          /\ Goto(h, IF ReopenMode THEN "closed" ELSE "begin")
    /\ raced' = (raced \/ Others(h, Resolving \ {"open"}))
    /\ UNCHANGED <<database, closer, bounded, lost, overlapped, doubted, askRaced>>

FindOpen(h) ==
    /\ At(h) = "open"
    /\ \/ \E i \in Mine(h) :
             /\ convs[i].status # "CLOSED"
             /\ handler' = [handler EXCEPT ![h].at = "store", ![h].conv = i]
       \/ /\ \A i \in Mine(h) : convs[i].status = "CLOSED"
          /\ Goto(h, IF ReopenMode THEN "closed" ELSE "begin")
    /\ raced' = (raced \/ Others(h, Resolving \ {"open"}))
    /\ UNCHANGED <<database, closer, bounded, lost, overlapped, doubted, askRaced>>

FindRecentlyClosed(h) ==
    /\ At(h) = "closed"
    /\ \/ \E i \in Mine(h) :
             /\ convs[i].status = "CLOSED" /\ convs[i].recent
             /\ handler' = [handler EXCEPT ![h].at = "reopen", ![h].conv = i]
       \/ /\ \A i \in Mine(h) : ~(convs[i].status = "CLOSED" /\ convs[i].recent)
          /\ Goto(h, "begin")
    /\ UNCHANGED <<database, closer, bounded, ingestionHistory>>

\* reopenConversation: nothing to do if somebody else reopened it.
Reopen(h) ==
    /\ At(h) = "reopen"
    /\ convs' = [convs EXCEPT ![handler[h].conv] =
          IF @.status = "CLOSED" THEN [@ EXCEPT !.status = "OPEN", !.recent = FALSE] ELSE @]
    /\ Goto(h, "store")
    /\ UNCHANGED <<contacts, messages, surveys, closer, bounded, ingestionHistory>>

BeginConversation(h) ==
    /\ At(h) = "begin"
    /\ convs' = Append(convs,
          [contact |-> handler[h].contact, status |-> "OPEN", recent |-> FALSE])
    /\ handler' = [handler EXCEPT ![h].at = "store", ![h].conv = Len(convs) + 1]
    /\ UNCHANGED <<contacts, messages, surveys, closer, bounded, ingestionHistory>>

\* message.create.
StoreMessage(h) ==
    /\ At(h) = "store"
    /\ messages' = [messages EXCEPT ![handler[h].event] = Append(@, handler[h].conv)]
    /\ Goto(h, "update")
    /\ UNCHANGED <<contacts, convs, surveys, closer, bounded, ingestionHistory>>

\* conversation.update: OPEN for what the customer wrote, by id; for what the phone
\* sent itself only if the conversation was waiting in the queue when it was read.
UpdateConversation(h) ==
    /\ At(h) = "update"
    /\ convs' = [convs EXCEPT ![handler[h].conv].status =
          IF Kind(h) # "device" \/ @ = "PENDING" THEN "OPEN" ELSE @]
    /\ End(h)
    /\ UNCHANGED <<contacts, messages, surveys, closer, bounded, ingestionHistory>>

HandlerStep(h) ==
    \/ FindContact(h) \/ CreateContact(h)
    \/ Capture(h) \/ Feedback(h) \/ Mark(h) \/ StoreRating(h) \/ CaptureThrows(h)
    \/ FindOpen(h) \/ FindRecentlyClosed(h) \/ Reopen(h) \/ BeginConversation(h)
    \/ StoreMessage(h) \/ UpdateConversation(h)

-----------------------------------------------------------------------------
\* closeConversation: the row is read open, then written closed by id.
CloserAt(a, place) == closer[a].at = place
CloserGoto(a, place) == closer' = [closer EXCEPT ![a] =
    IF place = "done" THEN [at |-> "done", conv |-> 0] ELSE [@ EXCEPT !.at = place]]

ReadToClose(a) ==
    /\ CloserAt(a, "idle")
    /\ \E i \in DOMAIN convs :
          /\ convs[i].status # "CLOSED"
          /\ closer' = [closer EXCEPT ![a] = [at |-> "closing", conv |-> i]]
    /\ UNCHANGED <<database, handler, bounded, ingestionHistory>>

WriteClosed(a) ==
    /\ CloserAt(a, "closing")
    /\ convs' = [convs EXCEPT ![closer[a].conv].status = "CLOSED",
                              ![closer[a].conv].recent = TRUE]
    /\ CloserGoto(a, "ask")
    /\ UNCHANGED <<contacts, messages, surveys, handler, bounded, ingestionHistory>>

\* sendCsatSurvey: no survey was sent in this conversation during the last 7 days.
Asked(i) == \E s \in DOMAIN surveys : surveys[s].conv = i

\* (Mutant) only a survey still waiting counts.
AskReadWaiting(a) ==
    /\ CloserAt(a, "ask")
    /\ CloserGoto(a, IF \E s \in DOMAIN surveys : surveys[s].conv = closer[a].conv /\ surveys[s].awaiting
                     THEN "done" ELSE "send")
    /\ askRaced' = askRaced \union {i \in {closer[a].conv} :
          \E b \in Closers \ {a} : CloserAt(b, "send") /\ closer[b].conv = i}
    /\ UNCHANGED <<database, handler, bounded, lost, overlapped, raced, doubted>>

AskRead(a) ==
    /\ CloserAt(a, "ask")
    /\ CloserGoto(a, IF Asked(closer[a].conv) THEN "done" ELSE "send")
    /\ askRaced' = askRaced \union {i \in {closer[a].conv} :
          \E b \in Closers \ {a} : CloserAt(b, "send") /\ closer[b].conv = i}
    /\ UNCHANGED <<database, handler, bounded, lost, overlapped, raced, doubted>>

\* The message is dispatched and then stored, sent or not.
AskStore(a) ==
    /\ CloserAt(a, "send")
    /\ surveys' = Append(surveys, [conv |-> closer[a].conv, awaiting |-> TRUE, feedback |-> 0])
    /\ CloserGoto(a, "done")
    /\ UNCHANGED <<contacts, convs, messages, handler, bounded, ingestionHistory>>

CloserStep(a) == ReadToClose(a) \/ WriteClosed(a) \/ AskRead(a) \/ AskStore(a)

\* The hand-off to the human queue; the window of reopening passes.
Queue(i) ==
    /\ convs[i].status = "OPEN"
    /\ convs' = [convs EXCEPT ![i].status = "PENDING"]
    /\ UNCHANGED <<contacts, messages, surveys, handler, closer, bounded, ingestionHistory>>

WindowPasses(i) ==
    /\ convs[i].recent
    /\ convs' = [convs EXCEPT ![i].recent = FALSE]
    /\ UNCHANGED <<contacts, messages, surveys, handler, closer, bounded, ingestionHistory>>

\* The process dies: handlers and closings under way are gone.
IngestionRestart ==
    /\ handler' = [h \in Handlers |-> IdleHandler]
    /\ handler' # handler
    /\ closer' = [a \in Closers |->
          IF CloserAt(a, "idle") THEN closer[a] ELSE [at |-> "done", conv |-> 0]]
    /\ lost' = lost \union {handler[h].event : h \in {g \in Handlers : At(g) # "idle"}}
    /\ doubted' = doubted \union {handler[h].survey : h \in {g \in Handlers : At(g) = "mark"}}
    /\ UNCHANGED <<database, bounded, overlapped, raced, askRaced>>

IngestionNext ==
    \/ \E h \in Handlers, e \in Events : Receive(h, e)
    \/ \E h \in Handlers : HandlerStep(h)
    \/ \E a \in Closers : CloserStep(a)
    \/ \E i \in DOMAIN convs : Queue(i) \/ WindowPasses(i)
    \/ IngestionRestart

IngestionSpec == IngestionInit /\ [][IngestionNext]_ingestionVars

-----------------------------------------------------------------------------
\* An event delivered again is not stored again, wherever its message went, unless
\* its deliveries overlapped (ingest-idempotency.test.ts:49).
StoredOnce == \A e \in Events \ overlapped :
    Len(messages[e]) <= 1

\* One phone number has one contact and at most one conversation that is not closed,
\* closings, queueing and reopenings included, unless two of its messages were looking
\* for them at once (conversation-close.ts:831).
OneThread == ~raced =>
    contacts <= 1 /\ Cardinality({i \in DOMAIN convs : convs[i].status # "CLOSED"}) <= 1

\* A survey is answered once, unless two ratings read it at once or the first was
\* interrupted (csat.ts:169).
FeedbackOnce == \A s \in DOMAIN surveys : s \notin doubted => surveys[s].feedback <= 1

\* A conversation closed, reopened and closed again is not asked twice, unless two
\* closings asked at once (csat.ts:113).
SurveyedOnce == \A i \in DOMAIN convs \ askRaced :
    Cardinality({s \in DOMAIN surveys : surveys[s].conv = i}) <= 1

\* An event that a surviving handler took on ends up stored, whatever the capture of
\* the survey throws (index.ts:364).
Kept == \A e \in Events :
    (\E h \in Handlers : handler[h].event = e) ~> (messages[e] # <<>> \/ e \in lost)

\* index.ts:323: the message is captured "se o cliente está respondendo a pesquisa" -
\* what is not a rating reaches the attendance.
OnlyRatingsCaptured == \A h \in Handlers :
    At(h) \in {"feedback", "mark", "reply"} => Kind(h) = "rating"

\* ingest-idempotency.test.ts:49, with no exception.
StoredOnceAlways == \A e \in Events :
    Len(messages[e]) <= 1
=============================================================================

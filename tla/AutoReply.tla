------------------------------ MODULE AutoReply ------------------------------
(***************************************************************************)
(* services/whatsapp/index.ts: the ingestion of the customer's messages    *)
(* and the automatic reply each of them starts.  Message e is the e-th in  *)
(* the order of the provider's timestamps; they may arrive in any order,   *)
(* and their automatic replies run concurrently.                           *)
(***************************************************************************)
EXTENDS Conversation

May(what) == what \in Hiccups

\* (Mutant) ordered the other way.
IsOldestInbound(m) == m \in stored /\ \A f \in stored : m <= f

\* The first INBOUND message by createdAt desc.
IsNewestInbound(m) == m \in stored /\ \A f \in stored : f <= m

-----------------------------------------------------------------------------
(* ingestInboundMessage *)

\* resolveConversationForInbound: the open conversation; else, by policy, the
\* one closed inside the window is reopened; else another one is created.
Resolve(e) ==
    /\ pc[e] = "inbound.new"
    /\ \/ status \in Open /\ Goto(e, "inbound.store")
       \/ /\ status \in Ended /\ ReopenMode /\ closedAt
          /\ Call(e, "reopen.read", "inbound.store", Keep, Keep, FALSE)
       \/ /\ status \in Ended
          /\ ~ReopenMode \/ ~closedAt \/ May("window_passed")
          /\ Finish(e, "elsewhere")
    /\ OnlyControl

\* message.create with createdAt = the provider's timestamp: a late message
\* is not the newest of the conversation, nor young.
StoreInbound(e) ==
    /\ pc[e] = "inbound.store"
    /\ stored' = stored \union {e}
    /\ lastDir' = IF e \in LateEvents /\ lastDir # "none" THEN lastDir ELSE "IN"
    /\ inboundOld' = IF e \in LateEvents THEN stored = {} \/ inboundOld ELSE FALSE
    /\ Goto(e, "inbound.open")
    /\ UNCHANGED <<waiting, handoffRecent, humanRecent, aiRows, quiet>>
    /\ UNCHANGED <<row, gateway, target, opsLeft, ghosts>>

\* conversation.update status OPEN, lastMessageAt = the provider's timestamp,
\* by id and whatever the row has become; then setImmediate(maybeAutoReplyAi).
OpenRow(e) ==
    /\ pc[e] = "inbound.open"
    /\ SetRow("OPEN", assignee)
    /\ quiet' = (e \in LateEvents)
    /\ Finish(e, "ai.start")
    /\ UNCHANGED <<waiting, handoffRecent, humanRecent, stored, lastDir, aiRows, inboundOld>>
    /\ UNCHANGED <<closedAt, gateway, target, opsLeft, humanQueue>>

Ingest(e) == Resolve(e) \/ StoreInbound(e) \/ OpenRow(e)

-----------------------------------------------------------------------------
(* maybeAutoReplyAi *)

\* Closed or taken by a human: silence.  In the human queue: only if the
\* company lets the AI resume and the customer wrote something meaningful.
AiStart(e) ==
    /\ pc[e] = "ai.start"
    /\ \/ (status \in Ended \/ assignee # NoUser) /\ Finish(e, "done")
       \/ /\ status = "PENDING" /\ assignee = NoUser
          /\ \/ ResumeOnReturn /\ Goto(e, "ai.resume")
             \/ (~ResumeOnReturn \/ May("small_talk")) /\ Finish(e, "done")
       \/ status = "OPEN" /\ assignee = NoUser /\ Goto(e, "ai.context")
    /\ OnlyControl

\* resumeAiAfterCustomerReturn: WHERE assignedToId IS NULL, then the flags.
AiResume(e) ==
    /\ pc[e] = "ai.resume"
    /\ \/ assignee = NoUser /\ SetRow("OPEN", NoUser) /\ humanQueue' = FALSE
       \/ assignee # NoUser /\ UNCHANGED <<status, assignee, ghosts>>
    /\ Goto(e, "ai.flags")
    /\ UNCHANGED <<closedAt, facts, gateway, target, opsLeft>>

AiResumeFlags(e) ==
    /\ pc[e] = "ai.flags"
    /\ waiting' = FALSE
    /\ Goto(e, "ai.context")
    /\ UNCHANGED <<handoffRecent, humanRecent, stored, lastDir, aiRows, quiet, inboundOld>>
    /\ UNCHANGED <<row, gateway, target, opsLeft, ghosts>>

\* The agent, the access gate, the credits, and the message to answer: the
\* newest of the conversation, not the one that started this run.  Without
\* credits the apology is sent at once (flag), with no further look at the row.
AiContext(e) ==
    /\ pc[e] = "ai.context"
    /\ \/ May("no_agent") /\ Finish(e, "done") /\ target' = target
       \/ /\ \E m \in Events : IsNewestInbound(m) /\ target' = [target EXCEPT ![e] = m]
          /\ \/ Goto(e, "ai.recheck")
             \/ May("no_credits") /\ Call(e, "ai.send", "idle", Keep, Keep, TRUE)
    /\ UNCHANGED <<row, facts, gateway, opsLeft, ghosts>>

\* The 2 s window of this check lies inside the 15 s of humanRecent.
AiRecheck(e) ==
    /\ pc[e] = "ai.recheck"
    /\ \/ (assignee # NoUser \/ humanRecent \/ target[e] \in aiRows) /\ Finish(e, "done")
       \/ assignee = NoUser /\ target[e] \notin aiRows /\ Goto(e, "ai.generate")
    /\ OnlyControl

\* The model answers; a request for a human runs the request_human tool first.
AiGenerate(e) ==
    /\ pc[e] = "ai.generate"
    /\ \/ May("empty_answer") /\ Finish(e, "done")
       \/ May("asks_human") /\ Call(e, "queue.read", "ai.eligible", Keep, Keep, FALSE)
       \/ Goto(e, "ai.eligible")
    /\ OnlyControl

\* (Mutant) the human queue forgotten.
StillEligibleUnlessClosed(e) ==
    status \in Open /\ assignee = NoUser /\ target[e] \notin aiRows /\ ~humanRecent

\* autoReplyStillEligible
StillEligible(e) ==
    /\ status = "OPEN"
    /\ assignee = NoUser
    /\ target[e] \notin aiRows
    /\ ~humanRecent

AiEligible(e) ==
    /\ pc[e] = "ai.eligible"
    /\ \/ StillEligible(e) /\ Finish(e, "ai.send")
       \/ (~StillEligible(e) \/ May("unpublished")) /\ Finish(e, "done")
    /\ OnlyControl

-----------------------------------------------------------------------------
(* sendAiOutboundAndHandoff.  The key of the dispatch names the message
   answered; flag[e] is forceHandoff, set only when the credits are gone. *)

Sending(m) == \E f \in Events : pc[f] = "ai.sending" /\ target[f] = m

\* (Mutant) only the cache of answered keys is consulted.
AiSendAnyway(e) ==
    /\ pc[e] = "ai.send"
    /\ IF target[e] \in cachedKeys THEN Goto(e, "ai.record") ELSE Goto(e, "ai.sending")
    /\ Forget(e)
    /\ UNCHANGED <<row, facts, gateway, target, opsLeft, winners, humanQueue>>

AiSend(e) ==
    /\ pc[e] = "ai.send"
    /\ \/ target[e] \in cachedKeys /\ Goto(e, "ai.record")
       \/ target[e] \notin cachedKeys /\ Sending(target[e]) /\ Goto(e, "ai.joined")
       \/ target[e] \notin cachedKeys /\ ~Sending(target[e]) /\ Goto(e, "ai.sending")
    /\ Forget(e)
    /\ UNCHANGED <<row, facts, gateway, target, opsLeft, winners, humanQueue>>

AiSent(e) ==
    /\ pc[e] = "ai.sending"
    /\ \/ /\ cachedKeys' = cachedKeys \union {target[e]}
          /\ sends' = [sends EXCEPT ![target[e]] = @ + 1]
          /\ Goto(e, "ai.record")
       \/ May("send_fails") /\ Goto(e, "ai.fail") /\ UNCHANGED gateway
    /\ UNCHANGED <<row, facts, target, opsLeft, ghosts>>

\* The promise of the run it joined is resolved.
AiJoined(e) ==
    /\ pc[e] = "ai.joined"
    /\ ~Sending(target[e])
    /\ IF target[e] \in cachedKeys THEN Goto(e, "ai.record") ELSE Goto(e, "ai.fail")
    /\ OnlyControl

\* The OUTBOUND row, SENT or FAILED, names the message it answers.
AiRow(e) ==
    /\ aiRows' = aiRows \union {target[e]}
    /\ lastDir' = "OUT"
    /\ UNCHANGED <<waiting, handoffRecent, humanRecent, stored, inboundOld>>

AiRecord(e) ==
    /\ pc[e] = "ai.record"
    /\ AiRow(e)
    /\ quiet' = FALSE
    /\ \/ flag[e] /\ Call(e, "queue.read", "done", Keep, Keep, FALSE)
       \/ ~flag[e] /\ May("ai_close") /\ Finish(e, "ai.closure")
       \/ ~flag[e] /\ Finish(e, "ai.rules")
    /\ UNCHANGED <<row, gateway, target, opsLeft, ghosts>>

AiFail(e) ==
    /\ pc[e] = "ai.fail"
    /\ AiRow(e)
    /\ quiet' = quiet
    /\ IF flag[e] THEN Call(e, "queue.read", "done", Keep, Keep, FALSE) ELSE Finish(e, "done")
    /\ UNCHANGED <<row, gateway, target, opsLeft, ghosts>>

\* maybeHandleAiClosure in mode auto: its own check, then closeConversation.
AiClosure(e) ==
    /\ pc[e] = "ai.closure"
    /\ IF Blocked THEN Finish(e, "ai.rules")
       ELSE Call(e, "close.read", "ai.rules", "CLOSED", Keep, FALSE)
    /\ OnlyControl

\* matchHandoffTriggers: a rule of the agent may match what was said.
AiRules(e) ==
    /\ pc[e] = "ai.rules"
    /\ \/ Finish(e, "done")
       \/ May("rule_matches") /\ Call(e, "queue.read", "done", Keep, Keep, FALSE)
    /\ OnlyControl

AiStep(e) ==
    \/ AiStart(e) \/ AiResume(e) \/ AiResumeFlags(e) \/ AiContext(e) \/ AiRecheck(e)
    \/ AiGenerate(e) \/ AiEligible(e) \/ AiSend(e) \/ AiSent(e) \/ AiJoined(e)
    \/ AiRecord(e) \/ AiFail(e) \/ AiClosure(e) \/ AiRules(e)
=============================================================================

---------------------------- MODULE HumanHandoff ----------------------------
(***************************************************************************)
(* services/human-handoff.ts: the human queue, the atomic assume, the      *)
(* explicit return to the AI and the transfer to a colleague.              *)
(***************************************************************************)
EXTENDS Conversation

-----------------------------------------------------------------------------
(* assumeConversationAtomic, called by POST /assign and by the first reply.
   It returns to back[u] with flag[u] telling whether the caller took over. *)

StartAssume(u) ==
    /\ Request(u, "assume")
    /\ Call(u, "assume.read", "idle", Keep, Keep, TRUE)
    /\ UNCHANGED <<row, facts, gateway, target, ghosts>>

\* The assume failed (409): the first-reply caller sends without taking over.
AssumeFails(u) ==
    IF back[u] = "idle" THEN Finish(u, "idle")
    ELSE /\ pc' = [pc EXCEPT ![u] = back[u]]
         /\ flag' = [flag EXCEPT ![u] = FALSE]
         /\ UNCHANGED <<back, regStatus, regUser>>

AssumeRead(u) ==
    /\ pc[u] = "assume.read"
    /\ \/ status \in Ended /\ AssumeFails(u)
       \/ status = "OPEN" /\ assignee = u /\ Return(u)
       \/ status = "PENDING" /\ assignee = u /\ Goto(u, "assume.open")
       \/ status \in Open /\ assignee \notin {u, NoUser} /\ AssumeFails(u)
       \/ status \in Open /\ assignee = NoUser /\ Goto(u, "assume.write")
    /\ OnlyControl

\* "Ja e seu - garante status OPEN"
AssumeOpen(u) ==
    /\ pc[u] = "assume.open"
    /\ SetRow("OPEN", assignee)
    /\ Return(u)
    /\ UNCHANGED <<closedAt, facts, gateway, target, opsLeft, humanQueue>>

\* (Mutant) update by id alone, as if the read had settled who wins.
AssumeWriteById(u) ==
    /\ pc[u] = "assume.write"
    /\ status' = "OPEN"
    /\ assignee' = u
    /\ winners' = winners \union {u}
    /\ touched' = [p \in Automatic |-> pc[p] \in Armed]
    /\ humanQueue' = FALSE
    /\ Goto(u, "assume.flags")
    /\ UNCHANGED <<closedAt, facts, gateway, target, opsLeft>>

\* updateMany WHERE assignedToId IS NULL: the statement decides who wins.  It
\* does not look at the status again.
AssumeWrite(u) ==
    /\ pc[u] = "assume.write"
    /\ \/ /\ assignee = NoUser
          /\ status' = "OPEN"
          /\ assignee' = u
          /\ winners' = winners \union {u}
          /\ touched' = [p \in Automatic |-> pc[p] \in Armed]
          /\ humanQueue' = FALSE
          /\ Goto(u, "assume.flags")
       \/ /\ assignee # NoUser
          /\ Goto(u, "assume.again")
          /\ UNCHANGED <<status, assignee, winners, touched, humanQueue>>
    /\ UNCHANGED <<closedAt, facts, gateway, target, opsLeft>>

\* count = 0: somebody else assumed between the read and the update.
AssumeAgain(u) ==
    /\ pc[u] = "assume.again"
    /\ IF assignee = u THEN Return(u) ELSE AssumeFails(u)
    /\ OnlyControl

\* The queue flags of the messages are cleared, then the caller notifies.
AssumeFlags(u) ==
    /\ pc[u] = "assume.flags"
    /\ waiting' = FALSE
    /\ Goto(u, "notice")
    /\ UNCHANGED <<handoffRecent, humanRecent, stored, lastDir, aiRows, quiet, inboundOld>>
    /\ UNCHANGED <<row, gateway, target, opsLeft, ghosts>>

\* notifyHumanTakeover: an OUTBOUND notice that carries humanHandoff itself;
\* skipped when the last such notice named the same member of the staff.
TakeoverNotice(u) ==
    /\ pc[u] = "notice"
    /\ \/ HumanWrites /\ handoffRecent' = TRUE /\ quiet' = FALSE
       \/ UNCHANGED facts
    /\ Return(u)
    /\ UNCHANGED <<row, gateway, target, opsLeft, ghosts>>

-----------------------------------------------------------------------------
(* handoffToHumanQueue, called by the AI (tool, rules, exhausted credits) with
   requiresAssume. *)

QueueRead(e) ==
    /\ pc[e] = "queue.read"
    /\ \/ assignee # NoUser /\ Return(e)
       \/ /\ assignee = NoUser
          /\ pc' = [pc EXCEPT ![e] = "queue.recent"]
          /\ regStatus' = [regStatus EXCEPT ![e] = status]
          /\ UNCHANGED <<back, regUser, flag>>
    /\ OnlyControl

\* A hand-off message inside the dedupe window: nothing to post, but a row
\* that was not PENDING when it was read is put back in the queue.
QueueRecent(e) ==
    /\ pc[e] = "queue.recent"
    /\ \/ /\ handoffRecent /\ regStatus[e] = "PENDING"
          /\ Return(e)
       \/ /\ ~handoffRecent \/ regStatus[e] # "PENDING"
          /\ pc' = [pc EXCEPT ![e] = "queue.write"]
          /\ flag' = [flag EXCEPT ![e] = ~handoffRecent]
          /\ UNCHANGED <<back, regStatus, regUser>>
    /\ OnlyControl

QueueWrite(e) ==
    /\ pc[e] = "queue.write"
    /\ SetRow("PENDING", NoUser)
    /\ humanQueue' = TRUE
    /\ IF flag[e] THEN Goto(e, "queue.note") ELSE Return(e)
    /\ UNCHANGED <<closedAt, facts, gateway, target, opsLeft>>

\* The INTERNAL message "Fila humana: ..." with waitingHuman and requiresAssume.
QueueNote(e) ==
    /\ pc[e] = "queue.note"
    /\ waiting' = TRUE
    /\ handoffRecent' = TRUE
    /\ touched' = [p \in Automatic |-> pc[p] \in Armed]
    /\ Return(e)
    /\ UNCHANGED <<humanRecent, stored, lastDir, aiRows, quiet, inboundOld>>
    /\ UNCHANGED <<row, gateway, target, opsLeft, winners, humanQueue>>

-----------------------------------------------------------------------------
(* resumeAiAttendance: POST /resume-ai. *)

StartResume(u) ==
    /\ Request(u, "resume")
    /\ \/ status \in Open /\ CanDispose(u) /\ ~(assignee = NoUser /\ status = "OPEN")
          /\ Goto(u, "resume.write")
       \/ ~(status \in Open /\ CanDispose(u) /\ ~(assignee = NoUser /\ status = "OPEN"))
          /\ Finish(u, "idle")
    /\ UNCHANGED <<row, facts, gateway, target, ghosts>>

ResumeWrite(u) ==
    /\ pc[u] = "resume.write"
    /\ SetRow("OPEN", NoUser)
    /\ humanQueue' = FALSE
    /\ Goto(u, "resume.flags")
    /\ UNCHANGED <<closedAt, facts, gateway, target, opsLeft>>

ResumeFlags(u) ==
    /\ pc[u] = "resume.flags"
    /\ waiting' = FALSE
    /\ Finish(u, "idle")
    /\ UNCHANGED <<handoffRecent, humanRecent, stored, lastDir, aiRows, quiet, inboundOld>>
    /\ UNCHANGED <<row, gateway, target, opsLeft, ghosts>>

-----------------------------------------------------------------------------
(* transferConversationToUser: POST /assign with another userId. *)

StartTransfer(u, v) ==
    /\ Request(u, "transfer")
    /\ u # v
    /\ \/ status \in Open /\ CanDispose(u)
          /\ Call(u, "transfer.write", "idle", Keep, v, FALSE)
       \/ (status \in Ended \/ ~CanDispose(u)) /\ Finish(u, "idle")
    /\ UNCHANGED <<row, facts, gateway, target, ghosts>>

TransferWrite(u) ==
    /\ pc[u] = "transfer.write"
    /\ SetRow("OPEN", regUser[u])
    /\ humanQueue' = FALSE
    /\ Finish(u, "idle")
    /\ UNCHANGED <<closedAt, facts, gateway, target, opsLeft>>

HandoffStep(u) ==
    \/ AssumeRead(u) \/ AssumeOpen(u) \/ AssumeWrite(u) \/ AssumeAgain(u)
    \/ AssumeFlags(u) \/ TakeoverNotice(u)
    \/ ResumeWrite(u) \/ ResumeFlags(u) \/ TransferWrite(u)

QueueStep(e) == QueueRead(e) \/ QueueRecent(e) \/ QueueWrite(e) \/ QueueNote(e)

HandoffRequest(u) ==
    \/ StartAssume(u) \/ StartResume(u)
    \/ \E v \in Users : StartTransfer(u, v)
=============================================================================

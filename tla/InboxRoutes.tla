----------------------------- MODULE InboxRoutes -----------------------------
(***************************************************************************)
(* routes/conversations.ts: the requests of the inbox that write the row   *)
(* themselves: POST /messages, PATCH /conversations/:id and the return to  *)
(* the queue of POST /assign.                                              *)
(***************************************************************************)
EXTENDS Conversation

-----------------------------------------------------------------------------
(* POST /conversations/:id/messages.  The row is read once, at the start:
   regStatus and regUser hold it until the last update.  flag is shouldTakeover. *)

StartReply(u) ==
    /\ Request(u, "reply")
    /\ CanAccess(u)
    /\ IF assignee = NoUser
       THEN Call(u, "assume.read", "reply.send", status, assignee, TRUE)
       ELSE Call(u, "reply.send", "idle", status, assignee, FALSE)
    /\ UNCHANGED <<row, facts, gateway, target, ghosts>>

\* An internal note: nobody assumes, nothing is sent, the row is still updated.
StartNote(u) ==
    /\ Request(u, "note")
    /\ CanAccess(u)
    /\ Call(u, "reply.finish", "idle", status, assignee, FALSE)
    /\ UNCHANGED <<row, facts, gateway, target, ghosts>>

\* Sent, and recorded, whatever became of the assume.
ReplySend(u) ==
    /\ pc[u] = "reply.send"
    /\ HumanWrites
    /\ UNCHANGED <<handoffRecent, quiet>>
    /\ Goto(u, "reply.finish")
    /\ UNCHANGED <<row, gateway, target, opsLeft, ghosts>>

\* The last update writes back what the first read saw; a CLOSED row is
\* opened, its closing stamp kept.
ReplyFinish(u) ==
    /\ pc[u] = "reply.finish"
    /\ SetRow(IF regStatus[u] = "CLOSED" THEN "OPEN" ELSE regStatus[u],
              IF flag[u] THEN u
              ELSE IF regUser[u] # NoUser THEN regUser[u] ELSE assignee)
    /\ quiet' = FALSE
    /\ Finish(u, "idle")
    /\ UNCHANGED <<waiting, handoffRecent, humanRecent, stored, lastDir, aiRows, inboundOld>>
    /\ UNCHANGED <<closedAt, gateway, target, opsLeft, humanQueue>>

\* A file: executeMediaSendPipeline reads the row again, records the message
\* and writes back the status it read; the route ends there.
MediaRead(u) ==
    /\ pc[u] = "reply.send"
    /\ "media" \in Ops
    /\ Call(u, "media.send", "idle", status, assignee, FALSE)
    /\ OnlyControl

MediaSend(u) ==
    /\ pc[u] = "media.send"
    /\ HumanWrites
    /\ UNCHANGED <<handoffRecent, quiet>>
    /\ Goto(u, "media.finish")
    /\ UNCHANGED <<row, gateway, target, opsLeft, ghosts>>

MediaFinish(u) ==
    /\ pc[u] = "media.finish"
    /\ SetRow(IF regStatus[u] = "CLOSED" THEN "OPEN" ELSE regStatus[u], assignee)
    /\ quiet' = FALSE
    /\ Finish(u, "idle")
    /\ UNCHANGED <<waiting, handoffRecent, humanRecent, stored, lastDir, aiRows, inboundOld>>
    /\ UNCHANGED <<closedAt, gateway, target, opsLeft, humanQueue>>

-----------------------------------------------------------------------------
(* PATCH /conversations/:id with a status, an assignee (Keep: absent), or both. *)

\* Closing and reopening go through their services, and the assignee of the
\* same body follows in an update of its own.
PatchStart(u, s, a) ==
    /\ Request(u, "patch")
    /\ CanAccess(u)
    /\ LET closing   == status \in Open /\ s \in Ended
           reopening == status \in Ended /\ s = "OPEN"
           after     == IF a = Keep THEN "idle" ELSE "patch.assign"
       IN  \/ closing /\ Call(u, "close.read", after, s, a, FALSE)
           \/ reopening /\ Call(u, "reopen.read", after, Keep, a, FALSE)
           \/ /\ ~closing /\ ~reopening
              /\ Call(u, "patch.write", "idle", s, a, a \notin {Keep, NoUser, assignee})
    /\ UNCHANGED <<row, facts, gateway, target, ghosts>>

PatchAssign(u) ==
    /\ pc[u] = "patch.assign"
    /\ SetRow(status, regUser[u])
    /\ humanQueue' = FALSE
    /\ Finish(u, "idle")
    /\ UNCHANGED <<closedAt, facts, gateway, target, opsLeft>>

\* UPDATE by id with the fields of the body; a new assignee is announced.
PatchWrite(u) ==
    /\ pc[u] = "patch.write"
    /\ SetRow(IF regStatus[u] = Keep THEN status ELSE regStatus[u],
              IF regUser[u] = Keep THEN assignee ELSE regUser[u])
    /\ humanQueue' = (humanQueue /\ regStatus[u] \notin Ended /\ regUser[u] = Keep)
    /\ IF flag[u] THEN Goto(u, "notice") ELSE Finish(u, "idle")
    /\ UNCHANGED <<closedAt, facts, gateway, target, opsLeft>>

-----------------------------------------------------------------------------
(* POST /conversations/:id/assign with userId null: back to the human queue,
   whoever holds the conversation and whether or not it is closed. *)

Requeue(u) ==
    /\ Request(u, "requeue")
    /\ SetRow("PENDING", NoUser)
    /\ humanQueue' = TRUE
    /\ Goto(u, "requeue.flag")
    /\ UNCHANGED <<closedAt, facts, gateway, target>>

\* The INTERNAL message "devolvido a fila humana", flagged like a hand-off.
RequeueFlag(u) ==
    /\ pc[u] = "requeue.flag"
    /\ waiting' = TRUE
    /\ handoffRecent' = TRUE
    /\ touched' = [p \in Automatic |-> pc[p] \in Armed]
    /\ Finish(u, "idle")
    /\ UNCHANGED <<humanRecent, stored, lastDir, aiRows, quiet, inboundOld>>
    /\ UNCHANGED <<row, gateway, target, opsLeft, winners, humanQueue>>

RouteRequest(u) ==
    \/ StartReply(u) \/ StartNote(u) \/ Requeue(u)
    \/ \E s \in Statuses \union {Keep}, a \in Users \union {NoUser, Keep} : PatchStart(u, s, a)

RouteStep(u) ==
    \/ ReplySend(u) \/ ReplyFinish(u)
    \/ MediaRead(u) \/ MediaSend(u) \/ MediaFinish(u)
    \/ PatchAssign(u) \/ PatchWrite(u) \/ RequeueFlag(u)
=============================================================================

---------------------------- MODULE Conversation ----------------------------
(***************************************************************************)
(* One WhatsApp conversation as the API sees it: its row in the database,  *)
(* the facts its messages record, and the asynchronous procedures that     *)
(* read and write them.  This module holds the state and the statements on *)
(* the row; HumanHandoff, ConversationClose, AutoReply and InboxRoutes     *)
(* hold the procedures, and Attendance puts them together.                 *)
(*                                                                         *)
(* A procedure is a process with a program counter.  One action is what    *)
(* runs between two awaits: a read of the row, an update of the row, a     *)
(* message written, a request to the WhatsApp gateway.  What was read in   *)
(* one action is kept in a register and may be stale in the next.          *)
(***************************************************************************)
EXTENDS Integers, FiniteSets

CONSTANTS
    Users,           \* staff with an active membership
    Elevated,        \* those of them that are ADMIN or SUPERVISOR
    NoUser,          \* assignedToId = null
    Keep,            \* a field left undefined in an update
    Sweeper,         \* the inactivity scheduler
    MaxInbound,      \* bound on the customer's messages
    LateEvents,      \* those whose provider timestamp is long past on arrival
    Ops,             \* the requests staff may issue
    MaxOps,          \* bound on the number of requests
    Hiccups,         \* what the environment may do to the AI and the gateway
    ResumeOnReturn,  \* settings.attendance.aiHandoff.resumeOnCustomerReturn
    ReopenMode       \* settings.attendance.reopen.mode = "reopen"

Events == 1..MaxInbound
Procs  == Users \union Events \union {Sweeper}
\* The procedures that act for the system, not for a member of the staff.
Automatic == Events \union {Sweeper}

ASSUME UserAssumption  == Elevated \subseteq Users /\ NoUser \notin Users /\ Keep \notin Users
ASSUME ProcAssumption  == Users \intersect Automatic = {} /\ Sweeper \notin Events
ASSUME BoundAssumption == MaxInbound \in Nat /\ MaxOps \in Nat /\ LateEvents \subseteq Events
ASSUME ConfigAssumption == ResumeOnReturn \in BOOLEAN /\ ReopenMode \in BOOLEAN

VARIABLES
    status,         \* Conversation.status
    assignee,       \* Conversation.assignedToId
    closedAt,       \* whether Conversation.closedAt is set
    waiting,        \* some message carries waitingHuman or requiresAssume
    handoffRecent,  \* some humanHandoff message is inside the dedupe window
    humanRecent,    \* a human wrote to the customer in the last 15 s
    stored,         \* the INBOUND messages of the conversation
    lastDir,        \* direction of its newest INBOUND or OUTBOUND message
    aiRows,         \* inboundMessageId of its AI OUTBOUND messages
    quiet,          \* lastMessageAt is older than the inactivity cutoff
    inboundOld,     \* so is its newest INBOUND message
    cachedKeys,     \* the ai-auto keys answered by the gateway (idempotencyCache)
    pc, back,       \* program counter of each process, and where it returns
    regStatus, regUser, flag,  \* what each process keeps across its awaits
    target,         \* the INBOUND message each AI run answers
    opsLeft,        \* requests the staff may still issue
    winners,        \* history: staff whose atomic assume still stands
    humanQueue,     \* history: handed to the human queue and not taken out of it
    touched,        \* history: the row changed since the process checked it
    sends           \* history: answers the gateway acknowledged, per INBOUND

row      == <<status, assignee, closedAt>>
facts    == <<waiting, handoffRecent, humanRecent, stored, lastDir, aiRows, quiet, inboundOld>>
gateway  == <<cachedKeys, sends>>
regs     == <<back, regStatus, regUser, flag>>
ghosts   == <<winners, humanQueue, touched>>

vars == <<row, facts, gateway, pc, regs, target, opsLeft, ghosts>>

Open  == {"OPEN", "PENDING"}
Ended == {"CLOSED", "ARCHIVED"}
Statuses == Open \union Ended

\* A process is armed between the check that lets it act and the act.
Armed == {"ai.send", "close.write"}

Places ==
    Armed \union
    {"idle", "done", "notice",
     "assume.read", "assume.open", "assume.write", "assume.again", "assume.flags",
     "queue.read", "queue.recent", "queue.write", "queue.note",
     "resume.write", "resume.flags", "transfer.write", "requeue.flag",
     "reply.send", "reply.finish", "media.send", "media.finish", "patch.write", "patch.assign",
     "close.read", "close.check", "close.event", "reopen.read", "reopen.write",
     "sweep.eligible",
     "inbound.new", "inbound.store", "inbound.open", "elsewhere",
     "ai.start", "ai.resume", "ai.flags", "ai.context", "ai.recheck", "ai.generate",
     "ai.eligible", "ai.sending", "ai.joined", "ai.record", "ai.fail",
     "ai.closure", "ai.rules"}

\* Where a subroutine returns to; idle and done end the procedure.
Returns == {"idle", "done", "reply.send", "patch.assign", "inbound.store",
            "ai.eligible", "ai.rules"}

RowOK == status \in Statuses /\ assignee \in Users \union {NoUser} /\ closedAt \in BOOLEAN

FactsOK ==
    /\ waiting \in BOOLEAN /\ handoffRecent \in BOOLEAN /\ humanRecent \in BOOLEAN
    /\ stored \subseteq Events /\ lastDir \in {"none", "IN", "OUT"} /\ aiRows \subseteq Events
    /\ quiet \in BOOLEAN /\ inboundOld \in BOOLEAN

GatewayOK == cachedKeys \subseteq Events /\ sends \in [Events -> Nat]

ControlOK ==
    /\ pc \in [Procs -> Places] /\ back \in [Procs -> Returns]
    /\ regStatus \in [Procs -> Statuses \union {Keep}]
    /\ regUser \in [Procs -> Users \union {NoUser, Keep}]
    /\ flag \in [Procs -> BOOLEAN]

HistoryOK == winners \subseteq Users /\ humanQueue \in BOOLEAN /\ touched \in [Automatic -> BOOLEAN]

TypeOK ==
    /\ RowOK /\ FactsOK /\ GatewayOK /\ ControlOK /\ HistoryOK
    /\ target \in [Events -> {0} \union Events]
    /\ opsLeft \in 0..MaxOps

\* A conversation just created for the customer's first message.
Init ==
    /\ status = "OPEN" /\ assignee = NoUser /\ closedAt = FALSE
    /\ waiting = FALSE /\ handoffRecent = FALSE /\ humanRecent = FALSE
    /\ stored = {} /\ lastDir = "none" /\ aiRows = {}
    /\ quiet = FALSE /\ inboundOld = FALSE
    /\ cachedKeys = {} /\ sends = [e \in Events |-> 0]
    /\ pc = [p \in Procs |-> IF p \in Events THEN "inbound.new" ELSE "idle"]
    /\ back = [p \in Procs |-> "idle"]
    /\ regStatus = [p \in Procs |-> Keep]
    /\ regUser = [p \in Procs |-> Keep]
    /\ flag = [p \in Procs |-> FALSE]
    /\ target = [e \in Events |-> 0]
    /\ opsLeft = MaxOps
    /\ winners = {} /\ humanQueue = FALSE /\ touched = [p \in Automatic |-> FALSE]

-----------------------------------------------------------------------------
(* Control. *)

\* Go on at place, the registers kept.
Goto(p, place) == pc' = [pc EXCEPT ![p] = place] /\ UNCHANGED regs

\* Go on at place with these registers.
Call(p, place, b, s, u, f) ==
    /\ pc' = [pc EXCEPT ![p] = place]
    /\ back' = [back EXCEPT ![p] = b]
    /\ regStatus' = [regStatus EXCEPT ![p] = s]
    /\ regUser' = [regUser EXCEPT ![p] = u]
    /\ flag' = [flag EXCEPT ![p] = f]

\* The procedure is over: nothing it read is used again.
Finish(p, place) == Call(p, place, "idle", Keep, Keep, FALSE)

\* Back to the procedure that called this one, or over.
Return(p) ==
    IF back[p] \in {"idle", "done"} THEN Finish(p, back[p]) ELSE Goto(p, back[p])

\* A request of a member of the staff.
Request(u, op) ==
    /\ pc[u] = "idle"
    /\ op \in Ops
    /\ opsLeft > 0
    /\ opsLeft' = opsLeft - 1

\* conversationAccessWhere: an AGENT sees its own conversations and the unassigned.
CanAccess(u) == u \in Elevated \/ assignee \in {u, NoUser}

\* May hand the conversation on: its assignee, or an elevated member.
CanDispose(u) == assignee \in {u, NoUser} \/ u \in Elevated

-----------------------------------------------------------------------------
(* Statements on the row. *)

\* UPDATE ... SET status, assignedToId.  Every such statement moves the row
\* under whoever has checked it, and displaces the winner of an assume.
SetRow(s, a) ==
    /\ status' = s
    /\ assignee' = a
    /\ winners' = winners \intersect {a}
    /\ touched' = [p \in Automatic |-> pc[p] \in Armed]

\* What a process that has just checked the row, or has acted on it, knows.
Forget(p) == touched' = [touched EXCEPT ![p] = FALSE]

\* A human wrote to the customer.
HumanWrites ==
    /\ lastDir' = "OUT" /\ humanRecent' = TRUE
    /\ UNCHANGED <<waiting, stored, aiRows, inboundOld>>

\* The blockers of an automatic closing that the row and its messages show:
\* human_active, waiting_human, already_closed.
Blocked ==
    \/ status \in Ended
    \/ assignee # NoUser
    \/ status = "PENDING"
    \/ waiting

\* UNCHANGED for an action that only moves its process.
OnlyControl == UNCHANGED <<row, facts, gateway, target, opsLeft, ghosts>>
=============================================================================

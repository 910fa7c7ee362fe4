----------------------------- MODULE Attendance -----------------------------
(***************************************************************************)
(* The whole of a conversation's attendance: the staff's requests, the     *)
(* customer's messages with the automatic replies they start, and the      *)
(* inactivity scheduler, interleaved at every await.                       *)
(***************************************************************************)
EXTENDS HumanHandoff, ConversationClose, AutoReply, InboxRoutes

-----------------------------------------------------------------------------
(* The passage of time, as far as the code compares times. *)

\* 15 s after the last thing a human wrote to the customer.
HumanFades ==
    /\ humanRecent
    /\ humanRecent' = FALSE
    /\ UNCHANGED <<waiting, handoffRecent, stored, lastDir, aiRows, quiet, inboundOld>>

\* The dedupe window of the hand-off is over: eight minutes, or two hours.
HandoffFades ==
    /\ handoffRecent
    /\ handoffRecent' = FALSE
    /\ humanRecent' = FALSE
    /\ UNCHANGED <<waiting, stored, lastDir, aiRows, quiet, inboundOld>>

\* The inactivity timeout of the company.
GoesQuiet ==
    /\ stored # {}
    /\ ~quiet \/ ~inboundOld
    /\ quiet' = TRUE /\ inboundOld' = TRUE
    /\ humanRecent' = FALSE /\ handoffRecent' = FALSE
    /\ UNCHANGED <<waiting, stored, lastDir, aiRows>>

Elapse ==
    /\ HumanFades \/ HandoffFades \/ GoesQuiet
    /\ UNCHANGED <<row, gateway, pc, regs, target, opsLeft, ghosts>>

-----------------------------------------------------------------------------
UserStep(u)  == HandoffStep(u) \/ CloseStep(u) \/ RouteStep(u)
EventStep(e) == Ingest(e) \/ AiStep(e) \/ QueueStep(e) \/ CloseStep(e)
SweeperStep  == Sweep \/ CloseStep(Sweeper)

Next ==
    \/ \E u \in Users : HandoffRequest(u) \/ RouteRequest(u) \/ UserStep(u)
    \/ \E e \in Events : EventStep(e)
    \/ SweeperStep
    \/ Elapse

Spec == Init /\ [][Next]_vars

\* A procedure that has started runs on: Node resumes it when its await is
\* over, and the scheduler's interval keeps firing.  Nobody has to ask for
\* anything and the customer need not write: a message that never arrives is
\* one whose Resolve is never taken, so only later steps are fair.
Fairness ==
    /\ \A u \in Users  : WF_vars(UserStep(u))
    /\ \A e \in Events : WF_vars(pc[e] # "inbound.new" /\ EventStep(e))
    /\ WF_vars(SweeperStep)

FairSpec == Spec /\ Fairness

-----------------------------------------------------------------------------
(* Safety. *)

\* Of the staff whose atomic assume is still in force there is at most one,
\* however the clicks, first replies, transfers and automatic hand-offs
\* interleave (assumeConversationAtomic: one human wins).
OneWinner == \A u, v \in winners : u = v

\* A customer's message gets at most one automatic answer, although every
\* message starts a run of its own and each run answers the newest message it
\* finds (sendAiOutboundAndHandoff's key names the message answered).
AiAnswersOnce == \A m \in Events : sends[m] <= 1

\* When a generated answer is handed to the gateway, either nothing has moved
\* since autoReplyStillEligible looked and the chat is still the AI's, or the
\* change fell inside that last await: the AI never speaks on older knowledge.
EligibleAtSend ==
    \A e \in Events :
        pc[e] = "ai.send" /\ ~flag[e] /\ ~touched[e] => status = "OPEN" /\ assignee = NoUser

\* An automatic closing about to be written is not blocked, unless what blocks
\* it came inside the await after getAutoCloseBlockers.
AutoCloseGuarded ==
    \A p \in Automatic : pc[p] = "close.write" /\ ~touched[p] => ~Blocked

-----------------------------------------------------------------------------
(* Liveness. *)

\* A chat the AI holds, where the company spoke last and the customer has been
\* silent for the timeout, does not stay so: the scheduler closes it
\* (runInactivityAutoClose).
Abandoned == status = "OPEN" /\ ~Blocked /\ lastDir = "OUT" /\ quiet /\ inboundOld
IdleCloses == Abandoned ~> ~Abandoned

\* Every stored message is answered, itself or through a later one, unless the
\* chat leaves the AI's hands (maybeAutoReplyAi, whatever order the messages
\* arrive in and however their runs overlap).
Answered(e) == \E f \in aiRows : f >= e
InboundHandled ==
    \A e \in Events : e \in stored ~> Answered(e) \/ status # "OPEN" \/ assignee # NoUser

-----------------------------------------------------------------------------
(* What the comments of the code say and the code does not do. *)

\* index.ts:1155: in the human queue the AI answers only if the company allows
\* it to resume.
QueueGate == [][\A e \in Events : AiGenerate(e) => ~humanQueue \/ ResumeOnReturn]_vars

\* index.ts:1131: the AI does not answer once a human has assumed.
SilentAfterAssume == [][\A e \in Events : AiSend(e) => assignee = NoUser]_vars

\* conversation-close.ts:744: never close automatically a chat in the human
\* queue or with a human in command.
NeverAutoCloseHuman ==
    [][\A p \in Automatic : CloseWrite(p) => status # "PENDING" /\ assignee = NoUser]_vars

\* conversation-close.ts:258: closing is idempotent, so a closed conversation
\* is not closed again (a second timeline event, notice, survey and webhook).
CloseOnce == [][\A p \in Procs : CloseWrite(p) => status \in Open]_vars

\* routes/conversations.ts:426: the first human message assumes the chat; what
\* the assume opened is not put back in the queue by the same request.
ReplyTakesOver == [][\A u \in Users : ReplyFinish(u) /\ flag[u] => status' = "OPEN"]_vars

\* human-handoff.ts:223: with a human in command the hand-off leaves the chat
\* alone.
HumanKept == [][\A e \in Events : QueueWrite(e) => assignee' = assignee]_vars

\* index.ts:954: after a hand-off, when the customer writes again and nobody is
\* assigned, the AI takes over again: the message is not left unanswered in an
\* open chat that nobody holds.
ReturnAnswered ==
    \A e \in Events :
        pc[e] = "ai.start" /\ humanQueue ~> Answered(e) \/ status # "OPEN" \/ assignee # NoUser

=============================================================================

-------------------------- MODULE ConversationClose --------------------------
(***************************************************************************)
(* services/conversation-close.ts: closing by a human, by the AI and by    *)
(* inactivity, and reopening.  closeConversation and reopenConversation    *)
(* are subroutines of several procedures.                                  *)
(***************************************************************************)
EXTENDS Conversation

-----------------------------------------------------------------------------
(* closeConversation.  regStatus holds the status it is to write. *)

CloseRead(p) ==
    /\ pc[p] = "close.read"
    /\ \/ status \in Ended /\ Return(p)
       \/ status \in Open /\ p \in Automatic /\ Goto(p, "close.check")
       \/ status \in Open /\ p \in Users /\ Goto(p, "close.write")
    /\ OnlyControl

\* (Mutant) only drafts, tasks and failed sends block.
CloseCheckPartial(p) ==
    /\ pc[p] = "close.check"
    /\ \/ "other_blocker" \in Hiccups /\ Return(p)
       \/ Goto(p, "close.write")
    /\ OnlyControl

\* getAutoCloseBlockers; drafts, open tasks and failed sends are the
\* environment's ("other_blocker").
CloseCheck(p) ==
    /\ pc[p] = "close.check"
    /\ \/ Blocked /\ Return(p)
       \/ "other_blocker" \in Hiccups /\ Return(p)
       \/ ~Blocked /\ Goto(p, "close.write")
    /\ OnlyControl

\* UPDATE by id: what was read above is not checked again.
CloseWrite(p) ==
    /\ pc[p] = "close.write"
    /\ status' = regStatus[p]
    /\ closedAt' = TRUE
    /\ humanQueue' = FALSE
    /\ touched' = [q \in Automatic |-> q # p /\ pc[q] \in Armed]
    /\ Goto(p, "close.event")
    /\ UNCHANGED <<assignee, winners, facts, gateway, target, opsLeft>>

\* The timeline event, the optional notice to the customer, survey and webhook;
\* the notice of a closing by a human names its author.
CloseEvent(p) ==
    /\ pc[p] = "close.event"
    /\ \/ UNCHANGED <<lastDir, quiet, humanRecent>>
       \/ lastDir' = "OUT" /\ quiet' = FALSE /\ humanRecent' = (humanRecent \/ p \in Users)
    /\ Return(p)
    /\ UNCHANGED <<waiting, handoffRecent, stored, aiRows, inboundOld>>
    /\ UNCHANGED <<row, gateway, target, opsLeft, ghosts>>

-----------------------------------------------------------------------------
(* reopenConversation.  The assignee is left as it was. *)

ReopenRead(p) ==
    /\ pc[p] = "reopen.read"
    /\ \/ status \in Open /\ Return(p)
       \/ status \in Ended /\ Goto(p, "reopen.write")
    /\ OnlyControl

ReopenWrite(p) ==
    /\ pc[p] = "reopen.write"
    /\ closedAt' = FALSE
    /\ SetRow("OPEN", assignee)
    /\ humanQueue' = FALSE
    /\ Return(p)
    /\ UNCHANGED <<facts, gateway, target, opsLeft>>

-----------------------------------------------------------------------------
(* runInactivityAutoClose: the scheduler's candidate query, then
   isEligibleForInactivityClose, then closeConversation. *)

SweepPick ==
    /\ pc[Sweeper] = "idle"
    /\ status \in Open
    /\ quiet
    /\ Goto(Sweeper, "sweep.eligible")
    /\ OnlyControl

\* (Mutant) the direction of the last message tested the wrong way round.
SweepEligibleReversed ==
    /\ pc[Sweeper] = "sweep.eligible"
    /\ IF lastDir = "IN" /\ inboundOld /\ ~Blocked
       THEN Call(Sweeper, "close.read", "idle", "CLOSED", Keep, FALSE)
       ELSE Finish(Sweeper, "idle")
    /\ OnlyControl

SweepEligible ==
    /\ pc[Sweeper] = "sweep.eligible"
    /\ \/ /\ lastDir = "OUT"
          /\ inboundOld
          /\ ~Blocked
          /\ Call(Sweeper, "close.read", "idle", "CLOSED", Keep, FALSE)
       \/ /\ lastDir # "OUT" \/ ~inboundOld \/ Blocked \/ "other_blocker" \in Hiccups
          /\ Finish(Sweeper, "idle")
    /\ OnlyControl

Sweep == SweepPick \/ SweepEligible

CloseStep(p) ==
    \/ CloseRead(p) \/ CloseCheck(p) \/ CloseWrite(p) \/ CloseEvent(p)
    \/ ReopenRead(p) \/ ReopenWrite(p)
=============================================================================

------------------------------ MODULE MCStaff ------------------------------
(***************************************************************************)
(* Two scenes: one request of the staff, of any kind, while anything may   *)
(* happen to the AI; or several, none of them a patch, while the credits   *)
(* last and no rule asks for a human.  (A patch may ask for any status and *)
(* any assignee, so that two of them are too many behaviours.)             *)
(***************************************************************************)
EXTENDS MCAttendance

VARIABLE scene

Usual == INSTANCE Attendance WITH Hiccups <- Hiccups \ {"no_credits", "rule_matches"}

Patch(u) == \E s \in Statuses \union {Keep}, a \in Users \union {NoUser, Keep} : PatchStart(u, s, a)
Ask(u) == HandoffRequest(u) \/ StartReply(u) \/ StartNote(u) \/ Requeue(u)

StaffNext ==
    /\ UNCHANGED scene
    /\ \/ /\ scene = "one"
          /\ \/ opsLeft = MaxOps /\ \E u \in Users : Patch(u) \/ Ask(u)
             \/ \E u \in Users : UserStep(u)
             \/ \E e \in Events : EventStep(e)
       \/ /\ scene = "several"
          /\ \/ \E u \in Users : Ask(u) \/ UserStep(u)
             \/ \E e \in Events : Usual!EventStep(e)
       \/ SweeperStep \/ Elapse

StaffInit == Init /\ scene \in {"one", "several"}
StaffSpec == StaffInit /\ [][StaffNext]_<<vars, scene>>

\* The requests and messages of the second scene under the fairness of Attendance.
MessagesInit == Init /\ scene = "several"
MessagesSpec == MessagesInit /\ [][StaffNext]_<<vars, scene>> /\ Fairness
=============================================================================

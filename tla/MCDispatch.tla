----------------------------- MODULE MCDispatch -----------------------------
(***************************************************************************)
(* Three calls of the dispatch layer, c1 to c3, in one of two scenes: as   *)
(* retries of one key, the last of them a campaign message; or as notices  *)
(* of one conversation, which are never proactive.                         *)
(***************************************************************************)
EXTENDS ChatNotices, TLC

CONSTANTS c1, c2, c3, k1, k2, r1, ana, sup

OneCustomer == [c \in Calls |-> r1]

\* ana, sup and ana again take over.
OneKey     == [c \in Calls |-> k1]
TurnsKind  == [c \in Calls |-> "human_takeover"]
TurnsAgent == [c \in Calls |-> IF c = c2 THEN sup ELSE ana]

\* ana takes over and closes; the conversation is reopened and closed again.
CloseKey   == [c \in Calls |-> IF c = c1 THEN k1 ELSE k2]
CloseKind  == [c \in Calls |-> IF c = c1 THEN "human_takeover" ELSE "attendance_closed"]
CloseAgent == [c \in Calls |-> ana]

VARIABLE scene

Notices == INSTANCE ChatNotices WITH Proactive <- {}, MaxTime <- MaxTime - 1

OutboundInit == NoticeInit /\ scene \in {"calls", "notices"}

OutboundNext ==
    /\ UNCHANGED scene
    /\ \/ scene = "calls" /\ Next /\ UNCHANGED <<stage, rows>>
       \/ scene = "notices" /\ Notices!NoticeNext

OutboundSpec == OutboundInit /\ [][OutboundNext]_<<nvars, scene>> /\ Fairness
=============================================================================

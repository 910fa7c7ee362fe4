----------------------- MODULE AttendanceSafetyProofs -----------------------
(***************************************************************************)
(* The safety of Attendance, proved for every number of staff and of       *)
(* messages from the type correctness of AttendanceProofs.                 *)
(*                                                                         *)
(* Few steps matter to these properties.  The others are Calm: they let    *)
(* nobody into the send, leave the gateway alone, and mark every process   *)
(* that has checked the row whenever they change it.                       *)
(***************************************************************************)
EXTENDS AttendanceProofs

-----------------------------------------------------------------------------
(* One winner. *)

\* A winner of the atomic assume still holds the conversation.
WinnerInv == winners \subseteq {assignee}

LEMMA SetRowWinner == ASSUME NEW s, NEW a, SetRow(s, a) PROVE WinnerInv'
BY DEF SetRow, WinnerInv

LEMMA SameWinner == ASSUME WinnerInv, UNCHANGED <<assignee, winners>> PROVE WinnerInv'
BY DEF WinnerInv

LEMMA WinnerStep == TypeInv /\ WinnerInv /\ [Next]_vars => WinnerInv'
<1> SUFFICES ASSUME TypeInv, WinnerInv, [Next]_vars PROVE WinnerInv'
  OBVIOUS
<1> USE SetRowWinner, SameWinner DEF row, ghosts, OnlyControl
<1>1. ASSUME NEW u \in Users, HandoffRequest(u) \/ RouteRequest(u) PROVE WinnerInv'
  BY <1>1 DEF HandoffRequest, StartAssume, StartResume, StartTransfer,
              RouteRequest, StartReply, StartNote, Requeue, PatchStart
<1>2. ASSUME NEW u \in Users, HandoffStep(u) PROVE WinnerInv'
  <2>1. CASE AssumeWrite(u)
    <3>1. winners \subseteq Users /\ NoUser \notin Users
      BY UserAssumption DEF TypeInv, DataOK, HistoryOK
    <3> QED
      BY <2>1, <3>1 DEF AssumeWrite, WinnerInv
  <2> QED
    BY <1>2, <2>1 DEF HandoffStep, AssumeRead, AssumeOpen, AssumeAgain, AssumeFlags,
                      TakeoverNotice, ResumeWrite, ResumeFlags, TransferWrite
<1>3. ASSUME NEW p \in Procs, CloseStep(p) PROVE WinnerInv'
  BY <1>3 DEF CloseStep, CloseRead, CloseCheck, CloseWrite, CloseEvent, ReopenRead, ReopenWrite
<1>4. ASSUME NEW u \in Users, RouteStep(u) PROVE WinnerInv'
  BY <1>4 DEF RouteStep, ReplySend, ReplyFinish, MediaRead, MediaSend, MediaFinish, PatchAssign, PatchWrite, RequeueFlag
<1>5. ASSUME NEW e \in Events, Ingest(e) \/ QueueStep(e) PROVE WinnerInv'
  BY <1>5 DEF Ingest, Resolve, StoreInbound, OpenRow,
              QueueStep, QueueRead, QueueRecent, QueueWrite, QueueNote
<1>6. ASSUME NEW e \in Events, AiStep(e) PROVE WinnerInv'
  BY <1>6 DEF AiStep, AiStart, AiResume, AiResumeFlags, AiContext, AiRecheck, AiGenerate,
              AiEligible, AiSend, Forget, AiSent, AiJoined, AiRecord, AiFail, AiClosure, AiRules
<1>7. CASE Sweep \/ Elapse \/ UNCHANGED vars
  BY <1>7 DEF Sweep, SweepPick, SweepEligible, Elapse, vars
<1> QED
  BY <1>1, <1>2, <1>3, <1>4, <1>5, <1>6, <1>7
     DEF Next, UserStep, EventStep, SweeperStep, Procs

\* The atomic assume has one winner at a time (the updateMany of
\* assumeConversationAtomic, against every other statement on the row).
THEOREM OneWinnerHolds == Spec => []OneWinner
<1>1. Init => WinnerInv
  BY DEF Init, WinnerInv
<1>2. WinnerInv => OneWinner
  BY DEF WinnerInv, OneWinner
<1> QED
  BY <1>1, <1>2, WinnerStep, TypeInvariant, PTL DEF Spec
-----------------------------------------------------------------------------
(* Calm steps. *)

Hot == {"ai.send", "ai.sending"}

\* Nobody enters the send, or changes its flag there.
StaysCool == \A q \in Procs : pc'[q] \in Hot => pc[q] = pc'[q] /\ flag'[q] = flag[q]

\* The row is left alone, or whoever has checked it is marked.
Careful ==
    \/ UNCHANGED <<status, assignee, touched>>
    \/ \A e \in Events : pc[e] = "ai.send" => touched'[e] = TRUE

Calm ==
    /\ StaysCool /\ Careful
    /\ UNCHANGED gateway
    /\ \A e \in Events : pc[e] = "ai.sending" => target'[e] = target[e]

LEMMA CallCool ==
  ASSUME TypeInv, NEW p \in Procs, NEW place, place \notin Hot, NEW b, NEW s, NEW u,
         NEW f \in BOOLEAN,
         Call(p, place, b, s, u, f)
  PROVE  StaysCool
BY DEF Call, StaysCool, TypeInv, Steady, ControlOK

LEMMA FinishCool ==
  ASSUME TypeInv, NEW p \in Procs, NEW place, place \notin Hot, Finish(p, place)
  PROVE  StaysCool
BY CallCool DEF Finish

LEMMA GotoCool ==
  ASSUME TypeInv, NEW p \in Procs, NEW place, place \notin Hot, Goto(p, place)
  PROVE  StaysCool
BY DEF Goto, regs, StaysCool, TypeInv, Steady, ControlOK

LEMMA MoveCool ==
  ASSUME TypeInv, NEW p \in Procs, NEW place, place \notin Hot, pc' = [pc EXCEPT ![p] = place],
         NEW f, flag' = [flag EXCEPT ![p] = f] \/ flag' = flag
  PROVE  StaysCool
BY DEF StaysCool, TypeInv, Steady, ControlOK

LEMMA ReturnCool ==
  ASSUME TypeInv, NEW p \in Procs, Return(p)
  PROVE  StaysCool
<1>1. back[p] \notin Hot
  BY Registers DEF Returns, Hot
<1> QED
  BY <1>1, FinishCool, GotoCool DEF Return

LEMMA AssumeFailsCool ==
  ASSUME TypeInv, NEW u \in Users, AssumeFails(u)
  PROVE  StaysCool
<1>1. u \in Procs /\ back[u] \notin Hot /\ "idle" \notin Hot
  BY Registers DEF Procs, Returns, Hot
<1> QED
  BY <1>1, FinishCool, MoveCool DEF AssumeFails

\* Every statement on the row marks the processes that have checked it.
LEMMA MarksCareful ==
  ASSUME touched' = [p \in Automatic |-> pc[p] \in Armed] PROVE Careful
BY DEF Careful, Automatic, Armed

LEMMA SetRowCareful == ASSUME NEW s, NEW a, SetRow(s, a) PROVE Careful
BY MarksCareful DEF SetRow

LEMMA KeepsCareful == ASSUME UNCHANGED <<status, assignee, touched>> PROVE Careful
BY DEF Careful

LEMMA StaffCalm ==
  ASSUME TypeInv, NEW u \in Users,
         HandoffRequest(u) \/ RouteRequest(u) \/ HandoffStep(u) \/ RouteStep(u)
  PROVE  Calm
<1>0. u \in Procs
  BY DEF Procs
<1>1. UNCHANGED <<gateway, target>>
  BY DEF HandoffRequest, StartAssume, StartResume, StartTransfer, RouteRequest, StartReply, StartNote, Requeue,
         PatchStart, HandoffStep, AssumeRead, AssumeOpen, AssumeAgain, AssumeFlags, AssumeWrite,
         TakeoverNotice, ResumeWrite, ResumeFlags, TransferWrite, RouteStep, ReplySend,
         ReplyFinish, MediaRead, MediaSend, MediaFinish, PatchAssign, PatchWrite, RequeueFlag, OnlyControl
<1>2. Careful
  <2> USE MarksCareful, SetRowCareful, KeepsCareful DEF row, ghosts, OnlyControl
  <2>1. CASE HandoffRequest(u) \/ RouteRequest(u)
    BY <2>1 DEF HandoffRequest, StartAssume, StartResume, StartTransfer, RouteRequest, StartReply,
                StartNote, Requeue, PatchStart
  <2>2. CASE HandoffStep(u)
    BY <2>2 DEF HandoffStep, AssumeRead, AssumeOpen, AssumeAgain, AssumeFlags, AssumeWrite,
                TakeoverNotice, ResumeWrite, ResumeFlags, TransferWrite
  <2>3. CASE RouteStep(u)
    BY <2>3 DEF RouteStep, ReplySend, ReplyFinish, MediaRead, MediaSend, MediaFinish, PatchAssign, PatchWrite, RequeueFlag
  <2> QED
    BY <2>1, <2>2, <2>3
<1>3. StaysCool
  <2> USE <1>0, CallCool, GotoCool, FinishCool, ReturnCool, AssumeFailsCool DEF Hot
  <2>1. CASE HandoffRequest(u)
    <3>1. CASE StartAssume(u)
      BY <3>1 DEF StartAssume
    <3>2. CASE StartResume(u)
      BY <3>2 DEF StartResume
    <3>3. ASSUME NEW v \in Users, StartTransfer(u, v) PROVE StaysCool
      <4>1. CASE Call(u, "transfer.write", "idle", Keep, v, FALSE)
        BY <4>1
      <4>2. CASE Finish(u, "idle")
        BY <4>2
      <4> QED
        BY <3>3, <4>1, <4>2 DEF StartTransfer
    <3> QED
      BY <2>1, <3>1, <3>2, <3>3 DEF HandoffRequest
  <2>2. CASE RouteRequest(u)
    <3>1. CASE StartReply(u)
      BY <3>1 DEF StartReply
    <3>2. CASE StartNote(u) \/ Requeue(u)
      BY <3>2 DEF StartNote, Requeue
    <3>3. ASSUME NEW s, NEW a, PatchStart(u, s, a) PROVE StaysCool
      BY <3>3 DEF PatchStart
    <3> QED
      BY <2>2, <3>1, <3>2, <3>3 DEF RouteRequest
  <2>3. CASE HandoffStep(u)
    BY <2>3 DEF HandoffStep, AssumeRead, AssumeOpen, AssumeAgain, AssumeFlags, AssumeWrite,
                TakeoverNotice, ResumeWrite, ResumeFlags, TransferWrite
  <2>4. CASE RouteStep(u)
    BY <2>4 DEF RouteStep, ReplySend, ReplyFinish, MediaRead, MediaSend, MediaFinish, PatchAssign, PatchWrite, RequeueFlag
  <2> QED
    BY <2>1, <2>2, <2>3, <2>4
<1> QED
  BY <1>1, <1>2, <1>3 DEF Calm

LEMMA CloseCalm ==
  ASSUME TypeInv, NEW p \in Procs, CloseStep(p) PROVE Calm
<1>1. UNCHANGED <<gateway, target>>
  BY DEF CloseStep, CloseRead, CloseCheck, CloseWrite, CloseEvent, ReopenRead, ReopenWrite, OnlyControl
<1>2. Careful
  <2>1. CASE CloseWrite(p)
    BY <2>1 DEF CloseWrite, Careful, Automatic, Armed
  <2>2. CASE ReopenWrite(p)
    BY <2>2, SetRowCareful DEF ReopenWrite
  <2>3. CASE CloseRead(p) \/ CloseCheck(p) \/ CloseEvent(p) \/ ReopenRead(p)
    BY <2>3, KeepsCareful
       DEF CloseRead, CloseCheck, CloseEvent, ReopenRead, OnlyControl, row, ghosts
  <2> QED
    BY <2>1, <2>2, <2>3 DEF CloseStep
<1>3. StaysCool
  BY CallCool, GotoCool, FinishCool, ReturnCool
     DEF CloseStep, CloseRead, CloseCheck, CloseWrite, CloseEvent, ReopenRead, ReopenWrite, Hot
<1> QED
  BY <1>1, <1>2, <1>3 DEF Calm

LEMMA MessageCalm ==
  ASSUME TypeInv, NEW e \in Events,
         \/ Ingest(e) \/ QueueStep(e)
         \/ AiStep(e) /\ ~(AiContext(e) \/ AiEligible(e) \/ AiSend(e) \/ AiSent(e))
  PROVE  Calm
<1>0. e \in Procs
  BY DEF Procs
<1>1. UNCHANGED <<gateway, target>>
  BY DEF Ingest, Resolve, StoreInbound, OpenRow, QueueStep, QueueRead, QueueRecent, QueueWrite, QueueNote,
         AiStep, AiStart, AiResume, AiResumeFlags, AiRecheck, AiGenerate, AiJoined, AiRecord, AiFail,
         AiClosure, AiRules, OnlyControl
<1>2. Careful
  <2> USE MarksCareful, SetRowCareful, KeepsCareful DEF row, ghosts, OnlyControl
  <2>1. CASE Ingest(e)
    BY <2>1 DEF Ingest, Resolve, StoreInbound, OpenRow
  <2>2. CASE QueueStep(e)
    BY <2>2 DEF QueueStep, QueueRead, QueueRecent, QueueWrite, QueueNote
  <2>3. CASE AiStep(e) /\ ~(AiContext(e) \/ AiEligible(e) \/ AiSend(e) \/ AiSent(e))
    BY <2>3 DEF AiStep, AiStart, AiResume, AiResumeFlags, AiRecheck, AiGenerate, AiJoined, AiRecord,
                AiFail, AiClosure, AiRules
  <2> QED
    BY <2>1, <2>2, <2>3
<1>3. StaysCool
  <2> USE <1>0, CallCool, GotoCool, FinishCool, ReturnCool DEF Hot
  <2>1. CASE Ingest(e)
    <3>1. CASE Resolve(e)
      BY <3>1 DEF Resolve
    <3>2. CASE StoreInbound(e) \/ OpenRow(e)
      BY <3>2 DEF StoreInbound, OpenRow
    <3> QED
      BY <2>1, <3>1, <3>2 DEF Ingest
  <2>2. CASE QueueStep(e)
    <3>1. CASE QueueRead(e)
      BY <3>1, MoveCool DEF QueueRead
    <3>2. CASE QueueRecent(e)
      BY <3>2, MoveCool DEF QueueRecent
    <3> QED
      BY <2>2, <3>1, <3>2 DEF QueueStep, QueueWrite, QueueNote
  <2>3. CASE AiStep(e) /\ ~(AiContext(e) \/ AiEligible(e) \/ AiSend(e) \/ AiSent(e))
    BY <2>3 DEF AiStep, AiStart, AiResume, AiResumeFlags, AiRecheck, AiGenerate, AiJoined, AiRecord,
                AiFail, AiClosure, AiRules
  <2> QED
    BY <2>1, <2>2, <2>3
<1> QED
  BY <1>1, <1>2, <1>3 DEF Calm

LEMMA OtherCalm ==
  ASSUME TypeInv, Sweep \/ Elapse \/ UNCHANGED vars PROVE Calm
<1>1. Sweeper \in Procs
  BY DEF Procs
<1>2. UNCHANGED <<gateway, target>> /\ Careful
  BY KeepsCareful DEF Sweep, SweepPick, SweepEligible, OnlyControl, Elapse, vars, row, ghosts
<1>3. CASE Sweep
  <2>1. StaysCool
    BY <1>1, <1>3, CallCool, GotoCool, FinishCool DEF Sweep, SweepPick, SweepEligible, Hot
  <2> QED
    BY <1>2, <2>1 DEF Calm
<1>4. CASE Elapse \/ UNCHANGED vars
  <2>1. StaysCool
    BY <1>4 DEF Elapse, vars, regs, StaysCool
  <2> QED
    BY <1>2, <2>1 DEF Calm
<1> QED
  BY <1>3, <1>4

\* The steps that are not calm.
LEMMA CalmSteps ==
  ASSUME TypeInv, [Next]_vars,
         ~\E e \in Events : AiContext(e) \/ AiEligible(e) \/ AiSend(e) \/ AiSent(e)
  PROVE  Calm
BY StaffCalm, CloseCalm, MessageCalm, OtherCalm
   DEF Next, UserStep, EventStep, SweeperStep, Procs
-----------------------------------------------------------------------------
(* The automatic answer. *)

\* Who sends, and what the gateway has acknowledged: a message that is being
\* answered has not been, and by one run only.
SendingApart ==
    /\ \A m \in Events : sends[m] = IF m \in cachedKeys THEN 1 ELSE 0
    /\ \A e \in Events : pc[e] = "ai.sending" => target[e] \notin cachedKeys
    /\ \A e, f \in Events :
          pc[e] = "ai.sending" /\ pc[f] = "ai.sending" /\ target[e] = target[f] => e = f

\* A step that lets nobody into the request keeps it.
LEMMA QuietSending ==
  ASSUME SendingApart, UNCHANGED gateway,
         \A e \in Events : pc'[e] = "ai.sending" => pc[e] = "ai.sending" /\ target'[e] = target[e]
  PROVE  SendingApart'
BY DEF SendingApart, gateway

LEMMA CalmSending == ASSUME Calm, SendingApart PROVE SendingApart'
<1>1. ASSUME NEW e \in Events, pc'[e] = "ai.sending"
      PROVE  pc[e] = "ai.sending" /\ target'[e] = target[e]
  BY <1>1 DEF Calm, StaysCool, Hot, Procs
<1> QED
  BY <1>1, QuietSending DEF Calm

LEMMA SendingStep == TypeInv /\ SendingApart /\ [Next]_vars => SendingApart'
<1> SUFFICES ASSUME TypeInv, SendingApart, [Next]_vars PROVE SendingApart'
  OBVIOUS
<1>0. pc \in [Procs -> Places] /\ Events \subseteq Procs
  BY DEF TypeInv, Steady, ControlOK, Procs
<1>1. ASSUME NEW e \in Events, AiContext(e) PROVE SendingApart'
  <2>1. ASSUME NEW f \in Events, pc'[f] = "ai.sending"
        PROVE  pc[f] = "ai.sending" /\ target'[f] = target[f]
    BY <1>0, <1>1, <2>1 DEF AiContext, Goto, Call, Finish, TypeInv, DataOK
  <2> QED
    BY <1>1, <2>1, QuietSending DEF AiContext
<1>2. ASSUME NEW e \in Events, AiEligible(e) PROVE SendingApart'
  <2>1. ASSUME NEW f \in Events, pc'[f] = "ai.sending"
        PROVE  pc[f] = "ai.sending" /\ target'[f] = target[f]
    BY <1>0, <1>2, <2>1 DEF AiEligible, Call, Finish, OnlyControl
  <2> QED
    BY <1>2, <2>1, QuietSending DEF AiEligible, OnlyControl
<1>3. ASSUME NEW e \in Events, AiSend(e) PROVE SendingApart'
  <2>1. UNCHANGED <<gateway, target>>
    BY <1>3 DEF AiSend
  <2>2. \A f \in Events : f # e => pc'[f] = pc[f]
    BY <1>0, <1>3 DEF AiSend, Goto
  <2>3. pc'[e] = "ai.sending" => target[e] \notin cachedKeys /\ ~Sending(target[e])
    BY <1>0, <1>3 DEF AiSend, Goto
  <2> QED
    BY <2>1, <2>2, <2>3 DEF SendingApart, Sending, gateway
<1>4. ASSUME NEW e \in Events, AiSent(e) PROVE SendingApart'
  <2>1. CASE UNCHANGED gateway
    <3>1. ASSUME NEW f \in Events, pc'[f] = "ai.sending"
          PROVE  pc[f] = "ai.sending" /\ target'[f] = target[f]
      BY <1>0, <1>4, <3>1 DEF AiSent, Goto
    <3> QED
      BY <2>1, <3>1, QuietSending
  <2>2. CASE /\ cachedKeys' = cachedKeys \union {target[e]}
             /\ sends' = [sends EXCEPT ![target[e]] = @ + 1]
    <3>1. target' = target /\ pc[e] = "ai.sending"
          /\ \A f \in Events : pc'[f] = "ai.sending" => f # e /\ pc[f] = "ai.sending"
      BY <1>0, <1>4 DEF AiSent, Goto
    <3>2. sends \in [Events -> Nat]
      BY DEF TypeInv, DataOK, GatewayOK
    <3>3. \A m \in Events : sends'[m] = IF m \in cachedKeys' THEN 1 ELSE 0
      BY <2>2, <3>1, <3>2 DEF SendingApart
    <3> QED
      BY <2>2, <3>1, <3>3 DEF SendingApart
  <2> QED
    BY <1>4, <2>1, <2>2 DEF AiSent
<1> QED
  BY <1>1, <1>2, <1>3, <1>4, CalmSteps, CalmSending

\* No message of the customer is answered twice by the AI (the in-flight
\* promise and the cache behind the key ai-auto:<message> of
\* sendAiOutboundAndHandoff).
THEOREM AnswersOnce == Spec => []AiAnswersOnce
<1>1. Init => SendingApart
  BY DEF Init, SendingApart, Procs
<1>2. SendingApart => AiAnswersOnce
  BY DEF SendingApart, AiAnswersOnce
<1> QED
  BY <1>1, <1>2, SendingStep, TypeInvariant, PTL DEF Spec

LEMMA EligibleStep == TypeInv /\ EligibleAtSend /\ [Next]_vars => EligibleAtSend'
<1> SUFFICES ASSUME TypeInv, EligibleAtSend, [Next]_vars PROVE EligibleAtSend'
  OBVIOUS
<1>0. /\ pc \in [Procs -> Places] /\ flag \in [Procs -> BOOLEAN] /\ Events \subseteq Procs
      /\ touched \in [Automatic -> BOOLEAN] /\ Events \subseteq Automatic
  BY DEF TypeInv, DataOK, HistoryOK, Steady, ControlOK, Procs, Automatic
<1>1. CASE Calm
  BY <1>1 DEF Calm, StaysCool, Careful, Hot, EligibleAtSend, Procs
<1>2. ASSUME NEW e \in Events, AiContext(e) PROVE EligibleAtSend'
  <2>1. UNCHANGED <<status, assignee, touched>>
    BY <1>2 DEF AiContext, row, ghosts
  <2>2. ASSUME NEW f \in Events, pc'[f] = "ai.send", ~flag'[f]
        PROVE  pc[f] = "ai.send" /\ ~flag[f]
    BY <1>0, <1>2, <2>2 DEF AiContext, Goto, Call, Finish, regs
  <2> QED
    BY <2>1, <2>2 DEF EligibleAtSend
<1>3. ASSUME NEW e \in Events, AiEligible(e) PROVE EligibleAtSend'
  <2>1. UNCHANGED <<status, assignee, touched>>
    BY <1>3 DEF AiEligible, OnlyControl, row, ghosts
  <2>2. pc'[e] = "ai.send" => status = "OPEN" /\ assignee = NoUser
    BY <1>0, <1>3 DEF AiEligible, StillEligible, Finish, Call
  <2>3. \A f \in Events : f # e => pc'[f] = pc[f] /\ flag'[f] = flag[f]
    BY <1>0, <1>3 DEF AiEligible, Finish, Call
  <2> QED
    BY <2>1, <2>2, <2>3 DEF EligibleAtSend
<1>4. ASSUME NEW e \in Events, AiSend(e) PROVE EligibleAtSend'
  <2>1. UNCHANGED <<status, assignee>> /\ pc'[e] # "ai.send"
    BY <1>0, <1>4 DEF AiSend, Goto, row
  <2>2. \A f \in Events : f # e => pc'[f] = pc[f] /\ flag'[f] = flag[f] /\ touched'[f] = touched[f]
    BY <1>0, <1>4 DEF AiSend, Goto, regs, Forget
  <2> QED
    BY <2>1, <2>2 DEF EligibleAtSend
<1>5. ASSUME NEW e \in Events, AiSent(e) PROVE EligibleAtSend'
  <2>1. UNCHANGED <<status, assignee, touched, flag>>
    BY <1>5 DEF AiSent, Goto, row, ghosts, regs
  <2>2. \A f \in Events : pc'[f] = "ai.send" => pc[f] = "ai.send"
    BY <1>0, <1>5 DEF AiSent, Goto
  <2> QED
    BY <2>1, <2>2 DEF EligibleAtSend
<1> QED
  BY <1>1, <1>2, <1>3, <1>4, <1>5, CalmSteps

\* A generated answer is handed to the gateway on the knowledge of
\* autoReplyStillEligible, or the chat changed inside that one await
\* (maybeAutoReplyAi).
THEOREM EligibleWhenSent == Spec => []EligibleAtSend
<1>1. Init => EligibleAtSend
  BY DEF Init, EligibleAtSend, Procs
<1> QED
  BY <1>1, EligibleStep, TypeInvariant, PTL DEF Spec

-----------------------------------------------------------------------------
(* The automatic closing. *)

\* No automatic procedure comes to the write of a closing.
StaysOut == \A q \in Automatic : pc'[q] = "close.write" => pc[q] = "close.write"

\* What blocks a closing does not appear, or who has checked for it is marked.
Wary ==
    \/ UNCHANGED <<status, assignee, touched>> /\ (waiting' => waiting)
    \/ \A p \in Automatic : pc[p] = "close.write" => touched'[p] = TRUE

LEMMA MarksWary == ASSUME touched' = [p \in Automatic |-> pc[p] \in Armed] PROVE Wary
BY DEF Wary, Armed

LEMMA SetRowWary == ASSUME NEW s, NEW a, SetRow(s, a) PROVE Wary
BY MarksWary DEF SetRow

LEMMA KeepsWary == ASSUME UNCHANGED <<status, assignee, touched>>, waiting' => waiting PROVE Wary
BY DEF Wary

\* A move of a member of the staff, or to another place.
Harmless(p, place) == p \in Users \/ place # "close.write"

LEMMA MoveOut ==
  ASSUME TypeInv, NEW p \in Procs, NEW place, Harmless(p, place), pc' = [pc EXCEPT ![p] = place]
  PROVE  StaysOut
<1>1. pc \in [Procs -> Places] /\ Automatic \subseteq Procs /\ p \notin Users \intersect Automatic
  BY ProcAssumption DEF TypeInv, Steady, ControlOK, Automatic, Procs
<1> QED
  BY <1>1 DEF StaysOut, Harmless

LEMMA CallOut ==
  ASSUME TypeInv, NEW p \in Procs, NEW place, Harmless(p, place), NEW b, NEW s, NEW u, NEW f,
         Call(p, place, b, s, u, f)
  PROVE  StaysOut
BY MoveOut DEF Call

LEMMA FinishOut ==
  ASSUME TypeInv, NEW p \in Procs, NEW place, Harmless(p, place), Finish(p, place)
  PROVE  StaysOut
BY MoveOut DEF Finish, Call

LEMMA GotoOut ==
  ASSUME TypeInv, NEW p \in Procs, NEW place, Harmless(p, place), Goto(p, place)
  PROVE  StaysOut
BY MoveOut DEF Goto

LEMMA ReturnOut == ASSUME TypeInv, NEW p \in Procs, Return(p) PROVE StaysOut
<1>1. back[p] # "close.write"
  BY Registers DEF Returns
<1> QED
  BY <1>1, FinishOut, GotoOut DEF Return, Harmless

LEMMA AssumeFailsOut == ASSUME TypeInv, NEW u \in Users, AssumeFails(u) PROVE StaysOut
<1>1. u \in Procs
  BY DEF Procs
<1> QED
  BY <1>1, FinishOut, MoveOut DEF AssumeFails, Harmless

LEMMA StaffHarmless ==
  ASSUME TypeInv, NEW u \in Users,
         HandoffRequest(u) \/ RouteRequest(u) \/ HandoffStep(u) \/ RouteStep(u)
  PROVE  StaysOut /\ Wary
<1>0. u \in Procs
  BY DEF Procs
<1>1. Wary
  <2> USE MarksWary, SetRowWary, KeepsWary DEF row, facts, ghosts, OnlyControl, HumanWrites
  <2>1. CASE HandoffRequest(u) \/ RouteRequest(u)
    BY <2>1 DEF HandoffRequest, StartAssume, StartResume, StartTransfer, RouteRequest, StartReply,
                StartNote, Requeue, PatchStart
  <2>2. CASE HandoffStep(u)
    BY <2>2 DEF HandoffStep, AssumeRead, AssumeOpen, AssumeAgain, AssumeFlags, AssumeWrite,
                TakeoverNotice, ResumeWrite, ResumeFlags, TransferWrite
  <2>3. CASE RouteStep(u)
    BY <2>3 DEF RouteStep, ReplySend, ReplyFinish, MediaRead, MediaSend, MediaFinish, PatchAssign, PatchWrite, RequeueFlag
  <2> QED
    BY <2>1, <2>2, <2>3
<1>2. StaysOut
  <2> USE <1>0, CallOut, GotoOut, FinishOut, ReturnOut, AssumeFailsOut DEF Harmless
  <2>1. CASE HandoffRequest(u)
    <3>1. CASE StartAssume(u) \/ StartResume(u)
      BY <3>1 DEF StartAssume, StartResume
    <3>2. ASSUME NEW v \in Users, StartTransfer(u, v) PROVE StaysOut
      BY <3>2 DEF StartTransfer
    <3> QED
      BY <2>1, <3>1, <3>2 DEF HandoffRequest
  <2>2. CASE RouteRequest(u)
    <3>1. CASE StartReply(u) \/ StartNote(u) \/ Requeue(u)
      BY <3>1 DEF StartReply, StartNote, Requeue
    <3>2. ASSUME NEW s, NEW a, PatchStart(u, s, a) PROVE StaysOut
      BY <3>2 DEF PatchStart
    <3> QED
      BY <2>2, <3>1, <3>2 DEF RouteRequest
  <2>3. CASE HandoffStep(u)
    BY <2>3 DEF HandoffStep, AssumeRead, AssumeOpen, AssumeAgain, AssumeFlags, AssumeWrite,
                TakeoverNotice, ResumeWrite, ResumeFlags, TransferWrite
  <2>4. CASE RouteStep(u)
    BY <2>4 DEF RouteStep, ReplySend, ReplyFinish, MediaRead, MediaSend, MediaFinish, PatchAssign, PatchWrite, RequeueFlag
  <2> QED
    BY <2>1, <2>2, <2>3, <2>4
<1> QED
  BY <1>1, <1>2

LEMMA MessageHarmless ==
  ASSUME TypeInv, NEW e \in Events, Ingest(e) \/ QueueStep(e) \/ AiStep(e), ~AiSend(e)
  PROVE  StaysOut /\ Wary
<1>0. e \in Procs
  BY DEF Procs
<1>1. Wary
  <2> USE MarksWary, SetRowWary, KeepsWary DEF row, facts, ghosts, OnlyControl
  <2>1. CASE Ingest(e)
    BY <2>1 DEF Ingest, Resolve, StoreInbound, OpenRow
  <2>2. CASE QueueStep(e)
    BY <2>2 DEF QueueStep, QueueRead, QueueRecent, QueueWrite, QueueNote
  <2>3. CASE AiStart(e) \/ AiRecheck(e) \/ AiGenerate(e) \/ AiEligible(e) \/ AiJoined(e) \/ AiClosure(e) \/ AiRules(e)
    BY <2>3 DEF AiStart, AiRecheck, AiGenerate, AiEligible, AiJoined, AiClosure, AiRules
  <2>4. CASE AiResume(e)
    BY <2>4 DEF AiResume
  <2>5. CASE AiResumeFlags(e)
    BY <2>5 DEF AiResumeFlags
  <2>6. CASE AiContext(e) \/ AiSent(e)
    BY <2>6 DEF AiContext, AiSent
  <2>7. CASE AiRecord(e) \/ AiFail(e)
    BY <2>7 DEF AiRecord, AiFail, AiRow
  <2> QED
    BY <2>1, <2>2, <2>3, <2>4, <2>5, <2>6, <2>7 DEF AiStep
<1>2. StaysOut
  <2> USE <1>0, CallOut, GotoOut, FinishOut, ReturnOut, MoveOut DEF Harmless
  <2>1. CASE Ingest(e)
    BY <2>1 DEF Ingest, Resolve, StoreInbound, OpenRow
  <2>2. CASE QueueStep(e)
    BY <2>2 DEF QueueStep, QueueRead, QueueRecent, QueueWrite, QueueNote
  <2>3. CASE AiStep(e)
    BY <2>3 DEF AiStep, AiStart, AiResume, AiResumeFlags, AiContext, AiRecheck, AiGenerate, AiEligible,
                AiSent, AiJoined, AiRecord, AiFail, AiClosure, AiRules
  <2> QED
    BY <2>1, <2>2, <2>3
<1> QED
  BY <1>1, <1>2

\* The steps of a closing or a reopening that end elsewhere.
LEMMA ClosingHarmless ==
  ASSUME TypeInv, NEW p \in Procs, CloseRead(p) \/ CloseEvent(p) \/ ReopenRead(p) \/ ReopenWrite(p)
  PROVE  StaysOut /\ Wary
<1>1. Wary
  BY SetRowWary, KeepsWary
     DEF CloseRead, CloseEvent, ReopenRead, ReopenWrite, OnlyControl, row, facts, ghosts
<1>2. StaysOut
  BY GotoOut, ReturnOut DEF Harmless, CloseRead, CloseEvent, ReopenRead, ReopenWrite
<1> QED
  BY <1>1, <1>2

LEMMA OtherHarmless == ASSUME TypeInv, Sweep \/ Elapse \/ UNCHANGED vars PROVE StaysOut /\ Wary
<1>0. Sweeper \in Procs
  BY DEF Procs
<1>1. CASE Sweep
  <2>1. Wary
    <3>1. OnlyControl
      BY <1>1 DEF Sweep, SweepPick, SweepEligible
    <3> QED
      BY <3>1, KeepsWary DEF OnlyControl, row, facts, ghosts
  <2>2. StaysOut
    BY <1>0, <1>1, GotoOut, CallOut, FinishOut DEF Harmless, Sweep, SweepPick, SweepEligible
  <2> QED
    BY <2>1, <2>2
<1>2. CASE Elapse
  BY <1>2, KeepsWary DEF StaysOut, Elapse, HumanFades, HandoffFades, GoesQuiet, row, ghosts
<1>3. CASE UNCHANGED vars
  BY <1>3, KeepsWary DEF StaysOut, vars, row, facts, ghosts
<1> QED
  BY <1>1, <1>2, <1>3

\* Such a step leaves every closing about to be written as it was found, or
\* marked.
LEMMA HarmlessGuards == ASSUME AutoCloseGuarded, StaysOut, Wary PROVE AutoCloseGuarded'
BY DEF AutoCloseGuarded, StaysOut, Wary, Blocked

LEMMA ClosingStep == TypeInv /\ AutoCloseGuarded /\ [Next]_vars => AutoCloseGuarded'
<1> SUFFICES ASSUME TypeInv, AutoCloseGuarded, [Next]_vars PROVE AutoCloseGuarded'
  OBVIOUS
<1>0. /\ pc \in [Procs -> Places] /\ touched \in [Automatic -> BOOLEAN]
      /\ Automatic \subseteq Procs /\ Events \subseteq Automatic /\ Events \subseteq Procs
  BY DEF TypeInv, DataOK, HistoryOK, Steady, ControlOK, Procs, Automatic
<1>1. ASSUME NEW p \in Procs, CloseCheck(p) PROVE AutoCloseGuarded'
  <2>1. CASE Return(p)
    BY <1>1, <2>1, ReturnOut, KeepsWary, HarmlessGuards DEF CloseCheck, OnlyControl, row, facts, ghosts
  <2>2. CASE ~Blocked /\ Goto(p, "close.write")
    BY <1>1, <2>2 DEF CloseCheck, OnlyControl, row, facts, AutoCloseGuarded, Blocked
  <2> QED
    BY <1>1, <2>1, <2>2 DEF CloseCheck
<1>2. ASSUME NEW p \in Procs, CloseWrite(p) PROVE AutoCloseGuarded'
  <2>1. pc'[p] = "close.event" /\ \A q \in Procs : q # p => pc'[q] = pc[q]
    BY <1>0, <1>2 DEF CloseWrite, Goto
  <2>2. \A q \in Automatic : q # p /\ pc[q] = "close.write" => touched'[q] = TRUE
    BY <1>2 DEF CloseWrite, Armed
  <2> QED
    BY <1>0, <2>1, <2>2 DEF AutoCloseGuarded
<1>3. ASSUME NEW e \in Events, AiSend(e) PROVE AutoCloseGuarded'
  <2>1. UNCHANGED <<row, facts>> /\ pc'[e] # "close.write"
    BY <1>0, <1>3 DEF AiSend, Goto
  <2>2. \A q \in Automatic : q # e => pc'[q] = pc[q] /\ touched'[q] = touched[q]
    BY <1>0, <1>3 DEF AiSend, Goto, Forget
  <2> QED
    BY <2>1, <2>2 DEF AutoCloseGuarded, Blocked, row, facts
<1>4. ASSUME NEW p \in Procs, CloseStep(p) PROVE AutoCloseGuarded'
  BY <1>1, <1>2, <1>4, ClosingHarmless, HarmlessGuards DEF CloseStep
<1>5. CASE \E e \in Events : EventStep(e)
  <2> PICK e \in Events : EventStep(e)
    BY <1>5
  <2>1. CASE CloseStep(e)
    BY <1>0, <1>4, <2>1
  <2>2. CASE AiSend(e)
    BY <1>3, <2>2
  <2>3. CASE (Ingest(e) \/ QueueStep(e) \/ AiStep(e)) /\ ~AiSend(e)
    BY <2>3, MessageHarmless, HarmlessGuards
  <2> QED
    BY <2>1, <2>2, <2>3 DEF EventStep
<1>6. CASE \E u \in Users : HandoffRequest(u) \/ RouteRequest(u) \/ UserStep(u)
  <2> PICK u \in Users : HandoffRequest(u) \/ RouteRequest(u) \/ UserStep(u)
    BY <1>6
  <2>1. CASE CloseStep(u)
    BY <1>4, <2>1 DEF Procs
  <2> QED
    BY <2>1, StaffHarmless, HarmlessGuards DEF UserStep
<1>7. CASE SweeperStep
  BY <1>4, <1>7, OtherHarmless, HarmlessGuards DEF SweeperStep, Procs
<1> QED
  BY <1>5, <1>6, <1>7, OtherHarmless, HarmlessGuards DEF Next

\* No chat is closed automatically against a blocker that getAutoCloseBlockers
\* could have seen: what blocks a closing about to be written came inside its
\* last await (closeConversation).
THEOREM ClosingGuarded == Spec => []AutoCloseGuarded
<1>1. Init => AutoCloseGuarded
  BY DEF Init, AutoCloseGuarded, Procs, Automatic
<1> QED
  BY <1>1, ClosingStep, TypeInvariant, PTL DEF Spec
=============================================================================

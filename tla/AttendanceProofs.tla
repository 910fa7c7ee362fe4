-------------------------- MODULE AttendanceProofs --------------------------
(***************************************************************************)
(* What TLAPS proves of Attendance for every number of staff and messages. *)
(***************************************************************************)
EXTENDS Attendance, TLAPS

-----------------------------------------------------------------------------
(* What the registers of a procedure hold, by where it stands.             *)

\* Where an AI run has chosen the message it answers.
Aimed == {"ai.recheck", "ai.generate", "ai.eligible", "ai.send", "ai.sending",
          "ai.joined", "ai.record", "ai.fail"}

\* A procedure p may stand at place, to return to b, with s and u in its
\* registers.
Sound(p, place, b, s, u) ==
    /\ place = "transfer.write" => u \in Users
    /\ place \in {"close.read", "close.check", "close.write"} => s \in Ended
    /\ place \in {"reply.send", "reply.finish", "media.send", "media.finish"} \/ b = "reply.send" =>
          s \in Statuses /\ u \in Users \union {NoUser}
    /\ place = "patch.assign" \/ b = "patch.assign" => u \in Users \union {NoUser}
    /\ p \in Events /\ (place \in Aimed \/ b = "ai.eligible") => target[p] \in Events

RegistersOK == \A p \in Procs : Sound(p, pc[p], back[p], regStatus[p], regUser[p])

DataOK ==
    /\ RowOK /\ FactsOK /\ GatewayOK /\ HistoryOK
    /\ target \in [Events -> {0} \union Events]
    /\ opsLeft \in 0..MaxOps

Steady == ControlOK /\ RegistersOK

\* The inductive invariant of type correctness: the types, and the registers.
TypeInv == DataOK /\ Steady

-----------------------------------------------------------------------------
(* The control operators keep Steady. *)

LEMMA CallSteady ==
  ASSUME Steady, target' = target,
         NEW p \in Procs, NEW place \in Places, NEW b \in Returns,
         NEW s \in Statuses \union {Keep}, NEW u \in Users \union {NoUser, Keep},
         NEW f \in BOOLEAN,
         Sound(p, place, b, s, u), Call(p, place, b, s, u, f)
  PROVE  Steady'
<1>1. ControlOK'
  BY DEF Steady, ControlOK, Call
<1>2. ASSUME NEW q \in Procs
      PROVE  Sound(q, pc[q], back[q], regStatus[q], regUser[q])'
  <2>1. CASE q = p
    BY <2>1 DEF Steady, ControlOK, Call, Sound
  <2>2. CASE q # p
    <3>1. Sound(q, pc[q], back[q], regStatus[q], regUser[q])
      BY DEF Steady, RegistersOK
    <3>2. pc'[q] = pc[q] /\ back'[q] = back[q] /\ regStatus'[q] = regStatus[q]
          /\ regUser'[q] = regUser[q]
      BY <2>2 DEF Steady, ControlOK, Call
    <3> QED
      BY <3>1, <3>2 DEF Sound
  <2> QED
    BY <2>1, <2>2
<1> QED
  BY <1>1, <1>2 DEF Steady, RegistersOK

LEMMA GotoSteady ==
  ASSUME Steady, target' = target, NEW p \in Procs, NEW place \in Places,
         Sound(p, place, back[p], regStatus[p], regUser[p]), Goto(p, place)
  PROVE  Steady'
<1>1. ControlOK'
  BY DEF Steady, ControlOK, Goto, regs
<1>2. ASSUME NEW q \in Procs
      PROVE  Sound(q, pc[q], back[q], regStatus[q], regUser[q])'
  <2>1. CASE q = p
    BY <2>1 DEF Steady, ControlOK, Goto, regs, Sound
  <2>2. CASE q # p
    <3>1. Sound(q, pc[q], back[q], regStatus[q], regUser[q])
      BY DEF Steady, RegistersOK
    <3>2. pc'[q] = pc[q] /\ back'[q] = back[q] /\ regStatus'[q] = regStatus[q]
          /\ regUser'[q] = regUser[q]
      BY <2>2 DEF Steady, ControlOK, Goto, regs
    <3> QED
      BY <3>1, <3>2 DEF Sound
  <2> QED
    BY <2>1, <2>2
<1> QED
  BY <1>1, <1>2 DEF Steady, RegistersOK

\* Places a procedure may stand at whatever its registers hold.
Free == Places \ (Aimed \union {"transfer.write", "close.read", "close.check", "close.write",
                                "reply.send", "reply.finish", "media.send", "media.finish",
                                "patch.assign"})

LEMMA FinishSteady ==
  ASSUME Steady, target' = target, NEW p \in Procs, NEW place \in Free, Finish(p, place)
  PROVE  Steady'
<1>1. Sound(p, place, "idle", Keep, Keep)
  BY DEF Sound, Free
<1>2. "idle" \in Returns /\ place \in Places
  BY DEF Returns, Free
<1> QED
  BY <1>1, <1>2, CallSteady DEF Finish

LEMMA StaySteady ==
  ASSUME Steady, target' = target, UNCHANGED <<pc, back, regStatus, regUser, flag>>
  PROVE  Steady'
BY DEF Steady, ControlOK, RegistersOK, Sound

LEMMA ReturnSteady ==
  ASSUME Steady, target' = target, NEW p \in Procs, Return(p)
  PROVE  Steady'
<1>1. back[p] \in Returns /\ Sound(p, pc[p], back[p], regStatus[p], regUser[p])
  BY DEF Steady, ControlOK, RegistersOK
<1>2. CASE back[p] \in {"idle", "done"}
  <2>1. back[p] \in Free
    BY <1>2 DEF Free, Places, Armed, Aimed
  <2> QED
    BY <1>2, <2>1, FinishSteady DEF Return
<1>3. CASE back[p] \notin {"idle", "done"}
  <2>1. back[p] \in Places
    BY <1>1 DEF Returns, Places, Armed
  <2>2. Sound(p, back[p], back[p], regStatus[p], regUser[p])
    BY <1>1, <1>3 DEF Sound, Returns, Aimed
  <2> QED
    BY <1>3, <2>1, <2>2, GotoSteady DEF Return
<1> QED
  BY <1>2, <1>3

\* Going on at a free place, the registers and the return kept.
LEMMA GotoFreeSteady ==
  ASSUME Steady, target' = target, NEW p \in Procs, NEW place \in Free, Goto(p, place)
  PROVE  Steady'
<1>1. Sound(p, pc[p], back[p], regStatus[p], regUser[p])
  BY DEF Steady, RegistersOK
<1>2. Sound(p, place, back[p], regStatus[p], regUser[p])
  BY <1>1 DEF Sound, Free
<1> QED
  BY <1>2, GotoSteady DEF Free

LEMMA SetRowTyped ==
  ASSUME RowOK, HistoryOK, NEW s \in Statuses, NEW a \in Users \union {NoUser}, SetRow(s, a)
  PROVE  status' \in Statuses /\ assignee' \in Users \union {NoUser}
         /\ winners' \subseteq Users /\ touched' \in [Automatic -> BOOLEAN]
BY DEF SetRow, RowOK, HistoryOK
LEMMA OnlyControlTyped ==
  ASSUME DataOK, OnlyControl PROVE DataOK' /\ target' = target
BY DEF DataOK, OnlyControl, row, facts, gateway, ghosts, RowOK, FactsOK, GatewayOK, HistoryOK

\* A step that writes the row by SetRow, and nothing else of the data but the
\* history and the closing stamp.
LEMMA RowWriteTyped ==
  ASSUME DataOK, NEW s \in Statuses, NEW a \in Users \union {NoUser}, SetRow(s, a),
         closedAt' \in BOOLEAN, humanQueue' \in BOOLEAN,
         UNCHANGED <<facts, gateway, target, opsLeft>>
  PROVE  DataOK'
<1>1. RowOK' /\ HistoryOK'
  BY SetRowTyped DEF DataOK, RowOK, HistoryOK
<1>2. FactsOK' /\ GatewayOK'
  BY DEF DataOK, FactsOK, GatewayOK, facts, gateway
<1> QED
  BY <1>1, <1>2 DEF DataOK

\* A step that writes the facts only.
LEMMA FactsWriteTyped ==
  ASSUME DataOK, FactsOK', HistoryOK', UNCHANGED <<row, gateway, target, opsLeft>>
  PROVE  DataOK'
BY DEF DataOK, RowOK, GatewayOK, row, gateway

\* A request of the staff that writes nothing yet.
LEMMA RequestTyped ==
  ASSUME DataOK, NEW u \in Users, NEW op, Request(u, op),
         UNCHANGED <<row, facts, gateway, target, ghosts>>
  PROVE  DataOK'
<1>1. opsLeft' \in 0..MaxOps
  BY BoundAssumption DEF DataOK, Request
<1> QED
  BY <1>1 DEF DataOK, RowOK, FactsOK, GatewayOK, HistoryOK, row, facts, gateway, ghosts

\* What an action finds in the registers of its process.
LEMMA Registers ==
  ASSUME TypeInv, NEW p \in Procs
  PROVE  /\ Sound(p, pc[p], back[p], regStatus[p], regUser[p])
         /\ pc[p] \in Places /\ back[p] \in Returns
         /\ regStatus[p] \in Statuses \union {Keep}
         /\ regUser[p] \in Users \union {NoUser, Keep} /\ flag[p] \in BOOLEAN
BY DEF TypeInv, Steady, ControlOK, RegistersOK

-----------------------------------------------------------------------------
(* HumanHandoff *)

LEMMA AssumeFailsSteady ==
  ASSUME TypeInv, target' = target, NEW u \in Users, AssumeFails(u)
  PROVE  Steady'
<1>0. u \in Procs /\ Sound(u, pc[u], back[u], regStatus[u], regUser[u])
      /\ back[u] \in Returns
  BY Registers DEF Procs
<1>1. CASE back[u] = "idle"
  <2>1. "idle" \in Free
    BY DEF Free, Places, Armed, Aimed
  <2> QED
    BY <1>0, <1>1, <2>1, FinishSteady DEF AssumeFails, TypeInv
<1>2. CASE back[u] # "idle"
  <2>1. back[u] \in Places /\ Sound(u, back[u], back[u], regStatus[u], regUser[u])
    BY <1>0, <1>2 DEF Sound, Returns, Aimed, Places, Armed
  <2>2. Call(u, back[u], back[u], regStatus[u], regUser[u], FALSE)
    BY <1>0, <1>2 DEF AssumeFails, Call, TypeInv, Steady, ControlOK
  <2> QED
    BY <1>0, <2>1, <2>2, CallSteady, Registers DEF TypeInv
<1> QED
  BY <1>1, <1>2

LEMMA HandoffRequestTyped ==
  ASSUME TypeInv, NEW u \in Users, HandoffRequest(u) PROVE TypeInv'
<1>0. u \in Procs /\ "idle" \in Free /\ "resume.write" \in Free
      /\ "assume.read" \in Places /\ "transfer.write" \in Places /\ "idle" \in Returns
  BY DEF Procs, Free, Places, Armed, Aimed, Returns
<1>1. CASE StartAssume(u)
  <2>1. DataOK' /\ target' = target
    BY <1>1, RequestTyped DEF StartAssume, TypeInv
  <2>2. Sound(u, "assume.read", "idle", Keep, Keep)
    BY DEF Sound, Aimed
  <2> QED
    BY <1>0, <1>1, <2>1, <2>2, CallSteady DEF StartAssume, TypeInv
<1>2. CASE StartResume(u)
  <2>1. DataOK' /\ target' = target
    BY <1>2, RequestTyped DEF StartResume, TypeInv
  <2> QED
    BY <1>0, <1>2, <2>1, GotoFreeSteady, FinishSteady DEF StartResume, TypeInv
<1>3. ASSUME NEW v \in Users, StartTransfer(u, v) PROVE TypeInv'
  <2>1. DataOK' /\ target' = target
    BY <1>3, RequestTyped DEF StartTransfer, TypeInv
  <2>2. u \in Users /\ (u \notin Events)
    BY ProcAssumption DEF Automatic
  <2>3. Sound(u, "transfer.write", "idle", Keep, v)
    BY <2>2 DEF Sound, Aimed
  <2> QED
    BY <1>0, <1>3, <2>1, <2>3, CallSteady, FinishSteady DEF StartTransfer, TypeInv
<1> QED
  BY <1>1, <1>2, <1>3 DEF HandoffRequest

LEMMA HandoffStepTyped ==
  ASSUME TypeInv, NEW u \in Users, HandoffStep(u) PROVE TypeInv'
<1>0. u \in Procs /\ "idle" \in Free /\ "assume.open" \in Free /\ "assume.write" \in Free
      /\ "assume.again" \in Free /\ "assume.flags" \in Free /\ "notice" \in Free
      /\ "resume.flags" \in Free
  BY DEF Procs, Free, Places, Armed, Aimed
<1> USE DEF TypeInv
<1>1. CASE AssumeRead(u)
  BY <1>0, <1>1, OnlyControlTyped, AssumeFailsSteady, ReturnSteady, GotoFreeSteady DEF AssumeRead
<1>2. CASE AssumeOpen(u)
  <2>1. DataOK' /\ target' = target
    BY <1>2, RowWriteTyped DEF AssumeOpen, DataOK, RowOK, HistoryOK, Statuses, Open
  <2> QED
    BY <1>0, <1>2, <2>1, ReturnSteady DEF AssumeOpen
<1>3. CASE AssumeWrite(u)
  <2>0. FactsOK' /\ GatewayOK' /\ target' = target /\ opsLeft' \in 0..MaxOps
    BY <1>3 DEF AssumeWrite, DataOK, FactsOK, GatewayOK, facts, gateway
  <2>a. RowOK'
    BY <1>3 DEF AssumeWrite, DataOK, RowOK, Statuses, Open
  <2>b. HistoryOK'
    <3>1. winners' \subseteq Users /\ humanQueue' \in BOOLEAN
      BY <1>3 DEF AssumeWrite, DataOK, HistoryOK
    <3>2. touched' \in [Automatic -> BOOLEAN]
      <4>1. touched' = [p \in Automatic |-> pc[p] \in Armed] \/ touched' = touched
        BY <1>3 DEF AssumeWrite
      <4>2. [p \in Automatic |-> pc[p] \in Armed] \in [Automatic -> BOOLEAN]
        OBVIOUS
      <4>3. touched \in [Automatic -> BOOLEAN]
        BY DEF DataOK, HistoryOK
      <4> QED
        BY <4>1, <4>2, <4>3
    <3> QED
      BY <3>1, <3>2 DEF HistoryOK
  <2>1. DataOK' /\ target' = target
    BY <2>0, <2>a, <2>b DEF DataOK
  <2> QED
    BY <1>0, <1>3, <2>1, GotoFreeSteady DEF AssumeWrite
<1>4. CASE AssumeAgain(u)
  BY <1>0, <1>4, OnlyControlTyped, AssumeFailsSteady, ReturnSteady DEF AssumeAgain
<1>5. CASE AssumeFlags(u)
  <2>1. DataOK' /\ target' = target
    BY <1>5, FactsWriteTyped DEF AssumeFlags, DataOK, FactsOK, HistoryOK, ghosts
  <2> QED
    BY <1>0, <1>5, <2>1, GotoFreeSteady DEF AssumeFlags
<1>6. CASE TakeoverNotice(u)
  <2>1. DataOK' /\ target' = target
    BY <1>6, FactsWriteTyped
       DEF TakeoverNotice, HumanWrites, DataOK, FactsOK, HistoryOK, facts, ghosts
  <2> QED
    BY <1>0, <1>6, <2>1, ReturnSteady DEF TakeoverNotice
<1>7. CASE ResumeWrite(u)
  <2>1. DataOK' /\ target' = target
    BY <1>7, RowWriteTyped DEF ResumeWrite, DataOK, RowOK, Statuses, Open
  <2> QED
    BY <1>0, <1>7, <2>1, GotoFreeSteady DEF ResumeWrite
<1>8. CASE ResumeFlags(u)
  <2>1. DataOK' /\ target' = target
    BY <1>8, FactsWriteTyped DEF ResumeFlags, DataOK, FactsOK, HistoryOK, ghosts
  <2> QED
    BY <1>0, <1>8, <2>1, FinishSteady DEF ResumeFlags
<1>9. CASE TransferWrite(u)
  <2>1. regUser[u] \in Users
    BY <1>0, <1>9, Registers DEF TransferWrite, Sound
  <2>2. DataOK' /\ target' = target
    BY <1>9, <2>1, RowWriteTyped DEF TransferWrite, DataOK, RowOK, Statuses, Open
  <2> QED
    BY <1>0, <1>9, <2>2, FinishSteady DEF TransferWrite
<1> QED
  BY <1>1, <1>2, <1>3, <1>4, <1>5, <1>6, <1>7, <1>8, <1>9 DEF HandoffStep

LEMMA QueueStepTyped ==
  ASSUME TypeInv, NEW e \in Events, QueueStep(e) PROVE TypeInv'
<1>0. e \in Procs /\ "queue.recent" \in Places /\ "queue.write" \in Places
      /\ "queue.note" \in Free
      /\ Sound(e, pc[e], back[e], regStatus[e], regUser[e])
  BY Registers DEF Procs, Free, Places, Armed, Aimed
<1> USE DEF TypeInv
<1>1. CASE QueueRead(e)
  <2>1. DataOK' /\ target' = target
    BY <1>1, OnlyControlTyped DEF QueueRead
  <2>2. CASE Return(e)
    BY <1>0, <2>1, <2>2, ReturnSteady
  <2>3. CASE pc' = [pc EXCEPT ![e] = "queue.recent"]
             /\ regStatus' = [regStatus EXCEPT ![e] = status]
             /\ UNCHANGED <<back, regUser, flag>>
    <3>1. Call(e, "queue.recent", back[e], status, regUser[e], flag[e])
      BY <1>0, <2>3 DEF Call, Steady, ControlOK
    <3>2. Sound(e, "queue.recent", back[e], status, regUser[e])
      BY <1>0 DEF Sound, DataOK, RowOK, Aimed
    <3> QED
      BY <1>0, <2>1, <3>1, <3>2, CallSteady, Registers DEF DataOK, RowOK
  <2> QED
    BY <1>1, <2>2, <2>3 DEF QueueRead
<1>2. CASE QueueRecent(e)
  <2>1. DataOK' /\ target' = target
    BY <1>2, OnlyControlTyped DEF QueueRecent
  <2>2. CASE Return(e)
    BY <1>0, <2>1, <2>2, ReturnSteady
  <2>3. CASE pc' = [pc EXCEPT ![e] = "queue.write"]
             /\ flag' = [flag EXCEPT ![e] = ~handoffRecent]
             /\ UNCHANGED <<back, regStatus, regUser>>
    <3>1. Call(e, "queue.write", back[e], regStatus[e], regUser[e], ~handoffRecent)
      BY <1>0, <2>3 DEF Call, Steady, ControlOK
    <3>2. Sound(e, "queue.write", back[e], regStatus[e], regUser[e])
      BY <1>0 DEF Sound, Aimed
    <3>3. (~handoffRecent) \in BOOLEAN
      OBVIOUS
    <3> QED
      BY <1>0, <2>1, <3>1, <3>2, <3>3, CallSteady, Registers
  <2> QED
    BY <1>2, <2>2, <2>3 DEF QueueRecent
<1>3. CASE QueueWrite(e)
  <2>1. DataOK' /\ target' = target
    BY <1>3, RowWriteTyped DEF QueueWrite, DataOK, RowOK, Statuses, Open
  <2> QED
    BY <1>0, <1>3, <2>1, GotoFreeSteady, ReturnSteady DEF QueueWrite
<1>4. CASE QueueNote(e)
  <2>1. DataOK' /\ target' = target
    BY <1>4, FactsWriteTyped DEF QueueNote, DataOK, FactsOK, HistoryOK
  <2> QED
    BY <1>0, <1>4, <2>1, ReturnSteady DEF QueueNote
<1> QED
  BY <1>1, <1>2, <1>3, <1>4 DEF QueueStep
-----------------------------------------------------------------------------
(* ConversationClose *)

LEMMA CloseStepTyped ==
  ASSUME TypeInv, NEW p \in Procs, CloseStep(p) PROVE TypeInv'
<1>0. Sound(p, pc[p], back[p], regStatus[p], regUser[p])
      /\ "close.check" \in Places /\ "close.write" \in Places
      /\ "close.event" \in Free /\ "reopen.write" \in Free
  BY Registers DEF Free, Places, Armed, Aimed
<1> USE DEF TypeInv
<1>1. CASE CloseRead(p)
  <2>1. DataOK' /\ target' = target
    BY <1>1, OnlyControlTyped DEF CloseRead
  <2>2. Sound(p, "close.check", back[p], regStatus[p], regUser[p])
        /\ Sound(p, "close.write", back[p], regStatus[p], regUser[p])
    BY <1>0, <1>1 DEF CloseRead, Sound, Aimed
  <2> QED
    BY <1>0, <1>1, <2>1, <2>2, ReturnSteady, GotoSteady DEF CloseRead
<1>2. CASE CloseCheck(p)
  <2>1. DataOK' /\ target' = target
    BY <1>2, OnlyControlTyped DEF CloseCheck
  <2>2. Sound(p, "close.write", back[p], regStatus[p], regUser[p])
    BY <1>0, <1>2 DEF CloseCheck, Sound, Aimed
  <2> QED
    BY <1>0, <1>2, <2>1, <2>2, ReturnSteady, GotoSteady DEF CloseCheck
<1>3. CASE CloseWrite(p)
  <2>1. regStatus[p] \in Statuses
    BY <1>0, <1>3 DEF CloseWrite, Sound, Statuses
  <2>2. RowOK' /\ HistoryOK'
    BY <1>3, <2>1 DEF CloseWrite, DataOK, RowOK, HistoryOK
  <2>3. FactsOK' /\ GatewayOK' /\ target' = target
    BY <1>3 DEF CloseWrite, DataOK, FactsOK, GatewayOK, facts, gateway
  <2> QED
    BY <1>0, <1>3, <2>2, <2>3, GotoFreeSteady DEF CloseWrite, DataOK
<1>4. CASE CloseEvent(p)
  <2>1. FactsOK' /\ HistoryOK'
    BY <1>4 DEF CloseEvent, DataOK, FactsOK, HistoryOK, ghosts
  <2>2. DataOK' /\ target' = target
    BY <1>4, <2>1, FactsWriteTyped DEF CloseEvent
  <2> QED
    BY <1>4, <2>2, ReturnSteady DEF CloseEvent
<1>5. CASE ReopenRead(p)
  BY <1>0, <1>5, OnlyControlTyped, ReturnSteady, GotoFreeSteady DEF ReopenRead
<1>6. CASE ReopenWrite(p)
  <2>1. DataOK' /\ target' = target
    BY <1>6, RowWriteTyped DEF ReopenWrite, DataOK, RowOK, Statuses, Open
  <2> QED
    BY <1>6, <2>1, ReturnSteady DEF ReopenWrite
<1> QED
  BY <1>1, <1>2, <1>3, <1>4, <1>5, <1>6 DEF CloseStep

LEMMA SweepTyped ==
  ASSUME TypeInv, Sweep PROVE TypeInv'
<1>0. Sweeper \in Procs /\ "sweep.eligible" \in Free /\ "idle" \in Free
      /\ "close.read" \in Places /\ "idle" \in Returns /\ "CLOSED" \in Statuses
      /\ Sound(Sweeper, "close.read", "idle", "CLOSED", Keep)
  BY DEF Procs, Free, Places, Armed, Aimed, Returns, Statuses, Ended, Sound
<1> USE DEF TypeInv
<1>1. CASE SweepPick
  BY <1>0, <1>1, OnlyControlTyped, GotoFreeSteady DEF SweepPick
<1>2. CASE SweepEligible
  BY <1>0, <1>2, OnlyControlTyped, CallSteady, FinishSteady DEF SweepEligible
<1> QED
  BY <1>1, <1>2 DEF Sweep

-----------------------------------------------------------------------------
(* InboxRoutes *)

LEMMA RouteRequestTyped ==
  ASSUME TypeInv, NEW u \in Users, RouteRequest(u) PROVE TypeInv'
<1>0. /\ u \in Procs /\ "requeue.flag" \in Free /\ u \notin Events
      /\ {"assume.read", "reply.send", "reply.finish", "close.read", "reopen.read",
          "patch.write"} \subseteq Places
      /\ {"idle", "reply.send", "patch.assign"} \subseteq Returns
      /\ status \in Statuses /\ assignee \in Users \union {NoUser}
  BY ProcAssumption DEF Procs, Automatic, Free, Places, Armed, Aimed, Returns, TypeInv, DataOK, RowOK
<1> USE DEF TypeInv
<1>1. CASE StartReply(u)
  <2>1. DataOK' /\ target' = target
    BY <1>1, RequestTyped DEF StartReply
  <2>2. Sound(u, "assume.read", "reply.send", status, assignee)
        /\ Sound(u, "reply.send", "idle", status, assignee)
    BY <1>0 DEF Sound, Aimed
  <2> QED
    BY <1>0, <1>1, <2>1, <2>2, CallSteady DEF StartReply
<1>2. CASE Requeue(u)
  <2>1. opsLeft' \in 0..MaxOps
    BY <1>2, BoundAssumption DEF Requeue, Request, DataOK
  <2>2. RowOK' /\ HistoryOK'
    BY <1>2, SetRowTyped DEF Requeue, DataOK, RowOK, HistoryOK, Statuses, Open
  <2>3. FactsOK' /\ GatewayOK' /\ target' = target
    BY <1>2 DEF Requeue, DataOK, FactsOK, GatewayOK, facts, gateway
  <2> QED
    BY <1>0, <1>2, <2>1, <2>2, <2>3, GotoFreeSteady DEF Requeue, DataOK
<1>3. ASSUME NEW s \in Statuses \union {Keep}, NEW a \in Users \union {NoUser, Keep},
             PatchStart(u, s, a)
      PROVE  TypeInv'
  <2>1. DataOK' /\ target' = target
    BY <1>3, RequestTyped DEF PatchStart
  <2>2. CASE s \in Ended /\ \E b \in {"idle", "patch.assign"} :
               (b = "idle" <=> a = Keep) /\ Call(u, "close.read", b, s, a, FALSE)
    <3>1. PICK b \in {"idle", "patch.assign"} :
             (b = "idle" <=> a = Keep) /\ Call(u, "close.read", b, s, a, FALSE)
      BY <2>2
    <3>2. Sound(u, "close.read", b, s, a)
      BY <1>0, <2>2, <3>1 DEF Sound, Aimed
    <3> QED
      BY <1>0, <1>3, <2>1, <3>1, <3>2, CallSteady
  <2>3. CASE \E b \in {"idle", "patch.assign"} :
               (b = "idle" <=> a = Keep) /\ Call(u, "reopen.read", b, Keep, a, FALSE)
    <3>1. PICK b \in {"idle", "patch.assign"} :
             (b = "idle" <=> a = Keep) /\ Call(u, "reopen.read", b, Keep, a, FALSE)
      BY <2>3
    <3>2. Sound(u, "reopen.read", b, Keep, a)
      BY <1>0, <3>1 DEF Sound, Aimed
    <3> QED
      BY <1>0, <1>3, <2>1, <3>1, <3>2, CallSteady
  <2>4. CASE Call(u, "patch.write", "idle", s, a, a \notin {Keep, NoUser, assignee})
    <3>1. Sound(u, "patch.write", "idle", s, a)
      BY <1>0 DEF Sound, Aimed
    <3>2. (a \notin {Keep, NoUser, assignee}) \in BOOLEAN
      OBVIOUS
    <3> QED
      BY <1>0, <1>3, <2>1, <2>4, <3>1, <3>2, CallSteady
  <2> QED
    BY <1>3, <2>2, <2>3, <2>4 DEF PatchStart
<1>4. CASE StartNote(u)
  <2>1. DataOK' /\ target' = target
    BY <1>4, RequestTyped DEF StartNote
  <2>2. Sound(u, "reply.finish", "idle", status, assignee)
    BY <1>0 DEF Sound, Aimed
  <2> QED
    BY <1>0, <1>4, <2>1, <2>2, CallSteady DEF StartNote
<1> QED
  BY <1>1, <1>2, <1>3, <1>4 DEF RouteRequest

LEMMA RouteStepTyped ==
  ASSUME TypeInv, NEW u \in Users, RouteStep(u) PROVE TypeInv'
<1>0. u \in Procs /\ "idle" \in Free /\ "notice" \in Free
      /\ {"reply.finish", "media.send", "media.finish"} \subseteq Places
      /\ Sound(u, pc[u], back[u], regStatus[u], regUser[u])
  BY Registers DEF Procs, Free, Places, Armed, Aimed
<1> USE DEF TypeInv
<1>1. CASE ReplySend(u)
  <2>1. FactsOK' /\ HistoryOK'
    BY <1>1 DEF ReplySend, HumanWrites, DataOK, FactsOK, HistoryOK, ghosts
  <2>2. DataOK' /\ target' = target
    BY <1>1, <2>1, FactsWriteTyped DEF ReplySend
  <2>3. Sound(u, "reply.finish", back[u], regStatus[u], regUser[u])
    BY <1>0, <1>1 DEF ReplySend, Sound, Aimed
  <2> QED
    BY <1>0, <1>1, <2>2, <2>3, GotoSteady DEF ReplySend
<1>2. CASE ReplyFinish(u)
  <2>1. PICK s, a : s = (IF regStatus[u] = "CLOSED" THEN "OPEN" ELSE regStatus[u])
                 /\ a = (IF flag[u] THEN u ELSE IF regUser[u] # NoUser THEN regUser[u] ELSE assignee)
    OBVIOUS
  <2>2. s \in Statuses /\ a \in Users \union {NoUser}
    BY <1>0, <1>2, <2>1 DEF ReplyFinish, Sound, Statuses, Open, DataOK, RowOK
  <2>3. SetRow(s, a)
    BY <1>2, <2>1 DEF ReplyFinish
  <2>4. DataOK' /\ target' = target
    BY <1>2, <2>2, <2>3, SetRowTyped DEF ReplyFinish, DataOK, RowOK, FactsOK, HistoryOK, GatewayOK,
       gateway
  <2> QED
    BY <1>0, <1>2, <2>4, FinishSteady DEF ReplyFinish
<1>3. CASE PatchAssign(u)
  <2>1. regUser[u] \in Users \union {NoUser}
    BY <1>0, <1>3 DEF PatchAssign, Sound
  <2>2. DataOK' /\ target' = target
    BY <1>3, <2>1, RowWriteTyped DEF PatchAssign, DataOK, RowOK
  <2> QED
    BY <1>0, <1>3, <2>2, FinishSteady DEF PatchAssign
<1>4. CASE PatchWrite(u)
  <2>1. PICK s, a : s = (IF regStatus[u] = Keep THEN status ELSE regStatus[u])
                 /\ a = (IF regUser[u] = Keep THEN assignee ELSE regUser[u])
    OBVIOUS
  <2>2. s \in Statuses /\ a \in Users \union {NoUser}
    BY <1>0, <2>1, Registers DEF DataOK, RowOK
  <2>3. SetRow(s, a)
    BY <1>4, <2>1 DEF PatchWrite
  <2>4. humanQueue' \in BOOLEAN /\ closedAt' \in BOOLEAN
    BY <1>4 DEF PatchWrite, DataOK, RowOK, HistoryOK
  <2>5. DataOK' /\ target' = target
    BY <1>4, <2>2, <2>3, <2>4, RowWriteTyped DEF PatchWrite
  <2> QED
    BY <1>0, <1>4, <2>5, GotoFreeSteady, FinishSteady DEF PatchWrite
<1>5. CASE RequeueFlag(u)
  <2>1. FactsOK' /\ HistoryOK'
    BY <1>5 DEF RequeueFlag, DataOK, FactsOK, HistoryOK
  <2>2. DataOK' /\ target' = target
    BY <1>5, <2>1, FactsWriteTyped DEF RequeueFlag
  <2> QED
    BY <1>0, <1>5, <2>2, FinishSteady DEF RequeueFlag
<1>6. CASE MediaRead(u)
  <2>1. DataOK' /\ target' = target
    BY <1>6, OnlyControlTyped DEF MediaRead
  <2>2. status \in Statuses /\ assignee \in Users \union {NoUser} /\ u \notin Events
    BY ProcAssumption DEF DataOK, RowOK, Automatic
  <2>3. Sound(u, "media.send", "idle", status, assignee) /\ "idle" \in Returns
    BY <2>2 DEF Sound, Aimed, Returns
  <2> QED
    BY <1>0, <1>6, <2>1, <2>2, <2>3, CallSteady DEF MediaRead
<1>7. CASE MediaSend(u)
  <2>1. FactsOK' /\ HistoryOK'
    BY <1>7 DEF MediaSend, HumanWrites, DataOK, FactsOK, HistoryOK, ghosts
  <2>2. DataOK' /\ target' = target
    BY <1>7, <2>1, FactsWriteTyped DEF MediaSend
  <2>3. Sound(u, "media.finish", back[u], regStatus[u], regUser[u])
    BY <1>0, <1>7 DEF MediaSend, Sound, Aimed
  <2> QED
    BY <1>0, <1>7, <2>2, <2>3, GotoSteady DEF MediaSend
<1>8. CASE MediaFinish(u)
  <2>1. PICK s : s = (IF regStatus[u] = "CLOSED" THEN "OPEN" ELSE regStatus[u])
    OBVIOUS
  <2>2. s \in Statuses /\ assignee \in Users \union {NoUser}
    BY <1>0, <1>8, <2>1 DEF MediaFinish, Sound, Statuses, Open, DataOK, RowOK
  <2>3. SetRow(s, assignee)
    BY <1>8, <2>1 DEF MediaFinish
  <2>4. DataOK' /\ target' = target
    BY <1>8, <2>2, <2>3, SetRowTyped DEF MediaFinish, DataOK, RowOK, FactsOK, HistoryOK, GatewayOK,
       gateway
  <2> QED
    BY <1>0, <1>8, <2>4, FinishSteady DEF MediaFinish
<1> QED
  BY <1>1, <1>2, <1>3, <1>4, <1>5, <1>6, <1>7, <1>8 DEF RouteStep
-----------------------------------------------------------------------------
(* AutoReply *)

LEMMA IngestTyped ==
  ASSUME TypeInv, NEW e \in Events, Ingest(e) PROVE TypeInv'
<1>0. /\ e \in Procs /\ {"inbound.store", "elsewhere", "inbound.open", "ai.start"} \subseteq Free
      /\ "reopen.read" \in Places /\ "inbound.store" \in Returns
      /\ Sound(e, "reopen.read", "inbound.store", Keep, Keep)
  BY DEF Procs, Free, Places, Armed, Aimed, Returns, Sound
<1> USE DEF TypeInv
<1>1. CASE Resolve(e)
  BY <1>0, <1>1, OnlyControlTyped, GotoFreeSteady, FinishSteady, CallSteady DEF Resolve
<1>2. CASE StoreInbound(e)
  <2>1. FactsOK' /\ HistoryOK'
    BY <1>2 DEF StoreInbound, DataOK, FactsOK, HistoryOK, ghosts
  <2>2. DataOK' /\ target' = target
    BY <1>2, <2>1, FactsWriteTyped DEF StoreInbound
  <2> QED
    BY <1>0, <1>2, <2>2, GotoFreeSteady DEF StoreInbound
<1>3. CASE OpenRow(e)
  <2>1. RowOK' /\ HistoryOK'
    BY <1>3, SetRowTyped DEF OpenRow, DataOK, RowOK, HistoryOK, Statuses, Open
  <2>2. FactsOK' /\ GatewayOK' /\ target' = target /\ opsLeft' = opsLeft
    BY <1>3 DEF OpenRow, DataOK, FactsOK, GatewayOK, gateway
  <2> QED
    BY <1>0, <1>3, <2>1, <2>2, FinishSteady DEF OpenRow, DataOK
<1> QED
  BY <1>1, <1>2, <1>3 DEF Ingest

\* A run chooses the message it answers: the one step that moves target.
LEMMA AiContextTyped ==
  ASSUME TypeInv, NEW e \in Events, AiContext(e) PROVE TypeInv'
<1> USE DEF TypeInv
<1>0. e \in Procs /\ "done" \in Free /\ Sound(e, pc[e], back[e], regStatus[e], regUser[e])
      /\ {"ai.recheck", "ai.send"} \subseteq Places /\ "idle" \in Returns
  BY Registers DEF Procs, Free, Places, Armed, Aimed, Returns
<1>1. DataOK'
  <2>1. target' \in [Events -> {0} \union Events]
    BY <1>0 DEF AiContext, DataOK
  <2> QED
    BY <2>1 DEF AiContext, DataOK, RowOK, FactsOK, GatewayOK, HistoryOK, row, facts, gateway, ghosts
<1>2. CASE target' = target /\ Finish(e, "done")
  BY <1>0, <1>1, <1>2, FinishSteady
<1>3. ASSUME NEW m \in Events, target' = [target EXCEPT ![e] = m],
             Goto(e, "ai.recheck") \/ Call(e, "ai.send", "idle", Keep, Keep, TRUE)
      PROVE  TypeInv'
  <2>1. ControlOK'
    <3>1. CASE Goto(e, "ai.recheck")
      BY <1>0, <3>1 DEF Steady, ControlOK, Goto, regs
    <3>2. CASE Call(e, "ai.send", "idle", Keep, Keep, TRUE)
      BY <1>0, <3>2 DEF Steady, ControlOK, Call
    <3> QED
      BY <1>3, <3>1, <3>2
  <2>2. ASSUME NEW q \in Procs PROVE Sound(q, pc[q], back[q], regStatus[q], regUser[q])'
    <3>1. Sound(q, pc[q], back[q], regStatus[q], regUser[q])
      BY DEF Steady, RegistersOK
    <3>2. CASE q # e
      <4>1. pc'[q] = pc[q] /\ back'[q] = back[q] /\ regStatus'[q] = regStatus[q]
            /\ regUser'[q] = regUser[q]
        BY <1>3, <3>2 DEF Steady, ControlOK, Goto, Call, regs
      <4>2. q \in Events => target'[q] = target[q]
        BY <1>3, <3>2 DEF DataOK
      <4> QED
        BY <3>1, <4>1, <4>2 DEF Sound
    <3>3. CASE q = e
      <4>0. target'[e] \in Events
        BY <1>3 DEF DataOK
      <4>1. CASE Goto(e, "ai.recheck")
        <5>1. pc'[q] = "ai.recheck" /\ back'[q] = back[q] /\ regStatus'[q] = regStatus[q]
              /\ regUser'[q] = regUser[q]
          BY <3>3, <4>1, <1>0 DEF Steady, ControlOK, Goto, regs
        <5> QED
          BY <3>1, <3>3, <4>0, <5>1 DEF Sound
      <4>2. CASE Call(e, "ai.send", "idle", Keep, Keep, TRUE)
        <5>1. pc'[q] = "ai.send" /\ back'[q] = "idle"
          BY <3>3, <4>2, <1>0 DEF Steady, ControlOK, Call
        <5> QED
          BY <3>3, <4>0, <5>1 DEF Sound
      <4> QED
        BY <1>3, <4>1, <4>2
    <3> QED
      BY <3>2, <3>3
  <2> QED
    BY <1>1, <2>1, <2>2 DEF Steady, RegistersOK
<1> QED
  BY <1>2, <1>3 DEF AiContext

\* An AI run that keeps its target goes on at another place of the same run.
LEMMA AimedGoto ==
  ASSUME TypeInv, target' = target, NEW e \in Events, pc[e] \in Aimed,
         NEW place \in Aimed, Goto(e, place)
  PROVE  Steady'
<1>0. e \in Procs /\ place \in Places /\ Sound(e, pc[e], back[e], regStatus[e], regUser[e])
  BY Registers DEF Procs, Places, Armed, Aimed
<1>1. Sound(e, place, back[e], regStatus[e], regUser[e])
  BY <1>0 DEF Sound, Aimed
<1> QED
  BY <1>0, <1>1, GotoSteady DEF TypeInv

LEMMA AimedCall ==
  ASSUME TypeInv, target' = target, NEW e \in Events, pc[e] \in Aimed \/ back[e] = "ai.eligible",
         NEW place \in {"ai.send", "queue.read"},
         NEW b \in {"idle", "done", "ai.eligible"}, NEW f \in BOOLEAN,
         Call(e, place, b, Keep, Keep, f)
  PROVE  Steady'
<1>0. e \in Procs /\ place \in Places /\ b \in Returns
      /\ Sound(e, pc[e], back[e], regStatus[e], regUser[e])
  BY Registers DEF Procs, Places, Armed, Returns
<1>1. Sound(e, place, b, Keep, Keep)
  BY <1>0 DEF Sound
<1> QED
  BY <1>0, <1>1, CallSteady DEF TypeInv
LEMMA AiRowTyped ==
  ASSUME TypeInv, NEW e \in Events, pc[e] \in Aimed, AiRow(e), quiet' \in BOOLEAN,
         UNCHANGED <<row, gateway, target, opsLeft, ghosts>>
  PROVE  DataOK' /\ target' = target
<1>1. target[e] \in Events
  <2>1. e \in Procs
    BY DEF Procs
  <2> QED
    BY <2>1, Registers DEF Sound
<1>2. FactsOK' /\ HistoryOK'
  BY <1>1 DEF AiRow, TypeInv, DataOK, FactsOK, HistoryOK, ghosts
<1> QED
  BY <1>2, FactsWriteTyped DEF TypeInv

LEMMA AiStepTyped ==
  ASSUME TypeInv, NEW e \in Events, AiStep(e) PROVE TypeInv'
<1>0. /\ e \in Procs /\ {"done", "ai.resume", "ai.context", "ai.flags", "ai.closure", "ai.rules"} \subseteq Free
      /\ {"close.read", "queue.read"} \subseteq Places /\ {"ai.rules", "done"} \subseteq Returns
      /\ Sound(e, pc[e], back[e], regStatus[e], regUser[e])
      /\ Sound(e, "close.read", "ai.rules", "CLOSED", Keep) /\ "CLOSED" \in Statuses
      /\ Sound(e, "queue.read", "done", Keep, Keep)
  BY Registers DEF Procs, Free, Places, Armed, Aimed, Returns, Sound, Statuses, Ended
<1> USE DEF TypeInv
<1>1. CASE AiStart(e)
  BY <1>0, <1>1, OnlyControlTyped, FinishSteady, GotoFreeSteady DEF AiStart
<1>2. CASE AiResume(e)
  <2>1. DataOK' /\ target' = target
    <3>1. CASE SetRow("OPEN", NoUser) /\ humanQueue' = FALSE
      BY <1>2, <3>1, RowWriteTyped DEF AiResume, DataOK, RowOK, Statuses, Open
    <3>2. CASE UNCHANGED <<status, assignee, ghosts>>
      BY <1>2, <3>2 DEF AiResume, DataOK, RowOK, FactsOK, GatewayOK, HistoryOK, facts, gateway, ghosts
    <3> QED
      BY <1>2, <3>1, <3>2 DEF AiResume
  <2> QED
    BY <1>0, <1>2, <2>1, GotoFreeSteady DEF AiResume
<1>3. CASE AiResumeFlags(e)
  <2>1. FactsOK' /\ HistoryOK'
    BY <1>3 DEF AiResumeFlags, DataOK, FactsOK, HistoryOK, ghosts
  <2>2. DataOK' /\ target' = target
    BY <1>3, <2>1, FactsWriteTyped DEF AiResumeFlags
  <2> QED
    BY <1>0, <1>3, <2>2, GotoFreeSteady DEF AiResumeFlags
<1>4. CASE AiContext(e)
  BY <1>4, AiContextTyped
<1>5. CASE AiRecheck(e)
  <2>1. pc[e] \in Aimed /\ "ai.generate" \in Aimed
    BY <1>5 DEF AiRecheck, Aimed
  <2> QED
    BY <1>0, <1>5, <2>1, OnlyControlTyped, AimedGoto, FinishSteady DEF AiRecheck
<1>6. CASE AiGenerate(e)
  <2>1. pc[e] \in Aimed /\ "ai.eligible" \in Aimed
    BY <1>6 DEF AiGenerate, Aimed
  <2> QED
    BY <1>0, <1>6, <2>1, OnlyControlTyped, AimedGoto, AimedCall, FinishSteady DEF AiGenerate
<1>7. CASE AiEligible(e)
  <2>1. pc[e] \in Aimed
    BY <1>7 DEF AiEligible, Aimed
  <2> QED
    BY <1>0, <1>7, <2>1, OnlyControlTyped, AimedCall, FinishSteady DEF AiEligible, Finish
<1>8. CASE AiSend(e)
  <2>1. pc[e] \in Aimed /\ {"ai.record", "ai.joined", "ai.sending"} \subseteq Aimed
    BY <1>8 DEF AiSend, Aimed
  <2>2. DataOK' /\ target' = target
    BY <1>8 DEF AiSend, Forget, DataOK, RowOK, FactsOK, GatewayOK, HistoryOK, row, facts, gateway
  <2> QED
    BY <1>0, <1>8, <2>1, <2>2, AimedGoto DEF AiSend
<1>9. CASE AiSent(e)
  <2>1. pc[e] \in Aimed /\ {"ai.record", "ai.fail"} \subseteq Aimed
    BY <1>9 DEF AiSent, Aimed
  <2>2. target[e] \in Events
    BY <1>0, <2>1 DEF Sound
  <2>3. GatewayOK'
    BY <1>9, <2>2 DEF AiSent, DataOK, GatewayOK, gateway
  <2>4. DataOK' /\ target' = target
    BY <1>9, <2>3 DEF AiSent, DataOK, RowOK, FactsOK, HistoryOK, row, facts, ghosts
  <2> QED
    BY <1>0, <1>9, <2>1, <2>4, AimedGoto DEF AiSent
<1>10. CASE AiJoined(e)
  <2>1. pc[e] \in Aimed /\ {"ai.record", "ai.fail"} \subseteq Aimed
    BY <1>10 DEF AiJoined, Aimed
  <2> QED
    BY <1>0, <1>10, <2>1, OnlyControlTyped, AimedGoto DEF AiJoined
<1>11. CASE AiRecord(e)
  <2>1. pc[e] \in Aimed
    BY <1>11 DEF AiRecord, Aimed
  <2>2. DataOK' /\ target' = target
    BY <1>11, <2>1, AiRowTyped DEF AiRecord
  <2> QED
    BY <1>0, <1>11, <2>2, CallSteady, FinishSteady DEF AiRecord
<1>12. CASE AiFail(e)
  <2>1. pc[e] \in Aimed
    BY <1>12 DEF AiFail, Aimed
  <2>2. DataOK' /\ target' = target
    BY <1>12, <2>1, AiRowTyped DEF AiFail, DataOK, FactsOK
  <2> QED
    BY <1>0, <1>12, <2>2, CallSteady, FinishSteady DEF AiFail
<1>13. CASE AiClosure(e)
  BY <1>0, <1>13, OnlyControlTyped, CallSteady, FinishSteady DEF AiClosure
<1>14. CASE AiRules(e)
  BY <1>0, <1>14, OnlyControlTyped, CallSteady, FinishSteady DEF AiRules
<1> QED
  BY <1>1, <1>2, <1>3, <1>4, <1>5, <1>6, <1>7, <1>8, <1>9, <1>10, <1>11, <1>12, <1>13, <1>14
     DEF AiStep

-----------------------------------------------------------------------------
(* The theorems. *)

LEMMA TypeInit == Init => TypeInv
<1> SUFFICES ASSUME Init PROVE TypeInv
  OBVIOUS
<1>1. DataOK
  <2>1. RowOK /\ FactsOK
    BY DEF Init, RowOK, FactsOK, Statuses, Open
  <2>2. GatewayOK /\ HistoryOK
    BY DEF Init, GatewayOK, HistoryOK
  <2>3. target \in [Events -> {0} \union Events] /\ opsLeft \in 0..MaxOps
    BY BoundAssumption DEF Init
  <2> QED
    BY <2>1, <2>2, <2>3 DEF DataOK
<1>2. ControlOK
  BY DEF Init, ControlOK, Places, Returns
<1>3. RegistersOK
  BY DEF Init, RegistersOK, Sound, Aimed
<1> QED
  BY <1>1, <1>2, <1>3 DEF TypeInv, Steady

LEMMA TypeStep == TypeInv /\ [Next]_vars => TypeInv'
<1> SUFFICES ASSUME TypeInv, [Next]_vars PROVE TypeInv'
  OBVIOUS
<1>1. ASSUME NEW u \in Users, HandoffRequest(u) \/ RouteRequest(u) \/ UserStep(u) PROVE TypeInv'
  <2>1. u \in Procs
    BY DEF Procs
  <2> QED
    BY <1>1, <2>1, HandoffRequestTyped, RouteRequestTyped, HandoffStepTyped, CloseStepTyped,
       RouteStepTyped DEF UserStep
<1>2. ASSUME NEW e \in Events, EventStep(e) PROVE TypeInv'
  <2>1. e \in Procs
    BY DEF Procs
  <2> QED
    BY <1>2, <2>1, IngestTyped, AiStepTyped, QueueStepTyped, CloseStepTyped DEF EventStep
<1>3. CASE SweeperStep
  <2>1. Sweeper \in Procs
    BY DEF Procs
  <2> QED
    BY <1>3, <2>1, SweepTyped, CloseStepTyped DEF SweeperStep
<1>4. CASE Elapse
  <2>1. FactsOK' /\ HistoryOK'
    BY <1>4 DEF Elapse, HumanFades, HandoffFades, GoesQuiet, TypeInv, DataOK, FactsOK, HistoryOK, ghosts
  <2>2. DataOK' /\ target' = target
    BY <1>4, <2>1, FactsWriteTyped DEF Elapse, TypeInv
  <2> QED
    BY <1>4, <2>2, StaySteady DEF Elapse, TypeInv, regs
<1>5. CASE UNCHANGED vars
  <2>1. DataOK' /\ target' = target
    BY <1>5, OnlyControlTyped DEF vars, OnlyControl, TypeInv
  <2> QED
    BY <1>5, <2>1, StaySteady DEF vars, regs, TypeInv
<1> QED
  BY <1>1, <1>2, <1>3, <1>4, <1>5 DEF Next

LEMMA TypeInvariant == Spec => []TypeInv
BY TypeInit, TypeStep, PTL DEF Spec

\* Every variable keeps its type; for the row it means that no statement ever
\* writes a field the request left out (PatchWrite, ReplyFinish, CloseWrite).
THEOREM TypeCorrect == Spec => []TypeOK
<1>1. TypeInv => TypeOK
  BY DEF TypeInv, DataOK, Steady, TypeOK
<1> QED
  BY <1>1, TypeInvariant, PTL
=============================================================================

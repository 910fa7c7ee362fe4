---------------------------- MODULE ChatNotices ----------------------------
(***************************************************************************)
(* The standard notices of one conversation: services/whatsapp/index.ts,   *)
(* sendStandardChatNotice with its two callers, notifyHumanTakeover and    *)
(* notifyAttendanceClosed, on top of the dispatch layer.                   *)
(*                                                                         *)
(* A notice has two guards against repetition: the messages already in the *)
(* conversation (takeovers only) and the idempotency key it gives the      *)
(* dispatch, notice:kind:conversation:dedupeValue, which does not say for  *)
(* which take over or which closing the notice is.                         *)
(***************************************************************************)
EXTENDS Dispatch, Sequences

CONSTANTS
    kind,      \* of each notice: "human_takeover" or "attendance_closed"
    agent      \* who took over, or who closed

ASSUME NoticeKinds == kind \in [Calls -> {"human_takeover", "attendance_closed"}]
\* dedupeValue is true for every takeover and absent for every closing.
ASSUME KeyIsTheKind == \A a, b \in Calls : (key[a] = key[b]) <=> (kind[a] = kind[b])

VARIABLES
    stage,     \* where each notice stands around its dispatch
    rows       \* the OUTBOUND messages of the conversation that are notices, oldest first

nvars == <<vars, stage, rows>>

Row(c, ok) == [notice |-> c, ok |-> ok]

NoticeTypeOK ==
    /\ TypeOK
    /\ stage \in [Calls -> {"asked", "dispatch", "skipped", "recorded"}]
    /\ \A i \in DOMAIN rows : rows[i] \in [notice : Calls, ok : BOOLEAN]
    /\ Len(rows) = Cardinality({c \in Calls : stage[c] = "recorded"})

NoticeInit ==
    /\ Init
    /\ stage = [c \in Calls |-> "asked"]
    /\ rows = <<>>

\* (Mutant) any earlier takeover by this agent counts, not only the newest.
SameTakeoverEver(c) ==
    \E i \in DOMAIN rows :
        kind[rows[i].notice] = "human_takeover" /\ agent[rows[i].notice] = agent[c]

\* The newest takeover message of the conversation names the same agent.
SameTakeover(c) ==
    \E i \in DOMAIN rows :
        /\ kind[rows[i].notice] = "human_takeover"
        /\ agent[rows[i].notice] = agent[c]
        /\ \A j \in DOMAIN rows : kind[rows[j].notice] = "human_takeover" => j <= i

\* The dedupe query: only takeovers have one.
AskNotice(c) ==
    /\ stage[c] = "asked"
    /\ stage' = [stage EXCEPT ![c] =
                    IF kind[c] = "human_takeover" /\ SameTakeover(c) THEN "skipped" ELSE "dispatch"]
    /\ UNCHANGED <<vars, rows>>

\* dispatchWhatsAppText with the notice's key; its text is never empty.
DispatchNotice(c) ==
    /\ stage[c] = "dispatch"
    /\ CallStep(c)
    /\ result'[c] # "invalid"
    /\ UNCHANGED <<stage, rows>>

\* (Mutant) recorded without looking at the outcome.
RecordAsSent(c) ==
    /\ stage[c] = "dispatch"
    /\ pc[c] = "done"
    /\ rows' = Append(rows, Row(c, TRUE))
    /\ stage' = [stage EXCEPT ![c] = "recorded"]
    /\ UNCHANGED vars

\* message.create: the notice stands in the conversation whatever happened,
\* with sendError when the dispatch did not say ok.
RecordNotice(c) ==
    /\ stage[c] = "dispatch"
    /\ pc[c] = "done"
    /\ rows' = Append(rows, Row(c, result[c] \in {"sent", "idempotent_sent"}))
    /\ stage' = [stage EXCEPT ![c] = "recorded"]
    /\ UNCHANGED vars

NoticeNext ==
    \/ \E c \in Calls : AskNotice(c) \/ DispatchNotice(c) \/ RecordNotice(c)
    \/ (Tick \/ Restart) /\ UNCHANGED <<stage, rows>>

NoticeSpec == NoticeInit /\ [][NoticeNext]_nvars

-----------------------------------------------------------------------------
Acked(c) == \E d \in delivered : d.call = c /\ d.outcome = "acked"

\* A notice the inbox shows without sendError was acknowledged by the gateway,
\* or shares a key with one that was: no notice is shown as sent on the word of
\* a joined dispatch that failed.
ShownWasSent ==
    \A i \in DOMAIN rows : rows[i].ok =>
        \E c \in Calls : kind[c] = kind[rows[i].notice] /\ Acked(c)

\* An agent is not announced again while its own announcement is the newest
\* one standing when the notice is asked for (agents taking over in turn are).
Announced == SelectSeq(rows, LAMBDA r : kind[r.notice] = "human_takeover")
TurnsAnnounced ==
    [][\A c \in Calls :
          stage[c] = "asked" /\ stage'[c] = "skipped" =>
              agent[c] = agent[Announced[Len(Announced)].notice]]_nvars

\* index.ts:800: "human_takeover: so pula se for o MESMO atendente" - the
\* customer is told of each agent that takes over and is shown as announced.
TakeoverTold ==
    \A i \in DOMAIN rows :
        rows[i].ok /\ kind[rows[i].notice] = "human_takeover" =>
            \E c \in Calls : agent[c] = agent[rows[i].notice] /\ Acked(c)

\* index.ts:936: "se reabriu e encerrou de novo, avisa outra vez" - every
\* closing shown as notified was notified.
ClosingTold ==
    \A i \in DOMAIN rows :
        rows[i].ok /\ kind[rows[i].notice] = "attendance_closed" => Acked(rows[i].notice)
=============================================================================

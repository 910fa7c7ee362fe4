-------------------------- MODULE ChatNoticesProofs --------------------------
(***************************************************************************)
(* Proofs about the standard notices of a conversation, for any notices,   *)
(* agents and keys.                                                        *)
(*                                                                         *)
(* Every step of the notices is a step of the dispatch layer or leaves it  *)
(* alone, so that what DispatchProofs shows holds here.  A notice is shown *)
(* as sent on the word of its own dispatch or of one it shares a key with, *)
(* and the key says no more than the kind of the notice.                   *)
(***************************************************************************)
EXTENDS ChatNotices, DispatchProofs

LEMMA StepOfDispatch == [NoticeNext]_nvars => [Next]_vars
<1>1. ASSUME NEW c \in Calls, AskNotice(c) \/ DispatchNotice(c) \/ RecordNotice(c) PROVE [Next]_vars
  BY <1>1 DEF AskNotice, DispatchNotice, RecordNotice, Next
<1> QED  BY <1>1 DEF NoticeNext, Next, nvars

\* The notices use the dispatch layer as it is.
LEMMA NoticesDispatch == NoticeSpec => Spec
<1>1. NoticeInit => Init
  BY DEF NoticeInit
<1> QED  BY <1>1, StepOfDispatch, PTL DEF NoticeSpec, Spec

-----------------------------------------------------------------------------
NoticeRows == [notice : Calls, ok : BOOLEAN]
Recorded == {c \in Calls : stage[c] = "recorded"}

RowsTyped ==
    /\ stage \in [Calls -> {"asked", "dispatch", "skipped", "recorded"}]
    /\ rows \in Seq(NoticeRows)
    /\ IsFiniteSet(Recorded) /\ Len(rows) = Cardinality(Recorded)

\* A call that says it sent was acknowledged.
SentIsAcked == \A c \in Calls : result[c] = "sent" => Acked(c)

NoticeInv == RowsTyped /\ SentIsAcked /\ ShownWasSent

\* What is acknowledged stays so.
LEMMA AckedStays ==
    ASSUME [Next]_vars, NEW c PROVE Acked(c) => Acked(c)'
<1>1. delivered \subseteq delivered'
  BY DEF Next, CallStep, RejectText, ReturnCached, JoinInflight, StartRun, CheckConsent, ProviderAcks,
         ProviderFails, Settle, ReturnJoined, Tick, Restart, vars
<1> QED  BY <1>1 DEF Acked

LEMMA SentStep == TypeOK /\ SentIsAcked /\ [Next]_vars => SentIsAcked'
<1> SUFFICES ASSUME TypeOK, SentIsAcked, [Next]_vars, NEW c \in Calls, result'[c] = "sent" PROVE Acked(c)'
  BY DEF SentIsAcked
<1>1. CASE result[c] = "sent"
  BY <1>1, AckedStays DEF SentIsAcked
<1>2. CASE ProviderAcks(c)
  <2>1. Delivery(c, "acked") \in delivered'
    BY <1>2 DEF ProviderAcks
  <2>2. Delivery(c, "acked").call = c /\ Delivery(c, "acked").outcome = "acked"
    BY DEF Delivery
  <2>3. \E d \in delivered' : d.call = c /\ d.outcome = "acked"
    BY <2>1, <2>2
  <2> QED  BY <2>3 DEF Acked
<1>3. CASE result[c] # "sent" /\ ~ProviderAcks(c)
  <2>1. \A d \in Calls : CallStep(d) => result'[c] # "sent"
    BY <1>3 DEF TypeOK, CallStep, RejectText, ReturnCached, JoinInflight, StartRun, Admission, CheckConsent,
                ProviderAcks, ProviderFails, Settle, ReturnJoined
  <2>2. Tick \/ Restart \/ UNCHANGED vars => result' = result
    BY DEF Tick, Restart, vars
  <2> QED  BY <1>3, <2>1, <2>2 DEF Next
<1> QED  BY <1>1, <1>2, <1>3

LEMMA RowTyped ==
    ASSUME NEW c \in Calls, NEW ok \in BOOLEAN
    PROVE  Row(c, ok) \in NoticeRows /\ Row(c, ok).notice = c /\ Row(c, ok).ok = ok
BY DEF Row, NoticeRows

\* A notice recorded as sent: by its own dispatch, or by one of its kind.
LEMMA OkIsFounded ==
    ASSUME TypeOK, SentIsAcked, IdempotentMeansSent,
           NEW c \in Calls, result[c] \in {"sent", "idempotent_sent"}
    PROVE  \E d \in Calls : kind[d] = kind[c] /\ Acked(d)
<1>1. CASE result[c] = "sent"
  BY <1>1 DEF SentIsAcked
<1>2. CASE result[c] = "idempotent_sent"
  <2>1. PICK d \in delivered : d.outcome = "acked" /\ SameKey(d.call, c)
    BY <1>2 DEF IdempotentMeansSent
  <2>2. d.call \in Calls
    BY DEF TypeOK, Deliveries
  <2>3. kind[d.call] = kind[c]
    BY <2>1, <2>2, KeyIsTheKind DEF SameKey
  <2> QED  BY <2>1, <2>2, <2>3 DEF Acked
<1> QED  BY <1>1, <1>2

LEMMA RecordStep ==
    ASSUME NoticeInv, TypeOK, IdempotentMeansSent, NEW c \in Calls, RecordNotice(c)
    PROVE  RowsTyped' /\ ShownWasSent'
<1> DEFINE said == result[c] \in {"sent", "idempotent_sent"}
           row == Row(c, said)
<1>0. /\ RowsTyped /\ SentIsAcked /\ ShownWasSent
      /\ rows \in Seq(NoticeRows) /\ Len(rows) \in Nat
  BY DEF NoticeInv, RowsTyped
<1>1. row \in NoticeRows /\ row.notice = c /\ (row.ok => result[c] \in {"sent", "idempotent_sent"})
  <2>1. CASE result[c] \in {"sent", "idempotent_sent"}
    <3>1. row \in NoticeRows /\ row.notice = c
      <4>1. said \in BOOLEAN
        OBVIOUS
      <4> HIDE DEF said
      <4> QED  BY <4>1, RowTyped
    <3> QED  BY <2>1, <3>1
  <2>2. CASE ~(result[c] \in {"sent", "idempotent_sent"})
    <3>1. said = FALSE
      BY <2>2
    <3> HIDE DEF said
    <3> QED  BY <3>1, RowTyped
  <2> QED  BY <2>1, <2>2
<1>2. rows' = Append(rows, row) /\ UNCHANGED vars
  BY DEF RecordNotice
<1> HIDE DEF row, said
<1>3. /\ rows' \in Seq(NoticeRows) /\ Len(rows') = Len(rows) + 1
      /\ rows'[Len(rows) + 1] = row /\ \A i \in 1..Len(rows) : rows'[i] = rows[i]
  BY <1>0, <1>1, <1>2
<1>4. Recorded' = Recorded \union {c} /\ c \notin Recorded
  BY <1>0 DEF RecordNotice, Recorded, RowsTyped
<1>5. IsFiniteSet(Recorded') /\ Cardinality(Recorded') = Cardinality(Recorded) + 1
  BY <1>0, <1>4, FS_AddElement DEF RowsTyped
<1>6. stage' \in [Calls -> {"asked", "dispatch", "skipped", "recorded"}]
  BY <1>0 DEF RecordNotice, RowsTyped
<1>7. RowsTyped'
  BY <1>0, <1>3, <1>5, <1>6 DEF RowsTyped
<1>8. \A d : Acked(d)' <=> Acked(d)
  BY <1>2 DEF Acked, vars
<1>9. ASSUME NEW i \in DOMAIN rows', rows'[i].ok
      PROVE  \E d \in Calls : kind[d] = kind[rows'[i].notice] /\ Acked(d)
  <2>1. DOMAIN rows' = 1..(Len(rows) + 1) /\ DOMAIN rows = 1..Len(rows)
    BY <1>0, <1>3
  <2>2. CASE i = Len(rows) + 1
    BY <1>0, <1>1, <1>3, <1>9, <2>2, OkIsFounded
  <2>3. CASE i \in 1..Len(rows)
    BY <1>0, <1>3, <1>9, <2>1, <2>3 DEF ShownWasSent
  <2> QED  BY <1>0, <2>1, <2>2, <2>3
<1>10. ShownWasSent'
  BY <1>8, <1>9 DEF ShownWasSent
<1> QED  BY <1>7, <1>10

LEMMA NoticeStepInv ==
    NoticeInv /\ TypeOK /\ IdempotentMeansSent /\ [NoticeNext]_nvars => NoticeInv'
<1> SUFFICES ASSUME NoticeInv, TypeOK, IdempotentMeansSent, [NoticeNext]_nvars PROVE NoticeInv'
  OBVIOUS
<1>0. RowsTyped /\ SentIsAcked /\ ShownWasSent
  BY DEF NoticeInv
<1>1. SentIsAcked'
  BY <1>0, SentStep, StepOfDispatch
<1>2. ASSUME UNCHANGED rows, RowsTyped' PROVE NoticeInv'
  <2>1. ShownWasSent'
    BY <1>0, <1>2, StepOfDispatch, AckedStays DEF ShownWasSent
  <2> QED  BY <1>1, <1>2, <2>1 DEF NoticeInv
<1>3. ASSUME NEW c \in Calls, RecordNotice(c) PROVE NoticeInv'
  BY <1>1, <1>3, RecordStep DEF NoticeInv
<1>4. ASSUME NEW c \in Calls, AskNotice(c) PROVE NoticeInv'
  <2>1. Recorded' = Recorded
    BY <1>0, <1>4 DEF AskNotice, RowsTyped, Recorded
  <2>2. stage' \in [Calls -> {"asked", "dispatch", "skipped", "recorded"}] /\ UNCHANGED rows
    BY <1>0, <1>4 DEF AskNotice, RowsTyped
  <2> QED  BY <1>0, <1>2, <2>1, <2>2 DEF RowsTyped
<1>5. CASE UNCHANGED <<stage, rows>>
  BY <1>0, <1>2, <1>5 DEF RowsTyped, Recorded
<1> QED  BY <1>3, <1>4, <1>5 DEF NoticeNext, DispatchNotice, nvars

LEMMA NoticeAlways == NoticeSpec => [](NoticeInv /\ TypeOK)
<1>1. NoticeInit => NoticeInv
  <2> SUFFICES ASSUME NoticeInit PROVE NoticeInv
    OBVIOUS
  <2>1. Recorded = {} /\ rows = <<>>
    BY DEF NoticeInit, Recorded
  <2>2. RowsTyped
    <3>1. rows \in Seq(NoticeRows) /\ Len(rows) = 0
      BY <2>1
    <3> QED  BY <2>1, <3>1, FS_EmptySet DEF NoticeInit, RowsTyped
  <2>3. SentIsAcked /\ ShownWasSent
    BY <2>1 DEF NoticeInit, Init, SentIsAcked, ShownWasSent
  <2> QED  BY <2>2, <2>3 DEF NoticeInv
<1> QED  BY <1>1, NoticeStepInv, NoticesDispatch, TypeCorrect, AcknowledgedBeforeClaimed, PTL DEF NoticeSpec

\* Whatever the notices and the dispatch do, what the conversation shows stays typed:
\* one row per recorded notice.
THEOREM NoticesStayTyped == NoticeSpec => []NoticeTypeOK
<1>1. NoticeInv /\ TypeOK => NoticeTypeOK
  <2> SUFFICES ASSUME NoticeInv, TypeOK PROVE NoticeTypeOK
    OBVIOUS
  <2>1. \A i \in DOMAIN rows : rows[i] \in NoticeRows
    BY DEF NoticeInv, RowsTyped
  <2> QED  BY <2>1 DEF NoticeInv, RowsTyped, NoticeTypeOK, NoticeRows, Recorded
<1> QED  BY <1>1, NoticeAlways, PTL

\* For any notices, agents and keys: what the inbox shows without an error was
\* acknowledged by the gateway, for this notice or for another of its kind.
THEOREM ShownIsSent == NoticeSpec => []ShownWasSent
<1>1. NoticeInv => ShownWasSent
  BY DEF NoticeInv
<1> QED  BY <1>1, NoticeAlways, PTL
=============================================================================

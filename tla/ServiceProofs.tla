---------------------------- MODULE ServiceProofs ----------------------------
(***************************************************************************)
(* Proofs about what the API does in the background: the outbound          *)
(* webhooks, the WhatsApp session and the removal of companies, each for   *)
(* any value of its constants, and the three together.                     *)
(*                                                                         *)
(* Webhooks.  The number an attempt has read is one more than the row's,   *)
(* and the row's is the number of POSTs, but for the attempt that has      *)
(* posted and not recorded: RowInStep says so of each delivery whose       *)
(* attempts have not overlapped, HealthInStep of the endpoint's counters.  *)
(*                                                                         *)
(* Session.  Neither safety property is inductive.  That one socket at     *)
(* most reports rests on what a running start has done already: it has     *)
(* dropped the old socket and not made the new one.  And no socket is made *)
(* while the circuit is open because only a socket that reports can open   *)
(* the circuit under a running start, and then there is none.              *)
(*                                                                         *)
(* Removal.  The inductive invariant adds what each call in flight knows:  *)
(* a purge holds its company in inflight; a status to go back to is never  *)
(* PENDING_DELETION; what a pass has read, and nobody wrote since, is      *)
(* still due; the users a purge will remove have no other company.         *)
(***************************************************************************)
EXTENDS MCServices, FiniteSetTheorems, TLAPS

-----------------------------------------------------------------------------
(***************************************************************************)
(* The outbound webhooks                                                   *)
(***************************************************************************)
Rows == [status : {"none", "pending", "retrying", "success", "failed"},
         attempts : 0..MaxAttempts, success : BOOLEAN, next : {"unset", "later", "due"}]
Endpoints == [active : BOOLEAN, failures : 0..FailingAt, health : {"active", "failing", "paused"}]
AttemptRows == [at : {"idle", "read", "giveup", "post", "record", "health"},
                of : Deliveries \union {NoDelivery}, number : 0..MaxAttempts, failures : 0..FailingAt,
                health : {"active", "failing", "paused"}, ok : BOOLEAN]

\* The types, with those of the histories.
WebhookTyped ==
    /\ delivery \in [Deliveries -> Rows] /\ endpoint \in Endpoints
    /\ timers \in [Deliveries -> 0..MaxTimers]
    /\ attempt \in [Attempts -> AttemptRows]
    /\ resends \in 0..MaxResends /\ crashes \in 0..MaxCrashes
    /\ posts \in [Deliveries -> Nat] /\ answered \in [Deliveries -> BOOLEAN]
    /\ clash \in [Deliveries -> BOOLEAN]
    /\ healthClash \in BOOLEAN /\ failedInRow \in 0..FailingAt

\* An attempt under way is about a delivery.
AttemptsHaveRows == \A a \in Attempts : attempt[a].at # "idle" => attempt[a].of \in Deliveries

\* An attempt that has read the row of d and not written it back.
Holds(a, d) == attempt[a].of = d /\ attempt[a].at \in {"post", "record"}
Sent(a, d)  == attempt[a].of = d /\ attempt[a].at = "record"

\* Without a clash one attempt at most holds the row, what it read still stands, and
\* what was answered is in the row or in its hands.
RowInStep(d) ==
    /\ \A a, b \in Attempts : Holds(a, d) /\ Holds(b, d) => a = b
    /\ \A a \in Attempts : Holds(a, d) =>
          /\ attempt[a].number = delivery[d].attempts + 1
          /\ ~delivery[d].success
          /\ attempt[a].at = "post" => ~answered[d]
    /\ answered[d] => delivery[d].success \/ \E a \in Attempts : Sent(a, d) /\ attempt[a].ok
    /\ (\E a \in Attempts : Sent(a, d)) => posts[d] = delivery[d].attempts + 1
    /\ (\A a \in Attempts : ~Sent(a, d)) => posts[d] = delivery[d].attempts

RowsInStep == \A d \in Deliveries : ~clash[d] => RowInStep(d)

\* An attempt that has read the endpoint's counters and not written them back.
Counts(a) == attempt[a].at \in {"post", "record", "health"}

HealthInStep == ~healthClash =>
    /\ \A a, b \in Attempts : Counts(a) /\ Counts(b) => a = b
    /\ \A a \in Attempts : Counts(a) =>
          attempt[a].failures = endpoint.failures /\ attempt[a].health = endpoint.health
    /\ endpoint.failures = failedInRow
    /\ endpoint.health = "failing" <=> failedInRow = FailingAt

WebhookInv == WebhookTyped /\ AttemptsHaveRows /\ RowsInStep /\ HealthInStep

-----------------------------------------------------------------------------
LEMMA WebhookParts ==
    WebhookTyped => WebhookTypeOK
BY DEF WebhookTyped, WebhookTypeOK, Rows, Endpoints, AttemptRows

LEMMA IdleAttemptTyped == IdleAttempt \in AttemptRows
BY MaxAttemptsPositive DEF IdleAttempt, AttemptRows

LEMMA WebhookInitInv == WebhookInit => WebhookInv
<1> SUFFICES ASSUME WebhookInit PROVE WebhookInv
  OBVIOUS
<1>1. WebhookTyped
  <2>1. 0 \in 0..MaxAttempts /\ 0 \in 0..FailingAt /\ 0 \in 0..MaxTimers /\ 0 \in 0..MaxResends /\ 0 \in 0..MaxCrashes
    BY MaxAttemptsPositive, WebhookBounds
  <2>2. delivery \in [Deliveries -> Rows]
    BY <2>1 DEF WebhookInit, Rows
  <2>3. endpoint \in Endpoints
    BY <2>1 DEF WebhookInit, Endpoints
  <2> QED  BY <2>1, <2>2, <2>3, IdleAttemptTyped DEF WebhookInit, WebhookTyped
<1>2. \A a \in Attempts : attempt[a].at = "idle"
  BY DEF WebhookInit, IdleAttempt
<1>3. AttemptsHaveRows
  BY <1>2 DEF AttemptsHaveRows
<1>4. RowsInStep
  BY <1>2 DEF RowsInStep, RowInStep, Holds, Sent, WebhookInit
<1>5. HealthInStep
  BY <1>2, MaxAttemptsPositive DEF HealthInStep, Counts, WebhookInit
<1> QED  BY <1>1, <1>3, <1>4, <1>5 DEF WebhookInv

\* A history kept unless it is dropped.
LEMMA HistoryKept ==
    ASSUME WebhookTyped, clash' \in [Deliveries -> BOOLEAN], healthClash' \in BOOLEAN, KeepHistory
    PROVE  /\ posts' \in [Deliveries -> Nat] /\ answered' \in [Deliveries -> BOOLEAN]
           /\ failedInRow' \in 0..FailingAt
           /\ \A d \in Deliveries : ~clash'[d] => posts'[d] = posts[d] /\ answered'[d] = answered[d]
           /\ ~healthClash' => failedInRow' = failedInRow
<1>1. \A d \in Deliveries : ~clash'[d] => posts'[d] = posts[d] /\ answered'[d] = answered[d]
  BY DEF KeepHistory, Unless
<1>2. posts' \in [Deliveries -> Nat]
  BY DEF KeepHistory, Unless, WebhookTyped
<1>3. answered' \in [Deliveries -> BOOLEAN]
  BY DEF KeepHistory, Unless, WebhookTyped
<1>4. failedInRow' \in 0..FailingAt /\ (~healthClash' => failedInRow' = failedInRow)
  BY MaxAttemptsPositive DEF KeepHistory, Unless, WebhookTyped
<1> QED  BY <1>1, <1>2, <1>3, <1>4

LEMMA CounterTyped == ASSUME NEW n \in 0..FailingAt PROVE OneMore(n) \in 0..FailingAt
BY MaxAttemptsPositive DEF OneMore

\* An attempt written with a row, the others kept.
LEMMA AttemptWritten ==
    ASSUME WebhookTyped, NEW a \in Attempts, NEW row \in AttemptRows, attempt' = [attempt EXCEPT ![a] = row]
    PROVE  /\ attempt' \in [Attempts -> AttemptRows] /\ attempt'[a] = row
           /\ \A b \in Attempts : b # a => attempt'[b] = attempt[b]
BY DEF WebhookTyped

\* A call of attemptDelivery takes an idle attempt to the read of the row.
LEMMA CallReads ==
    ASSUME WebhookTyped, NEW d \in Deliveries, Call(d)
    PROVE  /\ attempt' \in [Attempts -> AttemptRows]
           /\ \E a \in Attempts :
                /\ attempt[a].at = "idle" /\ attempt'[a].at = "read" /\ attempt'[a].of = d
                /\ \A b \in Attempts : b # a => attempt'[b] = attempt[b]
<1>1. PICK a \in Attempts : /\ attempt[a].at = "idle"
                            /\ attempt' = [attempt EXCEPT ![a] = [IdleAttempt EXCEPT !.at = "read", !.of = d]]
  BY DEF Call
<1>2. /\ [IdleAttempt EXCEPT !.at = "read", !.of = d] \in AttemptRows
      /\ [IdleAttempt EXCEPT !.at = "read", !.of = d].at = "read"
      /\ [IdleAttempt EXCEPT !.at = "read", !.of = d].of = d
  BY IdleAttemptTyped DEF AttemptRows
<1> QED  BY <1>1, <1>2, AttemptWritten

\* What holds the row, and what the row says, stays as it was.
RowStays(d) ==
    /\ \A a \in Attempts : Holds(a, d) \/ Holds(a, d)' => attempt'[a] = attempt[a]
    /\ delivery'[d].attempts = delivery[d].attempts /\ delivery'[d].success = delivery[d].success
    /\ posts'[d] = posts[d] /\ answered'[d] = answered[d]

LEMMA RowStaysInStep == ASSUME NEW d \in Deliveries, RowInStep(d), RowStays(d) PROVE RowInStep(d)'
<1>1. \A a \in Attempts : /\ Holds(a, d)' <=> Holds(a, d)
                          /\ Sent(a, d)' <=> Sent(a, d)
  BY DEF RowStays, Holds, Sent
<1>2. \A a \in Attempts : Sent(a, d) => Holds(a, d)
  BY DEF Sent, Holds
<1> QED  BY <1>1, <1>2 DEF RowInStep, RowStays

\* Nor do the counters, and who has read them.
HealthStays ==
    /\ \A a \in Attempts : Counts(a)' => Counts(a) /\ attempt'[a].failures = attempt[a].failures
                                           /\ attempt'[a].health = attempt[a].health
    /\ UNCHANGED <<endpoint, failedInRow>>

LEMMA HealthStaysInStep == 
    ASSUME HealthInStep, ~healthClash' => ~healthClash /\ HealthStays
    PROVE  HealthInStep'
BY DEF HealthInStep, HealthStays

\* A step that writes no row that an attempt holds, beside what it does to others.
LEMMA QuietWebhookStep ==
    ASSUME WebhookInv, WebhookTyped', AttemptsHaveRows',
           \A d \in Deliveries : ~clash'[d] => ~clash[d] /\ RowStays(d),
           ~healthClash' => ~healthClash /\ HealthStays
    PROVE  WebhookInv'
<1>1. RowsInStep'
  BY RowStaysInStep DEF WebhookInv, RowsInStep
<1> QED  BY <1>1, HealthStaysInStep DEF WebhookInv

\* The row of a delivery written with other fields.
LEMMA RowTyped ==
    ASSUME WebhookTyped, NEW d \in Deliveries, NEW row \in Rows, delivery' = [delivery EXCEPT ![d] = row]
    PROVE  /\ delivery' \in [Deliveries -> Rows] /\ delivery'[d] = row
           /\ \A e \in Deliveries : e # d => delivery'[e] = delivery[e]
BY DEF WebhookTyped

\* What the callers write of a row.
LEMMA RowsWritten ==
    ASSUME WebhookTyped, NEW d \in Deliveries
    PROVE  LET pending == [delivery[d] EXCEPT !.status = "pending"]
               resent  == [delivery[d] EXCEPT !.status = "pending", !.success = FALSE, !.next = "unset"]
           IN  /\ pending \in Rows
               /\ pending.attempts = delivery[d].attempts /\ pending.success = delivery[d].success
               /\ resent \in Rows
               /\ resent.attempts = delivery[d].attempts /\ ~resent.success
<1>1. delivery[d] \in Rows
  BY DEF WebhookTyped
<1> QED  BY <1>1 DEF Rows

\* A call that reads: nobody holds more than before, whatever else the step does.
LEMMA CallStays ==
    ASSUME WebhookTyped, AttemptsHaveRows, NEW d \in Deliveries, Call(d)
    PROVE  /\ attempt' \in [Attempts -> AttemptRows]
           /\ AttemptsHaveRows'
           /\ \A a \in Attempts, e \in Deliveries : Holds(a, e) \/ Holds(a, e)' => attempt'[a] = attempt[a]
           /\ \A a \in Attempts : Counts(a) \/ Counts(a)' => attempt'[a] = attempt[a]
BY CallReads DEF AttemptsHaveRows, Holds, Counts

\* deliverToTenant, the timer, the scheduler.
LEMMA CallingStep ==
    ASSUME WebhookInv, NEW d \in Deliveries, Emit(d) \/ FireTimer(d) \/ PickRetry(d)
    PROVE  WebhookInv'
<1>0. WebhookTyped /\ AttemptsHaveRows /\ Call(d)
  BY DEF WebhookInv, Emit, FireTimer, PickRetry
<1>1. delivery' \in [Deliveries -> Rows]
      /\ \A e \in Deliveries : delivery'[e].attempts = delivery[e].attempts /\ delivery'[e].success = delivery[e].success
  <2>1. CASE Emit(d)
    <3> DEFINE row == [delivery[d] EXCEPT !.status = "pending"]
    <3>1. delivery' = [delivery EXCEPT ![d] = row]
      BY <1>0, <2>1 DEF Emit, WebhookTyped
    <3>2. row \in Rows /\ row.attempts = delivery[d].attempts /\ row.success = delivery[d].success
      BY <1>0, RowsWritten
    <3> HIDE DEF row
    <3> QED  BY <1>0, <3>1, <3>2, RowTyped
  <2>2. CASE FireTimer(d) \/ PickRetry(d)
    BY <1>0, <2>2 DEF WebhookTyped, FireTimer, PickRetry, rowVars
  <2> QED  BY <2>1, <2>2
<1>2. timers' \in [Deliveries -> 0..MaxTimers]
  BY <1>0, WebhookBounds DEF WebhookTyped, Emit, FireTimer, PickRetry
<1>3. UNCHANGED <<endpoint, resends, crashes, posts, answered, clash, healthClash, failedInRow>>
  BY DEF Emit, FireTimer, PickRetry, rowVars, webhookHistory
<1>4. WebhookTyped' /\ AttemptsHaveRows'
  BY <1>0, <1>1, <1>2, <1>3, CallStays DEF WebhookTyped
<1>5. \A e \in Deliveries : RowStays(e)
  BY <1>0, <1>1, <1>3, CallStays DEF RowStays
<1>6. HealthStays
  BY <1>0, <1>3, CallStays DEF HealthStays, Counts
<1> QED  BY <1>3, <1>4, <1>5, <1>6, QuietWebhookStep

\* resendDelivery: what was answered is forgotten, in the row and in the history.
LEMMA ResendStep == ASSUME WebhookInv, NEW d \in Deliveries, Resend(d) PROVE WebhookInv'
<1>0. WebhookTyped /\ AttemptsHaveRows /\ Call(d) /\ RowsInStep /\ HealthInStep
  BY DEF WebhookInv, Resend
<1>1. /\ delivery' \in [Deliveries -> Rows]
      /\ \A e \in Deliveries : delivery'[e].attempts = delivery[e].attempts
      /\ ~delivery'[d].success
      /\ \A e \in Deliveries : e # d => delivery'[e] = delivery[e]
  <2> DEFINE row == [delivery[d] EXCEPT !.status = "pending", !.success = FALSE, !.next = "unset"]
  <2>1. delivery' = [delivery EXCEPT ![d] = row]
    BY <1>0 DEF Resend, WebhookTyped
  <2>2. row \in Rows /\ row.attempts = delivery[d].attempts /\ ~row.success
    BY <1>0, RowsWritten
  <2> HIDE DEF row
  <2> QED  BY <1>0, <2>1, <2>2, RowTyped
<1>2. UNCHANGED <<endpoint, timers, crashes, posts, clash, healthClash, failedInRow>>
  BY DEF Resend
<1>3. /\ answered' \in [Deliveries -> BOOLEAN] /\ ~answered'[d]
      /\ \A e \in Deliveries : e # d => answered'[e] = answered[e]
  BY <1>0 DEF WebhookTyped, Resend
<1>4. resends' \in 0..MaxResends
  BY <1>0, WebhookBounds DEF WebhookTyped, Resend
<1>5. WebhookTyped' /\ AttemptsHaveRows'
  BY <1>0, <1>1, <1>2, <1>3, <1>4, CallStays DEF WebhookTyped
<1>6. RowsInStep'
  <2> SUFFICES ASSUME NEW e \in Deliveries, ~clash'[e] PROVE RowInStep(e)'
    BY DEF RowsInStep
  <2>1. RowInStep(e)
    BY <1>0, <1>2 DEF RowsInStep
  <2>2. CASE e # d
    BY <1>0, <1>1, <1>2, <1>3, <2>1, <2>2, CallStays, RowStaysInStep DEF RowStays
  <2>3. CASE e = d
    <3>1. \A a \in Attempts :
             /\ Holds(a, d) \/ Holds(a, d)' => attempt'[a] = attempt[a]
             /\ Holds(a, d)' <=> Holds(a, d)
             /\ Sent(a, d)' <=> Sent(a, d)
      BY <1>0, CallStays DEF Holds, Sent
    <3> QED  BY <1>1, <1>2, <1>3, <2>1, <2>3, <3>1 DEF RowInStep
  <2> QED  BY <2>2, <2>3
<1>7. HealthStays
  BY <1>0, <1>2, CallStays DEF HealthStays, Counts
<1>8. HealthInStep'
  BY <1>0, <1>2, <1>7, HealthStaysInStep
<1> QED  BY <1>5, <1>6, <1>8 DEF WebhookInv

\* The read of the row: over, about to give up, or off to the POST.
LEMMA ReadingStep == ASSUME WebhookInv, NEW a \in Attempts, ReadDelivery(a) PROVE WebhookInv'
<1> DEFINE d == attempt[a].of
           posting == [attempt[a] EXCEPT !.at = "post", !.number = delivery[d].attempts + 1,
                                         !.failures = endpoint.failures, !.health = endpoint.health]
<1>0. /\ WebhookTyped /\ AttemptsHaveRows /\ RowsInStep /\ HealthInStep
      /\ attempt[a].at = "read" /\ d \in Deliveries /\ delivery[d] \in Rows /\ endpoint \in Endpoints
      /\ attempt[a] \in AttemptRows
  BY DEF WebhookInv, ReadDelivery, AttemptsHaveRows, WebhookTyped
<1>1. UNCHANGED <<delivery, endpoint, timers, resends, crashes>> /\ KeepHistory
  BY DEF ReadDelivery, rowVars
<1>2. ASSUME clash' \in [Deliveries -> BOOLEAN], healthClash' \in BOOLEAN,
             NEW row \in AttemptRows, attempt' = [attempt EXCEPT ![a] = row],
             row.at # "idle" => row.of \in Deliveries
      PROVE  WebhookTyped' /\ AttemptsHaveRows'
  <2>1. attempt' \in [Attempts -> AttemptRows] /\ AttemptsHaveRows'
    BY <1>0, <1>2, AttemptWritten DEF AttemptsHaveRows
  <2> QED  BY <1>0, <1>1, <1>2, <2>1, HistoryKept DEF WebhookTyped
<1>3. CASE UNCHANGED <<clash, healthClash>> /\ attempt' = [attempt EXCEPT ![a] = IdleAttempt]
  <2>1. WebhookTyped' /\ AttemptsHaveRows'
    BY <1>0, <1>2, <1>3, IdleAttemptTyped DEF IdleAttempt, WebhookTyped
  <2>2. attempt'[a].at = "idle" /\ \A b \in Attempts : b # a => attempt'[b] = attempt[b]
    BY <1>0, <1>3 DEF IdleAttempt, WebhookTyped
  <2>3. \A e \in Deliveries : ~clash'[e] => ~clash[e] /\ RowStays(e)
    BY <1>0, <1>1, <1>3, <2>1, <2>2, HistoryKept DEF RowStays, Holds, WebhookTyped
  <2>4. ~healthClash' => ~healthClash /\ HealthStays
    BY <1>0, <1>1, <1>3, <2>1, <2>2, HistoryKept DEF HealthStays, Counts, WebhookTyped
  <2> QED  BY <2>1, <2>3, <2>4, QuietWebhookStep
<1>4. CASE UNCHANGED <<clash, healthClash>> /\ attempt' = [attempt EXCEPT ![a].at = "giveup"]
  <2>0. [attempt[a] EXCEPT !.at = "giveup"] \in AttemptRows /\ [attempt[a] EXCEPT !.at = "giveup"].of = d
    BY <1>0 DEF AttemptRows
  <2>1. WebhookTyped' /\ AttemptsHaveRows'
    BY <1>0, <1>2, <1>4, <2>0 DEF WebhookTyped
  <2>2. attempt'[a].at = "giveup" /\ \A b \in Attempts : b # a => attempt'[b] = attempt[b]
    BY <1>0, <1>4 DEF WebhookTyped, AttemptRows
  <2>3. \A e \in Deliveries : ~clash'[e] => ~clash[e] /\ RowStays(e)
    BY <1>0, <1>1, <1>4, <2>1, <2>2, HistoryKept DEF RowStays, Holds, WebhookTyped
  <2>4. ~healthClash' => ~healthClash /\ HealthStays
    BY <1>0, <1>1, <1>4, <2>1, <2>2, HistoryKept DEF HealthStays, Counts, WebhookTyped
  <2> QED  BY <2>1, <2>3, <2>4, QuietWebhookStep
<1>5. CASE /\ ~delivery[d].success /\ delivery[d].attempts < MaxAttempts
           /\ attempt' = [attempt EXCEPT ![a] = posting]
           /\ clash' = [clash EXCEPT ![d] = @ \/ Unrecorded(d)]
           /\ healthClash' = (healthClash \/ Counting)
  <2>0. /\ posting \in AttemptRows /\ posting.at = "post" /\ posting.of = d
        /\ posting.number = delivery[d].attempts + 1
        /\ posting.failures = endpoint.failures /\ posting.health = endpoint.health
    <3>1. delivery[d].attempts + 1 \in 0..MaxAttempts /\ endpoint.failures \in 0..FailingAt
          /\ endpoint.health \in {"active", "failing", "paused"}
      BY <1>0, <1>5, MaxAttemptsPositive DEF Rows, Endpoints
    <3> QED  BY <1>0, <3>1 DEF AttemptRows
  <2>1. /\ clash' \in [Deliveries -> BOOLEAN] /\ healthClash' \in BOOLEAN
        /\ \A e \in Deliveries : ~clash'[e] => ~clash[e]
        /\ ~clash'[d] => ~Unrecorded(d)
        /\ ~healthClash' => ~healthClash /\ ~Counting
    BY <1>0, <1>5 DEF WebhookTyped
  <2>2. WebhookTyped' /\ AttemptsHaveRows'
    BY <1>0, <1>2, <1>5, <2>0, <2>1
  <2>3. attempt'[a] = posting /\ \A b \in Attempts : b # a => attempt'[b] = attempt[b]
    BY <1>0, <1>5 DEF WebhookTyped
  <2>4. \A e \in Deliveries : ~clash'[e] => posts'[e] = posts[e] /\ answered'[e] = answered[e]
    BY <1>0, <1>1, <2>1, HistoryKept
  <2>5. RowsInStep'
    <3> SUFFICES ASSUME NEW e \in Deliveries, ~clash'[e] PROVE RowInStep(e)'
      BY DEF RowsInStep
    <3>1. RowInStep(e)
      BY <1>0, <2>1 DEF RowsInStep
    <3>2. CASE e # d
      <4>1. \A b \in Attempts : Holds(b, e) \/ Holds(b, e)' => attempt'[b] = attempt[b]
        BY <2>0, <2>3, <3>2 DEF Holds
      <4> QED  BY <1>1, <2>4, <3>1, <4>1, RowStaysInStep DEF RowStays
    <3>3. CASE e = d
      <4>1. \A b \in Attempts : ~Holds(b, e) /\ ~Sent(b, e)
        BY <2>1, <3>3 DEF Unrecorded, Holds, Sent
      <4>2. ~answered[d] /\ posts[d] = delivery[d].attempts
        BY <1>5, <3>1, <3>3, <4>1 DEF RowInStep
      <4>3. \A b \in Attempts : ~Sent(b, e)' /\ (Holds(b, e)' => b = a)
        BY <2>0, <2>3, <4>1 DEF Holds, Sent
      <4> QED  BY <1>1, <1>5, <2>0, <2>3, <2>4, <3>3, <4>2, <4>3 DEF RowInStep
    <3> QED  BY <3>2, <3>3
  <2>6. HealthInStep'
    <3> SUFFICES ASSUME ~healthClash' PROVE HealthInStep'
      BY DEF HealthInStep
    <3>1. failedInRow' = failedInRow
      BY <1>0, <1>1, <2>1, HistoryKept
    <3>2. \A b \in Attempts : Counts(b)' => b = a
      BY <2>1, <2>3 DEF Counts, Counting
    <3> QED  BY <1>0, <1>1, <2>0, <2>1, <2>3, <3>1, <3>2 DEF HealthInStep
  <2> QED  BY <2>2, <2>5, <2>6 DEF WebhookInv
<1> QED  BY <1>3, <1>4, <1>5 DEF ReadDelivery

\* attempts had reached the maximum.
LEMMA GivingUpStep == ASSUME WebhookInv, NEW a \in Attempts, GiveUp(a) PROVE WebhookInv'
<1> DEFINE d == attempt[a].of
<1>0. /\ WebhookTyped /\ AttemptsHaveRows
      /\ attempt[a].at = "giveup" /\ d \in Deliveries
  BY DEF WebhookInv, GiveUp, AttemptsHaveRows
<1>1. /\ delivery' \in [Deliveries -> Rows]
      /\ \A e \in Deliveries : delivery'[e].attempts = delivery[e].attempts /\ delivery'[e].success = delivery[e].success
  BY <1>0 DEF GiveUp, WebhookTyped, Rows
<1>2. attempt' \in [Attempts -> AttemptRows] /\ attempt'[a].at = "idle" /\ \A b \in Attempts : b # a => attempt'[b] = attempt[b]
  BY <1>0, AttemptWritten, IdleAttemptTyped DEF GiveUp, IdleAttempt
<1>3. UNCHANGED <<endpoint, timers, resends, crashes, posts, answered, clash, healthClash, failedInRow>>
  BY DEF GiveUp, webhookHistory
<1>4. WebhookTyped' /\ AttemptsHaveRows'
  BY <1>0, <1>1, <1>2, <1>3 DEF WebhookTyped, AttemptsHaveRows
<1>5. \A e \in Deliveries : RowStays(e)
  BY <1>0, <1>1, <1>2, <1>3 DEF RowStays, Holds
<1>6. HealthStays
  BY <1>0, <1>2, <1>3 DEF HealthStays, Counts
<1> QED  BY <1>3, <1>4, <1>5, <1>6, QuietWebhookStep

\* The POST and its answer.
LEMMA PostingStep == ASSUME WebhookInv, NEW a \in Attempts, PostEvent(a) PROVE WebhookInv'
<1> DEFINE d == attempt[a].of
<1>0. /\ WebhookTyped /\ AttemptsHaveRows /\ RowsInStep /\ HealthInStep
      /\ attempt[a].at = "post" /\ d \in Deliveries /\ attempt[a] \in AttemptRows
  BY DEF WebhookInv, PostEvent, AttemptsHaveRows, WebhookTyped
<1>1. PICK ok \in BOOLEAN :
        /\ attempt' = [attempt EXCEPT ![a].at = "record", ![a].ok = ok]
        /\ answered' = [answered EXCEPT ![d] = ~clash[d] /\ (@ \/ ok)]
  BY DEF PostEvent
<1>2. /\ attempt' \in [Attempts -> AttemptRows]
      /\ attempt'[a].at = "record" /\ attempt'[a].ok = ok /\ attempt'[a].of = d
      /\ attempt'[a].number = attempt[a].number /\ attempt'[a].failures = attempt[a].failures
      /\ attempt'[a].health = attempt[a].health
      /\ \A b \in Attempts : b # a => attempt'[b] = attempt[b]
  BY <1>0, <1>1 DEF WebhookTyped, AttemptRows
<1>3. UNCHANGED <<delivery, endpoint, timers, resends, crashes, clash, healthClash, failedInRow>>
  BY DEF PostEvent, rowVars
<1>4. /\ answered' \in [Deliveries -> BOOLEAN]
      /\ \A e \in Deliveries : e # d => answered'[e] = answered[e]
      /\ answered'[d] <=> ~clash[d] /\ (answered[d] \/ ok)
  BY <1>0, <1>1 DEF WebhookTyped
<1>5. /\ posts' \in [Deliveries -> Nat]
      /\ \A e \in Deliveries : e # d => posts'[e] = posts[e]
      /\ ~clash[d] => posts'[d] = posts[d] + 1
  BY <1>0 DEF WebhookTyped, PostEvent, Unless
<1>6. WebhookTyped' /\ AttemptsHaveRows'
  BY <1>0, <1>2, <1>3, <1>4, <1>5 DEF WebhookTyped, AttemptsHaveRows
<1>7. RowsInStep'
  <2> SUFFICES ASSUME NEW e \in Deliveries, ~clash'[e] PROVE RowInStep(e)'
    BY DEF RowsInStep
  <2>1. RowInStep(e)
    BY <1>0, <1>3 DEF RowsInStep
  <2>2. CASE e # d
    <3>1. \A b \in Attempts : Holds(b, e) \/ Holds(b, e)' => attempt'[b] = attempt[b]
      BY <1>2, <2>2 DEF Holds
    <3> QED  BY <1>3, <1>4, <1>5, <2>1, <2>2, <3>1, RowStaysInStep DEF RowStays
  <2>3. CASE e = d
    <3>1. Holds(a, d) /\ \A b \in Attempts : Holds(b, d) => b = a
      BY <1>0, <2>1, <2>3 DEF RowInStep, Holds
    <3>2. ~answered[d] /\ ~delivery[d].success /\ attempt[a].number = delivery[d].attempts + 1
      BY <1>0, <2>1, <2>3, <3>1 DEF RowInStep
    <3>3. \A b \in Attempts : ~Sent(b, d)
      BY <1>0, <3>1 DEF Sent, Holds
    <3>4. posts[d] = delivery[d].attempts
      BY <2>1, <2>3, <3>3 DEF RowInStep
    <3>5. Sent(a, d)' /\ \A b \in Attempts : Holds(b, d)' => b = a
      BY <1>2, <3>1 DEF Sent, Holds
    <3>6. clash[d] = FALSE
      BY <1>0, <1>3, <2>3 DEF WebhookTyped
    <3> QED  BY <1>2, <1>3, <1>4, <1>5, <2>3, <3>2, <3>4, <3>5, <3>6 DEF RowInStep
  <2> QED  BY <2>2, <2>3
<1>8. HealthStays
  BY <1>0, <1>2, <1>3 DEF HealthStays, Counts
<1> QED  BY <1>0, <1>3, <1>6, <1>7, <1>8, HealthStaysInStep DEF WebhookInv

\* The row is written back: what the attempt read still stood.
LEMMA RecordingStep == ASSUME WebhookInv, NEW a \in Attempts, RecordAttempt(a) PROVE WebhookInv'
<1> DEFINE d == attempt[a].of
           row == [status |-> Outcome(a), attempts |-> attempt[a].number, success |-> attempt[a].ok,
                   next |-> IF WillRetry(a) THEN "later" ELSE delivery[d].next]
<1>0. /\ WebhookTyped /\ AttemptsHaveRows /\ RowsInStep /\ HealthInStep
      /\ attempt[a].at = "record" /\ d \in Deliveries /\ attempt[a] \in AttemptRows /\ delivery[d] \in Rows
  BY DEF WebhookInv, RecordAttempt, AttemptsHaveRows, WebhookTyped
<1>1. row \in Rows
  <2>1. attempt[a].number \in 0..MaxAttempts /\ attempt[a].ok \in BOOLEAN
        /\ delivery[d].next \in {"unset", "later", "due"}
    BY <1>0 DEF AttemptRows, Rows
  <2>2. Outcome(a) \in {"none", "pending", "retrying", "success", "failed"}
    BY DEF Outcome
  <2> QED  BY <2>1, <2>2 DEF Rows
<1>2. /\ delivery' \in [Deliveries -> Rows]
      /\ delivery'[d].attempts = attempt[a].number /\ delivery'[d].success = attempt[a].ok
      /\ \A e \in Deliveries : e # d => delivery'[e] = delivery[e]
  BY <1>0, <1>1, RowTyped DEF RecordAttempt
<1>3. /\ attempt' \in [Attempts -> AttemptRows]
      /\ attempt'[a].at = "health" /\ attempt'[a].of = d
      /\ attempt'[a].failures = attempt[a].failures /\ attempt'[a].health = attempt[a].health
      /\ \A b \in Attempts : b # a => attempt'[b] = attempt[b]
  BY <1>0 DEF WebhookTyped, AttemptRows, RecordAttempt
<1>4. UNCHANGED <<endpoint, timers, resends, crashes, posts, answered, clash, healthClash, failedInRow>>
  BY DEF RecordAttempt, webhookHistory
<1>5. WebhookTyped' /\ AttemptsHaveRows'
  BY <1>0, <1>2, <1>3, <1>4 DEF WebhookTyped, AttemptsHaveRows
<1>6. RowsInStep'
  <2> SUFFICES ASSUME NEW e \in Deliveries, ~clash'[e] PROVE RowInStep(e)'
    BY DEF RowsInStep
  <2>1. RowInStep(e)
    BY <1>0, <1>4 DEF RowsInStep
  <2>2. CASE e # d
    <3>1. \A b \in Attempts : Holds(b, e) \/ Holds(b, e)' => attempt'[b] = attempt[b]
      BY <1>0, <1>3, <2>2 DEF Holds
    <3> QED  BY <1>2, <1>4, <2>1, <2>2, <3>1, RowStaysInStep DEF RowStays
  <2>3. CASE e = d
    <3>1. Sent(a, e) /\ Holds(a, e) /\ \A b \in Attempts : Holds(b, e) => b = a
      BY <1>0, <2>1, <2>3 DEF RowInStep, Holds, Sent
    <3>2. \A b \in Attempts : ~Holds(b, e)' /\ ~Sent(b, e)'
      BY <1>3, <3>1 DEF Holds, Sent
    <3>3. attempt[a].number = delivery[e].attempts + 1 /\ posts[e] = delivery[e].attempts + 1
      BY <2>1, <3>1 DEF RowInStep
    <3>4. answered[e] => attempt[a].ok
      <4>1. \A b \in Attempts : Sent(b, e) => b = a
        BY <3>1 DEF Sent, Holds
      <4> QED  BY <2>1, <3>1, <4>1 DEF RowInStep
    <3> QED  BY <1>2, <1>4, <2>3, <3>2, <3>3, <3>4 DEF RowInStep
  <2> QED  BY <2>2, <2>3
<1>7. HealthStays
  BY <1>0, <1>3, <1>4 DEF HealthStays, Counts
<1> QED  BY <1>0, <1>4, <1>5, <1>6, <1>7, HealthStaysInStep DEF WebhookInv

\* The endpoint's counters are written back, and a timer is armed.
LEMMA CountingStep == ASSUME WebhookInv, NEW a \in Attempts, RecordHealth(a) PROVE WebhookInv'
<1> DEFINE d == attempt[a].of
<1>0. /\ WebhookTyped /\ AttemptsHaveRows /\ RowsInStep /\ HealthInStep
      /\ attempt[a].at = "health" /\ d \in Deliveries /\ attempt[a] \in AttemptRows /\ endpoint \in Endpoints
  BY DEF WebhookInv, RecordHealth, AttemptsHaveRows, WebhookTyped
<1>1. /\ attempt[a].failures \in 0..FailingAt /\ OneMore(attempt[a].failures) \in 0..FailingAt
      /\ OneMore(failedInRow) \in 0..FailingAt /\ 0 \in 0..FailingAt
      /\ Health(a) \in {"active", "failing", "paused"}
  BY <1>0, CounterTyped, MaxAttemptsPositive DEF AttemptRows, WebhookTyped, Health
<1>2. /\ endpoint' \in Endpoints
      /\ attempt[a].ok => endpoint'.failures = 0 /\ endpoint'.health = "active"
      /\ ~attempt[a].ok => endpoint'.failures = OneMore(attempt[a].failures) /\ endpoint'.health = Health(a)
  BY <1>0, <1>1 DEF RecordHealth, Endpoints
<1>3. /\ attempt' \in [Attempts -> AttemptRows]
      /\ attempt'[a].at = "idle"
      /\ \A b \in Attempts : b # a => attempt'[b] = attempt[b]
  BY <1>0, AttemptWritten, IdleAttemptTyped DEF RecordHealth, IdleAttempt
<1>4. UNCHANGED <<delivery, resends, crashes, posts, answered, clash, healthClash>>
  BY DEF RecordHealth
<1>5. timers' \in [Deliveries -> 0..MaxTimers]
  BY <1>0, WebhookBounds DEF RecordHealth, WebhookTyped
<1>6. failedInRow' \in 0..FailingAt
  BY <1>1 DEF RecordHealth
<1>7. WebhookTyped' /\ AttemptsHaveRows'
  BY <1>0, <1>2, <1>3, <1>4, <1>5, <1>6 DEF WebhookTyped, AttemptsHaveRows
<1>8. RowsInStep'
  <2>1. \A e \in Deliveries : RowStays(e)
    BY <1>0, <1>3, <1>4 DEF RowStays, Holds
  <2> QED  BY <1>0, <1>4, <2>1, RowStaysInStep DEF RowsInStep
<1>9. HealthInStep'
  <2> SUFFICES ASSUME ~healthClash PROVE HealthInStep'
    BY <1>4 DEF HealthInStep
  <2>1. /\ Counts(a) /\ \A b \in Attempts : Counts(b) => b = a
        /\ attempt[a].failures = endpoint.failures /\ attempt[a].health = endpoint.health
        /\ endpoint.failures = failedInRow
        /\ endpoint.health = "failing" <=> failedInRow = FailingAt
    BY <1>0 DEF HealthInStep, Counts
  <2>2. \A b \in Attempts : ~Counts(b)'
    BY <1>3, <2>1 DEF Counts
  <2>3. CASE attempt[a].ok
    <3>1. failedInRow' = 0
      BY <2>3 DEF RecordHealth
    <3> QED  BY <1>2, <2>2, <2>3, <3>1, MaxAttemptsPositive DEF HealthInStep
  <2>4. CASE ~attempt[a].ok
    <3>1. failedInRow' = OneMore(failedInRow)
      BY <2>4 DEF RecordHealth
    <3>2. Health(a) = "failing" <=> OneMore(failedInRow) = FailingAt
      BY <1>0, <2>1, MaxAttemptsPositive DEF Health, OneMore, WebhookTyped
    <3> QED  BY <1>2, <2>1, <2>2, <2>4, <3>1, <3>2 DEF HealthInStep
  <2> QED  BY <2>3, <2>4
<1> QED  BY <1>7, <1>8, <1>9 DEF WebhookInv

\* nextRetryAt passes; the endpoint is paused or made active.
LEMMA DueStep == ASSUME WebhookInv, NEW d \in Deliveries, BecomeDue(d) PROVE WebhookInv'
<1>0. WebhookTyped /\ AttemptsHaveRows
  BY DEF WebhookInv
<1>1. /\ delivery' \in [Deliveries -> Rows]
      /\ \A e \in Deliveries : delivery'[e].attempts = delivery[e].attempts /\ delivery'[e].success = delivery[e].success
  BY <1>0 DEF BecomeDue, WebhookTyped, Rows
<1>2. UNCHANGED <<endpoint, timers, attempt, resends, crashes, posts, answered, clash, healthClash, failedInRow>>
  BY DEF BecomeDue, webhookHistory
<1> QED  BY <1>0, <1>1, <1>2, QuietWebhookStep DEF WebhookTyped, AttemptsHaveRows, RowStays, HealthStays, Counts

LEMMA PatchStep == ASSUME WebhookInv, PatchEndpoint PROVE WebhookInv'
<1>0. WebhookTyped /\ AttemptsHaveRows
  BY DEF WebhookInv
<1>1. endpoint' \in Endpoints
  BY <1>0 DEF PatchEndpoint, WebhookTyped, Endpoints
<1>2. UNCHANGED <<delivery, timers, attempt, resends, crashes, posts, answered, clash>>
      /\ healthClash' = TRUE /\ failedInRow' = 0
  BY DEF PatchEndpoint
<1>3. WebhookTyped' /\ AttemptsHaveRows'
  BY <1>0, <1>1, <1>2, MaxAttemptsPositive DEF WebhookTyped, AttemptsHaveRows
<1> QED  BY <1>2, <1>3, QuietWebhookStep DEF RowStays

\* The process dies: nobody holds a row, and a POST that was not recorded is a clash.
LEMMA WebhookRestartStep == ASSUME WebhookInv, WebhookRestart PROVE WebhookInv'
<1>0. WebhookTyped /\ RowsInStep /\ HealthInStep
  BY DEF WebhookInv
<1>1. /\ clash' \in [Deliveries -> BOOLEAN]
      /\ \A d \in Deliveries : ~clash'[d] => ~clash[d] /\ \A a \in Attempts : ~Sent(a, d)
  BY <1>0 DEF WebhookRestart, WebhookTyped, Sent
<1>2. healthClash' \in BOOLEAN /\ (~healthClash' => ~healthClash)
  BY <1>0 DEF WebhookRestart, WebhookTyped
<1>3. attempt' \in [Attempts -> AttemptRows] /\ \A a \in Attempts : attempt'[a].at = "idle"
  BY <1>0, IdleAttemptTyped DEF WebhookRestart, IdleAttempt
<1>4. UNCHANGED <<delivery, endpoint, resends>> /\ KeepHistory
  BY DEF WebhookRestart, rowVars
<1>5. timers' \in [Deliveries -> 0..MaxTimers] /\ crashes' \in 0..MaxCrashes
  BY <1>0, WebhookBounds DEF WebhookRestart, WebhookTyped
<1>6. WebhookTyped' /\ AttemptsHaveRows'
  BY <1>0, <1>1, <1>2, <1>3, <1>4, <1>5, HistoryKept DEF WebhookTyped, AttemptsHaveRows
<1>7. RowsInStep'
  <2> SUFFICES ASSUME NEW d \in Deliveries, ~clash'[d] PROVE RowInStep(d)'
    BY DEF RowsInStep
  <2>1. RowInStep(d) /\ \A a \in Attempts : ~Sent(a, d)
    BY <1>0, <1>1 DEF RowsInStep
  <2>2. posts'[d] = posts[d] /\ answered'[d] = answered[d]
    BY <1>0, <1>1, <1>2, <1>4, HistoryKept
  <2>3. \A a \in Attempts : ~Holds(a, d)' /\ ~Sent(a, d)'
    BY <1>3 DEF Holds, Sent
  <2> QED  BY <1>4, <2>1, <2>2, <2>3 DEF RowInStep
<1>8. HealthInStep'
  <2> SUFFICES ASSUME ~healthClash' PROVE HealthInStep'
    BY DEF HealthInStep
  <2>1. failedInRow' = failedInRow
    BY <1>0, <1>1, <1>2, <1>4, HistoryKept
  <2> QED  BY <1>0, <1>2, <1>3, <1>4, <2>1 DEF HealthInStep, Counts
<1> QED  BY <1>6, <1>7, <1>8 DEF WebhookInv

LEMMA WebhookStepInv == WebhookInv /\ [WebhookNext]_webhookVars => WebhookInv'
<1> SUFFICES ASSUME WebhookInv, [WebhookNext]_webhookVars PROVE WebhookInv'
  OBVIOUS
<1>1. CASE UNCHANGED webhookVars
  <2> QED  BY <1>1, QuietWebhookStep
     DEF webhookVars, rowVars, webhookHistory, WebhookInv, WebhookTyped, AttemptsHaveRows, RowStays, HealthStays, Counts
<1>2. ASSUME NEW a \in Attempts, AttemptStep(a) PROVE WebhookInv'
  BY <1>2, ReadingStep, GivingUpStep, PostingStep, RecordingStep, CountingStep DEF AttemptStep
<1> QED  BY <1>1, <1>2, CallingStep, ResendStep, DueStep, PatchStep, WebhookRestartStep DEF WebhookNext

LEMMA WebhookAlwaysInv == WebhookSpec => []WebhookInv
BY WebhookInitInv, WebhookStepInv, PTL DEF WebhookSpec

\* The rows, the endpoint's counters, the timers and the attempts stay within their
\* types: no attempt is numbered above MAX_ATTEMPTS (dispatch.ts:156).
THEOREM WebhookStaysTyped == WebhookSpec => []WebhookTypeOK
<1>1. WebhookInv => WebhookTypeOK  BY WebhookParts DEF WebhookInv
<1> QED  BY WebhookAlwaysInv, <1>1, PTL

\* Unless attempts of one delivery overlapped or the process died after a POST, every
\* POST is counted in the row's attempts, which MAX_ATTEMPTS bounds (dispatch.ts:156).
THEOREM EveryPostCounted == WebhookSpec => []PostsCounted
<1>1. WebhookInv => PostsCounted
  <2> SUFFICES ASSUME WebhookInv, NEW d \in Deliveries, ~clash[d]
               PROVE  posts[d] = delivery[d].attempts
                        + Cardinality({a \in Attempts : attempt[a].of = d /\ attempt[a].at = "record"})
    BY DEF PostsCounted
  <2>1. RowInStep(d) /\ delivery[d].attempts \in Nat
    BY MaxAttemptsPositive DEF WebhookInv, RowsInStep, WebhookTyped, Rows
  <2> DEFINE unrecorded == {a \in Attempts : attempt[a].of = d /\ attempt[a].at = "record"}
  <2>2. CASE \E a \in Attempts : Sent(a, d)
    <3> PICK a \in Attempts : Sent(a, d)
      BY <2>2
    <3>1. unrecorded = {a}
      BY <2>1 DEF RowInStep, Sent, Holds
    <3> QED  BY <2>1, <2>2, <3>1, FS_Singleton DEF RowInStep
  <2>3. CASE \A a \in Attempts : ~Sent(a, d)
    <3>1. unrecorded = {}
      BY <2>3 DEF Sent
    <3>2. Cardinality(unrecorded) = 0
      BY <3>1, FS_EmptySet
    <3> QED  BY <2>1, <2>3, <3>2 DEF RowInStep
  <2> QED  BY <2>2, <2>3
<1> QED  BY WebhookAlwaysInv, <1>1, PTL

\* An endpoint is shown as failing exactly when its last FailingAt recorded attempts
\* failed, as long as no two attempts shared a reading of its counters and nobody
\* paused it (dispatch.ts:241-248).
THEOREM FailingEarned == WebhookSpec => []FailingIsEarned
<1>1. WebhookInv => FailingIsEarned
  BY DEF WebhookInv, HealthInStep, FailingIsEarned
<1> QED  BY WebhookAlwaysInv, <1>1, PTL

\* An event answered 2xx is not sent again until somebody asks for it, whatever timers
\* and scheduler rows are left; attempts that overlap are not counted (dispatch.ts:155).
THEOREM AnsweredIsNotResent == WebhookSpec => AnsweredOnce
<1>1. WebhookInv /\ [WebhookNext]_webhookVars
        => [\A d \in Deliveries : posts'[d] > posts[d] => ~answered[d]]_webhookVars
  <2> SUFFICES ASSUME WebhookInv, WebhookNext, NEW d \in Deliveries, posts'[d] > posts[d]
               PROVE  ~answered[d]
    OBVIOUS
  <2>0. posts \in [Deliveries -> Nat] /\ WebhookTyped /\ RowsInStep
    BY DEF WebhookInv, WebhookTyped
  <2>1. ASSUME NEW a \in Attempts, PostEvent(a) PROVE ~answered[d]
    <3>1. attempt[a].of = d /\ ~clash[d]
      BY <2>0, <2>1 DEF PostEvent, Unless
    <3> QED  BY <2>0, <2>1, <3>1 DEF PostEvent, RowsInStep, RowInStep, Holds
  <2>2. ASSUME KeepHistory PROVE FALSE
    BY <2>0, <2>2 DEF KeepHistory, Unless
  <2>3. ASSUME posts' = posts PROVE FALSE
    BY <2>0, <2>3
  <2>4. ASSUME NEW a \in Attempts, ReadDelivery(a) PROVE KeepHistory
    BY <2>4 DEF ReadDelivery
  <2>5. CASE WebhookRestart
    BY <2>2, <2>5 DEF WebhookRestart
  <2>6. CASE PatchEndpoint
    BY <2>3, <2>6 DEF PatchEndpoint
  <2>7. ASSUME NEW e \in Deliveries, Emit(e) \/ FireTimer(e) \/ PickRetry(e) \/ Resend(e) \/ BecomeDue(e)
        PROVE  posts' = posts
    BY <2>7 DEF Emit, FireTimer, PickRetry, Resend, BecomeDue, webhookHistory
  <2>8. ASSUME NEW a \in Attempts, GiveUp(a) \/ RecordAttempt(a) \/ RecordHealth(a)
        PROVE  posts' = posts
    BY <2>8 DEF GiveUp, RecordAttempt, RecordHealth, webhookHistory
  <2> QED  BY <2>1, <2>2, <2>3, <2>4, <2>5, <2>6, <2>7, <2>8 DEF WebhookNext, AttemptStep
<1> QED  BY WebhookAlwaysInv, <1>1, PTL DEF WebhookSpec, AnsweredOnce

-----------------------------------------------------------------------------
(***************************************************************************)
(* The WhatsApp session                                                    *)
(***************************************************************************)
\* A start between its guard and its new socket has no socket in the state record.
StartIsBare == starting = "opening" => session.sock = 0

\* Nor does it run under an open circuit.
StartUnderClosedCircuit == starting = "opening" /\ circuit => abandoned

SessionInv == SessionTypeOK /\ StartIsBare /\ SingleSocket /\ StartUnderClosedCircuit

-----------------------------------------------------------------------------
SessionStatuses == {"none", "connecting", "open", "close", "logged_out"}

SessionRecords == [status : SessionStatuses, sock : 0..MaxSockets, qrcode : BOOLEAN,
                   failures : 0..CircuitFailures]

\* What is typed besides the record.
FlagsTyped ==
    /\ starting \in {"none", "opening", "waiting"}
    /\ live \in SUBSET Sockets /\ made \in 0..MaxSockets
    /\ circuit \in BOOLEAN /\ reconnect \in BOOLEAN /\ awaited \in BOOLEAN
    /\ leaving \in BOOLEAN /\ qrPending \in BOOLEAN /\ creds \in BOOLEAN /\ booting \in BOOLEAN
    /\ abandoned \in BOOLEAN /\ joinedLate \in BOOLEAN /\ userFailed \in BOOLEAN

\* The relations between the record, the running start and the sockets.
Related == StartIsBare /\ SingleSocket /\ StartUnderClosedCircuit

\* The type invariant in its two parts, before and after a step.
LEMMA TypeParts ==
    /\ SessionTypeOK <=> session \in SessionRecords /\ FlagsTyped
    /\ SessionTypeOK' <=> session' \in SessionRecords /\ FlagsTyped'
BY DEF SessionTypeOK, FlagsTyped, SessionRecords, SessionStatuses

\* Zero is a socket number and a count of failures.
LEMMA Bounds == 0 \in 0..MaxSockets /\ 0 \in 0..CircuitFailures
BY SocketsNatural, CircuitPositive

\* The record with another status, socket and QR code is a record.
LEMMA Rewritten ==
    ASSUME session \in SessionRecords, NEW status \in SessionStatuses,
           NEW sock \in 0..MaxSockets, NEW qr \in BOOLEAN
    PROVE  /\ [session EXCEPT !.status = status, !.sock = sock, !.qrcode = qr] \in SessionRecords
           /\ [session EXCEPT !.status = status, !.sock = sock, !.qrcode = qr].sock = sock
BY DEF SessionRecords

\* A failure counted keeps the record and the circuit typed.
LEMMA FailureTyped ==
    ASSUME SessionTypeOK, NEW status \in SessionStatuses, NEW sock \in 0..MaxSockets,
           FailedWith(status, sock)
    PROVE  /\ session' \in SessionRecords /\ session'.sock = sock
           /\ circuit' \in BOOLEAN /\ reconnect' \in BOOLEAN
<1>1. AnotherFailure \in 0..CircuitFailures
  BY CircuitPositive DEF AnotherFailure, SessionTypeOK
<1> QED  BY <1>1 DEF FailedWith, SessionTypeOK, SessionRecords, SessionStatuses

\* The state before anything is started satisfies the invariant.
LEMMA SessionInitInv == SessionInit => SessionInv
<1> SUFFICES ASSUME SessionInit PROVE SessionInv
  OBVIOUS
<1>1. NoState \in SessionRecords
  BY Bounds DEF NoState, SessionRecords, SessionStatuses
<1>2. SessionTypeOK
  BY <1>1, Bounds DEF SessionInit, SessionTypeOK, SessionRecords, SessionStatuses
<1>3. Related
  BY DEF SessionInit, Related, StartIsBare, SingleSocket, StartUnderClosedCircuit
<1> QED  BY <1>2, <1>3 DEF SessionInv, Related

\* Start keeps what it writes typed, and the relations with it.
LEMMA StartKeeps ==
    ASSUME SessionInv, NEW byTimer \in BOOLEAN, Start(byTimer),
           circuit' = circuit, abandoned' = abandoned
    PROVE  /\ session' \in SessionRecords /\ starting' \in {"none", "opening", "waiting"}
           /\ live' \in SUBSET Sockets /\ awaited' \in BOOLEAN /\ joinedLate' \in BOOLEAN
           /\ Related'
<1> USE DEF SessionInv, SessionTypeOK, SessionRecords, SessionStatuses
<1>1. CASE JoinStart(byTimer)
  BY <1>1 DEF JoinStart, Related, StartIsBare, SingleSocket, StartUnderClosedCircuit
<1>2. CASE ReturnState
  BY <1>2 DEF ReturnState, Related, StartIsBare, SingleSocket, StartUnderClosedCircuit
<1>3. CASE BeginStart(byTimer)
  <2>0. session \in SessionRecords /\ "connecting" \in SessionStatuses
    OBVIOUS
  <2>1. session' \in SessionRecords /\ session'.sock = 0
    <3> HIDE DEF SessionInv, SessionTypeOK, SessionRecords, SessionStatuses
    <3> QED  BY <1>3, <2>0, Bounds, Rewritten DEF BeginStart
  <2>2. Related'
    BY <1>3, <2>1 DEF BeginStart, Related, StartIsBare, SingleSocket, StartUnderClosedCircuit
  <2> QED  BY <1>3, <2>1, <2>2 DEF BeginStart
<1> QED  BY <1>1, <1>2, <1>3 DEF Start

\* Every step keeps the type invariant.
LEMMA SessionStepTyped == SessionInv /\ [SessionNext]_sessionVars => SessionTypeOK'
<1> SUFFICES ASSUME SessionInv, [SessionNext]_sessionVars PROVE SessionTypeOK'
  OBVIOUS
<1> USE DEF sessionHistory
<1>0. SessionTypeOK /\ session \in SessionRecords /\ FlagsTyped
  BY TypeParts DEF SessionInv
<1>1. CASE UserStart
  BY <1>0, <1>1, StartKeeps DEF UserStart, Cleared, SessionTypeOK, SessionRecords, SessionStatuses
<1>2. CASE Restore
  <2>1. CASE creds
    BY <1>0, <1>2, <2>1, StartKeeps DEF Restore, Cleared, SessionTypeOK, SessionRecords, SessionStatuses
  <2>2. CASE ~creds
    BY <1>0, <1>2, <2>2 DEF Restore, SessionTypeOK
  <2> QED  BY <2>1, <2>2
<1>3. CASE FireReconnect
  BY <1>0, <1>3, StartKeeps DEF FireReconnect, SessionTypeOK, SessionRecords, SessionStatuses
<1>4. CASE MakeSocket
  BY <1>0, <1>4, SocketsNatural DEF MakeSocket, SessionTypeOK, Sockets
<1>5. CASE StartFails
  <2>1. CASE awaited
    <3>1. FailedWith(session.status, session.sock)  BY <1>5, <2>1 DEF StartFails
    <3>2. session.status \in SessionStatuses /\ session.sock \in 0..MaxSockets
      BY <1>0 DEF SessionRecords
    <3>3. session' \in SessionRecords /\ circuit' \in BOOLEAN /\ reconnect' \in BOOLEAN
      BY <1>0, <3>1, <3>2, FailureTyped
    <3> QED
      BY <1>0, <1>5, <3>3 DEF StartFails, SessionTypeOK, SessionRecords, SessionStatuses
  <2>2. CASE ~awaited
    BY <1>0, <1>5, <2>2 DEF StartFails, SessionTypeOK
  <2> QED  BY <2>1, <2>2
<1>6. CASE EndWait \/ QrArrives \/ CooldownEnds
  <2>1. session' \in SessionRecords
    BY <1>0, <1>6 DEF EndWait, QrArrives, CooldownEnds
  <2>2. FlagsTyped'
    BY <1>0, <1>6 DEF EndWait, QrArrives, CooldownEnds, FlagsTyped
  <2> QED  BY <2>1, <2>2, TypeParts
<1>7. CASE QrShown \/ Opens
  <2>1. session' \in SessionRecords
    BY <1>0, <1>7, Bounds DEF QrShown, Opens, SessionRecords, SessionStatuses
  <2>2. FlagsTyped'
    BY <1>0, <1>7 DEF QrShown, Opens, FlagsTyped
  <2> QED  BY <2>1, <2>2, TypeParts
<1>8. ASSUME NEW s \in Sockets, ClosesInvalid(s) PROVE SessionTypeOK'
  <2>1. session' \in SessionRecords
    BY <1>0, <1>8, Bounds, Rewritten DEF ClosesInvalid, SessionStatuses
  <2>2. FlagsTyped'
    BY <1>0, <1>8 DEF ClosesInvalid, FlagsTyped
  <2> QED  BY <2>1, <2>2, TypeParts
<1>9. ASSUME NEW s \in Sockets, ClosesTransient(s) PROVE SessionTypeOK'
  <2>1. session' \in SessionRecords /\ circuit' \in BOOLEAN /\ reconnect' \in BOOLEAN
    BY <1>0, <1>9, Bounds, FailureTyped DEF ClosesTransient, SessionStatuses
  <2>2. FlagsTyped'
    BY <1>0, <1>9, <2>1 DEF ClosesTransient, FlagsTyped
  <2> QED  BY <2>1, <2>2, TypeParts
<1>10. CASE Disconnect \/ LogoutEnds
  <2>1. session' \in SessionRecords
    <3>1. CASE Disconnect
      BY <1>0, <3>1, Bounds, Rewritten DEF Disconnect, SessionStatuses
    <3>2. CASE LogoutEnds
      BY <1>0, <3>2, Bounds, Rewritten DEF LogoutEnds, SessionStatuses
    <3> QED  BY <1>10, <3>1, <3>2
  <2>2. FlagsTyped'
    <3>1. CASE Disconnect
      BY <1>0, <3>1 DEF Disconnect, FlagsTyped
    <3>2. CASE LogoutEnds
      <4>1. abandoned' \in BOOLEAN
        BY <3>2 DEF LogoutEnds
      <4> QED  BY <1>0, <3>2, <4>1 DEF LogoutEnds, FlagsTyped
    <3> QED  BY <1>10, <3>1, <3>2
  <2> QED  BY <2>1, <2>2, TypeParts
<1>11. CASE AskLogout
  <2>1. session' \in SessionRecords
    BY <1>0, <1>11 DEF AskLogout
  <2>2. FlagsTyped'
    BY <1>0, <1>11 DEF AskLogout, FlagsTyped
  <2> QED  BY <2>1, <2>2, TypeParts
<1>12. CASE SessionRestart
  <2>1. session' \in SessionRecords
    BY <1>12, Bounds DEF SessionRestart, NoState, SessionRecords, SessionStatuses
  <2>2. FlagsTyped'
    BY <1>0, <1>12 DEF SessionRestart, FlagsTyped
  <2> QED  BY <2>1, <2>2, TypeParts
<1>13. CASE UNCHANGED sessionVars
  <2>1. session' \in SessionRecords /\ FlagsTyped'
    BY <1>0, <1>13 DEF sessionVars, FlagsTyped
  <2> QED  BY <2>1, TypeParts
<1> QED
  BY <1>1, <1>2, <1>3, <1>4, <1>5, <1>6, <1>7, <1>8, <1>9, <1>10, <1>11, <1>12, <1>13
     DEF SessionNext

\* Every step keeps the relations.
LEMMA SessionStepRelated == SessionInv /\ [SessionNext]_sessionVars => Related'
<1> SUFFICES ASSUME SessionInv, [SessionNext]_sessionVars PROVE Related'
  OBVIOUS
<1> USE DEF sessionHistory
<1>0. SessionTypeOK /\ session \in SessionRecords /\ Related
  BY DEF SessionInv, SessionTypeOK, SessionRecords, SessionStatuses, Related
<1> USE DEF Related, StartIsBare, SingleSocket, StartUnderClosedCircuit
<1>1. CASE UserStart
  BY <1>1, StartKeeps DEF UserStart
<1>2. CASE Restore
  BY <1>0, <1>2, StartKeeps DEF Restore
<1>3. CASE FireReconnect
  BY <1>3, StartKeeps DEF FireReconnect
<1>4. CASE MakeSocket
  <2>1. ~abandoned => live = {}
    BY <1>0, <1>4 DEF MakeSocket, SessionTypeOK, Sockets
  <2>2. session'.sock = made + 1
    BY <1>0, <1>4 DEF MakeSocket, SessionRecords
  <2> QED  BY <1>0, <1>4, <2>1, <2>2 DEF MakeSocket
<1>5. CASE StartFails
  <2>1. session'.sock = session.sock
    <3>1. CASE awaited
      <4>1. FailedWith(session.status, session.sock)  BY <1>5, <3>1 DEF StartFails
      <4>2. session.status \in SessionStatuses /\ session.sock \in 0..MaxSockets
        BY <1>0 DEF SessionRecords
      <4> QED  BY <1>0, <4>1, <4>2, FailureTyped
    <3> QED  BY <1>5, <3>1 DEF StartFails
  <2> QED  BY <1>0, <1>5, <2>1 DEF StartFails
<1>6. CASE EndWait \/ QrArrives \/ CooldownEnds \/ AskLogout
  BY <1>0, <1>6 DEF EndWait, QrArrives, CooldownEnds, AskLogout
<1>7. CASE QrShown \/ Opens
  <2>1. session'.sock = session.sock
    BY <1>0, <1>7 DEF QrShown, Opens, SessionRecords
  <2> QED  BY <1>0, <1>7, <2>1 DEF QrShown, Opens
<1>8. ASSUME NEW s \in Sockets, ClosesInvalid(s) \/ ClosesTransient(s) PROVE Related'
  <2>1. /\ ~abandoned => session.sock = s /\ live' = {}
        /\ live' = live \ {s} /\ UNCHANGED <<starting, abandoned>>
    BY <1>0, <1>8 DEF ClosesInvalid, ClosesTransient
  <2>2. session'.sock = 0
    BY <1>0, <1>8, Bounds, Rewritten, FailureTyped
       DEF ClosesInvalid, ClosesTransient, SessionStatuses
  <2>3. ~abandoned => starting # "opening"
    BY <1>0, <2>1 DEF Sockets
  <2> QED  BY <1>0, <2>1, <2>2, <2>3
<1>9. CASE Disconnect
  <2>1. session'.sock = 0
    BY <1>0, <1>9, Bounds, Rewritten DEF Disconnect, SessionStatuses
  <2> QED  BY <1>0, <1>9, <2>1 DEF Disconnect
<1>10. CASE LogoutEnds
  <2>1. session'.sock = 0
    BY <1>0, <1>10, Bounds, Rewritten DEF LogoutEnds, SessionStatuses
  <2>2. abandoned' = FALSE => live = {} /\ ~abandoned
    BY <1>0, <1>10 DEF LogoutEnds, SessionTypeOK
  <2> QED  BY <1>0, <1>10, <2>1, <2>2 DEF LogoutEnds, SessionTypeOK
<1>11. CASE SessionRestart
  BY <1>11 DEF SessionRestart, NoState
<1>12. CASE UNCHANGED sessionVars
  BY <1>0, <1>12 DEF sessionVars
<1> QED
  BY <1>1, <1>2, <1>3, <1>4, <1>5, <1>6, <1>7, <1>8, <1>9, <1>10, <1>11, <1>12
     DEF SessionNext

\* The invariant holds in every reachable state.
LEMMA SessionAlwaysInv == SessionSpec => []SessionInv
<1>1. SessionInv /\ [SessionNext]_sessionVars => SessionInv'
  BY SessionStepTyped, SessionStepRelated DEF SessionInv, Related
<1> QED  BY SessionInitInv, <1>1, PTL DEF SessionSpec

\* Whatever users, timers, the library and restarts do, the manager's record, its
\* counters and its flags stay within their types (SessionState,
\* baileys-manager.ts:30).
THEOREM SessionTyped == SessionSpec => []SessionTypeOK
<1>1. SessionInv => SessionTypeOK  BY DEF SessionInv
<1> QED  BY SessionAlwaysInv, <1>1, PTL

\* For any number of sockets, one socket of the session at most reports at a time, the
\* one in the record, unless a logout gave up on a live one (baileys-manager.ts:193).
THEOREM OneSocketReports == SessionSpec => []SingleSocket
<1>1. SessionInv => SingleSocket  BY DEF SessionInv
<1> QED  BY SessionAlwaysInv, <1>1, PTL

\* A step under an open circuit makes no socket.
LEMMA CircuitStep ==
    SessionInv /\ [SessionNext]_sessionVars
        => (circuit /\ circuit' /\ ~abandoned => made' = made)
<1> SUFFICES ASSUME SessionInv, [SessionNext]_sessionVars, circuit, ~abandoned
             PROVE  made' = made
  OBVIOUS
<1>1. starting # "opening"  BY DEF SessionInv, StartUnderClosedCircuit
<1>2. ~MakeSocket  BY <1>1 DEF MakeSocket
<1> QED
  BY <1>2
     DEF SessionNext, UserStart, Restore, FireReconnect, StartFails, EndWait, QrArrives, QrShown,
         Opens, CooldownEnds, ClosesInvalid, ClosesTransient, Disconnect, AskLogout, LogoutEnds,
         SessionRestart, sessionVars

\* For any threshold, no socket is made while the circuit is open, not even by a start
\* that was under way when it opened (baileys-manager.ts:204).
THEOREM CircuitStopsSockets == SessionSpec => CircuitHolds
<1>1. SessionInv /\ [SessionNext]_sessionVars
         => [circuit /\ circuit' /\ ~abandoned => made' = made]_sessionVars
  BY CircuitStep
<1> QED  BY SessionAlwaysInv, <1>1, PTL DEF SessionSpec, CircuitHolds

-----------------------------------------------------------------------------
(***************************************************************************)
(* The removal of companies                                                *)
(***************************************************************************)
Dates == {"none", "later", "past"}
BackTo == {"ACTIVE", "BLOCKED"}
Companies == [status : Statuses, date : Dates, prev : BackTo \union {"none"}]
Places == {"idle", "schedule", "cancel", "list", "purge", "commit"}
CallRows == [at : Places, of : Tenants \union {NoTenant}, status : Statuses,
             prev : BackTo \union {"none"}, batch : SUBSET Tenants, gone : SUBSET Users]

Purging(c) == call[c].at \in {"purge", "commit"}

\* The types, with what the statuses to go back to can be.
DeletionTyped ==
    /\ company \in [Tenants -> Companies]
    /\ member \subseteq Users \X Tenants /\ user \subseteq Users /\ deleting \subseteq Tenants
    /\ call \in [Calls -> CallRows]
    /\ failures \in 0..MaxFailures
    /\ touched \in [Calls -> BOOLEAN]

\* A call at work has a company; a request is not at the job's place.
AtWork ==
    /\ \A c \in Calls : call[c].at \notin {"idle", "list"} => call[c].of \in Tenants
    /\ \A c \in Calls : call[c].at = "schedule" => call[c].status # "deleted"

InFlight == \A c \in Calls : Purging(c) => call[c].of \in deleting

PassDue(p) ==
    /\ \A t \in call[p].batch : Due(t)
    /\ Purging(p) => Due(call[p].of) /\ call[p].of \notin call[p].batch

BatchDue == \A p \in JobPasses : ~touched[p] /\ call[p].at # "idle" => PassDue(p)

GoneHaveNoOther == \A c \in Calls : call[c].at = "commit" =>
    \A u \in call[c].gone :
        u \notin SuperAdmins /\ \A s \in Tenants \ {call[c].of} : <<u, s>> \notin member

DeletionInv ==
    /\ DeletionTyped /\ AtWork /\ PendingHasDate /\ InFlight /\ OnePurge
    /\ BatchDue /\ GoneHaveNoOther

-----------------------------------------------------------------------------
\* A row of a call with other fields is a row, and the other calls keep theirs.
LEMMA CallWritten ==
    ASSUME DeletionTyped, NEW c \in Calls, NEW row \in CallRows,
           call' = [call EXCEPT ![c] = row]
    PROVE  /\ call' \in [Calls -> CallRows] /\ call'[c] = row
           /\ \A d \in Calls \ {c} : call'[d] = call[d]
BY DEF DeletionTyped

LEMMA IdleTyped == IdleCall \in CallRows
BY DEF IdleCall, CallRows, Places, Statuses, BackTo

LEMMA DeletionInitInv == DeletionInit => DeletionInv
<1> SUFFICES ASSUME DeletionInit PROVE DeletionInv
  OBVIOUS
<1>1. DeletionTyped
  <2>1. [status |-> "ACTIVE", date |-> "none", prev |-> "none"] \in Companies
    BY DEF Companies, Statuses, Dates
  <2>2. company \in [Tenants -> Companies] /\ call \in [Calls -> CallRows]
    BY <2>1, IdleTyped DEF DeletionInit
  <2>3. touched \in [Calls -> BOOLEAN]  BY DEF DeletionInit
  <2>4. failures \in 0..MaxFailures  BY MaxFailuresNatural DEF DeletionInit
  <2> QED  BY <2>2, <2>3, <2>4 DEF DeletionInit, DeletionTyped
<1>2. \A c \in Calls : call[c].at = "idle"
  BY DEF DeletionInit, IdleCall
<1>3. PendingHasDate
  BY DEF DeletionInit, PendingHasDate
<1> QED
  BY <1>1, <1>2, <1>3
     DEF DeletionInv, AtWork, InFlight, OnePurge, BatchDue, GoneHaveNoOther, Purging, Calls

-----------------------------------------------------------------------------
\* The rows the actions write are rows of a call.
LEMMA RowsTyped ==
    ASSUME DeletionTyped
    PROVE  /\ \A t \in Tenants : Exists(t) =>
                 /\ [IdleCall EXCEPT !.at = "schedule", !.of = t, !.status = company[t].status,
                                     !.prev = company[t].prev] \in CallRows
                 /\ [IdleCall EXCEPT !.at = "cancel", !.of = t, !.prev = company[t].prev] \in CallRows
           /\ \A t \in Tenants : [IdleCall EXCEPT !.at = "purge", !.of = t] \in CallRows
           /\ \A S \in SUBSET Tenants : [IdleCall EXCEPT !.at = "list", !.batch = S] \in CallRows
           /\ \A c \in Calls : After(c) \in CallRows
BY DEF DeletionTyped, CallRows, Places, Companies, Statuses, BackTo, Dates, IdleCall, After

\* What ends a request or begins or ends a pass leaves the call idle or at its list.
LEMMA WrittenRow ==
    ASSUME NEW c \in Calls,
           ScheduleWrite(c) \/ CancelWrite(c) \/ StartPurges(c) \/ EndPurges(c)
    PROVE  \E row \in CallRows :
               call' = [call EXCEPT ![c] = row] /\ row.at \in {"idle", "list"}
<1>1. IdleCall.at = "idle"  BY DEF IdleCall
<1>2. CASE ScheduleWrite(c) \/ CancelWrite(c) \/ EndPurges(c)
  BY <1>1, <1>2, IdleTyped DEF ScheduleWrite, CancelWrite, EndPurges
<1>3. CASE StartPurges(c)
  <2> DEFINE row == [IdleCall EXCEPT !.at = "list", !.batch = {t \in Tenants : Due(t)}]
  <2>1. row \in CallRows /\ row.at = "list"
    BY DEF IdleCall, CallRows, Places, Statuses
  <2>2. call' = [call EXCEPT ![c] = row]  BY <1>3 DEF StartPurges
  <2> QED  BY <2>1, <2>2
<1> QED  BY <1>2, <1>3

LEMMA StepTyped == DeletionInv /\ [DeletionNext]_deletionVars => DeletionTyped'
<1> SUFFICES ASSUME DeletionInv, [DeletionNext]_deletionVars PROVE DeletionTyped'
  OBVIOUS
<1>0. DeletionTyped /\ AtWork  BY DEF DeletionInv
<1>a. Requests \subseteq Calls /\ JobPasses \subseteq Calls  BY DEF Calls
<1>b. ASSUME NEW c \in Calls, NEW t \in Tenants, Touch(c, t) PROVE touched' \in [Calls -> BOOLEAN]
  BY <1>b DEF Touch
<1>1. ASSUME NEW r \in Requests, NEW t \in Tenants,
             ScheduleRead(r, t) \/ CancelRead(r, t) \/ DeleteNow(r, t)
      PROVE  DeletionTyped'
  <2>1. call' \in [Calls -> CallRows]
    BY <1>0, <1>a, <1>1, RowsTyped, CallWritten DEF ScheduleRead, CancelRead, DeleteNow
  <2> QED
    BY <1>0, <1>1, <2>1 DEF ScheduleRead, CancelRead, DeleteNow, DeletionTyped
<1>2. ASSUME NEW r \in Requests, ScheduleWrite(r) PROVE DeletionTyped'
  <2>1. call' \in [Calls -> CallRows]
    BY <1>0, <1>a, <1>2, IdleTyped, CallWritten DEF ScheduleWrite
  <2>2. call[r].of \in Tenants /\ call[r].status # "deleted" /\ call[r] \in CallRows
    BY <1>0, <1>a, <1>2 DEF ScheduleWrite, AtWork, DeletionTyped
  <2>3. PreviousStatus(call[r]) \in BackTo
    BY <2>2 DEF PreviousStatus, CallRows, BackTo, Statuses
  <2>4. [status |-> "PENDING_DELETION", date |-> "later", prev |-> PreviousStatus(call[r])]
            \in Companies
    BY <2>3 DEF Companies, Statuses, Dates
  <2>5. company' \in [Tenants -> Companies] /\ touched' \in [Calls -> BOOLEAN]
    BY <1>0, <1>a, <1>b, <1>2, <2>2, <2>4 DEF ScheduleWrite, DeletionTyped
  <2> QED  BY <1>0, <1>2, <2>1, <2>5 DEF ScheduleWrite, DeletionTyped
<1>3. ASSUME NEW r \in Requests, CancelWrite(r) PROVE DeletionTyped'
  <2>1. call' \in [Calls -> CallRows]
    BY <1>0, <1>a, <1>3, IdleTyped, CallWritten DEF CancelWrite
  <2>2. call[r].of \in Tenants /\ call[r].prev \in BackTo \union {"none"}
    BY <1>0, <1>a, <1>3 DEF CancelWrite, AtWork, DeletionTyped, CallRows
  <2>3. [status |-> IF call[r].prev = "none" THEN "ACTIVE" ELSE call[r].prev,
         date |-> "none", prev |-> "none"] \in Companies
    BY <2>2 DEF Companies, Statuses, Dates, BackTo
  <2>4. company' \in [Tenants -> Companies] /\ touched' \in [Calls -> BOOLEAN]
    BY <1>0, <1>a, <1>b, <1>3, <2>2, <2>3 DEF CancelWrite, DeletionTyped
  <2> QED  BY <1>0, <1>3, <2>1, <2>4 DEF CancelWrite, DeletionTyped
<1>4. ASSUME NEW t \in Tenants, SetStatus(t) \/ DatePasses(t) PROVE DeletionTyped'
  <2>1. company' \in [Tenants -> Companies]
    BY <1>0, <1>4 DEF SetStatus, DatePasses, DeletionTyped, Companies, Statuses, Dates
  <2>2. touched' \in [Calls -> BOOLEAN]
    BY <1>0, <1>4 DEF SetStatus, DatePasses, DeletionTyped
  <2> QED  BY <1>0, <1>4, <2>1, <2>2 DEF SetStatus, DatePasses, DeletionTyped
<1>5. ASSUME NEW p \in JobPasses, StartPurges(p) \/ EndPurges(p) PROVE DeletionTyped'
  <2>1. call' \in [Calls -> CallRows]
    <3>1. {t \in Tenants : Due(t)} \in SUBSET Tenants  OBVIOUS
    <3> QED
      BY <1>0, <1>a, <1>5, <3>1, RowsTyped, IdleTyped, CallWritten DEF StartPurges, EndPurges
  <2> QED  BY <1>0, <1>5, <2>1 DEF StartPurges, EndPurges, DeletionTyped
<1>6. ASSUME NEW p \in JobPasses, NextPurge(p) PROVE DeletionTyped'
  <2>1. PICK t \in call[p].batch :
          IF t \in deleting
          THEN call' = [call EXCEPT ![p].batch = @ \ {t}] /\ UNCHANGED deleting
          ELSE /\ call' = [call EXCEPT ![p].batch = @ \ {t}, ![p].of = t, ![p].at = "purge"]
               /\ deleting' = deleting \union {t}
    BY <1>6 DEF NextPurge
  <2>2. t \in Tenants  BY <1>0, <1>a, <2>1 DEF DeletionTyped, CallRows
  <2>3. call' \in [Calls -> CallRows]
    BY <1>0, <1>a, <2>1, <2>2 DEF DeletionTyped, CallRows, Places
  <2> QED  BY <1>0, <1>6, <2>1, <2>2, <2>3 DEF NextPurge, DeletionTyped
<1>7. ASSUME NEW c \in Calls, PurgeStep(c) PROVE DeletionTyped'
  <2>0. call[c].of \in Tenants
    BY <1>0, <1>7 DEF PurgeStep, PurgeRead, PurgeCommit, PurgeFails, AtWork
  <2>1. CASE PurgeRead(c)
    <3>1. Exclusive(call[c].of) \in SUBSET Users
      BY <1>0 DEF Exclusive, DeletionTyped
    <3>2. call' \in [Calls -> CallRows]
      <4>1. CASE Exists(call[c].of)
        BY <1>0, <2>1, <3>1, <4>1 DEF PurgeRead, DeletionTyped, CallRows, Places
      <4>2. CASE ~Exists(call[c].of)
        BY <1>0, <2>1, <4>2, RowsTyped, CallWritten DEF PurgeRead
      <4> QED  BY <4>1, <4>2
    <3> QED  BY <1>0, <2>1, <3>2 DEF PurgeRead, DeletionTyped
  <2>2. CASE PurgeCommit(c)
    <3>1. call' \in [Calls -> CallRows]
      BY <1>0, <2>2, RowsTyped, CallWritten DEF PurgeCommit
    <3>2. [status |-> "deleted", date |-> "none", prev |-> "none"] \in Companies
      BY DEF Companies, Statuses, Dates
    <3>3. company' \in [Tenants -> Companies] /\ touched' \in [Calls -> BOOLEAN]
      BY <1>0, <1>b, <2>0, <2>2, <3>2 DEF PurgeCommit, DeletionTyped
    <3>4. member' \subseteq Users \X Tenants /\ user' \subseteq Users /\ deleting' \subseteq Tenants
      BY <1>0, <2>2 DEF PurgeCommit, DeletionTyped
    <3> QED  BY <1>0, <2>2, <3>1, <3>3, <3>4 DEF PurgeCommit, DeletionTyped
  <2>3. CASE PurgeFails(c)
    <3>1. call' \in [Calls -> CallRows]
      BY <1>0, <2>3, RowsTyped, CallWritten DEF PurgeFails
    <3> QED  BY <1>0, <2>3, <3>1, MaxFailuresNatural DEF PurgeFails, DeletionTyped
  <2> QED  BY <1>7, <2>1, <2>2, <2>3 DEF PurgeStep
<1>8. CASE UNCHANGED deletionVars
  BY <1>0, <1>8 DEF deletionVars, DeletionTyped
<1> QED
  BY <1>a, <1>1, <1>2, <1>3, <1>4, <1>5, <1>6, <1>7, <1>8 DEF DeletionNext, JobStep
-----------------------------------------------------------------------------
\* What a step of one call may do to inflight: leave it, as long as the call does not
\* begin a purge; take the company whose purge begins; give back the one whose purge
\* ends.
LEMMA CallsApart ==
    ASSUME DeletionInv, NEW c \in Calls,
           \A d \in Calls \ {c} : call'[d] = call[d],
           call'[c].at \notin {"idle", "list"} => call'[c].of \in Tenants,
           call'[c].at = "schedule" => call'[c].status # "deleted",
           \/ /\ deleting' = deleting
              /\ call'[c].at \in {"purge", "commit"} => Purging(c) /\ call'[c].of = call[c].of
           \/ /\ call'[c].of \notin deleting /\ deleting' = deleting \union {call'[c].of}
           \/ /\ Purging(c) /\ deleting' = deleting \ {call[c].of}
              /\ call'[c].at \notin {"purge", "commit"}
    PROVE  AtWork' /\ InFlight' /\ OnePurge'
<1>1. AtWork'
  BY DEF DeletionInv, AtWork
<1>2. InFlight'
  BY DEF DeletionInv, InFlight, Purging, OnePurge
<1>3. OnePurge'
  BY DEF DeletionInv, InFlight, Purging, OnePurge
<1> QED  BY <1>1, <1>2, <1>3

\* One purge of a company at a time.
LEMMA StepApart ==
    DeletionInv /\ [DeletionNext]_deletionVars => AtWork' /\ InFlight' /\ OnePurge'
<1> SUFFICES ASSUME DeletionInv, [DeletionNext]_deletionVars
             PROVE  AtWork' /\ InFlight' /\ OnePurge'
  OBVIOUS
<1>0. DeletionTyped /\ AtWork  BY DEF DeletionInv
<1>a. Requests \subseteq Calls /\ JobPasses \subseteq Calls  BY DEF Calls
<1>1. ASSUME NEW r \in Requests, NEW t \in Tenants,
             ScheduleRead(r, t) \/ CancelRead(r, t) \/ DeleteNow(r, t)
      PROVE  AtWork' /\ InFlight' /\ OnePurge'
  <2>1. CASE ScheduleRead(r, t)
    <3>1. /\ call'[r].at = "schedule" /\ call'[r].of = t /\ call'[r].status # "deleted"
          /\ \A d \in Calls \ {r} : call'[d] = call[d]
      BY <1>0, <1>a, <2>1, RowsTyped DEF ScheduleRead, Exists, IdleCall, DeletionTyped
    <3> QED  BY <1>a, <2>1, <3>1, CallsApart DEF ScheduleRead
  <2>2. CASE CancelRead(r, t)
    <3>1. /\ call'[r].at = "cancel" /\ call'[r].of = t
          /\ \A d \in Calls \ {r} : call'[d] = call[d]
      BY <1>0, <1>a, <2>2, RowsTyped DEF CancelRead, IdleCall, DeletionTyped
    <3> QED  BY <1>a, <2>2, <3>1, CallsApart DEF CancelRead
  <2>3. CASE DeleteNow(r, t)
    <3>1. /\ call'[r].at = "purge" /\ call'[r].of = t
          /\ \A d \in Calls \ {r} : call'[d] = call[d]
      BY <1>0, <1>a, <2>3, RowsTyped DEF DeleteNow, IdleCall, DeletionTyped
    <3> QED  BY <1>a, <2>3, <3>1, CallsApart DEF DeleteNow
  <2> QED  BY <1>1, <2>1, <2>2, <2>3
<1>2. ASSUME NEW c \in Calls,
             ScheduleWrite(c) \/ CancelWrite(c) \/ StartPurges(c) \/ EndPurges(c)
      PROVE  AtWork' /\ InFlight' /\ OnePurge'
  <2>1. PICK row \in CallRows :
            call' = [call EXCEPT ![c] = row] /\ row.at \in {"idle", "list"}
    BY <1>2, WrittenRow
  <2>2. deleting' = deleting
    BY <1>2 DEF ScheduleWrite, CancelWrite, StartPurges, EndPurges
  <2>3. /\ call'[c].at \in {"idle", "list"}
        /\ \A d \in Calls \ {c} : call'[d] = call[d]
    BY <1>0, <2>1 DEF DeletionTyped
  <2> QED  BY <2>2, <2>3, CallsApart
<1>3. ASSUME NEW p \in JobPasses, NextPurge(p) PROVE AtWork' /\ InFlight' /\ OnePurge'
  <2>1. PICK t \in call[p].batch :
          IF t \in deleting
          THEN call' = [call EXCEPT ![p].batch = @ \ {t}] /\ UNCHANGED deleting
          ELSE /\ call' = [call EXCEPT ![p].batch = @ \ {t}, ![p].of = t, ![p].at = "purge"]
               /\ deleting' = deleting \union {t}
    BY <1>3 DEF NextPurge
  <2>2. t \in Tenants /\ call[p].at = "list"
    BY <1>0, <1>a, <1>3, <2>1 DEF NextPurge, DeletionTyped, CallRows
  <2>3. CASE t \in deleting
    <3>1. /\ call'[p].at = "list" /\ deleting' = deleting
          /\ \A d \in Calls \ {p} : call'[d] = call[d]
      BY <1>0, <1>a, <2>1, <2>2, <2>3 DEF DeletionTyped, CallRows
    <3> QED  BY <1>a, <3>1, CallsApart
  <2>4. CASE t \notin deleting
    <3>1. /\ call'[p].at = "purge" /\ call'[p].of = t /\ deleting' = deleting \union {t}
          /\ \A d \in Calls \ {p} : call'[d] = call[d]
      BY <1>0, <1>a, <2>1, <2>4 DEF DeletionTyped, CallRows
    <3> QED  BY <1>a, <2>2, <2>4, <3>1, CallsApart
  <2> QED  BY <2>3, <2>4
<1>4. ASSUME NEW c \in Calls, PurgeStep(c) PROVE AtWork' /\ InFlight' /\ OnePurge'
  <2>0. Purging(c) /\ call[c].of \in Tenants
    BY <1>0, <1>4 DEF PurgeStep, PurgeRead, PurgeCommit, PurgeFails, AtWork, Purging
  <2>1. CASE PurgeRead(c) /\ Exists(call[c].of)
    <3>1. /\ call'[c].at = "commit" /\ call'[c].of = call[c].of /\ deleting' = deleting
          /\ \A d \in Calls \ {c} : call'[d] = call[d]
      BY <1>0, <2>1 DEF PurgeRead, DeletionTyped, CallRows
    <3> QED  BY <2>0, <3>1, CallsApart
  <2>2. CASE PurgeCommit(c) \/ PurgeFails(c) \/ (PurgeRead(c) /\ ~Exists(call[c].of))
    <3>1. call' = [call EXCEPT ![c] = After(c)] /\ deleting' = deleting \ {call[c].of}
      BY <2>2 DEF PurgeRead, PurgeCommit, PurgeFails
    <3>2. After(c).at \in {"idle", "list"}
      BY DEF After, IdleCall
    <3>3. call'[c] = After(c) /\ \A d \in Calls \ {c} : call'[d] = call[d]
      BY <1>0, <3>1 DEF DeletionTyped
    <3> QED  BY <2>0, <3>1, <3>2, <3>3, CallsApart
  <2> QED  BY <1>4, <2>1, <2>2 DEF PurgeStep
<1>5. CASE UNCHANGED <<call, deleting>>
  BY <1>5 DEF DeletionInv, AtWork, InFlight, Purging, OnePurge
<1>6. ASSUME NEW t \in Tenants, SetStatus(t) \/ DatePasses(t) PROVE UNCHANGED <<call, deleting>>
  BY <1>6 DEF SetStatus, DatePasses
<1> QED
  BY <1>a, <1>1, <1>2, <1>3, <1>4, <1>5, <1>6 DEF DeletionNext, JobStep, deletionVars

-----------------------------------------------------------------------------
\* A status that is restored is never PENDING_DELETION, so what is pending has a date.
LEMMA StepPending == DeletionInv /\ [DeletionNext]_deletionVars => PendingHasDate'
<1> SUFFICES ASSUME DeletionInv, [DeletionNext]_deletionVars PROVE PendingHasDate'
  OBVIOUS
<1>0. DeletionTyped /\ AtWork /\ PendingHasDate  BY DEF DeletionInv
<1>a. Requests \subseteq Calls /\ JobPasses \subseteq Calls  BY DEF Calls
<1>1. ASSUME NEW r \in Requests, ScheduleWrite(r) PROVE PendingHasDate'
  <2>1. call[r].of \in Tenants /\ PreviousStatus(call[r]) # "none"
    BY <1>0, <1>a, <1>1 DEF ScheduleWrite, AtWork, DeletionTyped, CallRows, PreviousStatus, Statuses
  <2> QED  BY <1>0, <1>1, <2>1 DEF ScheduleWrite, PendingHasDate, DeletionTyped
<1>2. ASSUME NEW r \in Requests, CancelWrite(r) PROVE PendingHasDate'
  <2>1. call[r].of \in Tenants /\ call[r].prev # "PENDING_DELETION"
    BY <1>0, <1>a, <1>2 DEF CancelWrite, AtWork, DeletionTyped, CallRows, BackTo
  <2> QED  BY <1>0, <1>2, <2>1 DEF CancelWrite, PendingHasDate, DeletionTyped
<1>3. ASSUME NEW t \in Tenants, SetStatus(t) \/ DatePasses(t) PROVE PendingHasDate'
  BY <1>0, <1>3 DEF SetStatus, DatePasses, PendingHasDate, DeletionTyped, Companies
<1>4. ASSUME NEW c \in Calls, PurgeCommit(c) PROVE PendingHasDate'
  BY <1>0, <1>4 DEF PurgeCommit, PendingHasDate, DeletionTyped
<1>5. CASE UNCHANGED company
  BY <1>0, <1>5 DEF PendingHasDate
<1> QED
  BY <1>a, <1>1, <1>2, <1>3, <1>4, <1>5
     DEF DeletionNext, JobStep, PurgeStep, ScheduleRead, CancelRead, DeleteNow, StartPurges,
         NextPurge, EndPurges, PurgeRead, PurgeFails, deletionVars

\* The users a purge has found to be of no other company stay so: no call adds a member.
LEMMA StepGone == DeletionInv /\ [DeletionNext]_deletionVars => GoneHaveNoOther'
<1> SUFFICES ASSUME DeletionInv, [DeletionNext]_deletionVars,
                    NEW c \in Calls, call'[c].at = "commit",
                    NEW u \in call'[c].gone
             PROVE  u \notin SuperAdmins /\ \A s \in Tenants \ {call'[c].of} : <<u, s>> \notin member'
  BY DEF GoneHaveNoOther
<1>0. DeletionTyped /\ AtWork /\ GoneHaveNoOther  BY DEF DeletionInv
<1>a. Requests \subseteq Calls /\ JobPasses \subseteq Calls  BY DEF Calls
<1>1. member' \subseteq member
  BY DEF DeletionNext, JobStep, PurgeStep, ScheduleRead, CancelRead, DeleteNow, ScheduleWrite,
         CancelWrite, SetStatus, DatePasses, StartPurges, NextPurge, EndPurges, PurgeRead,
         PurgeCommit, PurgeFails, deletionVars
<1>2. CASE call'[c] = call[c]
  BY <1>0, <1>1, <1>2 DEF GoneHaveNoOther
<1>3. CASE PurgeRead(c)
  <2>1. Exists(call[c].of) /\ call'[c].gone = Exclusive(call[c].of) /\ call'[c].of = call[c].of
    <3>1. CASE Exists(call[c].of)
      BY <1>0, <1>3, <3>1 DEF PurgeRead, DeletionTyped, CallRows
    <3>2. CASE ~Exists(call[c].of)
      <4>1. call'[c] = After(c)
        BY <1>0, <1>3, <3>2 DEF PurgeRead, DeletionTyped
      <4> QED  BY <4>1 DEF After, IdleCall
    <3> QED  BY <3>1, <3>2
  <2> QED  BY <1>1, <2>1 DEF Exclusive
<1>4. call'[c] = call[c] \/ PurgeRead(c)
  <2>1. ASSUME NEW r \in Requests, NEW t \in Tenants,
               ScheduleRead(r, t) \/ CancelRead(r, t) \/ DeleteNow(r, t)
        PROVE  call'[c] = call[c]
    BY <1>0, <1>a, <2>1, RowsTyped
       DEF ScheduleRead, CancelRead, DeleteNow, IdleCall, DeletionTyped
  <2>2. ASSUME NEW d \in Calls, ScheduleWrite(d) \/ CancelWrite(d) \/ StartPurges(d) \/ EndPurges(d)
        PROVE  call'[c] = call[c]
    <3>1. PICK row \in CallRows :
              call' = [call EXCEPT ![d] = row] /\ row.at \in {"idle", "list"}
      BY <2>2, WrittenRow
    <3> QED  BY <1>0, <3>1 DEF DeletionTyped
  <2>3. ASSUME NEW p \in JobPasses, NextPurge(p) PROVE call'[c] = call[c]
    BY <1>0, <1>a, <2>3 DEF NextPurge, DeletionTyped, CallRows
  <2>4. ASSUME NEW d \in Calls, PurgeCommit(d) \/ PurgeFails(d) PROVE call'[c] = call[c]
    <3>1. call' = [call EXCEPT ![d] = After(d)]  BY <2>4 DEF PurgeCommit, PurgeFails
    <3>2. After(d).at # "commit"  BY DEF After, IdleCall
    <3> QED  BY <1>0, <3>1, <3>2 DEF DeletionTyped
  <2>5. ASSUME NEW d \in Calls, PurgeRead(d) PROVE call'[c] = call[c] \/ PurgeRead(c)
    BY <1>0, <2>5 DEF PurgeRead, DeletionTyped
  <2>6. CASE UNCHANGED call
    BY <2>6
  <2> QED
    BY <1>a, <2>1, <2>2, <2>3, <2>4, <2>5, <2>6
       DEF DeletionNext, JobStep, PurgeStep, SetStatus, DatePasses, deletionVars
<1> QED  BY <1>2, <1>3, <1>4

-----------------------------------------------------------------------------
\* What a pass has read and nobody wrote since is still due: a write marks every call
\* that has read the row, and the days only make a company due.
LEMMA StepBatch == DeletionInv /\ [DeletionNext]_deletionVars => BatchDue'
<1> SUFFICES ASSUME DeletionInv, [DeletionNext]_deletionVars,
                    NEW p \in JobPasses, ~touched'[p], call'[p].at # "idle"
             PROVE  PassDue(p)'
  BY DEF BatchDue
<1>0. DeletionTyped /\ AtWork /\ BatchDue  BY DEF DeletionInv
<1>a. Requests \subseteq Calls /\ JobPasses \subseteq Calls  BY DEF Calls
<1> DEFINE Kept == call'[p] = call[p] /\ ~touched[p]
<1>b. ASSUME Kept, UNCHANGED company
      PROVE  PassDue(p)'
  BY <1>0, <1>b DEF BatchDue, PassDue, Due, Purging
<1>c. ASSUME Kept, NEW t \in Tenants, company' = [company EXCEPT ![t] = company'[t]],
             t \notin call[p].batch, Purging(p) => call[p].of # t
      PROVE  PassDue(p)'
  <2>1. call[p].batch \subseteq Tenants  BY <1>0, <1>a DEF DeletionTyped, CallRows
  <2>2. Purging(p) => call[p].of \in Tenants  BY <1>0, <1>a DEF AtWork, Purging
  <2>3. \A s \in Tenants \ {t} : company'[s] = company[s]
    BY <1>0, <1>c DEF DeletionTyped
  <2> QED  BY <1>0, <1>c, <2>1, <2>2, <2>3 DEF BatchDue, PassDue, Due, Purging
<1>1. ASSUME NEW r \in Requests, NEW t \in Tenants,
             ScheduleRead(r, t) \/ CancelRead(r, t) \/ DeleteNow(r, t)
      PROVE  Kept /\ UNCHANGED company
  <2>1. r # p  BY RequestsArePassesNot
  <2> QED
    BY <1>0, <1>a, <1>1, <2>1 DEF ScheduleRead, CancelRead, DeleteNow, DeletionTyped
<1>2. ASSUME NEW c \in Calls, c # p, NEW t \in Tenants, Touch(c, t), call'[p] = call[p]
      PROVE  /\ Kept /\ t \notin call[p].batch /\ call[p].of # t
  BY <1>a, <1>2 DEF Touch
<1>3. ASSUME NEW r \in Requests, ScheduleWrite(r) \/ CancelWrite(r)
      PROVE  PassDue(p)'
  <2>1. r # p /\ r \in Calls  BY <1>a, RequestsArePassesNot
  <2>2. call[r].of \in Tenants /\ call'[p] = call[p]
    BY <1>0, <1>a, <1>3, <2>1 DEF ScheduleWrite, CancelWrite, AtWork, DeletionTyped
  <2>3. CASE UNCHANGED <<company, touched>>
    BY <1>b, <2>2, <2>3
  <2>4. CASE ~UNCHANGED <<company, touched>>
    <3>1. Touch(r, call[r].of)
      BY <1>3, <2>4 DEF ScheduleWrite, CancelWrite
    <3>2. company' = [company EXCEPT ![call[r].of] = company'[call[r].of]]
      BY <1>0, <1>3, <2>2, <2>4 DEF ScheduleWrite, CancelWrite, DeletionTyped
    <3> QED  BY <1>2, <1>c, <2>1, <2>2, <3>1, <3>2
  <2> QED  BY <2>3, <2>4
<1>4. ASSUME NEW t \in Tenants, SetStatus(t)
      PROVE  PassDue(p)'
  <2>1. Kept /\ t \notin call[p].batch /\ call[p].of # t
    BY <1>0, <1>a, <1>4 DEF SetStatus, DeletionTyped
  <2>2. company' = [company EXCEPT ![t] = company'[t]]
    BY <1>0, <1>4 DEF SetStatus, DeletionTyped
  <2> QED  BY <1>c, <2>1, <2>2
<1>5. ASSUME NEW t \in Tenants, DatePasses(t)
      PROVE  PassDue(p)'
  <2>1. Kept /\ ~Due(t)
    BY <1>5 DEF DatePasses, Due
  <2>2. company' = [company EXCEPT ![t] = company'[t]]
    BY <1>0, <1>5 DEF DatePasses, DeletionTyped, Companies
  <2>3. t \notin call[p].batch /\ (Purging(p) => call[p].of # t)
    BY <1>0, <2>1, <1>5 DEF DatePasses, BatchDue, PassDue, Purging
  <2> QED  BY <1>c, <2>1, <2>2, <2>3
<1>6. ASSUME NEW q \in JobPasses, StartPurges(q) \/ EndPurges(q)
      PROVE  PassDue(p)'
  <2>0. UNCHANGED company  BY <1>6 DEF StartPurges, EndPurges
  <2>1. CASE q # p
    BY <1>0, <1>a, <1>6, <1>b, <2>1, <2>0 DEF StartPurges, EndPurges, DeletionTyped
  <2>2. CASE q = p /\ StartPurges(q)
    <3>1. call'[p].at = "list" /\ call'[p].batch = {t \in Tenants : Due(t)}
      BY <1>0, <1>a, <2>2 DEF StartPurges, DeletionTyped, IdleCall
    <3> QED  BY <2>0, <3>1 DEF PassDue, Due, Purging
  <2>3. CASE q = p /\ EndPurges(q)
    BY <1>0, <1>a, <2>3 DEF EndPurges, DeletionTyped, IdleCall
  <2> QED  BY <1>6, <2>1, <2>2, <2>3
<1>7. ASSUME NEW q \in JobPasses, NextPurge(q)
      PROVE  PassDue(p)'
  <2>0. UNCHANGED <<company, touched>>  BY <1>7 DEF NextPurge
  <2>1. CASE q # p
    BY <1>0, <1>a, <1>7, <1>b, <2>0, <2>1 DEF NextPurge, DeletionTyped, CallRows
  <2>2. CASE q = p
    <3>1. PICK t \in call[p].batch :
            IF t \in deleting
            THEN call' = [call EXCEPT ![p].batch = @ \ {t}] /\ UNCHANGED deleting
            ELSE /\ call' = [call EXCEPT ![p].batch = @ \ {t}, ![p].of = t, ![p].at = "purge"]
                 /\ deleting' = deleting \union {t}
      BY <1>7, <2>2 DEF NextPurge
    <3>2. /\ call'[p].batch = call[p].batch \ {t}
          /\ call'[p].at = "list" \/ call'[p].of = t
      BY <1>0, <1>a, <1>7, <2>2, <3>1 DEF NextPurge, DeletionTyped, CallRows
    <3>3. \A s \in call[p].batch : Due(s)
      BY <1>0, <1>7, <2>0, <2>2 DEF NextPurge, BatchDue, PassDue
    <3> QED  BY <2>0, <3>1, <3>2, <3>3 DEF PassDue, Due, Purging
  <2> QED  BY <2>1, <2>2
<1>8. ASSUME NEW c \in Calls, PurgeRead(c) \/ PurgeFails(c)
      PROVE  PassDue(p)'
  <2>0. UNCHANGED <<company, touched>>  BY <1>8 DEF PurgeRead, PurgeFails
  <2>1. CASE c # p
    BY <1>0, <1>a, <1>8, <1>b, <2>0, <2>1 DEF PurgeRead, PurgeFails, DeletionTyped, CallRows
  <2>2. CASE c = p
    <3>1. /\ call'[p].batch = call[p].batch
          /\ call'[p].at \in {"list", "idle"} \/ call'[p].of = call[p].of
      <4>1. CASE call' = [call EXCEPT ![p] = After(p)]
        BY <1>0, <1>a, <4>1 DEF After, IdleCall, DeletionTyped
      <4>2. CASE call' # [call EXCEPT ![p] = After(p)]
        BY <1>0, <1>a, <1>8, <2>2, <4>2 DEF PurgeRead, PurgeFails, DeletionTyped, CallRows
      <4> QED  BY <4>1, <4>2
    <3>2. Purging(p) /\ ~touched[p]
      BY <1>8, <2>0, <2>2 DEF PurgeRead, PurgeFails, Purging
    <3> QED  BY <1>0, <2>0, <3>1, <3>2 DEF BatchDue, PassDue, Purging, Due
  <2> QED  BY <2>1, <2>2
<1>9. ASSUME NEW c \in Calls, PurgeCommit(c)
      PROVE  PassDue(p)'
  <2>1. call[c].of \in Tenants /\ Purging(c)
    BY <1>0, <1>9 DEF PurgeCommit, AtWork, Purging
  <2>2. company' = [company EXCEPT ![call[c].of] = company'[call[c].of]]
    BY <1>0, <1>9, <2>1 DEF PurgeCommit, DeletionTyped
  <2>3. CASE c # p
    <3>1. call'[p] = call[p]  BY <1>0, <1>a, <1>9, <2>3 DEF PurgeCommit, DeletionTyped
    <3> QED  BY <1>2, <1>9, <1>c, <2>1, <2>2, <2>3, <3>1 DEF PurgeCommit
  <2>4. CASE c = p
    <3>1. call'[p] = After(p)  BY <1>0, <1>a, <1>9, <2>4 DEF PurgeCommit, DeletionTyped
    <3>2. call'[p].batch = call[p].batch /\ ~Purging(p)'
      BY <3>1 DEF After, IdleCall, Purging
    <3>3. ~touched[p]
      BY <1>a, <1>9, <2>4 DEF PurgeCommit, Touch
    <3>4. /\ \A t \in call[p].batch : Due(t)
          /\ call[p].of \notin call[p].batch /\ call[p].batch \subseteq Tenants
      BY <1>0, <1>a, <2>1, <2>4, <3>3 DEF BatchDue, PassDue, Purging, DeletionTyped, CallRows
    <3>5. \A t \in call[p].batch : company'[t] = company[t]
      BY <1>0, <2>2, <2>4, <3>4 DEF DeletionTyped
    <3> QED  BY <3>2, <3>4, <3>5 DEF PassDue, Due
  <2> QED  BY <2>3, <2>4
<1>10. CASE UNCHANGED deletionVars
  BY <1>b, <1>10 DEF deletionVars
<1> QED
  BY <1>a, <1>b, <1>1, <1>3, <1>4, <1>5, <1>6, <1>7, <1>8, <1>9, <1>10
     DEF DeletionNext, JobStep, PurgeStep

-----------------------------------------------------------------------------
LEMMA DeletionAlwaysInv == DeletionSpec => []DeletionInv
<1>1. DeletionInv /\ [DeletionNext]_deletionVars => DeletionInv'
  BY StepTyped, StepApart, StepPending, StepGone, StepBatch DEF DeletionInv
<1> QED  BY DeletionInitInv, <1>1, PTL DEF DeletionSpec

\* For any requests and passes, the rows and what the calls have read stay typed: what
\* a request restores is a status it has read (tenant-deletion.ts:470, 560).
THEOREM DeletionStaysTyped == DeletionSpec => []DeletionTypeOK
<1>1. DeletionInv => DeletionTypeOK
  <2> SUFFICES ASSUME DeletionTyped PROVE DeletionTypeOK
    BY DEF DeletionInv
  <2>1. Companies \subseteq [status : Statuses, date : {"none", "later", "past"},
                             prev : (Statuses \ {"deleted"}) \union {"none"}]
    BY DEF Companies, Dates, BackTo, Statuses
  <2>2. CallRows \subseteq
            [at : {"idle", "schedule", "cancel", "list", "purge", "commit"},
             of : Tenants \union {NoTenant}, status : Statuses,
             prev : Statuses \union {"none"}, batch : SUBSET Tenants, gone : SUBSET Users]
    BY DEF CallRows, Places, BackTo, Statuses
  <2> QED  BY <2>1, <2>2 DEF DeletionTyped, DeletionTypeOK
<1> QED  BY DeletionAlwaysInv, <1>1, PTL

\* However schedules, cancellations and status changes overlap, a company that is
\* pending deletion has a date the job will come for (tenant-deletion.ts:465-590).
THEOREM PendingKeepsDate == DeletionSpec => []PendingHasDate
<1>1. DeletionInv => PendingHasDate  BY DEF DeletionInv
<1> QED  BY DeletionAlwaysInv, <1>1, PTL

\* For any number of administrators and passes, a company is purged by one of them at a
\* time (tenant-deletion.ts:409).
THEOREM OnePurgeAtATime == DeletionSpec => []OnePurge
<1>1. DeletionInv => OnePurge  BY DEF DeletionInv
<1> QED  BY DeletionAlwaysInv, <1>1, PTL

\* For any number of passes, the job deletes what is due when its transaction commits,
\* unless the row was written since its query (tenant-deletion.ts:611).
THEOREM JobFollowsDates == DeletionSpec => JobDeletesDue
<1>1. DeletionInv /\ [DeletionNext]_deletionVars
         => [\A p \in JobPasses : PurgeCommit(p) /\ ~touched[p] => Due(call[p].of)]_deletionVars
  <2> SUFFICES ASSUME DeletionInv, NEW p \in JobPasses, PurgeCommit(p), ~touched[p]
               PROVE  Due(call[p].of)
    OBVIOUS
  <2> QED  BY DEF DeletionInv, BatchDue, PassDue, Purging, PurgeCommit
<1> QED  BY DeletionAlwaysInv, <1>1, PTL DEF DeletionSpec, JobDeletesDue

\* For any companies deleted together, an account goes only with its last company, and a
\* SUPERADMIN's never does (tenant-deletion.ts:4).
THEOREM AccountsStay == DeletionSpec => AccountsKept
<1>1. DeletionInv /\ [DeletionNext]_deletionVars
         => [\A u \in user \ user' :
                /\ u \notin SuperAdmins
                /\ \A t \in Tenants : <<u, t>> \in member =>
                      company'[t].status = "deleted"]_deletionVars
  <2> SUFFICES ASSUME DeletionInv, [DeletionNext]_deletionVars, NEW u \in user \ user'
               PROVE  /\ u \notin SuperAdmins
                      /\ \A t \in Tenants : <<u, t>> \in member =>
                            company'[t].status = "deleted"
    OBVIOUS
  <2>1. PICK c \in Calls : PurgeCommit(c)
    BY DEF DeletionNext, JobStep, PurgeStep, ScheduleRead, CancelRead, DeleteNow, ScheduleWrite,
           CancelWrite, SetStatus, DatePasses, StartPurges, NextPurge, EndPurges, PurgeRead,
           PurgeFails, deletionVars, Calls
  <2>2. u \in call[c].gone /\ call[c].at = "commit" /\ call[c].of \in Tenants
    BY <2>1 DEF PurgeCommit, DeletionInv, AtWork
  <2>3. company'[call[c].of].status = "deleted"
    BY <2>1, <2>2 DEF PurgeCommit, DeletionInv, DeletionTyped
  <2> QED  BY <2>2, <2>3 DEF DeletionInv, GoneHaveNoOther
<1> QED  BY DeletionAlwaysInv, <1>1, PTL DEF DeletionSpec, AccountsKept

-----------------------------------------------------------------------------
(***************************************************************************)
(* The three together                                                      *)
(***************************************************************************)
\* Each part behaves in the composition as it does alone.
LEMMA PartsAsAlone == ServicesSpec => WebhookSpec /\ SessionSpec /\ DeletionSpec
<1>1. ServicesInit => WebhookInit /\ SessionInit /\ DeletionInit
  BY DEF ServicesInit
<1>2. [ServicesNext]_serviceVars =>
          [WebhookNext]_webhookVars /\ [SessionNext]_sessionVars /\ [DeletionNext]_deletionVars
  BY DEF ServicesNext, serviceVars
<1> QED  BY <1>1, <1>2, PTL DEF ServicesSpec, WebhookSpec, SessionSpec, DeletionSpec

SceneKnown == scene \in {"webhook", "session", "deletion"}

\* Whichever part runs, its rows, counters and records stay within their types.
THEOREM ServicesStayTyped == ServicesSpec => []ServiceTypesOK
<1>1. ServicesInit => SceneKnown
  BY DEF ServicesInit, SceneKnown
<1>2. SceneKnown /\ [ServicesNext]_serviceVars => SceneKnown'
  BY DEF ServicesNext, serviceVars, SceneKnown
<1>3. ServicesSpec => []SceneKnown
  BY <1>1, <1>2, PTL DEF ServicesSpec
<1>4. SceneKnown /\ WebhookTypeOK /\ SessionTypeOK /\ DeletionTypeOK => ServiceTypesOK
  BY DEF ServiceTypesOK, SceneKnown
<1> QED
  BY <1>3, <1>4, PartsAsAlone, WebhookStaysTyped, SessionTyped, DeletionStaysTyped, PTL
=============================================================================

-------------------------- MODULE WebhookDelivery --------------------------
(***************************************************************************)
(* Outbound webhooks: services/webhooks/dispatch.ts.  An event becomes one *)
(* row per endpoint and an attempt that nobody awaits; a failed attempt    *)
(* arms a timer of the process, and a scheduler reads the rows whose retry *)
(* is due from the database, so after a restart the rows are still there.  *)
(* Timer, scheduler and the resend button all call attemptDelivery, which  *)
(* reads the row, POSTs, and writes back what it computed from the read.   *)
(*                                                                         *)
(* One endpoint.  The time a retry waits is abstracted to due or not due,  *)
(* and a timer may fire at any moment: the awaits around the POST (DNS,    *)
(* the database) have no bound in the code.                                *)
(***************************************************************************)
EXTENDS Naturals, FiniteSets

CONSTANTS
    Deliveries,      \* rows of WebhookDelivery, all for one endpoint
    Attempts,        \* calls of attemptDelivery that may be in flight together
    NoDelivery,      \* what an idle one is about
    MaxAttempts,     \* MAX_ATTEMPTS
    FailingAt,       \* failures after which the endpoint is shown as failing
    MaxTimers, MaxResends, MaxCrashes   \* bounds of the model

ASSUME MaxAttemptsPositive == MaxAttempts \in Nat \ {0} /\ FailingAt \in Nat \ {0}
ASSUME WebhookBounds == {MaxTimers, MaxResends, MaxCrashes} \subseteq Nat
ASSUME NoDeliveryApart == NoDelivery \notin Deliveries

VARIABLES
    delivery,     \* the row: status, attempts, success, nextRetryAt
    endpoint,     \* isActive, failureCount, healthStatus
    timers,       \* armed setTimeout calls of each delivery
    attempt,      \* what each call of attemptDelivery has read and where it stands
    resends, crashes,
    posts,        \* history: POSTs of each delivery
    answered,     \* history: answered 2xx since it was last asked for
    clash,        \* history: an attempt read the row before another one had recorded its
                  \* POST, or the process died in between
    healthClash,  \* history: the same for the endpoint's counters
    failedInRow   \* history: failures recorded since the last recorded success
                  \* (histories are no longer kept after a clash)

rowVars  == <<delivery, endpoint>>
webhookHistory == <<posts, answered, clash, healthClash, failedInRow>>
webhookVars == <<rowVars, timers, attempt, resends, crashes, webhookHistory>>

IdleAttempt == [at |-> "idle", of |-> NoDelivery, number |-> 0, failures |-> 0,
                health |-> "active", ok |-> FALSE]

\* Type invariant.
WebhookTypeOK ==
    /\ delivery \in [Deliveries ->
          [status : {"none", "pending", "retrying", "success", "failed"},
           attempts : 0..MaxAttempts, success : BOOLEAN, next : {"unset", "later", "due"}]]
    /\ endpoint \in [active : BOOLEAN, failures : 0..FailingAt, health : {"active", "failing", "paused"}]
    /\ timers \in [Deliveries -> 0..MaxTimers]
    /\ attempt \in [Attempts ->
          [at : {"idle", "read", "giveup", "post", "record", "health"},
           of : Deliveries \union {NoDelivery}, number : 0..MaxAttempts, failures : 0..FailingAt,
           health : {"active", "failing", "paused"}, ok : BOOLEAN]]
    /\ resends \in 0..MaxResends /\ crashes \in 0..MaxCrashes

WebhookInit ==
    /\ delivery = [d \in Deliveries |->
          [status |-> "none", attempts |-> 0, success |-> FALSE, next |-> "unset"]]
    /\ endpoint = [active |-> TRUE, failures |-> 0, health |-> "active"]
    /\ timers = [d \in Deliveries |-> 0]
    /\ attempt = [a \in Attempts |-> IdleAttempt]
    /\ resends = 0 /\ crashes = 0
    /\ posts = [d \in Deliveries |-> 0]
    /\ answered = [d \in Deliveries |-> FALSE]
    /\ clash = [d \in Deliveries |-> FALSE]
    /\ healthClash = FALSE /\ failedInRow = 0

-----------------------------------------------------------------------------
Running(d) == \E a \in Attempts : attempt[a].of = d
Unrecorded(d) == \E a \in Attempts : attempt[a].of = d /\ attempt[a].at \in {"post", "record"}
Counting == \E a \in Attempts : attempt[a].at \in {"post", "record", "health"}

\* Failures are counted up to the threshold they are compared with.
OneMore(n) == IF n < FailingAt THEN n + 1 ELSE n

\* A history worth keeping only without a clash.
Unless(gone, value, none) == IF gone THEN none ELSE value

KeepHistory ==
    /\ posts' = [d \in Deliveries |-> Unless(clash'[d], posts[d], 0)]
    /\ answered' = [d \in Deliveries |-> Unless(clash'[d], answered[d], FALSE)]
    /\ failedInRow' = Unless(healthClash', failedInRow, 0)

\* attemptDelivery is called: the read of the row is its first await.
Call(d) == \E a \in Attempts :
    /\ attempt[a].at = "idle"
    /\ attempt' = [attempt EXCEPT ![a] = [IdleAttempt EXCEPT !.at = "read", !.of = d]]

\* deliverToTenant: only active endpoints get a row, and the attempt is not awaited.
Emit(d) ==
    /\ delivery[d].status = "none"
    /\ endpoint.active
    /\ delivery' = [delivery EXCEPT ![d].status = "pending"]
    /\ Call(d)
    /\ UNCHANGED <<endpoint, timers, resends, crashes, webhookHistory>>

\* The timer of a retry.
FireTimer(d) ==
    /\ timers[d] > 0
    /\ timers' = [timers EXCEPT ![d] = @ - 1]
    /\ Call(d)
    /\ UNCHANGED <<rowVars, resends, crashes, webhookHistory>>

\* A row of the scheduler's query.
PickRetry(d) ==
    /\ delivery[d].status = "retrying" /\ delivery[d].next = "due"
    /\ ~delivery[d].success /\ delivery[d].attempts < MaxAttempts
    /\ Call(d)
    /\ UNCHANGED <<rowVars, timers, resends, crashes, webhookHistory>>

\* (Mutant) a resend counts from zero again.
ResendFromZero(d) ==
    /\ resends < MaxResends
    /\ delivery[d].status # "none"
    /\ resends' = resends + 1
    /\ delivery' = [delivery EXCEPT ![d].status = "pending", ![d].success = FALSE,
                                    ![d].next = "unset", ![d].attempts = 0]
    /\ answered' = [answered EXCEPT ![d] = FALSE]
    /\ Call(d)
    /\ UNCHANGED <<endpoint, timers, crashes, posts, clash, healthClash, failedInRow>>

\* resendDelivery: attempts are kept, the rest starts again.
Resend(d) ==
    /\ resends < MaxResends
    /\ delivery[d].status # "none"
    /\ resends' = resends + 1
    /\ delivery' = [delivery EXCEPT ![d].status = "pending", ![d].success = FALSE,
                                    ![d].next = "unset"]
    /\ answered' = [answered EXCEPT ![d] = FALSE]
    /\ Call(d)
    /\ UNCHANGED <<endpoint, timers, crashes, posts, clash, healthClash, failedInRow>>

\* (Mutant) the early return for a delivery that succeeded is missing.
ReadRegardless(a) ==
    LET d == attempt[a].of  row == delivery[d]  IN
    /\ attempt[a].at = "read"
    /\ \/ /\ row.attempts < MaxAttempts /\ ~endpoint.active
          /\ attempt' = [attempt EXCEPT ![a] = IdleAttempt]
          /\ UNCHANGED <<clash, healthClash>>
       \/ /\ row.attempts = MaxAttempts
          /\ attempt' = [attempt EXCEPT ![a].at = "giveup"]
          /\ UNCHANGED <<clash, healthClash>>
       \/ /\ row.attempts < MaxAttempts /\ endpoint.active
          /\ attempt' = [attempt EXCEPT ![a] = [@ EXCEPT !.at = "post",
                !.number = row.attempts + 1, !.failures = endpoint.failures,
                !.health = endpoint.health]]
          /\ clash' = [clash EXCEPT ![d] = @ \/ Unrecorded(d)]
          /\ healthClash' = (healthClash \/ Counting)
    /\ KeepHistory
    /\ UNCHANGED <<rowVars, timers, resends, crashes>>

\* (Mutant) MAX_ATTEMPTS is not looked at before the POST.
ReadWithoutMaximum(a) ==
    LET d == attempt[a].of  row == delivery[d]  IN
    /\ attempt[a].at = "read"
    /\ IF row.success \/ ~endpoint.active
       THEN /\ attempt' = [attempt EXCEPT ![a] = IdleAttempt]
            /\ UNCHANGED <<clash, healthClash>>
       ELSE /\ attempt' = [attempt EXCEPT ![a] = [@ EXCEPT !.at = "post",
                  !.number = row.attempts + 1, !.failures = endpoint.failures,
                  !.health = endpoint.health]]
            /\ clash' = [clash EXCEPT ![d] = @ \/ Unrecorded(d)]
            /\ healthClash' = (healthClash \/ Counting)
    /\ KeepHistory
    /\ UNCHANGED <<rowVars, timers, resends, crashes>>

\* The row and its endpoint are read; what is computed from them is written much later.
ReadDelivery(a) ==
    LET d == attempt[a].of  row == delivery[d]  IN
    /\ attempt[a].at = "read"
    /\ \/ /\ row.success \/ (row.attempts < MaxAttempts /\ ~endpoint.active)
          /\ attempt' = [attempt EXCEPT ![a] = IdleAttempt]
          /\ UNCHANGED <<clash, healthClash>>
       \/ /\ ~row.success /\ row.attempts = MaxAttempts
          /\ attempt' = [attempt EXCEPT ![a].at = "giveup"]
          /\ UNCHANGED <<clash, healthClash>>
       \/ /\ ~row.success /\ row.attempts < MaxAttempts /\ endpoint.active
          /\ attempt' = [attempt EXCEPT ![a] = [@ EXCEPT !.at = "post",
                !.number = row.attempts + 1, !.failures = endpoint.failures,
                !.health = endpoint.health]]
          /\ clash' = [clash EXCEPT ![d] = @ \/ Unrecorded(d)]
          /\ healthClash' = (healthClash \/ Counting)
    /\ KeepHistory
    /\ UNCHANGED <<rowVars, timers, resends, crashes>>

\* attempts had reached the maximum.
GiveUp(a) ==
    /\ attempt[a].at = "giveup"
    /\ delivery' = [delivery EXCEPT ![attempt[a].of].status = "failed"]
    /\ attempt' = [attempt EXCEPT ![a] = IdleAttempt]
    /\ UNCHANGED <<endpoint, timers, resends, crashes, webhookHistory>>

\* The POST and its answer: 2xx, or another status, the time-out, an error.
PostEvent(a) ==
    LET d == attempt[a].of IN
    /\ attempt[a].at = "post"
    /\ \E ok \in BOOLEAN :
          /\ attempt' = [attempt EXCEPT ![a].at = "record", ![a].ok = ok]
          /\ answered' = [answered EXCEPT ![d] = ~clash[d] /\ (@ \/ ok)]
    /\ posts' = [posts EXCEPT ![d] = Unless(clash[d], @ + 1, 0)]
    /\ UNCHANGED <<rowVars, timers, resends, crashes, clash, healthClash, failedInRow>>

\* The row is written by id; nextRetryAt keeps its value unless a retry follows.
WillRetry(a) == ~attempt[a].ok /\ attempt[a].number < MaxAttempts

Outcome(a) == IF attempt[a].ok THEN "success" ELSE IF WillRetry(a) THEN "retrying" ELSE "failed"

\* (Mutant) the retry is left to the timer: nextRetryAt is not written.
RecordWithoutDate(a) ==
    LET d == attempt[a].of IN
    /\ attempt[a].at = "record"
    /\ delivery' = [delivery EXCEPT ![d] =
          [status |-> Outcome(a), attempts |-> attempt[a].number, success |-> attempt[a].ok,
           next |-> @.next]]
    /\ attempt' = [attempt EXCEPT ![a].at = "health"]
    /\ UNCHANGED <<endpoint, timers, resends, crashes, webhookHistory>>

RecordAttempt(a) ==
    LET d == attempt[a].of IN
    /\ attempt[a].at = "record"
    /\ delivery' = [delivery EXCEPT ![d] =
          [status |-> Outcome(a), attempts |-> attempt[a].number, success |-> attempt[a].ok,
           next |-> IF WillRetry(a) THEN "later" ELSE @.next]]
    /\ attempt' = [attempt EXCEPT ![a].at = "health"]
    /\ UNCHANGED <<endpoint, timers, resends, crashes, webhookHistory>>

\* The endpoint's counters, from what was read before the POST; then the timer.
Health(a) == IF OneMore(attempt[a].failures) = FailingAt THEN "failing" ELSE attempt[a].health

\* (Mutant) a success shows the endpoint active but keeps its count of failures.
RecordHealthKeepsCount(a) ==
    LET d == attempt[a].of IN
    /\ attempt[a].at = "health"
    /\ IF attempt[a].ok
       THEN endpoint' = [endpoint EXCEPT !.health = "active"]
       ELSE endpoint' = [endpoint EXCEPT !.failures = OneMore(attempt[a].failures), !.health = Health(a)]
    /\ failedInRow' = IF attempt[a].ok \/ healthClash THEN 0 ELSE OneMore(failedInRow)
    /\ timers' = [timers EXCEPT ![d] = IF WillRetry(a) /\ @ < MaxTimers THEN @ + 1 ELSE @]
    /\ attempt' = [attempt EXCEPT ![a] = IdleAttempt]
    /\ UNCHANGED <<delivery, resends, crashes, posts, answered, clash, healthClash>>

RecordHealth(a) ==
    LET d == attempt[a].of IN
    /\ attempt[a].at = "health"
    /\ IF attempt[a].ok
       THEN endpoint' = [endpoint EXCEPT !.failures = 0, !.health = "active"]
       ELSE endpoint' = [endpoint EXCEPT !.failures = OneMore(attempt[a].failures), !.health = Health(a)]
    /\ failedInRow' = IF attempt[a].ok \/ healthClash THEN 0 ELSE OneMore(failedInRow)
    /\ timers' = [timers EXCEPT ![d] = IF WillRetry(a) /\ @ < MaxTimers THEN @ + 1 ELSE @]
    /\ attempt' = [attempt EXCEPT ![a] = IdleAttempt]
    /\ UNCHANGED <<delivery, resends, crashes, posts, answered, clash, healthClash>>

AttemptStep(a) == ReadDelivery(a) \/ GiveUp(a) \/ PostEvent(a) \/ RecordAttempt(a) \/ RecordHealth(a)

\* nextRetryAt passes.
BecomeDue(d) ==
    /\ delivery[d].next = "later"
    /\ delivery' = [delivery EXCEPT ![d].next = "due"]
    /\ UNCHANGED <<endpoint, timers, attempt, resends, crashes, webhookHistory>>

\* PATCH /webhooks/:id: paused, or active again.  The counters stay.
PatchEndpoint ==
    /\ endpoint' = [endpoint EXCEPT !.active = ~@,
                       !.health = IF endpoint.active THEN "paused" ELSE "active"]
    /\ healthClash' = TRUE /\ failedInRow' = 0
    /\ UNCHANGED <<delivery, timers, attempt, resends, crashes, posts, answered, clash>>

\* The process dies: attempts in flight and timers are gone, rows stay.
WebhookRestart ==
    /\ crashes < MaxCrashes
    /\ crashes' = crashes + 1
    /\ clash' = [d \in Deliveries |-> clash[d] \/ \E a \in Attempts :
                                         attempt[a].of = d /\ attempt[a].at = "record"]
    /\ healthClash' = (healthClash \/ \E a \in Attempts : attempt[a].at = "health")
    /\ attempt' = [a \in Attempts |-> IdleAttempt]
    /\ timers' = [d \in Deliveries |-> 0]
    /\ KeepHistory
    /\ UNCHANGED <<rowVars, resends>>

WebhookNext ==
    \/ \E d \in Deliveries : Emit(d) \/ FireTimer(d) \/ PickRetry(d) \/ Resend(d) \/ BecomeDue(d)
    \/ \E a \in Attempts : AttemptStep(a)
    \/ PatchEndpoint
    \/ WebhookRestart

WebhookSpec == WebhookInit /\ [][WebhookNext]_webhookVars

-----------------------------------------------------------------------------
\* Unless attempts of one delivery overlapped or the process died after a POST,
\* every POST is counted: attempts is the number sent, resends included, so
\* MAX_ATTEMPTS bounds what an endpoint receives (dispatch.ts:156, :275).
PostsCounted == \A d \in Deliveries : ~clash[d] =>
    posts[d] = delivery[d].attempts
               + Cardinality({a \in Attempts : attempt[a].of = d /\ attempt[a].at = "record"})

\* An event that was answered 2xx is not sent again until somebody asks for it,
\* whatever timers and scheduler rows are left (dispatch.ts:155); attempts that
\* overlap are not counted.
AnsweredOnce == [][\A d \in Deliveries : posts'[d] > posts[d] => ~answered[d]]_webhookVars

\* The endpoint is shown as failing exactly when its last FailingAt recorded
\* attempts failed, as long as no two attempts shared a reading of its counters
\* and nobody paused it (dispatch.ts:241-248).
FailingIsEarned == ~healthClash => (endpoint.health = "failing" <=> failedInRow = FailingAt)

\* A delivery waiting for its retry gets to an end while the endpoint stays
\* active: the scheduler takes over the timers a restart lost (dispatch.ts:286).
RetrySettles == \A d \in Deliveries :
    delivery[d].status = "retrying" ~> (delivery[d].status # "retrying" \/ ~endpoint.active)
=============================================================================

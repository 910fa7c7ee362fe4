---------------------------- MODULE Subscription ----------------------------
(***************************************************************************)
(* What a company owes and when: services/billing.ts, the payments of      *)
(* services/platform-admin/billing.ts, the contract changes of             *)
(* companies.ts, and the access that follows (services/access-gate.ts).    *)
(* An administrator registers each payment by hand; a transaction reads    *)
(* the subscription, stores the payment and writes the next due date, and  *)
(* PostgreSQL runs it at READ COMMITTED.                                   *)
(*                                                                         *)
(* A date is a pair of a month and a day; the calendar is a constant.      *)
(***************************************************************************)
EXTENDS Naturals, Sequences, FiniteSets

CONSTANTS
    Length,              \* days of each month of the calendar, from month 1 on
    DueDays,             \* the days of the month a contract may name
    DefaultDay,          \* the day of a contract that names none: 10
    ThirtyDays,          \* the fallback of advancePeriodAfterPayment, in days
    GraceDays,           \* policy.graceDays
    Payments, PaymentKeys,   \* requests in flight together, and their idempotency keys
    Revisers,            \* contract changes in flight together
    LastDay,             \* bound on the calendar that is lived through
    MaxChanges           \* bound on contract changes and cancellations

Months == DOMAIN Length
Dates == UNION {{m} \X (1..Length[m]) : m \in Months}
NoDate == <<0, 0>>

ASSUME Calendar == Length \in Seq(Nat \ {0})
ASSUME ContractDays == DueDays \subseteq Nat \ {0} /\ DefaultDay \in DueDays
ASSUME BillingBounds == {ThirtyDays, GraceDays, MaxChanges} \subseteq Nat /\ LastDay \in Dates

VARIABLES
    today,
    contract,    \* the Subscription row: status, due (currentPeriodEnd), day
                 \* (billingDueDay, 0: null), charged (priceMonthly > 0)
    payment,     \* what each registration has read and where it stands
    reviser,     \* the same for the contract changes
    paid,        \* idempotency keys of the payments stored
    changes,
    overwritten  \* history: a registration wrote over a row changed since it read it

billingVars == <<today, contract, payment, reviser, paid, changes, overwritten>>

Contracts == [status : {"ACTIVE", "CANCELLED"}, due : Dates \union {NoDate},
              day : Nat, charged : BOOLEAN]

-----------------------------------------------------------------------------
(* services/billing.ts *)

Before(x, y) == x[1] < y[1] \/ (x[1] = y[1] /\ x[2] < y[2])

DaysBetween(x, y) == Cardinality({d \in Dates : (d = x \/ Before(x, d)) /\ Before(d, y)})

\* clampDayOfMonth
Clamp(month, day) == IF day <= Length[month] THEN day ELSE Length[month]

OnDay(month, day) == <<month, Clamp(month, day)>>

\* computeNextDueDate
NextDue(day, from) ==
    IF Before(OnDay(from[1], day), from) THEN OnDay(from[1] + 1, day) ELSE OnDay(from[1], day)

Later(from, days) == CHOOSE d \in Dates : ~Before(d, from) /\ DaysBetween(from, d) = days

\* The calendar does not end: it goes on a month past the last day that is lived, and
\* as many days past any other as a payment can move the due date.
ASSUME CalendarGoesOn ==
    /\ LastDay[1] + 1 \in Months
    /\ \A from \in Dates : ~Before(LastDay, from) =>
          \E d \in Dates : ~Before(d, from) /\ DaysBetween(from, d) = ThirtyDays

\* (Mutant) the month that follows the due date, whenever it was paid.
AdvanceOneMonth(day, due, paidAt) ==
    IF day # 0 THEN OnDay((IF due # NoDate THEN due[1] ELSE paidAt[1]) + 1, day)
    ELSE IF due # NoDate THEN OnDay(due[1] + 1, due[2]) ELSE Later(paidAt, ThirtyDays)

\* advancePeriodAfterPayment
Advance(day, due, paidAt) ==
    IF day # 0 THEN OnDay(paidAt[1] + 1, day)
    ELSE IF due # NoDate THEN OnDay(due[1] + 1, due[2])
    ELSE Later(paidAt, ThirtyDays)

\* computeBillingSnapshot and resolveFinancialAccess of an active company, with
\* autoSuspendNonpayment on.  Without a due date the next one is computed.
DaysOverdue(c) ==
    LET next == IF c.due # NoDate THEN c.due
                ELSE IF c.day # 0 THEN NextDue(c.day, today) ELSE NoDate
    IN  IF next = NoDate \/ ~Before(next, today) THEN 0 ELSE DaysBetween(next, today)

Access(c) ==
    CASE c.status = "CANCELLED" -> "CANCELED"
      [] c.status # "CANCELLED" /\ DaysOverdue(c) > GraceDays -> "SUSPENDED_FOR_NONPAYMENT"
      [] c.status # "CANCELLED" /\ DaysOverdue(c) \in 1..GraceDays -> "GRACE_PERIOD"
      [] OTHER -> "CURRENT"

-----------------------------------------------------------------------------
IdlePayment == [at |-> "idle", key |-> 0, paidAt |-> NoDate, advance |-> TRUE,
                read |-> [status |-> "ACTIVE", due |-> NoDate, day |-> 0, charged |-> FALSE]]

\* Type invariant.
BillingTypeOK ==
    /\ today \in Dates /\ contract \in Contracts
    /\ payment \in [Payments -> [at : {"idle", "store", "write"}, key : PaymentKeys \union {0},
                                 paidAt : Dates \union {NoDate}, advance : BOOLEAN,
                                 read : Contracts]]
    /\ reviser \in [Revisers -> [at : {"idle", "write"}, day : Nat,
                                 charged : BOOLEAN]]
    /\ paid \subseteq PaymentKeys /\ changes \in 0..MaxChanges /\ overwritten \in BOOLEAN

\* createCompany: a charged plan, a free one, or a price on request.
BillingInit ==
    /\ today = <<1, 1>>
    /\ contract \in {
          [status |-> "ACTIVE", due |-> NextDue(DefaultDay, <<1, 1>>), day |-> DefaultDay,
           charged |-> TRUE],
          [status |-> "ACTIVE", due |-> NoDate, day |-> 0, charged |-> FALSE],
          [status |-> "ACTIVE", due |-> NoDate, day |-> DefaultDay, charged |-> FALSE]}
    /\ payment = [p \in Payments |-> IdlePayment]
    /\ reviser = [r \in Revisers |-> [at |-> "idle", day |-> 0, charged |-> FALSE]]
    /\ paid = {} /\ changes = 0 /\ overwritten = FALSE

-----------------------------------------------------------------------------
\* registerTenantPayment: the transaction reads the subscription; paidAt is today unless
\* the request names an earlier day (the first one stands for its month).  The lookup of
\* the key before it refuses what the unique index would refuse.
ReadContract(p) ==
    /\ payment[p].at = "idle"
    /\ \E key \in PaymentKeys, paidAt \in Dates, advance \in BOOLEAN :
          /\ paidAt = today \/ (Before(paidAt, today) /\ paidAt[2] = 1)
          /\ payment' = [payment EXCEPT ![p] = [at |-> "store", key |-> key,
                            paidAt |-> paidAt, advance |-> advance, read |-> contract]]
    /\ UNCHANGED <<today, contract, reviser, paid, changes, overwritten>>

\* The unique index of idempotencyKey: a key another transaction has inserted waits for
\* its commit, and is then a duplicate.
StorePayment(p) ==
    /\ payment[p].at = "store"
    /\ \A q \in Payments \ {p} : payment[q].at = "write" => payment[q].key # payment[p].key
    /\ payment' = [payment EXCEPT ![p] =
          IF payment[p].key \in paid THEN IdlePayment ELSE [payment[p] EXCEPT !.at = "write"]]
    /\ UNCHANGED <<today, contract, reviser, paid, changes, overwritten>>

\* The subscription's new row, from what was read, and the commit.
Settled(p) ==
    LET c == payment[p].read
        due == IF payment[p].advance THEN Advance(c.day, c.due, payment[p].paidAt) ELSE c.due
    IN  [contract EXCEPT !.status = "ACTIVE", !.due = due,
                         !.day = IF c.day = 0 /\ due # NoDate THEN due[2] ELSE @]

RecordPayment(p) ==
    /\ payment[p].at = "write"
    /\ contract' = Settled(p)
    /\ overwritten' = (overwritten \/ contract # payment[p].read)
    /\ paid' = paid \union {payment[p].key}
    /\ payment' = [payment EXCEPT ![p] = IdlePayment]
    /\ UNCHANGED <<today, reviser, changes>>

\* updateCompany: the plan, the day or the price, in one transaction.
AskRevision(r) ==
    /\ reviser[r].at = "idle" /\ changes < MaxChanges
    /\ changes' = changes + 1
    /\ \E day \in DueDays \union {contract.day}, charged \in BOOLEAN :
          reviser' = [reviser EXCEPT ![r] = [at |-> "write",
             day |-> IF day = 0 THEN DefaultDay ELSE day, charged |-> charged]]
    /\ UNCHANGED <<today, contract, payment, paid, overwritten>>

\* (Mutant) a contract change leaves the due date of the period alone.
ReviseDayOnly(r) ==
    /\ reviser[r].at = "write"
    /\ contract' = [contract EXCEPT !.day = reviser[r].day, !.charged = reviser[r].charged,
          !.due = IF reviser[r].charged /\ @ = NoDate
                  THEN NextDue(reviser[r].day, today) ELSE @]
    /\ reviser' = [reviser EXCEPT ![r] = [at |-> "idle", day |-> 0, charged |-> FALSE]]
    /\ UNCHANGED <<today, payment, paid, changes, overwritten>>

Revise(r) ==
    /\ reviser[r].at = "write"
    /\ contract' = [contract EXCEPT !.day = reviser[r].day, !.charged = reviser[r].charged,
          !.due = IF reviser[r].charged THEN NextDue(reviser[r].day, today) ELSE NoDate]
    /\ reviser' = [reviser EXCEPT ![r] = [at |-> "idle", day |-> 0, charged |-> FALSE]]
    /\ UNCHANGED <<today, payment, paid, changes, overwritten>>

\* cancelTenantSubscription
CancelSubscription ==
    /\ changes < MaxChanges
    /\ changes' = changes + 1
    /\ contract' = [contract EXCEPT !.status = "CANCELLED"]
    /\ UNCHANGED <<today, payment, reviser, paid, overwritten>>

NextDay ==
    /\ Before(today, LastDay)
    /\ today' = IF today[2] < Length[today[1]] THEN <<today[1], today[2] + 1>>
                ELSE <<today[1] + 1, 1>>
    /\ UNCHANGED <<contract, payment, reviser, paid, changes, overwritten>>

BillingNext ==
    \/ \E p \in Payments : ReadContract(p) \/ StorePayment(p) \/ RecordPayment(p)
    \/ \E r \in Revisers : AskRevision(r) \/ Revise(r)
    \/ CancelSubscription \/ NextDay

BillingSpec == BillingInit /\ [][BillingNext]_billingVars

-----------------------------------------------------------------------------
\* A payment dated in the current month that advances the due date leaves the company
\* in good standing, however many months it was behind and whatever was registered or
\* changed meanwhile: the access gate must not go on refusing who has paid
\* (billing.ts:282).
PaymentSettles ==
    [][\A p \in Payments :
          /\ RecordPayment(p) /\ payment[p].advance
          /\ payment[p].read.day # 0 /\ payment[p].paidAt[1] = today[1]
          => Access(contract') = "CURRENT"]_billingVars

\* The due date falls on the day of the contract, or on the last day of a month too
\* short for it, after any series of payments through short months and of contract
\* changes - unless a registration wrote over a contract changed since it read it
\* (billing.ts:47).
DueOnDueDay ==
    ~overwritten /\ contract.day # 0 /\ contract.due # NoDate
       => contract.due = OnDay(contract.due[1], contract.day)

\* billing.ts:271: "Avanca currentPeriodEnd apos pagamento do periodo".
PaymentAdvances ==
    [][\A p \in Payments :
          /\ RecordPayment(p) /\ payment[p].advance /\ contract.due # NoDate
          /\ payment[p].read = contract /\ payment[p].paidAt = today
          => Before(contract.due, contract'.due)]_billingVars
=============================================================================

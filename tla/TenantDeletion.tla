--------------------------- MODULE TenantDeletion ---------------------------
(***************************************************************************)
(* Deleting a company: services/platform-admin/tenant-deletion.ts, with    *)
(* the status changes of companies.ts.  An administrator deletes now, or   *)
(* schedules the deletion and may cancel it; a job reads the companies     *)
(* whose date has come and purges them one after the other.  A purge reads *)
(* the company, then runs one transaction that deletes it and the users    *)
(* who have no other company.                                              *)
(*                                                                         *)
(* Every read and the write it leads to are steps of their own.            *)
(***************************************************************************)
EXTENDS Naturals, FiniteSets

CONSTANTS
    Tenants, Users,
    SuperAdmins,        \* users whose platformRole is SUPERADMIN
    Requests, JobPasses,   \* requests of administrators and passes of the job in flight
    NoTenant,           \* what an idle one is about
    MaxFailures         \* bound on the transactions that fail

ASSUME SuperAdminsAreUsers == SuperAdmins \subseteq Users
ASSUME NoTenantApart == NoTenant \notin Tenants
ASSUME RequestsArePassesNot == Requests \cap JobPasses = {}
ASSUME MaxFailuresNatural == MaxFailures \in Nat

VARIABLES
    company,     \* the Tenant row; status "deleted" once it is gone
    member,      \* active memberships: pairs of user and tenant
    user,        \* users that exist
    deleting,    \* the keys of inflight
    call,        \* what each request and pass has read and where it stands
    failures,
    touched      \* history: the row a call has read was written by another one since

deletionVars == <<company, member, user, deleting, call, failures, touched>>

Calls == Requests \union JobPasses
Statuses == {"ACTIVE", "BLOCKED", "PENDING_DELETION", "deleted"}

IdleCall == [at |-> "idle", of |-> NoTenant, status |-> "ACTIVE", prev |-> "none",
             batch |-> {}, gone |-> {}]

\* Type invariant.
DeletionTypeOK ==
    /\ company \in [Tenants -> [status : Statuses, date : {"none", "later", "past"},
                                prev : (Statuses \ {"deleted"}) \union {"none"}]]
    /\ member \subseteq Users \X Tenants /\ user \subseteq Users
    /\ deleting \subseteq Tenants
    /\ call \in [Calls -> [at : {"idle", "schedule", "cancel", "list", "purge", "commit"},
                           of : Tenants \union {NoTenant}, status : Statuses,
                           prev : Statuses \union {"none"}, batch : SUBSET Tenants,
                           gone : SUBSET Users]]
    /\ failures \in 0..MaxFailures
    /\ touched \in [Calls -> BOOLEAN]

DeletionInit ==
    /\ company = [t \in Tenants |-> [status |-> "ACTIVE", date |-> "none", prev |-> "none"]]
    /\ member = Users \X Tenants /\ user = Users
    /\ deleting = {} /\ failures = 0
    /\ call = [c \in Calls |-> IdleCall]
    /\ touched = [c \in Calls |-> FALSE]

-----------------------------------------------------------------------------
Exists(t) == company[t].status # "deleted"

\* A row is written: the other calls that have read it do not know.
Touch(c, t) == touched' = [d \in Calls |-> touched[d] \/
    (d # c /\ call[d].at # "idle" /\ (call[d].of = t \/ t \in call[d].batch))]

\* scheduleCompanyDeletion: what it reads, then (the eligibility read since) what it writes.
ScheduleRead(r, t) ==
    /\ call[r].at = "idle" /\ Exists(t)
    /\ ~(company[t].status = "PENDING_DELETION" /\ company[t].date # "none")
    /\ call' = [call EXCEPT ![r] = [IdleCall EXCEPT !.at = "schedule", !.of = t,
                   !.status = company[t].status, !.prev = company[t].prev]]
    /\ touched' = [touched EXCEPT ![r] = FALSE]
    /\ UNCHANGED <<company, member, user, deleting, failures>>

PreviousStatus(c) ==
    IF c.status # "PENDING_DELETION" THEN c.status
    ELSE IF c.prev = "none" THEN "ACTIVE" ELSE c.prev

ScheduleWrite(r) ==
    LET t == call[r].of IN
    /\ call[r].at = "schedule"
    /\ call' = [call EXCEPT ![r] = IdleCall]
    /\ \/ \* no due date to schedule for, or the row is gone: the request fails
          UNCHANGED <<company, touched>>
       \/ /\ Exists(t)
          /\ company' = [company EXCEPT ![t] = [status |-> "PENDING_DELETION", date |-> "later",
                                                prev |-> PreviousStatus(call[r])]]
          /\ Touch(r, t)
    /\ UNCHANGED <<member, user, deleting, failures>>

\* cancelScheduledCompanyDeletion.
CancelRead(r, t) ==
    /\ call[r].at = "idle" /\ Exists(t)
    /\ company[t].status = "PENDING_DELETION" \/ company[t].date # "none"
    /\ call' = [call EXCEPT ![r] = [IdleCall EXCEPT !.at = "cancel", !.of = t,
                   !.prev = company[t].prev]]
    /\ touched' = [touched EXCEPT ![r] = FALSE]
    /\ UNCHANGED <<company, member, user, deleting, failures>>

\* (Mutant) the cancellation clears the date and leaves the status to be set by hand.
CancelWriteDateOnly(r) ==
    LET t == call[r].of IN
    /\ call[r].at = "cancel"
    /\ call' = [call EXCEPT ![r] = IdleCall]
    /\ IF Exists(t)
       THEN /\ company' = [company EXCEPT ![t].date = "none", ![t].prev = "none"]
            /\ Touch(r, t)
       ELSE UNCHANGED <<company, touched>>
    /\ UNCHANGED <<member, user, deleting, failures>>

CancelWrite(r) ==
    LET t == call[r].of
        restore == IF call[r].prev = "none" THEN "ACTIVE" ELSE call[r].prev
    IN
    /\ call[r].at = "cancel"
    /\ call' = [call EXCEPT ![r] = IdleCall]
    /\ IF Exists(t)
       THEN /\ company' = [company EXCEPT ![t] =
                              [status |-> restore, date |-> "none", prev |-> "none"]]
            /\ Touch(r, t)
       ELSE UNCHANGED <<company, touched>>
    /\ UNCHANGED <<member, user, deleting, failures>>

\* updateTenantStatus: the status alone, whatever is scheduled.  BLOCKED stands for
\* SUSPENDED too.
SetStatus(t) ==
    /\ Exists(t)
    /\ \E s \in {"ACTIVE", "BLOCKED"} :
          company' = [company EXCEPT ![t].status = s]
    /\ touched' = [d \in Calls |-> touched[d] \/
          (call[d].at # "idle" /\ (call[d].of = t \/ t \in call[d].batch))]
    /\ UNCHANGED <<member, user, deleting, call, failures>>

DatePasses(t) ==
    /\ company[t].date = "later"
    /\ company' = [company EXCEPT ![t].date = "past"]
    /\ UNCHANGED <<member, user, deleting, call, failures, touched>>

-----------------------------------------------------------------------------
\* deleteCompanyNow: the name matched; a purge of the same company is a conflict.
DeleteNow(r, t) ==
    /\ call[r].at = "idle" /\ Exists(t) /\ t \notin deleting
    /\ deleting' = deleting \union {t}
    /\ call' = [call EXCEPT ![r] = [IdleCall EXCEPT !.at = "purge", !.of = t]]
    /\ touched' = [touched EXCEPT ![r] = FALSE]
    /\ UNCHANGED <<company, member, user, failures>>

\* runScheduledTenantDeletions: the query of the companies that are due.
Due(t) == company[t].status = "PENDING_DELETION" /\ company[t].date = "past"

\* (Mutant) the query takes what is due whatever its status.
StartPurgesByDate(p) ==
    /\ call[p].at = "idle"
    /\ \E t \in Tenants : company[t].date = "past"
    /\ call' = [call EXCEPT ![p] = [IdleCall EXCEPT !.at = "list",
          !.batch = {t \in Tenants : company[t].date = "past" /\ Exists(t)}]]
    /\ touched' = [touched EXCEPT ![p] = FALSE]
    /\ UNCHANGED <<company, member, user, deleting, failures>>

StartPurges(p) ==
    /\ call[p].at = "idle"
    /\ \E t \in Tenants : Due(t)
    /\ call' = [call EXCEPT ![p] = [IdleCall EXCEPT !.at = "list",
                                                   !.batch = {t \in Tenants : Due(t)}]]
    /\ touched' = [touched EXCEPT ![p] = FALSE]
    /\ UNCHANGED <<company, member, user, deleting, failures>>

\* (Mutant) the job purges without looking at inflight.
NextPurgeAnyway(p) ==
    /\ call[p].at = "list"
    /\ \E t \in call[p].batch :
          /\ call' = [call EXCEPT ![p].batch = @ \ {t}, ![p].of = t, ![p].at = "purge"]
          /\ deleting' = deleting \union {t}
    /\ UNCHANGED <<company, member, user, failures, touched>>

\* The next of them; one whose purge is under way is skipped.
NextPurge(p) ==
    /\ call[p].at = "list"
    /\ \E t \in call[p].batch :
          IF t \in deleting
          THEN call' = [call EXCEPT ![p].batch = @ \ {t}] /\ UNCHANGED deleting
          ELSE /\ call' = [call EXCEPT ![p].batch = @ \ {t}, ![p].of = t, ![p].at = "purge"]
               /\ deleting' = deleting \union {t}
    /\ UNCHANGED <<company, member, user, failures, touched>>

EndPurges(p) ==
    /\ call[p].at = "list" /\ call[p].batch = {}
    /\ call' = [call EXCEPT ![p] = IdleCall]
    /\ UNCHANGED <<company, member, user, deleting, failures, touched>>

\* purgeTenantData, the transaction up to the users who will lose their last company:
\* the members who have no active membership elsewhere, as committed then.
Exclusive(t) == {u \in user \ SuperAdmins : <<u, t>> \in member /\
                                            \A s \in Tenants \ {t} : <<u, s>> \notin member}

After(c) == [IdleCall EXCEPT !.at = IF c \in JobPasses THEN "list" ELSE "idle",
                             !.batch = call[c].batch]

\* (Mutant) every member goes with the company.
PurgeReadAllMembers(c) ==
    LET t == call[c].of IN
    /\ call[c].at = "purge"
    /\ IF Exists(t)
       THEN /\ call' = [call EXCEPT ![c].at = "commit",
                           ![c].gone = {u \in user \ SuperAdmins : <<u, t>> \in member}]
            /\ UNCHANGED deleting
       ELSE /\ call' = [call EXCEPT ![c] = After(c)]
            /\ deleting' = deleting \ {t}
    /\ UNCHANGED <<company, member, user, failures, touched>>

PurgeRead(c) ==
    LET t == call[c].of IN
    /\ call[c].at = "purge"
    /\ IF Exists(t)
       THEN /\ call' = [call EXCEPT ![c].at = "commit", ![c].gone = Exclusive(t)]
            /\ UNCHANGED deleting
       ELSE /\ call' = [call EXCEPT ![c] = After(c)]
            /\ deleting' = deleting \ {t}
    /\ UNCHANGED <<company, member, user, failures, touched>>

PurgeCommit(c) ==
    LET t == call[c].of IN
    /\ call[c].at = "commit"
    /\ company' = [company EXCEPT ![t] = [status |-> "deleted", date |-> "none", prev |-> "none"]]
    /\ user' = user \ call[c].gone
    /\ member' = {m \in member : m[2] # t /\ m[1] \notin call[c].gone}
    /\ deleting' = deleting \ {t}
    /\ call' = [call EXCEPT ![c] = After(c)]
    /\ Touch(c, t)
    /\ UNCHANGED failures

\* (Mutant) inflight keeps the company whose purge failed.
PurgeFailsForGood(c) ==
    /\ call[c].at = "commit" /\ failures < MaxFailures
    /\ failures' = failures + 1
    /\ call' = [call EXCEPT ![c] = After(c)]
    /\ UNCHANGED <<company, member, user, deleting, touched>>

\* The transaction runs out of time or hits an error: nothing is deleted, and the
\* company waits for the next pass.
PurgeFails(c) ==
    /\ call[c].at = "commit" /\ failures < MaxFailures
    /\ failures' = failures + 1
    /\ deleting' = deleting \ {call[c].of}
    /\ call' = [call EXCEPT ![c] = After(c)]
    /\ UNCHANGED <<company, member, user, touched>>

PurgeStep(c) == PurgeRead(c) \/ PurgeCommit(c) \/ PurgeFails(c)

JobStep(p) == StartPurges(p) \/ NextPurge(p) \/ EndPurges(p) \/ PurgeStep(p)

DeletionNext ==
    \/ \E r \in Requests, t \in Tenants : ScheduleRead(r, t) \/ CancelRead(r, t) \/ DeleteNow(r, t)
    \/ \E r \in Requests : ScheduleWrite(r) \/ CancelWrite(r) \/ PurgeStep(r)
    \/ \E p \in JobPasses : JobStep(p)
    \/ \E t \in Tenants : SetStatus(t) \/ DatePasses(t)

DeletionSpec == DeletionInit /\ [][DeletionNext]_deletionVars

-----------------------------------------------------------------------------
\* A company pending deletion always has its date: with none, access-gate.ts:586
\* locks it out and no job ever comes for it.  Schedules, cancellations and status
\* changes that overlap included.
PendingHasDate == \A t \in Tenants :
    company[t].status = "PENDING_DELETION" => company[t].date # "none" /\ company[t].prev # "none"

\* One purge of a company at a time, the job and the administrators together
\* (tenant-deletion.ts:409).
OnePurge == \A c, d \in Calls :
    call[c].at \in {"purge", "commit"} /\ call[d].at \in {"purge", "commit"}
        /\ call[c].of = call[d].of => c = d

\* The job deletes what is scheduled and due, unless somebody wrote the row between
\* its query and its transaction (tenant-deletion.ts:611).
JobDeletesDue ==
    [][\A p \in JobPasses : PurgeCommit(p) /\ ~touched[p] => Due(call[p].of)]_deletionVars

\* A user loses the account only with the last company, and a SUPERADMIN never does,
\* with several companies of one user being deleted at the same time
\* (tenant-deletion.ts:4).
AccountsKept ==
    [][\A u \in user \ user' : /\ u \notin SuperAdmins
                               /\ \A t \in Tenants : <<u, t>> \in member =>
                                     company'[t].status = "deleted"]_deletionVars

\* A company that is due is deleted, or no longer due: a failed transaction and a
\* purge under way elsewhere only delay it ("retry no próximo tick",
\* tenant-deletion.ts:610).
DueIsDeleted == \A t \in Tenants : Due(t) ~> ~Due(t)

\* tenant-deletion.ts:3: the users of a deleted company alone are deleted with it.
NoUserLeft == \A u \in user \ SuperAdmins : \E t \in Tenants : <<u, t>> \in member

\* A cancelled deletion does not happen: the job only deletes what is still due.
CancelIsFinal == [][\A p \in JobPasses : PurgeCommit(p) => Due(call[p].of)]_deletionVars
=============================================================================

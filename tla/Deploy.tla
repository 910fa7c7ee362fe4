------------------------------- MODULE Deploy -------------------------------
(***************************************************************************)
(* services/deploy/deployment-orchestrator.ts: the requests that start a   *)
(* deployment, the pipeline that runs in the background of the API         *)
(* process, and the two reconciliations of what a dead pipeline left       *)
(* behind: on boot, and whenever an administrator opens the overview.      *)
(*                                                                         *)
(* A deployment replaces the very process that runs its pipeline, so a     *)
(* restart may fall between any two steps.  Each action is what runs       *)
(* between two awaits; EasyPanel and the health endpoints are external.    *)
(***************************************************************************)
EXTENDS Integers, FiniteSets

CONSTANTS
    Deps,         \* the deployments that may be requested, one request each
    NoDep,
    SameIntent,   \* SameIntent[d]: the deployments of the same user, commit and kind
    LockWindow,   \* the 15 minutes of the concurrency lock, in ticks
    StaleAfter,   \* the 10 minutes after which the overview gives up on a pipeline
    RecordMayFail,\* whether the upsert of current_production_version may throw
    MaxTime,      \* bound on the clock
    MaxRestarts   \* bound on the restarts

ASSUME NoDepApart    == NoDep \notin Deps
ASSUME IntentTyped   == SameIntent \in [Deps -> SUBSET Deps]
ASSUME TicksNatural  == LockWindow \in Nat /\ StaleAfter \in Nat
ASSUME FaultTyped    == RecordMayFail \in BOOLEAN
ASSUME BoundsNatural == MaxTime \in Nat /\ MaxRestarts \in Nat

VARIABLES
    now, boot, restarts, \* the clock, the start of this process, how many starts
    status,      \* Deployment.status, "none" before create and "gone" once deleted
    created,     \* Deployment.createdAt
    request,     \* where the request that asks for the deployment stands
    pipe,        \* where its pipeline stands
    found,       \* what the pipeline read back before its last update
    production,  \* PlatformSetting current_production_version
    view,        \* the deployment an overview is reconciling, and its next step
    sweep,       \* the boot reconciliation: what it still has to do, and its next step
    verified,    \* history: the deployments whose health checks passed
    revived,     \* history: those that left a final status
    before,      \* history: which deployments existed when each was asked for, and when
    gaveUp       \* history: those a boot reconciliation that threw had not reached

vars == <<now, boot, restarts, status, created, request, pipe, found,
          production, view, sweep, verified, revived, before, gaveUp>>

Active == {"PENDING", "PREPARING", "BUILDING", "DEPLOYING", "VALIDATING"}
Final  == {"COMPLETED", "FAILED"}

ActiveDeps == {d \in Deps : status[d] \in Active}

TypeOK ==
    /\ now \in 0..MaxTime /\ boot \in 0..MaxTime /\ restarts \in 0..MaxRestarts
    /\ status \in [Deps -> Active \union Final \union {"none", "gone"}]
    /\ created \in [Deps -> 0..MaxTime]
    /\ request \in [Deps -> {"idle", "creating", "over"}]
    /\ pipe \in [Deps -> {"none", "building", "trigger", "restarting", "health",
                      "passed", "record"}]
    /\ found \in [Deps -> BOOLEAN]
    /\ production \in Deps \union {NoDep}
    /\ view \in [dep : Deps \union {NoDep}, step : {"read", "complete", "record"}]
    /\ sweep \in [todo : SUBSET Deps, dep : Deps \union {NoDep},
                  step : {"read", "complete", "record", "over"}]
    /\ verified \subseteq Deps /\ revived \subseteq Deps /\ gaveUp \subseteq Deps
    /\ before \in [Deps -> [deps : SUBSET Deps, at : 0..MaxTime]]

NoView  == [dep |-> NoDep, step |-> "read"]
SweepOver == [todo |-> {}, dep |-> NoDep, step |-> "over"]
SweepDue  == [todo |-> {}, dep |-> NoDep, step |-> "read"]

Init ==
    /\ now = 0 /\ boot = 0 /\ restarts = 0
    /\ status = [d \in Deps |-> "none"]
    /\ created = [d \in Deps |-> 0]
    /\ request = [d \in Deps |-> "idle"]
    /\ pipe = [d \in Deps |-> "none"]
    /\ found = [d \in Deps |-> FALSE]
    /\ production = NoDep
    /\ view = NoView
    /\ sweep = SweepOver
    /\ verified = {} /\ revived = {} /\ gaveUp = {}
    /\ before = [d \in Deps |-> [deps |-> {}, at |-> 0]]

-----------------------------------------------------------------------------
\* updateMany by id: a deleted record is silently passed over, and the status
\* it had is not looked at.
SafeUpdate(d, s) ==
    /\ status' = [status EXCEPT ![d] = IF @ = "gone" THEN "gone" ELSE s]
    /\ revived' = IF status[d] \in Final /\ s \in Active THEN revived \union {d} ELSE revived

\* (Mutant) a deployment under validation no longer counts as active.
LockedUntilValidating == \E e \in ActiveDeps :
    status[e] # "VALIDATING" /\ created[e] >= now - LockWindow

\* An active deployment created in the last 15 minutes.
Locked == \E e \in ActiveDeps : created[e] >= now - LockWindow

(* startDeploy *)

\* The double click (the same intent in the last three seconds, so in this
\* tick) is given the deployment it already has; then the lock is read.
AskDeploy(d) ==
    /\ request[d] = "idle"
    /\ before' = [before EXCEPT ![d] =
                    [deps |-> {e \in Deps : status[e] # "none"}, at |-> now]]
    /\ \/ /\ \E e \in SameIntent[d] : status[e] \notin {"none", "gone"} /\ created[e] = now
          /\ request' = [request EXCEPT ![d] = "over"]
       \/ Locked /\ request' = [request EXCEPT ![d] = "over"]
       \/ ~Locked /\ request' = [request EXCEPT ![d] = "creating"]
    /\ UNCHANGED <<now, boot, restarts, status, created, pipe, found,
                   production, view, sweep, verified, revived, gaveUp>>

\* After the commit was resolved on GitHub: the record, and its pipeline.
CreateDeployment(d) ==
    /\ request[d] = "creating"
    /\ request' = [request EXCEPT ![d] = "over"]
    /\ status' = [status EXCEPT ![d] = "PREPARING"]
    /\ created' = [created EXCEPT ![d] = now]
    /\ pipe' = [pipe EXCEPT ![d] = "building"]
    /\ UNCHANGED <<now, boot, restarts, found, production, view, sweep, verified, revived, before, gaveUp>>

-----------------------------------------------------------------------------
(* runDeploymentPipeline *)

PipeTo(d, place) == pipe' = [pipe EXCEPT ![d] = place]

Pipeline(d, from, s, place) ==
    /\ pipe[d] = from
    /\ SafeUpdate(d, s)
    /\ PipeTo(d, place)
    /\ UNCHANGED <<now, boot, restarts, created, request, production, view, sweep, before, gaveUp>>

StartBuild(d) ==
    Pipeline(d, "building", "BUILDING", "trigger") /\ UNCHANGED <<found, verified>>

\* easyPanelClient.deployService: confirmed, or cut off by a gateway timeout
\* with the build going on.
BuildAccepted(d) ==
    Pipeline(d, "trigger", "DEPLOYING", "restarting") /\ UNCHANGED <<found, verified>>

BuildRefused(d) ==
    Pipeline(d, "trigger", "FAILED", "none") /\ UNCHANGED <<found, verified>>

StartValidation(d) ==
    Pipeline(d, "restarting", "VALIDATING", "health") /\ UNCHANGED <<found, verified>>

\* Both endpoints answered, and the record was read back.
HealthPasses(d) ==
    /\ pipe[d] = "health"
    /\ PipeTo(d, "passed")
    /\ found' = [found EXCEPT ![d] = status[d] # "gone"]
    /\ verified' = verified \union {d}
    /\ UNCHANGED <<now, boot, restarts, status, created, request,
                   production, view, sweep, revived, before, gaveUp>>

Complete(d) ==
    Pipeline(d, "passed", "COMPLETED", "record") /\ UNCHANGED <<found, verified>>

Unhealthy(d) ==
    Pipeline(d, "health", "FAILED", "none") /\ UNCHANGED <<found, verified>>

\* recordProductionRelease, skipped when the record was not found.
RecordRelease(d) ==
    /\ pipe[d] = "record"
    /\ production' = IF found[d] THEN d ELSE production
    /\ PipeTo(d, "none")
    /\ UNCHANGED <<now, boot, restarts, status, created, request, found,
                   view, sweep, verified, revived, before, gaveUp>>

\* It throws: the handler of the whole pipeline writes FAILED.
RecordThrows(d) ==
    /\ RecordMayFail
    /\ found[d]
    /\ Pipeline(d, "record", "FAILED", "none") /\ UNCHANGED <<found, verified>>

PipelineStep(d) ==
    \/ StartBuild(d) \/ BuildAccepted(d) \/ BuildRefused(d) \/ StartValidation(d)
    \/ HealthPasses(d) \/ Complete(d) \/ Unhealthy(d) \/ RecordRelease(d) \/ RecordThrows(d)

-----------------------------------------------------------------------------
(* The reconciliations. *)

Newest(S) == {d \in S : \A e \in S : created[e] <= created[d]}

\* (Mutant) the release recorded before the deployment is declared completed.
OverviewReadAndRecord ==
    /\ view.dep = NoDep
    /\ \E d \in Newest(ActiveDeps) :
          /\ created[d] < boot \/ now - created[d] > StaleAfter
          /\ view' = [dep |-> d, step |-> "record"]
    /\ UNCHANGED <<now, boot, restarts, status, created, request, pipe, found,
                   production, sweep, verified, revived, before, gaveUp>>

\* getOverview: the newest active deployment, if it is older than this process
\* or than ten minutes, is declared completed.
OverviewRead ==
    /\ view.dep = NoDep
    /\ \E d \in Newest(ActiveDeps) :
          /\ created[d] < boot \/ now - created[d] > StaleAfter
          /\ view' = [dep |-> d, step |-> "complete"]
    /\ UNCHANGED <<now, boot, restarts, status, created, request, pipe, found,
                   production, sweep, verified, revived, before, gaveUp>>

OverviewComplete ==
    /\ view.step = "complete"
    /\ SafeUpdate(view.dep, "COMPLETED")
    /\ view' = [view EXCEPT !.step = "record"]
    /\ UNCHANGED <<now, boot, restarts, created, request, pipe, found,
                   production, sweep, verified, before, gaveUp>>

\* When the record throws, the overview answers with the error.
OverviewRecord ==
    /\ view.step = "record"
    /\ \/ production' = view.dep
       \/ RecordMayFail /\ UNCHANGED production
    /\ view' = NoView
    /\ UNCHANGED <<now, boot, restarts, status, created, request, pipe, found,
                   sweep, verified, revived, before, gaveUp>>

Overview == OverviewRead \/ OverviewComplete \/ OverviewRecord

\* reconcileBootDeployments: every active deployment, newest first.
BootRead ==
    /\ sweep.step = "read"
    /\ sweep' = [todo |-> ActiveDeps, dep |-> NoDep, step |-> "complete"]
    /\ UNCHANGED <<now, boot, restarts, status, created, request, pipe, found,
                   production, view, verified, revived, before, gaveUp>>

BootComplete ==
    /\ sweep.step = "complete"
    /\ \/ /\ sweep.todo = {}
          /\ sweep' = SweepOver
          /\ UNCHANGED <<status, revived>>
       \/ \E d \in Newest(sweep.todo) :
             /\ SafeUpdate(d, "COMPLETED")
             /\ sweep' = [todo |-> sweep.todo \ {d}, dep |-> d, step |-> "record"]
    /\ UNCHANGED <<now, boot, restarts, created, request, pipe, found,
                   production, view, verified, before, gaveUp>>

BootRecord ==
    /\ sweep.step = "record"
    /\ production' = sweep.dep
    /\ sweep' = [sweep EXCEPT !.dep = NoDep, !.step = "complete"]
    /\ UNCHANGED <<now, boot, restarts, status, created, request, pipe, found,
                   view, verified, revived, before, gaveUp>>

\* It throws: the empty handler gives up on the deployments not yet reached.
BootThrows ==
    /\ sweep.step = "record"
    /\ RecordMayFail
    /\ sweep' = SweepOver
    /\ gaveUp' = gaveUp \union sweep.todo
    /\ UNCHANGED <<now, boot, restarts, status, created, request, pipe, found,
                   production, view, verified, revived, before>>

Boot == BootRead \/ BootComplete \/ BootRecord \/ BootThrows

-----------------------------------------------------------------------------
\* clearHistory: deleteMany of what is not active.
ClearHistory ==
    /\ \E d \in Deps : status[d] \in Final
    /\ status' = [d \in Deps |-> IF status[d] \in Final THEN "gone" ELSE status[d]]
    /\ UNCHANGED <<now, boot, restarts, created, request, pipe, found,
                   production, view, sweep, verified, revived, before, gaveUp>>

\* (Mutant) a process that comes back without looking for dead pipelines.
RestartForgetful ==
    /\ restarts < MaxRestarts
    /\ restarts' = restarts + 1
    /\ boot' = now
    /\ pipe' = [d \in Deps |-> "none"]
    /\ request' = [d \in Deps |-> IF request[d] = "creating" THEN "over" ELSE request[d]]
    /\ view' = NoView
    /\ sweep' = SweepOver
    /\ UNCHANGED <<now, status, created, found, production, verified, revived, before, gaveUp>>

\* The process is replaced: pipelines, requests and reconciliations die where
\* they stand, and the new process reconciles.
Restart ==
    /\ restarts < MaxRestarts
    /\ restarts' = restarts + 1
    /\ boot' = now
    /\ pipe' = [d \in Deps |-> "none"]
    /\ request' = [d \in Deps |-> IF request[d] = "creating" THEN "over" ELSE request[d]]
    /\ view' = NoView
    /\ sweep' = SweepDue
    /\ UNCHANGED <<now, status, created, found, production, verified, revived, before, gaveUp>>

Tick ==
    /\ now < MaxTime
    /\ now' = now + 1
    /\ UNCHANGED <<boot, restarts, status, created, request, pipe, found,
                   production, view, sweep, verified, revived, before, gaveUp>>

Next ==
    \/ \E d \in Deps : AskDeploy(d) \/ CreateDeployment(d) \/ PipelineStep(d)
    \/ Overview \/ Boot \/ ClearHistory \/ Restart \/ Tick

Spec == Init /\ [][Next]_vars

\* The pipeline's awaits all have time limits and its updates swallow errors,
\* so it goes on while the process lives; so do the boot reconciliation and a
\* request that passed the lock.  Nobody has to open the overview.
FairSpec ==
    /\ Spec
    /\ \A d \in Deps : WF_vars(PipelineStep(d)) /\ WF_vars(CreateDeployment(d))
    /\ WF_vars(Boot)

-----------------------------------------------------------------------------
(* Properties. *)

\* The lock: when a deployment was asked for after another one existed, both
\* are active at once only if the earlier was past the 15 minutes, or had left
\* the active statuses and been written back into them (startDeploy).
LockHolds ==
    \A d, e \in ActiveDeps :
        d \in before[e].deps /\ d # e => created[d] < before[e].at - LockWindow \/ d \in revived

\* Every deployment leaves the active statuses, in the pipeline or, when the
\* process died under it, by the reconciliation of the next boot - unless that one
\* threw over another deployment (its handler is empty).
EveryDeploymentEnds == \A d \in Deps :
    (status[d] \in Active) ~> (status[d] \notin Active \/ d \in gaveUp)

\* A deployment still under way is not announced as the production version,
\* unless it had been declared completed before: whoever records a release has
\* written COMPLETED first (pipeline, overview and boot reconciliation).
ReleaseAfterCompletion == production \in ActiveDeps => production \in revived

\* deployment-orchestrator.ts:356: "atomica com lock de concorrencia" - one
\* active deployment at a time.
OneActive == Cardinality(ActiveDeps) <= 1

\* deployment-state-machine.ts:12-13: SUCCESS/COMPLETED and FAILED are final.
FinalStays ==
    [][\A d \in Deps : status[d] \in Final => status'[d] \in {status[d], "gone"}]_vars

\* deployment-state-machine.ts:12: COMPLETED means verified.
CompletedIsVerified == \A d \in Deps : status[d] = "COMPLETED" => d \in verified

\* deployment-orchestrator.ts:71: "Grava a versao confirmada de producao" - the
\* version on record is not one whose deployment failed.
ProductionConfirmed == production # NoDep => status[production] # "FAILED"
=============================================================================

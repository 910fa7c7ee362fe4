----------------------------- MODULE DeployProofs -----------------------------
(***************************************************************************)
(* Proofs about the production deployments, for any set of requests, any   *)
(* windows and any number of restarts.                                     *)
(*                                                                         *)
(* Neither property is inductive.  What the lock saw when a deployment was *)
(* asked for stays true of it because a record that has left the active    *)
(* statuses comes back into them only by being revived (LockRemembered);   *)
(* whoever is about to record a release has written COMPLETED, which       *)
(* nothing takes back without reviving it (RecordersCompleted).            *)
(***************************************************************************)
EXTENDS Deploy, TLAPS

\* The deployments that had left the active statuses at some time.
Ended(d) == status[d] \in Final \union {"gone"} \/ d \in revived

\* A deployment that passed the lock saw nothing active inside the window.
LockRemembered == \A e \in Deps : request[e] = "creating" \/ status[e] # "none" =>
    \A d \in before[e].deps \ {e} :
        status[d] # "none" /\ (created[d] < before[e].at - LockWindow \/ Ended(d))

\* A deployment comes from a request; who works on one works on one that was
\* created, and is about to record only one that has ended.
Requested == \A d \in Deps : request[d] # "over" => status[d] = "none"

PipesKnow ==
    /\ \A d \in Deps : pipe[d] # "none" => status[d] # "none"
    /\ \A d \in Deps : pipe[d] = "record" => Ended(d)

ViewKnows ==
    /\ view.step # "read" => view.dep # NoDep
    /\ view.dep # NoDep => status[view.dep] # "none"
    /\ view.step = "record" => Ended(view.dep)

SweepKnows ==
    /\ sweep.step = "record" => sweep.dep # NoDep /\ Ended(sweep.dep)
    /\ sweep.dep # NoDep => status[sweep.dep] # "none"
    /\ \A d \in sweep.todo : status[d] # "none"

ReleaseEnded == production # NoDep => Ended(production)

RecordersCompleted == PipesKnow /\ ViewKnows /\ SweepKnows /\ ReleaseEnded

DeployInv == TypeOK /\ Requested /\ LockRemembered /\ RecordersCompleted

-----------------------------------------------------------------------------
LEMMA InitInv == Init => DeployInv
<1> SUFFICES ASSUME Init PROVE DeployInv
  OBVIOUS
<1>1. TypeOK
  BY BoundsNatural DEF Init, TypeOK, NoView, SweepOver, Active, Final
<1>2. Requested /\ LockRemembered /\ RecordersCompleted
  BY DEF Init, Requested, LockRemembered, RecordersCompleted, PipesKnow,
         ViewKnows, SweepKnows, ReleaseEnded, NoView, SweepOver
<1> QED
  BY <1>1, <1>2 DEF DeployInv

\* An update by id keeps the types, and nobody comes back silently.
LEMMA UpdateKeeps ==
    ASSUME TypeOK, NEW d \in Deps, NEW s \in Active \union Final, SafeUpdate(d, s)
    PROVE  /\ status' \in [Deps -> Active \union Final \union {"none", "gone"}]
           /\ revived' \subseteq Deps
           /\ \A e \in Deps : Ended(e) => Ended(e)'
           /\ \A e \in Deps \ {d} : status'[e] = status[e]
           /\ status'[d] # "none"
           /\ s \in Final => Ended(d)'
BY DEF SafeUpdate, TypeOK, Ended, Active, Final

\* Every step of the pipeline but two writes a status and moves on.
LEMMA PipelineWrites ==
    ASSUME NEW d \in Deps,
           StartBuild(d) \/ BuildAccepted(d) \/ BuildRefused(d) \/ StartValidation(d)
           \/ Complete(d) \/ Unhealthy(d) \/ RecordThrows(d)
    PROVE  \E s \in Active \union Final :
           \E place \in {"none", "trigger", "restarting", "health", "record"} :
               /\ pipe[d] # "none"
               /\ place = "record" => s \in Final
               /\ SafeUpdate(d, s) /\ PipeTo(d, place)
               /\ UNCHANGED <<now, boot, restarts, created, request, production, view, sweep,
                              before, gaveUp, found, verified>>
<1> USE DEF Pipeline, Active, Final
<1>1. CASE StartBuild(d)  BY <1>1 DEF StartBuild
<1>2. CASE BuildAccepted(d)  BY <1>2 DEF BuildAccepted
<1>3. CASE BuildRefused(d)  BY <1>3 DEF BuildRefused
<1>4. CASE StartValidation(d)  BY <1>4 DEF StartValidation
<1>5. CASE Complete(d)  BY <1>5 DEF Complete
<1>6. CASE Unhealthy(d)  BY <1>6 DEF Unhealthy
<1>7. CASE RecordThrows(d)  BY <1>7 DEF RecordThrows
<1> QED  BY <1>1, <1>2, <1>3, <1>4, <1>5, <1>6, <1>7

-----------------------------------------------------------------------------
(* Types. *)

LEMMA StepTyped == DeployInv /\ [Next]_vars => TypeOK'
<1> SUFFICES ASSUME DeployInv, [Next]_vars PROVE TypeOK'
  OBVIOUS
<1>0. TypeOK /\ Requested /\ PipesKnow /\ ViewKnows /\ SweepKnows /\ ReleaseEnded
  BY DEF DeployInv, RecordersCompleted
<1>1. ASSUME NEW d \in Deps, AskDeploy(d) PROVE TypeOK'
  BY <1>0, <1>1 DEF AskDeploy, TypeOK
<1>2. ASSUME NEW d \in Deps, CreateDeployment(d) PROVE TypeOK'
  BY <1>0, <1>2 DEF CreateDeployment, TypeOK, Active, Final
<1>3. ASSUME NEW d \in Deps, PipelineStep(d) PROVE TypeOK'
  <2>1. CASE StartBuild(d) \/ BuildAccepted(d) \/ BuildRefused(d) \/ StartValidation(d)
             \/ Complete(d) \/ Unhealthy(d) \/ RecordThrows(d)
    <3> PICK s \in Active \union Final, place \in {"none", "trigger", "restarting", "health", "record"} :
             /\ SafeUpdate(d, s) /\ PipeTo(d, place)
             /\ UNCHANGED <<now, boot, restarts, created, request, production, view, sweep,
                            before, gaveUp, found, verified>>
      BY <2>1, PipelineWrites
    <3>1. /\ status' \in [Deps -> Active \union Final \union {"none", "gone"}]
          /\ revived' \subseteq Deps
      BY <1>0, UpdateKeeps
    <3> QED  BY <1>0, <3>1 DEF PipeTo, TypeOK
  <2>2. CASE HealthPasses(d)
    BY <1>0, <2>2 DEF HealthPasses, PipeTo, TypeOK
  <2>3. CASE RecordRelease(d)
    BY <1>0, <2>3 DEF RecordRelease, PipeTo, TypeOK
  <2> QED  BY <1>3, <2>1, <2>2, <2>3 DEF PipelineStep
<1>4. CASE Overview
  <2>1. CASE OverviewRead
    BY <1>0, <2>1 DEF OverviewRead, Newest, ActiveDeps, TypeOK
  <2>2. CASE OverviewComplete
    <3>1. view.dep \in Deps  BY <1>0, <2>2 DEF OverviewComplete, ViewKnows, TypeOK
    <3>2. /\ status' \in [Deps -> Active \union Final \union {"none", "gone"}]
          /\ revived' \subseteq Deps
      BY <1>0, <2>2, <3>1, UpdateKeeps DEF OverviewComplete, Final
    <3> QED  BY <1>0, <2>2, <3>2 DEF OverviewComplete, TypeOK
  <2>3. CASE OverviewRecord
    BY <1>0, <2>3 DEF OverviewRecord, NoView, TypeOK
  <2> QED  BY <1>4, <2>1, <2>2, <2>3 DEF Overview
<1>5. CASE Boot
  <2>1. CASE BootRead
    BY <1>0, <2>1 DEF BootRead, ActiveDeps, TypeOK
  <2>2. CASE BootComplete
    <3>1. CASE sweep.todo = {} /\ sweep' = SweepOver /\ UNCHANGED <<status, revived>>
      BY <1>0, <2>2, <3>1 DEF BootComplete, SweepOver, TypeOK
    <3>2. ASSUME NEW d \in Newest(sweep.todo), SafeUpdate(d, "COMPLETED"),
                 sweep' = [todo |-> sweep.todo \ {d}, dep |-> d, step |-> "record"]
          PROVE  TypeOK'
      <4>1. d \in Deps  BY <1>0 DEF Newest, TypeOK
      <4>2. /\ status' \in [Deps -> Active \union Final \union {"none", "gone"}]
            /\ revived' \subseteq Deps
        BY <1>0, <3>2, <4>1, UpdateKeeps DEF Final
      <4> QED  BY <1>0, <2>2, <3>2, <4>1, <4>2 DEF BootComplete, TypeOK
    <3> QED  BY <2>2, <3>1, <3>2 DEF BootComplete
  <2>3. CASE BootRecord
    BY <1>0, <2>3 DEF BootRecord, SweepKnows, TypeOK
  <2>4. CASE BootThrows
    BY <1>0, <2>4 DEF BootThrows, SweepOver, TypeOK
  <2> QED  BY <1>5, <2>1, <2>2, <2>3, <2>4 DEF Boot
<1>6. CASE ClearHistory
  BY <1>0, <1>6 DEF ClearHistory, TypeOK, Final
<1>7. CASE Restart
  <2>1. request' \in [Deps -> {"idle", "creating", "over"}]
    BY <1>0, <1>7 DEF Restart, TypeOK
  <2>2. NoView \in [dep : Deps \union {NoDep}, step : {"read", "complete", "record"}]
        /\ SweepDue \in [todo : SUBSET Deps, dep : Deps \union {NoDep},
                          step : {"read", "complete", "record", "over"}]
    BY DEF NoView, SweepDue
  <2>3. restarts' \in 0..MaxRestarts
    BY <1>0, <1>7, BoundsNatural DEF Restart, TypeOK
  <2> QED  BY <1>0, <1>7, <2>1, <2>2, <2>3 DEF Restart, TypeOK
<1>8. CASE Tick
  BY <1>0, <1>8, BoundsNatural DEF Tick, TypeOK
<1>9. CASE UNCHANGED vars
  BY <1>0, <1>9 DEF vars, TypeOK
<1> QED
  BY <1>1, <1>2, <1>3, <1>4, <1>5, <1>6, <1>7, <1>8, <1>9 DEF Next

-----------------------------------------------------------------------------
(* What any step may do to a deployment. *)

\* Nobody un-creates a deployment or moves its date, and what has ended has ended.
Lasting ==
    /\ \A d \in Deps : Ended(d) => Ended(d)'
    /\ \A d \in Deps : status[d] # "none" => status'[d] # "none" /\ created'[d] = created[d]

\* A request is what creates one, and passes the lock before.
Asked ==
    /\ \A d \in Deps : status'[d] # "none" => status[d] # "none" \/ request[d] = "creating"
    /\ \A d \in Deps : request'[d] = "creating" /\ request[d] # "creating" => AskDeploy(d) /\ ~Locked
    /\ \A d \in Deps : request[d] # "idle" => before'[d] = before[d]
    /\ \A d \in Deps : request[d] = "over" => request'[d] = "over"
    /\ \A d \in Deps : request[d] = "creating" /\ request'[d] = "creating" => status'[d] = status[d]
    /\ \A d \in Deps : request'[d] = "idle" => request[d] = "idle" /\ status'[d] = status[d]

\* A step that leaves the requests alone and creates nothing.
LEMMA QuietlyAsked ==
    ASSUME DeployInv, UNCHANGED <<request, before>>,
           \A d \in Deps : status[d] = "none" => status'[d] = "none"
    PROVE  Asked
BY DEF Asked, DeployInv, Requested

\* An update by id of a deployment that was created.
LEMMA UpdateLasts ==
    ASSUME DeployInv, NEW d \in Deps, status[d] # "none", NEW s \in Active \union Final,
           SafeUpdate(d, s), UNCHANGED created
    PROVE  Lasting /\ \A e \in Deps : status[e] = "none" => status'[e] = "none"
BY UpdateKeeps DEF DeployInv, Lasting

LEMMA StepMoves == DeployInv /\ [Next]_vars => Lasting /\ Asked
<1> SUFFICES ASSUME DeployInv, [Next]_vars PROVE Lasting /\ Asked
  OBVIOUS
<1>0. TypeOK /\ Requested /\ PipesKnow /\ ViewKnows /\ SweepKnows /\ ReleaseEnded
  BY DEF DeployInv, RecordersCompleted
<1>1. ASSUME NEW d \in Deps, AskDeploy(d) PROVE Lasting /\ Asked
  <2>1. Lasting  BY <1>1 DEF AskDeploy, Lasting, Ended
  <2>2. \A e \in Deps \ {d} : request'[e] = request[e] /\ before'[e] = before[e]
    BY <1>0, <1>1 DEF AskDeploy, TypeOK
  <2>3. request[d] = "idle" /\ (request'[d] = "over" \/ (request'[d] = "creating" /\ ~Locked))
    BY <1>0, <1>1 DEF AskDeploy, TypeOK
  <2>4. status' = status  BY <1>1 DEF AskDeploy
  <2> QED  BY <1>1, <2>1, <2>2, <2>3, <2>4 DEF Asked
<1>2. ASSUME NEW d \in Deps, CreateDeployment(d) PROVE Lasting /\ Asked
  <2>1. status[d] = "none"  BY <1>0, <1>2 DEF CreateDeployment, Requested
  <2>2. /\ request[d] = "creating" /\ request'[d] = "over"
        /\ status'[d] # "none" /\ before' = before /\ revived' = revived
    BY <1>0, <1>2 DEF CreateDeployment, TypeOK
  <2>3. \A e \in Deps \ {d} : /\ request'[e] = request[e] /\ status'[e] = status[e]
                              /\ created'[e] = created[e]
    BY <1>0, <1>2 DEF CreateDeployment, TypeOK
  <2> QED  BY <2>1, <2>2, <2>3 DEF Asked, Lasting, Ended, Final
<1>3. ASSUME NEW d \in Deps, PipelineStep(d) PROVE Lasting /\ Asked
  <2>1. CASE HealthPasses(d) \/ RecordRelease(d)
    BY <2>1, QuietlyAsked DEF HealthPasses, RecordRelease, Lasting, Ended
  <2>2. CASE ~(HealthPasses(d) \/ RecordRelease(d))
    <3> PICK s \in Active \union Final : /\ SafeUpdate(d, s) /\ pipe[d] # "none"
                                         /\ UNCHANGED <<created, request, before>>
      BY <1>3, <2>2, PipelineWrites DEF PipelineStep
    <3> QED  BY <1>0, QuietlyAsked, UpdateLasts DEF PipesKnow
  <2> QED  BY <2>1, <2>2
<1>4. CASE Overview
  <2>1. CASE OverviewRead \/ OverviewRecord
    BY <2>1, QuietlyAsked DEF OverviewRead, OverviewRecord, Lasting, Ended
  <2>2. CASE OverviewComplete
    <3>1. view.dep \in Deps /\ status[view.dep] # "none"
      BY <1>0, <2>2 DEF OverviewComplete, ViewKnows, TypeOK
    <3> QED  BY <2>2, <3>1, QuietlyAsked, UpdateLasts DEF OverviewComplete, Final
  <2> QED  BY <1>4, <2>1, <2>2 DEF Overview
<1>5. CASE Boot
  <2>1. CASE BootRead \/ BootRecord \/ BootThrows
    BY <2>1, QuietlyAsked DEF BootRead, BootRecord, BootThrows, Lasting, Ended
  <2>2. CASE BootComplete
    <3>1. CASE UNCHANGED <<status, revived>>
      BY <2>2, <3>1, QuietlyAsked DEF BootComplete, Lasting, Ended
    <3>2. ASSUME NEW d \in Newest(sweep.todo), SafeUpdate(d, "COMPLETED") PROVE Lasting /\ Asked
      <4>1. d \in Deps /\ status[d] # "none"
        BY <1>0 DEF Newest, SweepKnows, TypeOK
      <4> QED  BY <2>2, <3>2, <4>1, QuietlyAsked, UpdateLasts DEF BootComplete, Final
    <3> QED  BY <2>2, <3>1, <3>2 DEF BootComplete
  <2> QED  BY <1>5, <2>1, <2>2 DEF Boot
<1>6. CASE ClearHistory
  <2>1. \A d \in Deps : status'[d] = IF status[d] \in Final THEN "gone" ELSE status[d]
    BY <1>0, <1>6 DEF ClearHistory, TypeOK
  <2>2. UNCHANGED <<created, revived, request, before>>  BY <1>6 DEF ClearHistory
  <2> QED  BY <2>1, <2>2, QuietlyAsked DEF Lasting, Ended, Final
<1>7. CASE Restart
  <2>1. \A d \in Deps : request'[d] = IF request[d] = "creating" THEN "over" ELSE request[d]
    BY <1>0, <1>7 DEF Restart, TypeOK
  <2>2. UNCHANGED <<status, created, revived, before>>  BY <1>7 DEF Restart
  <2> QED  BY <2>1, <2>2 DEF Lasting, Ended, Asked
<1>8. CASE Tick \/ UNCHANGED vars
  BY <1>8, QuietlyAsked DEF Tick, vars, Lasting, Ended
<1> QED
  BY <1>1, <1>2, <1>3, <1>4, <1>5, <1>6, <1>7, <1>8 DEF Next

-----------------------------------------------------------------------------
(* The lock. *)

LEMMA StepRemembers == DeployInv /\ [Next]_vars => LockRemembered'
<1> SUFFICES ASSUME DeployInv, [Next]_vars,
                    NEW e \in Deps, request'[e] = "creating" \/ status'[e] # "none",
                    NEW d \in before'[e].deps \ {e}
             PROVE  /\ status'[d] # "none"
                    /\ created'[d] < before'[e].at - LockWindow \/ Ended(d)'
  BY DEF LockRemembered
<1>0. TypeOK /\ Requested /\ LockRemembered /\ Lasting /\ Asked
  BY StepMoves DEF DeployInv
<1>1. CASE request[e] = "creating" \/ status[e] # "none"
  <2>1. request[e] # "idle"  BY <1>0, <1>1 DEF Requested
  <2>2. before'[e] = before[e]  BY <1>0, <2>1 DEF Asked
  <2>3. d \in Deps  BY <1>0, <2>2 DEF TypeOK
  <2> QED  BY <1>0, <1>1, <2>2, <2>3 DEF LockRemembered, Lasting
<1>2. CASE ~(request[e] = "creating" \/ status[e] # "none")
  <2>1. AskDeploy(e) /\ ~Locked  BY <1>0, <1>2 DEF Asked
  <2>2. /\ before'[e] = [deps |-> {f \in Deps : status[f] # "none"}, at |-> now]
        /\ UNCHANGED <<status, created, revived>>
    BY <1>0, <2>1 DEF AskDeploy, TypeOK
  <2>3. d \in Deps /\ status[d] # "none"  BY <2>2
  <2>4. status[d] \in Active => created[d] < now - LockWindow
    BY <1>0, <2>1, <2>3, TicksNatural DEF Locked, ActiveDeps, TypeOK
  <2>5. status[d] \in Active \/ Ended(d)  BY <1>0, <2>3 DEF TypeOK, Ended
  <2> QED  BY <2>2, <2>3, <2>4, <2>5 DEF Ended
<1> QED  BY <1>1, <1>2

-----------------------------------------------------------------------------
(* Who works on what, and who has written COMPLETED. *)

\* What a step leaves alone stays as it was known to be.
LEMMA LeftAlone ==
    ASSUME DeployInv, Lasting
    PROVE  /\ pipe' = pipe => PipesKnow'
           /\ view' = view => ViewKnows'
           /\ sweep' = sweep => SweepKnows'
           /\ production' = production => ReleaseEnded'
<1>0. TypeOK /\ Requested /\ PipesKnow /\ ViewKnows /\ SweepKnows /\ ReleaseEnded
  BY DEF DeployInv, RecordersCompleted
<1>1. pipe' = pipe => PipesKnow'  BY <1>0 DEF Lasting, PipesKnow
<1>2. view' = view => ViewKnows'
  BY <1>0 DEF TypeOK, Lasting, ViewKnows
<1>3. sweep' = sweep => SweepKnows'
  BY <1>0 DEF TypeOK, Lasting, SweepKnows
<1>4. production' = production => ReleaseEnded'
  BY <1>0 DEF TypeOK, Lasting, ReleaseEnded
<1> QED  BY <1>1, <1>2, <1>3, <1>4

LEMMA StepWorks == DeployInv /\ [Next]_vars => RecordersCompleted'
<1> SUFFICES ASSUME DeployInv, [Next]_vars PROVE RecordersCompleted'
  OBVIOUS
<1>0. TypeOK /\ Requested /\ PipesKnow /\ ViewKnows /\ SweepKnows /\ ReleaseEnded /\ Lasting /\ Asked
  BY StepMoves DEF DeployInv, RecordersCompleted
<1> USE LeftAlone DEF RecordersCompleted
<1>1. ASSUME NEW d \in Deps, AskDeploy(d) PROVE RecordersCompleted'
  BY <1>0, <1>1 DEF AskDeploy
<1>2. ASSUME NEW d \in Deps, CreateDeployment(d) PROVE RecordersCompleted'
  <2>1. PipesKnow'
    BY <1>0, <1>2 DEF CreateDeployment, PipesKnow, TypeOK, Requested, Lasting
  <2> QED  BY <1>0, <1>2, <2>1 DEF CreateDeployment
<1>3. ASSUME NEW d \in Deps, PipelineStep(d) PROVE RecordersCompleted'
  <2>1. CASE HealthPasses(d)
    <3>1. PipesKnow'  BY <1>0, <2>1 DEF HealthPasses, PipeTo, PipesKnow, TypeOK, Lasting
    <3> QED  BY <1>0, <2>1, <3>1 DEF HealthPasses
  <2>2. CASE RecordRelease(d)
    <3>1. PipesKnow'  BY <1>0, <2>2 DEF RecordRelease, PipeTo, PipesKnow, TypeOK, Lasting
    <3>2. ReleaseEnded'
      BY <1>0, <2>2 DEF RecordRelease, ReleaseEnded, PipesKnow, Lasting, TypeOK
    <3> QED  BY <1>0, <2>2, <3>1, <3>2 DEF RecordRelease
  <2>3. CASE ~(HealthPasses(d) \/ RecordRelease(d))
    <3> PICK s \in Active \union Final,
             place \in {"none", "trigger", "restarting", "health", "record"} :
             /\ pipe[d] # "none" /\ (place = "record" => s \in Final)
             /\ SafeUpdate(d, s) /\ PipeTo(d, place)
             /\ UNCHANGED <<production, view, sweep>>
      BY <1>3, <2>3, PipelineWrites DEF PipelineStep
    <3>1. place = "record" => Ended(d)'  BY <1>0, UpdateKeeps
    <3>2. PipesKnow'  BY <1>0, <3>1 DEF PipeTo, PipesKnow, TypeOK, Lasting
    <3> QED  BY <1>0, <3>2
  <2> QED  BY <2>1, <2>2, <2>3
<1>4. CASE Overview
  <2>1. CASE OverviewRead
    <3>1. ViewKnows'
      BY <1>0, <2>1, NoDepApart DEF OverviewRead, Newest, ActiveDeps, Active, ViewKnows, Lasting
    <3> QED  BY <1>0, <2>1, <3>1 DEF OverviewRead
  <2>2. CASE OverviewComplete
    <3>1. view.dep \in Deps /\ status[view.dep] # "none"
      BY <1>0, <2>2 DEF OverviewComplete, ViewKnows, TypeOK
    <3>2. Ended(view.dep)'  BY <1>0, <2>2, <3>1, UpdateKeeps DEF OverviewComplete, Final
    <3>3. view'.dep = view.dep /\ view'.step = "record"
      BY <1>0, <2>2 DEF OverviewComplete, TypeOK
    <3>4. ViewKnows'  BY <1>0, <3>1, <3>2, <3>3, NoDepApart DEF ViewKnows, Lasting
    <3> QED  BY <1>0, <2>2, <3>4 DEF OverviewComplete
  <2>3. CASE OverviewRecord
    <3>1. view.dep \in Deps /\ Ended(view.dep)
      BY <1>0, <2>3 DEF OverviewRecord, ViewKnows, TypeOK
    <3>2. ReleaseEnded'  BY <1>0, <2>3, <3>1 DEF OverviewRecord, ReleaseEnded, Lasting
    <3>3. ViewKnows'  BY <1>0, <2>3 DEF OverviewRecord, NoView, ViewKnows
    <3> QED  BY <1>0, <2>3, <3>2, <3>3 DEF OverviewRecord
  <2> QED  BY <1>4, <2>1, <2>2, <2>3 DEF Overview
<1>5. CASE Boot
  <2>1. CASE BootRead
    <3>1. SweepKnows'
      BY <1>0, <2>1 DEF BootRead, ActiveDeps, Active, SweepKnows, Lasting
    <3> QED  BY <1>0, <2>1, <3>1 DEF BootRead
  <2>2. CASE BootComplete
    <3>1. CASE sweep' = SweepOver
      <4>1. SweepKnows'  BY <3>1 DEF SweepOver, SweepKnows
      <4> QED  BY <1>0, <2>2, <4>1 DEF BootComplete
    <3>2. ASSUME NEW d \in Newest(sweep.todo), SafeUpdate(d, "COMPLETED"),
                 sweep' = [todo |-> sweep.todo \ {d}, dep |-> d, step |-> "record"]
          PROVE  SweepKnows'
      <4>1. d \in Deps /\ status[d] # "none"  BY <1>0 DEF Newest, SweepKnows, TypeOK
      <4>2. Ended(d)'  BY <1>0, <3>2, <4>1, UpdateKeeps DEF Final
      <4>3. \A e \in sweep.todo : status'[e] # "none"
        BY <1>0 DEF SweepKnows, Lasting, TypeOK
      <4> QED  BY <1>0, <3>2, <4>1, <4>2, <4>3, NoDepApart DEF SweepKnows, Lasting
    <3> QED  BY <1>0, <2>2, <3>1, <3>2 DEF BootComplete
  <2>3. CASE BootRecord
    <3>1. sweep.dep \in Deps /\ Ended(sweep.dep)
      BY <1>0, <2>3 DEF BootRecord, SweepKnows, TypeOK
    <3>2. ReleaseEnded'  BY <1>0, <2>3, <3>1 DEF BootRecord, ReleaseEnded, Lasting
    <3>3. sweep'.dep = NoDep /\ sweep'.step = "complete" /\ sweep'.todo = sweep.todo
      BY <1>0, <2>3 DEF BootRecord, TypeOK
    <3>4. SweepKnows'  BY <1>0, <3>3 DEF SweepKnows, Lasting, TypeOK
    <3> QED  BY <1>0, <2>3, <3>2, <3>4 DEF BootRecord
  <2>4. CASE BootThrows
    <3>1. SweepKnows'  BY <2>4 DEF BootThrows, SweepOver, SweepKnows
    <3> QED  BY <1>0, <2>4, <3>1 DEF BootThrows
  <2> QED  BY <1>5, <2>1, <2>2, <2>3, <2>4 DEF Boot
<1>6. CASE ClearHistory \/ Tick \/ UNCHANGED vars
  BY <1>0, <1>6 DEF ClearHistory, Tick, vars
<1>7. CASE Restart
  <2>1. PipesKnow'  BY <1>7 DEF Restart, PipesKnow
  <2>2. ViewKnows' /\ SweepKnows'  BY <1>7 DEF Restart, NoView, SweepDue, ViewKnows, SweepKnows
  <2> QED  BY <1>0, <1>7, <2>1, <2>2 DEF Restart
<1> QED
  BY <1>1, <1>2, <1>3, <1>4, <1>5, <1>6, <1>7 DEF Next

LEMMA StepRequested == DeployInv /\ [Next]_vars => Requested'
<1> SUFFICES ASSUME DeployInv, [Next]_vars,
                    NEW d \in Deps, request'[d] # "over"
             PROVE  status'[d] = "none"
  BY DEF Requested
<1>0. Requested /\ Asked /\ TypeOK'  BY StepMoves, StepTyped DEF DeployInv
<1>1. CASE request'[d] = "idle"  BY <1>0, <1>1 DEF Asked, Requested
<1>2. CASE request'[d] = "creating" /\ request[d] = "creating"
  BY <1>0, <1>2 DEF Asked, Requested
<1>3. CASE request'[d] = "creating" /\ request[d] # "creating"
  BY <1>0, <1>3 DEF Asked, Requested, AskDeploy
<1> QED  BY <1>0, <1>1, <1>2, <1>3 DEF TypeOK

LEMMA DeployInvariant == Spec => []DeployInv
<1>1. DeployInv /\ [Next]_vars => DeployInv'
  BY StepTyped, StepRequested, StepRemembers, StepWorks DEF DeployInv
<1> QED  BY InitInv, <1>1, PTL DEF Spec

-----------------------------------------------------------------------------
\* Types: what the requests, the pipelines and the two reconciliations keep.
THEOREM DeployTyped == Spec => []TypeOK
<1>1. DeployInv => TypeOK  BY DEF DeployInv
<1> QED  BY <1>1, DeployInvariant, PTL

\* The lock of startDeploy holds against everything but its own window and a final
\* status taken back, for any number of requests, restarts and reconciliations.
THEOREM LockHoldsAlways == Spec => []LockHolds
<1>1. DeployInv => LockHolds
  BY DEF DeployInv, LockRemembered, LockHolds, ActiveDeps, Active, Ended, Final
<1> QED  BY <1>1, DeployInvariant, PTL

\* A release is recorded after COMPLETED was written (pipeline, overview, boot).
THEOREM ReleasedAfterCompletion == Spec => []ReleaseAfterCompletion
<1>1. DeployInv => ReleaseAfterCompletion
  BY NoDepApart
     DEF DeployInv, RecordersCompleted, ReleaseEnded, ReleaseAfterCompletion, ActiveDeps, Active, Ended, Final
<1> QED  BY <1>1, DeployInvariant, PTL
=============================================================================

------------------------------ MODULE MCCompany ------------------------------
(***************************************************************************)
(* What happens inside one company, one part at a time: its idle           *)
(* conversations are closed, its team and its subscription are             *)
(* administered, a document of its knowledge base is indexed.  The parts   *)
(* share no state, so a behaviour is about one of them, its scene, and the *)
(* others keep their initial state; the passes of the inactivity scheduler *)
(* are scheduled fairly in theirs.                                         *)
(***************************************************************************)
EXTENDS InactivitySweep, Team, Subscription, KnowledgeJobs, TLC

\* Four months of two days, one day, two days and two days, lived up to the third.
Year == <<2, 1, 2, 2>>
Last == <<3, 1>>

VARIABLE scene

companyVars == <<scene, sweepVars, teamVars, billingVars, knowledgeVars>>

CompanyInit ==
    /\ scene \in {"sweep", "team", "billing", "knowledge"}
    /\ SweepInit /\ TeamInit /\ BillingInit /\ KnowledgeInit
    /\ scene # "sweep" => held = {}
    /\ scene # "team" => \A p \in People : membership[p].role = "ADMIN"
    /\ scene # "billing" => contract.day = 0
    /\ scene # "knowledge" => doc.status = "queued" /\ doc.content = CHOOSE t \in Texts : TRUE

CompanyNext ==
    /\ UNCHANGED scene
    /\ \/ scene = "sweep" /\ SweepNext /\ UNCHANGED <<teamVars, billingVars, knowledgeVars>>
       \/ scene = "team" /\ TeamNext /\ UNCHANGED <<sweepVars, billingVars, knowledgeVars>>
       \/ scene = "billing" /\ BillingNext /\ UNCHANGED <<sweepVars, teamVars, knowledgeVars>>
       \/ scene = "knowledge" /\ KnowledgeNext /\ UNCHANGED <<sweepVars, teamVars, billingVars>>

CompanySpec ==
    /\ CompanyInit /\ [][CompanyNext]_companyVars
    /\ \A p \in Passes : WF_sweepVars(scene = "sweep" /\ PassStep(p))

\* The type invariant of the part the behaviour is about.
CompanyTypesOK ==
    CASE scene = "sweep" -> SweepTypeOK [] scene = "team" -> TeamTypeOK
      [] scene = "billing" -> BillingTypeOK [] scene = "knowledge" -> KnowledgeTypeOK
=============================================================================

----------------------------- MODULE MCServices -----------------------------
(***************************************************************************)
(* What the API does in the background, one part at a time: the outbound   *)
(* webhooks, the WhatsApp session and the removal of companies.  The parts *)
(* share no state, so a behaviour is about one of them, its scene, and the *)
(* others keep their initial state; a part is scheduled fairly in its own  *)
(* scene.                                                                  *)
(***************************************************************************)
EXTENDS WebhookDelivery, WhatsAppSession, TenantDeletion, TLC

VARIABLE scene

serviceVars == <<scene, webhookVars, sessionVars, deletionVars>>

ServicesInit ==
    /\ scene \in {"webhook", "session", "deletion"}
    /\ WebhookInit /\ SessionInit /\ DeletionInit
    /\ scene # "session" => ~creds

ServicesNext ==
    /\ UNCHANGED scene
    /\ \/ scene = "webhook" /\ WebhookNext /\ UNCHANGED <<sessionVars, deletionVars>>
       \/ scene = "session" /\ SessionNext /\ UNCHANGED <<webhookVars, deletionVars>>
       \/ scene = "deletion" /\ DeletionNext /\ UNCHANGED <<webhookVars, sessionVars>>

ServicesSpec ==
    /\ ServicesInit /\ [][ServicesNext]_serviceVars
    /\ \A a \in Attempts : WF_webhookVars(scene = "webhook" /\ AttemptStep(a))
    /\ \A d \in Deliveries : /\ WF_webhookVars(scene = "webhook" /\ PickRetry(d))
                             /\ WF_webhookVars(scene = "webhook" /\ BecomeDue(d))
                             /\ WF_webhookVars(scene = "webhook" /\ FireTimer(d))
    /\ WF_sessionVars(scene = "session" /\ FireReconnect)
    /\ WF_sessionVars(scene = "session" /\ (MakeSocket \/ StartFails))
    /\ WF_sessionVars(scene = "session" /\ EndWait)
    /\ WF_sessionVars(scene = "session" /\ LogoutEnds)
    /\ \A p \in JobPasses : WF_deletionVars(scene = "deletion" /\ JobStep(p))
    /\ \A r \in Requests : WF_deletionVars(scene = "deletion" /\ PurgeStep(r))

\* The type invariant of the part the behaviour is about.
ServiceTypesOK ==
    CASE scene = "webhook" -> WebhookTypeOK [] scene = "session" -> SessionTypeOK
      [] scene = "deletion" -> DeletionTypeOK
=============================================================================

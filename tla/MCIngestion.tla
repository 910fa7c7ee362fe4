---------------------------- MODULE MCIngestion ----------------------------
(***************************************************************************)
(* The two ends of the WhatsApp layer, one at a time: the messages of one  *)
(* number on their way in, and a burst of calls on their way out.  They    *)
(* share no state, so a behaviour is about one of them, its scene, and the *)
(* other keeps its initial state.                                          *)
(***************************************************************************)
EXTENDS InboundIngestion, Dispatch, TLC

CONSTANTS e1, e2, c1, c2, c3, c4, c5, c6, r1, r2, r3

\* A text with a digit in it and a rating; or a message sent from the phone.
Ratings == [e \in Events |-> IF e = e1 THEN "number" ELSE "rating"]
Phone   == [e \in Events |-> IF e = e1 THEN "device" ELSE "text"]

\* Calls without a key, two to each recipient: only the windows hold them, and each
\* of the two limits can be the one that does.
BurstKey == [c \in Calls |-> NoKey]
BurstTo == [c \in Calls |-> IF c \in {c1, c2} THEN r1 ELSE IF c \in {c3, c4} THEN r2 ELSE r3]

VARIABLE scene

\* The same events with other contents.
FromPhone == INSTANCE InboundIngestion WITH content <- Phone

EdgeInit ==
    /\ IngestionInit /\ Init /\ scene \in {"in", "phone", "out"}
    /\ contacts = IF scene = "in" THEN 1 ELSE 0   \* the customer has a chat; nobody has

\* What a call without a key does to the windows it does when it starts; the rest of it
\* is MCDispatch's.
Admit == (\E c \in Calls : StartRun(c)) \/ Tick

EdgeNext ==
    /\ UNCHANGED scene
    /\ \/ scene = "in" /\ IngestionNext /\ UNCHANGED vars
       \/ scene = "phone" /\ FromPhone!IngestionNext /\ UNCHANGED vars
       \/ scene = "out" /\ Admit /\ UNCHANGED ingestionVars

EdgeSpec ==
    /\ EdgeInit /\ [][EdgeNext]_<<ingestionVars, vars, scene>>
    /\ \A h \in Handlers : /\ WF_ingestionVars(scene = "in" /\ HandlerStep(h))
                           /\ WF_ingestionVars(scene = "phone" /\ FromPhone!HandlerStep(h))
=============================================================================

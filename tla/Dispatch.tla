------------------------------ MODULE Dispatch ------------------------------
(***************************************************************************)
(* The outbound WhatsApp layer of one API process:                         *)
(* apps/api/src/services/whatsapp/message-dispatch.ts.                     *)
(*                                                                         *)
(* Every caller (inbox reply, AI auto-reply, notices, campaigns) goes      *)
(* through dispatchWhatsAppText or dispatchWhatsAppMedia, which share the  *)
(* four in-memory maps of the module: the idempotency cache, the table of  *)
(* in-flight promises, and the two sliding rate windows.  The runtime is   *)
(* single threaded, so what runs between two awaits is one action here.    *)
(***************************************************************************)
EXTENDS Integers, FiniteSets

CONSTANTS
    Calls,        \* identities of the dispatch calls made during a behaviour
    Keys,         \* idempotency keys
    NoKey,        \* a call without idempotencyKey
    NoCall,       \* absence of an in-flight promise
    Recipients,   \* phone numbers, all reached through one channel
    key,          \* params.idempotencyKey of each call
    to,           \* params.to of each call
    Proactive,    \* the calls that must pass the opt-in check (campaign, automation)
    TTL,          \* IDEMPOTENCY_TTL_MS, in ticks
    Window,       \* the 60 s of the rate windows, in ticks
    MaxPerChannel, MaxPerRecipient,
    MaxTime,      \* bound on the clock
    MaxRestarts   \* bound on the restarts of the process

ASSUME NoKeyAssumption  == NoKey \notin Keys
ASSUME NoCallAssumption == NoCall \notin Calls
ASSUME CallAssumption   == /\ key \in [Calls -> Keys \union {NoKey}]
                           /\ to \in [Calls -> Recipients]
                           /\ Proactive \subseteq Calls
ASSUME TimeAssumption   == /\ TTL \in Nat /\ Window \in Nat
                           /\ MaxTime \in Nat /\ MaxRestarts \in Nat
ASSUME LimitAssumption  == MaxPerChannel \in Nat /\ MaxPerRecipient \in Nat

VARIABLES
    now,        \* Date.now()
    epoch,      \* how many times the process was restarted
    cache,      \* idempotencyCache: when the cached success was stored, or Absent
    inflight,   \* inflight: the call whose promise is pending for a key
    admitted,   \* channelWindow/recipientWindow: the time stamps, with their call
    pc,         \* where each call stands
    waitsFor,   \* the call whose promise a joined call awaits
    result,     \* what the call returned
    delivered,  \* history: the messages the provider really sent
    passedAt    \* history: when each call of this life passed both rate checks

vars == <<now, epoch, cache, inflight, admitted, pc,
          waitsFor, result, delivered, passedAt>>

Absent == -1

\* A call that owns a run of dispatchWhatsAppTextOnce / MediaOnce.
Running == {"consent", "provider", "settle"}
Places  == Running \union {"idle", "joined", "done", "lost"}
Results == {"none", "invalid", "sent", "failed", "no_consent",
            "rate_channel", "rate_recipient",
            "idempotent_sent", "idempotent_failed"}

\* A message that reached the customer, and whether the provider said so.
Deliveries ==
    [call : Calls, at : 0..MaxTime, epoch : 0..MaxRestarts, outcome : {"acked", "unheard"}]

Delivery(c, outcome) == [call |-> c, at |-> now, epoch |-> epoch, outcome |-> outcome]

TypeOK ==
    /\ now \in 0..MaxTime
    /\ epoch \in 0..MaxRestarts
    /\ cache \in [Keys -> {Absent} \union 0..MaxTime]
    /\ inflight \in [Keys -> Calls \union {NoCall}]
    /\ admitted \in [{"channel", "recipient"} -> SUBSET (Calls \X (0..MaxTime))]
    /\ pc \in [Calls -> Places]
    /\ waitsFor \in [Calls -> Calls \union {NoCall}]
    /\ result \in [Calls -> Results]
    /\ delivered \subseteq Deliveries
    /\ passedAt \in [Calls -> {Absent} \union 0..MaxTime]

Init ==
    /\ now = 0
    /\ epoch = 0
    /\ cache = [k \in Keys |-> Absent]
    /\ inflight = [k \in Keys |-> NoCall]
    /\ admitted = [w \in {"channel", "recipient"} |-> {}]
    /\ pc = [c \in Calls |-> "idle"]
    /\ waitsFor = [c \in Calls |-> NoCall]
    /\ result = [c \in Calls |-> "none"]
    /\ delivered = {}
    /\ passedAt = [c \in Calls |-> Absent]

-----------------------------------------------------------------------------
(* The idempotency cache and the rate windows. *)

\* (Mutant) an entry as old as the TTL dropped as well.
CleanIdempotencyEarly ==
    [k \in Keys |-> IF cache[k] # Absent /\ now - cache[k] >= TTL THEN Absent ELSE cache[k]]

\* cleanIdempotency: the entries older than the TTL are dropped.
CleanIdempotency ==
    [k \in Keys |-> IF cache[k] # Absent /\ now - cache[k] > TTL THEN Absent ELSE cache[k]]

\* prune: the stamps still inside the window (the comparison is strict).
Prune(stamps) == {s \in stamps : s[2] > now - Window}

StampsOf(window, r) ==
    {s \in Prune(admitted[window]) : window = "channel" \/ to[s[1]] = r}

\* (Mutant) the limit itself still admitted.
AllowChannelInclusive(c) == Cardinality(StampsOf("channel", to[c])) <= MaxPerChannel

AllowChannel(c) == Cardinality(StampsOf("channel", to[c])) < MaxPerChannel
AllowRecipient(c) == Cardinality(StampsOf("recipient", to[c])) < MaxPerRecipient

Stamp(window, c) ==
    [admitted EXCEPT ![window] = Prune(@) \union {<<c, now>>}]

\* Both windows take a stamp; the channel's is taken before the recipient's
\* window is looked at, so a refused recipient has used a slot of the channel.
Admission(c) ==
    \/ /\ ~AllowChannel(c)
       /\ admitted' = [admitted EXCEPT !["channel"] = Prune(@)]
       /\ pc' = [pc EXCEPT ![c] = "settle"]
       /\ result' = [result EXCEPT ![c] = "rate_channel"]
       /\ passedAt' = passedAt
    \/ /\ AllowChannel(c)
       /\ ~AllowRecipient(c)
       /\ admitted' = [Stamp("channel", c) EXCEPT !["recipient"] = Prune(@)]
       /\ pc' = [pc EXCEPT ![c] = "settle"]
       /\ result' = [result EXCEPT ![c] = "rate_recipient"]
       /\ passedAt' = passedAt
    \/ /\ AllowChannel(c)
       /\ AllowRecipient(c)
       /\ admitted' = [w \in {"channel", "recipient"} |-> Prune(admitted[w]) \union {<<c, now>>}]
       /\ pc' = [pc EXCEPT ![c] = IF c \in Proactive THEN "consent" ELSE "provider"]
       /\ passedAt' = [passedAt EXCEPT ![c] = now]
       /\ result' = result

-----------------------------------------------------------------------------
(* The steps of a call. *)

\* Empty or oversized text: returned before any map is looked at.
RejectText(c) ==
    /\ pc[c] = "idle"
    /\ pc' = [pc EXCEPT ![c] = "done"]
    /\ result' = [result EXCEPT ![c] = "invalid"]
    /\ UNCHANGED <<now, epoch, cache, inflight, admitted, waitsFor, delivered, passedAt>>

\* The key was answered within the TTL: the cached success is returned.
ReturnCached(c) ==
    /\ pc[c] = "idle"
    /\ key[c] \in Keys
    /\ CleanIdempotency[key[c]] # Absent
    /\ cache' = CleanIdempotency
    /\ pc' = [pc EXCEPT ![c] = "done"]
    /\ result' = [result EXCEPT ![c] = "idempotent_sent"]
    /\ UNCHANGED <<now, epoch, inflight, admitted, waitsFor, delivered, passedAt>>

\* A run of the same key is pending: this call awaits its promise.
JoinInflight(c) ==
    /\ pc[c] = "idle"
    /\ key[c] \in Keys
    /\ CleanIdempotency[key[c]] = Absent
    /\ inflight[key[c]] # NoCall
    /\ cache' = CleanIdempotency
    /\ pc' = [pc EXCEPT ![c] = "joined"]
    /\ waitsFor' = [waitsFor EXCEPT ![c] = inflight[key[c]]]
    /\ UNCHANGED <<now, epoch, inflight, admitted, result, delivered, passedAt>>

\* (Mutant) the cache looked up, the in-flight table not.
StartRunAnyway(c) ==
    /\ pc[c] = "idle"
    /\ \/ key[c] = NoKey /\ UNCHANGED <<cache, inflight>>
       \/ /\ key[c] \in Keys
          /\ CleanIdempotency[key[c]] = Absent
          /\ cache' = CleanIdempotency
          /\ inflight' = [inflight EXCEPT ![key[c]] = c]
    /\ Admission(c)
    /\ UNCHANGED <<now, epoch, waitsFor, delivered>>

\* Nobody answered or is answering the key: start a run.  Its synchronous
\* part (both rate checks) ends before the promise is put in the table, and
\* nothing can run in between.
StartRun(c) ==
    /\ pc[c] = "idle"
    /\ \/ key[c] = NoKey /\ UNCHANGED <<cache, inflight>>
       \/ /\ key[c] \in Keys
          /\ CleanIdempotency[key[c]] = Absent
          /\ inflight[key[c]] = NoCall
          /\ cache' = CleanIdempotency
          /\ inflight' = [inflight EXCEPT ![key[c]] = c]
    /\ Admission(c)
    /\ UNCHANGED <<now, epoch, waitsFor, delivered>>

\* Opt-in of proactive messages: refused only when a contact is found that
\* did not consent; which one it is depends on the database.
CheckConsent(c) ==
    /\ pc[c] = "consent"
    /\ \/ /\ pc' = [pc EXCEPT ![c] = "provider"]
          /\ result' = result
       \/ /\ pc' = [pc EXCEPT ![c] = "settle"]
          /\ result' = [result EXCEPT ![c] = "no_consent"]
    /\ UNCHANGED <<now, epoch, cache, inflight, admitted, waitsFor, delivered, passedAt>>

\* sendWhatsAppText / sendWhatsAppMedia came back with ok.
ProviderAcks(c) ==
    /\ pc[c] = "provider"
    /\ pc' = [pc EXCEPT ![c] = "settle"]
    /\ result' = [result EXCEPT ![c] = "sent"]
    /\ cache' = IF key[c] \in Keys THEN [cache EXCEPT ![key[c]] = now] ELSE cache
    /\ delivered' = delivered \union {Delivery(c, "acked")}
    /\ UNCHANGED <<now, epoch, inflight, admitted, waitsFor, passedAt>>

\* It came back with an error; a timed out request may have been delivered.
ProviderFails(c) ==
    /\ pc[c] = "provider"
    /\ pc' = [pc EXCEPT ![c] = "settle"]
    /\ result' = [result EXCEPT ![c] = "failed"]
    /\ \/ delivered' = delivered
       \/ delivered' = delivered \union {Delivery(c, "unheard")}
    /\ UNCHANGED <<now, epoch, cache, inflight, admitted, waitsFor, passedAt>>

\* finally: the key leaves the in-flight table, after the cache was filled.
Settle(c) ==
    /\ pc[c] = "settle"
    /\ pc' = [pc EXCEPT ![c] = "done"]
    /\ inflight' = IF key[c] \in Keys THEN [inflight EXCEPT ![key[c]] = NoCall] ELSE inflight
    /\ UNCHANGED <<now, epoch, cache, admitted, waitsFor, result, delivered, passedAt>>

\* (Mutant) whoever joined is told the message was sent.
ReturnJoinedOk(c) ==
    /\ pc[c] = "joined"
    /\ pc[waitsFor[c]] \in {"settle", "done"}
    /\ pc' = [pc EXCEPT ![c] = "done"]
    /\ result' = [result EXCEPT ![c] = "idempotent_sent"]
    /\ UNCHANGED <<now, epoch, cache, inflight, admitted, waitsFor, delivered, passedAt>>

\* (Mutant) a failed run wakes nobody.
ReturnJoinedIfSent(c) ==
    /\ pc[c] = "joined"
    /\ pc[waitsFor[c]] \in {"settle", "done"}
    /\ result[waitsFor[c]] = "sent"
    /\ pc' = [pc EXCEPT ![c] = "done"]
    /\ result' = [result EXCEPT ![c] = "idempotent_sent"]
    /\ UNCHANGED <<now, epoch, cache, inflight, admitted, waitsFor, delivered, passedAt>>

\* (Mutant) the caller that joined cleans the in-flight table up as well.
ReturnJoinedClears(c) ==
    /\ pc[c] = "joined"
    /\ pc[waitsFor[c]] \in {"settle", "done"}
    /\ pc' = [pc EXCEPT ![c] = "done"]
    /\ result' = [result EXCEPT ![c] =
                    IF result[waitsFor[c]] = "sent" THEN "idempotent_sent" ELSE "idempotent_failed"]
    /\ inflight' = [inflight EXCEPT ![key[c]] = NoCall]
    /\ UNCHANGED <<now, epoch, cache, admitted, waitsFor, delivered, passedAt>>

\* The awaited promise is resolved: the joined call returns its outcome.
ReturnJoined(c) ==
    /\ pc[c] = "joined"
    /\ pc[waitsFor[c]] \in {"settle", "done"}
    /\ pc' = [pc EXCEPT ![c] = "done"]
    /\ result' = [result EXCEPT ![c] =
                    IF result[waitsFor[c]] = "sent" THEN "idempotent_sent" ELSE "idempotent_failed"]
    /\ UNCHANGED <<now, epoch, cache, inflight, admitted, waitsFor, delivered, passedAt>>

CallStep(c) ==
    \/ RejectText(c) \/ ReturnCached(c) \/ JoinInflight(c) \/ StartRun(c)
    \/ CheckConsent(c) \/ ProviderAcks(c) \/ ProviderFails(c)
    \/ Settle(c) \/ ReturnJoined(c)

Tick ==
    /\ now < MaxTime
    /\ now' = now + 1
    /\ UNCHANGED <<epoch, cache, inflight, admitted, pc, waitsFor, result, delivered, passedAt>>

\* The process dies and comes back: the maps are empty, running calls are gone.
\* A request already handed to the provider may still be delivered.
Restart ==
    /\ epoch < MaxRestarts
    /\ epoch' = epoch + 1
    /\ cache' = [k \in Keys |-> Absent]
    /\ inflight' = [k \in Keys |-> NoCall]
    /\ admitted' = [w \in {"channel", "recipient"} |-> {}]
    /\ pc' = [c \in Calls |-> IF pc[c] \in {"idle", "done"} THEN pc[c] ELSE "lost"]
    /\ \E D \in SUBSET {c \in Calls : pc[c] = "provider"} :
          delivered' = delivered \union {Delivery(c, "unheard") : c \in D}
    /\ passedAt' = [c \in Calls |-> Absent]
    /\ UNCHANGED <<now, waitsFor, result>>

Next == (\E c \in Calls : CallStep(c)) \/ Tick \/ Restart

Spec == Init /\ [][Next]_vars

\* A started call goes on: the event loop runs its continuations, and the
\* gateway clients answer or time out.
Fairness == \A c \in Calls :
    WF_vars(CheckConsent(c) \/ ProviderAcks(c) \/ ProviderFails(c) \/ Settle(c) \/ ReturnJoined(c))

FairSpec == Spec /\ Fairness

-----------------------------------------------------------------------------
(* Properties. *)

SameKey(a, b) == key[a] \in Keys /\ key[a] = key[b]

\* At most one run per key: two callers with the same idempotencyKey never
\* both reach the provider at the same time (the in-flight table).
OneRunPerKey ==
    \A a, b \in Calls :
        SameKey(a, b) /\ pc[a] \in Running /\ pc[b] \in Running => a = b

\* Within one life of the process, two acknowledged sends under one key are
\* more than the TTL apart, however calls, waits and expiries interleave.
SendsApart ==
    \A d, e \in delivered :
        /\ d # e /\ SameKey(d.call, e.call)
        /\ d.outcome = "acked" /\ e.outcome = "acked" /\ d.epoch = e.epoch
        /\ d.at <= e.at
        => e.at - d.at > TTL

\* A caller told "idempotent" with ok was preceded by a real acknowledged
\* send of that key: success is never reported for a message nobody sent.
IdempotentMeansSent ==
    \A c \in Calls : result[c] = "idempotent_sent" =>
        \E d \in delivered : d.outcome = "acked" /\ SameKey(d.call, c)

\* No 60 s window holds more admissions than the limit, per channel and per
\* recipient, whatever the pruning of the two stamp lists dropped.
RateRespected ==
    LET recent == {c \in Calls : passedAt[c] # Absent /\ passedAt[c] > now - Window}
    IN  /\ Cardinality(recent) <= MaxPerChannel
        /\ \A r \in Recipients : Cardinality({c \in recent : to[c] = r}) <= MaxPerRecipient

\* What a call was told, as its caller understands it.
Told(r) ==
    CASE r = "none" -> "none" [] r = "sent" -> "sent" [] r = "idempotent_sent" -> "repeated"
      [] OTHER -> "failed"

Acknowledged ==
    {[call |-> d.call, at |-> d.at, life |-> d.epoch] : d \in {e \in delivered : e.outcome = "acked"}}

Promise == INSTANCE KeyedSend WITH
    life <- epoch, sender <- inflight, acks <- Acknowledged,
    answer <- [c \in Calls |-> Told(result[c])]

\* The maps of dispatchWhatsAppText keep the promise made per key: one holder,
\* one acknowledgement per TTL, "idempotent" only for what was acknowledged.
KeyedSends == Promise!Spec

\* Every call that started a run or joined one returns, unless the process dies.
EveryCallReturns ==
    \A c \in Calls : (pc[c] \in Running \union {"joined"}) ~> (pc[c] \in {"done", "lost"})

\* "Chave estavel para retries - evita envio duplo": one key, one message at
\* the customer's phone while its TTL runs.
NoDoubleDelivery ==
    \A d, e \in delivered :
        d # e /\ SameKey(d.call, e.call) /\ d.at <= e.at => e.at - d.at > TTL
=============================================================================

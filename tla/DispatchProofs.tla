--------------------------- MODULE DispatchProofs ---------------------------
(***************************************************************************)
(* What holds of Dispatch for every number of calls, keys and ticks.       *)
(*                                                                         *)
(* The in-flight table gives mutual exclusion per key; the cache hands the *)
(* exclusion over in time: an acknowledged send younger than the TTL is in *)
(* the cache (RecentIsCached), so a run can only start when every earlier  *)
(* acknowledged send of its key is older than the TTL (RunnersAreLate).    *)
(* The promise of KeyedSend and the rate windows have sections below.      *)
(***************************************************************************)
EXTENDS Dispatch, FiniteSetTheorems, TLAPS

Acks == {d \in delivered : d.outcome = "acked" /\ d.epoch = epoch}

\* The in-flight table names exactly the calls that own a run.
TableExact ==
    /\ \A k \in Keys : inflight[k] # NoCall =>
          pc[inflight[k]] \in Running /\ key[inflight[k]] = k
    /\ \A c \in Calls : pc[c] \in Running /\ key[c] \in Keys => inflight[key[c]] = c

HistoryInPast ==
    /\ \A d \in delivered : d.at <= now /\ d.epoch <= epoch
    /\ \A k \in Keys : cache[k] <= now

RecentIsCached ==
    \A d \in Acks : key[d.call] \in Keys /\ now - d.at <= TTL => d.at <= cache[key[d.call]]

RunnersAreLate ==
    \A c \in Calls : \A d \in Acks :
        pc[c] \in {"consent", "provider"} /\ SameKey(c, d.call) => now - d.at > TTL

ApartInv == TypeOK /\ TableExact /\ HistoryInPast /\ RecentIsCached /\ RunnersAreLate /\ SendsApart

-----------------------------------------------------------------------------
\* What a call delivers now has the type of a delivery.
LEMMA DeliveryType ==
    ASSUME NEW c \in Calls, NEW outcome \in {"acked", "unheard"}, TypeOK
    PROVE  Delivery(c, outcome) \in Deliveries
  BY DEF TypeOK, Delivery, Deliveries

\* The state keeps its type: every map is indexed by what the code indexes it
\* with, and stamps never exceed the clock.
THEOREM TypeCorrect == Spec => []TypeOK
<1> USE NoKeyAssumption, NoCallAssumption, CallAssumption, TimeAssumption
<1>1. Init => TypeOK
  BY DEF Init, TypeOK, Absent, Places, Running, Results
<1>2. TypeOK /\ [Next]_vars => TypeOK'
  <2> SUFFICES ASSUME TypeOK, [Next]_vars PROVE TypeOK'
    OBVIOUS
  <2>0. CleanIdempotency \in [Keys -> {Absent} \union 0..MaxTime]
    BY DEF TypeOK, CleanIdempotency
  <2>1. ASSUME NEW c \in Calls, RejectText(c) PROVE TypeOK'
    BY <2>1 DEF TypeOK, RejectText, Places, Results
  <2>2. ASSUME NEW c \in Calls, ReturnCached(c) PROVE TypeOK'
    BY <2>2, <2>0 DEF TypeOK, ReturnCached, Places, Results
  <2>3. ASSUME NEW c \in Calls, JoinInflight(c) PROVE TypeOK'
    BY <2>3, <2>0 DEF TypeOK, JoinInflight, Places
  <2>4. ASSUME NEW c \in Calls, StartRun(c) PROVE TypeOK'
    <3>1. /\ cache' \in [Keys -> {Absent} \union 0..MaxTime]
          /\ inflight' \in [Keys -> Calls \union {NoCall}]
      BY <2>4, <2>0 DEF TypeOK, StartRun
    <3>2. \A w \in {"channel", "recipient"} :
             /\ Prune(admitted[w]) \in SUBSET (Calls \X (0..MaxTime))
             /\ Prune(admitted[w]) \union {<<c, now>>} \in SUBSET (Calls \X (0..MaxTime))
      BY DEF TypeOK, Prune
    <3>3. admitted' \in [{"channel", "recipient"} -> SUBSET (Calls \X (0..MaxTime))]
      BY <2>4, <3>2 DEF TypeOK, StartRun, Admission, Stamp
    <3>4. pc' \in [Calls -> Places] /\ result' \in [Calls -> Results]
      BY <2>4 DEF TypeOK, StartRun, Admission, Places, Running, Results
    <3>5. passedAt' \in [Calls -> {Absent} \union 0..MaxTime]
      BY <2>4 DEF TypeOK, StartRun, Admission
    <3> QED
      BY <2>4, <3>1, <3>3, <3>4, <3>5 DEF TypeOK, StartRun
  <2>5. ASSUME NEW c \in Calls, CheckConsent(c) PROVE TypeOK'
    BY <2>5 DEF TypeOK, CheckConsent, Places, Running, Results
  <2>6. ASSUME NEW c \in Calls, ProviderAcks(c) PROVE TypeOK'
    <3>1. cache' \in [Keys -> {Absent} \union 0..MaxTime]
      BY <2>6 DEF TypeOK, ProviderAcks
    <3>2. delivered' \subseteq Deliveries
      BY <2>6, DeliveryType DEF TypeOK, ProviderAcks
    <3> QED
      BY <2>6, <3>1, <3>2 DEF TypeOK, ProviderAcks, Places, Running, Results
  <2>7. ASSUME NEW c \in Calls, ProviderFails(c) PROVE TypeOK'
    <3>1. delivered' \subseteq Deliveries
      BY <2>7, DeliveryType DEF TypeOK, ProviderFails
    <3> QED
      BY <2>7, <3>1 DEF TypeOK, ProviderFails, Places, Running, Results
  <2>8. ASSUME NEW c \in Calls, Settle(c) PROVE TypeOK'
    BY <2>8 DEF TypeOK, Settle, Places
  <2>9. ASSUME NEW c \in Calls, ReturnJoined(c) PROVE TypeOK'
    BY <2>9 DEF TypeOK, ReturnJoined, Places, Results
  <2>10. CASE Tick
    BY <2>10 DEF TypeOK, Tick
  <2>11. CASE Restart
    <3>1. pc' \in [Calls -> Places]
      BY <2>11 DEF TypeOK, Restart, Places, Running
    <3>2. epoch' \in 0..MaxRestarts
      BY <2>11 DEF TypeOK, Restart
    <3>3. delivered' \subseteq Deliveries
      BY <2>11, DeliveryType DEF TypeOK, Restart
    <3> QED
      BY <2>11, <3>1, <3>2, <3>3 DEF TypeOK, Restart, Absent
  <2>12. CASE UNCHANGED vars
    BY <2>12 DEF TypeOK, vars
  <2> QED
    BY <2>1, <2>2, <2>3, <2>4, <2>5, <2>6, <2>7, <2>8, <2>9, <2>10, <2>11, <2>12
       DEF Next, CallStep
<1> QED
  BY <1>1, <1>2, PTL DEF Spec

-----------------------------------------------------------------------------
\* What survives of the cache after cleaning is what is younger than the TTL.
LEMMA CleanKeepsYoung ==
    ASSUME NEW k \in Keys, TypeOK
    PROVE  /\ CleanIdempotency[k] \in {Absent, cache[k]}
           /\ cache[k] # Absent /\ now - cache[k] <= TTL => CleanIdempotency[k] = cache[k]
  BY TimeAssumption DEF TypeOK, CleanIdempotency

\* A call that finds its key neither cached nor in flight comes more than the
\* TTL after every acknowledged send of that key.
LEMMA FreeKeyIsLate ==
    ASSUME ApartInv, NEW k \in Keys, CleanIdempotency[k] = Absent,
           NEW d \in Acks, key[d.call] = k
    PROVE  now - d.at > TTL
<1>1. d.at \in 0..MaxTime /\ now \in 0..MaxTime
  BY DEF ApartInv, TypeOK, Acks, Deliveries
<1>2. cache[k] \in {Absent} \union 0..MaxTime
  BY DEF ApartInv, TypeOK
<1>3. SUFFICES ASSUME now - d.at <= TTL PROVE FALSE
  BY <1>1, TimeAssumption
<1>4. d.at <= cache[k]
  BY <1>3 DEF ApartInv, RecentIsCached
<1>5. cache[k] # Absent /\ now - cache[k] <= TTL
  BY <1>1, <1>2, <1>3, <1>4, TimeAssumption DEF Absent
<1> QED
  BY <1>5, CleanKeepsYoung DEF ApartInv

\* The steps that touch neither the history nor the clock, and whose call
\* starts no run, keep the parts of the invariant that speak of time.
LEMMA QuietStep ==
    ASSUME ApartInv, TypeOK',
           UNCHANGED <<now, epoch, delivered>>,
           cache' \in {cache, CleanIdempotency},
           \A c \in Calls : pc'[c] \in {"consent", "provider"} => pc[c] \in {"consent", "provider"}
    PROVE  /\ HistoryInPast' /\ RecentIsCached' /\ RunnersAreLate' /\ SendsApart'
<1> USE DEF ApartInv
<1>1. Acks' = Acks
  BY DEF Acks
<1>2. HistoryInPast'
  <2>1. ASSUME NEW k \in Keys PROVE cache'[k] <= now'
    BY CleanKeepsYoung, TimeAssumption DEF HistoryInPast, TypeOK, Absent
  <2> QED
    BY <2>1 DEF HistoryInPast
<1>3. RecentIsCached'
  <2> SUFFICES ASSUME NEW d \in Acks, key[d.call] \in Keys, now - d.at <= TTL
               PROVE  d.at <= cache'[key[d.call]]
    BY <1>1 DEF RecentIsCached
  <2>1. d.at \in 0..MaxTime /\ now \in 0..MaxTime
    BY DEF TypeOK, Acks, Deliveries
  <2>2. d.at <= cache[key[d.call]]
    BY DEF RecentIsCached
  <2>3. cache[key[d.call]] \in {Absent} \union 0..MaxTime
    BY DEF TypeOK
  <2>4. cache[key[d.call]] # Absent /\ now - cache[key[d.call]] <= TTL
    BY <2>1, <2>2, <2>3, TimeAssumption DEF Absent
  <2> QED
    BY <2>2, <2>4, CleanKeepsYoung
<1>4. RunnersAreLate'
  BY <1>1 DEF RunnersAreLate, SameKey
<1>5. SendsApart'
  BY DEF SendsApart, SameKey
<1> QED
  BY <1>2, <1>3, <1>4, <1>5

-----------------------------------------------------------------------------
LEMMA ApartStep == ApartInv /\ TypeOK' /\ [Next]_vars => ApartInv'
<1> SUFFICES ASSUME ApartInv, TypeOK', [Next]_vars PROVE ApartInv'
  OBVIOUS
<1> USE NoKeyAssumption, NoCallAssumption, CallAssumption, TimeAssumption
<1>1. ASSUME NEW c \in Calls, RejectText(c) PROVE ApartInv'
  <2>1. TableExact'
    BY <1>1 DEF ApartInv, TypeOK, TableExact, RejectText, Running
  <2>2. \A b \in Calls : pc'[b] \in {"consent", "provider"} => pc[b] \in {"consent", "provider"}
    BY <1>1 DEF ApartInv, TypeOK, RejectText
  <2> QED
    BY <1>1, <2>1, <2>2, QuietStep DEF ApartInv, RejectText
<1>2. ASSUME NEW c \in Calls, ReturnCached(c) PROVE ApartInv'
  <2>1. TableExact'
    BY <1>2 DEF ApartInv, TypeOK, TableExact, ReturnCached, Running
  <2>2. \A b \in Calls : pc'[b] \in {"consent", "provider"} => pc[b] \in {"consent", "provider"}
    BY <1>2 DEF ApartInv, TypeOK, ReturnCached
  <2> QED
    BY <1>2, <2>1, <2>2, QuietStep DEF ApartInv, ReturnCached
<1>3. ASSUME NEW c \in Calls, JoinInflight(c) PROVE ApartInv'
  <2>1. TableExact'
    BY <1>3 DEF ApartInv, TypeOK, TableExact, JoinInflight, Running
  <2>2. \A b \in Calls : pc'[b] \in {"consent", "provider"} => pc[b] \in {"consent", "provider"}
    BY <1>3 DEF ApartInv, TypeOK, JoinInflight
  <2> QED
    BY <1>3, <2>1, <2>2, QuietStep DEF ApartInv, JoinInflight
<1>4. ASSUME NEW c \in Calls, StartRun(c) PROVE ApartInv'
  <2>1. /\ pc[c] = "idle"
        /\ \E place \in Running : pc' = [pc EXCEPT ![c] = place]
    BY <1>4 DEF StartRun, Admission, Running
  <2>2. cache' \in {cache, CleanIdempotency} /\ UNCHANGED <<now, epoch, delivered>>
    BY <1>4 DEF StartRun
  <2>3. TableExact'
    <3>1. CASE key[c] = NoKey
      BY <1>4, <2>1, <3>1 DEF ApartInv, TypeOK, TableExact, StartRun, Running
    <3>2. CASE key[c] \in Keys
      BY <1>4, <2>1, <3>2 DEF ApartInv, TypeOK, TableExact, StartRun, Running
    <3> QED
      BY <3>1, <3>2
  <2>4. Acks' = Acks
    BY <2>2 DEF Acks
  <2>5. RunnersAreLate'
    <3> SUFFICES ASSUME NEW b \in Calls, NEW d \in Acks,
                        pc'[b] \in {"consent", "provider"}, SameKey(b, d.call)
                 PROVE  now - d.at > TTL
      BY <2>2, <2>4 DEF RunnersAreLate, SameKey
    <3>1. CASE b = c
      <4>1. key[c] \in Keys /\ key[d.call] = key[c]
        BY <3>1 DEF SameKey
      <4>2. CleanIdempotency[key[c]] = Absent
        BY <1>4, <4>1 DEF StartRun
      <4> QED
        BY <4>1, <4>2, FreeKeyIsLate
    <3>2. CASE b # c
      BY <2>1, <3>2 DEF ApartInv, TypeOK, RunnersAreLate
    <3> QED
      BY <3>1, <3>2
  <2>6. HistoryInPast'
    <3>1. ASSUME NEW k \in Keys PROVE cache'[k] <= now'
      BY <2>2, CleanKeepsYoung DEF ApartInv, HistoryInPast, TypeOK, Absent
    <3> QED
      BY <2>2, <3>1 DEF ApartInv, HistoryInPast
  <2>7. RecentIsCached'
    <3> SUFFICES ASSUME NEW d \in Acks, key[d.call] \in Keys, now - d.at <= TTL
                 PROVE  d.at <= cache'[key[d.call]]
      BY <2>2, <2>4 DEF RecentIsCached
    <3>1. d.at \in 0..MaxTime /\ now \in 0..MaxTime /\ d.at <= cache[key[d.call]]
      BY DEF ApartInv, TypeOK, Acks, Deliveries, RecentIsCached
    <3>2. cache[key[d.call]] \in {Absent} \union 0..MaxTime
      BY DEF ApartInv, TypeOK
    <3>3. cache[key[d.call]] # Absent /\ now - cache[key[d.call]] <= TTL
      BY <3>1, <3>2 DEF Absent
    <3> QED
      BY <2>2, <3>1, <3>3, CleanKeepsYoung DEF ApartInv
  <2>8. SendsApart'
    BY <2>2 DEF ApartInv, SendsApart, SameKey
  <2> QED
    BY <2>3, <2>5, <2>6, <2>7, <2>8 DEF ApartInv
<1>5. ASSUME NEW c \in Calls, CheckConsent(c) PROVE ApartInv'
  <2>1. TableExact'
    BY <1>5 DEF ApartInv, TypeOK, TableExact, CheckConsent, Running
  <2>2. \A b \in Calls : pc'[b] \in {"consent", "provider"} => pc[b] \in {"consent", "provider"}
    BY <1>5 DEF ApartInv, TypeOK, CheckConsent
  <2> QED
    BY <1>5, <2>1, <2>2, QuietStep DEF ApartInv, CheckConsent
<1>6. ASSUME NEW c \in Calls, ProviderAcks(c) PROVE ApartInv'
  <2> DEFINE new == Delivery(c, "acked")
  <2>1. /\ new.call = c /\ new.at = now /\ new.epoch = epoch /\ new.outcome = "acked"
        /\ delivered' = delivered \union {new} /\ now' = now /\ epoch' = epoch
    BY <1>6 DEF Delivery, ProviderAcks
  <2> HIDE DEF new
  <2>2. Acks' = Acks \union {new}
    BY <2>1 DEF Acks
  <2>3. TableExact'
    BY <1>6 DEF ApartInv, TypeOK, TableExact, ProviderAcks, Running
  <2>4. \A k \in Keys : cache'[k] = IF k = key[c] THEN now ELSE cache[k]
    BY <1>6 DEF ApartInv, TypeOK, ProviderAcks
  <2>5. HistoryInPast'
    BY <2>1, <2>4 DEF ApartInv, TypeOK, HistoryInPast
  <2>6. RecentIsCached'
    <3> SUFFICES ASSUME NEW d \in Acks \union {new}, key[d.call] \in Keys, now - d.at <= TTL
                 PROVE  d.at <= cache'[key[d.call]]
      BY <2>1, <2>2 DEF RecentIsCached
    <3>1. CASE d = new
      BY <2>1, <2>4, <3>1 DEF ApartInv, TypeOK
    <3>2. CASE d \in Acks
      BY <2>4, <3>2 DEF ApartInv, RecentIsCached, HistoryInPast, Acks
    <3> QED
      BY <3>1, <3>2
  <2>7. RunnersAreLate'
    <3> SUFFICES ASSUME NEW b \in Calls, NEW d \in Acks \union {new},
                        pc'[b] \in {"consent", "provider"}, SameKey(b, d.call)
                 PROVE  now - d.at > TTL
      BY <2>1, <2>2 DEF RunnersAreLate, SameKey
    <3>1. b # c /\ pc[b] \in {"consent", "provider"}
      BY <1>6 DEF ApartInv, TypeOK, ProviderAcks
    <3>2. d # new
      BY <1>6, <2>1, <3>1 DEF ApartInv, TableExact, SameKey, ProviderAcks, Running
    <3> QED
      BY <3>1, <3>2 DEF ApartInv, RunnersAreLate
  <2>8. SendsApart'
    <3> SUFFICES ASSUME NEW d \in delivered', NEW e \in delivered',
                        d # e, SameKey(d.call, e.call),
                        d.outcome = "acked", e.outcome = "acked", d.epoch = e.epoch,
                        d.at <= e.at
                 PROVE  e.at - d.at > TTL
      BY DEF SendsApart, SameKey
    <3>1. CASE e = new
      <4>1. d \in Acks /\ SameKey(c, d.call)
        BY <2>1, <3>1 DEF Acks, SameKey
      <4> QED
        BY <1>6, <2>1, <3>1, <4>1 DEF ApartInv, RunnersAreLate, ProviderAcks
    <3>2. CASE d = new /\ e # new
      <4>1. e \in Acks /\ SameKey(c, e.call)
        BY <2>1, <3>2 DEF Acks, SameKey
      <4>2. now - e.at > TTL
        BY <1>6, <4>1 DEF ApartInv, RunnersAreLate, ProviderAcks
      <4>3. e.at \in 0..MaxTime /\ now \in 0..MaxTime
        BY <4>1 DEF ApartInv, TypeOK, Acks, Deliveries
      <4> QED
        BY <2>1, <3>2, <4>2, <4>3
    <3>3. CASE d # new /\ e # new
      BY <2>1, <3>3 DEF ApartInv, SendsApart
    <3> QED
      BY <3>1, <3>2, <3>3
  <2> QED
    BY <2>3, <2>5, <2>6, <2>7, <2>8 DEF ApartInv
<1>7. ASSUME NEW c \in Calls, ProviderFails(c) PROVE ApartInv'
  <2> DEFINE new == Delivery(c, "unheard")
  <2>1. /\ new.at = now /\ new.epoch = epoch /\ new.outcome = "unheard"
        /\ delivered' \in {delivered, delivered \union {new}}
        /\ now' = now /\ epoch' = epoch /\ cache' = cache
    BY <1>7 DEF Delivery, ProviderFails
  <2> HIDE DEF new
  <2>2. Acks' = Acks
    BY <2>1 DEF Acks
  <2>3. TableExact'
    BY <1>7 DEF ApartInv, TypeOK, TableExact, ProviderFails, Running
  <2>4. HistoryInPast'
    BY <2>1 DEF ApartInv, TypeOK, HistoryInPast
  <2>5. RecentIsCached'
    BY <2>1, <2>2 DEF ApartInv, RecentIsCached
  <2>6. RunnersAreLate'
    BY <1>7, <2>1, <2>2 DEF ApartInv, TypeOK, RunnersAreLate, SameKey, ProviderFails
  <2>7. SendsApart'
    BY <2>1 DEF ApartInv, SendsApart, SameKey
  <2> QED
    BY <2>3, <2>4, <2>5, <2>6, <2>7 DEF ApartInv
<1>8. ASSUME NEW c \in Calls, Settle(c) PROVE ApartInv'
  <2>1. TableExact'
    BY <1>8 DEF ApartInv, TypeOK, TableExact, Settle, Running
  <2>2. \A b \in Calls : pc'[b] \in {"consent", "provider"} => pc[b] \in {"consent", "provider"}
    BY <1>8 DEF ApartInv, TypeOK, Settle
  <2> QED
    BY <1>8, <2>1, <2>2, QuietStep DEF ApartInv, Settle
<1>9. ASSUME NEW c \in Calls, ReturnJoined(c) PROVE ApartInv'
  <2>1. TableExact'
    BY <1>9 DEF ApartInv, TypeOK, TableExact, ReturnJoined, Running
  <2>2. \A b \in Calls : pc'[b] \in {"consent", "provider"} => pc[b] \in {"consent", "provider"}
    BY <1>9 DEF ApartInv, TypeOK, ReturnJoined
  <2> QED
    BY <1>9, <2>1, <2>2, QuietStep DEF ApartInv, ReturnJoined
<1>10. CASE Tick
  <2>1. Acks' = Acks /\ \A d \in delivered : d.at \in 0..MaxTime
    BY <1>10 DEF ApartInv, TypeOK, Tick, Acks, Deliveries
  <2>2. TableExact'
    BY <1>10 DEF ApartInv, TableExact, Tick
  <2>3. HistoryInPast'
    BY <1>10, <2>1 DEF ApartInv, TypeOK, HistoryInPast, Tick, Absent
  <2>4. RecentIsCached'
    BY <1>10, <2>1 DEF ApartInv, TypeOK, RecentIsCached, Tick, Acks
  <2>5. RunnersAreLate'
    BY <1>10, <2>1 DEF ApartInv, TypeOK, RunnersAreLate, SameKey, Tick, Acks
  <2>6. SendsApart'
    BY <1>10 DEF ApartInv, SendsApart, SameKey, Tick
  <2> QED
    BY <2>2, <2>3, <2>4, <2>5, <2>6 DEF ApartInv
<1>11. CASE Restart
  <2>1. /\ now' = now /\ epoch' = epoch + 1
        /\ \A d \in delivered' : d \in delivered
              \/ (d.at = now /\ d.epoch = epoch /\ d.outcome = "unheard")
    BY <1>11 DEF Restart, Delivery
  <2>2. \A d \in delivered' : d.epoch < epoch' /\ d.at <= now
    BY <2>1 DEF ApartInv, TypeOK, HistoryInPast, Deliveries
  <2>3. Acks' = {}
    <3>1. ASSUME NEW d \in delivered' PROVE d.epoch # epoch'
      <4>1. d.epoch \in Int /\ epoch' \in Int
        BY DEF ApartInv, TypeOK, Deliveries
      <4> QED
        BY <2>2, <4>1
    <3> QED
      BY <3>1 DEF Acks
  <2>4. \A c \in Calls : pc'[c] \notin Running
    BY <1>11 DEF Restart, Running
  <2>5. TableExact'
    BY <1>11, <2>4 DEF TableExact, Restart
  <2>6. HistoryInPast'
    <3>1. \A d \in delivered' : d.at <= now' /\ d.epoch <= epoch'
      BY <2>1, <2>2 DEF ApartInv, TypeOK, HistoryInPast, Deliveries
    <3>2. \A k \in Keys : cache'[k] <= now'
      BY <1>11 DEF ApartInv, TypeOK, Restart, Absent
    <3> QED
      BY <3>1, <3>2 DEF HistoryInPast
  <2>7. RecentIsCached' /\ RunnersAreLate'
    BY <2>3 DEF RecentIsCached, RunnersAreLate
  <2>8. SendsApart'
    BY <2>1 DEF ApartInv, SendsApart, SameKey
  <2> QED
    BY <2>5, <2>6, <2>7, <2>8 DEF ApartInv
<1>12. CASE UNCHANGED vars
  BY <1>12 DEF vars, ApartInv, TypeOK, TableExact, HistoryInPast, RecentIsCached,
               RunnersAreLate, SendsApart, SameKey, Acks
<1> QED
  BY <1>1, <1>2, <1>3, <1>4, <1>5, <1>6, <1>7, <1>8, <1>9, <1>10, <1>11, <1>12
     DEF Next, CallStep

LEMMA ApartInvariant == Spec => []ApartInv
<1>1. Init => ApartInv
  <2>1. Init => TypeOK
    BY TimeAssumption, NoKeyAssumption DEF Init, TypeOK, Absent, Places, Running, Results
  <2> QED
    BY <2>1, TimeAssumption
       DEF Init, ApartInv, TableExact, HistoryInPast, RecentIsCached, RunnersAreLate,
           SendsApart, Acks, Running, Absent
<1>2. ApartInv /\ TypeOK' /\ [Next]_vars => ApartInv'
  BY ApartStep
<1> QED
  BY <1>1, <1>2, TypeCorrect, PTL DEF Spec

\* Callers with one key never run at the same time (the in-flight table).
THEOREM ExclusivePerKey == Spec => []OneRunPerKey
<1>1. ApartInv => OneRunPerKey
  BY DEF ApartInv, TableExact, OneRunPerKey, SameKey
<1> QED
  BY <1>1, ApartInvariant, PTL

\* Two acknowledged sends of one key in one life of the process are more than
\* the TTL apart (the idempotency cache and the in-flight table together).
THEOREM AcknowledgedSendsApart == Spec => []SendsApart
<1>1. ApartInv => SendsApart
  BY DEF ApartInv
<1> QED
  BY <1>1, ApartInvariant, PTL

-----------------------------------------------------------------------------
(* Dispatch implements KeyedSend.  The in-flight table and the cache settle  *)
(* who may hold and send a key; what remains is where the callers' answers   *)
(* come from (Founded).                                                      *)

\* What is cached was acknowledged in this life of the process.
CacheFounded == \A k \in Keys : cache[k] # Absent => \E d \in Acks : key[d.call] = k

\* So was what a run about to leave the table, or awaited by another call, sent.
RunsFounded ==
    \A w \in Calls : pc[w] = "settle" /\ result[w] = "sent" => \E d \in Acks : d.call = w

JoinsFounded ==
    \A c \in Calls : pc[c] = "joined" =>
        /\ waitsFor[c] \in Calls /\ SameKey(waitsFor[c], c)
        /\ result[waitsFor[c]] = "sent" => \E d \in Acks : d.call = waitsFor[c]

\* A call has its result when its run is over, and not before.
ResultsInTime ==
    \A c \in Calls :
        /\ pc[c] \in {"idle", "consent", "provider", "joined"} => result[c] = "none"
        /\ pc[c] \in {"settle", "done"} => result[c] # "none"

Founded == CacheFounded /\ RunsFounded /\ JoinsFounded /\ ResultsInTime /\ IdempotentMeansSent

-----------------------------------------------------------------------------
\* The steps that deliver nothing and fill no cache entry keep what was founded.
LEMMA NothingNew ==
    ASSUME ApartInv, Founded,
           UNCHANGED <<now, epoch, delivered>>,
           cache' \in {cache, CleanIdempotency}
    PROVE  Acks' = Acks /\ CacheFounded'
<1>1. Acks' = Acks
  BY DEF Acks
<1>2. ASSUME NEW k \in Keys, cache'[k] # Absent PROVE cache[k] # Absent
  BY <1>2, CleanKeepsYoung DEF ApartInv
<1> QED
  BY <1>1, <1>2 DEF Founded, CacheFounded

LEMMA FoundedStep == ApartInv /\ Founded /\ [Next]_vars => Founded'
<1> SUFFICES ASSUME ApartInv, Founded, [Next]_vars PROVE Founded'
  OBVIOUS
<1> USE NoKeyAssumption, NoCallAssumption, CallAssumption, TimeAssumption
<1> USE DEF Founded
<1>0. pc \in [Calls -> Places] /\ result \in [Calls -> Results]
      /\ waitsFor \in [Calls -> Calls \union {NoCall}]
      /\ cache \in [Keys -> {Absent} \union 0..MaxTime]
  BY DEF ApartInv, TypeOK
<1>1. ASSUME NEW c \in Calls, RejectText(c) PROVE Founded'
  <2>1. Acks' = Acks /\ CacheFounded'
    BY <1>1, NothingNew DEF RejectText
  <2> QED
    BY <1>0, <1>1, <2>1 DEF RejectText, RunsFounded, JoinsFounded, ResultsInTime,
                            IdempotentMeansSent, SameKey
<1>2. ASSUME NEW c \in Calls, ReturnCached(c) PROVE Founded'
  <2>1. Acks' = Acks /\ CacheFounded'
    BY <1>2, NothingNew DEF ReturnCached
  <2>2. \E d \in Acks : key[d.call] = key[c]
    BY <1>2, CleanKeepsYoung DEF ReturnCached, CacheFounded, ApartInv
  <2>3. \E d \in delivered : d.outcome = "acked" /\ SameKey(d.call, c)
    BY <1>2, <2>2 DEF ReturnCached, Acks, SameKey
  <2> QED
    BY <1>0, <1>2, <2>1, <2>3 DEF ReturnCached, RunsFounded, JoinsFounded, ResultsInTime,
                                  IdempotentMeansSent, SameKey
<1>3. ASSUME NEW c \in Calls, JoinInflight(c) PROVE Founded'
  <2>1. Acks' = Acks /\ CacheFounded'
    BY <1>3, NothingNew DEF JoinInflight
  <2>2. /\ inflight[key[c]] \in Calls /\ SameKey(inflight[key[c]], c)
        /\ pc[inflight[key[c]]] \in Running
    BY <1>3 DEF JoinInflight, ApartInv, TableExact, TypeOK, SameKey
  <2>3. result[inflight[key[c]]] = "sent" => \E d \in Acks : d.call = inflight[key[c]]
    BY <2>2 DEF RunsFounded, ResultsInTime, Running
  <2>4. JoinsFounded'
    BY <1>0, <1>3, <2>1, <2>2, <2>3 DEF JoinInflight, JoinsFounded, SameKey
  <2> QED
    BY <1>0, <1>3, <2>1, <2>4 DEF JoinInflight, RunsFounded, ResultsInTime,
                                  IdempotentMeansSent, SameKey
<1>4. ASSUME NEW c \in Calls, StartRun(c) PROVE Founded'
  <2>1. Acks' = Acks /\ CacheFounded'
    BY <1>4, NothingNew DEF StartRun
  <2>2. \/ /\ \E place \in {"consent", "provider"} : pc' = [pc EXCEPT ![c] = place]
           /\ result' = result
        \/ /\ pc' = [pc EXCEPT ![c] = "settle"]
           /\ \E r \in {"rate_channel", "rate_recipient"} : result' = [result EXCEPT ![c] = r]
    BY <1>4 DEF StartRun, Admission
  <2> QED
    BY <1>0, <1>4, <2>1, <2>2 DEF StartRun, RunsFounded, JoinsFounded, ResultsInTime,
                                  IdempotentMeansSent, SameKey
<1>5. ASSUME NEW c \in Calls, CheckConsent(c) PROVE Founded'
  <2>1. Acks' = Acks /\ CacheFounded'
    BY <1>5, NothingNew DEF CheckConsent
  <2> QED
    BY <1>0, <1>5, <2>1 DEF CheckConsent, RunsFounded, JoinsFounded, ResultsInTime,
                            IdempotentMeansSent, SameKey
<1>6. ASSUME NEW c \in Calls, ProviderAcks(c) PROVE Founded'
  <2> DEFINE new == Delivery(c, "acked")
  <2>1. /\ new.call = c /\ new.epoch = epoch /\ new.outcome = "acked"
        /\ delivered' = delivered \union {new} /\ epoch' = epoch
    BY <1>6 DEF Delivery, ProviderAcks
  <2> HIDE DEF new
  <2>2. Acks' = Acks \union {new}
    BY <2>1 DEF Acks
  <2>3. CacheFounded'
    BY <1>0, <1>6, <2>1, <2>2 DEF ProviderAcks, CacheFounded
  <2>4. RunsFounded' /\ JoinsFounded'
    BY <1>0, <1>6, <2>1, <2>2 DEF ProviderAcks, RunsFounded, JoinsFounded, SameKey
  <2>5. ResultsInTime'
    BY <1>0, <1>6 DEF ProviderAcks, ResultsInTime
  <2>6. IdempotentMeansSent'
    BY <1>0, <1>6, <2>1 DEF ProviderAcks, IdempotentMeansSent, SameKey
  <2> QED
    BY <2>3, <2>4, <2>5, <2>6
<1>7. ASSUME NEW c \in Calls, ProviderFails(c) PROVE Founded'
  <2>1. Acks \subseteq Acks' /\ delivered \subseteq delivered'
    BY <1>7 DEF ProviderFails, Acks
  <2>2. CacheFounded' /\ RunsFounded' /\ JoinsFounded'
    BY <1>0, <1>7, <2>1 DEF ProviderFails, CacheFounded, RunsFounded, JoinsFounded, SameKey
  <2> QED
    BY <1>0, <1>7, <2>1, <2>2 DEF ProviderFails, ResultsInTime, IdempotentMeansSent, SameKey
<1>8. ASSUME NEW c \in Calls, Settle(c) PROVE Founded'
  <2>1. Acks' = Acks /\ CacheFounded'
    BY <1>8, NothingNew DEF Settle
  <2> QED
    BY <1>0, <1>8, <2>1 DEF Settle, RunsFounded, JoinsFounded, ResultsInTime,
                            IdempotentMeansSent, SameKey
<1>9. ASSUME NEW c \in Calls, ReturnJoined(c) PROVE Founded'
  <2>1. Acks' = Acks /\ CacheFounded'
    BY <1>9, NothingNew DEF ReturnJoined
  <2>2. result[waitsFor[c]] = "sent" =>
            \E d \in delivered : d.outcome = "acked" /\ SameKey(d.call, c)
    BY <1>9 DEF ReturnJoined, JoinsFounded, SameKey, Acks
  <2>3. IdempotentMeansSent'
    BY <1>0, <1>9, <2>2 DEF ReturnJoined, IdempotentMeansSent, SameKey
  <2> QED
    BY <1>0, <1>9, <2>1, <2>3 DEF ReturnJoined, RunsFounded, JoinsFounded, ResultsInTime, SameKey
<1>10. CASE Tick
  <2>1. Acks' = Acks
    BY <1>10 DEF Tick, Acks
  <2> QED
    BY <1>10, <2>1 DEF Tick, CacheFounded, RunsFounded, JoinsFounded, ResultsInTime,
                       IdempotentMeansSent, SameKey
<1>11. CASE Restart
  <2>1. delivered \subseteq delivered'
    BY <1>11 DEF Restart
  <2>2. \A c \in Calls : /\ pc'[c] \in {"idle", "done", "lost"}
                         /\ pc'[c] # "lost" => pc'[c] = pc[c]
    BY <1>11 DEF Restart
  <2>3. CacheFounded'
    BY <1>11 DEF Restart, CacheFounded
  <2> QED
    BY <1>11, <2>1, <2>2, <2>3 DEF Restart, RunsFounded, JoinsFounded, ResultsInTime,
                                   IdempotentMeansSent, SameKey
<1>12. CASE UNCHANGED vars
  BY <1>12 DEF vars, Acks, CacheFounded, RunsFounded, JoinsFounded, ResultsInTime,
               IdempotentMeansSent, SameKey
<1> QED
  BY <1>1, <1>2, <1>3, <1>4, <1>5, <1>6, <1>7, <1>8, <1>9, <1>10, <1>11, <1>12
     DEF Next, CallStep

LEMMA FoundedInvariant == Spec => [](ApartInv /\ Founded)
<1>1. Init => Founded
  BY DEF Init, Founded, CacheFounded, RunsFounded, JoinsFounded, ResultsInTime,
         IdempotentMeansSent
<1> QED
  BY <1>1, FoundedStep, ApartInvariant, PTL DEF Spec

\* Success is never reported for a message nobody sent: not from the cache and
\* not from a joined run (dispatchWhatsAppText's two "idempotent" returns).
THEOREM AcknowledgedBeforeClaimed == Spec => []IdempotentMeansSent
<1>1. Founded => IdempotentMeansSent
  BY DEF Founded
<1> QED
  BY <1>1, FoundedInvariant, PTL

-----------------------------------------------------------------------------
(* Every step is one the promise allows. *)

Answers == [c \in Calls |-> Told(result[c])]

LEMMA ToldWhat ==
    /\ Told("none") = "none" /\ Told("sent") = "sent" /\ Told("idempotent_sent") = "repeated"
    /\ \A r \in {"invalid", "failed", "no_consent", "rate_channel", "rate_recipient",
                 "idempotent_failed"} : Told(r) = "failed"
    /\ \A r \in Results : Told(r) = "none" => r = "none"
BY DEF Told, Results

\* A call that gets a result gets its answer, and only it.
LEMMA AnswerGiven ==
    ASSUME TypeOK, NEW c \in Calls, NEW r \in Results,
           result[c] = "none", result' = [result EXCEPT ![c] = r]
    PROVE  Answers[c] = "none" /\ Answers' = [Answers EXCEPT ![c] = Told(r)]
BY ToldWhat DEF TypeOK, Answers

LEMMA AnswersKept == ASSUME result' = result PROVE Answers' = Answers
BY DEF Answers

LEMMA AcknowledgedKept ==
    ASSUME \/ delivered' = delivered
           \/ \E D \in SUBSET Calls :
                 delivered' = delivered \union {Delivery(c, "unheard") : c \in D}
    PROVE  Acknowledged' = Acknowledged
BY DEF Acknowledged, Delivery

LEMMA PromiseStep == ApartInv /\ Founded /\ [Next]_vars => [Promise!Next]_Promise!pvars
<1> SUFFICES ASSUME ApartInv, Founded, [Next]_vars
             PROVE  Promise!Next \/ UNCHANGED Promise!pvars
  OBVIOUS
<1> USE NoKeyAssumption, NoCallAssumption, CallAssumption
<1>t. TypeOK
  BY DEF ApartInv
<1>a. ASSUME NEW c \in Calls, NEW r \in Results, Told(r) = "failed", result[c] = "none",
             result' = [result EXCEPT ![c] = r],
             UNCHANGED <<now, epoch, inflight>>, Acknowledged' = Acknowledged
      PROVE  Promise!Refuse(c)
  BY <1>t, <1>a, AnswerGiven DEF Promise!Refuse, Promise!Answer, Answers
<1>b. ASSUME NEW c \in Calls, result[c] = "none",
             \E d \in delivered : d.outcome = "acked" /\ d.epoch = epoch /\ SameKey(d.call, c),
             result' = [result EXCEPT ![c] = "idempotent_sent"],
             UNCHANGED <<now, epoch, inflight, delivered>>
      PROVE  Promise!Repeat(c)
  <2>1. Acknowledged' = Acknowledged
    BY <1>b, AcknowledgedKept
  <2>2. PICK d \in delivered : d.outcome = "acked" /\ d.epoch = epoch /\ SameKey(d.call, c)
    BY <1>b
  <2>3. [call |-> d.call, at |-> d.at, life |-> d.epoch] \in Promise!AcksOf(c)
    BY <2>2 DEF Promise!AcksOf, Acknowledged, SameKey
  <2>4. Answers[c] = "none" /\ Answers' = [Answers EXCEPT ![c] = "repeated"]
    BY <1>t, <1>b, AnswerGiven, ToldWhat DEF Results
  <2> QED
    BY <1>b, <2>1, <2>2, <2>3, <2>4 DEF Promise!Repeat, Promise!Answer, Answers, SameKey
<1>1. ASSUME NEW c \in Calls, RejectText(c) PROVE Promise!Refuse(c)
  BY <1>1, <1>a, ToldWhat, AcknowledgedKept
     DEF RejectText, Founded, ResultsInTime, Results
<1>2. ASSUME NEW c \in Calls, ReturnCached(c) PROVE Promise!Repeat(c)
  <2>1. PICK d \in Acks : key[d.call] = key[c]
    BY <1>2, CleanKeepsYoung DEF ReturnCached, Founded, CacheFounded, ApartInv
  <2>2. d \in delivered /\ d.outcome = "acked" /\ d.epoch = epoch /\ SameKey(d.call, c)
    BY <1>2, <2>1 DEF ReturnCached, Acks, SameKey
  <2> QED
    BY <1>2, <1>b, <2>2 DEF ReturnCached, Founded, ResultsInTime
<1>3. ASSUME NEW c \in Calls, JoinInflight(c) PROVE UNCHANGED Promise!pvars
  BY <1>3, AnswersKept, AcknowledgedKept DEF JoinInflight, Promise!pvars, Answers
<1>4. ASSUME NEW c \in Calls, StartRun(c) PROVE Promise!Next \/ UNCHANGED Promise!pvars
  <2>1. /\ result[c] = "none" /\ UNCHANGED <<now, epoch, delivered>>
        /\ Acknowledged' = Acknowledged
    BY <1>4, AcknowledgedKept DEF StartRun, Founded, ResultsInTime
  <2>2. \/ result' = result
        \/ \E r \in {"rate_channel", "rate_recipient"} : result' = [result EXCEPT ![c] = r]
    BY <1>4 DEF StartRun, Admission
  <2>3. /\ Answers[c] = "none"
        /\ \/ Answers' = Answers
           \/ Answers' = [Answers EXCEPT ![c] = "failed"]
    BY <1>t, <2>1, <2>2, AnswersKept, AnswerGiven, ToldWhat DEF Results, Answers
  <2>4. CASE key[c] = NoKey
    <3>1. inflight' = inflight
      BY <1>4, <2>4 DEF StartRun
    <3> QED
      BY <2>1, <2>3, <3>1 DEF Promise!pvars, Promise!Next, Promise!Refuse, Promise!Answer, Answers
  <2>5. CASE key[c] \in Keys
    <3>1. Promise!Take(c)
      BY <1>4, <2>1, <2>3, <2>5
         DEF StartRun, Promise!Take, Promise!Answer, Answers
    <3> QED
      BY <3>1 DEF Promise!Next
  <2> QED
    BY <2>4, <2>5
<1>5. ASSUME NEW c \in Calls, CheckConsent(c) PROVE Promise!Refuse(c) \/ UNCHANGED Promise!pvars
  <2>1. CASE result' = result
    BY <1>5, <2>1, AnswersKept, AcknowledgedKept DEF CheckConsent, Promise!pvars, Answers
  <2>2. CASE result' = [result EXCEPT ![c] = "no_consent"]
    BY <1>5, <2>2, <1>a, ToldWhat, AcknowledgedKept
       DEF CheckConsent, Founded, ResultsInTime, Results
  <2> QED
    BY <1>5, <2>1, <2>2 DEF CheckConsent
<1>6. ASSUME NEW c \in Calls, ProviderAcks(c) PROVE Promise!Acknowledge(c)
  <2>1. Answers[c] = "none" /\ Answers' = [Answers EXCEPT ![c] = "sent"]
    BY <1>6, <1>t, AnswerGiven, ToldWhat DEF ProviderAcks, Founded, ResultsInTime, Results
  <2>2. Acknowledged' = Acknowledged \union {[call |-> c, at |-> now, life |-> epoch]}
    <3> DEFINE new == Delivery(c, "acked")
    <3>1. /\ new.call = c /\ new.at = now /\ new.epoch = epoch /\ new.outcome = "acked"
          /\ delivered' = delivered \union {new}
      BY <1>6 DEF Delivery, ProviderAcks
    <3> HIDE DEF new
    <3>2. {e \in delivered' : e.outcome = "acked"}
             = {e \in delivered : e.outcome = "acked"} \union {new}
      BY <3>1
    <3> QED
      BY <3>1, <3>2 DEF Acknowledged
  <2>3. key[c] \in Keys => inflight[key[c]] = c
    BY <1>6 DEF ProviderAcks, ApartInv, TableExact, Running
  <2>4. ASSUME key[c] \in Keys, NEW a \in Promise!AcksOf(c) PROVE now - a.at > TTL
    <3>1. PICK d \in delivered : /\ d.outcome = "acked" /\ d.epoch = epoch
                                 /\ a.at = d.at /\ key[d.call] = key[c]
      BY <2>4 DEF Promise!AcksOf, Acknowledged
    <3> QED
      BY <1>6, <2>4, <3>1 DEF ProviderAcks, ApartInv, RunnersAreLate, Acks, SameKey
  <2> QED
    BY <1>6, <2>1, <2>2, <2>3, <2>4
       DEF ProviderAcks, Promise!Acknowledge, Promise!Answer, Answers
<1>7. ASSUME NEW c \in Calls, ProviderFails(c) PROVE Promise!Refuse(c)
  <2>1. Acknowledged' = Acknowledged
    BY <1>7 DEF ProviderFails, Acknowledged, Delivery
  <2> QED
    BY <1>7, <2>1, <1>a, ToldWhat DEF ProviderFails, Founded, ResultsInTime, Results
<1>8. ASSUME NEW c \in Calls, Settle(c) PROVE Promise!Release(c) \/ UNCHANGED Promise!pvars
  <2>1. Answers' = Answers /\ Acknowledged' = Acknowledged
    BY <1>8, AnswersKept, AcknowledgedKept DEF Settle
  <2>2. CASE key[c] \notin Keys
    BY <1>8, <2>1, <2>2 DEF Settle, Promise!pvars, Answers
  <2>3. CASE key[c] \in Keys
    <3>1. inflight[key[c]] = c
      BY <1>8, <2>3 DEF Settle, ApartInv, TableExact, Running
    <3>2. Answers[c] # "none"
      BY <1>8, <1>t, ToldWhat DEF Settle, Founded, ResultsInTime, Answers, TypeOK
    <3> QED
      BY <1>8, <2>1, <2>3, <3>1, <3>2 DEF Settle, Promise!Release, Answers
  <2> QED
    BY <2>2, <2>3
<1>9. ASSUME NEW c \in Calls, ReturnJoined(c) PROVE Promise!Repeat(c) \/ Promise!Refuse(c)
  <2>1. result[c] = "none"
    BY <1>9 DEF ReturnJoined, Founded, ResultsInTime
  <2>2. CASE result[waitsFor[c]] = "sent"
    <3>1. \E d \in delivered : d.outcome = "acked" /\ d.epoch = epoch /\ SameKey(d.call, c)
      BY <1>9, <2>2 DEF ReturnJoined, Founded, JoinsFounded, SameKey, Acks
    <3> QED
      BY <1>9, <1>b, <2>1, <2>2, <3>1 DEF ReturnJoined
  <2>3. CASE result[waitsFor[c]] # "sent"
    BY <1>9, <1>a, <2>1, <2>3, ToldWhat, AcknowledgedKept DEF ReturnJoined, Results
  <2> QED
    BY <2>2, <2>3
<1>10. CASE Tick
  BY <1>10, AnswersKept, AcknowledgedKept DEF Tick, Promise!Next, Promise!Pass, Answers
<1>11. CASE Restart
  <2>1. Acknowledged' = Acknowledged
    BY <1>11, AcknowledgedKept DEF Restart
  <2> QED
    BY <1>11, <2>1, AnswersKept DEF Restart, Promise!Next, Promise!Crash, Answers
<1>12. CASE UNCHANGED vars
  BY <1>12, AnswersKept, AcknowledgedKept DEF vars, Promise!pvars, Answers
<1> QED
  BY <1>1, <1>2, <1>3, <1>4, <1>5, <1>6, <1>7, <1>8, <1>9, <1>10, <1>11, <1>12
     DEF Next, CallStep, Promise!Next

\* The maps of dispatchWhatsAppText keep the promise of KeyedSend to every
\* caller of a key: one holder, one acknowledgement per TTL, no repeat unsent.
THEOREM ImplementsKeyedSend == Spec => KeyedSends
<1>1. Init => Promise!Init
  BY ToldWhat DEF Init, Promise!Init, Acknowledged
<1> QED
  BY <1>1, PromiseStep, FoundedInvariant, PTL DEF Spec, KeyedSends, Promise!Spec

-----------------------------------------------------------------------------
(* The rate windows. *)

\* The calls of this life that passed both checks during the last Window ticks.
Recent == {c \in Calls : passedAt[c] # Absent /\ passedAt[c] > now - Window}
RecentTo(r) == {c \in Recent : to[c] = r}

\* The stamp lists are finite, and pruning drops none that a later check must count:
\* every recent call still has its stamp in both.
StampsCover ==
    \A w \in {"channel", "recipient"} :
        IsFiniteSet(admitted[w]) /\ \A c \in Recent : <<c, passedAt[c]>> \in admitted[w]

WindowInv == TypeOK /\ StampsCover /\ RateRespected

\* RateRespected in these words.
LEMMA RateWords ==
    RateRespected <=> /\ Cardinality(Recent) <= MaxPerChannel
                      /\ \A r \in Recipients : Cardinality(RecentTo(r)) <= MaxPerRecipient
BY DEF RateRespected, Recent, RecentTo

\* Distinct calls have distinct stamps, so that they are no more than the stamps.
LEMMA NoMoreThanStamps ==
    ASSUME NEW C, NEW S, IsFiniteSet(S), \A c \in C : <<c, passedAt[c]>> \in S
    PROVE  IsFiniteSet(C) /\ Cardinality(C) <= Cardinality(S)
<1> DEFINE stamp == [c \in C |-> <<c, passedAt[c]>>]
<1>1. stamp \in Injection(C, S)
  BY DEF Injection, IsInjective
<1> QED  BY <1>1, FS_Injection

\* A set that loses members, or gains one below the limit, stays within the limit.
LEMMA StaysWithin ==
    ASSUME NEW S, IsFiniteSet(S), NEW T, NEW c, NEW n \in Nat,
           \/ T \subseteq S /\ Cardinality(S) <= n
           \/ T \subseteq S \union {c} /\ Cardinality(S) < n
    PROVE  Cardinality(T) <= n
<1>1. /\ Cardinality(S) \in Nat
      /\ IsFiniteSet(S \union {c}) /\ Cardinality(S \union {c}) \in Nat
      /\ Cardinality(S \union {c}) <= Cardinality(S) + 1
  <2>1. Cardinality(S) \in Nat
    BY FS_CardinalityType
  <2>2. /\ IsFiniteSet(S \union {c})
        /\ Cardinality(S \union {c}) = IF c \in S THEN Cardinality(S) ELSE Cardinality(S) + 1
    BY FS_AddElement
  <2> QED  BY <2>1, <2>2
<1>2. CASE T \subseteq S /\ Cardinality(S) <= n
  <2>1. Cardinality(T) <= Cardinality(S) /\ IsFiniteSet(T)
    BY <1>2, FS_Subset
  <2>2. Cardinality(T) \in Nat
    BY <2>1, FS_CardinalityType
  <2> QED  BY <1>1, <1>2, <2>1, <2>2
<1>3. CASE T \subseteq S \union {c} /\ Cardinality(S) < n
  <2>1. Cardinality(T) <= Cardinality(S \union {c}) /\ IsFiniteSet(T)
    BY <1>1, <1>3, FS_Subset
  <2>2. Cardinality(T) \in Nat
    BY <2>1, FS_CardinalityType
  <2> QED  BY <1>1, <1>3, <2>1, <2>2
<1> QED  BY <1>2, <1>3

\* What a check counts is finite, and covers the recent calls it is about.
LEMMA ChecksCount ==
    ASSUME TypeOK, StampsCover, NEW r
    PROVE  /\ IsFiniteSet(Recent) /\ Cardinality(Recent) <= Cardinality(StampsOf("channel", r))
           /\ IsFiniteSet(RecentTo(r)) /\ Cardinality(RecentTo(r)) <= Cardinality(StampsOf("recipient", r))
           /\ Cardinality(StampsOf("channel", r)) \in Nat /\ Cardinality(StampsOf("recipient", r)) \in Nat
<1>1. \A w \in {"channel", "recipient"} : IsFiniteSet(admitted[w]) /\ StampsOf(w, r) \in SUBSET admitted[w]
  BY DEF StampsCover, StampsOf, Prune
<1>2. \A w \in {"channel", "recipient"} : IsFiniteSet(StampsOf(w, r)) /\ Cardinality(StampsOf(w, r)) \in Nat
  BY <1>1, FS_Subset, FS_CardinalityType
<1>3. \A c \in Recent : <<c, passedAt[c]>> \in StampsOf("channel", r)
  BY DEF StampsCover, StampsOf, Prune, Recent
<1>4. \A c \in RecentTo(r) : <<c, passedAt[c]>> \in StampsOf("recipient", r)
  BY DEF StampsCover, StampsOf, Prune, Recent, RecentTo
<1> QED  BY <1>2, <1>3, <1>4, NoMoreThanStamps

\* A run that is admitted was counted against both limits; one that is not adds nobody.
LEMMA AdmissionWithin ==
    ASSUME WindowInv, NEW c \in Calls, Admission(c), UNCHANGED now
    PROVE  StampsCover' /\ RateRespected'
<1> USE CallAssumption, LimitAssumption
<1>0. /\ TypeOK /\ StampsCover /\ RateRespected
      /\ passedAt \in [Calls -> {Absent} \union 0..MaxTime]
      /\ admitted \in [{"channel", "recipient"} -> SUBSET (Calls \X (0..MaxTime))]
      /\ now \in Nat
  BY TimeAssumption DEF WindowInv, TypeOK
<1>1. \A w \in {"channel", "recipient"} :
         /\ Prune(admitted[w]) \subseteq admitted[w]
         /\ \A d \in Recent : <<d, passedAt[d]>> \in Prune(admitted[w])
  BY <1>0 DEF StampsCover, Prune, Recent
<1>2. \A w \in {"channel", "recipient"} :
         IsFiniteSet(Prune(admitted[w])) /\ IsFiniteSet(Prune(admitted[w]) \union {<<c, now>>})
  BY <1>0, <1>1, FS_Subset, FS_AddElement DEF StampsCover
<1>3. \A w \in {"channel", "recipient"} :
         admitted'[w] \in {Prune(admitted[w]), Prune(admitted[w]) \union {<<c, now>>}, admitted[w]}
  BY <1>0 DEF Admission, Stamp
<1>4. \A w \in {"channel", "recipient"} : IsFiniteSet(admitted'[w])
  BY <1>0, <1>2, <1>3 DEF StampsCover
<1>5. CASE passedAt' = passedAt
  <2>1. Recent' = Recent /\ \A r : RecentTo(r)' = RecentTo(r)
    BY <1>5 DEF Recent, RecentTo
  <2>2. \A w \in {"channel", "recipient"} : \A d \in Recent : <<d, passedAt[d]>> \in admitted'[w]
    BY <1>0, <1>1, <1>3 DEF StampsCover
  <2>3. StampsCover'
    BY <1>4, <1>5, <2>1, <2>2 DEF StampsCover
  <2> QED  BY <1>0, <2>1, <2>3, RateWords DEF RateRespected, Recent
<1>6. CASE /\ AllowChannel(c) /\ AllowRecipient(c)
           /\ admitted' = [w \in {"channel", "recipient"} |-> Prune(admitted[w]) \union {<<c, now>>}]
           /\ passedAt' = [passedAt EXCEPT ![c] = now]
  <2>1. Recent' \subseteq Recent \union {c} /\ \A d \in Recent' : d # c => passedAt'[d] = passedAt[d]
    BY <1>0, <1>6 DEF Recent
  <2>2. \A w \in {"channel", "recipient"} : \A d \in Recent' : <<d, passedAt'[d]>> \in admitted'[w]
    BY <1>0, <1>1, <1>6, <2>1
  <2>3. StampsCover'
    BY <1>4, <2>2 DEF StampsCover
  <2>4. Cardinality(Recent') <= MaxPerChannel
    <3>1. IsFiniteSet(Recent) /\ Cardinality(Recent) < MaxPerChannel
      <4>1. Cardinality(StampsOf("channel", to[c])) < MaxPerChannel
        BY <1>6 DEF AllowChannel
      <4>2. IsFiniteSet(Recent) /\ Cardinality(Recent) \in Nat
        BY <1>0, ChecksCount, FS_CardinalityType
      <4> QED  BY <1>0, <4>1, <4>2, ChecksCount
    <3> QED  BY <2>1, <3>1, StaysWithin
  <2>5. ASSUME NEW r \in Recipients PROVE Cardinality(RecentTo(r)') <= MaxPerRecipient
    <3>1. IsFiniteSet(RecentTo(r)) /\ Cardinality(RecentTo(r)) \in Nat
      BY <1>0, ChecksCount, FS_CardinalityType
    <3>2. CASE r = to[c]
      <4>1. Cardinality(StampsOf("recipient", r)) < MaxPerRecipient
        BY <1>6, <3>2 DEF AllowRecipient
      <4>2. Cardinality(RecentTo(r)) < MaxPerRecipient
        BY <1>0, <3>1, <4>1, ChecksCount
      <4>3. RecentTo(r)' \subseteq RecentTo(r) \union {c}
        BY <2>1 DEF RecentTo
      <4> QED  BY <3>1, <4>2, <4>3, StaysWithin
    <3>3. CASE r # to[c]
      <4>1. RecentTo(r)' \subseteq RecentTo(r)
        BY <2>1, <3>3 DEF RecentTo
      <4>2. Cardinality(RecentTo(r)) <= MaxPerRecipient
        BY <1>0, RateWords
      <4> QED  BY <3>1, <4>1, <4>2, StaysWithin
    <3> QED  BY <3>2, <3>3
  <2>6. RateRespected'
    BY <2>4, <2>5 DEF RateRespected, Recent, RecentTo
  <2> QED  BY <2>3, <2>6
<1> QED  BY <1>5, <1>6 DEF Admission

LEMMA WindowStep == WindowInv /\ TypeOK' /\ [Next]_vars => WindowInv'
<1> SUFFICES ASSUME WindowInv, TypeOK', [Next]_vars PROVE StampsCover' /\ RateRespected'
  BY DEF WindowInv
<1>0. TypeOK /\ StampsCover /\ RateRespected
  BY DEF WindowInv
<1>1. CASE \E c \in Calls : StartRun(c)
  BY <1>1, AdmissionWithin DEF StartRun
<1>2. CASE UNCHANGED <<now, admitted, passedAt>>
  <2>1. Recent' = Recent
    BY <1>2 DEF Recent
  <2> QED  BY <1>0, <1>2, <2>1 DEF StampsCover, RateRespected
<1>3. CASE Tick
  <2>1. Recent' \subseteq Recent /\ \A r : RecentTo(r)' \subseteq RecentTo(r)
    BY <1>0, <1>3, TimeAssumption DEF Tick, Recent, RecentTo, TypeOK, Absent
  <2>2. StampsCover'
    BY <1>0, <1>3, <2>1 DEF StampsCover, Tick
  <2>3. Cardinality(Recent') <= MaxPerChannel
    BY <1>0, <2>1, ChecksCount, RateWords, StaysWithin, LimitAssumption
  <2>4. \A r \in Recipients : Cardinality(RecentTo(r)') <= MaxPerRecipient
    BY <1>0, <2>1, ChecksCount, RateWords, StaysWithin, LimitAssumption
  <2> QED  BY <2>2, <2>3, <2>4 DEF RateRespected, Recent, RecentTo
<1>4. CASE Restart
  <2>1. Recent' = {}
    BY <1>4 DEF Restart, Recent
  <2>2. StampsCover'
    BY <1>4, <2>1, FS_EmptySet DEF Restart, StampsCover
  <2>3. Cardinality(Recent') <= MaxPerChannel
    BY <2>1, FS_EmptySet, LimitAssumption
  <2>4. \A r \in Recipients : Cardinality(RecentTo(r)') <= MaxPerRecipient
    <3>1. \A r \in Recipients : RecentTo(r)' = {}
      BY <2>1 DEF RecentTo
    <3> QED  BY <3>1, FS_EmptySet, LimitAssumption
  <2> QED  BY <2>2, <2>3, <2>4 DEF RateRespected, Recent, RecentTo
<1>5. CASE \E c \in Calls : CallStep(c) /\ ~StartRun(c)
  BY <1>2, <1>5 DEF CallStep, RejectText, ReturnCached, JoinInflight, CheckConsent, ProviderAcks, ProviderFails,
                    Settle, ReturnJoined
<1>6. CASE UNCHANGED vars
  BY <1>2, <1>6 DEF vars
<1> QED  BY <1>1, <1>3, <1>4, <1>5, <1>6 DEF Next

\* For any calls, limits and windows: no window holds more admissions than the limit of
\* the channel, nor of a recipient, whatever the two stamp lists have dropped.
THEOREM LimitsHold == Spec => []RateRespected
<1>1. Init => StampsCover /\ RateRespected
  <2> SUFFICES ASSUME Init PROVE StampsCover /\ RateRespected
    OBVIOUS
  <2>1. Recent = {}
    BY DEF Init, Recent
  <2>2. StampsCover
    BY <2>1, FS_EmptySet DEF Init, StampsCover
  <2>3. \A r : {c \in Recent : to[c] = r} = {}
    BY <2>1
  <2> QED  BY <2>1, <2>2, <2>3, FS_EmptySet, LimitAssumption DEF RateRespected, Recent
<1>2. Init => TypeOK
  BY TimeAssumption, NoKeyAssumption DEF Init, TypeOK, Absent, Places, Running, Results
<1>3. WindowInv => RateRespected
  BY DEF WindowInv
<1> QED  BY <1>1, <1>2, <1>3, WindowStep, TypeCorrect, PTL DEF Spec, WindowInv
=============================================================================

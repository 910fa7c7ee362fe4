-------------------------- MODULE InactivitySweep --------------------------
(***************************************************************************)
(* The inactivity scheduler over all the conversations of one company:     *)
(* services/conversation-close.ts, runInactivityAutoClose and              *)
(* startInactivityCloseScheduler.  Attendance follows one conversation     *)
(* through every await; here the question is which conversations a pass    *)
(* gets to look at.                                                        *)
(*                                                                         *)
(* setInterval starts a pass whether or not the one before it is over, so  *)
(* passes overlap.                                                         *)
(***************************************************************************)
EXTENDS Integers, FiniteSets

CONSTANTS
    Convs,     \* conversations of the company
    NoConv,    \* a pass that is closing nothing
    Passes,    \* passes that may run at the same time
    Limit,     \* limitPerTenant
    Timeout,   \* cfg.inactivity.timeoutMinutes, in ticks
    MaxTime    \* bound on the clock

ASSUME LimitPositive  == Limit \in Nat \ {0}
ASSUME TimesNatural   == Timeout \in Nat /\ MaxTime \in Nat
ASSUME NoConvApart    == NoConv \notin Convs

VARIABLES
    now,
    open,      \* the conversations whose status is OPEN or PENDING
    held,      \* those no automatic closing may touch: a human or the human queue
               \* has them, the customer waits for an answer, a draft or a task is open
    last,      \* lastMessageAt of each
    stage,     \* where each pass stands
    batch,     \* the candidates it has not considered yet
    current,   \* the candidate it is closing
    cutoff     \* Date.now() - timeout when its query ran

sweepVars == <<now, open, held, last, stage, batch, current, cutoff>>

SweepTypeOK ==
    /\ now \in 0..MaxTime
    /\ open \subseteq Convs /\ held \subseteq Convs
    /\ last \in [Convs -> 0..MaxTime]
    /\ stage \in [Passes -> {"idle", "scan", "close", "write"}]
    /\ batch \in [Passes -> SUBSET Convs]
    /\ current \in [Passes -> Convs \union {NoConv}]
    /\ cutoff \in [Passes -> Int]

SweepInit ==
    /\ now = 0
    /\ open = Convs
    /\ held \in SUBSET Convs
    /\ last = [c \in Convs |-> 0]
    /\ stage = [p \in Passes |-> "idle"]
    /\ batch = [p \in Passes |-> {}]
    /\ current = [p \in Passes |-> NoConv]
    /\ cutoff = [p \in Passes |-> 0]

-----------------------------------------------------------------------------
Quiet(c, limit) == c \in open /\ last[c] < limit

\* orderBy lastMessageAt asc, take limitPerTenant.
IsBatch(B, limit) ==
    LET quiet == {c \in Convs : Quiet(c, limit)}
    IN  /\ B \subseteq quiet
        /\ Cardinality(B) = IF Cardinality(quiet) < Limit THEN Cardinality(quiet) ELSE Limit
        /\ \A c \in B, d \in quiet \ B : last[c] <= last[d]

\* The candidate query.
StartPass(p) ==
    /\ stage[p] = "idle"
    /\ \E B \in SUBSET Convs :
          /\ IsBatch(B, now - Timeout)
          /\ B # {}
          /\ batch' = [batch EXCEPT ![p] = B]
    /\ cutoff' = [cutoff EXCEPT ![p] = now - Timeout]
    /\ stage' = [stage EXCEPT ![p] = "scan"]
    /\ UNCHANGED <<now, open, held, last, current>>

\* (Mutant) the pass stops at the first candidate it may not close.
ConsiderUntilHeld(p) ==
    /\ stage[p] = "scan"
    /\ \E c \in batch[p] :
          /\ \A d \in batch[p] : last[c] <= last[d]
          /\ IF c \in open \ held /\ last[c] <= cutoff[p]
             THEN /\ batch' = [batch EXCEPT ![p] = @ \ {c}]
                  /\ current' = [current EXCEPT ![p] = c]
                  /\ stage' = [stage EXCEPT ![p] = "close"]
             ELSE batch' = [batch EXCEPT ![p] = {}] /\ UNCHANGED <<current, stage>>
    /\ UNCHANGED <<now, open, held, last, cutoff>>

\* isEligibleForInactivityClose on the next candidate, in the query's order.
Consider(p) ==
    /\ stage[p] = "scan"
    /\ \E c \in batch[p] :
          /\ \A d \in batch[p] : last[c] <= last[d]
          /\ batch' = [batch EXCEPT ![p] = @ \ {c}]
          /\ IF c \in open \ held /\ last[c] <= cutoff[p]
             THEN /\ current' = [current EXCEPT ![p] = c]
                  /\ stage' = [stage EXCEPT ![p] = "close"]
             ELSE UNCHANGED <<current, stage>>
    /\ UNCHANGED <<now, open, held, last, cutoff>>

\* closeConversation: what it reads, then what it writes.
CloseRead(p) ==
    /\ stage[p] = "close"
    /\ IF current[p] \in open \ held
       THEN stage' = [stage EXCEPT ![p] = "write"] /\ UNCHANGED current
       ELSE /\ stage' = [stage EXCEPT ![p] = "scan"]
            /\ current' = [current EXCEPT ![p] = NoConv]
    /\ UNCHANGED <<now, open, held, last, batch, cutoff>>

CloseWrite(p) ==
    /\ stage[p] = "write"
    /\ open' = open \ {current[p]}
    /\ current' = [current EXCEPT ![p] = NoConv]
    /\ stage' = [stage EXCEPT ![p] = "scan"]
    /\ UNCHANGED <<now, held, last, batch, cutoff>>

EndPass(p) ==
    /\ stage[p] = "scan"
    /\ batch[p] = {}
    /\ stage' = [stage EXCEPT ![p] = "idle"]
    /\ UNCHANGED <<now, open, held, last, batch, current, cutoff>>

PassStep(p) == StartPass(p) \/ Consider(p) \/ CloseRead(p) \/ CloseWrite(p) \/ EndPass(p)

\* Somebody writes: the customer (reopening the conversation, and waiting for
\* an answer), the staff or the AI.
Message(c) ==
    /\ last' = [last EXCEPT ![c] = now]
    /\ last' # last
    /\ open' = open \union {c}
    /\ held' \in {held \union {c}, held \ {c}}
    /\ UNCHANGED <<now, stage, batch, current, cutoff>>

Elapse ==
    /\ now < MaxTime
    /\ now' = now + 1
    /\ UNCHANGED <<open, held, last, stage, batch, current, cutoff>>

SweepNext ==
    \/ \E p \in Passes : PassStep(p)
    \/ \E c \in Convs : Message(c)
    \/ Elapse

SweepSpec == SweepInit /\ [][SweepNext]_sweepVars

\* The interval keeps firing and a pass that has started goes on.
SweepFairSpec == SweepSpec /\ \A p \in Passes : WF_sweepVars(PassStep(p))

-----------------------------------------------------------------------------
Idle(c) == c \in open \ held /\ last[c] < now - Timeout

\* While fewer than limitPerTenant conversations are held, every idle
\* conversation gets closed: the held ones cannot fill the batch of a pass,
\* and a pass goes on past the ones it may not close.
ClosesWithRoom ==
    [](Cardinality(held) < Limit) => \A c \in Convs : Idle(c) ~> ~Idle(c)

\* settings/page.tsx:1626: "Encerra se o cliente parar de responder" - an idle
\* conversation does not stay open for ever.
IdleCloses == \A c \in Convs : Idle(c) ~> ~Idle(c)
=============================================================================

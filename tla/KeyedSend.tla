------------------------------ MODULE KeyedSend ------------------------------
(***************************************************************************)
(* What the dispatch layer promises its callers of one idempotency key,    *)
(* whatever its maps look like:                                            *)
(*   - one caller at a time holds the key, until it has an answer;         *)
(*   - the gateway acknowledges a key only if it has not acknowledged it   *)
(*     within the TTL, in the same life of the process;                    *)
(*   - a caller is told "repeated" only after such an acknowledgement.     *)
(* Calls without a key promise nothing to each other.                      *)
(***************************************************************************)
EXTENDS Integers

CONSTANTS Calls, Keys, NoCall, key, TTL

VARIABLES
    now, life,   \* the clock, and which start of the process this is
    sender,      \* sender[k]: the call that holds key k
    acks,        \* what the gateway acknowledged: [call, at, life]
    answer       \* what each call was told

pvars == <<now, life, sender, acks, answer>>

Init ==
    /\ now = 0 /\ life = 0
    /\ sender = [k \in Keys |-> NoCall]
    /\ acks = {}
    /\ answer = [c \in Calls |-> "none"]

\* The acknowledgements of c's key in this life.
AcksOf(c) == {a \in acks : a.life = life /\ key[a.call] = key[c]}

Answer(c, what) == answer[c] = "none" /\ answer' = [answer EXCEPT ![c] = what]

\* c takes its free key; it may be refused at once.
Take(c) ==
    /\ key[c] \in Keys
    /\ answer[c] = "none"
    /\ sender[key[c]] = NoCall
    /\ sender' = [sender EXCEPT ![key[c]] = c]
    /\ answer' = answer \/ Answer(c, "failed")
    /\ UNCHANGED <<now, life, acks>>

Acknowledge(c) ==
    /\ key[c] \in Keys =>
          sender[key[c]] = c /\ \A a \in AcksOf(c) : now - a.at > TTL
    /\ acks' = acks \union {[call |-> c, at |-> now, life |-> life]}
    /\ Answer(c, "sent")
    /\ UNCHANGED <<now, life, sender>>

Refuse(c) == Answer(c, "failed") /\ UNCHANGED <<now, life, sender, acks>>

Repeat(c) ==
    /\ key[c] \in Keys /\ AcksOf(c) # {}
    /\ Answer(c, "repeated")
    /\ UNCHANGED <<now, life, sender, acks>>

\* Only the holder lets go of the key, with its answer in hand.
Release(c) ==
    /\ key[c] \in Keys
    /\ sender[key[c]] = c /\ answer[c] # "none"
    /\ sender' = [sender EXCEPT ![key[c]] = NoCall]
    /\ UNCHANGED <<now, life, acks, answer>>

Pass == now' = now + 1 /\ UNCHANGED <<life, sender, acks, answer>>

Crash ==
    /\ life' = life + 1
    /\ sender' = [k \in Keys |-> NoCall]
    /\ UNCHANGED <<now, acks, answer>>

Next ==
    \/ \E c \in Calls : Take(c) \/ Acknowledge(c) \/ Refuse(c) \/ Repeat(c) \/ Release(c)
    \/ Pass \/ Crash

Spec == Init /\ [][Next]_pvars
=============================================================================

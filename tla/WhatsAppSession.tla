-------------------------- MODULE WhatsAppSession --------------------------
(***************************************************************************)
(* The life of one WhatsApp session inside the API:                        *)
(* services/whatsapp/baileys-manager.ts, with its connector (baileys.ts)   *)
(* and the restore at boot (restore-sessions.ts).  A socket lives as long  *)
(* as the library keeps it and reports through its listeners; the manager  *)
(* keeps a state record, a reconnect timer and the promise of a start that *)
(* is still running, and users start, stop and log out at any time.        *)
(*                                                                         *)
(* Sockets are numbered in the order they are made.  Delays are left out:  *)
(* a timer fires, a start goes on and a socket opens or closes in any      *)
(* order the code allows.                                                  *)
(***************************************************************************)
EXTENDS Naturals, FiniteSets

CONSTANTS
    MaxSockets,       \* bound of the model
    CircuitFailures   \* CIRCUIT_FAILURES

ASSUME SocketsNatural == MaxSockets \in Nat
ASSUME CircuitPositive == CircuitFailures \in Nat \ {0}

VARIABLES
    session,      \* SessionState: status (none: not in sessions), sock (0: undefined),
                  \* qrcode shown, consecutiveFailures
    circuit,      \* Date.now() < circuitOpenUntil
    reconnect,    \* a timer is in reconnectTimers
    starting,     \* the promise in starting: none, before its socket is made, waiting after it
    awaited,      \* a reconnect timer awaits that promise
    leaving,      \* stopBaileysSession(name, true) awaits sock.logout()
    live,         \* sockets whose connection and listeners are alive
    made,         \* sockets made so far
    qrPending,    \* a QR code is being drawn
    creds,        \* creds.json is on disk
    booting,      \* restoreBaileysSessionsOnBoot has not come to this session yet
    abandoned,    \* history: a logout ended while its socket was still alive
    joinedLate,   \* history: a timer joined a start that had made its socket already
    userFailed    \* history: a start no timer awaited failed

sessionHistory == <<abandoned, joinedLate, userFailed>>
sessionVars == <<session, circuit, reconnect, starting, awaited, leaving, live, made, qrPending,
                 creds, booting, sessionHistory>>

Sockets == 1..MaxSockets

\* Type invariant.
SessionTypeOK ==
    /\ session \in [status : {"none", "connecting", "open", "close", "logged_out"},
                    sock : 0..MaxSockets, qrcode : BOOLEAN, failures : 0..CircuitFailures]
    /\ starting \in {"none", "opening", "waiting"}
    /\ live \in SUBSET Sockets /\ made \in 0..MaxSockets
    /\ circuit \in BOOLEAN /\ reconnect \in BOOLEAN /\ awaited \in BOOLEAN
    /\ leaving \in BOOLEAN /\ qrPending \in BOOLEAN /\ creds \in BOOLEAN /\ booting \in BOOLEAN
    /\ abandoned \in BOOLEAN /\ joinedLate \in BOOLEAN /\ userFailed \in BOOLEAN

NoState == [status |-> "none", sock |-> 0, qrcode |-> FALSE, failures |-> 0]

SessionInit ==
    /\ session = NoState
    /\ circuit = FALSE /\ reconnect = FALSE /\ starting = "none" /\ awaited = FALSE
    /\ leaving = FALSE /\ live = {} /\ made = 0 /\ qrPending = FALSE
    /\ creds \in BOOLEAN /\ booting = TRUE
    /\ abandoned = FALSE /\ joinedLate = FALSE /\ userFailed = FALSE

-----------------------------------------------------------------------------
\* One failure more; at the threshold the circuit opens and nothing is scheduled.
\* scheduleReconnect does nothing either while the circuit is open or after a logout.
AnotherFailure == IF session.failures < CircuitFailures THEN session.failures + 1
                  ELSE CircuitFailures

FailedWith(status, sock) ==
    LET trips     == AnotherFailure = CircuitFailures
        reconnects == ~trips /\ ~circuit /\ status # "logged_out"
    IN  /\ session' = [status |-> IF reconnects THEN "connecting" ELSE status, sock |-> sock,
                       qrcode |-> IF status = "close" THEN FALSE ELSE session.qrcode,
                       failures |-> AnotherFailure]
        /\ circuit' = (circuit \/ trips)
        /\ reconnect' = (reconnect \/ reconnects)

\* startBaileysSession.  A start that is running is joined; an open circuit and a
\* socket that is open or connecting end it; else the old socket is dropped.
JoinStart(byTimer) ==
    /\ starting # "none"
    /\ awaited' = (awaited \/ byTimer)
    /\ joinedLate' = (joinedLate \/ (byTimer /\ starting = "waiting"))
    /\ UNCHANGED <<session, starting, live>>

InUse == session.sock # 0 /\ session.status \in {"open", "connecting"}

ReturnState ==
    /\ starting = "none" /\ (circuit \/ InUse)
    /\ UNCHANGED <<session, starting, awaited, live, joinedLate>>

\* (Mutant) the old socket keeps its listeners.
BeginBesideOld(byTimer) ==
    /\ starting = "none" /\ ~circuit /\ ~InUse
    /\ session' = [session EXCEPT !.status = "connecting", !.sock = 0, !.qrcode = FALSE]
    /\ starting' = "opening"
    /\ awaited' = byTimer
    /\ UNCHANGED <<live, joinedLate>>

BeginStart(byTimer) ==
    /\ starting = "none" /\ ~circuit /\ ~InUse
    /\ live' = live \ {session.sock}
    /\ session' = [session EXCEPT !.status = "connecting", !.sock = 0, !.qrcode = FALSE]
    /\ starting' = "opening"
    /\ awaited' = byTimer
    /\ UNCHANGED joinedLate

\* (Mutant) the circuit is not looked at.
StartThroughCircuit(byTimer) ==
    \/ JoinStart(byTimer)
    \/ /\ starting = "none" /\ InUse
       /\ UNCHANGED <<session, starting, awaited, live, joinedLate>>
    \/ /\ starting = "none" /\ ~InUse
       /\ live' = live \ {session.sock}
       /\ session' = [session EXCEPT !.status = "connecting", !.sock = 0, !.qrcode = FALSE]
       /\ starting' = "opening"
       /\ awaited' = byTimer
       /\ UNCHANGED joinedLate

\* A start that begins clears the timer.
Cleared == reconnect' = (reconnect /\ ~(starting = "none" /\ starting' = "opening"))

Start(byTimer) == JoinStart(byTimer) \/ ReturnState \/ BeginStart(byTimer)

\* A user: create, getQr, getStatus of an unknown session, reconnect's second half.
UserStart ==
    /\ Start(FALSE)
    /\ Cleared
    /\ UNCHANGED <<circuit, leaving, made, qrPending, creds, booting, abandoned, userFailed>>

\* A session with credentials on disk is started once per boot.
Restore ==
    /\ booting
    /\ booting' = FALSE
    /\ IF creds
       THEN Start(FALSE) /\ Cleared
       ELSE UNCHANGED <<session, reconnect, starting, awaited, live, joinedLate>>
    /\ UNCHANGED <<circuit, leaving, made, qrPending, creds, abandoned,
                   userFailed>>

FireReconnect ==
    /\ reconnect
    /\ reconnect' = FALSE
    /\ Start(TRUE)
    /\ UNCHANGED <<circuit, leaving, made, qrPending, creds, booting, abandoned, userFailed>>

\* The imports, the auth store and the version are there: the socket is made.
MakeSocket ==
    /\ starting = "opening" /\ made < MaxSockets
    /\ made' = made + 1
    /\ session' = [session EXCEPT !.sock = made + 1]
    /\ live' = live \union {made + 1}
    /\ starting' = "waiting"
    /\ UNCHANGED <<circuit, reconnect, awaited, leaving, qrPending, creds, booting, sessionHistory>>

\* (Mutant) a start that fails is not tried again.
StartFailsForGood ==
    /\ starting = "opening"
    /\ starting' = "none" /\ awaited' = FALSE
    /\ userFailed' = (userFailed \/ ~awaited)
    /\ UNCHANGED <<session, circuit, reconnect, leaving, live, made, qrPending, creds, booting,
                   abandoned, joinedLate>>

\* One of them throws: a timer that awaits the start tries again later.
StartFails ==
    /\ starting = "opening"
    /\ starting' = "none" /\ awaited' = FALSE
    /\ IF awaited THEN FailedWith(session.status, session.sock)
       ELSE UNCHANGED <<session, circuit, reconnect>>
    /\ userFailed' = (userFailed \/ ~awaited)
    /\ UNCHANGED <<leaving, live, made, qrPending, creds, booting, abandoned, joinedLate>>

\* The 25 looks for a QR code, an open or a logged-out session are over.
EndWait ==
    /\ starting = "waiting"
    /\ starting' = "none" /\ awaited' = FALSE
    /\ UNCHANGED <<session, circuit, reconnect, leaving, live, made, qrPending, creds, booting,
                   sessionHistory>>

-----------------------------------------------------------------------------
\* connection.update of a socket, whichever socket the state record names by then.
QrArrives ==
    /\ live # {} /\ ~creds
    /\ qrPending' = TRUE
    /\ UNCHANGED <<session, circuit, reconnect, starting, awaited, leaving, live, made, creds,
                   booting, sessionHistory>>

QrShown ==
    /\ qrPending
    /\ qrPending' = FALSE
    /\ session' = [session EXCEPT !.qrcode = TRUE, !.status = "connecting"]
    /\ UNCHANGED <<circuit, reconnect, starting, awaited, leaving, live, made, creds, booting,
                   sessionHistory>>

\* Open: the counters start again and the credentials have been saved.
Opens ==
    /\ live # {}
    /\ session' = [session EXCEPT !.status = "open", !.qrcode = FALSE, !.failures = 0]
    /\ circuit' = FALSE /\ creds' = TRUE
    /\ UNCHANGED <<reconnect, starting, awaited, leaving, live, made, qrPending, booting,
                   sessionHistory>>

\* Closed for a reason that ends the pairing: credentials go, nothing reconnects.
ClosesInvalid(s) ==
    /\ s \in live
    /\ live' = live \ {s}
    /\ session' = [session EXCEPT !.status = "logged_out", !.sock = 0, !.qrcode = FALSE]
    /\ creds' = FALSE
    /\ UNCHANGED <<circuit, reconnect, starting, awaited, leaving, made, qrPending, booting,
                   sessionHistory>>

\* Closed for any other reason.
ClosesTransient(s) ==
    /\ s \in live
    /\ live' = live \ {s}
    /\ FailedWith("close", 0)
    /\ UNCHANGED <<starting, awaited, leaving, made, qrPending, creds, booting, sessionHistory>>

CooldownEnds ==
    /\ circuit
    /\ circuit' = FALSE
    /\ UNCHANGED <<session, reconnect, starting, awaited, leaving, live, made, qrPending, creds,
                   booting, sessionHistory>>

-----------------------------------------------------------------------------
\* stopBaileysSession: nothing for a session this process does not know; else the socket
\* is ended with its listeners, or asked to log out.
Disconnect ==
    /\ session.status # "none"
    /\ reconnect' = FALSE
    /\ live' = live \ {session.sock}
    /\ session' = [session EXCEPT !.status = "close", !.sock = 0, !.qrcode = FALSE]
    /\ UNCHANGED <<circuit, starting, awaited, leaving, made, qrPending, creds, booting,
                   sessionHistory>>

AskLogout ==
    /\ ~leaving /\ session.status # "none"
    /\ reconnect' = FALSE /\ leaving' = TRUE
    /\ UNCHANGED <<session, circuit, starting, awaited, live, made, qrPending, creds, booting,
                   sessionHistory>>

\* logout() returned or threw; its socket may or may not have closed meanwhile.
LogoutEnds ==
    /\ leaving
    /\ leaving' = FALSE
    /\ abandoned' = (abandoned \/ session.sock \in live)
    /\ session' = [session EXCEPT !.status = "logged_out", !.sock = 0, !.qrcode = FALSE]
    /\ creds' = FALSE
    /\ UNCHANGED <<circuit, reconnect, starting, awaited, live, made, qrPending, booting, joinedLate,
                   userFailed>>

\* The process dies and starts again: only the credentials are left.
SessionRestart ==
    /\ session' = NoState
    /\ circuit' = FALSE /\ reconnect' = FALSE /\ starting' = "none" /\ awaited' = FALSE
    /\ leaving' = FALSE /\ live' = {} /\ qrPending' = FALSE /\ booting' = TRUE
    /\ abandoned' = FALSE /\ joinedLate' = FALSE /\ userFailed' = FALSE
    /\ UNCHANGED <<made, creds>>

SessionNext ==
    \/ UserStart \/ Restore \/ FireReconnect \/ MakeSocket \/ StartFails \/ EndWait
    \/ QrArrives \/ QrShown \/ Opens \/ CooldownEnds
    \/ \E s \in Sockets : ClosesInvalid(s) \/ ClosesTransient(s)
    \/ Disconnect \/ AskLogout \/ LogoutEnds \/ SessionRestart

SessionSpec == SessionInit /\ [][SessionNext]_sessionVars

-----------------------------------------------------------------------------
\* "máx. 1 socket por instanceName neste processo" (baileys-manager.ts:193): every
\* socket that still reports is the one the state record names, whatever starts,
\* stops, closings and timers interleave, unless a logout gave up on a live socket.
SingleSocket == ~abandoned => live \subseteq {session.sock}

\* While the circuit is open no socket is made, a start in flight included
\* (baileys-manager.ts:204, :343).
CircuitHolds == [][circuit /\ circuit' /\ ~abandoned => made' = made]_sessionVars

\* "reconexão com backoff" (baileys-manager.ts:6): an armed reconnect leads to a new
\* socket, unless the session is closed or logged out meanwhile or the circuit
\* opens, a user's own start took the timer's place and failed, or a logout left a
\* socket behind.
Served ==
    \/ session.sock # 0 \/ session.status \in {"none", "close", "logged_out"} \/ circuit
    \/ userFailed \/ abandoned \/ made = MaxSockets

ReconnectHappens == reconnect ~> Served

\* The same for the timers that do not fire while the start before them still waits.
ReconnectUnlessJoined == reconnect ~> Served \/ joinedLate

\* The first sentence of the manager, with no exception: one socket per session.
SingleSocketAlways == Cardinality(live) <= 1
=============================================================================

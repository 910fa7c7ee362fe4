--------------------------- MODULE IngestionProofs ---------------------------
(***************************************************************************)
(* Proofs about the messages on their way into the inbox, for any events,  *)
(* handlers and closings.                                                  *)
(*                                                                         *)
(* What is stored, opened, answered or asked twice is decided before the   *)
(* write, in a look that an await separates from it.  So each property     *)
(* needs to know who has looked and not written: without an overlap one    *)
(* handler or closing at most is there, and what it found still stands     *)
(* (StoringApart, OneCustomer, OneConversation, AnsweredApart and          *)
(* AskedApart, each with the property it carries).                         *)
(***************************************************************************)
EXTENDS InboundIngestion, FiniteSetTheorems, SequenceTheorems, WellFoundedInduction, TLAPS

Places == {"idle", "find"} \union Found \union Resolving
Statuses == {"OPEN", "PENDING", "CLOSED"}
HandlerRows == [at : Places, event : Events \union {NoEvent}, contact : Nat, conv : Nat, survey : Nat]
ConvRows == [contact : Nat, status : Statuses, recent : BOOLEAN]
SurveyRows == [conv : Nat, awaiting : BOOLEAN, feedback : Nat]
CloserRows == [at : {"idle", "closing", "ask", "send", "done"}, conv : Nat]

\* The types, without the bounds on the numbers of rows.
RowsTyped ==
    /\ contacts \in Nat /\ convs \in Seq(ConvRows)
    /\ messages \in [Events -> Seq(Nat)] /\ surveys \in Seq(SurveyRows)
    /\ handler \in [Handlers -> HandlerRows] /\ closer \in [Closers -> CloserRows]
    /\ raced \in BOOLEAN

\* What a row or a call points at exists, and a handler is busy with an event.
HandlerPoints(h) ==
    /\ At(h) # "idle" => handler[h].event \in Events
    /\ At(h) \in {"reopen", "store", "update"} => handler[h].conv \in 1..Len(convs)
    /\ At(h) \in {"feedback", "mark", "reply"} => handler[h].survey \in OfContact(h)

CloserPoints(a) == closer[a].at \in {"closing", "ask", "send"} => closer[a].conv \in 1..Len(convs)

Pointers ==
    /\ \A h \in Handlers : HandlerPoints(h)
    /\ \A a \in Closers : CloserPoints(a)
    /\ \A s \in 1..Len(surveys) : surveys[s].conv \in 1..Len(convs)

-----------------------------------------------------------------------------
\* A set of natural numbers has a least element, and a bounded one a greatest.
LEMMA LeastOf == ASSUME NEW T \in SUBSET Nat, T # {} PROVE \E x \in T : \A y \in T : x <= y
<1> DEFINE R == OpToRel(<, Nat)
<1>1. IsWellFoundedOn(R, Nat)
  BY NatLessThanWellFounded
<1>2. PICK x \in T : \A y \in T : ~(<<y, x>> \in R)
  <2> HIDE DEF R
  <2> QED  BY <1>1, WFMin
<1>3. \A y \in T : ~(y < x)
  BY <1>2 DEF OpToRel
<1> QED  BY <1>3

LEMMA NewestExists ==
    ASSUME NEW n \in Nat, NEW S \in SUBSET (1..n), S # {}
    PROVE  Newest(S) \in S /\ \A i \in S : i <= Newest(S)
<1> DEFINE U == {k \in Nat : \E i \in S : k = n - i}
<1>1. PICK k \in U : \A m \in U : k <= m
  <2>1. U # {}
    <3> PICK i \in S : TRUE  OBVIOUS
    <3> QED  BY n - i \in U
  <2>2. U \in SUBSET Nat
    OBVIOUS
  <2> HIDE DEF U
  <2> QED  BY <2>1, <2>2, LeastOf
<1>2. PICK i \in S : k = n - i
  BY <1>1
<1>3. ASSUME NEW j \in S PROVE j <= i
  <2>1. n - j \in U  OBVIOUS
  <2>2. n - i <= n - j
    BY <1>1, <1>2, <2>1
  <2>3. i \in Nat /\ j \in Nat
    OBVIOUS
  <2> QED  BY <2>2, <2>3
<1> QED  BY <1>2, <1>3 DEF Newest

LEMMA SequencesIndexed ==
    ASSUME RowsTyped
    PROVE  /\ Len(convs) \in Nat /\ DOMAIN convs = 1..Len(convs)
           /\ \A i \in 1..Len(convs) : convs[i] \in ConvRows
           /\ Len(surveys) \in Nat /\ DOMAIN surveys = 1..Len(surveys)
           /\ \A i \in 1..Len(surveys) : surveys[i] \in SurveyRows
BY LenProperties, ElementOfSeq DEF RowsTyped

\* A conversation row written, its contact kept.
LEMMA ConvWritten ==
    ASSUME RowsTyped, NEW i \in 1..Len(convs), NEW row \in ConvRows, row.contact = convs[i].contact,
           convs' = [convs EXCEPT ![i] = row]
    PROVE  /\ convs' \in Seq(ConvRows) /\ Len(convs') = Len(convs)
           /\ convs'[i] = row /\ \A j \in 1..Len(convs) : j # i => convs'[j] = convs[j]
           /\ \A j \in 1..Len(convs) : convs'[j].contact = convs[j].contact
<1>1. convs \in Seq(ConvRows)
  BY DEF RowsTyped
<1> QED  BY <1>1, ExceptSeq

LEMMA SurveyWritten ==
    ASSUME RowsTyped, NEW i \in 1..Len(surveys), NEW row \in SurveyRows, row.conv = surveys[i].conv,
           surveys' = [surveys EXCEPT ![i] = row]
    PROVE  /\ surveys' \in Seq(SurveyRows) /\ Len(surveys') = Len(surveys)
           /\ surveys'[i] = row /\ \A j \in 1..Len(surveys) : j # i => surveys'[j] = surveys[j]
           /\ \A j \in 1..Len(surveys) : surveys'[j].conv = surveys[j].conv
<1>1. surveys \in Seq(SurveyRows)
  BY DEF RowsTyped
<1> QED  BY <1>1, ExceptSeq

LEMMA SurveyRewritten ==
    ASSUME NEW row \in SurveyRows
    PROVE  /\ [row EXCEPT !.awaiting = FALSE] \in SurveyRows
           /\ [row EXCEPT !.awaiting = FALSE].conv = row.conv
           /\ [row EXCEPT !.awaiting = FALSE].feedback = row.feedback
           /\ ~[row EXCEPT !.awaiting = FALSE].awaiting
           /\ [row EXCEPT !.feedback = @ + 1] \in SurveyRows
           /\ [row EXCEPT !.feedback = @ + 1].conv = row.conv
           /\ [row EXCEPT !.feedback = @ + 1].feedback = row.feedback + 1
           /\ [row EXCEPT !.feedback = @ + 1].awaiting = row.awaiting
<1>1. row.feedback + 1 \in Nat
  BY DEF SurveyRows
<1> QED  BY <1>1 DEF SurveyRows

\* What appending does.
LEMMA Appended ==
    ASSUME NEW S, NEW s \in Seq(S), NEW x \in S
    PROVE  /\ Append(s, x) \in Seq(S) /\ Len(Append(s, x)) = Len(s) + 1
           /\ Append(s, x)[Len(s) + 1] = x
           /\ \A i \in 1..Len(s) : Append(s, x)[i] = s[i]
OBVIOUS

-----------------------------------------------------------------------------
(* What each step of a handler does to it. *)

Only(h) ==
    /\ handler' \in [Handlers -> HandlerRows]
    /\ \A g \in Handlers : g # h => handler'[g] = handler[g]

LEMMA Written ==
    ASSUME RowsTyped, NEW h \in Handlers, NEW row \in HandlerRows, handler' = [handler EXCEPT ![h] = row]
    PROVE  Only(h) /\ handler'[h] = row
BY DEF RowsTyped, Only

LEMMA Went ==
    ASSUME RowsTyped, NEW h \in Handlers, NEW place \in Places, Goto(h, place)
    PROVE  /\ Only(h) /\ handler'[h].at = place
           /\ handler'[h].event = handler[h].event /\ handler'[h].contact = handler[h].contact
           /\ handler'[h].conv = handler[h].conv /\ handler'[h].survey = handler[h].survey
BY DEF RowsTyped, Only, Goto, HandlerRows

LEMMA Ended ==
    ASSUME RowsTyped, NEW h \in Handlers, End(h)
    PROVE  Only(h) /\ handler'[h] = IdleHandler
<1>1. IdleHandler \in HandlerRows
  BY DEF IdleHandler, HandlerRows, Places
<1> QED  BY <1>1, Written DEF End

LEMMA FoundContact ==
    ASSUME RowsTyped, NEW h \in Handlers, NEW place \in Places, NEW c \in Nat,
           handler' = [handler EXCEPT ![h].at = place, ![h].contact = c]
    PROVE  /\ Only(h) /\ handler'[h].at = place /\ handler'[h].contact = c
           /\ handler'[h].event = handler[h].event
BY DEF RowsTyped, Only, HandlerRows

LEMMA FoundSurvey ==
    ASSUME RowsTyped, NEW h \in Handlers, NEW place \in Places, NEW s \in Nat,
           handler' = [handler EXCEPT ![h].at = place, ![h].survey = s]
    PROVE  /\ Only(h) /\ handler'[h].at = place /\ handler'[h].survey = s
           /\ handler'[h].event = handler[h].event /\ handler'[h].contact = handler[h].contact
BY DEF RowsTyped, Only, HandlerRows

LEMMA FoundConv ==
    ASSUME RowsTyped, NEW h \in Handlers, NEW place \in Places, NEW i \in Nat,
           handler' = [handler EXCEPT ![h].at = place, ![h].conv = i]
    PROVE  /\ Only(h) /\ handler'[h].at = place /\ handler'[h].conv = i
           /\ handler'[h].event = handler[h].event /\ handler'[h].contact = handler[h].contact
BY DEF RowsTyped, Only, HandlerRows

LEMMA Received ==
    ASSUME RowsTyped, NEW h \in Handlers, NEW e \in Events,
           handler' = [handler EXCEPT ![h] = [IdleHandler EXCEPT !.at = "find", !.event = e]]
    PROVE  Only(h) /\ handler'[h].at = "find" /\ handler'[h].event = e
<1>1. IdleHandler \in HandlerRows
  BY DEF IdleHandler, HandlerRows, Places
<1>2. /\ [IdleHandler EXCEPT !.at = "find", !.event = e] \in HandlerRows
      /\ [IdleHandler EXCEPT !.at = "find", !.event = e].at = "find"
      /\ [IdleHandler EXCEPT !.at = "find", !.event = e].event = e
  BY <1>1 DEF HandlerRows, Places
<1> QED  BY <1>2, Written

LEMMA FindContactDoes ==
    ASSUME RowsTyped, NEW h \in Handlers, FindContact(h)
    PROVE  /\ Only(h) /\ handler'[h].event = handler[h].event
           /\ \/ contacts = 0 /\ handler'[h].at = "create"
              \/ handler'[h].at = AfterContact(h) /\ handler'[h].contact \in 1..contacts
<1>1. AfterContact(h) \in Places /\ "create" \in Places
  BY DEF AfterContact, Places, Found, Resolving
<1>2. CASE contacts = 0 /\ Goto(h, "create")
  BY <1>1, <1>2, Went
<1>3. ASSUME NEW c \in 1..contacts,
             handler' = [handler EXCEPT ![h].at = AfterContact(h), ![h].contact = c]
      PROVE  /\ Only(h) /\ handler'[h].event = handler[h].event
             /\ handler'[h].at = AfterContact(h) /\ handler'[h].contact = c
  <2>1. c \in Nat
    BY DEF RowsTyped
  <2> QED  BY <1>1, <1>3, <2>1, FoundContact
<1> QED  BY <1>2, <1>3 DEF FindContact

LEMMA CreateContactDoes ==
    ASSUME RowsTyped, NEW h \in Handlers, CreateContact(h)
    PROVE  /\ Only(h) /\ handler'[h].event = handler[h].event
           /\ handler'[h].at = AfterContact(h) /\ handler'[h].contact = contacts + 1
<1>1. AfterContact(h) \in Places /\ contacts + 1 \in Nat
  BY DEF AfterContact, Places, Found, Resolving, RowsTyped
<1>2. handler' = [handler EXCEPT ![h].at = AfterContact(h), ![h].contact = contacts + 1]
  BY DEF CreateContact
<1> QED  BY <1>1, <1>2, FoundContact

LEMMA CaptureDoes ==
    ASSUME RowsTyped, NEW h \in Handlers, Capture(h)
    PROVE  /\ Only(h) /\ handler'[h].event = handler[h].event /\ handler'[h].contact = handler[h].contact
           /\ \/ handler'[h].at = "open" /\ doubted' = doubted
              \/ /\ handler'[h].at = "feedback" /\ handler'[h].survey \in OfContact(h)
                 /\ surveys[handler'[h].survey].awaiting
                 /\ doubted' = doubted \union {i \in {handler'[h].survey} : \E g \in Handlers \ {h} :
                                  At(g) \in {"feedback", "mark"} /\ handler[g].survey = i}
<1> DEFINE awaiting == {i \in OfContact(h) : surveys[i].awaiting}
           s == Newest(awaiting)
<1>1. "open" \in Places /\ "feedback" \in Places
  BY DEF Places, Found, Resolving
<1>2. CASE Goto(h, "open") /\ doubted' = doubted
  BY <1>1, <1>2, Went
<1>3. CASE /\ awaiting # {}
           /\ handler' = [handler EXCEPT ![h].at = "feedback", ![h].survey = s]
           /\ doubted' = doubted \union {i \in {s} : \E g \in Handlers \ {h} :
                             At(g) \in {"feedback", "mark"} /\ handler[g].survey = i}
  <2>1. awaiting \in SUBSET (1..Len(surveys)) /\ Len(surveys) \in Nat
    BY SequencesIndexed DEF OfContact
  <2>2. s \in awaiting /\ s \in Nat
    <3> HIDE DEF awaiting
    <3> QED  BY <1>3, <2>1, NewestExists
  <2>3. /\ Only(h) /\ handler'[h].at = "feedback" /\ handler'[h].survey = s
        /\ handler'[h].event = handler[h].event /\ handler'[h].contact = handler[h].contact
    <3> HIDE DEF s
    <3> QED  BY <1>1, <1>3, <2>2, FoundSurvey
  <2>4. s \in OfContact(h) /\ surveys[s].awaiting
    BY <2>2
  <2> HIDE DEF s
  <2> QED  BY <1>3, <2>3, <2>4
<1> QED  BY <1>2, <1>3 DEF Capture

LEMMA FindOpenDoes ==
    ASSUME RowsTyped, NEW h \in Handlers, FindOpen(h)
    PROVE  /\ Only(h) /\ handler'[h].event = handler[h].event /\ handler'[h].contact = handler[h].contact
           /\ \/ /\ handler'[h].at = "store" /\ handler'[h].conv \in Mine(h)
                 /\ convs[handler'[h].conv].status # "CLOSED"
              \/ /\ handler'[h].at \in {"closed", "begin"}
                 /\ \A i \in Mine(h) : convs[i].status = "CLOSED"
<1>1. "store" \in Places /\ "closed" \in Places /\ "begin" \in Places
  BY DEF Places, Resolving
<1>2. ASSUME NEW i \in Mine(h), convs[i].status # "CLOSED",
             handler' = [handler EXCEPT ![h].at = "store", ![h].conv = i]
      PROVE  /\ Only(h) /\ handler'[h].event = handler[h].event /\ handler'[h].contact = handler[h].contact
             /\ handler'[h].at = "store" /\ handler'[h].conv = i
  <2>1. i \in Nat
    BY SequencesIndexed DEF Mine
  <2> QED  BY <1>1, <1>2, <2>1, FoundConv
<1>3. CASE Goto(h, IF ReopenMode THEN "closed" ELSE "begin")
  <2> DEFINE place == IF ReopenMode THEN "closed" ELSE "begin"
  <2>1. place \in Places /\ place \in {"closed", "begin"}
    BY <1>1
  <2> HIDE DEF place
  <2>2. Goto(h, place)
    BY <1>3 DEF place
  <2>3. /\ Only(h) /\ handler'[h].at = place /\ handler'[h].event = handler[h].event
        /\ handler'[h].contact = handler[h].contact
    BY <2>1, <2>2, Went
  <2>4. Only(h) /\ handler'[h].event = handler[h].event /\ handler'[h].contact = handler[h].contact
        /\ handler'[h].at \in {"closed", "begin"}
    BY <2>1, <2>3
  <2>5. handler'[h].at # "store"
    BY <2>4
  <2> QED  BY <1>2, <2>4 DEF FindOpen
<1> QED  BY <1>2, <1>3 DEF FindOpen

LEMMA FindClosedDoes ==
    ASSUME RowsTyped, NEW h \in Handlers, FindRecentlyClosed(h)
    PROVE  /\ Only(h) /\ handler'[h].event = handler[h].event /\ handler'[h].contact = handler[h].contact
           /\ \/ handler'[h].at = "reopen" /\ handler'[h].conv \in Mine(h)
              \/ handler'[h].at = "begin"
<1>1. "reopen" \in Places /\ "begin" \in Places
  BY DEF Places, Resolving
<1>2. ASSUME NEW i \in Mine(h),
             handler' = [handler EXCEPT ![h].at = "reopen", ![h].conv = i]
      PROVE  /\ Only(h) /\ handler'[h].event = handler[h].event /\ handler'[h].contact = handler[h].contact
             /\ handler'[h].at = "reopen" /\ handler'[h].conv = i
  <2>1. i \in Nat
    BY SequencesIndexed DEF Mine
  <2> QED  BY <1>1, <1>2, <2>1, FoundConv
<1>3. CASE Goto(h, "begin")
  BY <1>1, <1>3, Went
<1> QED  BY <1>2, <1>3 DEF FindRecentlyClosed

LEMMA BeginDoes ==
    ASSUME RowsTyped, NEW h \in Handlers, BeginConversation(h)
    PROVE  /\ Only(h) /\ handler'[h].event = handler[h].event /\ handler'[h].contact = handler[h].contact
           /\ handler'[h].at = "store" /\ handler'[h].conv = Len(convs) + 1
           /\ convs' \in Seq(ConvRows) /\ Len(convs') = Len(convs) + 1
           /\ convs'[Len(convs) + 1] = [contact |-> handler[h].contact, status |-> "OPEN", recent |-> FALSE]
           /\ \A i \in 1..Len(convs) : convs'[i] = convs[i]
<1>1. "store" \in Places /\ Len(convs) + 1 \in Nat
  BY SequencesIndexed DEF Places, Resolving
<1>2. handler' = [handler EXCEPT ![h].at = "store", ![h].conv = Len(convs) + 1]
  BY DEF BeginConversation
<1>3. /\ Only(h) /\ handler'[h].event = handler[h].event /\ handler'[h].contact = handler[h].contact
      /\ handler'[h].at = "store" /\ handler'[h].conv = Len(convs) + 1
  BY <1>1, <1>2, FoundConv
<1>4. [contact |-> handler[h].contact, status |-> "OPEN", recent |-> FALSE] \in ConvRows
  BY DEF ConvRows, Statuses, RowsTyped, HandlerRows
<1>5. convs \in Seq(ConvRows)
  BY DEF RowsTyped
<1> QED  BY <1>3, <1>4, <1>5, Appended DEF BeginConversation

LEMMA StoreRatingDoes ==
    ASSUME RowsTyped, Pointers, NEW h \in Handlers, StoreRating(h)
    PROVE  /\ Only(h) /\ handler'[h] = IdleHandler
           /\ \E i \in Nat : messages' = [messages EXCEPT ![handler[h].event] = Append(@, i)]
<1>1. Only(h) /\ handler'[h] = IdleHandler
  BY Ended DEF StoreRating
<1>2. OfContact(h) \in SUBSET (1..Len(surveys)) /\ OfContact(h) # {}
  BY SequencesIndexed DEF OfContact, Pointers, HandlerPoints, StoreRating
<1>3. Newest(OfContact(h)) \in 1..Len(surveys)
  BY <1>2, NewestExists, SequencesIndexed
<1>4. surveys[Newest(OfContact(h))].conv \in Nat
  BY <1>3, SequencesIndexed DEF SurveyRows
<1> QED  BY <1>1, <1>4 DEF StoreRating

-----------------------------------------------------------------------------
(* The rows stay typed, and what is pointed at stays. *)

Grows ==
    /\ Len(convs) <= Len(convs') /\ \A i \in 1..Len(convs) : convs'[i].contact = convs[i].contact
    /\ Len(surveys) <= Len(surveys') /\ \A s \in 1..Len(surveys) : surveys'[s].conv = surveys[s].conv

LEMMA StaysPointing ==
    ASSUME RowsTyped, RowsTyped', Pointers, Grows
    PROVE  /\ \A h \in Handlers : handler'[h] = handler[h] => HandlerPoints(h)'
           /\ \A a \in Closers : closer'[a] = closer[a] => CloserPoints(a)'
           /\ \A s \in 1..Len(surveys) : surveys'[s].conv \in 1..Len(convs')
           /\ \A h \in Handlers : handler'[h].contact = handler[h].contact => OfContact(h) \subseteq OfContact(h)'
<1>0. /\ Len(convs) \in Nat /\ Len(convs') \in Nat /\ Len(surveys) \in Nat /\ Len(surveys') \in Nat
      /\ DOMAIN surveys = 1..Len(surveys) /\ DOMAIN surveys' = 1..Len(surveys')
  <2>1. surveys \in Seq(SurveyRows) /\ convs \in Seq(ConvRows) /\ surveys' \in Seq(SurveyRows) /\ convs' \in Seq(ConvRows)
    BY DEF RowsTyped
  <2> QED  BY <2>1, LenProperties
<1>1. 1..Len(convs) \subseteq 1..Len(convs') /\ 1..Len(surveys) \subseteq 1..Len(surveys')
  BY <1>0 DEF Grows
<1>2. \A h \in Handlers : handler'[h].contact = handler[h].contact => OfContact(h) \subseteq OfContact(h)'
  BY <1>0, <1>1 DEF OfContact, Grows, Pointers
<1>3. \A h \in Handlers : handler'[h] = handler[h] => HandlerPoints(h)'
  BY <1>1, <1>2 DEF HandlerPoints, Pointers, At
<1>4. \A a \in Closers : closer'[a] = closer[a] => CloserPoints(a)'
  BY <1>1 DEF CloserPoints, Pointers
<1>5. \A s \in 1..Len(surveys) : surveys'[s].conv \in 1..Len(convs')
  BY <1>1 DEF Grows, Pointers
<1> QED  BY <1>2, <1>3, <1>4, <1>5

LEMMA SameGrows == ASSUME RowsTyped, UNCHANGED <<convs, surveys>> PROVE Grows
BY SequencesIndexed DEF Grows

\* A step of one handler.
LEMMA HandlerPointed ==
    ASSUME RowsTyped, Pointers, RowsTyped', Grows, NEW h \in Handlers, Only(h),
           HandlerPoints(h)', UNCHANGED closer, Len(surveys') = Len(surveys)
    PROVE  Pointers'
BY StaysPointing DEF Only, Pointers

\* A handler that writes its conversation keeps whose it is, and leaves the others.
LEMMA HandlerRewrites ==
    ASSUME RowsTyped, Pointers, NEW h \in Handlers, Reopen(h) \/ UpdateConversation(h)
    PROVE  /\ handler[h].conv \in 1..Len(convs)
           /\ convs' \in Seq(ConvRows) /\ Len(convs') = Len(convs)
           /\ \A j \in 1..Len(convs) : convs'[j].contact = convs[j].contact
           /\ \A j \in 1..Len(convs) : j # handler[h].conv => convs'[j] = convs[j]
<1> DEFINE i == handler[h].conv
<1>0. i \in 1..Len(convs) /\ convs[i] \in ConvRows
  BY SequencesIndexed DEF Pointers, HandlerPoints, Reopen, UpdateConversation
<1>1. PICK row \in ConvRows : row.contact = convs[i].contact /\ convs' = [convs EXCEPT ![i] = row]
  <2>1. CASE Reopen(h)
    <3> DEFINE reopened == IF convs[i].status = "CLOSED"
                           THEN [convs[i] EXCEPT !.status = "OPEN", !.recent = FALSE] ELSE convs[i]
    <3>1. reopened \in ConvRows /\ reopened.contact = convs[i].contact
      BY <1>0 DEF ConvRows, Statuses
    <3>2. convs' = [convs EXCEPT ![i] = reopened]
      BY <2>1 DEF Reopen
    <3> QED  BY <3>1, <3>2
  <2>2. CASE UpdateConversation(h)
    <3> DEFINE updated == [convs[i] EXCEPT !.status = IF Kind(h) # "device" \/ @ = "PENDING" THEN "OPEN" ELSE @]
    <3>1. updated \in ConvRows /\ updated.contact = convs[i].contact
      BY <1>0 DEF ConvRows, Statuses
    <3>2. convs' = [convs EXCEPT ![i] = updated]
      BY <2>2 DEF UpdateConversation
    <3> QED  BY <3>1, <3>2
  <2> QED  BY <2>1, <2>2
<1> QED  BY <1>0, <1>1, ConvWritten

\* The answer and the mark keep whose survey it is.
LEMMA AnswerKeepsConv ==
    ASSUME RowsTyped, Pointers, NEW h \in Handlers, Feedback(h) \/ Mark(h)
    PROVE  /\ surveys' \in Seq(SurveyRows) /\ Len(surveys') = Len(surveys)
           /\ \A i \in 1..Len(surveys) : surveys'[i].conv = surveys[i].conv
<1>1. PICK s \in 1..Len(surveys) : s = handler[h].survey
  BY SequencesIndexed DEF Pointers, HandlerPoints, Feedback, Mark, OfContact
<1>2. /\ [surveys[s] EXCEPT !.awaiting = FALSE] \in SurveyRows
      /\ [surveys[s] EXCEPT !.awaiting = FALSE].conv = surveys[s].conv
      /\ [surveys[s] EXCEPT !.feedback = @ + 1] \in SurveyRows
      /\ [surveys[s] EXCEPT !.feedback = @ + 1].conv = surveys[s].conv
  <2>1. surveys[s] \in SurveyRows
    BY SequencesIndexed
  <2> QED  BY <2>1, SurveyRewritten
<1>3. CASE surveys' = surveys
  BY <1>3 DEF RowsTyped
<1>4. CASE surveys' = [surveys EXCEPT ![s] = [surveys[s] EXCEPT !.awaiting = FALSE]]
  BY <1>2, <1>4, SurveyWritten
<1>5. CASE surveys' = [surveys EXCEPT ![s] = [surveys[s] EXCEPT !.feedback = @ + 1]]
  BY <1>2, <1>5, SurveyWritten
<1> QED  BY <1>1, <1>3, <1>4, <1>5 DEF Feedback, Mark

LEMMA HandlerTyped ==
    ASSUME RowsTyped, Pointers, NEW h \in Handlers, HandlerStep(h)
    PROVE  RowsTyped' /\ Grows /\ Pointers'
<1>0. HandlerPoints(h)
  BY DEF Pointers
<1>1. CASE FindContact(h)
  <2>1. /\ Only(h) /\ handler'[h].event = handler[h].event
        /\ handler'[h].at \in {"create", "open", "capture"}
    BY <1>1, FindContactDoes DEF AfterContact
  <2>2. RowsTyped'
    BY <1>1, <2>1 DEF FindContact, RowsTyped, Only, database, Others
  <2>3. Grows
    BY <1>1, SameGrows DEF FindContact, database
  <2>4. HandlerPoints(h)'
    BY <1>0, <1>1, <2>1 DEF HandlerPoints, At, FindContact
  <2> QED  BY <1>1, <2>1, <2>2, <2>3, <2>4, HandlerPointed DEF FindContact, database
<1>2. CASE CreateContact(h)
  <2>1. /\ Only(h) /\ handler'[h].event = handler[h].event
        /\ handler'[h].at \in {"open", "capture"}
    BY <1>2, CreateContactDoes DEF AfterContact
  <2>2. RowsTyped'
    BY <1>2, <2>1 DEF CreateContact, RowsTyped, Only, ingestionHistory
  <2>3. Grows
    BY <1>2, SameGrows DEF CreateContact
  <2>4. HandlerPoints(h)'
    BY <1>0, <1>2, <2>1 DEF HandlerPoints, At, CreateContact
  <2> QED  BY <1>2, <2>1, <2>2, <2>3, <2>4, HandlerPointed DEF CreateContact
<1>3. CASE Capture(h)
  <2>1. /\ Only(h) /\ handler'[h].event = handler[h].event /\ handler'[h].contact = handler[h].contact
        /\ handler'[h].at \in {"open", "feedback"}
        /\ handler'[h].at = "feedback" => handler'[h].survey \in OfContact(h)
    BY <1>3, CaptureDoes
  <2>2. RowsTyped'
    BY <1>3, <2>1 DEF Capture, RowsTyped, Only, database
  <2>3. Grows
    BY <1>3, SameGrows DEF Capture, database
  <2>4. HandlerPoints(h)'
    BY <1>0, <1>3, <2>1, <2>2, <2>3, StaysPointing DEF HandlerPoints, At, Capture
  <2> QED  BY <1>3, <2>1, <2>2, <2>3, <2>4, HandlerPointed DEF Capture, database
<1>4. CASE Feedback(h) \/ Mark(h)
  <2> DEFINE s == handler[h].survey
  <2>1. /\ Only(h) /\ handler'[h].event = handler[h].event /\ handler'[h].contact = handler[h].contact
        /\ handler'[h].survey = handler[h].survey
        /\ handler'[h].at \in {"mark", "reply"}
    BY <1>4, Went DEF Feedback, Mark, Places, Found
  <2>2. s \in OfContact(h) /\ s \in 1..Len(surveys) /\ surveys[s] \in SurveyRows
    BY <1>0, <1>4, SequencesIndexed DEF HandlerPoints, Feedback, Mark, OfContact
  <2>5. /\ surveys' \in Seq(SurveyRows) /\ Len(surveys') = Len(surveys)
        /\ \A i \in 1..Len(surveys) : surveys'[i].conv = surveys[i].conv
    BY <1>4, AnswerKeepsConv
  <2>6. UNCHANGED <<contacts, convs, messages, closer, raced>>
    BY <1>4 DEF Feedback, Mark, ingestionHistory
  <2>7. RowsTyped' /\ Grows
    BY <2>1, <2>5, <2>6, SequencesIndexed DEF RowsTyped, Grows, Only
  <2>8. HandlerPoints(h)'
    BY <1>0, <1>4, <2>1, <2>2, <2>7, StaysPointing DEF HandlerPoints, At, Feedback, Mark
  <2> QED  BY <2>1, <2>5, <2>6, <2>7, <2>8, HandlerPointed
<1>5. CASE StoreRating(h)
  <2>1. /\ Only(h) /\ handler'[h] = IdleHandler
        /\ \E i \in Nat : messages' = [messages EXCEPT ![handler[h].event] = Append(@, i)]
    BY <1>5, StoreRatingDoes
  <2>2. messages' \in [Events -> Seq(Nat)]
    BY <1>0, <1>5, <2>1 DEF HandlerPoints, StoreRating, RowsTyped
  <2>3. RowsTyped' /\ Grows
    BY <1>5, <2>1, <2>2, SameGrows DEF StoreRating, RowsTyped, Only, ingestionHistory
  <2>4. HandlerPoints(h)'
    BY <2>1 DEF HandlerPoints, At, IdleHandler
  <2> QED  BY <1>5, <2>1, <2>3, <2>4, HandlerPointed DEF StoreRating
<1>6. CASE CaptureThrows(h)
  <2>1. Only(h) /\ handler'[h].event = handler[h].event /\ handler'[h].at = "open"
    BY <1>6, Went DEF CaptureThrows, Places, Resolving
  <2>2. RowsTyped' /\ Grows
    BY <1>6, <2>1, SameGrows DEF CaptureThrows, RowsTyped, Only, database
  <2>3. HandlerPoints(h)'
    BY <1>0, <1>6, <2>1 DEF HandlerPoints, At, CaptureThrows
  <2> QED  BY <1>6, <2>1, <2>2, <2>3, HandlerPointed DEF CaptureThrows, database
<1>7. CASE FindOpen(h) \/ FindRecentlyClosed(h)
  <2>1. /\ Only(h) /\ handler'[h].event = handler[h].event
        /\ handler'[h].at \in {"store", "closed", "begin", "reopen"}
        /\ handler'[h].at \in {"store", "reopen"} => handler'[h].conv \in 1..Len(convs)
    BY <1>7, FindOpenDoes, FindClosedDoes, SequencesIndexed DEF Mine
  <2>2. RowsTyped'
    BY <1>7, <2>1 DEF FindOpen, FindRecentlyClosed, RowsTyped, Only, database, ingestionHistory, Others
  <2>3. Grows /\ UNCHANGED <<convs, surveys, closer>>
    BY <1>7, SameGrows DEF FindOpen, FindRecentlyClosed, database
  <2>4. HandlerPoints(h)'
    BY <1>0, <1>7, <2>1, <2>3 DEF HandlerPoints, At, FindOpen, FindRecentlyClosed
  <2> QED  BY <2>1, <2>2, <2>3, <2>4, HandlerPointed
<1>8. CASE Reopen(h) \/ UpdateConversation(h)
  <2> DEFINE i == handler[h].conv
  <2>0. i \in 1..Len(convs) /\ convs[i] \in ConvRows
    BY <1>0, <1>8, SequencesIndexed DEF HandlerPoints, Reopen, UpdateConversation
  <2>1. /\ Only(h) /\ handler'[h].at \in {"store", "idle"}
        /\ handler'[h].at = "store" => handler'[h].conv = i /\ handler'[h].event = handler[h].event
    BY <1>8, Went, Ended DEF Reopen, UpdateConversation, IdleHandler, Places, Resolving
  <2>3. /\ convs' \in Seq(ConvRows) /\ Len(convs') = Len(convs)
        /\ \A j \in 1..Len(convs) : convs'[j].contact = convs[j].contact
    BY <1>8, HandlerRewrites
  <2>4. UNCHANGED <<contacts, messages, surveys, closer, raced>>
    BY <1>8 DEF Reopen, UpdateConversation, ingestionHistory
  <2>5. RowsTyped' /\ Grows
    <3>1. RowsTyped'
      BY <2>1, <2>3, <2>4 DEF RowsTyped, Only
    <3>2. Grows
      BY <2>3, <2>4, SequencesIndexed DEF Grows
    <3> QED  BY <3>1, <3>2
  <2>6. HandlerPoints(h)'
    BY <1>0, <1>8, <2>0, <2>1, <2>3 DEF HandlerPoints, At, Reopen, UpdateConversation
  <2> QED  BY <2>1, <2>4, <2>5, <2>6, HandlerPointed
<1>9. CASE BeginConversation(h)
  <2>1. UNCHANGED <<contacts, messages, surveys, closer, raced>>
    BY <1>9 DEF BeginConversation, ingestionHistory
  <2>2. RowsTyped' /\ Grows
    <3>1. /\ Only(h) /\ convs' \in Seq(ConvRows) /\ Len(convs') = Len(convs) + 1
          /\ \A i \in 1..Len(convs) : convs'[i] = convs[i]
      BY <1>9, BeginDoes
    <3>2. RowsTyped'
      BY <2>1, <3>1 DEF RowsTyped, Only
    <3>3. Grows
      BY <2>1, <3>1, SequencesIndexed DEF Grows
    <3> QED  BY <3>2, <3>3
  <2>3. HandlerPoints(h)'
    <3>1. Len(convs) + 1 \in 1..(Len(convs) + 1)
      BY SequencesIndexed
    <3> QED  BY <1>0, <1>9, <3>1, BeginDoes DEF HandlerPoints, At, BeginConversation
  <2> QED  BY <1>9, <2>1, <2>2, <2>3, BeginDoes, HandlerPointed
<1>10. CASE StoreMessage(h)
  <2>1. Only(h) /\ handler'[h].at = "update" /\ handler'[h].event = handler[h].event /\ handler'[h].conv = handler[h].conv
    BY <1>10, Went DEF StoreMessage, Places, Resolving
  <2>2. messages' \in [Events -> Seq(Nat)]
    <3>1. handler[h].conv \in Nat /\ handler[h].event \in Events
      BY <1>0, <1>10 DEF HandlerPoints, StoreMessage, RowsTyped, HandlerRows
    <3> QED  BY <1>10, <3>1 DEF StoreMessage, RowsTyped
  <2>3. RowsTyped' /\ Grows
    BY <1>10, <2>1, <2>2, SameGrows DEF StoreMessage, RowsTyped, Only, ingestionHistory
  <2>4. HandlerPoints(h)'
    BY <1>0, <1>10, <2>1 DEF HandlerPoints, At, StoreMessage
  <2> QED  BY <1>10, <2>1, <2>3, <2>4, HandlerPointed DEF StoreMessage
<1> QED  BY <1>1, <1>2, <1>3, <1>4, <1>5, <1>6, <1>7, <1>8, <1>9, <1>10 DEF HandlerStep

\* A closing goes on.
Alone(a) ==
    /\ closer' \in [Closers -> CloserRows]
    /\ \A b \in Closers : b # a => closer'[b] = closer[b]

LEMMA CloserWent ==
    ASSUME RowsTyped, NEW a \in Closers, NEW place \in {"ask", "send", "done"}, CloserGoto(a, place)
    PROVE  /\ Alone(a) /\ closer'[a].at = place
           /\ place # "done" => closer'[a].conv = closer[a].conv
<1>1. CASE place = "done"
  <2>1. [at |-> "done", conv |-> 0] \in CloserRows
    BY DEF CloserRows
  <2> QED  BY <1>1, <2>1 DEF CloserGoto, RowsTyped, Alone
<1>2. CASE place # "done"
  BY <1>2 DEF CloserGoto, RowsTyped, Alone, CloserRows
<1> QED  BY <1>1, <1>2

\* What a step outside the handlers does to the conversations: the row of one is
\* written, its contact kept, and it is not opened.
Touches(i) ==
    /\ convs' \in Seq(ConvRows) /\ Len(convs') = Len(convs)
    /\ \A j \in 1..Len(convs) : j # i => convs'[j] = convs[j]
    /\ \A j \in 1..Len(convs) : convs'[j].contact = convs[j].contact
    /\ convs'[i].status # "CLOSED" => convs[i].status # "CLOSED"

LEMMA WriteClosedDoes ==
    ASSUME RowsTyped, Pointers, NEW a \in Closers, WriteClosed(a)
    PROVE  Touches(closer[a].conv) /\ closer[a].conv \in 1..Len(convs)
<1> DEFINE i == closer[a].conv
           row == [convs[i] EXCEPT !.status = "CLOSED", !.recent = TRUE]
<1>1. i \in 1..Len(convs) /\ convs[i] \in ConvRows
  BY SequencesIndexed DEF WriteClosed, CloserAt, Pointers, CloserPoints
<1>2. row \in ConvRows /\ row.contact = convs[i].contact /\ row.status = "CLOSED"
  BY <1>1 DEF ConvRows, Statuses
<1>3. convs' = [convs EXCEPT ![i] = row]
  BY DEF WriteClosed
<1> HIDE DEF row
<1> QED  BY <1>1, <1>2, <1>3, ConvWritten DEF Touches

LEMMA ConvStepDoes ==
    ASSUME RowsTyped, NEW i \in 1..Len(convs), Queue(i) \/ WindowPasses(i)
    PROVE  Touches(i)
<1>1. convs[i] \in ConvRows
  BY SequencesIndexed
<1>2. CASE Queue(i)
  <2> DEFINE row == [convs[i] EXCEPT !.status = "PENDING"]
  <2>1. row \in ConvRows /\ row.contact = convs[i].contact /\ convs[i].status = "OPEN"
    BY <1>1, <1>2 DEF ConvRows, Statuses, Queue
  <2>2. convs' = [convs EXCEPT ![i] = row]
    BY <1>2 DEF Queue
  <2> HIDE DEF row
  <2> QED  BY <2>1, <2>2, ConvWritten DEF Touches
<1>3. CASE WindowPasses(i)
  <2> DEFINE row == [convs[i] EXCEPT !.recent = FALSE]
  <2>1. row \in ConvRows /\ row.contact = convs[i].contact /\ row.status = convs[i].status
    BY <1>1 DEF ConvRows, Statuses
  <2>2. convs' = [convs EXCEPT ![i] = row]
    BY <1>3 DEF WindowPasses
  <2> HIDE DEF row
  <2> QED  BY <2>1, <2>2, ConvWritten DEF Touches
<1> QED  BY <1>2, <1>3

LEMMA AskStoreDoes ==
    ASSUME RowsTyped, NEW a \in Closers, AskStore(a)
    PROVE  /\ surveys' \in Seq(SurveyRows) /\ Len(surveys') = Len(surveys) + 1
           /\ surveys'[Len(surveys) + 1] = [conv |-> closer[a].conv, awaiting |-> TRUE, feedback |-> 0]
           /\ \A s \in 1..Len(surveys) : surveys'[s] = surveys[s]
<1>1. [conv |-> closer[a].conv, awaiting |-> TRUE, feedback |-> 0] \in SurveyRows /\ surveys \in Seq(SurveyRows)
  BY DEF SurveyRows, RowsTyped, CloserRows
<1> QED  BY <1>1, Appended DEF AskStore

\* The types and pointers when only closings move, or nobody.
LEMMA CloserPointed ==
    ASSUME RowsTyped, Pointers, RowsTyped', Grows, UNCHANGED handler, NEW a \in Closers, Alone(a),
           CloserPoints(a)',
           \A s \in 1..Len(surveys') : s \in 1..Len(surveys) \/ surveys'[s].conv \in 1..Len(convs')
    PROVE  Pointers'
BY StaysPointing DEF Alone, Pointers

LEMMA CloserTyped ==
    ASSUME RowsTyped, Pointers, NEW a \in Closers, CloserStep(a)
    PROVE  RowsTyped' /\ Grows /\ Pointers'
<1>1. CASE ReadToClose(a)
  <2>1. PICK i \in DOMAIN convs : closer' = [closer EXCEPT ![a] = [at |-> "closing", conv |-> i]]
    BY <1>1 DEF ReadToClose
  <2>2. i \in 1..Len(convs) /\ [at |-> "closing", conv |-> i] \in CloserRows
    BY SequencesIndexed DEF CloserRows
  <2>3. Alone(a) /\ closer'[a].conv = i
    BY <2>1, <2>2 DEF Alone, RowsTyped
  <2>4. RowsTyped' /\ Grows /\ UNCHANGED <<convs, surveys, handler>>
    BY <1>1, <2>3, SameGrows DEF RowsTyped, Alone, ReadToClose, database, ingestionHistory
  <2>5. CloserPoints(a)'
    BY <2>2, <2>3, <2>4 DEF CloserPoints
  <2> QED  BY <2>3, <2>4, <2>5, CloserPointed
<1>2. CASE WriteClosed(a)
  <2>1. Touches(closer[a].conv) /\ closer[a].conv \in 1..Len(convs)
    BY <1>2, WriteClosedDoes
  <2>2. Alone(a) /\ closer'[a].conv = closer[a].conv
    BY <1>2, CloserWent DEF WriteClosed
  <2>3. UNCHANGED <<contacts, messages, surveys, handler, raced>>
    BY <1>2 DEF WriteClosed, ingestionHistory
  <2>4. RowsTyped'
    BY <2>1, <2>2, <2>3 DEF RowsTyped, Alone, Touches
  <2>5. Grows
    BY <2>1, <2>3, SequencesIndexed DEF Grows, Touches
  <2>6. CloserPoints(a)'
    BY <2>1, <2>2 DEF CloserPoints, Touches
  <2> QED  BY <2>2, <2>3, <2>4, <2>5, <2>6, CloserPointed
<1>3. CASE AskRead(a)
  <2>1. /\ Alone(a) /\ closer'[a].at \in {"done", "send"}
        /\ closer'[a].at = "send" => closer'[a].conv = closer[a].conv
    BY <1>3, CloserWent DEF AskRead
  <2>2. RowsTyped' /\ Grows /\ UNCHANGED <<convs, surveys, handler>>
    BY <1>3, <2>1, SameGrows DEF RowsTyped, Alone, AskRead, database
  <2>3. CloserPoints(a)'
    BY <1>3, <2>1, <2>2 DEF CloserPoints, Pointers, AskRead, CloserAt
  <2> QED  BY <2>1, <2>2, <2>3, CloserPointed
<1>4. CASE AskStore(a)
  <2>1. Alone(a) /\ closer'[a].at = "done"
    BY <1>4, CloserWent DEF AskStore
  <2>2. UNCHANGED <<contacts, convs, messages, handler, raced>>
    BY <1>4 DEF AskStore, ingestionHistory
  <2>0. /\ surveys' \in Seq(SurveyRows) /\ Len(surveys') = Len(surveys) + 1 /\ Len(surveys) \in Nat
        /\ surveys'[Len(surveys) + 1].conv = closer[a].conv
        /\ \A s \in 1..Len(surveys) : surveys'[s] = surveys[s]
    <3>1. /\ surveys' \in Seq(SurveyRows) /\ Len(surveys') = Len(surveys) + 1
          /\ surveys'[Len(surveys) + 1] = [conv |-> closer[a].conv, awaiting |-> TRUE, feedback |-> 0]
          /\ \A s \in 1..Len(surveys) : surveys'[s] = surveys[s]
      BY <1>4, AskStoreDoes
    <3>2. surveys'[Len(surveys) + 1].conv = closer[a].conv
      BY <3>1
    <3>3. Len(surveys) \in Nat
      BY SequencesIndexed
    <3> QED  BY <3>1, <3>2, <3>3
  <2>3. RowsTyped'
    BY <2>0, <2>1, <2>2 DEF RowsTyped, Alone
  <2>4. Grows
    <3>1. Len(surveys) <= Len(surveys') /\ \A s \in 1..Len(surveys) : surveys'[s].conv = surveys[s].conv
      BY <2>0
    <3>2. Len(convs) <= Len(convs') /\ \A i \in 1..Len(convs) : convs'[i].contact = convs[i].contact
      BY <2>2, SequencesIndexed
    <3> QED  BY <3>1, <3>2 DEF Grows
  <2>5. closer[a].conv \in 1..Len(convs)
    BY <1>4 DEF Pointers, CloserPoints, AskStore, CloserAt
  <2>6. \A s \in 1..Len(surveys') : s \in 1..Len(surveys) \/ surveys'[s].conv \in 1..Len(convs')
    <3>1. \A s \in 1..Len(surveys') : s \in 1..Len(surveys) \/ s = Len(surveys) + 1
      BY <2>0
    <3> QED  BY <2>0, <2>2, <2>5, <3>1
  <2>7. CloserPoints(a)'
    BY <2>1 DEF CloserPoints
  <2> QED  BY <2>1, <2>2, <2>3, <2>4, <2>6, <2>7, CloserPointed
<1> QED  BY <1>1, <1>2, <1>3, <1>4 DEF CloserStep

LEMMA OtherTyped ==
    ASSUME RowsTyped, Pointers,
           \/ \E h \in Handlers, e \in Events : Receive(h, e)
           \/ \E i \in DOMAIN convs : Queue(i) \/ WindowPasses(i)
           \/ IngestionRestart \/ UNCHANGED ingestionVars
    PROVE  RowsTyped' /\ Grows /\ Pointers'
<1>1. ASSUME NEW h \in Handlers, NEW e \in Events, Receive(h, e) PROVE RowsTyped' /\ Grows /\ Pointers'
  <2>1. UNCHANGED <<contacts, convs, messages, surveys, closer, raced>>
    BY <1>1 DEF Receive, database
  <2>2. Only(h) /\ (handler'[h] = handler[h] \/ (handler'[h].at = "find" /\ handler'[h].event = e))
    <3>1. CASE UNCHANGED handler
      BY <3>1 DEF Only, RowsTyped
    <3>2. CASE handler' = [handler EXCEPT ![h] = [IdleHandler EXCEPT !.at = "find", !.event = e]]
      BY <3>2, Received
    <3> QED  BY <1>1, <3>1, <3>2 DEF Receive
  <2>3. RowsTyped' /\ Grows
    BY <2>1, <2>2, SameGrows DEF RowsTyped, Only
  <2>4. HandlerPoints(h)'
    BY <2>2, <2>3, StaysPointing DEF HandlerPoints, At
  <2> QED  BY <2>1, <2>2, <2>3, <2>4, HandlerPointed
<1>2. ASSUME NEW i \in DOMAIN convs, Queue(i) \/ WindowPasses(i) PROVE RowsTyped' /\ Grows /\ Pointers'
  <2>1. Touches(i)
    BY <1>2, ConvStepDoes, SequencesIndexed
  <2>2. UNCHANGED <<contacts, messages, surveys, handler, closer, raced>>
    BY <1>2 DEF Queue, WindowPasses, ingestionHistory
  <2>3. RowsTyped'
    BY <2>1, <2>2 DEF RowsTyped, Touches
  <2>4. Grows
    BY <2>1, <2>2, SequencesIndexed DEF Grows, Touches
  <2> QED  BY <2>2, <2>3, <2>4, StaysPointing DEF Pointers
<1>3. CASE IngestionRestart
  <2>1. UNCHANGED <<contacts, convs, messages, surveys, raced>>
    BY <1>3 DEF IngestionRestart, database
  <2>2. IdleHandler \in HandlerRows /\ [at |-> "done", conv |-> 0] \in CloserRows
    BY DEF IdleHandler, HandlerRows, CloserRows, Places
  <2>3. handler' \in [Handlers -> HandlerRows] /\ \A h \in Handlers : handler'[h].at = "idle"
    BY <1>3, <2>2 DEF IngestionRestart, IdleHandler
  <2>4. closer' \in [Closers -> CloserRows] /\ \A a \in Closers : closer'[a] = closer[a] \/ closer'[a].at = "done"
    BY <1>3, <2>2 DEF IngestionRestart, RowsTyped
  <2>5. RowsTyped' /\ Grows
    BY <2>1, <2>3, <2>4, SameGrows DEF RowsTyped
  <2>6. \A h \in Handlers : HandlerPoints(h)'
    BY <2>3 DEF HandlerPoints, At
  <2>7. \A a \in Closers : CloserPoints(a)'
    BY <2>4, <2>5, StaysPointing DEF CloserPoints
  <2> QED  BY <2>1, <2>5, <2>6, <2>7, StaysPointing DEF Pointers
<1>4. CASE UNCHANGED ingestionVars
  <2>1. UNCHANGED <<contacts, convs, messages, surveys, handler, closer, raced>>
    BY <1>4 DEF ingestionVars, database, ingestionHistory
  <2>2. RowsTyped' /\ Grows
    BY <2>1, SameGrows DEF RowsTyped
  <2> QED  BY <2>1, <2>2, StaysPointing DEF Pointers
<1> QED  BY <1>1, <1>2, <1>3, <1>4

-----------------------------------------------------------------------------
(* The message of an event. *)

\* Handlers that have looked for the message of e and not stored it.
Takes(h, e) == handler[h].event = e /\ At(h) \notin {"idle", "update"}

\* Unless they overlapped, one handler at most is about to store an event, and then it
\* is not stored.
StoringApart == \A e \in Events \ overlapped :
    /\ \A g, h \in Handlers : Takes(g, e) /\ Takes(h, e) => g = h
    /\ \A h \in Handlers : Takes(h, e) => messages[e] = <<>>
    /\ Len(messages[e]) <= 1

LEMMA NobodyTakes ==
    ASSUME StoringApart, UNCHANGED messages, overlapped \subseteq overlapped',
           \A h \in Handlers, e \in Events : Takes(h, e)' => Takes(h, e)
    PROVE  StoringApart'
BY DEF StoringApart

LEMMA ReceivingApart ==
    ASSUME RowsTyped, Pointers, StoringApart, NEW h \in Handlers, NEW e \in Events, Receive(h, e)
    PROVE  StoringApart'
<1>0. UNCHANGED messages /\ overlapped' = overlapped \union {f \in {e} : Unstored(f)}
  BY DEF Receive, database
<1>1. CASE UNCHANGED handler
  <2>1. \A g \in Handlers, f \in Events : Takes(g, f)' <=> Takes(g, f)
    BY <1>1 DEF Takes, At
  <2> QED  BY <1>0, <2>1, NobodyTakes
<1>2. CASE /\ messages[e] = <<>>
           /\ handler' = [handler EXCEPT ![h] = [IdleHandler EXCEPT !.at = "find", !.event = e]]
  <2>1. Only(h) /\ handler'[h].at = "find" /\ handler'[h].event = e
    BY <1>2, Received
  <2> SUFFICES ASSUME NEW f \in Events \ overlapped'
               PROVE  /\ \A g, k \in Handlers : Takes(g, f)' /\ Takes(k, f)' => g = k
                      /\ \A g \in Handlers : Takes(g, f)' => messages'[f] = <<>>
                      /\ Len(messages'[f]) <= 1
    BY DEF StoringApart
  <2>2. f \notin overlapped
    BY <1>0
  <2>3. CASE f # e
    <3>1. \A g \in Handlers : Takes(g, f)' => Takes(g, f)
      BY <2>1, <2>3 DEF Takes, At, Only
    <3> QED  BY <1>0, <2>2, <3>1 DEF StoringApart
  <2>4. CASE f = e
    <3>1. ~Unstored(e)
      BY <1>0, <2>4
    <3>2. \A g \in Handlers : ~Takes(g, e)
      BY <3>1 DEF Unstored, Takes
    <3>3. \A g \in Handlers : Takes(g, e)' => g = h
      BY <2>1, <3>2 DEF Takes, At, Only
    <3> QED  BY <1>0, <1>2, <2>2, <2>4, <3>3 DEF StoringApart
  <2> QED  BY <2>3, <2>4
<1> QED  BY <1>1, <1>2 DEF Receive

\* A message stored by the handler that had looked for it, and that is then done with it.
LEMMA StoredByTaker ==
    ASSUME RowsTyped, Pointers, StoringApart, NEW h \in Handlers,
           At(h) \in {"store", "reply"}, NEW i \in Nat,
           messages' = [messages EXCEPT ![handler[h].event] = Append(@, i)],
           UNCHANGED overlapped, Only(h), \A e \in Events : ~Takes(h, e)'
    PROVE  StoringApart'
<1> DEFINE e == handler[h].event
<1>1. e \in Events /\ Takes(h, e)
  BY DEF Pointers, HandlerPoints, Takes
<1>2. messages'[e] = Append(messages[e], i) /\ \A f \in Events : f # e => messages'[f] = messages[f]
  BY <1>1 DEF RowsTyped
<1>3. \A g \in Handlers, f \in Events : Takes(g, f)' => Takes(g, f) /\ g # h
  BY DEF Takes, At, Only
<1>4. e \notin overlapped => Len(messages'[e]) <= 1 /\ \A g \in Handlers : Takes(g, e) => g = h
  <2> SUFFICES ASSUME e \notin overlapped PROVE Len(messages'[e]) <= 1 /\ \A g \in Handlers : Takes(g, e) => g = h
    OBVIOUS
  <2>1. messages[e] = <<>> /\ \A g \in Handlers : Takes(g, e) => g = h
    BY <1>1 DEF StoringApart
  <2>2. Len(Append(<<>>, i)) = 1
    OBVIOUS
  <2> QED  BY <1>2, <2>1, <2>2
<1> HIDE DEF e
<1> SUFFICES ASSUME NEW f \in Events \ overlapped
             PROVE  /\ \A g, k \in Handlers : Takes(g, f)' /\ Takes(k, f)' => g = k
                    /\ \A g \in Handlers : Takes(g, f)' => messages'[f] = <<>>
                    /\ Len(messages'[f]) <= 1
  BY DEF StoringApart
<1>5. CASE f # e
  BY <1>2, <1>3, <1>5 DEF StoringApart
<1>6. CASE f = e
  BY <1>3, <1>4, <1>6
<1> QED  BY <1>5, <1>6

\* The steps of a handler that store nothing leave what it is about.
LEMMA HandlerApart ==
    ASSUME RowsTyped, Pointers, StoringApart, NEW h \in Handlers, HandlerStep(h)
    PROVE  StoringApart'
<1>1. CASE StoreRating(h)
  <2>1. Only(h) /\ handler'[h] = IdleHandler
    BY <1>1, Ended DEF StoreRating
  <2>2. PICK i \in Nat : messages' = [messages EXCEPT ![handler[h].event] = Append(@, i)]
    BY <1>1, StoreRatingDoes
  <2>3. \A e \in Events : ~Takes(h, e)'
    BY <2>1 DEF Takes, At, IdleHandler
  <2> QED  BY <1>1, <2>1, <2>2, <2>3, StoredByTaker DEF StoreRating, ingestionHistory
<1>2. CASE StoreMessage(h)
  <2>1. Only(h) /\ handler'[h].at = "update"
    BY <1>2, Went DEF StoreMessage, Places, Resolving
  <2>2. handler[h].conv \in Nat
    BY DEF RowsTyped, HandlerRows
  <2> QED  BY <1>2, <2>1, <2>2, StoredByTaker DEF StoreMessage, ingestionHistory, Takes, At
<1>3. ASSUME UNCHANGED <<messages, overlapped>>, Only(h), At(h) \notin {"idle", "update"},
             handler'[h].event = handler[h].event \/ handler'[h].at = "idle"
      PROVE  StoringApart'
  <2>1. \A g \in Handlers, e \in Events : Takes(g, e)' => Takes(g, e)
    BY <1>3 DEF Takes, At, Only
  <2> QED  BY <1>3, <2>1, NobodyTakes
<1>4. CASE UpdateConversation(h)
  <2>1. Only(h) /\ handler'[h] = IdleHandler
    BY <1>4, Ended DEF UpdateConversation
  <2>2. \A g \in Handlers, e \in Events : Takes(g, e)' => Takes(g, e)
    BY <2>1 DEF Takes, At, Only, IdleHandler
  <2> QED  BY <1>4, <2>2, NobodyTakes DEF UpdateConversation, ingestionHistory
<1>5. CASE FindContact(h) \/ CreateContact(h) \/ Capture(h)
  <2>1. Only(h) /\ handler'[h].event = handler[h].event
    BY <1>5, FindContactDoes, CreateContactDoes, CaptureDoes
  <2> QED  BY <1>3, <1>5, <2>1 DEF FindContact, CreateContact, Capture, ingestionHistory, database
<1>6. CASE Feedback(h) \/ Mark(h) \/ CaptureThrows(h) \/ Reopen(h)
  <2>1. Only(h) /\ handler'[h].event = handler[h].event
    BY <1>6, Went DEF Feedback, Mark, CaptureThrows, Reopen, Places, Found, Resolving
  <2> QED  BY <1>3, <1>6, <2>1 DEF Feedback, Mark, CaptureThrows, Reopen, ingestionHistory, database
<1>7. CASE FindOpen(h) \/ FindRecentlyClosed(h) \/ BeginConversation(h)
  <2>1. Only(h) /\ handler'[h].event = handler[h].event
    BY <1>7, FindOpenDoes, FindClosedDoes, BeginDoes
  <2> QED  BY <1>3, <1>7, <2>1 DEF FindOpen, FindRecentlyClosed, BeginConversation, ingestionHistory, database
<1> QED  BY <1>1, <1>2, <1>4, <1>5, <1>6, <1>7 DEF HandlerStep

\* Nobody but a handler takes an event on, or stores it.
LEMMA OthersApart ==
    ASSUME RowsTyped, Pointers, StoringApart,
           \/ \E a \in Closers : CloserStep(a)
           \/ \E i \in DOMAIN convs : Queue(i) \/ WindowPasses(i)
           \/ IngestionRestart \/ UNCHANGED ingestionVars
    PROVE  StoringApart'
<1>1. UNCHANGED messages /\ overlapped \subseteq overlapped'
  BY DEF CloserStep, ReadToClose, WriteClosed, AskRead, AskStore, Queue, WindowPasses, IngestionRestart,
         database, ingestionHistory, ingestionVars
<1>2. UNCHANGED handler \/ \A h \in Handlers : handler'[h] = IdleHandler
  BY DEF CloserStep, ReadToClose, WriteClosed, AskRead, AskStore, Queue, WindowPasses, IngestionRestart,
         database, ingestionHistory, ingestionVars
<1>3. \A h \in Handlers, e \in Events : Takes(h, e)' => Takes(h, e)
  BY <1>2 DEF Takes, At, IdleHandler
<1> QED  BY <1>1, <1>3, NobodyTakes

LEMMA StepApart ==
    ASSUME RowsTyped, Pointers, StoringApart, [IngestionNext]_ingestionVars
    PROVE  StoringApart'
<1>1. CASE \E h \in Handlers, e \in Events : Receive(h, e)
  BY <1>1, ReceivingApart
<1>2. CASE \E h \in Handlers : HandlerStep(h)
  BY <1>2, HandlerApart
<1> QED  BY <1>1, <1>2, OthersApart DEF IngestionNext

-----------------------------------------------------------------------------
(* The contact of the number. *)

\* Unless two messages looked for it at once, there is one contact at most; the handler
\* about to create it is alone with none there; every later handler and every
\* conversation have found that one.
OneCustomer == ~raced =>
    /\ contacts <= 1
    /\ \A h \in Handlers : At(h) = "create" => contacts = 0
    /\ \A g, h \in Handlers : At(g) = "create" /\ At(h) = "create" => g = h
    /\ \A h \in Handlers : At(h) \notin {"idle", "find", "create"} => handler[h].contact = 1
    /\ \A i \in 1..Len(convs) : convs[i].contact = 1

\* Steps that neither look for the contact nor begin a conversation.
LEMMA CustomerKept ==
    ASSUME RowsTyped, OneCustomer, UNCHANGED contacts, raced => raced',
           Len(convs') = Len(convs), \A i \in 1..Len(convs) : convs'[i].contact = convs[i].contact,
           \A h \in Handlers :
              \/ handler'[h] = handler[h]
              \/ handler'[h].at \in {"idle", "find"}
              \/ /\ At(h) \notin {"idle", "find", "create"} /\ handler'[h].at # "create"
                 /\ handler'[h].contact = handler[h].contact
    PROVE  OneCustomer'
BY DEF OneCustomer, At

LEMMA HandlerCustomer ==
    ASSUME RowsTyped, Pointers, OneCustomer, NEW h \in Handlers, HandlerStep(h), RowsTyped'
    PROVE  OneCustomer'
<1>1. CASE FindContact(h)
  <2> SUFFICES ASSUME ~raced' PROVE OneCustomer'
    BY DEF OneCustomer
  <2>1. ~raced /\ \A g \in Handlers : g # h => At(g) # "create"
    BY <1>1 DEF FindContact, Others
  <2>2. /\ Only(h)
        /\ \/ contacts = 0 /\ handler'[h].at = "create"
           \/ handler'[h].at \in {"open", "capture"} /\ handler'[h].contact \in 1..contacts
    BY <1>1, FindContactDoes DEF AfterContact
  <2>3. UNCHANGED <<contacts, convs>>
    BY <1>1 DEF FindContact, database
  <2>4. contacts \in Nat /\ contacts <= 1
    BY <2>1 DEF OneCustomer, RowsTyped
  <2>5. handler'[h].at # "create" => handler'[h].contact = 1
    BY <2>2, <2>4
  <2> QED  BY <2>1, <2>2, <2>3, <2>4, <2>5 DEF OneCustomer, At, Only
<1>2. CASE CreateContact(h)
  <2> SUFFICES ASSUME ~raced' PROVE OneCustomer'
    BY DEF OneCustomer
  <2>1. ~raced /\ UNCHANGED convs /\ contacts' = contacts + 1 /\ At(h) = "create"
    BY <1>2 DEF CreateContact, ingestionHistory
  <2>2. Only(h) /\ handler'[h].at \in {"open", "capture"} /\ handler'[h].contact = contacts + 1
    BY <1>2, CreateContactDoes DEF AfterContact
  <2>3. contacts = 0 /\ \A g \in Handlers : g # h => At(g) # "create"
    BY <2>1 DEF OneCustomer
  <2> QED  BY <2>1, <2>2, <2>3 DEF OneCustomer, At, Only
<1>3. CASE BeginConversation(h)
  <2> SUFFICES ASSUME ~raced' PROVE OneCustomer'
    BY DEF OneCustomer
  <2>1. ~raced /\ UNCHANGED contacts /\ At(h) = "begin"
    BY <1>3 DEF BeginConversation, ingestionHistory
  <2>2. /\ Only(h) /\ handler'[h].at = "store" /\ handler'[h].contact = handler[h].contact
        /\ Len(convs') = Len(convs) + 1
        /\ convs'[Len(convs) + 1].contact = handler[h].contact
        /\ \A i \in 1..Len(convs) : convs'[i] = convs[i]
    <3>1. /\ Only(h) /\ handler'[h].at = "store" /\ handler'[h].contact = handler[h].contact
          /\ Len(convs') = Len(convs) + 1
          /\ convs'[Len(convs) + 1] = [contact |-> handler[h].contact, status |-> "OPEN", recent |-> FALSE]
          /\ \A i \in 1..Len(convs) : convs'[i] = convs[i]
      BY <1>3, BeginDoes
    <3> QED  BY <3>1
  <2>3. handler[h].contact = 1 /\ \A i \in 1..Len(convs) : convs[i].contact = 1
    BY <2>1 DEF OneCustomer
  <2>4. \A i \in 1..Len(convs') : convs'[i].contact = 1
    <3>1. \A i \in 1..Len(convs') : i \in 1..Len(convs) \/ i = Len(convs) + 1
      BY <2>2, SequencesIndexed
    <3> QED  BY <2>2, <2>3, <3>1
  <2> QED  BY <2>1, <2>2, <2>3, <2>4 DEF OneCustomer, At, Only
<1>4. ASSUME Only(h), UNCHANGED <<contacts, convs>>, raced => raced', At(h) \notin {"idle", "find", "create"},
             \/ handler'[h].at = "idle"
             \/ handler'[h].at # "create" /\ handler'[h].contact = handler[h].contact
      PROVE  OneCustomer'
  BY <1>4, CustomerKept DEF Only
<1>5. CASE Capture(h) \/ FindOpen(h) \/ FindRecentlyClosed(h)
  <2>1. Only(h) /\ handler'[h].at # "create" /\ handler'[h].contact = handler[h].contact
    BY <1>5, CaptureDoes, FindOpenDoes, FindClosedDoes
  <2> QED  BY <1>4, <1>5, <2>1 DEF Capture, FindOpen, FindRecentlyClosed, database, ingestionHistory
<1>6. CASE Feedback(h) \/ Mark(h) \/ CaptureThrows(h) \/ StoreMessage(h)
  <2>1. Only(h) /\ handler'[h].at # "create" /\ handler'[h].contact = handler[h].contact
    BY <1>6, Went DEF Feedback, Mark, CaptureThrows, StoreMessage, Places, Found, Resolving
  <2> QED  BY <1>4, <1>6, <2>1 DEF Feedback, Mark, CaptureThrows, StoreMessage, database, ingestionHistory
<1>7. CASE StoreRating(h)
  <2>1. Only(h) /\ handler'[h].at = "idle"
    BY <1>7, Ended DEF StoreRating, IdleHandler
  <2> QED  BY <1>4, <1>7, <2>1 DEF StoreRating, ingestionHistory
<1>8. CASE Reopen(h) \/ UpdateConversation(h)
  <2>1. /\ Only(h)
        /\ \/ handler'[h].at = "idle"
           \/ handler'[h].at = "store" /\ handler'[h].contact = handler[h].contact
    BY <1>8, Went, Ended DEF Reopen, UpdateConversation, IdleHandler, Places, Resolving
  <2>2. UNCHANGED <<contacts, raced>> /\ At(h) \notin {"idle", "find", "create"}
    BY <1>8 DEF Reopen, UpdateConversation, ingestionHistory
  <2>3. Len(convs') = Len(convs) /\ \A i \in 1..Len(convs) : convs'[i].contact = convs[i].contact
    BY <1>8, HandlerRewrites
  <2> QED  BY <2>1, <2>2, <2>3, CustomerKept DEF Only
<1> QED  BY <1>1, <1>2, <1>3, <1>5, <1>6, <1>7, <1>8 DEF HandlerStep

\* Only handlers look for contacts and conversations.
LEMMA OutsideHandlers ==
    ASSUME RowsTyped, Pointers,
           \/ \E h \in Handlers, e \in Events : Receive(h, e)
           \/ \E a \in Closers : CloserStep(a)
           \/ \E i \in DOMAIN convs : Queue(i) \/ WindowPasses(i)
           \/ IngestionRestart \/ UNCHANGED ingestionVars
    PROVE  /\ UNCHANGED <<contacts, raced>> /\ Len(convs') = Len(convs)
           /\ \A i \in 1..Len(convs) : /\ convs'[i].contact = convs[i].contact
                                       /\ convs'[i].status # "CLOSED" => convs[i].status # "CLOSED"
           /\ \A h \in Handlers : handler'[h] = handler[h] \/ handler'[h].at \in {"idle", "find"}
<1>1. UNCHANGED <<contacts, raced>>
  BY DEF Receive, CloserStep, ReadToClose, WriteClosed, AskRead, AskStore, Queue, WindowPasses, IngestionRestart,
         database, ingestionHistory, ingestionVars
<1>2. \A h \in Handlers : handler'[h] = handler[h] \/ handler'[h].at \in {"idle", "find"}
  <2>1. CASE \E h \in Handlers, e \in Events : Receive(h, e)
    <3>1. PICK h \in Handlers, e \in Events : Receive(h, e)
      BY <2>1
    <3>2. CASE handler' = [handler EXCEPT ![h] = [IdleHandler EXCEPT !.at = "find", !.event = e]]
      BY <3>2, Received DEF Only
    <3> QED  BY <3>1, <3>2 DEF Receive
  <2>2. CASE IngestionRestart
    BY <2>2 DEF IngestionRestart, IdleHandler
  <2>3. CASE \/ \E a \in Closers : CloserStep(a)
             \/ \E i \in DOMAIN convs : Queue(i) \/ WindowPasses(i)
             \/ UNCHANGED ingestionVars
    BY <2>3 DEF CloserStep, ReadToClose, WriteClosed, AskRead, AskStore, Queue, WindowPasses, ingestionVars
  <2> QED  BY <2>1, <2>2, <2>3
<1>3. /\ Len(convs') = Len(convs)
      /\ \A i \in 1..Len(convs) : /\ convs'[i].contact = convs[i].contact
                                  /\ convs'[i].status # "CLOSED" => convs[i].status # "CLOSED"
  <2>1. ASSUME NEW i \in 1..Len(convs), Touches(i)
        PROVE  /\ Len(convs') = Len(convs)
               /\ \A j \in 1..Len(convs) : /\ convs'[j].contact = convs[j].contact
                                           /\ convs'[j].status # "CLOSED" => convs[j].status # "CLOSED"
    BY <2>1 DEF Touches
  <2>2. CASE \E a \in Closers : WriteClosed(a)
    BY <2>1, <2>2, WriteClosedDoes
  <2>3. CASE \E i \in DOMAIN convs : Queue(i) \/ WindowPasses(i)
    BY <2>1, <2>3, ConvStepDoes, SequencesIndexed
  <2>4. UNCHANGED convs \/ (\E a \in Closers : WriteClosed(a)) \/ \E i \in DOMAIN convs : Queue(i) \/ WindowPasses(i)
    BY DEF Receive, CloserStep, ReadToClose, AskRead, AskStore, IngestionRestart, database, ingestionVars
  <2> QED  BY <2>2, <2>3, <2>4
<1> QED  BY <1>1, <1>2, <1>3

LEMMA StepCustomer ==
    ASSUME RowsTyped, Pointers, OneCustomer, [IngestionNext]_ingestionVars, RowsTyped'
    PROVE  OneCustomer'
<1>1. CASE \E h \in Handlers : HandlerStep(h)
  BY <1>1, HandlerCustomer
<1>2. CASE ~\E h \in Handlers : HandlerStep(h)
  BY <1>2, OutsideHandlers, CustomerKept DEF IngestionNext
<1> QED  BY <1>1, <1>2

-----------------------------------------------------------------------------
(* The conversation of the contact. *)

Deciding == Resolving \ {"open"}

\* Unless two messages looked for it at once: one handler at most is past its look for
\* the open conversation; no two conversations are open; the handler that found none
\* open finds them so until it opens one, and then that is the only one.
OneConversation == ~raced =>
    /\ \A g, h \in Handlers : At(g) \in Deciding /\ At(h) \in Deciding => g = h
    /\ \A i, j \in 1..Len(convs) : convs[i].status # "CLOSED" /\ convs[j].status # "CLOSED" => i = j
    /\ \A h \in Handlers : At(h) \in {"closed", "begin", "reopen"} =>
          \A i \in 1..Len(convs) : convs[i].status = "CLOSED"
    /\ \A h \in Handlers : At(h) \in {"store", "update"} =>
          \A i \in 1..Len(convs) : i # handler[h].conv => convs[i].status = "CLOSED"

\* Steps that open no conversation, of nobody who is deciding on one.
LEMMA ConversationKept ==
    ASSUME RowsTyped, OneConversation, raced => raced', Len(convs') = Len(convs),
           \A i \in 1..Len(convs) : convs'[i].status # "CLOSED" => convs[i].status # "CLOSED",
           \A h \in Handlers : handler'[h] = handler[h] \/ handler'[h].at \notin Deciding
    PROVE  OneConversation'
BY DEF OneConversation, At, Deciding, Resolving

\* A step of the one who is, that leaves only the conversation it ends with open.
LEMMA DecidedAlone ==
    ASSUME RowsTyped, OneConversation, UNCHANGED raced, RowsTyped',
           NEW h \in Handlers, At(h) \in Deciding, Only(h),
           ~raced => /\ handler'[h].at \in {"closed", "begin", "reopen"} =>
                           \A i \in 1..Len(convs') : convs'[i].status = "CLOSED"
                     /\ handler'[h].at \notin {"closed", "begin", "reopen"} =>
                           \E c \in Nat : /\ \A i \in 1..Len(convs') : i # c => convs'[i].status = "CLOSED"
                                          /\ handler'[h].at \in {"store", "update"} => c = handler'[h].conv
    PROVE  OneConversation'
<1> SUFFICES ASSUME ~raced PROVE OneConversation'
  BY DEF OneConversation
<1>1. \A g \in Handlers : g # h => At(g) \notin Deciding
  BY DEF OneConversation
<1>2. \A g \in Handlers : g # h => At(g)' \notin Deciding
  BY <1>1 DEF At, Only
<1>3. \A i, j \in 1..Len(convs') : convs'[i].status # "CLOSED" /\ convs'[j].status # "CLOSED" => i = j
  OBVIOUS
<1> QED  BY <1>2, <1>3 DEF OneConversation, At, Deciding, Resolving

LEMMA HandlerConversation ==
    ASSUME RowsTyped, Pointers, OneCustomer, OneConversation, NEW h \in Handlers, HandlerStep(h), RowsTyped'
    PROVE  OneConversation'
<1>1. ASSUME ~raced, At(h) \notin {"idle", "find", "create"} PROVE Mine(h) = 1..Len(convs)
  BY <1>1, SequencesIndexed DEF OneCustomer, Mine
<1>2. CASE FindOpen(h)
  <2> SUFFICES ASSUME ~raced' PROVE OneConversation'
    BY DEF OneConversation
  <2>1. ~raced /\ \A g \in Handlers : g # h => At(g) \notin Deciding
    BY <1>2 DEF FindOpen, Others, Deciding
  <2>2. Mine(h) = 1..Len(convs)
    BY <1>1, <1>2, <2>1 DEF FindOpen
  <2>3. UNCHANGED convs
    BY <1>2 DEF FindOpen, database
  <2>4. /\ Only(h)
        /\ \/ /\ handler'[h].at = "store" /\ handler'[h].conv \in 1..Len(convs)
              /\ convs[handler'[h].conv].status # "CLOSED"
           \/ /\ handler'[h].at \in {"closed", "begin"}
              /\ \A i \in 1..Len(convs) : convs[i].status = "CLOSED"
    BY <1>2, <2>2, FindOpenDoes
  <2>5. \A g \in Handlers : g # h => At(g)' \notin Deciding
    BY <2>1, <2>4 DEF At, Only
  <2>6. \A i, j \in 1..Len(convs) : convs[i].status # "CLOSED" /\ convs[j].status # "CLOSED" => i = j
    BY <2>1 DEF OneConversation
  <2>7. handler'[h].at = "store" => \A i \in 1..Len(convs) : i # handler'[h].conv => convs[i].status = "CLOSED"
    BY <2>4, <2>6
  <2> QED  BY <2>3, <2>4, <2>5, <2>6, <2>7 DEF OneConversation, At, Deciding, Resolving
<1>3. CASE FindRecentlyClosed(h)
  <2>1. Only(h) /\ handler'[h].at \in {"reopen", "begin"}
    BY <1>3, FindClosedDoes
  <2>2. UNCHANGED <<convs, raced>> /\ At(h) = "closed"
    BY <1>3 DEF FindRecentlyClosed, database, ingestionHistory
  <2>3. ~raced => \A i \in 1..Len(convs) : convs[i].status = "CLOSED"
    BY <2>2 DEF OneConversation
  <2> QED  BY <2>1, <2>2, <2>3, DecidedAlone DEF Deciding, Resolving
<1>4. CASE Reopen(h)
  <2>1. /\ Only(h) /\ handler'[h].at = "store" /\ handler'[h].conv = handler[h].conv
    BY <1>4, Went DEF Reopen, Places, Resolving
  <2>2. /\ Len(convs') = Len(convs) /\ handler[h].conv \in Nat
        /\ \A j \in 1..Len(convs) : j # handler[h].conv => convs'[j] = convs[j]
    BY <1>4, HandlerRewrites DEF RowsTyped, HandlerRows
  <2>3. UNCHANGED raced /\ At(h) = "reopen"
    BY <1>4 DEF Reopen, ingestionHistory
  <2>4. ~raced => \A i \in 1..Len(convs) : convs[i].status = "CLOSED"
    BY <2>3 DEF OneConversation
  <2> QED  BY <2>1, <2>2, <2>3, <2>4, DecidedAlone DEF Deciding, Resolving
<1>5. CASE BeginConversation(h)
  <2>1. /\ Only(h) /\ handler'[h].at = "store" /\ handler'[h].conv = Len(convs) + 1
        /\ Len(convs') = Len(convs) + 1
        /\ \A i \in 1..Len(convs) : convs'[i] = convs[i]
    BY <1>5, BeginDoes
  <2>2. UNCHANGED raced /\ At(h) = "begin"
    BY <1>5 DEF BeginConversation, ingestionHistory
  <2>3. ~raced => \A i \in 1..Len(convs) : convs[i].status = "CLOSED"
    BY <2>2 DEF OneConversation
  <2>4. \A i \in 1..Len(convs') : i # Len(convs) + 1 => i \in 1..Len(convs)
    BY <2>1, SequencesIndexed
  <2>5. Len(convs) + 1 \in Nat
    BY SequencesIndexed
  <2>6. ~raced => \A i \in 1..Len(convs') : i # Len(convs) + 1 => convs'[i].status = "CLOSED"
    BY <2>1, <2>3, <2>4
  <2> QED  BY <2>1, <2>2, <2>5, <2>6, DecidedAlone DEF Deciding, Resolving
<1>6. CASE StoreMessage(h)
  <2>1. /\ Only(h) /\ handler'[h].at = "update" /\ handler'[h].conv = handler[h].conv
    BY <1>6, Went DEF StoreMessage, Places, Resolving
  <2>2. UNCHANGED <<convs, raced>> /\ At(h) = "store" /\ handler[h].conv \in Nat
    BY <1>6 DEF StoreMessage, ingestionHistory, RowsTyped, HandlerRows
  <2>3. ~raced => \A i \in 1..Len(convs) : i # handler[h].conv => convs[i].status = "CLOSED"
    BY <2>2 DEF OneConversation
  <2> QED  BY <2>1, <2>2, <2>3, DecidedAlone DEF Deciding, Resolving
<1>7. CASE UpdateConversation(h)
  <2>1. Only(h) /\ handler'[h].at = "idle"
    BY <1>7, Ended DEF UpdateConversation, IdleHandler
  <2>2. /\ Len(convs') = Len(convs) /\ handler[h].conv \in Nat
        /\ \A j \in 1..Len(convs) : j # handler[h].conv => convs'[j] = convs[j]
    BY <1>7, HandlerRewrites DEF RowsTyped, HandlerRows
  <2>3. UNCHANGED raced /\ At(h) = "update"
    BY <1>7 DEF UpdateConversation, ingestionHistory
  <2>4. ~raced => \A i \in 1..Len(convs) : i # handler[h].conv => convs[i].status = "CLOSED"
    BY <2>3 DEF OneConversation
  <2>5. ~raced => \A i \in 1..Len(convs') : i # handler[h].conv => convs'[i].status = "CLOSED"
    BY <2>2, <2>4
  <2> QED  BY <2>1, <2>2, <2>3, <2>5, DecidedAlone DEF Deciding, Resolving
<1>8. ASSUME Only(h), UNCHANGED convs, raced => raced', handler'[h].at \notin Deciding
      PROVE  OneConversation'
  BY <1>8, ConversationKept DEF Only
<1>9. CASE FindContact(h) \/ CreateContact(h) \/ Capture(h)
  <2>1. Only(h) /\ handler'[h].at \notin Deciding
    BY <1>9, FindContactDoes, CreateContactDoes, CaptureDoes DEF AfterContact, Deciding, Resolving
  <2> QED  BY <1>8, <1>9, <2>1 DEF FindContact, CreateContact, Capture, database, ingestionHistory
<1>10. CASE Feedback(h) \/ Mark(h) \/ CaptureThrows(h) \/ StoreRating(h)
  <2>1. Only(h) /\ handler'[h].at \in {"mark", "reply", "open", "idle"}
    BY <1>10, Went, Ended DEF Feedback, Mark, CaptureThrows, StoreRating, IdleHandler, Places, Found, Resolving
  <2> QED  BY <1>8, <1>10, <2>1 DEF Feedback, Mark, CaptureThrows, StoreRating, database, ingestionHistory, Deciding, Resolving
<1> QED  BY <1>2, <1>3, <1>4, <1>5, <1>6, <1>7, <1>9, <1>10 DEF HandlerStep

LEMMA StepConversation ==
    ASSUME RowsTyped, Pointers, OneCustomer, OneConversation, [IngestionNext]_ingestionVars, RowsTyped'
    PROVE  OneConversation'
<1>1. CASE \E h \in Handlers : HandlerStep(h)
  BY <1>1, HandlerConversation
<1>2. CASE ~\E h \in Handlers : HandlerStep(h)
  <2>1. /\ UNCHANGED raced /\ Len(convs') = Len(convs)
        /\ \A i \in 1..Len(convs) : convs'[i].status # "CLOSED" => convs[i].status # "CLOSED"
        /\ \A h \in Handlers : handler'[h] = handler[h] \/ handler'[h].at \in {"idle", "find"}
    BY <1>2, OutsideHandlers DEF IngestionNext
  <2> QED  BY <2>1, ConversationKept DEF Deciding, Resolving
<1> QED  BY <1>1, <1>2

-----------------------------------------------------------------------------
(* The answers of a survey. *)

Answers(h, s) == At(h) \in {"feedback", "mark"} /\ handler[h].survey = s
Marks(h, s) == At(h) = "mark" /\ handler[h].survey = s

\* Unless it was doubted, a survey is being answered by one handler at most, which finds
\* it without an answer, and it waits with an answer only until that handler marks it.
AnsweredApart == \A s \in 1..Len(surveys) : s \notin doubted =>
    /\ \A g, h \in Handlers : Answers(g, s) /\ Answers(h, s) => g = h
    /\ \A h \in Handlers : At(h) = "feedback" /\ handler[h].survey = s => surveys[s].feedback = 0
    /\ surveys[s].awaiting /\ surveys[s].feedback # 0 => \E h \in Handlers : Marks(h, s)
    /\ surveys[s].feedback <= 1

\* Steps that answer no survey.
LEMMA AnsweredKept ==
    ASSUME RowsTyped, AnsweredApart, UNCHANGED surveys, doubted \subseteq doubted',
           \A h \in Handlers :
              \/ handler'[h] = handler[h]
              \/ /\ handler'[h].at \notin {"feedback", "mark"}
                 /\ At(h) = "mark" => handler[h].survey \in doubted'
    PROVE  AnsweredApart'
<1> SUFFICES ASSUME NEW s \in 1..Len(surveys), s \notin doubted'
             PROVE  /\ \A g, h \in Handlers : Answers(g, s)' /\ Answers(h, s)' => g = h
                    /\ \A h \in Handlers : At(h)' = "feedback" /\ handler'[h].survey = s => surveys[s].feedback = 0
                    /\ surveys[s].awaiting /\ surveys[s].feedback # 0 => \E h \in Handlers : Marks(h, s)'
                    /\ surveys[s].feedback <= 1
  BY DEF AnsweredApart
<1>1. s \notin doubted
  OBVIOUS
<1>2. \A h \in Handlers : Answers(h, s)' => Answers(h, s) /\ handler'[h] = handler[h]
  BY DEF Answers, At
<1>3. \A h \in Handlers : Marks(h, s) => Marks(h, s)'
  BY DEF Marks, At
<1> QED  BY <1>1, <1>2, <1>3 DEF AnsweredApart, Answers, At

LEMMA CaptureAnswered ==
    ASSUME RowsTyped, Pointers, AnsweredApart, NEW h \in Handlers, Capture(h)
    PROVE  AnsweredApart'
<1>0. UNCHANGED surveys /\ At(h) = "capture"
  BY DEF Capture, database
<1>1. CASE Only(h) /\ handler'[h].at = "open" /\ doubted' = doubted
  BY <1>0, <1>1, AnsweredKept DEF Only
<1>2. CASE /\ Only(h) /\ handler'[h].at = "feedback" /\ handler'[h].survey \in OfContact(h)
           /\ surveys[handler'[h].survey].awaiting
           /\ doubted' = doubted \union {i \in {handler'[h].survey} : \E g \in Handlers \ {h} :
                             At(g) \in {"feedback", "mark"} /\ handler[g].survey = i}
  <2> DEFINE t == handler'[h].survey
  <2>1. t \in 1..Len(surveys) /\ surveys[t] \in SurveyRows
    BY <1>2, SequencesIndexed DEF OfContact
  <2>2. t \notin doubted' => \A g \in Handlers : g # h => ~Answers(g, t)
    BY <1>2 DEF Answers
  <2>3. ~\E s \in 1..Len(surveys) : Answers(h, s)
    BY <1>0 DEF Answers
  <2>4. \A g \in Handlers, s \in 1..Len(surveys) : Answers(g, s)' <=> (Answers(g, s) \/ (g = h /\ s = t))
    BY <1>2, <2>3 DEF Answers, At, Only
  <2>5. \A g \in Handlers, s \in 1..Len(surveys) : Marks(g, s)' <=> Marks(g, s)
    BY <1>0, <1>2 DEF Marks, At, Only
  <2>6. t \notin doubted' => surveys[t].feedback = 0
    <3>1. t \notin doubted' => ~\E g \in Handlers : Marks(g, t)
      BY <2>2, <2>3, <2>1 DEF Answers, Marks
    <3> QED  BY <1>2, <2>1, <3>1 DEF AnsweredApart
  <2>7. doubted \subseteq doubted'
    BY <1>2
  <2>8. \A g \in Handlers : g # h => handler'[g] = handler[g]
    BY <1>2 DEF Only
  <2>9. ASSUME NEW s \in 1..Len(surveys), s \notin doubted'
        PROVE  /\ \A g, k \in Handlers : Answers(g, s)' /\ Answers(k, s)' => g = k
               /\ \A g \in Handlers : At(g)' = "feedback" /\ handler'[g].survey = s => surveys[s].feedback = 0
               /\ surveys[s].awaiting /\ surveys[s].feedback # 0 => \E g \in Handlers : Marks(g, s)'
               /\ surveys[s].feedback <= 1
    <3>1. s \notin doubted
      BY <2>7, <2>9
    <3>2. \A g, k \in Handlers : Answers(g, s)' /\ Answers(k, s)' => g = k
      BY <2>2, <2>3, <2>4, <2>9, <3>1 DEF AnsweredApart
    <3>3. \A g \in Handlers : At(g)' = "feedback" /\ handler'[g].survey = s => surveys[s].feedback = 0
      BY <2>6, <2>8, <2>9, <3>1 DEF AnsweredApart, At
    <3>4. surveys[s].awaiting /\ surveys[s].feedback # 0 => \E g \in Handlers : Marks(g, s)'
      BY <2>5, <3>1 DEF AnsweredApart
    <3> QED  BY <3>1, <3>2, <3>3, <3>4 DEF AnsweredApart
  <2> QED  BY <1>0, <2>9 DEF AnsweredApart
<1> QED  BY <1>1, <1>2, CaptureDoes

\* The answer and the mark of one handler on the survey it is about.
LEMMA AnswerGiven ==
    ASSUME RowsTyped, Pointers, AnsweredApart, NEW h \in Handlers, Feedback(h) \/ Mark(h)
    PROVE  AnsweredApart'
<1>p. PICK t \in 1..Len(surveys) : t = handler[h].survey
  BY SequencesIndexed DEF Pointers, HandlerPoints, Feedback, Mark, OfContact
<1>0. surveys[t] \in SurveyRows
  BY SequencesIndexed
<1>1. /\ Only(h) /\ handler'[h].survey = t
      /\ At(h) = "feedback" => handler'[h].at = "mark"
      /\ At(h) = "mark" => handler'[h].at = "reply"
  BY <1>p, Went DEF Feedback, Mark, Places, Found
<1>2. UNCHANGED doubted /\ At(h) \in {"feedback", "mark"}
  BY DEF Feedback, Mark, ingestionHistory
<1>3. /\ Len(surveys') = Len(surveys)
      /\ \A s \in 1..Len(surveys) : s # t => surveys'[s] = surveys[s]
      /\ At(h) = "feedback" => surveys'[t].feedback <= surveys[t].feedback + 1
      /\ At(h) = "mark" => surveys'[t].feedback = surveys[t].feedback /\ ~surveys'[t].awaiting
  <2>1. /\ [surveys[t] EXCEPT !.awaiting = FALSE] \in SurveyRows
        /\ [surveys[t] EXCEPT !.awaiting = FALSE].conv = surveys[t].conv
        /\ [surveys[t] EXCEPT !.awaiting = FALSE].feedback = surveys[t].feedback
        /\ ~[surveys[t] EXCEPT !.awaiting = FALSE].awaiting
        /\ [surveys[t] EXCEPT !.feedback = @ + 1] \in SurveyRows
        /\ [surveys[t] EXCEPT !.feedback = @ + 1].conv = surveys[t].conv
        /\ [surveys[t] EXCEPT !.feedback = @ + 1].feedback = surveys[t].feedback + 1
    BY <1>0, SurveyRewritten
  <2>2. \/ At(h) = "feedback" /\ surveys' = surveys
        \/ At(h) = "feedback" /\ surveys' = [surveys EXCEPT ![t] = [surveys[t] EXCEPT !.feedback = @ + 1]]
        \/ At(h) = "mark" /\ surveys' = [surveys EXCEPT ![t] = [surveys[t] EXCEPT !.awaiting = FALSE]]
    BY <1>p DEF Feedback, Mark
  <2>3. CASE At(h) = "feedback" /\ surveys' = surveys
    <3>1. surveys[t].feedback \in Nat
      BY <1>0 DEF SurveyRows
    <3> QED  BY <2>3, <3>1
  <2>4. CASE At(h) = "feedback" /\ surveys' = [surveys EXCEPT ![t] = [surveys[t] EXCEPT !.feedback = @ + 1]]
    <3>1. /\ Len(surveys') = Len(surveys) /\ surveys'[t] = [surveys[t] EXCEPT !.feedback = @ + 1]
          /\ \A s \in 1..Len(surveys) : s # t => surveys'[s] = surveys[s]
      BY <1>0, <2>1, <2>4, SurveyWritten
    <3>2. surveys[t].feedback + 1 \in Nat
      BY <1>0 DEF SurveyRows
    <3>3. surveys'[t].feedback <= surveys[t].feedback + 1
      BY <2>1, <3>1, <3>2
    <3> QED  BY <2>4, <3>1, <3>3
  <2>5. CASE At(h) = "mark" /\ surveys' = [surveys EXCEPT ![t] = [surveys[t] EXCEPT !.awaiting = FALSE]]
    <3>1. /\ Len(surveys') = Len(surveys) /\ surveys'[t] = [surveys[t] EXCEPT !.awaiting = FALSE]
          /\ \A s \in 1..Len(surveys) : s # t => surveys'[s] = surveys[s]
      BY <1>0, <2>1, <2>5, SurveyWritten
    <3> QED  BY <2>1, <2>5, <3>1
  <2> QED  BY <2>2, <2>3, <2>4, <2>5
<1>4. \A g \in Handlers, s \in 1..Len(surveys) : Answers(g, s)' => Answers(g, s)
  BY <1>p, <1>1, <1>2 DEF Answers, At, Only
<1>5. \A g \in Handlers, s \in 1..Len(surveys) : s # t => (Marks(g, s)' <=> Marks(g, s))
  BY <1>p, <1>1 DEF Marks, At, Only
<1>6. ASSUME NEW s \in 1..Len(surveys), s \notin doubted, s # t
      PROVE  /\ \A g, k \in Handlers : Answers(g, s)' /\ Answers(k, s)' => g = k
             /\ \A g \in Handlers : At(g)' = "feedback" /\ handler'[g].survey = s => surveys'[s].feedback = 0
             /\ surveys'[s].awaiting /\ surveys'[s].feedback # 0 => \E g \in Handlers : Marks(g, s)'
             /\ surveys'[s].feedback <= 1
  <2>1. surveys'[s] = surveys[s]
    BY <1>3, <1>6
  <2>2. \A g \in Handlers : At(g)' = "feedback" /\ handler'[g].survey = s => At(g) = "feedback" /\ handler[g].survey = s
    BY <1>1, <1>6 DEF At, Only
  <2> QED  BY <1>4, <1>5, <1>6, <2>1, <2>2 DEF AnsweredApart
<1>7. ASSUME t \notin doubted
      PROVE  /\ \A g, k \in Handlers : Answers(g, t)' /\ Answers(k, t)' => g = k
             /\ \A g \in Handlers : At(g)' = "feedback" /\ handler'[g].survey = t => surveys'[t].feedback = 0
             /\ surveys'[t].awaiting /\ surveys'[t].feedback # 0 => \E g \in Handlers : Marks(g, t)'
             /\ surveys'[t].feedback <= 1
  <2>1. \A g \in Handlers : Answers(g, t) => g = h
    BY <1>p, <1>2, <1>7 DEF AnsweredApart, Answers
  <2>2. \A g \in Handlers : ~(At(g)' = "feedback" /\ handler'[g].survey = t)
    BY <1>1, <1>2, <2>1 DEF Answers, At, Only
  <2>3. CASE At(h) = "feedback"
    <3>1. surveys[t].feedback = 0
      BY <1>p, <1>7, <2>3 DEF AnsweredApart
    <3>2. Marks(h, t)'
      BY <1>1, <2>3 DEF Marks, At
    <3>3. surveys'[t].feedback <= 1
      BY <1>3, <2>3, <3>1
    <3> QED  BY <1>0, <1>4, <2>1, <2>2, <3>2, <3>3
  <2>4. CASE At(h) = "mark"
    <3>1. surveys'[t].feedback <= 1
      BY <1>0, <1>3, <1>7, <2>4 DEF AnsweredApart
    <3> QED  BY <1>0, <1>3, <1>4, <2>1, <2>2, <2>4, <3>1
  <2> QED  BY <1>2, <2>3, <2>4
<1> QED  BY <1>2, <1>3, <1>6, <1>7 DEF AnsweredApart

LEMMA HandlerAnswered ==
    ASSUME RowsTyped, Pointers, AnsweredApart, NEW h \in Handlers, HandlerStep(h)
    PROVE  AnsweredApart'
<1>1. ASSUME Only(h), UNCHANGED surveys, doubted \subseteq doubted',
             handler'[h].at \notin {"feedback", "mark"},
             At(h) = "mark" => handler[h].survey \in doubted'
      PROVE  AnsweredApart'
  BY <1>1, AnsweredKept DEF Only
<1>2. CASE CaptureThrows(h)
  <2>1. Only(h) /\ handler'[h].at = "open"
    BY <1>2, Went DEF CaptureThrows, Places, Resolving
  <2> QED  BY <1>1, <1>2, <2>1 DEF CaptureThrows, database
<1>3. CASE FindContact(h) \/ CreateContact(h) \/ FindOpen(h) \/ FindRecentlyClosed(h) \/ BeginConversation(h)
  <2>1. Only(h) /\ handler'[h].at \notin {"feedback", "mark"}
    BY <1>3, FindContactDoes, CreateContactDoes, FindOpenDoes, FindClosedDoes, BeginDoes DEF AfterContact
  <2> QED  BY <1>1, <1>3, <2>1
           DEF FindContact, CreateContact, FindOpen, FindRecentlyClosed, BeginConversation, database, ingestionHistory
<1>4. CASE Reopen(h) \/ StoreMessage(h) \/ UpdateConversation(h) \/ StoreRating(h)
  <2>1. Only(h) /\ handler'[h].at \in {"store", "update", "idle"}
    BY <1>4, Went, Ended DEF Reopen, StoreMessage, UpdateConversation, StoreRating, IdleHandler, Places, Resolving
  <2> QED  BY <1>1, <1>4, <2>1 DEF Reopen, StoreMessage, UpdateConversation, StoreRating, ingestionHistory
<1> QED  BY <1>2, <1>3, <1>4, CaptureAnswered, AnswerGiven DEF HandlerStep

\* A new survey has no answer, and nobody is answering it.
LEMMA SurveyedAnswered ==
    ASSUME RowsTyped, Pointers, AnsweredApart, NEW a \in Closers, AskStore(a)
    PROVE  AnsweredApart'
<1>1. /\ Len(surveys') = Len(surveys) + 1
      /\ surveys'[Len(surveys) + 1] = [conv |-> closer[a].conv, awaiting |-> TRUE, feedback |-> 0]
      /\ \A s \in 1..Len(surveys) : surveys'[s] = surveys[s]
  BY AskStoreDoes
<1>2. UNCHANGED <<handler, doubted>>
  BY DEF AskStore, ingestionHistory
<1>3. PICK n \in Nat : n = Len(surveys)
  BY SequencesIndexed
<1>4. surveys'[n + 1].feedback = 0
  BY <1>1, <1>3
<1>5. \A g \in Handlers : ~Answers(g, n + 1)
  <2>1. \A g \in Handlers : At(g) \in {"feedback", "mark"} => handler[g].survey \in 1..n
    BY <1>3, SequencesIndexed DEF Pointers, HandlerPoints, OfContact
  <2> QED  BY <2>1 DEF Answers
<1>6. \A g \in Handlers, s \in 1..(n + 1) : (Answers(g, s)' <=> Answers(g, s)) /\ (Marks(g, s)' <=> Marks(g, s))
  BY <1>2 DEF Answers, Marks, At
<1>7. \A g \in Handlers, s \in 1..(n + 1) : At(g)' = "feedback" /\ handler'[g].survey = s => Answers(g, s)
  BY <1>2 DEF Answers, At
<1> SUFFICES ASSUME NEW s \in 1..(n + 1), s \notin doubted
             PROVE  /\ \A g, h \in Handlers : Answers(g, s)' /\ Answers(h, s)' => g = h
                    /\ \A h \in Handlers : At(h)' = "feedback" /\ handler'[h].survey = s => surveys'[s].feedback = 0
                    /\ surveys'[s].awaiting /\ surveys'[s].feedback # 0 => \E h \in Handlers : Marks(h, s)'
                    /\ surveys'[s].feedback <= 1
  BY <1>1, <1>2, <1>3 DEF AnsweredApart
<1>8. CASE s = n + 1
  <2>1. \A g \in Handlers : ~Answers(g, s)' /\ ~(At(g)' = "feedback" /\ handler'[g].survey = s)
    BY <1>5, <1>6, <1>7, <1>8
  <2>2. surveys'[s].feedback = 0
    BY <1>4, <1>8
  <2>3. surveys'[s].feedback <= 1
    BY <2>2
  <2> QED  BY <2>1, <2>2, <2>3
<1>9. CASE s \in 1..n
  <2>1. surveys'[s] = surveys[s]
    BY <1>1, <1>3, <1>9
  <2>2. s \in 1..Len(surveys)
    BY <1>3, <1>9
  <2>3. \A g, h \in Handlers : Answers(g, s)' /\ Answers(h, s)' => g = h
    BY <1>6, <2>2 DEF AnsweredApart
  <2>4. \A h \in Handlers : At(h)' = "feedback" /\ handler'[h].survey = s => surveys'[s].feedback = 0
    BY <1>2, <2>1, <2>2 DEF AnsweredApart, At
  <2>5. surveys'[s].awaiting /\ surveys'[s].feedback # 0 => \E h \in Handlers : Marks(h, s)'
    BY <1>6, <2>1, <2>2 DEF AnsweredApart
  <2>6. surveys'[s].feedback <= 1
    BY <2>1, <2>2 DEF AnsweredApart
  <2> QED  BY <2>3, <2>4, <2>5, <2>6
<1> QED  BY <1>3, <1>8, <1>9

LEMMA StepAnswered ==
    ASSUME RowsTyped, Pointers, AnsweredApart, [IngestionNext]_ingestionVars
    PROVE  AnsweredApart'
<1>1. CASE \E h \in Handlers : HandlerStep(h)
  BY <1>1, HandlerAnswered
<1>2. CASE \E a \in Closers : AskStore(a)
  BY <1>2, SurveyedAnswered
<1>3. CASE \/ \E a \in Closers : ReadToClose(a) \/ WriteClosed(a) \/ AskRead(a)
           \/ \E i \in DOMAIN convs : Queue(i) \/ WindowPasses(i)
           \/ UNCHANGED ingestionVars
  <2>1. UNCHANGED <<surveys, handler, doubted>>
    BY <1>3 DEF ReadToClose, WriteClosed, AskRead, Queue, WindowPasses, database, ingestionHistory, ingestionVars
  <2> QED  BY <2>1, AnsweredKept
<1>4. CASE \E h \in Handlers, e \in Events : Receive(h, e)
  <2>1. PICK h \in Handlers, e \in Events : Receive(h, e)
    BY <1>4
  <2>2. UNCHANGED <<surveys, doubted>> /\ At(h) = "idle"
    BY <2>1 DEF Receive, database
  <2>3. UNCHANGED handler \/ (Only(h) /\ handler'[h].at = "find")
    <3>1. CASE handler' = [handler EXCEPT ![h] = [IdleHandler EXCEPT !.at = "find", !.event = e]]
      BY <3>1, Received
    <3> QED  BY <2>1, <3>1 DEF Receive
  <2> QED  BY <2>2, <2>3, AnsweredKept DEF Only
<1>5. CASE IngestionRestart
  <2>1. UNCHANGED surveys /\ doubted \subseteq doubted' /\ \A h \in Handlers : handler'[h].at = "idle"
    BY <1>5 DEF IngestionRestart, database, IdleHandler
  <2>2. \A h \in Handlers : At(h) = "mark" => handler[h].survey \in doubted'
    BY <1>5 DEF IngestionRestart
  <2> QED  BY <2>1, <2>2, AnsweredKept
<1> QED  BY <1>1, <1>2, <1>3, <1>4, <1>5 DEF IngestionNext, CloserStep

-----------------------------------------------------------------------------
(* The surveys of a conversation. *)

Asks(a, i) == closer[a].at = "send" /\ closer[a].conv = i

\* Unless two closings asked at once, one at most is about to send the survey of a
\* conversation, which then has none, and never has two.
AskedApart == \A i \in Nat : i \notin askRaced =>
    /\ \A a, b \in Closers : Asks(a, i) /\ Asks(b, i) => a = b
    /\ \A a \in Closers : Asks(a, i) => \A s \in 1..Len(surveys) : surveys[s].conv # i
    /\ \A s, t \in 1..Len(surveys) : surveys[s].conv = i /\ surveys[t].conv = i => s = t

\* Steps after which nobody new asks, and that send no survey.
LEMMA AskedKept ==
    ASSUME RowsTyped, AskedApart, UNCHANGED askRaced, Len(surveys') = Len(surveys),
           \A s \in 1..Len(surveys) : surveys'[s].conv = surveys[s].conv,
           \A a \in Closers : closer'[a] = closer[a] \/ closer'[a].at # "send"
    PROVE  AskedApart'
<1>1. \A a \in Closers, i \in Nat : Asks(a, i)' => Asks(a, i)
  BY DEF Asks
<1> QED  BY <1>1 DEF AskedApart

LEMMA CloserAsked ==
    ASSUME RowsTyped, Pointers, AskedApart, NEW a \in Closers, CloserStep(a)
    PROVE  AskedApart'
<1>1. CASE ReadToClose(a)
  <2>1. UNCHANGED <<surveys, askRaced>>
    BY <1>1 DEF ReadToClose, database, ingestionHistory
  <2>2. \A b \in Closers : closer'[b] = closer[b] \/ closer'[b].at # "send"
    BY <1>1 DEF ReadToClose, RowsTyped
  <2> QED  BY <2>1, <2>2, AskedKept
<1>2. CASE WriteClosed(a)
  <2>1. UNCHANGED <<surveys, askRaced>>
    BY <1>2 DEF WriteClosed, ingestionHistory
  <2>2. \A b \in Closers : closer'[b] = closer[b] \/ closer'[b].at # "send"
    BY <1>2, CloserWent DEF WriteClosed, Alone
  <2> QED  BY <2>1, <2>2, AskedKept
<1>3. CASE AskRead(a)
  <2>1. PICK c \in Nat : c = closer[a].conv
    BY DEF RowsTyped, CloserRows
  <2>2. /\ UNCHANGED surveys
        /\ askRaced' = askRaced \union {i \in {c} : \E b \in Closers \ {a} : Asks(b, i)}
    BY <1>3, <2>1 DEF AskRead, database, Asks, CloserAt
  <2>3. /\ Alone(a)
        /\ \/ closer'[a].at = "done"
           \/ closer'[a].at = "send" /\ closer'[a].conv = c /\ ~Asked(c)
    BY <1>3, <2>1, CloserWent DEF AskRead
  <2>4. \A b \in Closers, i \in Nat : Asks(b, i)' => Asks(b, i) \/ (b = a /\ i = c /\ ~Asked(c))
    BY <2>3 DEF Asks, Alone
  <2>5. ~Asked(c) => \A s \in 1..Len(surveys) : surveys[s].conv # c
    BY SequencesIndexed DEF Asked
  <2>6. \A b \in Closers : b # a => (Asks(b, c)' <=> Asks(b, c))
    BY <2>3 DEF Asks, Alone
  <2>7. c \notin askRaced' => \A b \in Closers : b # a => ~Asks(b, c)
    BY <2>2
  <2> SUFFICES ASSUME NEW i \in Nat, i \notin askRaced'
               PROVE  /\ \A b, d \in Closers : Asks(b, i)' /\ Asks(d, i)' => b = d
                      /\ \A b \in Closers : Asks(b, i)' => \A s \in 1..Len(surveys) : surveys[s].conv # i
                      /\ \A s, t \in 1..Len(surveys) : surveys[s].conv = i /\ surveys[t].conv = i => s = t
    BY <2>2 DEF AskedApart
  <2>8. i \notin askRaced
    BY <2>2
  <2>9. CASE i = c
    BY <2>4, <2>5, <2>6, <2>7, <2>8, <2>9 DEF AskedApart
  <2>10. CASE i # c
    BY <2>4, <2>8, <2>10 DEF AskedApart
  <2> QED  BY <2>9, <2>10
<1>4. CASE AskStore(a)
  <2>1. PICK c \in Nat : c = closer[a].conv
    BY DEF RowsTyped, CloserRows
  <2>2. PICK n \in Nat : n = Len(surveys)
    BY SequencesIndexed
  <2>3. /\ Len(surveys') = n + 1
        /\ surveys'[n + 1].conv = c
        /\ \A s \in 1..n : surveys'[s] = surveys[s]
    <3>1. /\ Len(surveys') = Len(surveys) + 1
          /\ surveys'[Len(surveys) + 1] = [conv |-> closer[a].conv, awaiting |-> TRUE, feedback |-> 0]
          /\ \A s \in 1..Len(surveys) : surveys'[s] = surveys[s]
      BY <1>4, AskStoreDoes
    <3> QED  BY <2>1, <2>2, <3>1
  <2>4. Alone(a) /\ closer'[a].at = "done" /\ Asks(a, c) /\ UNCHANGED askRaced
    BY <1>4, <2>1, CloserWent DEF AskStore, CloserAt, Asks, ingestionHistory
  <2>5. \A b \in Closers, i \in Nat : Asks(b, i)' => Asks(b, i) /\ b # a
    BY <2>4 DEF Asks, Alone
  <2> SUFFICES ASSUME NEW i \in Nat, i \notin askRaced
               PROVE  /\ \A b, d \in Closers : Asks(b, i)' /\ Asks(d, i)' => b = d
                      /\ \A b \in Closers : Asks(b, i)' => \A s \in 1..(n + 1) : surveys'[s].conv # i
                      /\ \A s, t \in 1..(n + 1) : surveys'[s].conv = i /\ surveys'[t].conv = i => s = t
    BY <2>3, <2>4 DEF AskedApart
  <2>6. \A s \in 1..(n + 1) : s = n + 1 \/ (s \in 1..n /\ surveys'[s] = surveys[s])
    BY <2>3
  <2>7. CASE i = c
    <3>1. /\ \A b \in Closers : Asks(b, c) => b = a
          /\ \A s \in 1..n : surveys[s].conv # c
      BY <2>2, <2>4, <2>7 DEF AskedApart
    <3>2. \A b \in Closers : ~Asks(b, c)'
      BY <2>5, <3>1
    <3>3. \A s \in 1..(n + 1) : surveys'[s].conv = c => s = n + 1
      BY <2>6, <3>1
    <3> QED  BY <2>7, <3>2, <3>3
  <2>8. CASE i # c
    <3>1. \A s \in 1..(n + 1) : surveys'[s].conv = i => s \in 1..n /\ surveys[s].conv = i
      BY <2>3, <2>6, <2>8
    <3> QED  BY <2>2, <2>5, <3>1 DEF AskedApart
  <2> QED  BY <2>7, <2>8
<1> QED  BY <1>1, <1>2, <1>3, <1>4 DEF CloserStep

LEMMA StepAsked ==
    ASSUME RowsTyped, Pointers, AskedApart, [IngestionNext]_ingestionVars
    PROVE  AskedApart'
<1>1. CASE \E a \in Closers : CloserStep(a)
  BY <1>1, CloserAsked
<1>2. CASE ~\E a \in Closers : CloserStep(a)
  <2>1. UNCHANGED askRaced
    BY <1>2 DEF IngestionNext, Receive, HandlerStep, FindContact, CreateContact, Capture, Feedback, Mark, StoreRating,
           CaptureThrows, FindOpen, FindRecentlyClosed, Reopen, BeginConversation, StoreMessage, UpdateConversation,
           Queue, WindowPasses, IngestionRestart, ingestionHistory, ingestionVars
  <2>2. \A a \in Closers : closer'[a] = closer[a] \/ closer'[a].at # "send"
    <3>1. CASE IngestionRestart
      BY <3>1 DEF IngestionRestart
    <3>2. CASE ~IngestionRestart
      <4>1. UNCHANGED closer
        BY <1>2, <3>2
           DEF IngestionNext, Receive, HandlerStep, FindContact, CreateContact, Capture, Feedback, Mark, StoreRating,
               CaptureThrows, FindOpen, FindRecentlyClosed, Reopen, BeginConversation, StoreMessage,
               UpdateConversation, Queue, WindowPasses, ingestionVars
      <4> QED  BY <4>1
    <3> QED  BY <3>1, <3>2
  <2>3. Len(surveys') = Len(surveys) /\ \A s \in 1..Len(surveys) : surveys'[s].conv = surveys[s].conv
    <3>1. CASE \E h \in Handlers : Feedback(h) \/ Mark(h)
      BY <3>1, AnswerKeepsConv
    <3>2. CASE ~\E h \in Handlers : Feedback(h) \/ Mark(h)
      <4>1. UNCHANGED surveys
        BY <1>2, <3>2 DEF IngestionNext, Receive, HandlerStep, FindContact, CreateContact, Capture, StoreRating,
               CaptureThrows, FindOpen, FindRecentlyClosed, Reopen, BeginConversation, StoreMessage,
               UpdateConversation, Queue, WindowPasses, IngestionRestart, database, ingestionVars
      <4> QED  BY <4>1
    <3> QED  BY <3>1, <3>2
  <2> QED  BY <2>1, <2>2, <2>3, AskedKept
<1> QED  BY <1>1, <1>2

-----------------------------------------------------------------------------
(* The invariant and what follows from it. *)

IngestionInv ==
    /\ RowsTyped /\ Pointers
    /\ StoringApart /\ OneCustomer /\ OneConversation /\ AnsweredApart /\ AskedApart

LEMMA IngestionStarts == IngestionInit => IngestionInv
<1> SUFFICES ASSUME IngestionInit PROVE IngestionInv
  OBVIOUS
<1>1. /\ surveys = <<>> /\ messages = [e \in Events |-> <<>>]
      /\ handler = [h \in Handlers |-> IdleHandler]
      /\ closer = [a \in Closers |-> [at |-> "idle", conv |-> 0]] /\ raced = FALSE
  BY DEF IngestionInit
<1>2. \/ contacts = 0 /\ convs = <<>>
      \/ contacts = 1 /\ convs = <<[contact |-> 1, status |-> "OPEN", recent |-> FALSE]>>
  BY DEF IngestionInit
<1>3. /\ contacts \in {0, 1} /\ convs \in Seq(ConvRows)
      /\ \A i \in 1..Len(convs) : i = 1 /\ convs[i].contact = 1
  <2>1. CASE contacts = 0 /\ convs = <<>>
    BY <2>1
  <2>2. CASE contacts = 1 /\ convs = <<[contact |-> 1, status |-> "OPEN", recent |-> FALSE]>>
    <3> DEFINE row == [contact |-> 1, status |-> "OPEN", recent |-> FALSE]
    <3>1. row \in ConvRows /\ row.contact = 1
      BY DEF ConvRows, Statuses
    <3>2. convs = <<row>>
      BY <2>2
    <3> HIDE DEF row
    <3>3. convs \in Seq(ConvRows) /\ Len(convs) = 1 /\ convs[1] = row
      BY <3>1, <3>2
    <3>4. \A i \in 1..1 : i = 1
      OBVIOUS
    <3> QED  BY <2>2, <3>1, <3>3, <3>4
  <2> QED  BY <1>2, <2>1, <2>2
<1>4. Len(surveys) = 0
  BY <1>1
<1>5. \A h \in Handlers : At(h) = "idle"
  BY <1>1 DEF At, IdleHandler
<1>6. RowsTyped
  <2>1. IdleHandler \in HandlerRows /\ [at |-> "idle", conv |-> 0] \in CloserRows
    BY DEF IdleHandler, HandlerRows, CloserRows, Places
  <2>2. handler \in [Handlers -> HandlerRows]
    BY <1>1, <2>1
  <2>3. closer \in [Closers -> CloserRows]
    BY <1>1, <2>1
  <2>4. messages \in [Events -> Seq(Nat)] /\ surveys \in Seq(SurveyRows)
    BY <1>1
  <2>5. contacts \in Nat
    BY <1>3
  <2>7. raced \in BOOLEAN
    <3>1. raced = FALSE
      BY DEF IngestionInit
    <3> QED  BY <3>1
  <2>6. convs \in Seq(ConvRows)
    BY <1>3
  <2> QED  BY <2>2, <2>3, <2>4, <2>5, <2>6, <2>7 DEF RowsTyped
<1>7. Pointers
  BY <1>1, <1>4, <1>5 DEF Pointers, HandlerPoints, CloserPoints
<1>8. StoringApart
  <2>1. \A e \in Events : Len(messages[e]) <= 1
    BY <1>1
  <2> QED  BY <1>5, <2>1 DEF StoringApart, Takes
<1>9. OneCustomer
  BY <1>3, <1>5 DEF OneCustomer
<1>10. OneConversation
  <2>1. \A i, j \in 1..Len(convs) : i = j
    BY <1>3
  <2> QED  BY <1>5, <2>1 DEF OneConversation, Deciding, Resolving
<1>11. AnsweredApart
  BY <1>4 DEF AnsweredApart
<1>12. AskedApart
  BY <1>1, <1>4 DEF AskedApart, Asks
<1> QED  BY <1>6, <1>7, <1>8, <1>9, <1>10, <1>11, <1>12 DEF IngestionInv

LEMMA IngestionStep == IngestionInv /\ [IngestionNext]_ingestionVars => IngestionInv'
<1> SUFFICES ASSUME IngestionInv, [IngestionNext]_ingestionVars PROVE IngestionInv'
  OBVIOUS
<1>0. RowsTyped /\ Pointers /\ StoringApart /\ OneCustomer /\ OneConversation /\ AnsweredApart /\ AskedApart
  BY DEF IngestionInv
<1>1. RowsTyped' /\ Pointers'
  BY <1>0, HandlerTyped, CloserTyped, OtherTyped DEF IngestionNext
<1> QED  BY <1>0, <1>1, StepApart, StepCustomer, StepConversation, StepAnswered, StepAsked DEF IngestionInv

LEMMA IngestionAlways == IngestionSpec => []IngestionInv
BY IngestionStarts, IngestionStep, PTL DEF IngestionSpec

\* For any handlers and deliveries: an event is stored once, wherever its message went,
\* unless two of its deliveries overlapped.
THEOREM StoredOnceAlone == IngestionSpec => []StoredOnce
<1>1. IngestionInv => StoredOnce
  BY DEF IngestionInv, StoringApart, StoredOnce
<1> QED  BY <1>1, IngestionAlways, PTL

\* The members of a set with no two members are at most one.
LEMMA AtMostOne ==
    ASSUME NEW S, \A x, y \in S : x = y
    PROVE  Cardinality(S) <= 1
<1>1. CASE S = {}
  BY <1>1, FS_EmptySet
<1>2. CASE S # {}
  <2>1. PICK x \in S : TRUE
    BY <1>2
  <2>2. S = {x}
    BY <2>1
  <2> QED  BY <2>2, FS_Singleton
<1> QED  BY <1>1, <1>2

\* A phone number keeps one contact and at most one conversation that is not closed,
\* unless two of its messages looked for them at once.
THEOREM OneThreadAlone == IngestionSpec => []OneThread
<1>1. ASSUME IngestionInv, ~raced
      PROVE  contacts <= 1 /\ Cardinality({i \in DOMAIN convs : convs[i].status # "CLOSED"}) <= 1
  <2>1. contacts <= 1
    BY <1>1 DEF IngestionInv, OneCustomer
  <2>2. \A i, j \in {k \in DOMAIN convs : convs[k].status # "CLOSED"} : i = j
    BY <1>1, SequencesIndexed DEF IngestionInv, OneConversation
  <2> QED  BY <2>1, <2>2, AtMostOne
<1>2. IngestionInv => OneThread
  BY <1>1 DEF OneThread
<1> QED  BY <1>2, IngestionAlways, PTL

\* A survey is answered once, unless two ratings read it at once or an answer was cut.
THEOREM AnsweredOnceAlone == IngestionSpec => []FeedbackOnce
<1>1. IngestionInv => FeedbackOnce
  BY SequencesIndexed DEF IngestionInv, AnsweredApart, FeedbackOnce
<1> QED  BY <1>1, IngestionAlways, PTL

\* A conversation is asked once, however often it is closed and reopened, unless two
\* closings asked at once.
THEOREM SurveyedOnceAlone == IngestionSpec => []SurveyedOnce
<1>1. ASSUME IngestionInv, NEW i \in DOMAIN convs \ askRaced
      PROVE  Cardinality({s \in DOMAIN surveys : surveys[s].conv = i}) <= 1
  <2>1. i \in Nat
    BY <1>1, SequencesIndexed DEF IngestionInv
  <2>2. \A s, t \in {u \in DOMAIN surveys : surveys[u].conv = i} : s = t
    BY <1>1, <2>1, SequencesIndexed DEF IngestionInv, AskedApart
  <2> QED  BY <2>2, AtMostOne
<1>2. IngestionInv => SurveyedOnce
  BY <1>1 DEF SurveyedOnce
<1> QED  BY <1>2, IngestionAlways, PTL
=============================================================================

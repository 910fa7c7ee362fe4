---------------------------- MODULE CompanyProofs ----------------------------
(***************************************************************************)
(* Proofs about what happens inside one company: its team, its             *)
(* subscription and the documents of its knowledge base, each for any      *)
(* value of its constants.                                                 *)
(*                                                                         *)
(* Team.  A change keeps an administrator, for any people, requests and    *)
(* invitations in flight.  The invariant says what a request that is about *)
(* to write has counted.                                                   *)
(*                                                                         *)
(* Subscription.  The due date is on the day of the contract because every *)
(* write puts both in the row together, as long as none of them is based   *)
(* on a row that is no longer there; the invariant adds that a contract    *)
(* without a day has no due date either.                                   *)
(*                                                                         *)
(* Knowledge base.  Whoever indexes a document undisturbed leaves it with  *)
(* its index.  What the last step relies on is what the writer's own       *)
(* earlier steps did and nobody has touched since, so the invariant says   *)
(* for each place of a writer that is alone what the chunks are there.     *)
(***************************************************************************)
EXTENDS MCCompany, TLAPS

-----------------------------------------------------------------------------
(***************************************************************************)
(* The team                                                                *)
(***************************************************************************)
\* The types, without the bound of the model on the ids.
AnyRow == [id : Nat, role : Roles, suspended : BOOLEAN, isActive : BOOLEAN]
AnyAction == [at : Places, who : People \union {NoPerson}, role : Roles, row : AnyRow,
              others : SUBSET People, of : Invites \union {NoInvite}]
InviteRow == [status : {"none", "pending", "accepted", "revoked"},
              who : People \union {NoPerson}, role : Roles]

TeamTyped ==
    /\ membership \in [People -> AnyRow] /\ action \in [Actions -> AnyAction]
    /\ invite \in [Invites -> InviteRow]
    /\ removals \in Nat

\* A request that may take the last administrator away has counted another one.
Counted(a) ==
    action[a].row.role = "ADMIN" =>
        /\ action[a].at = "write-role" => action[a].role = "ADMIN" \/ action[a].others # {}
        /\ action[a].at = "write-suspend" => action[a].others # {}
        /\ action[a].at = "write-remove" =>
              action[a].row.suspended \/ ~action[a].row.isActive \/ action[a].others # {}

TeamInv == TeamTyped /\ \A a \in Actions : Counted(a)

Writes == {"write-role", "write-suspend", "write-remove"}

-----------------------------------------------------------------------------
LEMMA RowsAreTyped ==
    NoRow \in AnyRow /\ IdleAction \in AnyAction
BY DEF NoRow, IdleAction, AnyRow, AnyAction, Roles, Places

LEMMA TeamInitInv == TeamInit => TeamInv
<1> SUFFICES ASSUME TeamInit PROVE TeamInv
  OBVIOUS
<1>1. membership \in [People -> AnyRow]
  BY RowsAreTyped DEF TeamInit, AnyRow, Roles
<1>2. action \in [Actions -> AnyAction] /\ invite \in [Invites -> InviteRow] /\ removals \in Nat
  BY RowsAreTyped DEF TeamInit, InviteRow, Roles
<1>3. \A a \in Actions : Counted(a)
  BY DEF TeamInit, Counted, IdleAction
<1> QED  BY <1>1, <1>2, <1>3 DEF TeamInv, TeamTyped

\* A step of one request: what the others have read stays.
LEMMA OneAction ==
    ASSUME TeamInv, NEW a \in Actions, NEW row \in AnyAction,
           action' = [action EXCEPT ![a] = row],
           row.at \notin Writes
    PROVE  /\ action' \in [Actions -> AnyAction] /\ \A b \in Actions : Counted(b)'
           /\ \A b \in Actions \ {a} : action'[b] = action[b]
BY DEF TeamInv, TeamTyped, Counted, Writes

\* A request that reads something new begins; only an idle one does.
LEMMA TeamReads ==
    ASSUME TeamInv, NEW a \in Actions, NEW p \in People,
           ReadMember(a, p) \/ ReadNewcomer(a, p) \/ CountSeats(a, p)
    PROVE  /\ TeamInv' /\ action[a].at = "idle"
           /\ \A b \in Actions \ {a} : action'[b] = action[b]
<1>0. TeamTyped  BY DEF TeamInv
<1>1. PICK row \in AnyAction : Begin(a, row) /\ row.at \notin Writes
  <2>1. CASE ReadMember(a, p)
    <3>1. PICK what \in {"role", "suspend", "activate", "remove"}, role \in Roles :
              Begin(a, [IdleAction EXCEPT !.at = what, !.who = p, !.role = role,
                                          !.row = membership[p]])
      BY <2>1 DEF ReadMember
    <3>2. [IdleAction EXCEPT !.at = what, !.who = p, !.role = role, !.row = membership[p]]
              \in AnyAction
      BY <1>0, RowsAreTyped DEF TeamTyped, AnyAction, Places
    <3>3. [IdleAction EXCEPT !.at = what, !.who = p, !.role = role, !.row = membership[p]].at
              \notin Writes
      BY DEF IdleAction, Writes
    <3> QED  BY <3>1, <3>2, <3>3
  <2>2. CASE ReadNewcomer(a, p)
    <3>1. PICK role \in Roles :
            IF ~Member(p)
            THEN Begin(a, [IdleAction EXCEPT !.at = "create", !.who = p, !.role = role])
            ELSE /\ membership[p].suspended \/ ~membership[p].isActive
                 /\ \E kept \in {role, membership[p].role} :
                       Begin(a, [IdleAction EXCEPT !.at = "rejoin", !.who = p, !.role = kept,
                                                   !.row = membership[p]])
      BY <2>2 DEF ReadNewcomer
    <3>2. CASE ~Member(p)
      <4> DEFINE row == [IdleAction EXCEPT !.at = "create", !.who = p, !.role = role]
      <4>1. row \in AnyAction /\ row.at = "create"
        BY RowsAreTyped DEF AnyAction, Places
      <4>2. Begin(a, row)  BY <3>1, <3>2
      <4> HIDE DEF row
      <4> QED  BY <4>1, <4>2 DEF Writes
    <3>3. CASE Member(p)
      <4>1. PICK kept \in {role, membership[p].role} :
              Begin(a, [IdleAction EXCEPT !.at = "rejoin", !.who = p, !.role = kept,
                                          !.row = membership[p]])
        BY <3>1, <3>3
      <4>2. kept \in Roles /\ membership[p] \in AnyRow
        BY <1>0 DEF TeamTyped, AnyRow
      <4> DEFINE row == [IdleAction EXCEPT !.at = "rejoin", !.who = p, !.role = kept,
                                           !.row = membership[p]]
      <4>3. row \in AnyAction /\ row.at = "rejoin"
        BY <4>2, RowsAreTyped DEF AnyAction, Places
      <4>4. Begin(a, row)  BY <4>1
      <4> HIDE DEF row
      <4> QED  BY <4>3, <4>4 DEF Writes
    <3> QED  BY <3>2, <3>3
  <2>3. CASE CountSeats(a, p)
    <3>1. PICK i \in Invites, role \in Roles :
            Begin(a, [IdleAction EXCEPT !.at = "member", !.who = p, !.role = role, !.of = i])
      BY <2>3 DEF CountSeats
    <3> DEFINE row == [IdleAction EXCEPT !.at = "member", !.who = p, !.role = role, !.of = i]
    <3>2. row \in AnyAction /\ row.at = "member"
      BY RowsAreTyped DEF AnyAction, Places
    <3>3. Begin(a, row)  BY <3>1
    <3> HIDE DEF row
    <3> QED  BY <3>2, <3>3 DEF Writes
  <2> QED  BY <2>1, <2>2, <2>3
<1>2. UNCHANGED <<membership, removals, invite>>
  BY DEF ReadMember, ReadNewcomer, CountSeats
<1> QED  BY <1>0, <1>1, <1>2, OneAction DEF Begin, TeamInv, TeamTyped

LEMMA ReadsInvite ==
    ASSUME TeamInv, NEW a \in Actions, NEW i \in Invites,
           NEW what \in {"withdraw", "accept", "upsert"}, ReadInvite(a, i, what)
    PROVE  /\ TeamInv' /\ action[a].at = "idle"
           /\ \A b \in Actions \ {a} : action'[b] = action[b]
<1> DEFINE row == [IdleAction EXCEPT !.at = what, !.who = invite[i].who,
                                     !.role = invite[i].role, !.of = i]
<1>0. TeamTyped  BY DEF TeamInv
<1>1. invite[i].who \in People \union {NoPerson} /\ invite[i].role \in Roles
  BY <1>0 DEF TeamTyped, InviteRow
<1>2. row \in AnyAction /\ row.at = what
  BY <1>1, RowsAreTyped DEF AnyAction, Places
<1>3. Begin(a, row) /\ UNCHANGED <<membership, removals, invite>>
  BY DEF ReadInvite
<1> HIDE DEF row
<1>4. what \notin Writes  BY DEF Writes
<1> QED  BY <1>0, <1>2, <1>3, <1>4, OneAction DEF Begin, TeamInv, TeamTyped

\* The count: what goes on to write has counted.
LEMMA Counts ==
    ASSUME TeamInv, NEW a \in Actions, CountAdmins(a)
    PROVE  /\ TeamInv' /\ action[a].at \notin Writes
           /\ \A b \in Actions \ {a} : action'[b] = action[b]
<1> DEFINE others == Admins \ {action[a].who}
           row == [action[a] EXCEPT !.at = Write(a), !.others = others]
<1>0. TeamTyped /\ action[a] \in AnyAction  BY DEF TeamInv, TeamTyped
<1>1. UNCHANGED <<membership, removals, invite>> /\ action[a].at \notin Writes
  BY DEF CountAdmins, Writes
<1>2. CASE MustCount(a) /\ others = {}
  <2>1. action' = [action EXCEPT ![a] = IdleAction]
    BY <1>2 DEF CountAdmins, Answer, Proceed
  <2>2. IdleAction.at \notin Writes  BY DEF IdleAction, Writes
  <2> QED  BY <1>0, <1>1, <2>1, <2>2, RowsAreTyped, OneAction DEF TeamInv, TeamTyped
<1>3. CASE ~(MustCount(a) /\ others = {})
  <2>1. action' = [action EXCEPT ![a] = row]
    BY <1>3 DEF CountAdmins, Proceed
  <2>2. others \in SUBSET People /\ Write(a) \in Places
    BY DEF Admins, Write, Places
  <2>3. /\ row \in AnyAction /\ row.at = Write(a) /\ row.others = others
        /\ row.row = action[a].row /\ row.role = action[a].role
    BY <1>0, <2>2 DEF AnyAction
  <2> HIDE DEF row
  <2>4. action' \in [Actions -> AnyAction] /\ action'[a] = row
        /\ \A b \in Actions \ {a} : action'[b] = action[b]
    BY <1>0, <2>1, <2>3 DEF TeamTyped
  <2>5. Counted(a)'
    <3>1. CASE action[a].at = "role"
      BY <1>3, <2>3, <2>4, <3>1 DEF Counted, MustCount, Write
    <3>2. CASE action[a].at = "suspend"
      BY <1>3, <2>3, <2>4, <3>2 DEF Counted, MustCount, Write
    <3>3. CASE action[a].at = "remove"
      BY <1>3, <2>3, <2>4, <3>3 DEF Counted, MustCount, Write
    <3> QED  BY <3>1, <3>2, <3>3 DEF CountAdmins
  <2>6. \A b \in Actions : Counted(b)'
    BY <2>4, <2>5 DEF TeamInv, Counted
  <2> QED  BY <1>0, <1>1, <2>4, <2>6 DEF TeamInv, TeamTyped
<1> QED  BY <1>2, <1>3

\* What a step writes for a person is a row.
LEMMA Updated ==
    ASSUME TeamInv, NEW a \in Actions, NEW row, action[a].who \in People => row \in AnyRow,
           Update(a, row)
    PROVE  /\ membership' \in [People -> AnyRow]
           /\ action' \in [Actions -> AnyAction] /\ \A b \in Actions : Counted(b)'
           /\ \A b \in Actions \ {a} : action'[b] = action[b]
<1>1. membership' \in [People -> AnyRow]
  BY DEF Update, TeamInv, TeamTyped
<1>2. action' = [action EXCEPT ![a] = IdleAction]
  BY DEF Update, Answer, Proceed
<1>3. IdleAction.at \notin Writes  BY DEF IdleAction, Writes
<1> QED  BY <1>1, <1>2, <1>3, RowsAreTyped, OneAction


\* The steps that end a request or take it to its next place.
LEMMA Moves ==
    ASSUME TeamInv, NEW a \in Actions, NEW place \in Places \ Writes,
           Step(a, place) \/ Answer(a)
    PROVE  /\ action' \in [Actions -> AnyAction] /\ \A b \in Actions : Counted(b)'
           /\ \A b \in Actions \ {a} : action'[b] = action[b]
<1>1. CASE Answer(a)
  <2>1. IdleAction.at \notin Writes  BY DEF IdleAction, Writes
  <2> QED  BY <1>1, <2>1, RowsAreTyped, OneAction DEF Answer, Proceed
<1>2. CASE Step(a, place)
  <2> DEFINE row == [action[a] EXCEPT !.at = place]
  <2>1. row \in AnyAction /\ row.at = place
    BY DEF TeamInv, TeamTyped, AnyAction
  <2>2. action' = [action EXCEPT ![a] = row]
    BY <1>2 DEF Step, Proceed
  <2> HIDE DEF row
  <2> QED  BY <2>1, <2>2, OneAction
<1> QED  BY <1>1, <1>2

LEMMA StepKeeps ==
    ASSUME TeamInv, NEW a \in Actions, TeamStep(a)
    PROVE  TeamInv' /\ \A b \in Actions \ {a} : action'[b] = action[b]
<1> DEFINE who == action[a].who
<1>0. TeamTyped /\ action[a] \in AnyAction /\ action[a].role \in Roles
      /\ (who \in People => membership[who] \in AnyRow)
  BY DEF TeamInv, TeamTyped, AnyAction
<1>1. CASE CountAdmins(a)
  BY <1>1, Counts
<1>2. CASE WriteRole(a) \/ WriteSuspended(a) \/ WriteActive(a) \/ Rejoin(a) \/ WriteRemoved(a)
  <2>1. PICK row \in {[membership[who] EXCEPT !.role = action[a].role],
                      [membership[who] EXCEPT !.suspended = TRUE, !.isActive = FALSE],
                      [membership[who] EXCEPT !.suspended = FALSE, !.isActive = TRUE],
                      [membership[who] EXCEPT !.suspended = FALSE, !.isActive = TRUE,
                                              !.role = action[a].role],
                      NoRow} : Update(a, row)
    BY <1>2 DEF WriteRole, WriteSuspended, WriteActive, Rejoin, WriteRemoved
  <2>2. who \in People => row \in AnyRow
    BY <1>0, RowsAreTyped DEF AnyRow
  <2>3. invite' = invite /\ removals' \in Nat
    BY <1>0, <1>2 DEF WriteRole, WriteSuspended, WriteActive, Rejoin, WriteRemoved, TeamTyped
  <2> QED  BY <1>0, <2>1, <2>2, <2>3, Updated DEF TeamInv, TeamTyped
<1>3. NewRow(action[a].role) \in AnyRow
  BY <1>0 DEF NewRow, AnyRow, TeamTyped
<1>4. CASE CreateMember(a)
  <2>1. membership' \in [People -> AnyRow]
    BY <1>0, <1>3, <1>4 DEF CreateMember, TeamTyped
  <2>2. "idle" \in Places \ Writes  BY DEF Places, Writes
  <2> QED  BY <1>0, <1>4, <2>1, <2>2, Moves DEF CreateMember, TeamInv, TeamTyped
<1>5. CASE CheckInvited(a) \/ RevokeEarlier(a) \/ CreateInvite(a) \/ Withdraw(a) \/ GatewayMark(a)
  <2>1. PICK place \in {"revoke", "invite", "idle"} : Step(a, place) \/ Answer(a)
    BY <1>5 DEF CheckInvited, RevokeEarlier, CreateInvite, Withdraw, GatewayMark
  <2>2. place \in Places \ Writes  BY DEF Places, Writes
  <2>3. invite' \in [Invites -> InviteRow]
    <3>1. CASE CheckInvited(a)
      BY <1>0, <3>1 DEF CheckInvited, TeamTyped
    <3>2. CASE RevokeEarlier(a)
      BY <1>0, <3>2 DEF RevokeEarlier, TeamTyped, InviteRow
    <3>3. CASE CreateInvite(a)
      <4>1. [status |-> "pending", who |-> who, role |-> action[a].role] \in InviteRow
        BY <1>0 DEF InviteRow, AnyAction
      <4> QED  BY <1>0, <3>3, <4>1 DEF CreateInvite, TeamTyped
    <3>4. CASE Withdraw(a) \/ GatewayMark(a)
      BY <1>0, <3>4 DEF Withdraw, GatewayMark, TeamTyped, InviteRow
    <3> QED  BY <1>5, <3>1, <3>2, <3>3, <3>4
  <2>4. UNCHANGED <<membership, removals>>
    BY <1>5 DEF CheckInvited, RevokeEarlier, CreateInvite, Withdraw, GatewayMark
  <2> QED  BY <1>0, <2>1, <2>2, <2>3, <2>4, Moves DEF TeamInv, TeamTyped
<1>6. CASE AcceptInvite(a) \/ GatewayUpsert(a)
  <2>1. PICK place \in {"mark", "idle"} : Step(a, place) \/ Answer(a)
    BY <1>6 DEF AcceptInvite, GatewayUpsert
  <2>2. place \in Places \ Writes  BY DEF Places, Writes
  <2>3. membership' \in [People -> AnyRow]
    <3>1. who \in People =>
             [membership[who] EXCEPT !.role = action[a].role, !.isActive = TRUE] \in AnyRow
      BY <1>0 DEF AnyRow
    <3>2. membership' = Accepted(a)
      BY <1>6 DEF AcceptInvite, GatewayUpsert
    <3> QED  BY <1>0, <1>3, <3>1, <3>2 DEF Accepted, TeamTyped
  <2>4. invite' \in [Invites -> InviteRow] /\ removals' = removals
    BY <1>0, <1>6 DEF AcceptInvite, GatewayUpsert, TeamTyped, InviteRow
  <2> QED  BY <1>0, <2>1, <2>2, <2>3, <2>4, Moves DEF TeamInv, TeamTyped
<1> QED  BY <1>1, <1>2, <1>4, <1>5, <1>6 DEF TeamStep

LEMMA TeamStepInv == TeamInv /\ [TeamNext]_teamVars => TeamInv'
<1> SUFFICES ASSUME TeamInv, [TeamNext]_teamVars PROVE TeamInv'
  OBVIOUS
<1>1. CASE UNCHANGED teamVars
  BY <1>1 DEF teamVars, TeamInv, TeamTyped, Counted
<1> QED  BY <1>1, TeamReads, ReadsInvite, StepKeeps DEF TeamNext

-----------------------------------------------------------------------------
\* Whoever else is an administrator stays one when a member's own row is written; and
\* without anybody else the request would have been refused.
LEMMA WriteKeepsAdmin ==
    ASSUME TeamInv, NEW a \in Actions, Undisturbed(a), Admins # {},
           WriteRole(a) \/ WriteSuspended(a) \/ WriteRemoved(a)
    PROVE  Admins' # {}
<1> DEFINE who == action[a].who
<1>0. TeamTyped /\ Counted(a) /\ action[a] \in AnyAction
  BY DEF TeamInv, TeamTyped
<1>1. CASE action[a].others # {}
  <2>1. PICK x \in People : x \in Admins /\ x # who
    BY <1>1 DEF Undisturbed, Admins
  <2>2. membership'[x] = membership[x]
    BY <1>0, <2>1 DEF WriteRole, WriteSuspended, WriteRemoved, Update, TeamTyped
  <2> QED  BY <2>1, <2>2 DEF Admins
<1>2. CASE action[a].others = {}
  <2>1. who \in Admins /\ action[a].row = membership[who]
    BY <1>2 DEF Undisturbed
  <2>2. WriteRole(a) /\ action[a].role = "ADMIN"
    BY <1>0, <1>2, <2>1 DEF Counted, Admins, WriteRole, WriteSuspended, WriteRemoved
  <2>3. membership'[who] = [membership[who] EXCEPT !.role = "ADMIN"]
    BY <1>0, <2>1, <2>2 DEF WriteRole, Update, SameRow, TeamTyped, Admins
  <2>4. membership[who] \in AnyRow
    BY <1>0, <2>1 DEF TeamTyped, Admins
  <2>5. who \in Admins'
    BY <2>1, <2>3, <2>4 DEF Admins, AnyRow
  <2> QED  BY <2>5
<1> QED  BY <1>1, <1>2

\* For any number of administrators, requests and invitations, no change of role,
\* suspension or removal leaves the company without an active administrator, unless the
\* rows it counted changed under it (memberships.ts:177, 238 and 300).
THEOREM LastAdminStays == TeamSpec => LastAdminGuarded
<1>1. TeamInv /\ [TeamNext]_teamVars
         => [\A a \in Actions :
               /\ action[a].at \in {"write-role", "write-suspend", "write-remove"}
               /\ action'[a] # action[a]
               /\ Undisturbed(a) /\ Admins # {}
               => Admins' # {}]_teamVars
  <2> SUFFICES ASSUME TeamInv, [TeamNext]_teamVars, NEW a \in Actions,
                      action[a].at \in Writes, action'[a] # action[a],
                      Undisturbed(a), Admins # {}
               PROVE  Admins' # {}
    BY DEF Writes
  <2>1. TeamStep(a)
    <3>1. ASSUME NEW b \in Actions, NEW p \in People,
                 ReadMember(b, p) \/ ReadNewcomer(b, p) \/ CountSeats(b, p)
          PROVE  FALSE
      <4>1. b # a  BY <3>1, TeamReads DEF Writes
      <4> QED  BY <3>1, <4>1, TeamReads
    <3>2. ASSUME NEW b \in Actions, NEW i \in Invites,
                 NEW what \in {"withdraw", "accept", "upsert"}, ReadInvite(b, i, what)
          PROVE  FALSE
      <4>1. b # a  BY <3>2, ReadsInvite DEF Writes
      <4> QED  BY <3>2, <4>1, ReadsInvite
    <3>3. ASSUME NEW b \in Actions, TeamStep(b) PROVE b = a
      BY <3>3, StepKeeps
    <3>4. ~UNCHANGED teamVars  BY DEF teamVars
    <3> QED  BY <3>1, <3>2, <3>3, <3>4 DEF TeamNext
  <2>2. WriteRole(a) \/ WriteSuspended(a) \/ WriteRemoved(a)
    BY <2>1 DEF TeamStep, Writes, CountAdmins, WriteActive, Rejoin, CreateMember, CheckInvited,
                RevokeEarlier, CreateInvite, Withdraw, AcceptInvite, GatewayUpsert, GatewayMark
  <2> QED  BY <2>2, WriteKeepsAdmin
<1>2. TeamSpec => []TeamInv
  BY TeamInitInv, TeamStepInv, PTL DEF TeamSpec
<1> QED  BY <1>1, <1>2, PTL DEF TeamSpec, LastAdminGuarded

-----------------------------------------------------------------------------
(***************************************************************************)
(* The knowledge base                                                      *)
(***************************************************************************)
\* What a writer is and carries, by its place: jobs mark, finish and fail; whoever deletes,
\* creates, finishes, clears or puts has a content.
PlaceOf(at, op, text) ==
    /\ at \in {"mark", "finish", "fail"} => op = "job"
    /\ at \in {"mark", "delete", "create", "finish", "clear", "put"} => text \in Texts

\* The document as a writer that is alone has left it so far.
LeftBehind(at, text, exists, bag) ==
    /\ at # "idle" => exists
    /\ at \in {"create", "put"} => bag = NoChunks
    /\ at = "finish" => bag = Once(text)

WriterPlaces == {"idle", "mark", "delete", "create", "finish", "fail", "update", "clear", "put", "requeue"}
Operations == {"job", "patch", "replace", "import", "reprocess"}
DocStatuses == {"queued", "processing", "ready", "failed", "draft", "archived"}
Stamps == {"never", "recent", "old"}

WriterStates == [at : WriterPlaces, op : Operations, text : Texts \union {NoText}, status : Requested]

Documents == [exists : BOOLEAN, content : Texts, status : DocStatuses, processed : Stamps,
              updated : Stamps]

StateTyped ==
    /\ doc \in Documents /\ chunks \in [Texts -> Nat]
    /\ writer \in [Writers -> WriterStates] /\ alone \in [Writers -> BOOLEAN]

WritersKnown == \A w \in Writers :
    /\ PlaceOf(writer[w].at, writer[w].op, writer[w].text)
    /\ alone[w] => LeftBehind(writer[w].at, writer[w].text, doc.exists, chunks)

KnowledgeInv == StateTyped /\ WritersKnown

-----------------------------------------------------------------------------
\* No chunks and the chunks of one text are bags of texts; adding to none gives the one.
LEMMA ChunkBags ==
    ASSUME NEW text \in Texts
    PROVE  /\ NoChunks \in [Texts -> Nat] /\ Once(text) \in [Texts -> Nat]
           /\ [NoChunks EXCEPT ![text] = @ + 1] = Once(text)
<1>1. NoChunks \in [Texts -> Nat] /\ Once(text) \in [Texts -> Nat]
  BY DEF NoChunks, Once
<1>2. \A t \in Texts : [NoChunks EXCEPT ![text] = @ + 1][t] = Once(text)[t]
  BY DEF NoChunks, Once
<1> QED  BY <1>1, <1>2 DEF NoChunks, Once

\* No chunks are a bag of texts, even of none.
LEMMA NoChunksBag == NoChunks \in [Texts -> Nat]
BY DEF NoChunks

\* A writer with nothing to do is a writer, and relies on nothing.
LEMMA IdleStates ==
    /\ IdleWriter \in WriterStates /\ IdleWriter.at = "idle"
    /\ PlaceOf(IdleWriter.at, IdleWriter.op, IdleWriter.text)
    /\ \A exists, bag : LeftBehind(IdleWriter.at, IdleWriter.text, exists, bag)
BY DEF IdleWriter, WriterStates, WriterPlaces, Operations, Requested, PlaceOf, LeftBehind

\* A document with another content, status or stamps is a document.
LEMMA Restated ==
    ASSUME doc \in Documents, NEW content \in Texts, NEW status \in DocStatuses,
           NEW processed \in Stamps, NEW updated \in Stamps
    PROVE  [doc EXCEPT !.content = content, !.status = status, !.processed = processed,
                       !.updated = updated] \in Documents
BY DEF Documents

\* The names a step writes.
LEMMA Names ==
    /\ "idle" \in WriterPlaces /\ "mark" \in WriterPlaces /\ "delete" \in WriterPlaces /\ "create" \in WriterPlaces
    /\ "finish" \in WriterPlaces /\ "fail" \in WriterPlaces /\ "update" \in WriterPlaces /\ "put" \in WriterPlaces
    /\ "queued" \in DocStatuses /\ "processing" \in DocStatuses /\ "ready" \in DocStatuses
    /\ "failed" \in DocStatuses /\ "recent" \in Stamps /\ "old" \in Stamps
BY DEF WriterPlaces, DocStatuses, Stamps

\* The first state: nobody is at work.
LEMMA KnowledgeInitInv == KnowledgeInit => KnowledgeInv
<1> SUFFICES ASSUME KnowledgeInit PROVE KnowledgeInv
  OBVIOUS
<1>1. doc \in Documents /\ chunks \in [Texts -> Nat]
  <2> PICK t \in Texts, status \in {"queued", "ready"} :
        /\ doc = [exists |-> TRUE, content |-> t, status |-> status,
                  processed |-> "never", updated |-> "recent"]
        /\ chunks = NoChunks \/ chunks = Once(t)
    BY DEF KnowledgeInit
  <2>1. chunks \in [Texts -> Nat]  BY ChunkBags
  <2>2. status \in DocStatuses /\ "never" \in Stamps /\ "recent" \in Stamps
    BY DEF DocStatuses, Stamps
  <2>3. doc \in Documents  BY <2>2 DEF Documents
  <2> QED  BY <2>1, <2>3
<1>2. StateTyped
  BY <1>1, IdleStates DEF KnowledgeInit, StateTyped
<1>3. \A w \in Writers : writer[w] = IdleWriter
  BY DEF KnowledgeInit
<1> QED  BY <1>2, <1>3, IdleStates DEF KnowledgeInv, WritersKnown

\* A step of one writer that writes the document: the others that have read it are no
\* longer alone, and the ones that are idle rely on nothing.
LEMMA WriteStep ==
    ASSUME KnowledgeInv, NEW w \in Writers, NEW state \in WriterStates,
           writer' = [writer EXCEPT ![w] = state], Wrote(w),
           doc' \in Documents, chunks' \in [Texts -> Nat],
           PlaceOf(state.at, state.op, state.text),
           alone[w] => LeftBehind(state.at, state.text, doc'.exists, chunks')
    PROVE  KnowledgeInv'
<1>1. StateTyped'
  BY DEF KnowledgeInv, StateTyped, Wrote
<1>2. writer'[w] = state /\ (alone'[w] => alone[w])
  BY DEF KnowledgeInv, StateTyped, Wrote
<1>3. ASSUME NEW v \in Writers, v # w
      PROVE  writer'[v] = writer[v] /\ (alone'[v] => writer[v].at = "idle")
  BY <1>3 DEF KnowledgeInv, StateTyped, Wrote, Busy
<1>4. ASSUME NEW v \in Writers
      PROVE  /\ PlaceOf(writer'[v].at, writer'[v].op, writer'[v].text)
             /\ alone'[v] => LeftBehind(writer'[v].at, writer'[v].text, doc'.exists, chunks')
  <2>1. CASE v = w  BY <1>2, <2>1
  <2>2. CASE v # w
    <3>1. writer'[v] = writer[v] /\ (alone'[v] => writer[v].at = "idle")  BY <1>3, <2>2
    <3>2. PlaceOf(writer[v].at, writer[v].op, writer[v].text)
      BY DEF KnowledgeInv, WritersKnown
    <3> QED  BY <3>1, <3>2 DEF LeftBehind
  <2> QED  BY <2>1, <2>2
<1> QED  BY <1>1, <1>4 DEF KnowledgeInv, WritersKnown

\* A step of one writer that leaves the document and its chunks alone.
LEMMA QuietStep ==
    ASSUME KnowledgeInv, NEW w \in Writers, NEW state \in WriterStates,
           writer' = [writer EXCEPT ![w] = state],
           alone' = alone \/ alone' = [alone EXCEPT ![w] = TRUE],
           doc' = doc, chunks' = chunks,
           PlaceOf(state.at, state.op, state.text),
           alone'[w] => LeftBehind(state.at, state.text, doc.exists, chunks)
    PROVE  KnowledgeInv'
<1>1. StateTyped'
  BY DEF KnowledgeInv, StateTyped
<1>2. writer'[w] = state
  BY DEF KnowledgeInv, StateTyped
<1>3. ASSUME NEW v \in Writers, v # w PROVE writer'[v] = writer[v] /\ alone'[v] = alone[v]
  BY <1>3 DEF KnowledgeInv, StateTyped
<1> QED  BY <1>1, <1>2, <1>3 DEF KnowledgeInv, WritersKnown

\* The process ends: every writer is idle.
LEMMA DeathStep ==
    ASSUME KnowledgeInv, Dies, UNCHANGED <<doc, chunks, alone>>
    PROVE  KnowledgeInv'
<1>1. \A w \in Writers : writer'[w] = IdleWriter
  BY DEF Dies
<1>2. StateTyped'
  BY IdleStates DEF KnowledgeInv, StateTyped, Dies
<1> QED  BY <1>1, <1>2, IdleStates DEF KnowledgeInv, WritersKnown

-----------------------------------------------------------------------------
\* A step that writes the document and ends its writer.
LEMMA EndStep ==
    ASSUME KnowledgeInv, NEW w \in Writers, Done(w), Wrote(w),
           doc' \in Documents, chunks' \in [Texts -> Nat]
    PROVE  KnowledgeInv'
<1>1. writer' = [writer EXCEPT ![w] = IdleWriter]
  BY DEF Done
<1> QED  BY <1>1, IdleStates, WriteStep

\* And one that moves it on.
LEMMA MoveStep ==
    ASSUME KnowledgeInv, NEW w \in Writers, NEW place \in WriterPlaces, Move(w, place), Wrote(w),
           doc' \in Documents, chunks' \in [Texts -> Nat],
           PlaceOf(place, writer[w].op, writer[w].text),
           alone[w] => LeftBehind(place, writer[w].text, doc'.exists, chunks')
    PROVE  KnowledgeInv'
<1> DEFINE state == [writer[w] EXCEPT !.at = place]
<1>1. writer' = [writer EXCEPT ![w] = state]
  BY DEF Move
<1>2. /\ state \in WriterStates /\ state.at = place /\ state.op = writer[w].op
      /\ state.text = writer[w].text
  BY DEF KnowledgeInv, StateTyped, WriterStates
<1> HIDE DEF state
<1> QED  BY <1>1, <1>2, WriteStep

\* A request that reads the document and has an edit to make.
LEMMA ReadStep ==
    ASSUME KnowledgeInv, NEW w \in Writers, NEW state \in WriterStates, Reads(w, state),
           doc' = doc, chunks' = chunks, doc.exists,
           PlaceOf(state.at, state.op, state.text),
           state.at \notin {"create", "put", "finish"}
    PROVE  KnowledgeInv'
<1>1. writer' = [writer EXCEPT ![w] = state] /\ alone' = [alone EXCEPT ![w] = TRUE]
  BY DEF Reads
<1>2. LeftBehind(state.at, state.text, doc.exists, chunks)
  BY DEF LeftBehind
<1> QED  BY <1>1, <1>2, QuietStep

-----------------------------------------------------------------------------
\* Every action keeps the invariant.
LEMMA KnowledgeStepInv == KnowledgeInv /\ [KnowledgeNext]_knowledgeVars => KnowledgeInv'
<1> SUFFICES ASSUME KnowledgeInv, [KnowledgeNext]_knowledgeVars PROVE KnowledgeInv'
  OBVIOUS
<1>0. /\ doc \in Documents /\ chunks \in [Texts -> Nat]
      /\ doc.content \in Texts /\ doc.status \in DocStatuses
      /\ doc.processed \in Stamps /\ doc.updated \in Stamps
  BY DEF KnowledgeInv, StateTyped, Documents
<1>w. ASSUME NEW w \in Writers
      PROVE  /\ PlaceOf(writer[w].at, writer[w].op, writer[w].text)
             /\ alone[w] => LeftBehind(writer[w].at, writer[w].text, doc.exists, chunks)
             /\ writer[w].text \in Texts \union {NoText} /\ writer[w].status \in Requested
  BY DEF KnowledgeInv, StateTyped, WritersKnown, WriterStates
<1>1. ASSUME NEW w \in Writers, ReadDocument(w) PROVE KnowledgeInv'
  <2>1. CASE doc.exists
    <3> DEFINE state == [IdleWriter EXCEPT !.at = "mark", !.text = doc.content]
    <3>1. /\ state \in WriterStates /\ state.at = "mark" /\ state.op = "job"
          /\ state.text \in Texts
      BY <1>0 DEF IdleWriter, WriterStates, WriterPlaces, Operations, Requested
    <3>2. Reads(w, state) /\ doc' = doc /\ chunks' = chunks
      BY <1>1, <2>1 DEF ReadDocument
    <3> HIDE DEF state
    <3>3. PlaceOf(state.at, state.op, state.text)  BY <3>1 DEF PlaceOf
    <3> QED  BY <2>1, <3>1, <3>2, <3>3, ReadStep
  <2>2. CASE ~doc.exists
    BY <1>1, <2>2 DEF ReadDocument, KnowledgeInv, StateTyped, WritersKnown
  <2> QED  BY <2>1, <2>2
<1>2. ASSUME NEW w \in Writers, MarkProcessing(w) PROVE KnowledgeInv'
  <2>1. /\ doc' = [doc EXCEPT !.content = doc.content, !.status = "processing",
                              !.processed = "recent", !.updated = "recent"]
        /\ chunks' = chunks /\ Move(w, "delete") /\ Wrote(w) /\ doc.exists
        /\ writer[w].at = "mark"
    BY <1>0, <1>2 DEF MarkProcessing, Documents
  <2>2. doc' \in Documents /\ doc'.exists
    <3>1. doc' \in Documents  BY <1>0, <2>1, Restated, Names
    <3>2. doc'.exists = doc.exists  BY <1>0, <2>1 DEF Documents
    <3> QED  BY <2>1, <3>1, <3>2
  <2>3. PlaceOf("delete", writer[w].op, writer[w].text)  BY <1>w, <2>1 DEF PlaceOf
  <2>4. LeftBehind("delete", writer[w].text, doc'.exists, chunks')  BY <2>2 DEF LeftBehind
  <2> QED  BY <1>0, <2>1, <2>2, <2>3, <2>4, MoveStep, Names
<1>3. ASSUME NEW w \in Writers, DeleteChunks(w) PROVE KnowledgeInv'
  <2>1. /\ chunks' = NoChunks /\ doc' = doc /\ Move(w, "create") /\ Wrote(w)
        /\ writer[w].at = "delete"
    BY <1>3 DEF DeleteChunks
  <2>2. PlaceOf("create", writer[w].op, writer[w].text)  BY <1>w, <2>1 DEF PlaceOf
  <2>3. alone[w] => LeftBehind("create", writer[w].text, doc'.exists, chunks')
    BY <1>w, <2>1 DEF LeftBehind
  <2> QED  BY <1>0, <2>1, <2>2, <2>3, NoChunksBag, MoveStep, Names
<1>4. ASSUME NEW w \in Writers, CreateChunks(w) PROVE KnowledgeInv'
  <2>0. /\ writer[w].text \in Texts /\ doc' = doc /\ Wrote(w)
        /\ alone[w] => doc.exists /\ chunks = NoChunks
    BY <1>w, <1>4 DEF CreateChunks, PlaceOf, LeftBehind
  <2>1. CASE doc.exists
    <3>1. chunks' = [chunks EXCEPT ![writer[w].text] = @ + 1]
      BY <1>4, <2>1 DEF CreateChunks
    <3>2. chunks' \in [Texts -> Nat]  BY <1>0, <2>0, <3>1
    <3>3. alone[w] => chunks' = Once(writer[w].text)  BY <2>0, <3>1, ChunkBags
    <3>4. CASE IsJob(w)
      <4>1. Move(w, "finish")  BY <1>4, <2>1, <3>4 DEF CreateChunks
      <4>2. PlaceOf("finish", writer[w].op, writer[w].text)
        BY <2>0, <3>4 DEF PlaceOf, IsJob
      <4>3. alone[w] => LeftBehind("finish", writer[w].text, doc'.exists, chunks')
        BY <2>0, <3>3 DEF LeftBehind
      <4> QED  BY <1>0, <2>0, <3>2, <4>1, <4>2, <4>3, MoveStep, Names
    <3>5. CASE ~IsJob(w)
      <4>1. Move(w, "update")  BY <1>4, <2>1, <3>5 DEF CreateChunks
      <4>2. PlaceOf("update", writer[w].op, writer[w].text)  BY DEF PlaceOf
      <4>3. alone[w] => LeftBehind("update", writer[w].text, doc'.exists, chunks')
        BY <2>0 DEF LeftBehind
      <4> QED  BY <1>0, <2>0, <3>2, <4>1, <4>2, <4>3, MoveStep, Names
    <3> QED  BY <3>4, <3>5
  <2>2. CASE ~doc.exists
    <3>1. Throws(w) /\ chunks' = chunks  BY <1>4, <2>2 DEF CreateChunks
    <3>2. CASE IsJob(w)
      <4>1. Move(w, "fail")  BY <3>1, <3>2 DEF Throws
      <4>2. PlaceOf("fail", writer[w].op, writer[w].text)  BY <3>2 DEF PlaceOf, IsJob
      <4> QED  BY <1>0, <2>0, <2>2, <3>1, <4>1, <4>2, MoveStep, Names
    <3>3. CASE ~IsJob(w)
      <4>1. Done(w)  BY <3>1, <3>3 DEF Throws
      <4> QED  BY <1>0, <2>0, <3>1, <4>1, EndStep
    <3> QED  BY <3>2, <3>3
  <2> QED  BY <2>1, <2>2
<1>5. ASSUME NEW w \in Writers, StatementFails(w) PROVE KnowledgeInv'
  <2>0. /\ doc' = doc /\ chunks' = chunks /\ alone' = alone /\ Throws(w)
        /\ writer[w].at \in {"delete", "create"}
    BY <1>5 DEF StatementFails
  <2>1. CASE IsJob(w)
    <3> DEFINE state == [writer[w] EXCEPT !.at = "fail"]
    <3>1. /\ state \in WriterStates /\ state.at = "fail" /\ state.op = "job"
      BY <2>1 DEF KnowledgeInv, StateTyped, WriterStates, WriterPlaces, IsJob
    <3>2. writer' = [writer EXCEPT ![w] = state]
      BY <2>0, <2>1 DEF Throws, Move
    <3> HIDE DEF state
    <3>3. PlaceOf(state.at, state.op, state.text)  BY <3>1 DEF PlaceOf
    <3>4. alone'[w] => LeftBehind(state.at, state.text, doc.exists, chunks)
      BY <1>w, <2>0, <3>1 DEF LeftBehind
    <3> QED  BY <2>0, <3>1, <3>2, <3>3, <3>4, QuietStep
  <2>2. CASE ~IsJob(w)
    <3>1. writer' = [writer EXCEPT ![w] = IdleWriter]  BY <2>0, <2>2 DEF Throws, Done
    <3> QED  BY <2>0, <3>1, IdleStates, QuietStep
  <2> QED  BY <2>1, <2>2
<1>6. ASSUME NEW w \in Writers, FinishJob(w) PROVE KnowledgeInv'
  <2>0. /\ chunks' = chunks /\ Wrote(w) /\ writer[w].at = "finish"
        /\ writer[w].text \in Texts /\ writer[w].op = "job"
    BY <1>w, <1>6 DEF FinishJob, PlaceOf
  <2>1. CASE doc.exists
    <3>1. /\ doc' = [doc EXCEPT !.content = writer[w].text, !.status = "ready",
                                !.processed = "recent", !.updated = "recent"]
          /\ Done(w)
      BY <1>6, <2>1 DEF FinishJob
    <3>2. doc' \in Documents  BY <1>0, <2>0, <3>1, Restated, Names
    <3> QED  BY <1>0, <2>0, <3>1, <3>2, EndStep
  <2>2. CASE ~doc.exists
    <3>1. doc' = doc /\ Move(w, "fail")
      BY <1>6, <2>0, <2>2 DEF FinishJob, Throws, IsJob
    <3>2. PlaceOf("fail", writer[w].op, writer[w].text)  BY <2>0 DEF PlaceOf
    <3>3. alone[w] => LeftBehind("fail", writer[w].text, doc'.exists, chunks')
      BY <1>w, <2>0, <2>2 DEF LeftBehind
    <3> QED  BY <1>0, <2>0, <3>1, <3>2, <3>3, MoveStep, Names
  <2> QED  BY <2>1, <2>2
<1>7. ASSUME NEW w \in Writers, FailJob(w) PROVE KnowledgeInv'
  <2>1. /\ doc' = [doc EXCEPT !.content = doc.content, !.status = "failed",
                              !.processed = "recent", !.updated = "recent"]
        /\ chunks' = chunks /\ Done(w) /\ Wrote(w)
    BY <1>0, <1>7 DEF FailJob, Documents
  <2>2. doc' \in Documents  BY <1>0, <2>1, Restated, Names
  <2> QED  BY <1>0, <2>1, <2>2, EndStep
<1>8. ASSUME NEW w \in Writers, UpdateDocument(w) PROVE KnowledgeInv'
  <2>1. chunks' = chunks /\ Done(w) /\ Wrote(w)  BY <1>8 DEF UpdateDocument
  <2>2. doc' \in Documents
    <3>1. CASE ~doc.exists  BY <1>0, <1>8, <3>1 DEF UpdateDocument
    <3>2. CASE doc.exists
      <4> DEFINE content == IF writer[w].text = NoText THEN doc.content ELSE writer[w].text
                 status == IF writer[w].status = "same" THEN doc.status ELSE writer[w].status
      <4>1. content \in Texts /\ status \in DocStatuses
        BY <1>0, <1>w DEF Requested, DocStatuses
      <4>2. doc' = [doc EXCEPT !.content = content, !.status = status,
                               !.processed = doc.processed, !.updated = "recent"]
        BY <1>0, <1>8, <3>2 DEF UpdateDocument, Documents
      <4> HIDE DEF content, status
      <4> QED  BY <1>0, <4>1, <4>2, Restated, Names
    <3> QED  BY <3>1, <3>2
  <2> QED  BY <1>0, <2>1, <2>2, EndStep
<1>9. ASSUME NEW w \in Writers, Requeue(w) PROVE KnowledgeInv'
  <2>1. chunks' = chunks /\ Done(w) /\ Wrote(w)  BY <1>9 DEF Requeue
  <2>2. doc' \in Documents
    <3>1. CASE ~doc.exists  BY <1>0, <1>9, <3>1 DEF Requeue
    <3>2. CASE doc.exists
      <4>1. doc' = [doc EXCEPT !.content = doc.content, !.status = "queued",
                               !.processed = doc.processed, !.updated = "recent"]
        BY <1>0, <1>9, <3>2 DEF Requeue, Documents
      <4> QED  BY <1>0, <4>1, Restated, Names
    <3> QED  BY <3>1, <3>2
  <2> QED  BY <1>0, <2>1, <2>2, EndStep
<1>10. ASSUME NEW w \in Writers, UnhandledRejection(w) PROVE KnowledgeInv'
  BY <1>10, DeathStep DEF UnhandledRejection
<1>11. ASSUME NEW w \in Writers, ClearChunks(w) PROVE KnowledgeInv'
  <2>1. /\ chunks' = NoChunks /\ doc' = doc /\ Move(w, "put") /\ Wrote(w)
        /\ writer[w].at = "clear"
    BY <1>11 DEF ClearChunks
  <2>2. PlaceOf("put", writer[w].op, writer[w].text)  BY <1>w, <2>1 DEF PlaceOf
  <2>3. alone[w] => LeftBehind("put", writer[w].text, doc'.exists, chunks')
    BY <1>w, <2>1 DEF LeftBehind
  <2> QED  BY <1>0, <2>1, <2>2, <2>3, NoChunksBag, MoveStep, Names
<1>12. ASSUME NEW w \in Writers, PutDocument(w) PROVE KnowledgeInv'
  <2>0. Done(w) /\ Wrote(w) /\ writer[w].text \in Texts
    BY <1>w, <1>12 DEF PutDocument, PlaceOf
  <2>1. doc' \in Documents /\ chunks' \in [Texts -> Nat]
    <3>1. CASE ~doc.exists
      BY <1>0, <1>12, <3>1 DEF PutDocument
    <3>2. CASE doc.exists /\ writer[w].op = "replace"
      <4>1. /\ doc' = [doc EXCEPT !.content = writer[w].text, !.status = "queued",
                                  !.processed = doc.processed, !.updated = "recent"]
            /\ chunks' = chunks
        BY <1>0, <1>12, <3>2 DEF PutDocument, Documents
      <4> QED  BY <1>0, <2>0, <4>1, Restated, Names
    <3>3. CASE doc.exists /\ writer[w].op # "replace"
      <4>1. /\ doc' = [doc EXCEPT !.content = writer[w].text, !.status = "ready",
                                  !.processed = "recent", !.updated = "recent"]
            /\ chunks' = [chunks EXCEPT ![writer[w].text] = @ + 1]
        BY <1>12, <3>3 DEF PutDocument
      <4>2. doc' \in Documents  BY <1>0, <2>0, <4>1, Restated, Names
      <4>3. chunks' \in [Texts -> Nat]  BY <1>0, <2>0, <4>1
      <4> QED  BY <4>2, <4>3
    <3> QED  BY <3>1, <3>2, <3>3
  <2> QED  BY <2>0, <2>1, EndStep
<1>13. ASSUME NEW w \in Writers, ReadForPatch(w) PROVE KnowledgeInv'
  <2> PICK text \in Texts \union {NoText}, status \in Requested :
        Reads(w, [at |-> IF text \in {NoText, doc.content} THEN "update" ELSE "delete",
                  op |-> "patch", text |-> text, status |-> status])
    BY <1>13 DEF ReadForPatch
  <2> DEFINE state == [at |-> IF text \in {NoText, doc.content} THEN "update" ELSE "delete",
                       op |-> "patch", text |-> text, status |-> status]
  <2>1. /\ state \in WriterStates /\ state.at \in {"update", "delete"}
        /\ state.at = "delete" => state.text \in Texts
    BY DEF WriterStates, WriterPlaces, Operations, Requested
  <2>2. Reads(w, state)  OBVIOUS
  <2>3. doc' = doc /\ chunks' = chunks /\ doc.exists
    BY <1>13 DEF ReadForPatch
  <2> HIDE DEF state
  <2>4. PlaceOf(state.at, state.op, state.text)  BY <2>1 DEF PlaceOf
  <2> QED  BY <2>1, <2>2, <2>3, <2>4, ReadStep
<1>14. ASSUME NEW w \in Writers, ReadForReplace(w) PROVE KnowledgeInv'
  <2> PICK text \in Texts, op \in {"replace", "import"} :
        Reads(w, [at |-> "clear", op |-> op, text |-> text, status |-> "same"])
    BY <1>14 DEF ReadForReplace
  <2> DEFINE state == [at |-> "clear", op |-> op, text |-> text, status |-> "same"]
  <2>1. state \in WriterStates /\ state.at = "clear" /\ state.text \in Texts
    BY DEF WriterStates, WriterPlaces, Operations, Requested
  <2>2. Reads(w, state)  OBVIOUS
  <2>3. doc' = doc /\ chunks' = chunks /\ doc.exists
    BY <1>14 DEF ReadForReplace
  <2> HIDE DEF state
  <2>4. PlaceOf(state.at, state.op, state.text)  BY <2>1 DEF PlaceOf
  <2> QED  BY <2>1, <2>2, <2>3, <2>4, ReadStep
<1>15. ASSUME NEW w \in Writers, ReadForReprocess(w) PROVE KnowledgeInv'
  <2> DEFINE state == [IdleWriter EXCEPT !.at = "requeue", !.op = "reprocess"]
  <2>1. state \in WriterStates /\ state.at = "requeue"
    BY DEF WriterStates, IdleWriter, WriterPlaces, Operations, Requested
  <2>2. Reads(w, state)  BY <1>15 DEF ReadForReprocess
  <2>3. doc' = doc /\ chunks' = chunks /\ doc.exists
    BY <1>15 DEF ReadForReprocess
  <2> HIDE DEF state
  <2>4. PlaceOf(state.at, state.op, state.text)  BY <2>1 DEF PlaceOf
  <2> QED  BY <2>1, <2>2, <2>3, <2>4, ReadStep
<1>16. CASE DeleteDocument
  <2>1. /\ doc' = [doc EXCEPT !.exists = FALSE] /\ chunks' = NoChunks
        /\ alone' = [w \in Writers |-> writer[w].at = "idle"] /\ writer' = writer
    BY <1>16 DEF DeleteDocument, Busy
  <2>2. doc' \in Documents  BY <1>0, <2>1 DEF Documents
  <2>3. StateTyped'
    BY <2>1, <2>2, NoChunksBag DEF KnowledgeInv, StateTyped
  <2>4. ASSUME NEW w \in Writers
        PROVE  alone'[w] => LeftBehind(writer'[w].at, writer'[w].text, doc'.exists, chunks')
    BY <2>1 DEF LeftBehind
  <2> QED  BY <1>w, <2>1, <2>3, <2>4 DEF KnowledgeInv, WritersKnown
<1>17. CASE FailStuck \/ Age
  <2>1. UNCHANGED <<chunks, writer, alone>>
    BY <1>17 DEF FailStuck, Age
  <2>2. doc' \in Documents /\ doc'.exists = doc.exists
    <3>1. CASE FailStuck
      <4>1. doc' = [doc EXCEPT !.content = doc.content, !.status = "failed",
                               !.processed = doc.processed, !.updated = "recent"]
        BY <1>0, <3>1 DEF FailStuck, Documents
      <4>2. doc' \in Documents  BY <1>0, <4>1, Restated, Names
      <4>3. doc'.exists = doc.exists  BY <1>0, <4>1 DEF Documents
      <4> QED  BY <4>2, <4>3
    <3>2. CASE Age
      <4> DEFINE processed == IF doc.processed = "recent" THEN "old" ELSE doc.processed
      <4>1. doc' = [doc EXCEPT !.content = doc.content, !.status = doc.status,
                               !.processed = processed, !.updated = "old"]
        BY <1>0, <3>2 DEF Age, Documents
      <4>2. processed \in Stamps  BY <1>0, Names
      <4> HIDE DEF processed
      <4>3. doc' \in Documents  BY <1>0, <4>1, <4>2, Restated, Names
      <4>4. doc'.exists = doc.exists  BY <1>0, <4>1 DEF Documents
      <4> QED  BY <4>3, <4>4
    <3> QED  BY <1>17, <3>1, <3>2
  <2> QED  BY <2>1, <2>2 DEF KnowledgeInv, StateTyped, WritersKnown
<1>18. CASE Killed
  BY <1>18, DeathStep DEF Killed
<1>19. CASE UNCHANGED knowledgeVars
  BY <1>19 DEF knowledgeVars, KnowledgeInv, StateTyped, WritersKnown
<1> QED
  BY <1>1, <1>2, <1>3, <1>4, <1>5, <1>6, <1>7, <1>8, <1>9, <1>10, <1>11, <1>12, <1>13, <1>14,
     <1>15, <1>16, <1>17, <1>18, <1>19
  DEF KnowledgeNext, WriterStep

\* The invariant holds in every reachable state.
LEMMA KnowledgeAlwaysInv == KnowledgeSpec => []KnowledgeInv
BY KnowledgeInitInv, KnowledgeStepInv, PTL DEF KnowledgeSpec
\* Deaths are counted.
DeathsTyped == deaths \in Nat

LEMMA DeathsCounted == KnowledgeSpec => []DeathsTyped
<1>1. KnowledgeInit => DeathsTyped
  BY DEF KnowledgeInit, DeathsTyped
<1>2. DeathsTyped /\ [KnowledgeNext]_knowledgeVars => DeathsTyped'
  <2> SUFFICES ASSUME deaths \in Nat, [KnowledgeNext]_knowledgeVars PROVE deaths' \in Nat
    BY DEF DeathsTyped
  <2>1. \A w \in Writers : WriterStep(w) \/ ReadDocument(w) \/ StatementFails(w)
            => deaths' = deaths \/ Dies
    BY DEF WriterStep, ReadDocument, StatementFails, MarkProcessing, DeleteChunks,
           CreateChunks, FinishJob, FailJob, UnhandledRejection, UpdateDocument,
           ClearChunks, PutDocument, Requeue
  <2>2. \A w \in Writers : ReadForPatch(w) \/ ReadForReplace(w) \/ ReadForReprocess(w)
            => deaths' = deaths
    BY DEF ReadForPatch, ReadForReplace, ReadForReprocess
  <2>3. DeleteDocument \/ FailStuck \/ Age => deaths' = deaths
    BY DEF DeleteDocument, FailStuck, Age
  <2>4. deaths' = deaths \/ Dies
    BY <2>1, <2>2, <2>3 DEF KnowledgeNext, Killed, knowledgeVars
  <2> QED  BY <2>4 DEF Dies
<1> QED  BY <1>1, <1>2, PTL DEF KnowledgeSpec

\* The last step of an undisturbed job or import leaves the index of its content.
LEMMA IndexStep ==
    ASSUME KnowledgeInv, [KnowledgeNext]_knowledgeVars, NEW w \in Writers, Indexes(w),
           writer'[w] = IdleWriter, alone[w], deaths \in Nat, deaths' = deaths
    PROVE  doc'.status = "ready" /\ chunks' = Once(doc'.content)
<1>0. /\ writer \in [Writers -> WriterStates] /\ doc \in Documents
      /\ deaths \in Nat /\ deaths' = deaths
      /\ LeftBehind(writer[w].at, writer[w].text, doc.exists, chunks)
      /\ PlaceOf(writer[w].at, writer[w].op, writer[w].text)
  BY DEF KnowledgeInv, StateTyped, WritersKnown
<1>1. writer'[w] # writer[w] /\ writer[w].at \in {"finish", "put"}
  BY IdleStates DEF Indexes
<1>2. writer[w].text \in Texts /\ doc.exists
  BY <1>0, <1>1 DEF PlaceOf, LeftBehind
<1>3. FinishJob(w) \/ (PutDocument(w) /\ writer[w].op = "import")
  <2>1. ~Dies  BY <1>0 DEF Dies
  <2>2. ~UNCHANGED writer  BY <1>1
  <2>3. PICK v \in Writers : \/ ReadDocument(v) \/ WriterStep(v) \/ StatementFails(v)
                            \/ ReadForPatch(v) \/ ReadForReplace(v) \/ ReadForReprocess(v)
    <3>1. ~UNCHANGED knowledgeVars  BY <2>2 DEF knowledgeVars
    <3>2. ~DeleteDocument /\ ~FailStuck /\ ~Age /\ ~Killed
      BY <2>1, <2>2 DEF DeleteDocument, FailStuck, Age, Killed
    <3> QED  BY <3>1, <3>2 DEF KnowledgeNext
  <2>4. /\ ~ReadDocument(w) /\ ~ReadForPatch(w) /\ ~ReadForReplace(w) /\ ~ReadForReprocess(w)
        /\ ~StatementFails(w) /\ ~UnhandledRejection(w) /\ ~MarkProcessing(w)
        /\ ~DeleteChunks(w) /\ ~CreateChunks(w) /\ ~FailJob(w) /\ ~UpdateDocument(w)
        /\ ~ClearChunks(w) /\ ~Requeue(w)
    <3>1. Busy(w)  BY <1>1 DEF Busy
    <3>2. ~ReadForPatch(w) /\ ~ReadForReplace(w) /\ ~ReadForReprocess(w)
      BY <3>1 DEF ReadForPatch, ReadForReplace, ReadForReprocess, Reads
    <3>3. ~ReadDocument(w)
      BY <3>1 DEF ReadDocument, Reads
    <3>4. /\ ~StatementFails(w) /\ ~UnhandledRejection(w) /\ ~MarkProcessing(w)
          /\ ~DeleteChunks(w) /\ ~CreateChunks(w) /\ ~FailJob(w) /\ ~UpdateDocument(w)
          /\ ~ClearChunks(w) /\ ~Requeue(w)
      BY <1>1 DEF StatementFails, UnhandledRejection, MarkProcessing, DeleteChunks,
                  CreateChunks, FailJob, UpdateDocument, ClearChunks, Requeue
    <3> QED  BY <3>2, <3>3, <3>4
  <2>5. v = w
    <3> SUFFICES ASSUME v # w PROVE FALSE
      OBVIOUS
    <3> DEFINE Keeps == writer'[w] = writer[w]
    <3>0. ASSUME NEW state, writer' = [writer EXCEPT ![v] = state] PROVE Keeps
      BY <1>0, <3>0
    <3>1. \A place : Move(v, place) => Keeps  BY <3>0 DEF Move
    <3>2. Done(v) => Keeps  BY <3>0 DEF Done
    <3>3. \A state : Reads(v, state) => Keeps  BY <3>0 DEF Reads
    <3>4. Throws(v) => Keeps  BY <3>1, <3>2 DEF Throws
    <3>5. ~Keeps  BY <1>1
    <3> HIDE DEF Keeps
    <3>6. ~ReadForPatch(v) /\ ~ReadForReplace(v) /\ ~ReadForReprocess(v)
      BY <3>3, <3>5 DEF ReadForPatch, ReadForReplace, ReadForReprocess
    <3>7. ~ReadDocument(v)  BY <2>2, <3>3, <3>5 DEF ReadDocument
    <3>8. ~StatementFails(v) /\ ~CreateChunks(v) /\ ~FinishJob(v)
      BY <3>1, <3>2, <3>4, <3>5 DEF StatementFails, CreateChunks, FinishJob
    <3>9. /\ ~MarkProcessing(v) /\ ~DeleteChunks(v) /\ ~FailJob(v) /\ ~UpdateDocument(v)
          /\ ~ClearChunks(v) /\ ~PutDocument(v) /\ ~Requeue(v)
      BY <3>1, <3>2, <3>5 DEF MarkProcessing, DeleteChunks, FailJob, UpdateDocument,
                              ClearChunks, PutDocument, Requeue
    <3>10. ~UnhandledRejection(v)  BY <2>1 DEF UnhandledRejection
    <3> QED  BY <2>3, <3>6, <3>7, <3>8, <3>9, <3>10 DEF WriterStep
  <2>6. FinishJob(w) \/ PutDocument(w)  BY <2>3, <2>4, <2>5 DEF WriterStep
  <2>7. PutDocument(w) => writer[w].op = "import"
    BY DEF PutDocument, Indexes
  <2> QED  BY <2>6, <2>7
<1>4. CASE FinishJob(w)
  <2>1. /\ doc' = [doc EXCEPT !.content = writer[w].text, !.status = "ready",
                              !.processed = "recent", !.updated = "recent"]
        /\ chunks' = chunks /\ chunks = Once(writer[w].text)
    BY <1>0, <1>2, <1>4 DEF FinishJob, LeftBehind
  <2> QED  BY <1>0, <2>1 DEF Documents
<1>5. CASE PutDocument(w) /\ writer[w].op = "import"
  <2>1. /\ doc' = [doc EXCEPT !.content = writer[w].text, !.status = "ready",
                              !.processed = "recent", !.updated = "recent"]
        /\ chunks' = [chunks EXCEPT ![writer[w].text] = @ + 1]
    BY <1>2, <1>5 DEF PutDocument
  <2>2. chunks = NoChunks  BY <1>0, <1>5 DEF PutDocument, LeftBehind
  <2>3. chunks' = Once(writer[w].text)  BY <1>2, <2>1, <2>2, ChunkBags
  <2> QED  BY <1>0, <2>1, <2>3 DEF Documents
<1> QED  BY <1>3, <1>4, <1>5

\* Whatever the edits, failures and deaths, and for any number of writers: a job or an
\* import that nobody disturbed leaves the document ready with the index of its content,
\* once (knowledge-pipeline.ts:121).
THEOREM IndexingRepairs == KnowledgeSpec => IndexedAlone
<1>1. KnowledgeInv /\ DeathsTyped /\ [KnowledgeNext]_knowledgeVars
         => [\A w \in Writers :
                Indexes(w) /\ writer'[w] = IdleWriter /\ alone[w] /\ deaths' = deaths
                => doc'.status = "ready" /\ chunks' = Once(doc'.content)]_knowledgeVars
  BY IndexStep DEF DeathsTyped
<1> QED  BY KnowledgeAlwaysInv, DeathsCounted, <1>1, PTL DEF KnowledgeSpec, IndexedAlone

-----------------------------------------------------------------------------
(***************************************************************************)
(* The subscription                                                        *)
(***************************************************************************)
\* The dates of the calendar, and those it is lived through.
LEMMA Calendars ==
    /\ Len(Length) \in Nat /\ Months = 1..Len(Length)
    /\ \A m \in Months : Length[m] \in Nat /\ 1 <= Length[m]
BY Calendar DEF Months

LEMMA DateParts ==
    ASSUME NEW d \in Dates
    PROVE  d[1] \in Months /\ d[2] \in 1..Length[d[1]] /\ d = <<d[1], d[2]>> /\ d # NoDate
<1>1. PICK m \in Months : d \in {m} \X (1..Length[m])
  BY DEF Dates
<1>2. d[1] = m /\ d[2] \in 1..Length[m] /\ d = <<d[1], d[2]>>
  BY <1>1
<1>3. m # 0
  BY <1>1, Calendars
<1> QED  BY <1>1, <1>2, <1>3 DEF NoDate

LEMMA DateOf == ASSUME NEW m \in Months, NEW k \in 1..Length[m] PROVE <<m, k>> \in Dates
<1>1. <<m, k>> \in {m} \X (1..Length[m])
  OBVIOUS
<1> QED  BY <1>1 DEF Dates

Lived(d) == d \in Dates /\ ~Before(LastDay, d)

LEMMA MonthAfter == ASSUME NEW d, Lived(d) PROVE d[1] + 1 \in Months
<1>1. d[1] \in Months /\ LastDay[1] \in Months /\ LastDay[1] + 1 \in Months
  BY DateParts, BillingBounds, CalendarGoesOn DEF Lived
<1>2. d[1] <= LastDay[1]
  BY <1>1, Calendars DEF Lived, Before
<1> QED  BY <1>1, <1>2, Calendars

\* What the date arithmetic returns: a date on the day asked for, whose own day names it
\* again.
LEMMA OnDayNamesDate ==
    ASSUME NEW m \in Months, NEW day \in Nat, day # 0
    PROVE  /\ OnDay(m, day) \in Dates /\ OnDay(m, day)[1] = m /\ OnDay(m, day)[2] \in Nat \ {0}
           /\ OnDay(m, OnDay(m, day)[2]) = OnDay(m, day)
<1>1. Clamp(m, day) \in 1..Length[m] /\ Clamp(m, day) \in Nat \ {0}
  BY Calendars DEF Clamp
<1>2. Clamp(m, Clamp(m, day)) = Clamp(m, day)
  BY Calendars DEF Clamp
<1> QED  BY <1>1, <1>2, DateOf DEF OnDay

LEMMA DateOnItsDay ==
    ASSUME NEW d \in Dates PROVE d = OnDay(d[1], d[2]) /\ d[2] \in Nat \ {0}
<1>1. d[1] \in Months /\ d[2] \in 1..Length[d[1]] /\ d = <<d[1], d[2]>>
  BY DateParts
<1>2. d[2] \in Nat \ {0} /\ Clamp(d[1], d[2]) = d[2]
  BY <1>1, Calendars DEF Clamp
<1> QED  BY <1>1, <1>2 DEF OnDay

LEMMA NextDueOnDay ==
    ASSUME NEW from, Lived(from), NEW day \in Nat, day # 0
    PROVE  NextDue(day, from) \in Dates /\ NextDue(day, from) = OnDay(NextDue(day, from)[1], day)
<1>1. from[1] \in Months /\ from[1] + 1 \in Months
  BY DateParts, MonthAfter DEF Lived
<1>2. \A m \in Months : OnDay(m, day) \in Dates /\ OnDay(m, day)[1] = m
  BY OnDayNamesDate
<1> QED  BY <1>1, <1>2 DEF NextDue

LEMMA LaterIsDate == ASSUME NEW from, Lived(from) PROVE Later(from, ThirtyDays) \in Dates
BY CalendarGoesOn DEF Lived, Later

-----------------------------------------------------------------------------
OnItsDay(c) == c.day # 0 /\ c.due # NoDate => c.due = OnDay(c.due[1], c.day)

\* What a registration and a contract change at work have read, and know.
PaymentsKnown == \A p \in Payments : payment[p].at # "idle" =>
    /\ payment[p].key \in PaymentKeys /\ Lived(payment[p].paidAt)
    /\ payment[p].read.day = 0 => payment[p].read.due = NoDate
    /\ payment[p].read.day # 0 => contract.day # 0

RevisersKnown == \A r \in Revisers : reviser[r].at = "write" => reviser[r].day # 0

ContractKnown ==
    /\ contract.day = 0 => contract.due = NoDate
    /\ ~overwritten => OnItsDay(contract)

BillingInv ==
    BillingTypeOK /\ Lived(today) /\ PaymentsKnown /\ RevisersKnown /\ ContractKnown

PaymentRows == [at : {"idle", "store", "write"}, key : PaymentKeys \union {0},
                paidAt : Dates \union {NoDate}, advance : BOOLEAN, read : Contracts]
ReviserRows == [at : {"idle", "write"}, day : Nat, charged : BOOLEAN]

LEMMA BillingNumbers ==
    /\ ThirtyDays \in Nat /\ GraceDays \in Nat /\ MaxChanges \in Nat
    /\ DefaultDay \in Nat /\ DefaultDay # 0 /\ \A day \in DueDays : day \in Nat /\ day # 0
BY BillingBounds, ContractDays

LEMMA IdlePaymentTyped == IdlePayment \in PaymentRows /\ IdlePayment.at = "idle"
BY DEF IdlePayment, PaymentRows, Contracts

\* The first day is a day, and the calendar is lived from it.
LEMMA FirstDay == Lived(<<1, 1>>)
<1>1. LastDay[1] \in Months /\ LastDay[2] \in 1..Length[LastDay[1]]
  BY BillingBounds, DateParts
<1>2. 1 \in Months /\ 1 \in 1..Length[1]
  BY <1>1, Calendars
<1>3. <<1, 1>> \in Dates
  BY <1>2, DateOf
<1>4. ~Before(LastDay, <<1, 1>>)
  BY <1>1, Calendars DEF Before
<1> QED  BY <1>3, <1>4 DEF Lived

\* A contract with another status, due date and day; or another day, price and due date.
LEMMA ContractSettled ==
    ASSUME contract \in Contracts, NEW due \in Dates \union {NoDate}, NEW day \in Nat,
           contract' = [contract EXCEPT !.status = "ACTIVE", !.due = due, !.day = day]
    PROVE  /\ contract' \in Contracts /\ contract'.status = "ACTIVE"
           /\ contract'.due = due /\ contract'.day = day
BY DEF Contracts

LEMMA ContractRevised ==
    ASSUME contract \in Contracts, NEW due \in Dates \union {NoDate}, NEW day \in Nat,
           NEW charged \in BOOLEAN,
           contract' = [contract EXCEPT !.day = day, !.charged = charged, !.due = due]
    PROVE  contract' \in Contracts /\ contract'.due = due /\ contract'.day = day
BY DEF Contracts

LEMMA ContractMade ==
    ASSUME NEW due \in Dates \union {NoDate}, NEW day \in Nat, NEW charged \in BOOLEAN
    PROVE  [status |-> "ACTIVE", due |-> due, day |-> day, charged |-> charged] \in Contracts
BY DEF Contracts

LEMMA BillingInitInv == BillingInit => BillingInv
<1> SUFFICES ASSUME BillingInit PROVE BillingInv
  OBVIOUS
<1>1. Lived(today) /\ today = <<1, 1>>
  BY FirstDay DEF BillingInit
<1>2. NextDue(DefaultDay, <<1, 1>>) \in Dates
      /\ NextDue(DefaultDay, <<1, 1>>) = OnDay(NextDue(DefaultDay, <<1, 1>>)[1], DefaultDay)
  BY FirstDay, NextDueOnDay, BillingNumbers
<1>3. contract \in Contracts
  <2> DEFINE due == NextDue(DefaultDay, <<1, 1>>)
  <2>1. contract \in {[status |-> "ACTIVE", due |-> due, day |-> DefaultDay, charged |-> TRUE],
                      [status |-> "ACTIVE", due |-> NoDate, day |-> 0, charged |-> FALSE],
                      [status |-> "ACTIVE", due |-> NoDate, day |-> DefaultDay, charged |-> FALSE]}
    BY DEF BillingInit
  <2>2. due \in Dates
    BY <1>2
  <2> HIDE DEF due
  <2>3. /\ [status |-> "ACTIVE", due |-> due, day |-> DefaultDay, charged |-> TRUE] \in Contracts
        /\ [status |-> "ACTIVE", due |-> NoDate, day |-> 0, charged |-> FALSE] \in Contracts
        /\ [status |-> "ACTIVE", due |-> NoDate, day |-> DefaultDay, charged |-> FALSE] \in Contracts
    BY <2>2, BillingNumbers, ContractMade
  <2> QED  BY <2>1, <2>3
<1>4. ContractKnown
  BY <1>2, BillingNumbers DEF BillingInit, ContractKnown, OnItsDay
<1>5. payment \in [Payments -> PaymentRows] /\ \A p \in Payments : payment[p].at = "idle"
  BY IdlePaymentTyped DEF BillingInit
<1>6. reviser \in [Revisers -> ReviserRows] /\ \A r \in Revisers : reviser[r].at = "idle"
  BY DEF BillingInit, ReviserRows
<1>7. BillingTypeOK
  <2>1. paid \subseteq PaymentKeys /\ changes \in 0..MaxChanges
    BY BillingNumbers DEF BillingInit
  <2>2. overwritten \in BOOLEAN
    BY DEF BillingInit
  <2> QED  BY <1>1, <1>3, <1>5, <1>6, <2>1, <2>2 DEF BillingTypeOK, PaymentRows, ReviserRows, Lived
<1> QED  BY <1>1, <1>4, <1>5, <1>6, <1>7 DEF BillingInv, PaymentsKnown, RevisersKnown

-----------------------------------------------------------------------------
\* What a registration is about to write.
LEMMA SettledDue ==
    ASSUME BillingInv, NEW p \in Payments, payment[p].at = "write"
    PROVE  LET c == payment[p].read
               due == IF payment[p].advance THEN Advance(c.day, c.due, payment[p].paidAt) ELSE c.due
           IN  /\ c \in Contracts /\ due \in Dates \union {NoDate}
               /\ c.day # 0 /\ payment[p].advance =>
                     due = OnDay(payment[p].paidAt[1] + 1, c.day) /\ due[1] = payment[p].paidAt[1] + 1
               /\ c.day = 0 /\ due # NoDate => due = OnDay(due[1], due[2]) /\ due[2] \in Nat \ {0}
<1> DEFINE c == payment[p].read  paidAt == payment[p].paidAt
           due == IF payment[p].advance THEN Advance(c.day, c.due, paidAt) ELSE c.due
<1>1. /\ c \in Contracts /\ c.day \in Nat /\ c.due \in Dates \union {NoDate}
      /\ Lived(paidAt) /\ (c.day = 0 => c.due = NoDate)
  BY DEF BillingInv, BillingTypeOK, PaymentsKnown, Contracts
<1>2. paidAt[1] + 1 \in Months
  BY <1>1, MonthAfter
<1>3. CASE c.day # 0
  <2>1. OnDay(paidAt[1] + 1, c.day) \in Dates /\ OnDay(paidAt[1] + 1, c.day)[1] = paidAt[1] + 1
    BY <1>1, <1>2, <1>3, OnDayNamesDate
  <2> QED  BY <1>1, <1>3, <2>1 DEF Advance
<1>4. CASE c.day = 0
  <2>1. due \in Dates \union {NoDate}
    BY <1>1, <1>4, LaterIsDate DEF Advance
  <2> HIDE DEF due
  <2>2. due # NoDate => due = OnDay(due[1], due[2]) /\ due[2] \in Nat \ {0}
    BY <2>1, DateOnItsDay
  <2> QED  BY <1>1, <1>4, <2>1, <2>2 DEF due
<1> QED  BY <1>3, <1>4

LEMMA SettlingStep == ASSUME BillingInv, NEW p \in Payments, RecordPayment(p) PROVE BillingInv'
<1> DEFINE c == payment[p].read
           due == IF payment[p].advance THEN Advance(c.day, c.due, payment[p].paidAt) ELSE c.due
           day == IF c.day = 0 /\ due # NoDate THEN due[2] ELSE contract.day
<1>0. /\ BillingTypeOK /\ Lived(today) /\ PaymentsKnown /\ RevisersKnown /\ ContractKnown
      /\ contract \in Contracts /\ contract.day \in Nat /\ payment[p].at = "write"
  BY DEF BillingInv, BillingTypeOK, Contracts, RecordPayment
<1>1. /\ c \in Contracts /\ due \in Dates \union {NoDate}
      /\ (c.day = 0 /\ due # NoDate => due = OnDay(due[1], due[2]) /\ due[2] \in Nat \ {0})
      /\ (c.day # 0 /\ payment[p].advance =>
            due = OnDay(payment[p].paidAt[1] + 1, c.day) /\ due[1] = payment[p].paidAt[1] + 1)
  BY <1>0, SettledDue
<1>2. /\ (c.day = 0 => c.due = NoDate) /\ (c.day # 0 => contract.day # 0)
  BY <1>0 DEF PaymentsKnown
<1>3. c.day # 0 /\ ~payment[p].advance => due = c.due
  OBVIOUS
<1>4. contract' = [contract EXCEPT !.status = "ACTIVE", !.due = due, !.day = day]
      /\ (~overwritten' => ~overwritten /\ contract = c)
  BY <1>0 DEF RecordPayment, Settled, Contracts
<1> HIDE DEF due, c
<1>5. day \in Nat /\ (contract.day # 0 => day # 0) /\ (day = 0 => due = NoDate)
  BY <1>0, <1>1, <1>2
<1>6. (~overwritten' => ~overwritten /\ contract = c /\ day = IF c.day = 0 /\ due # NoDate THEN due[2] ELSE c.day)
  BY <1>4
<1> HIDE DEF day
<1>7. contract' \in Contracts /\ contract'.due = due /\ contract'.day = day
  BY <1>0, <1>1, <1>4, <1>5, ContractSettled
<1>8. ContractKnown'
  <2>1. ASSUME ~overwritten', day # 0, due # NoDate PROVE due = OnDay(due[1], day)
    <3>1. ~overwritten /\ contract = c /\ day = IF c.day = 0 THEN due[2] ELSE c.day
      BY <1>6, <2>1
    <3>2. CASE c.day = 0
      BY <1>1, <2>1, <3>1, <3>2
    <3>3. CASE c.day # 0 /\ payment[p].advance
      BY <1>1, <3>1, <3>3
    <3>4. CASE c.day # 0 /\ ~payment[p].advance
      BY <1>0, <1>3, <2>1, <3>1, <3>4 DEF ContractKnown, OnItsDay
    <3> QED  BY <3>2, <3>3, <3>4
  <2> QED  BY <1>5, <1>7, <2>1 DEF ContractKnown, OnItsDay
<1>9. payment' \in [Payments -> PaymentRows] /\ payment'[p].at = "idle"
      /\ \A q \in Payments \ {p} : payment'[q] = payment[q]
  BY <1>0, IdlePaymentTyped DEF RecordPayment, BillingTypeOK, PaymentRows
<1>10. PaymentsKnown'
  BY <1>0, <1>5, <1>7, <1>9 DEF PaymentsKnown
<1>11. paid' \subseteq PaymentKeys
  BY <1>0 DEF RecordPayment, BillingTypeOK, PaymentsKnown
<1> QED
  BY <1>0, <1>4, <1>7, <1>8, <1>9, <1>10, <1>11
     DEF RecordPayment, BillingInv, BillingTypeOK, PaymentRows, ReviserRows, RevisersKnown

\* A registration that reads or stores leaves the contract.
LEMMA PayingStep ==
    ASSUME BillingInv, NEW p \in Payments, ReadContract(p) \/ StorePayment(p) PROVE BillingInv'
<1>0. /\ BillingTypeOK /\ Lived(today) /\ PaymentsKnown /\ RevisersKnown /\ ContractKnown
      /\ payment \in [Payments -> PaymentRows] /\ contract \in Contracts
  BY DEF BillingInv, BillingTypeOK, PaymentRows
<1>1. UNCHANGED <<today, contract, reviser, paid, changes, overwritten>>
  BY DEF ReadContract, StorePayment
<1>2. PICK row \in PaymentRows :
        /\ payment' = [payment EXCEPT ![p] = row]
        /\ row.at # "idle" =>
              /\ row.key \in PaymentKeys /\ Lived(row.paidAt)
              /\ row.read.day = 0 => row.read.due = NoDate
              /\ row.read.day # 0 => contract.day # 0
  <2>1. CASE ReadContract(p)
    <3>1. PICK key \in PaymentKeys, paidAt \in Dates, advance \in BOOLEAN :
            /\ paidAt = today \/ (Before(paidAt, today) /\ paidAt[2] = 1)
            /\ payment' = [payment EXCEPT ![p] = [at |-> "store", key |-> key,
                              paidAt |-> paidAt, advance |-> advance, read |-> contract]]
      BY <2>1 DEF ReadContract
    <3>2. Lived(paidAt)
      <4>1. /\ paidAt[1] \in Nat /\ paidAt[2] \in Nat /\ today[1] \in Nat /\ today[2] \in Nat
            /\ LastDay[1] \in Nat /\ LastDay[2] \in Nat
        BY <1>0, BillingBounds, DateOnItsDay, DateParts, Calendars DEF Lived
      <4> QED  BY <1>0, <3>1, <4>1 DEF Lived, Before
    <3> DEFINE row == [at |-> "store", key |-> key, paidAt |-> paidAt, advance |-> advance, read |-> contract]
    <3>3. row \in PaymentRows
      BY <1>0 DEF PaymentRows
    <3> QED  BY <1>0, <3>1, <3>2, <3>3 DEF ContractKnown
  <2>2. CASE StorePayment(p)
    <3>1. CASE payment[p].key \in paid
      BY <2>2, <3>1, IdlePaymentTyped DEF StorePayment
    <3>2. CASE payment[p].key \notin paid
      <4> DEFINE row == [payment[p] EXCEPT !.at = "write"]
      <4>1. /\ row \in PaymentRows /\ row.key = payment[p].key /\ row.paidAt = payment[p].paidAt
            /\ row.read = payment[p].read
        BY <1>0 DEF PaymentRows
      <4>2. payment' = [payment EXCEPT ![p] = row] /\ payment[p].at # "idle"
        BY <2>2, <3>2 DEF StorePayment
      <4> HIDE DEF row
      <4> QED  BY <1>0, <4>1, <4>2 DEF PaymentsKnown
    <3> QED  BY <3>1, <3>2
  <2> QED  BY <2>1, <2>2
<1>3. payment' \in [Payments -> PaymentRows] /\ payment'[p] = row
      /\ \A q \in Payments \ {p} : payment'[q] = payment[q]
  BY <1>0, <1>2
<1>4. PaymentsKnown'
  BY <1>0, <1>1, <1>2, <1>3 DEF PaymentsKnown
<1> QED
  BY <1>0, <1>1, <1>3, <1>4
     DEF BillingInv, BillingTypeOK, PaymentRows, RevisersKnown, ContractKnown, Lived

LEMMA RevisingStep ==
    ASSUME BillingInv, NEW r \in Revisers, AskRevision(r) \/ Revise(r) PROVE BillingInv'
<1>0. /\ BillingTypeOK /\ Lived(today) /\ PaymentsKnown /\ RevisersKnown /\ ContractKnown
      /\ reviser \in [Revisers -> ReviserRows] /\ contract \in Contracts /\ contract.day \in Nat
  BY DEF BillingInv, BillingTypeOK, ReviserRows, Contracts
<1>1. UNCHANGED <<today, payment, paid, overwritten>> /\ changes' \in 0..MaxChanges
  BY <1>0, BillingNumbers DEF AskRevision, Revise, BillingTypeOK
<1>2. CASE AskRevision(r)
  <2>1. PICK day \in DueDays \union {contract.day}, charged \in BOOLEAN :
          reviser' = [reviser EXCEPT ![r] = [at |-> "write",
             day |-> IF day = 0 THEN DefaultDay ELSE day, charged |-> charged]]
    BY <1>2 DEF AskRevision
  <2>2. PICK row \in ReviserRows : reviser' = [reviser EXCEPT ![r] = row] /\ row.day # 0
    <3>1. PICK n \in Nat : n # 0 /\ n = IF day = 0 THEN DefaultDay ELSE day
      BY <1>0, BillingNumbers
    <3>2. [at |-> "write", day |-> n, charged |-> charged] \in ReviserRows
      BY DEF ReviserRows
    <3>3. reviser' = [reviser EXCEPT ![r] = [at |-> "write", day |-> n, charged |-> charged]]
      BY <2>1, <3>1
    <3> QED  BY <3>1, <3>2, <3>3
  <2>3. reviser' \in [Revisers -> ReviserRows] /\ RevisersKnown'
    BY <1>0, <2>2 DEF RevisersKnown
  <2>4. UNCHANGED contract
    BY <1>2 DEF AskRevision
  <2> QED
    BY <1>0, <1>1, <2>3, <2>4
       DEF BillingInv, BillingTypeOK, ReviserRows, PaymentsKnown, ContractKnown, Lived
<1>3. CASE Revise(r)
  <2> DEFINE due == IF reviser[r].charged THEN NextDue(reviser[r].day, today) ELSE NoDate
  <2>1. reviser[r].day \in Nat /\ reviser[r].day # 0 /\ reviser[r].charged \in BOOLEAN
    BY <1>0, <1>3 DEF Revise, RevisersKnown, ReviserRows
  <2>2. due \in Dates \union {NoDate} /\ (due # NoDate => due = OnDay(due[1], reviser[r].day))
    <3>1. CASE reviser[r].charged
      BY <1>0, <2>1, <3>1, NextDueOnDay
    <3> QED  BY <3>1
  <2>3. contract' = [contract EXCEPT !.day = reviser[r].day, !.charged = reviser[r].charged, !.due = due]
    BY <1>0, <1>3 DEF Revise, Contracts
  <2> HIDE DEF due
  <2>4. contract' \in Contracts /\ contract'.due = due /\ contract'.day = reviser[r].day
    <3> HIDE DEF due
    <3> DEFINE day == reviser[r].day  charged == reviser[r].charged
    <3>1. contract' = [contract EXCEPT !.day = day, !.charged = charged, !.due = due]
          /\ day \in Nat /\ charged \in BOOLEAN
      BY <2>1, <2>3
    <3> HIDE DEF day, charged
    <3>2. contract' \in Contracts /\ contract'.due = due /\ contract'.day = day
      BY <1>0, <2>2, <3>1, ContractRevised
    <3> QED  BY <3>2 DEF day
  <2>5. ContractKnown' /\ PaymentsKnown'
    BY <1>0, <1>1, <2>1, <2>2, <2>4 DEF ContractKnown, OnItsDay, PaymentsKnown
  <2>6. reviser' \in [Revisers -> ReviserRows] /\ RevisersKnown'
    BY <1>0, <1>3 DEF Revise, RevisersKnown, ReviserRows
  <2> QED
    BY <1>0, <1>1, <2>4, <2>5, <2>6 DEF BillingInv, BillingTypeOK, ReviserRows, Lived
<1> QED  BY <1>2, <1>3

LEMMA CancellingStep == ASSUME BillingInv, CancelSubscription PROVE BillingInv'
<1>0. /\ BillingTypeOK /\ Lived(today) /\ PaymentsKnown /\ RevisersKnown /\ ContractKnown
      /\ contract \in Contracts
  BY DEF BillingInv, BillingTypeOK
<1>1. UNCHANGED <<today, payment, reviser, paid, overwritten>> /\ changes' \in 0..MaxChanges
  BY <1>0, BillingNumbers DEF CancelSubscription, BillingTypeOK
<1>2. contract' \in Contracts /\ contract'.due = contract.due /\ contract'.day = contract.day
  BY <1>0 DEF CancelSubscription, Contracts
<1>3. ContractKnown' /\ PaymentsKnown' /\ RevisersKnown'
  BY <1>0, <1>1, <1>2 DEF ContractKnown, OnItsDay, PaymentsKnown, RevisersKnown
<1> QED  BY <1>0, <1>1, <1>2, <1>3 DEF BillingInv, BillingTypeOK, Lived

LEMMA DayStep == ASSUME BillingInv, NextDay PROVE BillingInv'
<1>0. /\ BillingTypeOK /\ Lived(today) /\ PaymentsKnown /\ RevisersKnown /\ ContractKnown
      /\ Before(today, LastDay)
  BY DEF BillingInv, NextDay
<1>1. /\ today[1] \in Months /\ today[2] \in 1..Length[today[1]] /\ today[1] + 1 \in Months
      /\ LastDay[1] \in Months /\ LastDay[2] \in 1..Length[LastDay[1]]
  BY <1>0, BillingBounds, DateParts, MonthAfter DEF Lived
<1>2. UNCHANGED <<contract, payment, reviser, paid, changes, overwritten>>
  BY DEF NextDay
<1>3. CASE today[2] < Length[today[1]]
  <2>1. today' = <<today[1], today[2] + 1>>
    BY <1>3 DEF NextDay
  <2>2. today[2] + 1 \in 1..Length[today[1]]
    BY <1>1, <1>3, Calendars
  <2>3. <<today[1], today[2] + 1>> \in Dates
    BY <1>1, <2>2, DateOf
  <2>4. ~Before(LastDay, <<today[1], today[2] + 1>>)
    BY <1>0, <1>1, Calendars DEF Before
  <2> QED  BY <2>1, <2>3, <2>4, <1>0, <1>2
           DEF BillingInv, BillingTypeOK, PaymentsKnown, RevisersKnown, ContractKnown, OnItsDay, Lived
<1>4. CASE ~(today[2] < Length[today[1]])
  <2>1. today' = <<today[1] + 1, 1>>
    BY <1>4 DEF NextDay
  <2>2. 1 \in 1..Length[today[1] + 1]
    BY <1>1, Calendars
  <2>3. <<today[1] + 1, 1>> \in Dates
    BY <1>1, <2>2, DateOf
  <2>4. ~Before(LastDay, <<today[1] + 1, 1>>)
    <3>1. today[1] # LastDay[1]
      BY <1>0, <1>1, <1>4, Calendars DEF Before
    <3> QED  BY <1>0, <1>1, <3>1, Calendars DEF Before
  <2> QED  BY <2>1, <2>3, <2>4, <1>0, <1>2
           DEF BillingInv, BillingTypeOK, PaymentsKnown, RevisersKnown, ContractKnown, OnItsDay, Lived
<1> QED  BY <1>3, <1>4

LEMMA BillingStepInv == BillingInv /\ [BillingNext]_billingVars => BillingInv'
<1> SUFFICES ASSUME BillingInv, [BillingNext]_billingVars PROVE BillingInv'
  OBVIOUS
<1>1. CASE UNCHANGED billingVars
  BY <1>1 DEF billingVars, BillingInv, BillingTypeOK, PaymentsKnown, RevisersKnown, ContractKnown, OnItsDay, Lived
<1> QED  BY <1>1, PayingStep, SettlingStep, RevisingStep, CancellingStep, DayStep DEF BillingNext

LEMMA BillingAlwaysInv == BillingSpec => []BillingInv
BY BillingInitInv, BillingStepInv, PTL DEF BillingSpec

\* The due date is always a day of the calendar, whatever is paid, revised and cancelled
\* at the ends of months (billing.ts:45-110).
THEOREM BillingStaysTyped == BillingSpec => []BillingTypeOK
<1>1. BillingInv => BillingTypeOK  BY DEF BillingInv
<1> QED  BY BillingAlwaysInv, <1>1, PTL

\* For any calendar and any days of contracts: the due date is the day of the contract or
\* the last one of a shorter month, unless a registration wrote over a contract that had
\* changed since it read it (billing.ts:47).
THEOREM DueStaysOnDay == BillingSpec => []DueOnDueDay
<1>1. BillingInv => DueOnDueDay
  BY DEF BillingInv, ContractKnown, OnItsDay, DueOnDueDay
<1> QED  BY BillingAlwaysInv, <1>1, PTL

\* For any calendar and days of grace: who pays in the current month and has a day of
\* the month is in good standing from then on, whatever else is in flight
\* (billing.ts:282).
THEOREM PaidIsCurrent == BillingSpec => PaymentSettles
<1>1. BillingInv /\ [BillingNext]_billingVars
        => [\A p \in Payments :
              /\ RecordPayment(p) /\ payment[p].advance
              /\ payment[p].read.day # 0 /\ payment[p].paidAt[1] = today[1]
              => Access(contract') = "CURRENT"]_billingVars
  <2> SUFFICES ASSUME BillingInv, NEW p \in Payments, RecordPayment(p), payment[p].advance,
                      payment[p].read.day # 0, payment[p].paidAt[1] = today[1]
               PROVE  Access(contract') = "CURRENT"
    OBVIOUS
  <2> DEFINE due == Advance(payment[p].read.day, payment[p].read.due, payment[p].paidAt)
  <2>1. payment[p].at = "write" /\ contract \in Contracts /\ Lived(today)
    BY DEF BillingInv, BillingTypeOK, RecordPayment
  <2>2. due \in Dates \union {NoDate} /\ due[1] = today[1] + 1
    BY <2>1, SettledDue
  <2>3. contract'.due = due /\ contract'.status = "ACTIVE"
    BY <2>1 DEF RecordPayment, Settled, Contracts
  <2>4. today[1] \in Nat
    BY <2>1, DateParts, Calendars DEF Lived
  <2>5. due # NoDate /\ ~Before(due, today)
    BY <2>2, <2>4 DEF NoDate, Before
  <2> HIDE DEF due
  <2>6. DaysOverdue(contract') = 0
    BY <2>3, <2>5 DEF DaysOverdue
  <2> QED  BY <2>3, <2>6, BillingNumbers DEF Access
<1> QED  BY BillingAlwaysInv, <1>1, PTL DEF BillingSpec, PaymentSettles

-----------------------------------------------------------------------------
(***************************************************************************)
(* The company                                                             *)
(***************************************************************************)
\* Each part behaves in the composition as it does alone, so that the theorems above are
\* about what the runs check.
LEMMA CompanyPartsAsAlone ==
    CompanySpec => SweepSpec /\ TeamSpec /\ BillingSpec /\ KnowledgeSpec
<1>1. CompanyInit => SweepInit /\ TeamInit /\ BillingInit /\ KnowledgeInit
  BY DEF CompanyInit
<1>2. [CompanyNext]_companyVars =>
          /\ [SweepNext]_sweepVars /\ [TeamNext]_teamVars
          /\ [BillingNext]_billingVars /\ [KnowledgeNext]_knowledgeVars
  BY DEF CompanyNext, companyVars
<1> QED
  BY <1>1, <1>2, PTL DEF CompanySpec, SweepSpec, TeamSpec, BillingSpec, KnowledgeSpec
=============================================================================

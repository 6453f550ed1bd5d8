---------------------------- MODULE ManagementPlane -----------------------------
(***************************************************************************)
(* Configuration through the management plane.  Every mutation is a        *)
(* proposal: validate signs the desired state, the revision it was made    *)
(* for and an expiry; apply, which needs a configuration session, checks   *)
(* the signature, looks for a receipt under the idempotency key, compares  *)
(* the current revision, and in one D1 batch updates the row with a        *)
(* revision guard, inserts the receipt, whose trigger looks at the row,    *)
(* and appends an audit event.  The CLI then reads the state back.         *)
(*                                                                         *)
(* Requests are HTTP calls of the console or the CLI: every statement of a *)
(* handler is a step, answers may be lost and calls repeated.              *)
(***************************************************************************)
EXTENDS OperatorSessions

CONSTANTS
  Requests,            \* calls in flight
  Keys,                \* idempotency keys
  Principals, Groups, Drivers, Tokens, Quotas,   \* resources
  Bootstrap,           \* the principal of the bootstrap receipt
  InitialRows,         \* the rows at the start
  Workloads,           \* sets of proposals: what operators may want in one run
  ValidationLifetime,
  PageLimit,           \* events per page
  MaxCalls             \* bound on calls started

Resources == Principals \cup Groups \cup Drivers \cup Tokens \cup Quotas

\* A row: its revision (0: no such row), its text (name, label and note, limits
\* or configuration), enabled or active, and the members of a group.
Row(rev, text, on, members) == [rev |-> rev, text |-> text, on |-> on, members |-> members]
Absent == Row(0, "", FALSE, {})

\* A proposal, and its target; member is the principal of a membership.
Proposal(op, id, text, on, member) ==
  [op |-> op, id |-> id, text |-> text, on |-> on, member |-> member]

\* The table a proposal is about.
Table(p) ==
  CASE p.op = "quota" -> Quotas
    [] p.op = "token.annotation" -> Tokens
    [] p.op \in {"driver.state", "driver.register"} -> Drivers
    [] p.op \in {"principal.create", "principal.update"} -> Principals
    [] OTHER -> Groups

\* A row has members only while it exists (the foreign keys of
\* vfs_group_members).
RowOK(row) ==
  row.rev \in Nat /\ row.members \subseteq Principals /\ (row.rev = 0 => row.members = {})

\* Every resource is of one table, and the id of a new group is a fresh UUID
\* (normalize_and_validate_shape): no two proposals create the same one.
ASSUME ManagementPlaneAssumption ==
  /\ Bootstrap \in Principals
  /\ Principals \cap Groups = {}
  /\ (Principals \cup Groups) \cap (Drivers \cup Tokens \cup Quotas) = {}
  /\ DOMAIN InitialRows = Resources /\ \A r \in Resources : RowOK(InitialRows[r])
  /\ \A w \in Workloads :
       /\ \A p \in w : /\ p.id \in Table(p)
                       /\ p.op \in {"membership.add", "membership.remove"} => p.member \in Principals
       /\ \A p, q \in w : p.op = "group.create" /\ q.op = "group.create" /\ p.id = q.id => p = q
  /\ {ValidationLifetime, PageLimit} \subseteq Nat \ {0} /\ MaxCalls \in Nat /\ MaxNow > 2

VARIABLES
  rows,      \* the tables of principals, groups, drivers, token metadata, quotas
  receipts,  \* management_mutation_receipts and management_creation_receipts
  events,    \* the ids of vfs_audit_events are 1..events
  req,       \* calls in flight
  misled,    \* proposals the CLI reported as done though what it read was not as asked
  watch,     \* a client paging through the events
  work,      \* the proposals of this run
  calls

managementVars == <<rows, receipts, events, req, misled, watch, work, calls>>
vars == <<sessionVars, managementVars>>

-----------------------------------------------------------------------------
(* Records and helpers *)

\* A call: the signed validation is <<p, expected, expires>>.
Call(pc, p, expected, expires, key) ==
  [pc |-> pc, p |-> p, expected |-> expected, expires |-> expires, key |-> key]
NoProposal == Proposal("", "", "", FALSE, "")
NoCall == Call("idle", NoProposal, 0, 0, "")

Watch(pc, after, cursor) == [pc |-> pc, after |-> after, cursor |-> cursor]

Creates(p) == p.op \in {"driver.register", "principal.create", "group.create"}
Access(p) == p.op \in {"principal.create", "principal.update", "group.create", "group.update",
                       "group.delete", "membership.add", "membership.remove"}

\* The kind column of the receipt: access has one for each table.
Kind(p) ==
  IF Access(p) THEN IF Creates(p) THEN "access.create" ELSE "access.mutation" ELSE p.op

Final(p, expected) == IF Creates(p) THEN 1 ELSE expected + 1

Step(h, pc) == [req EXCEPT ![h].pc = pc]
End(h) == req' = [req EXCEPT ![h] = NoCall]

\* The revision a proposal is made for.
Expected(p) == IF Creates(p) THEN 0 ELSE rows[p.id].rev

-----------------------------------------------------------------------------
(* Whether the current state admits a proposal *)

\* load_policy, load_metadata: the row is at the revision.
PolicyCurrent(p, e) == rows[p.id].rev = e /\ e > 0
MetadataCurrent(p, e) == rows[p.id].rev = e /\ e > 0

\* load_driver: the state changes, and is a change.
DriverStateCurrent(p, e) == rows[p.id].rev = e /\ e > 0 /\ rows[p.id].on # p.on

DriverMissing(p, e) == rows[p.id].rev = 0

\* validate_current_state of the access kinds.
AccessCurrent(p, e) ==
  LET row == rows[p.id]
  IN CASE p.op = "principal.create" -> row.rev = 0
       [] p.op = "principal.update" ->
            /\ row.rev = e /\ e > 0
            /\ ~p.on => /\ p.id # Bootstrap
                        /\ \E q \in Principals \ {p.id} : rows[q].rev > 0 /\ rows[q].on
       [] p.op = "group.create" -> TRUE
       [] p.op \in {"group.update", "group.delete"} -> row.rev = e /\ e > 0
       [] OTHER ->
            /\ row.rev = e /\ e > 0 /\ rows[p.member].rev > 0 /\ rows[p.member].on
            /\ (p.member \in row.members) = (p.op = "membership.remove")

Current(p, e) ==
  CASE p.op = "quota" -> PolicyCurrent(p, e)
    [] p.op = "token.annotation" -> MetadataCurrent(p, e)
    [] p.op = "driver.state" -> DriverStateCurrent(p, e)
    [] p.op = "driver.register" -> DriverMissing(p, e)
    [] OTHER -> AccessCurrent(p, e)

-----------------------------------------------------------------------------
(* The statements of the batch *)

\* An UPDATE guarded by the revision may match no row.
Guarded(p, e, row) == IF rows[p.id].rev = e THEN [rows EXCEPT ![p.id] = row] ELSE rows

QuotaWrite(p, e) == Guarded(p, e, Row(e + 1, p.text, TRUE, {}))
AnnotationWrite(p, e) == Guarded(p, e, Row(e + 1, p.text, TRUE, {}))
StateWrite(p, e) == Guarded(p, e, Row(e + 1, rows[p.id].text, p.on, {}))
RegisterWrite(p, e) == [rows EXCEPT ![p.id] = Row(1, p.text, FALSE, {})]

\* mutation_statements.  Removing a principal that is no longer a member
\* matches nothing; adding and removing bump the revision by a trigger.
AccessWrite(p, e) ==
  LET row == rows[p.id]
  IN CASE p.op = "principal.create" -> [rows EXCEPT ![p.id] = Row(1, p.text, TRUE, {})]
       [] p.op = "principal.update" -> Guarded(p, e, Row(e + 1, p.text, p.on, {}))
       [] p.op = "group.create" -> [rows EXCEPT ![p.id] = Row(1, p.text, TRUE, {})]
       [] p.op = "group.update" -> Guarded(p, e, Row(e + 1, p.text, TRUE, row.members))
       [] p.op = "group.delete" -> Guarded(p, e, Absent)
       [] p.op = "membership.add" ->
            Guarded(p, e, Row(e + 1, row.text, TRUE, row.members \cup {p.member}))
       [] OTHER -> IF p.member \in row.members
                   THEN Guarded(p, e, Row(e + 1, row.text, TRUE, row.members \ {p.member}))
                   ELSE rows

Write(p, e) ==
  CASE p.op = "quota" -> QuotaWrite(p, e)
    [] p.op = "token.annotation" -> AnnotationWrite(p, e)
    [] p.op = "driver.state" -> StateWrite(p, e)
    [] p.op = "driver.register" -> RegisterWrite(p, e)
    [] OTHER -> AccessWrite(p, e)

\* Primary keys, the unique name of a group and the membership triggers.
NameFree(p) == \A g \in Groups \ {p.id} : rows[g].rev > 0 => rows[g].text # p.text
Aborts(p, e) ==
  \/ Creates(p) /\ rows[p.id].rev > 0
  \/ p.op = "group.create" /\ ~NameFree(p)
  \/ p.op = "group.update" /\ rows[p.id].rev = e /\ ~NameFree(p)
  \/ p.op = "membership.add" /\ (rows[p.id].rev # e \/ p.member \in rows[p.id].members)
  \/ p.op = "membership.remove" /\ p.member \in rows[p.id].members /\ rows[p.id].rev # e

\* Mutation: the trigger of a quota receipt looks at the revision alone.
WitnessedLoosely(p, e, after) ==
  LET row == after[p.id]
  IN CASE p.op = "group.delete" -> row.rev = 0
       [] OTHER -> row.rev = Final(p, e)
\* The receipt's trigger, on the rows after the update.  Access checks the
\* revision but not the content.
Witnessed(p, e, after) ==
  LET row == after[p.id]
  IN CASE p.op \in {"quota", "token.annotation"} -> row.rev = e + 1 /\ row.text = p.text
       [] p.op = "driver.state" -> row.rev = e + 1 /\ row.on = p.on
       [] p.op = "driver.register" -> row.rev = 1 /\ ~row.on /\ row.text = p.text
       [] p.op = "group.delete" -> row.rev = 0
       [] OTHER -> row.rev = Final(p, e)

\* What the operator asked for.
Holds(p, after) ==
  LET row == after[p.id]
  IN CASE p.op \in {"quota", "token.annotation", "group.create", "group.update"} ->
            row.rev > 0 /\ row.text = p.text
       [] p.op = "driver.state" -> row.rev > 0 /\ row.on = p.on
       [] p.op = "driver.register" -> row.rev > 0 /\ row.text = p.text /\ ~row.on
       [] p.op = "principal.create" -> row.rev > 0 /\ row.text = p.text /\ row.on
       [] p.op = "principal.update" -> row.rev > 0 /\ row.text = p.text /\ row.on = p.on
       [] p.op = "group.delete" -> row.rev = 0
       [] p.op = "membership.add" -> row.rev > 0 /\ p.member \in row.members
       [] OTHER -> row.rev > 0 /\ p.member \notin row.members

-----------------------------------------------------------------------------
(* Receipts *)

\* applied and holds record whether the guarded update matched the row, and
\* whether the rows were as asked for when the receipt was written.
Receipt(c, applied, holds) ==
  [kind |-> Kind(c.p), key |-> c.key, p |-> c.p, expected |-> c.expected,
   expires |-> c.expires, applied |-> applied, holds |-> holds]

\* load_receipt: access looks in both tables, mutations first.
Stored(c) ==
  LET under(kind) == {r \in receipts : r.kind = kind /\ r.key = c.key}
  IN IF ~Access(c.p) THEN under(Kind(c.p))
     ELSE IF under("access.mutation") # {} THEN under("access.mutation")
     ELSE under("access.create")

\* Mutation: a receipt for the resource is enough.
ReplaysResource(c, r) == r.p.id = c.p.id
\* replay: the same resource, request and validation.
Replays(c, r) == r.p = c.p /\ r.expected = c.expected /\ r.expires = c.expires

\* The key is free in the table the receipt goes to.
KeyFree(c) == ~\E r \in receipts : r.kind = Kind(c.p) /\ r.key = c.key

-----------------------------------------------------------------------------
(* validate *)

\* The CLI and the console propose for the revision they show; the call ends
\* here unless the row is there and admits the proposal.  The apply call that
\* follows is sent with some idempotency key.
Validate(h, p) ==
  /\ req[h] = NoCall /\ calls < MaxCalls
  /\ Authorized /\ Current(p, Expected(p))
  /\ calls' = calls + 1
  /\ \E k \in Keys :
       req' = [req EXCEPT ![h] = Call("sent", p, Expected(p), now + ValidationLifetime, k)]
  /\ UNCHANGED <<sessionVars, rows, receipts, events, misled, watch, work>>

ValidateQuota(h, p) == p.op = "quota" /\ Validate(h, p)
ValidateAnnotation(h, p) == p.op = "token.annotation" /\ Validate(h, p)
ValidateState(h, p) == p.op = "driver.state" /\ Validate(h, p)
ValidateRegistration(h, p) == p.op = "driver.register" /\ Validate(h, p)
ValidateAccess(h, p) == Access(p) /\ Validate(h, p)

\* A call is sent once more while the first one may still run: a lost answer,
\* or a second click.
Resend(h, g) ==
  /\ req[h] # NoCall /\ req[g] = NoCall /\ calls < MaxCalls
  /\ calls' = calls + 1
  /\ req' = [req EXCEPT ![g] = [req[h] EXCEPT !.pc = "sent"]]
  /\ UNCHANGED <<sessionVars, rows, receipts, events, misled, watch, work>>

-----------------------------------------------------------------------------
(* apply *)

\* The handler accepts the call: configuration session, expiry, digest.
Accepted(h) == ConfigurationAuthorized /\ req[h].expires >= now

\* apply up to the receipt under the key.
Load(h) ==
  /\ req[h].pc = "sent"
  /\ IF ~Accepted(h) THEN End(h)
     ELSE \/ Stored(req[h]) = {} /\ req' = Step(h, "check")
          \/ \E r \in Stored(req[h]) :
               IF Replays(req[h], r) THEN req' = Step(h, "answered") ELSE End(h)
  /\ UNCHANGED <<sessionVars, rows, receipts, events, misled, watch, work, calls>>

Check(h) ==
  /\ req[h].pc = "check"
  /\ IF Current(req[h].p, req[h].expected) THEN req' = Step(h, "batch") ELSE End(h)
  /\ UNCHANGED <<sessionVars, rows, receipts, events, misled, watch, work, calls>>

\* One batch: update, receipt, audit event; all or nothing.
Commit(h) ==
  LET c == req[h]
      after == Write(c.p, c.expected)
  IN /\ c.pc = "batch" /\ KeyFree(c)
     /\ ~Aborts(c.p, c.expected) /\ Witnessed(c.p, c.expected, after)
     /\ rows' = after /\ events' = events + 1
     /\ receipts' = receipts \cup
          {Receipt(c, Expected(c.p) = c.expected, Holds(c.p, after))}
     /\ req' = Step(h, "answered")
     /\ UNCHANGED <<sessionVars, misled, watch, work, calls>>

BatchFails(c) ==
  \/ ~KeyFree(c) \/ Aborts(c.p, c.expected)
  \/ ~Witnessed(c.p, c.expected, Write(c.p, c.expected))

\* The handlers reload the receipt after a failed batch, but for the quotas,
\* whose error goes to the caller.
Rollback(h) ==
  /\ req[h].pc = "batch" /\ BatchFails(req[h])
  /\ IF req[h].p.op = "quota" THEN End(h) ELSE req' = Step(h, "reload")
  /\ UNCHANGED <<sessionVars, rows, receipts, events, misled, watch, work, calls>>

Reload(h) ==
  /\ req[h].pc = "reload"
  /\ IF \E r \in Stored(req[h]) : Replays(req[h], r) THEN req' = Step(h, "answered") ELSE End(h)
  /\ UNCHANGED <<sessionVars, rows, receipts, events, misled, watch, work, calls>>

ApplyQuota(h) == req[h].p.op = "quota" /\ (Load(h) \/ Check(h) \/ Commit(h) \/ Rollback(h))
Apply(h) == Load(h) \/ Check(h) \/ Commit(h) \/ Rollback(h) \/ Reload(h)
ApplyAnnotation(h) == req[h].p.op = "token.annotation" /\ Apply(h)
ApplyState(h) == req[h].p.op = "driver.state" /\ Apply(h)
ApplyRegistration(h) == req[h].p.op = "driver.register" /\ Apply(h)
ApplyAccess(h) == Access(req[h].p) /\ Apply(h)

-----------------------------------------------------------------------------
(* The answer at the client *)

\* What each CLI command compares of the state it reads back.
QuotaConfirms(p, e) == rows[p.id].rev = e + 1 /\ rows[p.id].text = p.text
AnnotationConfirms(p, e) == rows[p.id].rev = e + 1 /\ rows[p.id].text = p.text
StateConfirms(p, e) == rows[p.id].rev = e + 1 /\ rows[p.id].on = p.on
RegistrationConfirms(p, e) == rows[p.id].rev = 1 /\ rows[p.id].text = p.text /\ ~rows[p.id].on
AccessConfirms(p, e) ==
  /\ rows[p.id].rev = IF p.op = "group.delete" THEN 0 ELSE Final(p, e)
  /\ p.op \in {"membership.add", "membership.remove"} =>
       (p.member \in rows[p.id].members) = (p.op = "membership.add")

\* The client checks the receipt against its validation, and the CLI reads the
\* state back before it reports success.
Finish(h, confirmed) ==
  /\ req[h].pc = "answered" /\ Authorized
  /\ misled' = IF confirmed /\ ~Holds(req[h].p, rows) THEN misled \cup {req[h].p} ELSE misled
  /\ End(h)
  /\ UNCHANGED <<sessionVars, rows, receipts, events, watch, work, calls>>

FinishQuota(h) ==
  req[h].p.op = "quota" /\ Finish(h, QuotaConfirms(req[h].p, req[h].expected))
FinishAnnotation(h) ==
  req[h].p.op = "token.annotation" /\ Finish(h, AnnotationConfirms(req[h].p, req[h].expected))
FinishState(h) ==
  req[h].p.op = "driver.state" /\ Finish(h, StateConfirms(req[h].p, req[h].expected))
FinishRegistration(h) ==
  req[h].p.op = "driver.register" /\ Finish(h, RegistrationConfirms(req[h].p, req[h].expected))
FinishAccess(h) ==
  Access(req[h].p) /\ Finish(h, AccessConfirms(req[h].p, req[h].expected))

\* The answer is lost, or the caller gives up; a handler that runs goes on.
GiveUp(h) ==
  /\ req[h].pc = "answered"
  /\ End(h)
  /\ UNCHANGED <<sessionVars, rows, receipts, events, misled, watch, work, calls>>

-----------------------------------------------------------------------------
(* Events *)

\* events: the high-water mark first.
PinCursor ==
  /\ watch.pc = "idle" /\ Authorized /\ watch.after < events
  /\ watch' = Watch("pinned", watch.after, events)
  /\ UNCHANGED <<sessionVars, rows, receipts, events, req, misled, work, calls>>

\* Mutation: the rows are not bounded by the pinned cursor.
PageRowsUnbounded(after, cursor) == {id \in 1..events : id > after /\ id <= after + PageLimit + 1}
\* The rows of the page, one more than the limit to learn whether more follow.
PageRows(after, cursor) ==
  {id \in 1..events : id > after /\ id <= cursor /\ id <= after + PageLimit + 1}

\* validate_event_page of the client.
ValidPage(after, cursor, rowsOf, next, more) ==
  /\ cursor >= after /\ next >= after /\ next <= cursor /\ Cardinality(rowsOf) <= PageLimit
  /\ \A id \in rowsOf : id > after /\ id <= cursor
  /\ next = (IF rowsOf = {} THEN after ELSE CHOOSE m \in rowsOf : \A n \in rowsOf : m >= n)
  /\ more => Cardinality(rowsOf) = PageLimit /\ next < cursor
  /\ ~more => next = cursor

ReadPage ==
  LET found == PageRows(watch.after, watch.cursor)
      more == Cardinality(found) > PageLimit
      page == {id \in found : id <= watch.after + PageLimit}
      next == IF page = {} THEN watch.after ELSE CHOOSE m \in page : \A n \in page : m >= n
  IN /\ watch.pc = "pinned"
     /\ watch' = IF ValidPage(watch.after, watch.cursor, page, next, more)
                 THEN Watch("idle", next, 0)
                 ELSE Watch("rejected", watch.after, watch.cursor)
     /\ UNCHANGED <<sessionVars, rows, receipts, events, req, misled, work, calls>>

-----------------------------------------------------------------------------

\* Two ways to start, each with the other's bounds spent: nobody has logged in,
\* or an operator is logged in with a configuration session and goes to work.
Init ==
  /\ \/ SessionInit /\ calls = MaxCalls /\ work = {}
     \/ /\ now = MaxNow - 2 /\ opened = MaxSessions /\ fails = MaxFails /\ calls = 0 /\ work \in Workloads
        /\ admin = Session(MaxSessions, now + SessionLifetime)
        /\ config = Session(MaxSessions, now + ConfigLifetime)
        /\ limits = [s \in Scopes |-> NoLimit]
        /\ attempt = [a \in Attempts |-> NoAttempt]
  /\ rows = InitialRows /\ receipts = {} /\ events = 0
  /\ req = [h \in Requests |-> NoCall] /\ misled = {}
  /\ watch = Watch("idle", 0, 0)

Next ==
  \/ SessionNext /\ UNCHANGED managementVars
  \/ \E h \in Requests :
       \/ \E p \in work :
            \/ ValidateQuota(h, p) \/ ValidateAnnotation(h, p) \/ ValidateState(h, p)
            \/ ValidateRegistration(h, p) \/ ValidateAccess(h, p)
       \/ \E g \in Requests : Resend(h, g)
       \/ ApplyQuota(h) \/ ApplyAnnotation(h) \/ ApplyState(h)
       \/ ApplyRegistration(h) \/ ApplyAccess(h)
       \/ FinishQuota(h) \/ FinishAnnotation(h) \/ FinishState(h)
       \/ FinishRegistration(h) \/ FinishAccess(h) \/ GiveUp(h)
  \/ PinCursor \/ ReadPage

Spec == Init /\ [][Next]_vars

-----------------------------------------------------------------------------
(* Properties *)

\* Types of every variable; every receipt has its audit event.
TypeOK ==
  /\ SessionTypeOK
  /\ DOMAIN rows = Resources /\ \A r \in Resources : RowOK(rows[r])
  /\ IsFiniteSet(receipts) /\ events = Cardinality(receipts)
  /\ work \in Workloads \cup {{}} /\ misled \subseteq work /\ calls \in 0..MaxCalls
  /\ req \in [Requests -> [pc : {"idle", "sent", "check", "batch", "reload", "answered"},
                           p : work \cup {NoProposal}, expected : Nat, expires : Nat,
                           key : Keys \cup {""}]]
  /\ watch \in [pc : {"idle", "pinned", "rejected"}, after : 0..events, cursor : 0..events]

\* A receipt stands for what it says: when it was written the resource was as
\* the operator had asked, though its update may have matched no row because
\* another operator was first.  Likewise for what the CLI reports after its
\* readback.  Left out are updates of a principal or a group, whose receipts
\* look at the revision alone.  With the types.
ReceiptsHonest ==
  LET content(p) == p.op \notin {"principal.update", "group.update"}
  IN /\ TypeOK
     /\ \A r \in receipts : content(r.p) => r.holds
     /\ \A p \in misled : ~content(p)

\* A key is spent once: a kind's receipts have different keys, and no call is
\* answered without its own receipt.
AnsweredByReceipt ==
  /\ \A r, s \in receipts : r.kind = s.kind /\ r.key = s.key => r = s
  /\ \A h \in Requests : req[h].pc = "answered" =>
       \E r \in receipts : /\ r.key = req[h].key /\ r.p = req[h].p
                          /\ r.expected = req[h].expected /\ r.expires = req[h].expires

\* However many events are appended while a page is read, the client accepts
\* every page and its position never passes what it has received.
PagesContinuous == watch.pc # "rejected"

\* What the documentation says of apply: the revision the proposal was made for
\* is still the current one when the mutation commits.
ApplyOnlyIfCurrent == \A r \in receipts : r.applied
=============================================================================

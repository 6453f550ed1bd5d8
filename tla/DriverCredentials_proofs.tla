------------------------ MODULE DriverCredentials_proofs ------------------------
(***************************************************************************)
(* Proofs about DriverCredentials, for every set of renewals, operators    *)
(* and accounts and every length of a claim:                               *)
(*   - the schedule follows the envelope;                                  *)
(*   - the account behind a driver never changes;                          *)
(*   - a receipt's credential is sealed, unless a rotation of the same     *)
(*     second stood in for it;                                             *)
(*   - renewals that keep to their claims never share a refresh token.     *)
(*                                                                         *)
(* What a renewal or an apply read before it called the provider is old    *)
(* when it writes.  The invariants say what of it is still true: a         *)
(* revision that was read is at most the envelope's (AuthorityInv), and a  *)
(* renewal that still holds the current revision is the one whose fence    *)
(* the claimed row carries (FenceInv).                                     *)
(***************************************************************************)
EXTENDS DriverCredentials, TLAPS

-----------------------------------------------------------------------------
(* The inductive invariant *)

Active(w) == worker[w].pc # "idle"

InFlight(o) == op[o].pc \in {"loaded", "claimed", "authorized", "refused"}

\* Every renewal kept to its claim, and no receipt was eclipsed.
Clean == ~strayed /\ Eclipsed = {}

\* A receipt of this second is there.
Receipted(second) == \E p \in Ops : receipt[p] # NoReceipt /\ receipt[p].rotated = second

\* The clock, and the second each handler read from it.
ClockInv ==
  /\ now >= 1
  /\ \A w \in Workers : worker[w].at <= now
  /\ \A w \in Workers : worker[w].pc = "idle" => worker[w] = NoTask
  /\ \A o \in Ops : InFlight(o) => op[o].at > 0
  /\ \A o \in Ops : op[o].pc = "proposed" => op[o].tries < MaxTries

ScheduleInv == row.observed = env.rev /\ (row.state = "none" <=> env.rev = 0)

\* What was read of the envelope: its revision is not ahead, and its account
\* is the envelope's.
AuthorityInv ==
  /\ \A o \in Ops : InFlight(o) =>
       op[o].rev <= env.rev /\ (op[o].rev > 0 => op[o].account = env.token.account)
  /\ \A w \in Workers : Holding(w) =>
       /\ 0 < worker[w].rev /\ worker[w].rev <= env.rev
       /\ worker[w].token.account = env.token.account

\* The envelope's last rotation is a renewal's or has a receipt.
RotationInv == env.rotated > 0 => env.rotated \in renewedAt \/ Receipted(env.rotated)

\* Fences are won once, and a claimed row is leased from its winner's second.
WonInv ==
  /\ \A w \in Workers : worker[w].won <= row.fence
  /\ \A v, w \in Workers : worker[v].won > 0 /\ worker[v].won = worker[w].won => v = w
  /\ \A w \in Workers :
       worker[w].pc = "claimed" \/ Holding(w) => worker[w].won > 0
  /\ \A w \in Workers : row.state = "claimed" /\ worker[w].won > 0 /\ worker[w].won = row.fence
                          => row.due = worker[w].at + ClaimSeconds

\* While nothing strayed, a renewal is within its claim and loaded its own.
LeaseInv ==
  ~strayed => \A w \in Workers :
    /\ Active(w) => now < worker[w].at + ClaimSeconds
    /\ Holding(w) => worker[w].fence = worker[w].won

\* Whoever holds the current revision holds the claim.
FenceInv ==
  Clean => \A w \in Workers : Holding(w) /\ worker[w].rev = env.rev =>
    row.state = "claimed" /\ row.fence = worker[w].won

IInv ==
  /\ TypeOK /\ ClockInv /\ ScheduleInv /\ AuthorityInv /\ RotationInv
  /\ ReceiptHoldsCredential /\ WonInv /\ LeaseInv /\ FenceInv /\ SpentOnce

-----------------------------------------------------------------------------
(* Types *)

LEMMA MaxOfTwo ==
  ASSUME NEW a \in Int, NEW b \in Int
  PROVE  Max({a, b}) \in {a, b} /\ Max({a, b}) >= a /\ Max({a, b}) >= b
<1>1. \E x \in {a, b} : \A y \in {a, b} : x >= y
  <2>1. CASE a >= b
    BY <2>1
  <2>2. CASE b >= a
    BY <2>2
  <2> QED BY <2>1, <2>2
<1>2. Max({a, b}) \in {a, b} /\ \A y \in {a, b} : Max({a, b}) >= y
  BY <1>1 DEF Max
<1> QED BY <1>2

LEMMA RefreshAfterNat ==
  ASSUME NEW e \in Nat, NEW at \in Nat
  PROVE  RefreshAfter(e, at) \in Nat \ {0}
<1>1. e - Lead \in Int /\ at + 1 \in Int
  BY DriverCredentialsAssumption
<1>2. RefreshAfter(e, at) \in {e - Lead, at + 1} /\ RefreshAfter(e, at) >= at + 1
  BY <1>1, MaxOfTwo DEF RefreshAfter
<1> QED BY <1>1, <1>2

LEMMA FreshToken ==
  ASSUME TypeOK, NEW t \in TokenSet
  PROVE  Fresh(t) \in TokenSet /\ Fresh(t).account = t.account /\ Fresh(t).id \in Nat
BY DEF TypeOK, Fresh, Token, TokenSet, TokenIds

LEMMA OpTokenType ==
  ASSUME NEW o \in Ops
  PROVE  OpToken(o) \in TokenSet
BY DriverCredentialsAssumption DEF OpToken, Token, TokenSet, TokenIds

LEMMA ExpiryNat ==
  ASSUME TypeOK
  PROVE  Expiry \in Nat
BY DriverCredentialsAssumption DEF TypeOK, Expiry

\* What the provider's answer does to its own state.
LEMMA ProviderTypes ==
  ASSUME TypeOK, NEW t \in TokenSet, Exchanged(t) \/ Unavailable(t) \/ Rejected(t)
  PROVE  live' \subseteq TokenIds /\ renewals' \in Nat /\ faults' \in 0 .. MaxFaults
<1>1. CASE Exchanged(t)
  <2>1. Fresh(t).id \in TokenIds
    BY FreshToken DEF TokenIds
  <2> QED BY <1>1, <2>1 DEF Exchanged, TypeOK
<1>2. CASE Unavailable(t)
  BY <1>2, DriverCredentialsAssumption DEF Unavailable, Fault, TypeOK
<1>3. CASE Rejected(t)
  BY <1>3, DriverCredentialsAssumption DEF Rejected, Fault, TypeOK
<1> QED BY <1>1, <1>2, <1>3

TaskSet ==
  [pc : {"idle", "candidate", "claimed", "loaded", "renewed", "retry", "reauth_required"},
   at : Nat, won : Nat, rev : Nat, fence : Nat, token : TokenSet, expires : Nat]
ApplySet ==
  [pc : {"idle", "proposed", "loaded", "claimed", "authorized", "refused"}, at : Nat,
   tries : 0 .. MaxTries, expected : Nat, driverRev : Nat, rev : Nat,
   account : Accounts \cup {Nobody}, fence : Nat, token : TokenSet, expires : Nat]
EnvelopeSet == [rev : Nat, token : TokenSet, expires : Nat, rotated : Nat]
RowSet == [state : {"none", "ready", "claimed", "retry", "reauth_required"},
           observed : Nat, fence : Nat, due : Nat]

LEMMA TypeParts ==
  ASSUME TypeOK
  PROVE  /\ worker \in [Workers -> TaskSet] /\ op \in [Ops -> ApplySet]
         /\ env \in EnvelopeSet /\ row \in RowSet
BY DEF TypeOK, TaskSet, ApplySet, EnvelopeSet, RowSet

LEMMA NoTaskType == NoTask \in TaskSet /\ NoToken \in TokenSet
BY DEF NoTask, Task, TaskSet, NoToken, Token, TokenSet, TokenIds

LEMMA ApplyType ==
  ASSUME NEW pc \in {"idle", "loaded"}, NEW at \in Nat, NEW tries \in 0 .. MaxTries
  PROVE  Apply(pc, at, tries) \in ApplySet
BY NoTaskType DEF Apply, ApplySet

LEMMA InitType == Init => TypeOK
<1> SUFFICES ASSUME Init PROVE TypeOK
  OBVIOUS
<1>1. env \in EnvelopeSet /\ row \in RowSet
  BY NoTaskType, DriverCredentialsAssumption
  DEF Init, NoEnvelope, Envelope, EnvelopeSet, NoRow, Row, RowSet, Token, TokenSet, TokenIds
<1>2. row.due > 0 <=> row.state \in {"ready", "claimed", "retry"}
  BY DEF Init, NoRow, Row
<1>3. worker \in [Workers -> TaskSet]
  BY NoTaskType DEF Init
<1>4. op \in [Ops -> ApplySet]
  BY ApplyType DEF Init
<1>5. receipt \in [Ops -> [token : TokenSet, rotated : Nat]]
  BY NoTaskType DEF Init, NoReceipt, Receipt
<1>6. env.token.id \in TokenIds
  BY <1>1 DEF EnvelopeSet, TokenSet
<1>7. driver \in [rev : Nat \ {0}, enabled : BOOLEAN]
  BY DriverCredentialsAssumption DEF Init
<1>8. claim \in [key : Ops \cup {"none"}, fence : Nat, lease : Nat]
  BY DEF Init, NoClaim, Claim
<1> QED
  BY <1>1, <1>2, <1>3, <1>4, <1>5, <1>6, <1>7, <1>8, DriverCredentialsAssumption, ZenonT(60)
  DEF Init, TypeOK, TaskSet, ApplySet, EnvelopeSet, RowSet, TokenIds

\* A step that leaves a record of each kind in its set keeps the types.
LEMMA TypeStep ==
  ASSUME /\ now' \in Nat
         /\ driver' \in [rev : Nat \ {0}, enabled : BOOLEAN]
         /\ env' \in EnvelopeSet
         /\ row' \in RowSet /\ (row'.due > 0 <=> row'.state \in {"ready", "claimed", "retry"})
         /\ claim' \in [key : Ops \cup {"none"}, fence : Nat, lease : Nat]
         /\ live' \subseteq TokenIds /\ renewals' \in Nat /\ faults' \in 0 .. MaxFaults
         /\ worker' \in [Workers -> TaskSet] /\ op' \in [Ops -> ApplySet]
         /\ receipt' \in [Ops -> [token : TokenSet, rotated : Nat]]
         /\ stored' \subseteq TokenIds /\ renewedAt' \subseteq Nat /\ strayed' \in BOOLEAN
  PROVE  TypeOK'
BY DEF TypeOK, TaskSet, ApplySet, EnvelopeSet, RowSet

\* A step of a worker that leaves the databases' rows alone.
LEMMA WorkerOnlyType ==
  ASSUME TypeOK, worker' \in [Workers -> TaskSet], strayed' \in BOOLEAN,
         live' \subseteq TokenIds, renewals' \in Nat, faults' \in 0 .. MaxFaults,
         UNCHANGED <<now, driver, env, row, claim, op, receipt, stored, renewedAt>>
  PROVE  TypeOK'
BY TypeStep DEF TypeOK, TaskSet, ApplySet, EnvelopeSet, RowSet

\* A step of an operator that leaves all but the claim alone.
LEMMA OpOnlyType ==
  ASSUME TypeOK, op' \in [Ops -> ApplySet],
         claim' \in [key : Ops \cup {"none"}, fence : Nat, lease : Nat],
         live' \subseteq TokenIds, renewals' \in Nat, faults' \in 0 .. MaxFaults,
         UNCHANGED <<now, driver, env, row, worker, receipt, stored, renewedAt, strayed>>
  PROVE  TypeOK'
BY TypeStep DEF TypeOK, TaskSet, ApplySet, EnvelopeSet, RowSet

LEMMA BeginType ==
  ASSUME TypeOK, NEW w \in Workers, Begin(w)
  PROVE  TypeOK'
<1>1. Task("candidate", now, 0, 0, 0, NoToken, 0) \in TaskSet
  BY NoTaskType DEF TypeOK, Task, TaskSet
<1>2. worker' \in [Workers -> TaskSet]
  BY <1>1, TypeParts DEF Begin
<1> QED BY <1>2, WorkerOnlyType DEF Begin, TypeOK

LEMMA ClaimRowType ==
  ASSUME TypeOK, NEW w \in Workers, ClaimRow(w)
  PROVE  TypeOK'
<1> DEFINE t == worker[w]
<1>0. t \in TaskSet /\ row \in RowSet
  BY TypeParts
<1>1. CASE Due(t.at)
  <2>1. row' = Row("claimed", row.observed, row.fence + 1, t.at + ClaimSeconds)
    BY <1>1 DEF ClaimRow
  <2>2. row' \in RowSet /\ row'.due > 0 /\ row'.state = "claimed"
    BY <2>1, <1>0, DriverCredentialsAssumption DEF Row, RowSet, TaskSet
  <2>3. worker' = [worker EXCEPT ![w] = [t EXCEPT !.pc = "claimed", !.won = row.fence + 1]]
    BY <1>1, <1>0, TypeParts DEF ClaimRow, TaskSet
  <2>4. [t EXCEPT !.pc = "claimed", !.won = row.fence + 1] \in TaskSet
    <3>1. row.fence + 1 \in Nat
      BY <1>0 DEF RowSet
    <3>2. \A x \in TaskSet, n \in Nat : [x EXCEPT !.pc = "claimed", !.won = n] \in TaskSet
      BY DEF TaskSet
    <3> QED BY <1>0, <3>1, <3>2
  <2>5. worker' \in [Workers -> TaskSet]
    BY <2>3, <2>4, TypeParts
  <2> QED BY <2>2, <2>5, TypeStep, TypeParts DEF ClaimRow, TypeOK
<1>2. CASE ~Due(t.at)
  <2>1. row' = row /\ worker' \in [Workers -> TaskSet]
    BY <1>2, NoTaskType, TypeParts DEF ClaimRow
  <2> QED BY <2>1, WorkerOnlyType DEF ClaimRow, TypeOK
<1> QED BY <1>1, <1>2

LEMMA LoadClaimedType ==
  ASSUME TypeOK, NEW w \in Workers, LoadClaimed(w)
  PROVE  TypeOK'
<1> DEFINE t == worker[w]
<1>0. t \in TaskSet /\ row \in RowSet /\ env \in EnvelopeSet
  BY TypeParts
<1>1. Task("loaded", t.at, t.won, row.observed, row.fence, env.token, 0) \in TaskSet
  BY <1>0 DEF Task, TaskSet, RowSet, EnvelopeSet
<1>2. worker' \in [Workers -> TaskSet]
  BY <1>1, NoTaskType, TypeParts DEF LoadClaimed
<1>3. strayed' \in BOOLEAN
  BY DEF LoadClaimed
<1> QED BY <1>2, <1>3, WorkerOnlyType DEF LoadClaimed, TypeOK

LEMMA RenewType ==
  ASSUME TypeOK, NEW w \in Workers, Renew(w)
  PROVE  TypeOK'
<1> DEFINE t == worker[w]
<1>0. t \in TaskSet /\ t.token \in TokenSet
  BY TypeParts DEF TaskSet
<1>1. worker' \in [Workers -> TaskSet]
  <2>1. Task("renewed", t.at, t.won, t.rev, t.fence, Fresh(t.token), Expiry) \in TaskSet
    BY <1>0, FreshToken, ExpiryNat DEF Task, TaskSet
  <2>2. [t EXCEPT !.pc = "retry"] \in TaskSet /\ [t EXCEPT !.pc = "reauth_required"] \in TaskSet
    BY <1>0 DEF TaskSet
  <2>3. \/ worker' = [worker EXCEPT ![w] =
                Task("renewed", t.at, t.won, t.rev, t.fence, Fresh(t.token), Expiry)]
        \/ worker' = [worker EXCEPT ![w] = [t EXCEPT !.pc = "retry"]]
        \/ worker' = [worker EXCEPT ![w] = [t EXCEPT !.pc = "reauth_required"]]
    BY DEF Renew
  <2> QED BY <2>1, <2>2, <2>3, TypeParts
<1>2. live' \subseteq TokenIds /\ renewals' \in Nat /\ faults' \in 0 .. MaxFaults
  BY <1>0, ProviderTypes DEF Renew
<1> QED BY <1>1, <1>2, WorkerOnlyType DEF Renew, TypeOK

LEMMA CommitRefreshType ==
  ASSUME TypeOK, NEW w \in Workers, CommitRefresh(w)
  PROVE  TypeOK'
<1> DEFINE t == worker[w]
<1>0. t \in TaskSet /\ t.token.id \in TokenIds /\ row \in RowSet /\ env \in EnvelopeSet
  BY TypeParts DEF TaskSet, TokenSet
<1>1. env' \in EnvelopeSet
  BY <1>0 DEF CommitRefresh, Envelope, EnvelopeSet, TaskSet
<1>2. RefreshAfter(t.expires, t.at) \in Nat \ {0}
  BY <1>0, RefreshAfterNat DEF TaskSet
<1>3. row' = row \/ row' = Row("ready", t.rev + 1, row.fence, RefreshAfter(t.expires, t.at))
  BY DEF CommitRefresh
<1>4. row' \in RowSet /\ (row'.due > 0 <=> row'.state \in {"ready", "claimed", "retry"})
  <2>1. CASE row' = row
    BY <2>1, <1>0 DEF TypeOK
  <2>2. CASE row' = Row("ready", t.rev + 1, row.fence, RefreshAfter(t.expires, t.at))
    BY <2>2, <1>0, <1>2 DEF Row, RowSet, TaskSet
  <2> QED BY <1>3, <2>1, <2>2
<1>5. worker' \in [Workers -> TaskSet]
  BY NoTaskType, TypeParts DEF CommitRefresh
<1>6. stored' \subseteq TokenIds /\ renewedAt' \subseteq Nat
  BY <1>0 DEF CommitRefresh, TypeOK, TaskSet
<1> QED BY <1>1, <1>4, <1>5, <1>6, TypeStep, TypeParts DEF CommitRefresh, TypeOK

LEMMA FailRefreshType ==
  ASSUME TypeOK, NEW w \in Workers, FailRefresh(w)
  PROVE  TypeOK'
<1> DEFINE t == worker[w]
<1>0. t \in TaskSet /\ row \in RowSet
  BY TypeParts
<1>1. row' \in RowSet /\ (row'.due > 0 <=> row'.state \in {"ready", "claimed", "retry"})
  <2>1. CASE row' = row
    BY <2>1, <1>0 DEF TypeOK
  <2>2. CASE row' = Row(t.pc, row.observed, row.fence, RetryAt(t)) /\ t.pc = "retry"
    BY <2>2, <1>0, DriverCredentialsAssumption DEF Row, RowSet, TaskSet, RetryAt
  <2>3. CASE row' = Row(t.pc, row.observed, row.fence, RetryAt(t)) /\ t.pc = "reauth_required"
    BY <2>3, <1>0 DEF Row, RowSet, TaskSet, RetryAt
  <2> QED BY <2>1, <2>2, <2>3 DEF FailRefresh
<1>2. worker' \in [Workers -> TaskSet]
  BY NoTaskType, TypeParts DEF FailRefresh
<1> QED BY <1>1, <1>2, TypeStep, TypeParts DEF FailRefresh, TypeOK

LEMMA DieType ==
  ASSUME TypeOK, NEW w \in Workers, Die(w)
  PROVE  TypeOK'
<1>1. worker' \in [Workers -> TaskSet]
  BY NoTaskType, TypeParts DEF Die
<1>2. faults' \in 0 .. MaxFaults
  BY DriverCredentialsAssumption DEF Die, Fault, TypeOK
<1> QED BY <1>1, <1>2, WorkerOnlyType DEF Die, TypeOK

LEMMA EndedType ==
  ASSUME TypeOK, NEW o \in Ops, NEW rest, Ended(o, rest)
  PROVE  op' \in [Ops -> ApplySet]
<1>1. op[o] \in ApplySet
  BY TypeParts
<1>2. Apply("idle", 0, op[o].tries) \in ApplySet
  BY <1>1, ApplyType DEF ApplySet
<1>3. [Apply("idle", 0, op[o].tries) EXCEPT !.expected = op[o].expected] \in ApplySet
  BY <1>1, <1>2 DEF ApplySet
<1> QED BY <1>3, TypeParts DEF Ended

LEMMA ValidateType ==
  ASSUME TypeOK, NEW o \in Ops, Validate(o)
  PROVE  TypeOK'
<1>1. op[o] \in ApplySet /\ driver.rev \in Nat
  BY TypeParts DEF TypeOK
<1>2. [op[o] EXCEPT !.pc = "proposed", !.expected = driver.rev] \in ApplySet
  BY <1>1 DEF ApplySet
<1>3. op' = [op EXCEPT ![o] = [op[o] EXCEPT !.pc = "proposed", !.expected = driver.rev]]
  BY <1>1, TypeParts DEF Validate, ApplySet
<1>4. op' \in [Ops -> ApplySet]
  BY <1>2, <1>3, TypeParts
<1> QED BY <1>4, OpOnlyType DEF Validate, TypeOK

\* What an apply reads of the driver and its envelope.
Reading(o) ==
  [Apply("loaded", now, op[o].tries + 1) EXCEPT
     !.expected = op[o].expected, !.driverRev = driver.rev, !.rev = env.rev,
     !.account = env.token.account]

LEMMA LoadDriverType ==
  ASSUME TypeOK, ClockInv, NEW o \in Ops, LoadDriver(o)
  PROVE  TypeOK'
<1>1. op[o] \in ApplySet /\ driver.rev \in Nat /\ env \in EnvelopeSet /\ now \in Nat
  BY TypeParts DEF TypeOK
<1>2. op[o].tries + 1 \in 0 .. MaxTries
  BY <1>1, DriverCredentialsAssumption DEF LoadDriver, ClockInv, ApplySet
<1>3. Apply("loaded", now, op[o].tries + 1) \in ApplySet
      /\ Apply("idle", 0, op[o].tries + 1) \in ApplySet
  BY <1>1, <1>2, ApplyType
<1>4. env.token.account \in Accounts \cup {Nobody}
  BY <1>1 DEF EnvelopeSet, TokenSet
<1>5. Reading(o) \in ApplySet
  <2>1. \A x \in ApplySet, e, d, r \in Nat, a \in Accounts \cup {Nobody} :
          [x EXCEPT !.expected = e, !.driverRev = d, !.rev = r, !.account = a] \in ApplySet
    BY ZenonT(60) DEF ApplySet
  <2>2. op[o].expected \in Nat /\ env.rev \in Nat
    BY <1>1 DEF ApplySet, EnvelopeSet
  <2> QED BY <1>1, <1>3, <1>4, <2>1, <2>2 DEF Reading
<1>6. [Apply("idle", 0, op[o].tries + 1) EXCEPT !.expected = op[o].expected] \in ApplySet
  BY <1>1, <1>3 DEF ApplySet
<1>7. op' = [op EXCEPT ![o] =
                 IF receipt[o] = NoReceipt /\ driver.rev = op[o].expected THEN Reading(o)
                 ELSE [Apply("idle", 0, op[o].tries + 1) EXCEPT !.expected = op[o].expected]]
  BY DEF LoadDriver, Reading
<1>8. op' \in [Ops -> ApplySet]
  BY <1>5, <1>6, <1>7, TypeParts
<1> QED BY <1>8, OpOnlyType DEF LoadDriver, TypeOK

LEMMA ClaimAuthorizationType ==
  ASSUME TypeOK, NEW o \in Ops, ClaimAuthorization(o)
  PROVE  TypeOK'
<1> DEFINE ClaimSet == [key : Ops \cup {"none"}, fence : Nat, lease : Nat]
<1>1. op[o] \in ApplySet /\ claim \in ClaimSet
  BY TypeParts DEF TypeOK
<1>2. claim' \in ClaimSet
  <2>1. \A f \in Nat : Claim(o, f, op[o].at + ClaimSeconds) \in ClaimSet
    BY <1>1, DriverCredentialsAssumption DEF Claim, ApplySet
  <2>2. \/ claim' = claim
        \/ claim' = Claim(o, 1, op[o].at + ClaimSeconds)
        \/ claim' = Claim(o, claim.fence + 1, op[o].at + ClaimSeconds)
    BY DEF ClaimAuthorization
  <2> QED BY <1>1, <2>1, <2>2
<1>3. op' \in [Ops -> ApplySet]
  <2>1. CASE op' = [op EXCEPT ![o].pc = "claimed", ![o].fence = claim'.fence]
    <3>1. \A f \in Nat : [op[o] EXCEPT !.pc = "claimed", !.fence = f] \in ApplySet
      BY <1>1 DEF ApplySet
    <3>2. op' = [op EXCEPT ![o] = [op[o] EXCEPT !.pc = "claimed", !.fence = claim'.fence]]
      BY <2>1, <1>1, TypeParts DEF ApplySet
    <3> QED BY <3>1, <3>2, <1>2, TypeParts
  <2>2. CASE Ended(o, <<now, driver, env, row, live, renewals, faults, worker, receipt, stored,
                        renewedAt, strayed>>)
    BY <2>2, EndedType
  <2> QED BY <2>1, <2>2 DEF ClaimAuthorization
<1> QED BY <1>2, <1>3, OpOnlyType DEF ClaimAuthorization, Ended, TypeOK

LEMMA ReleasedType ==
  ASSUME TypeOK, NEW o \in Ops, Released(o)
  PROVE  claim' \in [key : Ops \cup {"none"}, fence : Nat, lease : Nat]
BY DEF Released, NoClaim, Claim, TypeOK

LEMMA AuthorizeType ==
  ASSUME TypeOK, NEW o \in Ops, Authorize(o)
  PROVE  TypeOK'
<1>1. op[o] \in ApplySet /\ OpToken(o) \in TokenSet
  BY TypeParts, OpTokenType
<1>2. op' \in [Ops -> ApplySet]
  <2>1. [op[o] EXCEPT !.pc = "refused"] \in ApplySet
    BY <1>1 DEF ApplySet
  <2>2. \A t \in TokenSet, e \in Nat :
          [op[o] EXCEPT !.pc = "authorized", !.token = t, !.expires = e] \in ApplySet
    BY <1>1 DEF ApplySet
  <2>3. \/ op' = [op EXCEPT ![o] = [op[o] EXCEPT !.pc = "refused"]]
        \/ op' = [op EXCEPT ![o] = [op[o] EXCEPT !.pc = "authorized",
                                      !.token = Fresh(OpToken(o)), !.expires = Expiry]]
    BY <1>1, TypeParts DEF Authorize, ApplySet
  <2>4. Fresh(OpToken(o)) \in TokenSet /\ Expiry \in Nat
    BY <1>1, FreshToken, ExpiryNat
  <2> QED BY <2>1, <2>2, <2>3, <2>4, TypeParts
<1>3. live' \subseteq TokenIds /\ renewals' \in Nat /\ faults' \in 0 .. MaxFaults
  BY <1>1, ProviderTypes DEF Authorize
<1> QED BY <1>2, <1>3, OpOnlyType DEF Authorize, TypeOK

LEMMA ReplaceType ==
  ASSUME TypeOK, NEW o \in Ops, Replace(o)
  PROVE  TypeOK'
<1> DEFINE a == op[o]
           e == EnvelopeAfter(o)
           d == DriverAfter(o)
<1>1. a \in ApplySet /\ env \in EnvelopeSet /\ row \in RowSet /\ a.token.id \in TokenIds
  BY TypeParts DEF ApplySet, TokenSet
<1>2. op' \in [Ops -> ApplySet]
  BY EndedType DEF Replace
<1>3. CASE BatchHolds(o, e, d) /\ receipt[o] = NoReceipt
  <2>1. env' \in EnvelopeSet
    BY <1>1, <1>3 DEF Replace, EnvelopeAfter, Envelope, EnvelopeSet, ApplySet
  <2>2. driver' \in [rev : Nat \ {0}, enabled : BOOLEAN]
    <3>1. driver' = driver \/ driver' = [driver EXCEPT !.rev = driver.rev + 1]
      BY <1>3 DEF Replace, DriverAfter
    <3> QED BY <3>1 DEF TypeOK
  <2>3. row' \in RowSet /\ row'.due > 0 /\ row'.state = "ready"
    <3>1. row' = Row("ready", a.rev + 1, row.fence, RefreshAfter(a.expires, a.at))
      BY <1>3 DEF Replace
    <3>2. RefreshAfter(a.expires, a.at) \in Nat \ {0}
      BY <1>1, RefreshAfterNat DEF ApplySet
    <3> QED BY <1>1, <3>1, <3>2 DEF Row, RowSet, ApplySet
  <2>4. receipt' \in [Ops -> [token : TokenSet, rotated : Nat]]
    <3>1. receipt' = [receipt EXCEPT ![o] = Receipt(a.token, a.at)]
      BY <1>3 DEF Replace
    <3>2. Receipt(a.token, a.at) \in [token : TokenSet, rotated : Nat]
      BY <1>1 DEF Receipt, ApplySet
    <3> QED BY <3>1, <3>2 DEF TypeOK
  <2>5. stored' \subseteq TokenIds
    BY <1>1, <1>3 DEF Replace, TypeOK
  <2>6. Released(o) /\ UNCHANGED <<now, live, renewals, faults, worker, renewedAt, strayed>>
    BY <1>3 DEF Replace, Ended
  <2> QED BY <1>2, <2>1, <2>2, <2>3, <2>4, <2>5, <2>6, ReleasedType, TypeStep, TypeParts
          DEF TypeOK
<1>4. CASE ~(BatchHolds(o, e, d) /\ receipt[o] = NoReceipt)
  <2>1. UNCHANGED <<now, driver, env, row, claim, live, renewals, faults, worker, receipt,
                    stored, renewedAt, strayed>>
    BY <1>4 DEF Replace, Ended
  <2> QED BY <1>2, <2>1, OpOnlyType DEF TypeOK
<1> QED BY <1>3, <1>4

LEMMA ChangeStateType ==
  ASSUME TypeOK, ChangeState
  PROVE  TypeOK'
<1>1. driver' \in [rev : Nat \ {0}, enabled : BOOLEAN]
  <2>1. driver.rev + 1 \in Nat \ {0} /\ (~driver.enabled) \in BOOLEAN
    BY DEF TypeOK
  <2> QED BY <2>1 DEF ChangeState
<1> QED BY <1>1, TypeStep, TypeParts DEF ChangeState, TypeOK

LEMMA TickType ==
  ASSUME TypeOK, Tick
  PROVE  TypeOK'
<1>1. now' \in Nat /\ faults' \in 0 .. MaxFaults /\ strayed' \in BOOLEAN
  <2>1. CASE Overruns
    BY <2>1, DriverCredentialsAssumption DEF Tick, Fault, TypeOK
  <2>2. CASE ~Overruns
    BY <2>2 DEF Tick, TypeOK
  <2> QED BY <2>1, <2>2
<1> QED BY <1>1, TypeStep, TypeParts DEF Tick, TypeOK

LEMMA TypeNext == TypeOK /\ ClockInv /\ [Next]_vars => TypeOK'
<1> SUFFICES ASSUME TypeOK, ClockInv, [Next]_vars PROVE TypeOK'
  OBVIOUS
<1>1. ASSUME NEW w \in Workers, RunCron(w) \/ EnsureFresh(w) \/ WorkerStep(w) \/ Die(w)
      PROVE  TypeOK'
  BY <1>1, BeginType, ClaimRowType, LoadClaimedType, RenewType, CommitRefreshType,
     FailRefreshType, DieType DEF RunCron, EnsureFresh, WorkerStep
<1>2. ASSUME NEW o \in Ops, OpStep(o)
      PROVE  TypeOK'
  <2>1. CASE Refuse(o)
    <3>1. op' \in [Ops -> ApplySet]
      BY <2>1, EndedType DEF Refuse
    <3> QED BY <2>1, <3>1, ReleasedType, OpOnlyType DEF Refuse, Ended, TypeOK
  <2>2. CASE Abandon(o)
    <3>1. op' \in [Ops -> ApplySet]
      BY <2>2, EndedType DEF Abandon
    <3>2. faults' \in 0 .. MaxFaults
      BY <2>2, DriverCredentialsAssumption DEF Abandon, Fault, TypeOK
    <3> QED BY <2>2, <3>1, <3>2, OpOnlyType DEF Abandon, Ended, TypeOK
  <2> QED BY <1>2, <2>1, <2>2, ValidateType, LoadDriverType, ClaimAuthorizationType,
             AuthorizeType, ReplaceType DEF OpStep
<1>3. CASE DeleteExpiredClaims
  <2>1. claim' \in [key : Ops \cup {"none"}, fence : Nat, lease : Nat]
    BY <1>3 DEF DeleteExpiredClaims, NoClaim, Claim
  <2> QED BY <1>3, <2>1, TypeStep, TypeParts DEF DeleteExpiredClaims, TypeOK
<1>4. CASE UNCHANGED vars
  BY <1>4, TypeStep, TypeParts DEF vars, TypeOK
<1> QED BY <1>1, <1>2, <1>3, <1>4, ChangeStateType, TickType DEF Next

-----------------------------------------------------------------------------
(* What a step may do *)

\* What one step makes of one renewal.
Started(w) == /\ worker[w] = NoTask
              /\ worker'[w] = Task("candidate", now, 0, 0, 0, NoToken, 0)

Wins(w) == /\ worker[w].pc = "candidate" /\ Due(worker[w].at)
           /\ worker'[w].pc = "claimed" /\ worker'[w].won = row.fence + 1
           /\ worker'[w].at = worker[w].at
           /\ row' = Row("claimed", row.observed, row.fence + 1, worker[w].at + ClaimSeconds)
           /\ env' = env

Loads(w) == /\ worker[w].pc = "claimed" /\ Loadable(worker[w].at)
            /\ worker'[w] = Task("loaded", worker[w].at, worker[w].won, row.observed, row.fence,
                                 env.token, 0)
            /\ strayed' = (strayed \/ row.fence # worker[w].won)
            /\ UNCHANGED <<env, row>>

Answered(w) == /\ Holding(w) /\ worker'[w].pc \in {"renewed", "retry", "reauth_required"}
               /\ worker'[w].at = worker[w].at /\ worker'[w].won = worker[w].won
               /\ worker'[w].rev = worker[w].rev /\ worker'[w].fence = worker[w].fence
               /\ worker'[w].token.account = worker[w].token.account

Steps(w) == Started(w) \/ Wins(w) \/ Loads(w) \/ Answered(w)

LEMMA RenewAnswers ==
  ASSUME TypeOK, NEW w \in Workers, Renew(w)
  PROVE  Answered(w)
<1> DEFINE t == worker[w]
<1>1. t \in TaskSet /\ t.token \in TokenSet /\ Holding(w)
  BY TypeParts DEF TaskSet, Renew, Holding
<1>2. CASE worker' = [worker EXCEPT ![w] =
                Task("renewed", t.at, t.won, t.rev, t.fence, Fresh(t.token), Expiry)]
  <2>1. worker'[w] = Task("renewed", t.at, t.won, t.rev, t.fence, Fresh(t.token), Expiry)
    BY <1>2, TypeParts
  <2>2. Fresh(t.token).account = t.token.account
    BY <1>1, FreshToken
  <2> QED BY <1>1, <2>1, <2>2 DEF Task, Answered
<1>3. CASE worker' = [worker EXCEPT ![w].pc = "retry"]
  BY <1>1, <1>3, TypeParts DEF Answered, TaskSet
<1>4. CASE worker' = [worker EXCEPT ![w].pc = "reauth_required"]
  BY <1>1, <1>4, TypeParts DEF Answered, TaskSet
<1> QED BY <1>2, <1>3, <1>4 DEF Renew

LEMMA WorkerMoves ==
  ASSUME TypeOK, [Next]_vars, NEW w \in Workers
  PROVE  worker'[w] = worker[w] \/ worker'[w] = NoTask \/ Steps(w)
<1> DEFINE Goal == worker'[w] = worker[w] \/ worker'[w] = NoTask \/ Steps(w)
<1>0. worker \in [Workers -> TaskSet]
  BY TypeParts
<1>1. ASSUME NEW v \in Workers, Begin(v) PROVE Goal
  BY <1>0, <1>1 DEF Begin, Steps, Started
<1>2. ASSUME NEW v \in Workers, ClaimRow(v) PROVE Goal
  <2>1. CASE v # w \/ ~Due(worker[v].at)
    BY <1>0, <1>2, <2>1 DEF ClaimRow
  <2>2. CASE v = w /\ Due(worker[v].at)
    BY <1>0, <1>2, <2>2 DEF ClaimRow, Steps, Wins, TaskSet
  <2> QED BY <2>1, <2>2
<1>3. ASSUME NEW v \in Workers, LoadClaimed(v) PROVE Goal
  <2>1. CASE v # w \/ ~Loadable(worker[v].at)
    BY <1>0, <1>3, <2>1 DEF LoadClaimed
  <2>2. CASE v = w /\ Loadable(worker[v].at)
    <3>1. worker'[w] = Task("loaded", worker[w].at, worker[w].won, row.observed, row.fence,
                            env.token, 0)
      BY <1>0, <1>3, <2>2 DEF LoadClaimed
    <3> QED BY <1>3, <2>2, <3>1 DEF LoadClaimed, Steps, Loads
  <2> QED BY <2>1, <2>2
<1>4. ASSUME NEW v \in Workers, Renew(v) PROVE Goal
  <2>1. CASE v # w
    BY <1>0, <1>4, <2>1 DEF Renew
  <2> QED BY <1>4, <2>1, RenewAnswers DEF Steps
<1>5. ASSUME NEW v \in Workers, CommitRefresh(v) \/ FailRefresh(v) \/ Die(v) PROVE Goal
  BY <1>0, <1>5 DEF CommitRefresh, FailRefresh, Die
<1>6. ASSUME NEW o \in Ops, OpStep(o) PROVE Goal
  BY <1>6 DEF OpStep, Validate, LoadDriver, ClaimAuthorization, Authorize, Refuse, Replace,
              Abandon, Ended
<1>7. CASE ChangeState \/ DeleteExpiredClaims \/ Tick \/ UNCHANGED vars
  BY <1>7 DEF ChangeState, DeleteExpiredClaims, Tick, vars
<1> QED BY <1>1, <1>2, <1>3, <1>4, <1>5, <1>6, <1>7
        DEF Next, RunCron, EnsureFresh, WorkerStep

\* The batch of a replacement that commits.
Commits(o) ==
  /\ Replace(o) /\ BatchHolds(o, EnvelopeAfter(o), DriverAfter(o)) /\ receipt[o] = NoReceipt

\* The history and the rows the renewals and replacements write.
LEMMA RowMoves ==
  ASSUME [Next]_vars
  PROVE  \/ UNCHANGED <<env, row, receipt, stored, renewedAt>>
         \/ \E w \in Workers : ClaimRow(w) \/ CommitRefresh(w) \/ FailRefresh(w)
         \/ \E o \in Ops : Commits(o)
<1> DEFINE Quiet == UNCHANGED <<env, row, receipt, stored, renewedAt>>
<1>1. ASSUME NEW w \in Workers, Begin(w) \/ LoadClaimed(w) \/ Renew(w) \/ Die(w)
      PROVE  Quiet
  BY <1>1 DEF Begin, LoadClaimed, Renew, Die
<1>2. ASSUME NEW o \in Ops, OpStep(o)
      PROVE  Quiet \/ Commits(o)
  <2>1. CASE Replace(o)
    BY <2>1 DEF Replace, Commits, Ended
  <2> QED BY <1>2, <2>1 DEF OpStep, Validate, LoadDriver, ClaimAuthorization, Authorize, Refuse,
             Abandon, Ended
<1>3. CASE ChangeState \/ DeleteExpiredClaims \/ Tick \/ UNCHANGED vars
  BY <1>3 DEF ChangeState, DeleteExpiredClaims, Tick, vars
<1> QED BY <1>1, <1>2, <1>3 DEF Next, RunCron, EnsureFresh, WorkerStep

\* A commit of a replacement, by the statement that hit.
LEMMA CommitsEffect ==
  ASSUME TypeOK, ClockInv, AuthorityInv, NEW o \in Ops, Commits(o)
  PROVE  /\ op[o].at > 0 /\ env'.rotated = op[o].at /\ env'.rev = op[o].rev + 1
         /\ row' = Row("ready", env'.rev, row.fence, RefreshAfter(op[o].expires, op[o].at))
         /\ receipt' = [receipt EXCEPT ![o] = Receipt(op[o].token, op[o].at)]
         /\ stored \subseteq stored'
         /\ UNCHANGED <<now, worker, renewedAt, strayed>>
         /\ \/ /\ env' = env /\ op[o].rev # env.rev
            \/ /\ op[o].rev = env.rev /\ env'.rev = env.rev + 1
               /\ env'.token = op[o].token /\ op[o].token.id \in stored'
               /\ env.rev > 0 => env'.token.account = env.token.account
<1> DEFINE a == op[o]
<1>1. a \in ApplySet /\ env \in EnvelopeSet /\ InFlight(o)
  BY TypeParts DEF Commits, Replace, InFlight
<1>2. a.at > 0 /\ a.rev <= env.rev /\ (a.rev > 0 => a.account = env.token.account)
  BY <1>1 DEF ClockInv, AuthorityInv
<1>3. /\ env' = EnvelopeAfter(o) /\ env'.rev = a.rev + 1 /\ env'.rotated = a.at
      /\ Continuous(o)
  BY DEF Commits, Replace, BatchHolds
<1>4. /\ row' = Row("ready", a.rev + 1, row.fence, RefreshAfter(a.expires, a.at))
      /\ receipt' = [receipt EXCEPT ![o] = Receipt(a.token, a.at)]
      /\ stored' = (IF EnvelopeAfter(o).token = a.token THEN stored \cup {a.token.id} ELSE stored)
      /\ UNCHANGED <<now, worker, renewedAt, strayed>>
  BY DEF Commits, Replace, Ended
<1>5. CASE a.rev # env.rev
  <2>1. env' = env
    BY <1>3, <1>5 DEF EnvelopeAfter
  <2> QED BY <1>2, <1>3, <1>4, <1>5, <2>1
<1>6. CASE a.rev = env.rev
  <2>1. env' = Envelope(a.rev + 1, a.token, a.expires, a.at)
    BY <1>3, <1>6 DEF EnvelopeAfter
  <2>2. env'.token = a.token
    BY <2>1 DEF Envelope
  <2>3. env.rev > 0 => env'.token.account = env.token.account
    BY <1>2, <1>3, <1>6, <2>2 DEF Continuous
  <2> QED BY <1>2, <1>3, <1>4, <1>6, <2>2, <2>3
<1> QED BY <1>5, <1>6

\* A renewal's batch, by whether it hit.
LEMMA CommitRefreshEffect ==
  ASSUME TypeOK, AuthorityInv, NEW w \in Workers, CommitRefresh(w)
  PROVE  /\ Holding(w) /\ worker' = [worker EXCEPT ![w] = NoTask]
         /\ UNCHANGED <<now, op, receipt, strayed>>
         /\ \/ /\ UNCHANGED <<env, row, stored, renewedAt>>
            \/ /\ Fenced(worker[w]) /\ env' = env /\ env.rev = worker[w].rev + 1
               /\ row' = Row("ready", env.rev, row.fence,
                             RefreshAfter(worker[w].expires, worker[w].at))
               /\ UNCHANGED <<stored, renewedAt>>
            \/ /\ Fenced(worker[w]) /\ worker[w].rev = env.rev /\ env'.rev = env.rev + 1
               /\ env'.token.account = env.token.account /\ env'.rotated = worker[w].at
               /\ row' = Row("ready", env'.rev, row.fence,
                             RefreshAfter(worker[w].expires, worker[w].at))
               /\ stored \subseteq stored' /\ renewedAt' = renewedAt \cup {worker[w].at}
<1> DEFINE t == worker[w]
<1>1. t \in TaskSet /\ env \in EnvelopeSet /\ Holding(w)
  BY TypeParts DEF CommitRefresh, Holding
<1>2. worker' = [worker EXCEPT ![w] = NoTask] /\ UNCHANGED <<now, op, receipt, strayed>>
  BY DEF CommitRefresh
<1>3. CASE Writes(t)
  <2>1. env' = Envelope(t.rev + 1, t.token, t.expires, t.at)
    BY <1>3 DEF CommitRefresh
  <2>2. env'.rev = t.rev + 1 /\ env'.token = t.token /\ env'.rotated = t.at
    BY <2>1 DEF Envelope
  <2>3. Fenced(t) /\ t.rev = env.rev /\ t.token.account = env.token.account
    BY <1>1, <1>3 DEF Writes, AuthorityInv
  <2>4. row' = Row("ready", t.rev + 1, row.fence, RefreshAfter(t.expires, t.at))
    BY <1>3, <2>1, <2>2, <2>3 DEF CommitRefresh
  <2>5. stored \subseteq stored' /\ renewedAt' = renewedAt \cup {t.at}
    BY <1>3 DEF CommitRefresh
  <2> QED BY <1>1, <1>2, <2>2, <2>3, <2>4, <2>5
<1>4. CASE ~Writes(t)
  <2>1. UNCHANGED <<env, stored, renewedAt>>
    BY <1>4 DEF CommitRefresh
  <2>2. row' = (IF Fenced(t) /\ env.rev = t.rev + 1
                THEN Row("ready", t.rev + 1, row.fence, RefreshAfter(t.expires, t.at)) ELSE row)
    BY <1>4 DEF CommitRefresh
  <2> QED BY <1>1, <1>2, <2>1, <2>2
<1> QED BY <1>3, <1>4

\* The envelope moves to its next revision, and keeps its account.
LEMMA EnvelopeMoves ==
  ASSUME TypeOK, ClockInv, AuthorityInv, [Next]_vars
  PROVE  \/ env' = env
         \/ /\ env'.rev = env.rev + 1
            /\ env.rev > 0 => env'.token.account = env.token.account
<1>1. ASSUME NEW w \in Workers, ClaimRow(w) \/ FailRefresh(w)
      PROVE  env' = env
  BY <1>1 DEF ClaimRow, FailRefresh
<1> QED BY <1>1, RowMoves, CommitsEffect, CommitRefreshEffect

-----------------------------------------------------------------------------
(* The schedule, the account, the receipts *)

LEMMA ScheduleNext ==
  ASSUME TypeOK, ClockInv, AuthorityInv, ScheduleInv, [Next]_vars
  PROVE  ScheduleInv'
<1>0. row \in RowSet /\ env \in EnvelopeSet
  BY TypeParts
<1>1. CASE UNCHANGED <<env, row>>
  BY <1>1 DEF ScheduleInv
<1>2. ASSUME NEW w \in Workers, ClaimRow(w) PROVE ScheduleInv'
  <2>1. CASE Due(worker[w].at)
    <3>1. row' = Row("claimed", row.observed, row.fence + 1, worker[w].at + ClaimSeconds)
          /\ env' = env /\ row.state # "none"
      BY <1>2, <2>1 DEF ClaimRow, Due
    <3>2. row'.state = "claimed" /\ row'.observed = row.observed
      BY <3>1 DEF Row
    <3> QED BY <3>1, <3>2 DEF ScheduleInv
  <2>2. CASE ~Due(worker[w].at)
    BY <1>1, <1>2, <2>2 DEF ClaimRow
  <2> QED BY <2>1, <2>2
<1>3. ASSUME NEW w \in Workers, FailRefresh(w) PROVE ScheduleInv'
  <2>1. CASE Failed(worker[w])
    <3>1. row' = Row(worker[w].pc, row.observed, row.fence, RetryAt(worker[w]))
          /\ env' = env /\ row.state # "none" /\ worker[w].pc # "none"
      BY <1>3, <2>1 DEF FailRefresh, Failed
    <3>2. row'.state = worker[w].pc /\ row'.observed = row.observed
      BY <3>1 DEF Row
    <3> QED BY <3>1, <3>2 DEF ScheduleInv
  <2>2. CASE ~Failed(worker[w])
    BY <1>1, <1>3, <2>2 DEF FailRefresh
  <2> QED BY <2>1, <2>2
<1>4. ASSUME NEW r \in Nat, NEW f, NEW d, row' = Row("ready", r, f, d), env'.rev = r, r > 0
      PROVE  ScheduleInv'
  <2>1. row'.state = "ready" /\ row'.observed = r
    BY <1>4 DEF Row
  <2> QED BY <1>4, <2>1 DEF ScheduleInv
<1>5. ASSUME NEW w \in Workers, CommitRefresh(w) PROVE ScheduleInv'
  <2>1. Fenced(worker[w]) => row.state # "none"
    BY DEF Fenced
  <2>2. env.rev \in Nat /\ env.rev + 1 \in Nat
    BY <1>0 DEF EnvelopeSet
  <2>3. worker[w].rev \in Nat
    BY TypeParts DEF TaskSet
  <2> QED BY <1>1, <1>4, <1>5, <2>1, <2>2, <2>3, CommitRefreshEffect
<1>6. ASSUME NEW o \in Ops, Commits(o) PROVE ScheduleInv'
  <2>1. env'.rev = op[o].rev + 1 /\ op[o].rev \in Nat
    BY <1>6, CommitsEffect, TypeParts DEF ApplySet
  <2> QED BY <1>4, <1>6, <2>1, CommitsEffect
<1> QED BY <1>1, <1>2, <1>3, <1>5, <1>6, RowMoves

LEMMA OpMoves ==
  ASSUME TypeOK, [Next]_vars, NEW o \in Ops
  PROVE  \/ op'[o] = op[o]
         \/ ~InFlight(o)' /\ (op'[o].pc = "proposed" => op'[o].tries < MaxTries)
         \/ op'[o] = Reading(o)
         \/ /\ InFlight(o) /\ op'[o].at = op[o].at /\ op'[o].rev = op[o].rev
            /\ op'[o].account = op[o].account /\ op'[o].pc # "proposed"
<1> DEFINE Goal ==
      \/ op'[o] = op[o]
      \/ ~InFlight(o)' /\ (op'[o].pc = "proposed" => op'[o].tries < MaxTries)
      \/ op'[o] = Reading(o)
      \/ /\ InFlight(o) /\ op'[o].at = op[o].at /\ op'[o].rev = op[o].rev
         /\ op'[o].account = op[o].account /\ op'[o].pc # "proposed"
<1>0. op \in [Ops -> ApplySet]
  BY TypeParts
<1>1. ASSUME NEW p \in Ops, NEW rest, Ended(p, rest) PROVE Goal
  <2>1. CASE p # o
    BY <1>0, <1>1, <2>1 DEF Ended
  <2>2. CASE p = o
    <3>1. op'[o] = [Apply("idle", 0, op[o].tries) EXCEPT !.expected = op[o].expected]
      BY <1>0, <1>1, <2>2 DEF Ended
    <3>2. op'[o].pc = "idle"
      BY <3>1 DEF Apply
    <3> QED BY <3>2 DEF InFlight
  <2> QED BY <2>1, <2>2
<1>2. ASSUME NEW p \in Ops, Validate(p) PROVE Goal
  BY <1>0, <1>2 DEF Validate, InFlight, ApplySet
<1>3. ASSUME NEW p \in Ops, LoadDriver(p) PROVE Goal
  <2>1. CASE p # o
    BY <1>0, <1>3, <2>1 DEF LoadDriver
  <2>2. CASE p = o /\ receipt[o] = NoReceipt /\ driver.rev = op[o].expected
    BY <1>0, <1>3, <2>2 DEF LoadDriver, Reading
  <2>3. CASE p = o /\ ~(receipt[o] = NoReceipt /\ driver.rev = op[o].expected)
    <3>1. op'[o] = [Apply("idle", 0, op[o].tries + 1) EXCEPT !.expected = op[o].expected]
      BY <1>0, <1>3, <2>3 DEF LoadDriver
    <3>2. op'[o].pc = "idle"
      BY <3>1 DEF Apply
    <3> QED BY <3>2 DEF InFlight
  <2> QED BY <2>1, <2>2, <2>3
<1>4. ASSUME NEW p \in Ops, ClaimAuthorization(p) PROVE Goal
  <2>1. CASE op' = [op EXCEPT ![p].pc = "claimed", ![p].fence = claim'.fence]
    BY <1>0, <1>4, <2>1 DEF ClaimAuthorization, InFlight, ApplySet
  <2> QED BY <1>1, <1>4, <2>1 DEF ClaimAuthorization
<1>5. ASSUME NEW p \in Ops, Authorize(p) PROVE Goal
  BY <1>0, <1>5 DEF Authorize, InFlight, ApplySet
<1>6. ASSUME NEW p \in Ops, Refuse(p) \/ Replace(p) \/ Abandon(p) PROVE Goal
  BY <1>1, <1>6 DEF Refuse, Replace, Abandon
<1>7. ASSUME NEW w \in Workers, RunCron(w) \/ EnsureFresh(w) \/ WorkerStep(w) \/ Die(w)
      PROVE  Goal
  BY <1>7 DEF RunCron, EnsureFresh, Begin, WorkerStep, ClaimRow, LoadClaimed, Renew,
              CommitRefresh, FailRefresh, Die
<1>8. CASE ChangeState \/ DeleteExpiredClaims \/ Tick \/ UNCHANGED vars
  BY <1>8 DEF ChangeState, DeleteExpiredClaims, Tick, vars
<1> QED BY <1>2, <1>3, <1>4, <1>5, <1>6, <1>7, <1>8 DEF Next, OpStep

LEMMA NowMoves ==
  ASSUME TypeOK, [Next]_vars
  PROVE  now' = now \/ Tick
BY ZenonT(60)
   DEF Next, RunCron, EnsureFresh, Begin, WorkerStep, ClaimRow, LoadClaimed, Renew, CommitRefresh,
       FailRefresh, Die, OpStep, Validate, LoadDriver, ClaimAuthorization, Authorize, Refuse,
       Replace, Abandon, Ended, ChangeState, DeleteExpiredClaims, vars

LEMMA ReadingFields ==
  ASSUME NEW o \in Ops
  PROVE  /\ Reading(o).pc = "loaded" /\ Reading(o).at = now /\ Reading(o).rev = env.rev
         /\ Reading(o).account = env.token.account
BY DEF Reading, Apply

LEMMA ClockNext ==
  ASSUME TypeOK, ClockInv, [Next]_vars
  PROVE  ClockInv'
<1>1. now \in Nat /\ now' \in Nat /\ now' >= now /\ now >= 1
  <2>1. now' = now \/ now' = now + 1
    BY NowMoves DEF Tick
  <2>2. now \in Nat /\ now >= 1
    BY DEF TypeOK, ClockInv
  <2> QED BY <2>1, <2>2
<1>2. ASSUME NEW w \in Workers
      PROVE  worker'[w].at <= now' /\ (worker'[w].pc = "idle" => worker'[w] = NoTask)
  <2>0. worker[w] \in TaskSet /\ worker[w].at <= now
    BY TypeParts DEF ClockInv
  <2>1. CASE worker'[w] = worker[w]
    BY <1>1, <2>0, <2>1 DEF ClockInv, TaskSet
  <2>2. CASE worker'[w] = NoTask
    BY <1>1, <2>2 DEF NoTask, Task
  <2>3. CASE Started(w)
    BY <1>1, <2>3 DEF Started, Task
  <2>4. CASE Loads(w)
    BY <1>1, <2>0, <2>4 DEF Loads, Task, TaskSet
  <2>5. CASE Wins(w) \/ Answered(w)
    BY <1>1, <2>0, <2>5 DEF Wins, Answered, TaskSet
  <2> QED BY <2>1, <2>2, <2>3, <2>4, <2>5, WorkerMoves DEF Steps
<1>3. ASSUME NEW o \in Ops
      PROVE  /\ InFlight(o)' => op'[o].at > 0
             /\ op'[o].pc = "proposed" => op'[o].tries < MaxTries
  <2>1. CASE op'[o] = Reading(o)
    <3>1. op'[o].pc = "loaded" /\ op'[o].at = now
      BY <2>1, ReadingFields
    <3> QED BY <1>1, <3>1
  <2> QED BY <2>1, OpMoves DEF ClockInv, InFlight
<1> QED BY <1>1, <1>2, <1>3 DEF ClockInv

LEMMA AuthorityNext ==
  ASSUME TypeOK, ClockInv, ScheduleInv, AuthorityInv, [Next]_vars
  PROVE  AuthorityInv'
<1>0. env \in EnvelopeSet
  BY TypeParts
<1>1. env' = env \/ (env'.rev = env.rev + 1
                     /\ (env.rev > 0 => env'.token.account = env.token.account))
  BY EnvelopeMoves
<1>2. ASSUME NEW o \in Ops, InFlight(o)'
      PROVE  op'[o].rev <= env'.rev /\ (op'[o].rev > 0 => op'[o].account = env'.token.account)
  <2>1. op[o] \in ApplySet
    BY TypeParts
  <2>2. CASE op'[o] = Reading(o)
    BY <1>0, <1>1, <2>2, ReadingFields DEF EnvelopeSet
  <2>3. CASE InFlight(o) /\ op'[o].rev = op[o].rev /\ op'[o].account = op[o].account
    BY <1>0, <1>1, <2>1, <2>3 DEF AuthorityInv, EnvelopeSet, ApplySet
  <2> QED BY <1>2, <2>2, <2>3, OpMoves DEF InFlight
<1>3. ASSUME NEW w \in Workers, Holding(w)'
      PROVE  /\ 0 < worker'[w].rev /\ worker'[w].rev <= env'.rev
             /\ worker'[w].token.account = env'.token.account
  <2>0. worker[w] \in TaskSet
    BY TypeParts
  <2>1. CASE /\ Holding(w) /\ worker'[w].rev = worker[w].rev
             /\ worker'[w].token.account = worker[w].token.account
    BY <1>0, <1>1, <2>0, <2>1 DEF AuthorityInv, EnvelopeSet, TaskSet
  <2>2. CASE Loads(w)
    <3>1. worker'[w].rev = row.observed /\ worker'[w].token = env.token
      BY <2>2 DEF Loads, Task
    <3>2. env' = env /\ row.observed = env.rev /\ env.rev # 0
      BY <2>2 DEF Loads, Loadable, ScheduleInv
    <3> QED BY <1>0, <3>1, <3>2 DEF EnvelopeSet
  <2>3. CASE worker'[w] = NoTask \/ Started(w) \/ Wins(w)
    BY <1>3, <2>3 DEF NoTask, Started, Wins, Task, Holding
  <2>4. CASE worker'[w] = worker[w] \/ Answered(w)
    BY <1>3, <2>1, <2>4 DEF Answered, Holding
  <2> QED BY <2>2, <2>3, <2>4, WorkerMoves DEF Steps
<1> QED BY <1>2, <1>3 DEF AuthorityInv

\* Receipts, sealed tokens and the seconds of renewals only grow.
LEMMA HistoryGrows ==
  ASSUME TypeOK, ClockInv, AuthorityInv, [Next]_vars
  PROVE  /\ \A o \in Ops : receipt[o] # NoReceipt => receipt'[o] = receipt[o]
         /\ stored \subseteq stored' /\ renewedAt \subseteq renewedAt'
         /\ strayed => strayed'
<1>1. ASSUME NEW w \in Workers, ClaimRow(w) \/ FailRefresh(w)
      PROVE  UNCHANGED <<receipt, stored, renewedAt>>
  BY <1>1 DEF ClaimRow, FailRefresh
<1>2. ASSUME NEW o \in Ops, Commits(o)
      PROVE  /\ \A p \in Ops : receipt[p] # NoReceipt => receipt'[p] = receipt[p]
             /\ stored \subseteq stored' /\ renewedAt \subseteq renewedAt'
  <2>1. receipt[o] = NoReceipt /\ receipt \in [Ops -> [token : TokenSet, rotated : Nat]]
    BY <1>2 DEF Commits, TypeOK
  <2> QED BY <1>2, <2>1, CommitsEffect
<1>3. ASSUME NEW w \in Workers, CommitRefresh(w)
      PROVE  receipt' = receipt /\ stored \subseteq stored' /\ renewedAt \subseteq renewedAt'
  BY <1>3, CommitRefreshEffect
<1>4. strayed => strayed'
  BY ZenonT(60) DEF Next, RunCron, EnsureFresh, Begin, WorkerStep, ClaimRow, LoadClaimed, Renew,
         CommitRefresh, FailRefresh, Die, OpStep, Validate, LoadDriver, ClaimAuthorization,
         Authorize, Refuse, Replace, Abandon, Ended, ChangeState, DeleteExpiredClaims, Tick, vars
<1> QED BY <1>1, <1>2, <1>3, <1>4, RowMoves

LEMMA EclipsedGrows ==
  ASSUME TypeOK, ClockInv, AuthorityInv, [Next]_vars
  PROVE  Eclipsed \subseteq Eclipsed' /\ (Clean' => Clean)
<1>1. Eclipsed \subseteq Eclipsed'
  BY HistoryGrows DEF Eclipsed
<1> QED BY <1>1, HistoryGrows DEF Clean

LEMMA ReceiptNotNone ==
  ASSUME NEW t, NEW s \in Nat, s > 0
  PROVE  Receipt(t, s) # NoReceipt /\ Receipt(t, s).rotated = s /\ Receipt(t, s).token = t
<1>1. Receipt(t, s).rotated = s /\ Receipt(t, s).token = t /\ NoReceipt.rotated = 0
  BY DEF Receipt, NoReceipt
<1> QED BY <1>1

\* The receipt a replacement leaves.
LEMMA CommitsReceipt ==
  ASSUME TypeOK, ClockInv, AuthorityInv, NEW o \in Ops, Commits(o)
  PROVE  /\ receipt'[o] # NoReceipt /\ receipt'[o].rotated = op[o].at
         /\ receipt'[o].token = op[o].token /\ receipt[o] = NoReceipt
         /\ \A p \in Ops \ {o} : receipt'[p] = receipt[p]
<1>1. op[o].at \in Nat /\ receipt \in [Ops -> [token : TokenSet, rotated : Nat]]
      /\ op[o].at > 0 /\ receipt' = [receipt EXCEPT ![o] = Receipt(op[o].token, op[o].at)]
  BY TypeParts, CommitsEffect DEF ApplySet, TypeOK
<1>2. receipt'[o] = Receipt(op[o].token, op[o].at) /\ receipt[o] = NoReceipt
      /\ \A p \in Ops \ {o} : receipt'[p] = receipt[p]
  BY <1>1 DEF Commits
<1> QED BY <1>1, <1>2, ReceiptNotNone

\* A replacement whose envelope statement hit no row is eclipsed.
LEMMA MissIsEclipsed ==
  ASSUME TypeOK, ClockInv, AuthorityInv, RotationInv, NEW o \in Ops, Commits(o), env' = env
  PROVE  o \in Eclipsed'
<1>1. env.rotated = op[o].at /\ op[o].at > 0 /\ renewedAt' = renewedAt
  BY CommitsEffect
<1>2. CASE env.rotated \in renewedAt
  BY <1>1, <1>2, CommitsReceipt DEF Eclipsed
<1>3. CASE Receipted(env.rotated)
  <2>1. PICK p \in Ops : receipt[p] # NoReceipt /\ receipt[p].rotated = env.rotated
    BY <1>3 DEF Receipted
  <2>2. p # o /\ receipt'[p] = receipt[p]
    BY <2>1, CommitsReceipt
  <2> QED BY <1>1, <2>1, <2>2, CommitsReceipt DEF Eclipsed
<1> QED BY <1>1, <1>2, <1>3 DEF RotationInv

LEMMA RotationNext ==
  ASSUME TypeOK, ClockInv, AuthorityInv, RotationInv, [Next]_vars
  PROVE  RotationInv'
<1>1. CASE env' = env
  <2>1. Receipted(env.rotated) => Receipted(env.rotated)'
    BY <1>1, HistoryGrows DEF Receipted
  <2> QED BY <1>1, <2>1, HistoryGrows DEF RotationInv
<1>2. ASSUME NEW o \in Ops, Commits(o) PROVE RotationInv'
  BY <1>2, CommitsEffect, CommitsReceipt DEF RotationInv, Receipted
<1>3. ASSUME NEW w \in Workers, CommitRefresh(w) PROVE RotationInv'
  BY <1>1, <1>3, CommitRefreshEffect DEF RotationInv
<1>4. ASSUME NEW w \in Workers, ClaimRow(w) \/ FailRefresh(w) PROVE RotationInv'
  BY <1>1, <1>4 DEF ClaimRow, FailRefresh
<1> QED BY <1>1, <1>2, <1>3, <1>4, RowMoves

LEMMA ReceiptNext ==
  ASSUME TypeOK, ClockInv, AuthorityInv, RotationInv, ReceiptHoldsCredential, [Next]_vars
  PROVE  ReceiptHoldsCredential'
<1>1. ASSUME NEW o \in Ops, receipt[o] # NoReceipt, receipt'[o] = receipt[o]
      PROVE  receipt'[o].token.id \in stored' \/ o \in Eclipsed'
  BY <1>1, HistoryGrows, EclipsedGrows DEF ReceiptHoldsCredential
<1>2. CASE UNCHANGED receipt
  BY <1>1, <1>2 DEF ReceiptHoldsCredential
<1>3. ASSUME NEW o \in Ops, Commits(o) PROVE ReceiptHoldsCredential'
  <2>1. receipt'[o].token.id \in stored' \/ o \in Eclipsed'
    BY <1>3, CommitsEffect, CommitsReceipt, MissIsEclipsed
  <2>2. \A p \in Ops \ {o} : receipt'[p] = receipt[p]
    BY <1>3, CommitsReceipt
  <2> QED BY <1>1, <2>1, <2>2 DEF ReceiptHoldsCredential
<1>4. ASSUME NEW w \in Workers, ClaimRow(w) \/ CommitRefresh(w) \/ FailRefresh(w)
      PROVE  UNCHANGED receipt
  BY <1>4 DEF ClaimRow, CommitRefresh, FailRefresh
<1> QED BY <1>2, <1>3, <1>4, RowMoves

-----------------------------------------------------------------------------
(* The fence *)

\* The row a step leaves, by its fence.
LEMMA FenceMoves ==
  ASSUME TypeOK, ClockInv, AuthorityInv, [Next]_vars
  PROVE  \/ row' = row
         \/ row'.fence = row.fence /\ row'.state # "claimed"
         \/ \E w \in Workers : Wins(w) /\ \A v \in Workers \ {w} : worker'[v] = worker[v]
<1>1. ASSUME NEW w \in Workers, ClaimRow(w), row' # row
      PROVE  Wins(w) /\ \A v \in Workers \ {w} : worker'[v] = worker[v]
  <2>1. Due(worker[w].at)
    BY <1>1 DEF ClaimRow
  <2> QED BY <1>1, <2>1, TypeParts DEF ClaimRow, Wins, TaskSet
<1>2. ASSUME NEW s, NEW r, NEW d, s # "claimed", row' = Row(s, r, row.fence, d)
      PROVE  row'.fence = row.fence /\ row'.state # "claimed"
  BY <1>2 DEF Row
<1>3. ASSUME NEW w \in Workers, CommitRefresh(w), row' # row
      PROVE  row'.fence = row.fence /\ row'.state # "claimed"
  BY <1>2, <1>3, CommitRefreshEffect
<1>4. ASSUME NEW w \in Workers, FailRefresh(w), row' # row
      PROVE  row'.fence = row.fence /\ row'.state # "claimed"
  BY <1>2, <1>4 DEF FailRefresh
<1>5. ASSUME NEW o \in Ops, Commits(o)
      PROVE  row'.fence = row.fence /\ row'.state # "claimed"
  BY <1>2, <1>5, CommitsEffect
<1> QED BY <1>1, <1>3, <1>4, <1>5, RowMoves

\* A worker keeps the fence it won and its second, or gives it up.
LEMMA WonMoves ==
  ASSUME TypeOK, [Next]_vars, NEW w \in Workers
  PROVE  \/ worker'[w].won = worker[w].won /\ worker'[w].at = worker[w].at
            /\ ((worker'[w].pc = "claimed" \/ Holding(w)')
                  => worker[w].pc = "claimed" \/ Holding(w))
         \/ worker'[w].won = 0 /\ worker'[w].pc # "claimed" /\ ~Holding(w)'
         \/ Wins(w)
<1>1. CASE worker'[w] = NoTask \/ Started(w)
  BY <1>1 DEF NoTask, Started, Task, Holding
<1>2. CASE Loads(w)
  BY <1>2 DEF Loads, Task, Holding
<1>3. CASE worker'[w] = worker[w] \/ Answered(w)
  BY <1>3 DEF Answered, Holding
<1> QED BY <1>1, <1>2, <1>3, WorkerMoves DEF Steps

LEMMA WonNext ==
  ASSUME TypeOK, ClockInv, AuthorityInv, WonInv, [Next]_vars
  PROVE  WonInv'
<1>0. \A w \in Workers : worker[w] \in TaskSet /\ worker[w].won \in Nat /\ row.fence \in Nat
  BY TypeParts DEF TaskSet, RowSet
<1>1. CASE row' = row \/ (row'.fence = row.fence /\ row'.state # "claimed")
  <2>1. \A w \in Workers : ~Wins(w)
    <3> SUFFICES ASSUME NEW w \in Workers, Wins(w) PROVE FALSE
      OBVIOUS
    <3>1. row'.fence = row.fence + 1
      BY DEF Wins, Row
    <3> QED BY <1>0, <1>1, <3>1
  <2>2. \A w \in Workers :
          \/ worker'[w].won = worker[w].won /\ worker'[w].at = worker[w].at
             /\ ((worker'[w].pc = "claimed" \/ Holding(w)')
                   => worker[w].pc = "claimed" \/ Holding(w))
          \/ worker'[w].won = 0 /\ worker'[w].pc # "claimed" /\ ~Holding(w)'
    BY <2>1, WonMoves
  <2>3. \A w \in Workers : worker'[w].won <= row'.fence
    BY <1>0, <1>1, <2>2 DEF WonInv
  <2>4. \A v, w \in Workers : worker'[v].won > 0 /\ worker'[v].won = worker'[w].won => v = w
    BY <1>0, <2>2 DEF WonInv
  <2>5. \A w \in Workers : worker'[w].pc = "claimed" \/ Holding(w)' => worker'[w].won > 0
    BY <2>2 DEF WonInv
  <2>6. \A w \in Workers :
          row'.state = "claimed" /\ worker'[w].won > 0 /\ worker'[w].won = row'.fence
            => row'.due = worker'[w].at + ClaimSeconds
    BY <1>1, <2>2 DEF WonInv
  <2> QED BY <2>3, <2>4, <2>5, <2>6 DEF WonInv
<1>2. ASSUME NEW w \in Workers, Wins(w), \A v \in Workers \ {w} : worker'[v] = worker[v]
      PROVE  WonInv'
  <2>1. /\ row'.fence = row.fence + 1 /\ row'.due = worker[w].at + ClaimSeconds
        /\ worker'[w].won = row.fence + 1 /\ worker'[w].at = worker[w].at
    BY <1>2 DEF Wins, Row
  <2>2. \A v \in Workers \ {w} : worker'[v].won = worker[v].won /\ worker'[v].won < row'.fence
                                 /\ worker'[v] = worker[v]
    BY <1>0, <1>2, <2>1 DEF WonInv
  <2>3. \A v \in Workers : worker'[v].won <= row'.fence
    BY <1>0, <2>1, <2>2
  <2>4. \A u, v \in Workers : worker'[v].won > 0 /\ worker'[v].won = worker'[u].won => v = u
    BY <1>0, <2>1, <2>2 DEF WonInv
  <2>5. \A v \in Workers : worker'[v].pc = "claimed" \/ Holding(v)' => worker'[v].won > 0
    BY <1>0, <2>1, <2>2 DEF WonInv, Holding
  <2>6. \A v \in Workers :
          row'.state = "claimed" /\ worker'[v].won > 0 /\ worker'[v].won = row'.fence
            => row'.due = worker'[v].at + ClaimSeconds
    BY <1>0, <2>1, <2>2
  <2> QED BY <2>3, <2>4, <2>5, <2>6 DEF WonInv
<1> QED BY <1>1, <1>2, FenceMoves

LEMMA LeaseNext ==
  ASSUME TypeOK, ClockInv, LeaseInv, [Next]_vars
  PROVE  LeaseInv'
<1> SUFFICES ASSUME ~strayed', NEW w \in Workers
             PROVE  /\ Active(w)' => now' < worker'[w].at + ClaimSeconds
                    /\ Holding(w)' => worker'[w].fence = worker'[w].won
  BY DEF LeaseInv
<1>0. worker[w] \in TaskSet /\ now \in Nat /\ strayed \in BOOLEAN
  BY TypeParts DEF TypeOK
<1>1. ~strayed
  BY ZenonT(60) DEF Next, RunCron, EnsureFresh, Begin, WorkerStep, ClaimRow, LoadClaimed, Renew,
         CommitRefresh, FailRefresh, Die, OpStep, Validate, LoadDriver, ClaimAuthorization,
         Authorize, Refuse, Replace, Abandon, Ended, ChangeState, DeleteExpiredClaims, Tick, vars
<1>2. /\ Active(w) => now < worker[w].at + ClaimSeconds
      /\ Holding(w) => worker[w].fence = worker[w].won
  BY <1>1 DEF LeaseInv
<1>3. CASE Tick
  <2>1. ~Overruns /\ worker' = worker /\ now' = now + 1
    BY <1>3 DEF Tick
  <2>2. Active(w) => worker[w] # NoTask
    BY DEF Active, NoTask, Task
  <2>3. Active(w) => now + 1 # worker[w].at + ClaimSeconds
    BY <2>1, <2>2 DEF Overruns
  <2>4. worker[w].at + ClaimSeconds \in Nat
    BY <1>0, DriverCredentialsAssumption DEF TaskSet
  <2>5. Active(w) => now + 1 < worker[w].at + ClaimSeconds
    BY <1>0, <1>2, <2>3, <2>4
  <2> QED BY <1>2, <2>1, <2>5 DEF Active, Holding
<1>4. CASE now' = now
  <2>1. CASE worker'[w] = worker[w]
    BY <1>2, <1>4, <2>1 DEF Active, Holding
  <2>2. CASE worker'[w] = NoTask
    BY <2>2 DEF NoTask, Task, Active, Holding
  <2>3. CASE Started(w)
    <3>1. worker'[w].pc = "candidate" /\ worker'[w].at = now
      BY <2>3 DEF Started, Task
    <3> QED BY <1>0, <1>4, <3>1, DriverCredentialsAssumption DEF Active, Holding
  <2>4. CASE Wins(w)
    BY <1>2, <1>4, <2>4 DEF Wins, Active, Holding
  <2>5. CASE Loads(w)
    <3>1. worker'[w].at = worker[w].at /\ worker'[w].fence = row.fence
          /\ worker'[w].won = worker[w].won
      BY <2>5 DEF Loads, Task
    <3>2. row.fence = worker[w].won /\ Active(w)
      BY <2>5 DEF Loads, Active
    <3> QED BY <1>2, <1>4, <3>1, <3>2
  <2>6. CASE Answered(w)
    BY <1>2, <1>4, <2>6 DEF Answered, Active, Holding
  <2> QED BY <2>1, <2>2, <2>3, <2>4, <2>5, <2>6, WorkerMoves DEF Steps
<1> QED BY <1>3, <1>4, NowMoves

\* The renewal that holds the current revision keeps the claimed row: nobody
\* else may claim, commit or fail it before its lease ends.
LEMMA HolderKeepsRow ==
  ASSUME TypeOK, ClockInv, AuthorityInv, RotationInv, WonInv, LeaseInv, FenceInv, [Next]_vars,
         Clean', NEW w \in Workers, Holding(w), Holding(w)', worker[w].rev = env.rev, env' = env
  PROVE  row' = row
<1>0. /\ worker \in [Workers -> TaskSet] /\ now \in Nat /\ row \in RowSet
      /\ ClaimSeconds \in Nat
  BY TypeParts, DriverCredentialsAssumption DEF TypeOK
<1>1. Clean /\ ~strayed
  BY EclipsedGrows DEF Clean
<1>2. row.state = "claimed" /\ row.fence = worker[w].won /\ worker[w].won > 0
  BY <1>1 DEF FenceInv, WonInv
<1>3. row.due = worker[w].at + ClaimSeconds /\ now < worker[w].at + ClaimSeconds
  BY <1>1, <1>2 DEF WonInv, LeaseInv, Active, Holding
<1>4. ASSUME NEW v \in Workers, ClaimRow(v) PROVE row' = row
  <2>1. worker[v].at <= now /\ worker[v].at \in Nat
    BY <1>0 DEF ClockInv, TaskSet
  <2>2. ~(row.due <= worker[v].at)
    BY <1>0, <1>3, <2>1 DEF TaskSet
  <2> QED BY <1>4, <2>2 DEF ClaimRow, Due
<1>5. ASSUME NEW v \in Workers, Holding(v), row.fence = worker[v].fence PROVE v = w
  BY <1>1, <1>2, <1>5 DEF LeaseInv, WonInv
<1>6. ~(worker' = [worker EXCEPT ![w] = NoTask])
  BY <1>0 DEF Holding, NoTask, Task
<1>7. ASSUME NEW v \in Workers, CommitRefresh(v) PROVE row' = row
  <2>1. env.rev # env.rev + 1
    BY TypeParts DEF EnvelopeSet
  <2>2. Holding(v) /\ worker' = [worker EXCEPT ![v] = NoTask]
    BY <1>7, CommitRefreshEffect
  <2>3. ~Fenced(worker[v])
    BY <1>5, <1>6, <2>2 DEF Fenced
  <2> QED BY <1>7, <2>1, <2>3, CommitRefreshEffect
<1>8. ASSUME NEW v \in Workers, FailRefresh(v) PROVE row' = row
  <2>1. Holding(v) /\ worker' = [worker EXCEPT ![v] = NoTask]
    BY <1>8 DEF FailRefresh, Holding
  <2>2. ~Failed(worker[v])
    BY <1>5, <1>6, <2>1 DEF Failed
  <2> QED BY <1>8, <2>2 DEF FailRefresh
<1>9. ASSUME NEW o \in Ops, Commits(o) PROVE FALSE
  BY <1>9, MissIsEclipsed DEF Clean
<1> QED BY <1>4, <1>7, <1>8, <1>9, RowMoves

\* A renewal that holds after a step held before it, or has just loaded.
LEMMA HoldingMoves ==
  ASSUME TypeOK, [Next]_vars, NEW w \in Workers, Holding(w)'
  PROVE  \/ /\ Holding(w) /\ worker'[w].rev = worker[w].rev /\ worker'[w].won = worker[w].won
         \/ Loads(w)
<1>1. CASE worker'[w] = NoTask \/ Started(w) \/ Wins(w)
  BY <1>1 DEF NoTask, Started, Wins, Task, Holding
<1>2. CASE worker'[w] = worker[w] \/ Answered(w)
  BY <1>2 DEF Answered, Holding
<1> QED BY <1>1, <1>2, WorkerMoves DEF Steps

LEMMA FenceNext ==
  ASSUME TypeOK, ClockInv, AuthorityInv, RotationInv, WonInv, LeaseInv, FenceInv, [Next]_vars
  PROVE  FenceInv'
<1> SUFFICES ASSUME Clean', NEW w \in Workers, Holding(w)', worker'[w].rev = env'.rev
             PROVE  row'.state = "claimed" /\ row'.fence = worker'[w].won
  BY DEF FenceInv
<1>1. CASE /\ Holding(w) /\ worker'[w].rev = worker[w].rev /\ worker'[w].won = worker[w].won
  <2>1. worker[w].rev <= env.rev /\ env.rev \in Nat
    BY <1>1, TypeParts DEF AuthorityInv, EnvelopeSet
  <2>2. env' = env
    BY <1>1, <2>1, EnvelopeMoves
  <2>3. row' = row
    BY <1>1, <2>2, HolderKeepsRow
  <2>4. Clean
    BY EclipsedGrows
  <2> QED BY <1>1, <2>2, <2>3, <2>4 DEF FenceInv
<1>2. CASE Loads(w)
  <2>1. worker'[w].won = worker[w].won
    BY <1>2 DEF Loads, Task
  <2> QED BY <1>2, <2>1 DEF Loads, Loadable, Clean
<1> QED BY <1>1, <1>2, HoldingMoves

LEMMA SpentNext ==
  ASSUME TypeOK, ClockInv, ScheduleInv, AuthorityInv, SpentOnce, [Next]_vars, WonInv', FenceInv'
  PROVE  SpentOnce'
<1> SUFFICES ASSUME Clean', NEW v \in Workers, NEW w \in Workers, Holding(v)', Holding(w)',
                    worker'[v].rev = worker'[w].rev
             PROVE  v = w
  BY DEF SpentOnce, Clean
<1>1. Clean
  BY EclipsedGrows
<1>2. CASE worker'[w].rev = env'.rev
  <2>1. row'.fence = worker'[w].won /\ row'.fence = worker'[v].won
    BY <1>2 DEF FenceInv
  <2>2. worker'[w].won > 0
    BY DEF WonInv
  <2> QED BY <2>1, <2>2 DEF WonInv
<1>3. CASE worker'[w].rev # env'.rev
  <2>1. ASSUME NEW u \in Workers, Loads(u) PROVE worker'[u].rev = env'.rev
    <3>1. worker'[u].rev = row.observed /\ env' = env
      BY <2>1 DEF Loads, Task
    <3> QED BY <3>1 DEF ScheduleInv
  <2>2. ~Loads(v) /\ ~Loads(w)
    BY <1>3, <2>1
  <2>3. Holding(v) /\ Holding(w) /\ worker[v].rev = worker[w].rev
    BY <2>2, HoldingMoves
  <2> QED BY <1>1, <2>3 DEF SpentOnce, Clean
<1> QED BY <1>2, <1>3

-----------------------------------------------------------------------------
(* Theorems *)

LEMMA IInvInit == Init => IInv
<1> SUFFICES ASSUME Init PROVE IInv
  OBVIOUS
<1>1. TypeOK
  BY InitType
<1>2. \A w \in Workers : worker[w] = NoTask /\ worker[w].pc = "idle" /\ worker[w].at = 0
                         /\ worker[w].won = 0
  BY DEF Init, NoTask, Task
<1>3. \A o \in Ops : op[o].pc = "idle" /\ receipt[o] = NoReceipt
  BY DEF Init, Apply
<1>4. \A w \in Workers : ~Holding(w) /\ ~Active(w)
  BY <1>2 DEF Holding, Active
<1>5. ClockInv
  BY <1>2, <1>3 DEF Init, ClockInv, InFlight
<1>6. ScheduleInv /\ env.rotated = 0
  BY DEF Init, ScheduleInv, NoRow, Row, NoEnvelope, Envelope
<1>7. AuthorityInv /\ RotationInv
  BY <1>3, <1>4, <1>6 DEF AuthorityInv, RotationInv, InFlight
<1>8. row.fence = 0
  BY DEF Init, NoRow, Row
<1>9. WonInv /\ LeaseInv /\ FenceInv
  BY <1>2, <1>4, <1>8 DEF WonInv, LeaseInv, FenceInv
<1>10. SpentOnce /\ ReceiptHoldsCredential
  BY <1>3, <1>4 DEF SpentOnce, ReceiptHoldsCredential
<1> QED BY <1>1, <1>5, <1>6, <1>7, <1>9, <1>10 DEF IInv

LEMMA IInvNext == IInv /\ [Next]_vars => IInv'
<1> SUFFICES ASSUME IInv, [Next]_vars PROVE IInv'
  OBVIOUS
<1>1. /\ TypeOK /\ ClockInv /\ ScheduleInv /\ AuthorityInv /\ RotationInv
      /\ ReceiptHoldsCredential /\ WonInv /\ LeaseInv /\ FenceInv /\ SpentOnce
  BY DEF IInv
<1>2. TypeOK' /\ ClockInv' /\ ScheduleInv' /\ AuthorityInv'
  BY <1>1, TypeNext, ClockNext, ScheduleNext, AuthorityNext
<1>3. RotationInv' /\ ReceiptHoldsCredential'
  BY <1>1, RotationNext, ReceiptNext
<1>4. WonInv' /\ LeaseInv' /\ FenceInv'
  BY <1>1, WonNext, LeaseNext, FenceNext
<1>5. SpentOnce'
  BY <1>1, <1>4, SpentNext
<1> QED BY <1>2, <1>3, <1>4, <1>5 DEF IInv

LEMMA IInvHolds == Spec => []IInv
BY IInvInit, IInvNext, PTL DEF Spec

\* Whoever wins between a renewal and a replacement, the refresh row
\* observes the revision that is sealed (commit_refresh, the apply's batch).
THEOREM ScheduleFollows == Spec => []ScheduleTracksEnvelope
<1>1. IInv => ScheduleTracksEnvelope
  BY DEF IInv, ScheduleInv, ScheduleTracksEnvelope
<1> QED BY <1>1, IInvHolds, PTL

\* No renewal and no replacement moves a driver to another provider account,
\* however old the account is that it compared with (same_authority).
THEOREM AccountIsKept == Spec => AuthorityKept
<1>1. IInv /\ [Next]_vars => [env.rev > 0 => env'.token.account = env.token.account]_vars
  <2> SUFFICES ASSUME IInv, [Next]_vars, env.rev > 0
               PROVE  env'.token.account = env.token.account
    OBVIOUS
  <2>1. TypeOK /\ ClockInv /\ AuthorityInv
    BY DEF IInv
  <2> QED BY <2>1, EnvelopeMoves
<1> QED BY <1>1, IInvHolds, PTL DEF Spec, AuthorityKept

\* A committed receipt is of a sealed credential, unless another rotation
\* of the same second stood in for it (validate_driver_credential_receipt).
THEOREM ReceiptsHoldCredentials == Spec => []ReceiptHoldsCredential
<1>1. IInv => ReceiptHoldsCredential
  BY DEF IInv
<1> QED BY <1>1, IInvHolds, PTL

\* Renewals that end within their claims never present one refresh token
\* twice (the fence of driver_credential_refreshes).
THEOREM TokensAreSpentOnce == Spec => []SpentOnce
<1>1. IInv => SpentOnce
  BY DEF IInv
<1> QED BY <1>1, IInvHolds, PTL
=============================================================================

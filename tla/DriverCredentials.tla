--------------------------- MODULE DriverCredentials ---------------------------
(***************************************************************************)
(* The encrypted credential of one managed driver: the fenced renewal by   *)
(* the cron and by driver grants (driver_credentials.rs), its replacement  *)
(* by operators (management_driver_credentials.rs), and the provider that  *)
(* takes every refresh token once.                                         *)
(*                                                                         *)
(* Every handler reads the clock once, when it starts, and uses that       *)
(* second in all its statements; between two statements anything may       *)
(* happen.  A batch is one transaction.                                    *)
(***************************************************************************)
EXTENDS Integers, FiniteSets, FiniteSetsExt

CONSTANTS
  Workers,      \* cron runs and driver grants that renew
  Ops,          \* operators' apply requests, each with its own key
  Accounts,     \* provider accounts
  OpAccount,    \* the account of the token each operator brings
  Imported,     \* the account of an imported credential
  Nobody,       \* no account
  First,        \* the refresh token of an imported credential
  ClaimSeconds, \* CLAIM_SECONDS, AUTHORIZATION_CLAIM_SECONDS
  MinLifetime,  \* MINIMUM_GRANT_LIFETIME_SECONDS
  Lead,         \* REFRESH_LEAD_SECONDS
  Lifetime,     \* of an access token
  RetryDelay,   \* retry_delay
  MaxDelay,     \* how long a handler may run
  Far,          \* a second no handler reaches
  MaxRenewals,  \* bound on exchanges: from this one on a token lives until Far
  MaxFaults,    \* bound on crashes, provider faults and lost answers
  MaxTries,     \* bound on sendings of an apply
  MaxStates     \* bound on driver.state mutations

ASSUME DriverCredentialsAssumption ==
  /\ {ClaimSeconds, Lifetime, RetryDelay, MaxTries} \subseteq Nat \ {0}
  /\ {MinLifetime, Lead, MaxDelay, Far, MaxRenewals, MaxFaults, MaxStates} \subseteq Nat
  /\ \A o \in Ops : OpAccount[o] \in Accounts
  /\ Imported \in Accounts /\ Nobody \notin Accounts
  /\ ClaimSeconds <= MaxDelay

VARIABLES
  now,       \* Date::now
  driver,    \* the row of driver_instances: its revision and whether it is enabled
  env,       \* the row of credential_envelopes the driver references
  row,       \* the row of driver_credential_refreshes
  claim,     \* the row of driver_authorization_claims
  live,      \* refresh tokens the provider still takes
  renewals,  \* tokens issued so far
  faults,    \* faults so far
  worker,    \* renewals in flight
  op,        \* applies in flight
  receipt,   \* receipts of kind driver.credential, by key
  stored,    \* history: tokens that were sealed into the envelope
  renewedAt, \* history: seconds a renewal committed with
  strayed    \* history: a renewal ran on past its claim, or loaded another's

vars == <<now, driver, env, row, claim, live, renewals, faults, worker, op, receipt, stored,
          renewedAt, strayed>>

-----------------------------------------------------------------------------
(* Records *)

Token(id, account) == [id |-> id, account |-> account]
NoToken == Token(0, Nobody)
OpToken(o) == Token(o, OpAccount[o])

Envelope(rev, token, expires, rotated) ==
  [rev |-> rev, token |-> token, expires |-> expires, rotated |-> rotated]
NoEnvelope == Envelope(0, NoToken, 0, 0)

\* due is refresh_after when ready, retry_at when retry, lease_expires_at when claimed.
Row(state, observed, fence, due) ==
  [state |-> state, observed |-> observed, fence |-> fence, due |-> due]
NoRow == Row("none", 0, 0, 0)

Claim(key, fence, lease) == [key |-> key, fence |-> fence, lease |-> lease]
NoClaim == Claim("none", 0, 0)

\* RefreshTask and its outcome; token is the one presented, then the one received.
\* won is the fence of the worker's own claim (history).
Task(pc, at, won, rev, fence, token, expires) ==
  [pc |-> pc, at |-> at, won |-> won, rev |-> rev, fence |-> fence, token |-> token,
   expires |-> expires]
NoTask == Task("idle", 0, 0, 0, 0, NoToken, 0)

\* DriverRow as load_driver captured it, the authorization fence, the material.
Apply(pc, at, tries) ==
  [pc |-> pc, at |-> at, tries |-> tries, expected |-> 0, driverRev |-> 0, rev |-> 0,
   account |-> Nobody, fence |-> 0, token |-> NoToken, expires |-> 0]

Receipt(token, rotated) == [token |-> token, rotated |-> rotated]
NoReceipt == Receipt(NoToken, 0)

-----------------------------------------------------------------------------
(* The provider, and what a handler makes of its answer *)

Fault == faults < MaxFaults /\ faults' = faults + 1

\* The token the next exchange issues, and when its access token expires.
Fresh(token) == Token(renewals + 1, token.account)
Expiry == IF renewals + 1 >= MaxRenewals THEN Far ELSE now + Lifetime

\* exchange_openlist succeeded: the old token is spent, the new one has the
\* same account and lives longer than the grants' minimum.
Exchanged(token) ==
  /\ token.id \in live /\ Expiry > now + MinLifetime
  /\ renewals' = renewals + 1
  /\ live' = (live \ {token.id}) \cup {Fresh(token).id}
  /\ UNCHANGED faults

\* RenewalFailure::Retry: the provider was not reached, or its answer was lost.
Unavailable(token) ==
  /\ Fault
  /\ live' \in {live, live \ {token.id}}
  /\ UNCHANGED renewals

\* RenewalFailure::Reauthenticate: a spent token, or an answer of another account.
Rejected(token) ==
  /\ \/ token.id \notin live /\ UNCHANGED <<live, faults>>
     \/ token.id \in live /\ Fault /\ live' = live \ {token.id}
  /\ UNCHANGED renewals

\* refresh_after
RefreshAfter(expires, at) == Max({expires - Lead, at + 1})

-----------------------------------------------------------------------------
(* Renewal: refresh_one *)

\* Mutants: a claim that is still leased is taken; a lapsed claim is not.
DueThoughLeased(at) ==
  \/ row.state \in {"ready", "retry"} /\ row.due <= at
  \/ row.state = "claimed"
DueUnclaimed(at) == row.state \in {"ready", "retry"} /\ row.due <= at

\* The due test of the candidate query and of the claim.
Due(at) == row.state \in {"ready", "retry", "claimed"} /\ row.due <= at

\* The cron's run, or a grant that finds the access token near its end
\* (ensure_fresh), reads the clock and finds the candidate.
Begin(w) ==
  /\ worker[w] = NoTask /\ Due(now)
  /\ worker' = [worker EXCEPT ![w] = Task("candidate", now, 0, 0, 0, NoToken, 0)]
  /\ UNCHANGED <<now, driver, env, row, claim, live, renewals, faults, op, receipt, stored,
                 renewedAt, strayed>>

RunCron(w) == Begin(w)

EnsureFresh(w) == env.expires <= now + MinLifetime /\ Begin(w)

\* The UPDATE of the claim; nothing changes when somebody else won.
ClaimRow(w) ==
  LET t == worker[w]
  IN /\ t.pc = "candidate"
     /\ IF Due(t.at)
        THEN /\ row' = Row("claimed", row.observed, row.fence + 1, t.at + ClaimSeconds)
             /\ worker' = [worker EXCEPT ![w].pc = "claimed", ![w].won = row.fence + 1]
        ELSE row' = row /\ worker' = [worker EXCEPT ![w] = NoTask]
     /\ UNCHANGED <<now, driver, env, claim, live, renewals, faults, op, receipt, stored,
                    renewedAt, strayed>>

\* load_claimed: the claim it finds, at its own second, with the row's fence.
Loadable(at) == row.state = "claimed" /\ row.due > at /\ env.rev = row.observed

LoadClaimed(w) ==
  LET t == worker[w]
  IN /\ t.pc = "claimed"
     /\ worker' = [worker EXCEPT ![w] =
          IF Loadable(t.at)
          THEN Task("loaded", t.at, t.won, row.observed, row.fence, env.token, 0)
          ELSE NoTask]
     /\ strayed' = (strayed \/ (Loadable(t.at) /\ row.fence # t.won))
     /\ UNCHANGED <<now, driver, env, row, claim, live, renewals, faults, op, receipt, stored,
                    renewedAt>>

\* renew: the answer of the provider.
Renew(w) ==
  LET t == worker[w]
  IN /\ t.pc = "loaded"
     /\ \/ /\ Exchanged(t.token)
           /\ worker' = [worker EXCEPT ![w] =
                Task("renewed", t.at, t.won, t.rev, t.fence, Fresh(t.token), Expiry)]
        \/ Unavailable(t.token) /\ worker' = [worker EXCEPT ![w].pc = "retry"]
        \/ Rejected(t.token) /\ worker' = [worker EXCEPT ![w].pc = "reauth_required"]
     /\ UNCHANGED <<now, driver, env, row, claim, op, receipt, stored, renewedAt, strayed>>

\* The guard both statements of the renewal's batch share.
Fenced(t) == row.state = "claimed" /\ row.fence = t.fence /\ row.due > t.at

\* Mutant: the envelope is written without the fence.
WritesUnfenced(t) == env.rev = t.rev

Writes(t) == env.rev = t.rev /\ Fenced(t)

\* commit_refresh: the envelope, then the schedule when the envelope is the
\* next revision.  A renewal that lost its fence changes nothing and errs.
CommitRefresh(w) ==
  LET t == worker[w]
      after == IF Writes(t) THEN Envelope(t.rev + 1, t.token, t.expires, t.at) ELSE env
  IN /\ t.pc = "renewed"
     /\ env' = after
     /\ row' = IF Fenced(t) /\ after.rev = t.rev + 1
               THEN Row("ready", t.rev + 1, row.fence, RefreshAfter(t.expires, t.at))
               ELSE row
     /\ stored' = IF Writes(t) THEN stored \cup {t.token.id} ELSE stored
     /\ renewedAt' = IF Writes(t) THEN renewedAt \cup {t.at} ELSE renewedAt
     /\ worker' = [worker EXCEPT ![w] = NoTask]
     /\ UNCHANGED <<now, driver, claim, live, renewals, faults, op, receipt, strayed>>

\* Only a retry has a retry_at.
RetryAt(t) == IF t.pc = "retry" THEN t.at + RetryDelay ELSE 0

\* fail_refresh: of the claim with this fence only.
Failed(t) == row.state = "claimed" /\ row.fence = t.fence

FailRefresh(w) ==
  LET t == worker[w]
  IN /\ t.pc \in {"retry", "reauth_required"}
     /\ row' = IF Failed(t)
               THEN Row(t.pc, row.observed, row.fence, RetryAt(t))
               ELSE row
     /\ worker' = [worker EXCEPT ![w] = NoTask]
     /\ UNCHANGED <<now, driver, env, claim, live, renewals, faults, op, receipt, stored,
                    renewedAt, strayed>>

\* The isolate goes away.
Die(w) ==
  /\ worker[w] # NoTask /\ Fault
  /\ worker' = [worker EXCEPT ![w] = NoTask]
  /\ UNCHANGED <<now, driver, env, row, claim, live, renewals, op, receipt, stored, renewedAt, strayed>>

-----------------------------------------------------------------------------
(* Replacement: validate and apply *)

Ended(o, rest) == op' = [op EXCEPT ![o] = [Apply("idle", 0, op[o].tries) EXCEPT
                                             !.expected = op[o].expected]] /\ UNCHANGED rest

\* validate: the proposal names the revision it was made against.
Validate(o) ==
  /\ op[o].pc = "idle" /\ op[o].expected = 0 /\ op[o].tries < MaxTries
  /\ op' = [op EXCEPT ![o].pc = "proposed", ![o].expected = driver.rev]
  /\ UNCHANGED <<now, driver, env, row, claim, live, renewals, faults, worker, receipt, stored,
                 renewedAt, strayed>>

\* apply up to the claim: a stored receipt answers; otherwise the driver is
\* read with its envelope, and a changed driver refuses.
LoadDriver(o) ==
  /\ op[o].pc = "proposed" \/ (op[o].pc = "idle" /\ op[o].expected > 0 /\ op[o].tries < MaxTries)
  /\ LET sent == Apply("loaded", now, op[o].tries + 1)
         read == [sent EXCEPT !.expected = op[o].expected, !.driverRev = driver.rev,
                              !.rev = env.rev, !.account = env.token.account]
     IN op' = [op EXCEPT ![o] =
                 IF receipt[o] = NoReceipt /\ driver.rev = op[o].expected THEN read
                 ELSE [Apply("idle", 0, op[o].tries + 1) EXCEPT !.expected = op[o].expected]]
  /\ UNCHANGED <<now, driver, env, row, claim, live, renewals, faults, worker, receipt, stored,
                 renewedAt, strayed>>

\* claim_authorization: the upsert takes a lapsed claim over, the read that
\* follows accepts the claim of this very request.
ClaimAuthorization(o) ==
  LET at == op[o].at
      after == IF claim = NoClaim THEN Claim(o, 1, at + ClaimSeconds)
               ELSE IF claim.lease <= at THEN Claim(o, claim.fence + 1, at + ClaimSeconds)
               ELSE claim
  IN /\ op[o].pc = "loaded"
     /\ claim' = after
     /\ IF after.key = o /\ after.lease > at
        THEN /\ op' = [op EXCEPT ![o].pc = "claimed", ![o].fence = after.fence]
             /\ UNCHANGED <<now, driver, env, row, live, renewals, faults, worker, receipt,
                            stored, renewedAt, strayed>>
        ELSE Ended(o, <<now, driver, env, row, live, renewals, faults, worker, receipt, stored,
                        renewedAt, strayed>>)

\* release_authorization
Owns(o) == claim.key = o /\ claim.fence = op[o].fence

Released(o) == claim' = IF Owns(o) THEN NoClaim ELSE claim

\* authorize: the operator's token is exchanged, or the claim is released.
Authorize(o) ==
  /\ op[o].pc = "claimed"
  /\ \/ /\ Exchanged(OpToken(o))
        /\ op' = [op EXCEPT ![o].pc = "authorized", ![o].token = Fresh(OpToken(o)),
                            ![o].expires = Expiry]
     \/ /\ Unavailable(OpToken(o)) \/ Rejected(OpToken(o))
        /\ op' = [op EXCEPT ![o].pc = "refused"]
  /\ UNCHANGED <<now, driver, env, row, claim, worker, receipt, stored, renewedAt, strayed>>

\* Mutant: any account replaces the credential.
ContinuousAlways(o) == TRUE

\* open_existing_credential and same_authority, of the envelope read before.
Continuous(o) == op[o].rev = 0 \/ op[o].account = op[o].token.account

Refuse(o) ==
  /\ \/ op[o].pc = "refused"
     \/ op[o].pc = "authorized" /\ ~Continuous(o)
  /\ Released(o)
  /\ Ended(o, <<now, driver, env, row, live, renewals, faults, worker, receipt, stored,
                renewedAt, strayed>>)

\* The envelope statement of the batch: an INSERT of a new credential, which
\* the driver references only when its own UPDATE hits, or an UPDATE of the
\* revision that was read, which may hit no row.
EnvelopeAfter(o) ==
  LET a == op[o]
  IN IF a.rev = env.rev THEN Envelope(a.rev + 1, a.token, a.expires, a.at) ELSE env

DriverAfter(o) ==
  IF driver.rev = op[o].driverRev THEN [driver EXCEPT !.rev = @ + 1] ELSE driver

\* Mutant: the receipt's trigger does not compare the second of the rotation.
BatchHoldsAnytime(o, e, d) ==
  /\ d.rev = op[o].driverRev + 1
  /\ op[o].rev > 0 \/ (env.rev = 0 /\ driver.rev = op[o].driverRev)
  /\ e.rev = op[o].rev + 1

\* validate_driver_credential_refresh_insert and
\* validate_driver_credential_receipt: what the batch left must be the named
\* driver revision, credential, revision and second.
BatchHolds(o, e, d) ==
  LET a == op[o]
  IN /\ d.rev = a.driverRev + 1
     /\ a.rev > 0 \/ (env.rev = 0 /\ driver.rev = a.driverRev)
     /\ e.rev = a.rev + 1
     /\ e.rotated = a.at

Replace(o) ==
  LET a == op[o]
      e == EnvelopeAfter(o)
      d == DriverAfter(o)
  IN /\ a.pc = "authorized" /\ Continuous(o)
     /\ IF BatchHolds(o, e, d) /\ receipt[o] = NoReceipt
        THEN /\ env' = e /\ driver' = d
             /\ row' = Row("ready", a.rev + 1, row.fence, RefreshAfter(a.expires, a.at))
             /\ Released(o)
             /\ receipt' = [receipt EXCEPT ![o] = Receipt(a.token, a.at)]
             /\ stored' = IF e.token = a.token THEN stored \cup {a.token.id} ELSE stored
             /\ Ended(o, <<now, live, renewals, faults, worker, renewedAt, strayed>>)
        ELSE Ended(o, <<now, driver, env, row, claim, live, renewals, faults, worker, receipt,
                        stored, renewedAt, strayed>>)

\* The request's isolate goes away; the claim it took stays.
Abandon(o) ==
  /\ op[o].pc \notin {"idle", "proposed"} /\ Fault
  /\ Ended(o, <<now, driver, env, row, claim, live, renewals, worker, receipt, stored,
                renewedAt, strayed>>)

-----------------------------------------------------------------------------
(* Other writers, and the clock *)

\* driver.state: enabling needs a credential that is ready.
ChangeState ==
  /\ driver.rev <= MaxStates + Cardinality({o \in Ops : receipt[o] # NoReceipt})
  /\ driver.enabled \/ row.state = "ready"
  /\ driver' = [rev |-> driver.rev + 1, enabled |-> ~driver.enabled]
  /\ UNCHANGED <<now, env, row, claim, live, renewals, faults, worker, op, receipt, stored,
                 renewedAt, strayed>>

\* delete_expired_authorization_claims
DeleteExpiredClaims ==
  /\ claim # NoClaim /\ claim.lease <= now
  /\ claim' = NoClaim
  /\ UNCHANGED <<now, driver, env, row, live, renewals, faults, worker, op, receipt, stored,
                 renewedAt, strayed>>

\* The clock runs while something waits for it; no handler outlives MaxDelay.
Waiting ==
  \/ row.state \in {"ready", "retry", "claimed"} /\ row.due > now /\ row.due + Lead < Far
  \/ claim # NoClaim /\ claim.lease > now
  \/ \E w \in Workers : worker[w] # NoTask
  \/ \E o \in Ops : op[o].at > 0

\* A renewal that reaches the end of its claim has overrun it: a fault.
Overruns == \E w \in Workers : worker[w] # NoTask /\ now + 1 = worker[w].at + ClaimSeconds

Tick ==
  /\ Waiting
  /\ \A w \in Workers : worker[w] # NoTask => now < worker[w].at + MaxDelay
  /\ \A o \in Ops : op[o].pc \notin {"idle", "proposed"} => now < op[o].at + MaxDelay
  /\ now' = now + 1
  /\ IF Overruns THEN Fault /\ strayed' = TRUE ELSE UNCHANGED <<faults, strayed>>
  /\ UNCHANGED <<driver, env, row, claim, live, renewals, worker, op, receipt, stored,
                 renewedAt>>

-----------------------------------------------------------------------------
(* Specification *)

\* A registered driver without a credential, or with an imported one that is
\* due.  What the bounds count may have been spent before.
Init ==
  /\ now = 1
  /\ \E r \in 1 .. 1 + MaxStates : driver = [rev |-> r, enabled |-> FALSE]
  /\ \/ env = NoEnvelope /\ row = NoRow
     \/ /\ env = Envelope(1, Token(First, Imported), 1 + Lead, 0)
        /\ row = Row("ready", 1, 0, 1)
  /\ claim = NoClaim
  /\ live = {First} \cup Ops
  /\ renewals = 0 /\ faults \in 0 .. MaxFaults
  /\ worker = [w \in Workers |-> NoTask]
  /\ \E tries \in [Ops -> 0 .. MaxTries] : op = [o \in Ops |-> Apply("idle", 0, tries[o])]
  /\ receipt = [o \in Ops |-> NoReceipt]
  /\ stored = {env.token.id} /\ renewedAt = {} /\ strayed = FALSE

WorkerStep(w) ==
  ClaimRow(w) \/ LoadClaimed(w) \/ Renew(w) \/ CommitRefresh(w) \/ FailRefresh(w)

OpStep(o) ==
  \/ Validate(o) \/ LoadDriver(o) \/ ClaimAuthorization(o) \/ Authorize(o)
  \/ Refuse(o) \/ Replace(o) \/ Abandon(o)

Next ==
  \/ \E w \in Workers : RunCron(w) \/ EnsureFresh(w) \/ WorkerStep(w) \/ Die(w)
  \/ \E o \in Ops : OpStep(o)
  \/ ChangeState \/ DeleteExpiredClaims \/ Tick

\* The cron fires every 15 minutes, a handler that started runs to its end or
\* dies, and time passes.
Fairness ==
  /\ WF_vars(Tick)
  /\ WF_vars(\E w \in Workers : RunCron(w))
  /\ \A w \in Workers : WF_vars(WorkerStep(w))
  /\ \A o \in Ops : WF_vars(ClaimAuthorization(o) \/ Authorize(o) \/ Refuse(o) \/ Replace(o))

Spec == Init /\ [][Next]_vars /\ Fairness

-----------------------------------------------------------------------------
(* Properties *)

TokenIds == Nat \cup {First} \cup Ops
TokenSet == [id : TokenIds, account : Accounts \cup {Nobody}]

\* Every row has its columns' values, within the CHECKs of migrations 0042
\* and 0045.
TypeOK ==
  /\ now \in Nat
  /\ driver \in [rev : Nat \ {0}, enabled : BOOLEAN]
  /\ env \in [rev : Nat, token : TokenSet, expires : Nat, rotated : Nat]
  /\ row \in [state : {"none", "ready", "claimed", "retry", "reauth_required"},
              observed : Nat, fence : Nat, due : Nat]
  /\ row.due > 0 <=> row.state \in {"ready", "claimed", "retry"}
  /\ claim \in [key : Ops \cup {"none"}, fence : Nat, lease : Nat]
  /\ live \subseteq TokenIds
  /\ renewals \in Nat /\ faults \in 0 .. MaxFaults
  /\ worker \in [Workers ->
       [pc : {"idle", "candidate", "claimed", "loaded", "renewed", "retry", "reauth_required"},
        at : Nat, won : Nat, rev : Nat, fence : Nat, token : TokenSet, expires : Nat]]
  /\ op \in [Ops ->
       [pc : {"idle", "proposed", "loaded", "claimed", "authorized", "refused"}, at : Nat,
        tries : 0 .. MaxTries, expected : Nat, driverRev : Nat, rev : Nat,
        account : Accounts \cup {Nobody}, fence : Nat, token : TokenSet, expires : Nat]]
  /\ receipt \in [Ops -> [token : TokenSet, rotated : Nat]]
  /\ stored \subseteq TokenIds /\ renewedAt \subseteq Nat /\ strayed \in BOOLEAN

\* The schedule follows the envelope: whoever wins between a renewal and a
\* replacement, the refresh row observes the revision that is sealed.  A row
\* left behind would be claimed and given up for ever (load_claimed).  With the types.
ScheduleTracksEnvelope == TypeOK /\ row.observed = env.rev

\* The provider's account behind a driver never changes once it has a
\* credential (same_authority, refresh_identity_mismatch).
AuthorityKept == [][env.rev > 0 => env'.token.account = env.token.account]_vars

Holding(w) == worker[w].pc \in {"loaded", "renewed", "retry", "reauth_required"}

\* An operator's receipt that another rotation of the same second stood in
\* for: the receipt's trigger tells rotations apart by their second only.
Eclipsed ==
  {o \in Ops : /\ receipt[o] # NoReceipt
               /\ \/ receipt[o].rotated \in renewedAt
                  \/ \E p \in Ops \ {o} : /\ receipt[p] # NoReceipt
                                          /\ receipt[p].rotated = receipt[o].rotated}

\* While every renewal ends within its claim and loads the claim it won, no
\* two renewals hold the same single-use refresh token: the cron and the
\* grants share the fence (ensure_fresh).
SpentOnce ==
  ~strayed /\ Eclipsed = {} =>
    \A v, w \in Workers :
      Holding(v) /\ Holding(w) /\ worker[v].rev = worker[w].rev => v = w

\* A receipt says that the operator's credential is sealed; only a renewal
\* or another operator's replacement of the same second can stand in for it.
ReceiptHoldsCredential ==
  \A o \in Ops : receipt[o] # NoReceipt =>
    receipt[o].token.id \in stored \/ o \in Eclipsed

\* What docs/driver-spi.md and the message of the receipt's trigger promise:
\* a committed receipt is the receipt of a credential that was sealed.
ReceiptSeals == \A o \in Ops : receipt[o] # NoReceipt => receipt[o].token.id \in stored

\* A claimed row does not stay claimed: a renewal ends it, or its lease
\* lapses and the cron renews again.
RefreshSettles == row.state = "claimed" ~> row.state \in {"ready", "reauth_required"}
=============================================================================

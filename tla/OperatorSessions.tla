---------------------------- MODULE OperatorSessions ----------------------------
(***************************************************************************)
(* The operator's browser sessions (operator_sessions.rs): login with the  *)
(* account and the admin token, the short configuration session every      *)
(* mutation of the management plane needs, logout, and the rate limits of  *)
(* failed attempts with their retirement by the cron.                      *)
(*                                                                         *)
(* One browser holds the cookies.  Attempts are concurrent HTTP requests   *)
(* from one address: a handler reads the clock once, checks the blocks,    *)
(* and writes its failure one policy at a time.                            *)
(***************************************************************************)
EXTENDS Integers, Sequences, FiniteSets

CONSTANTS
  Attempts,         \* login and enable requests in flight
  SessionLifetime,
  ConfigLifetime,
  Window,           \* RATE_LIMIT_WINDOW_SECONDS
  MaximumFailures,  \* of a policy
  BlockSeconds,     \* of a policy
  Retention,        \* AUTH_RATE_LIMIT_RETENTION_SECONDS
  MaxDelay,         \* how long a request may run
  MaxNow,           \* bound on the clock
  MaxSessions,      \* bound on sessions opened, of both kinds
  MaxFails          \* bound on wrong passwords

ASSUME OperatorSessionsAssumption ==
  /\ {SessionLifetime, ConfigLifetime, Window, MaximumFailures, BlockSeconds} \subseteq Nat \ {0}
  /\ {Retention, MaxDelay, MaxNow, MaxSessions, MaxFails} \subseteq Nat
  /\ BlockSeconds + MaxDelay <= Retention

Scopes == {"login_ip", "login_account", "configuration_ip"}

VARIABLES
  now,       \* Date::now
  admin,     \* the row of admin_sessions the cookie names
  config,    \* the row of admin_configuration_sessions the cookie names
  limits,    \* operator_auth_rate_limits, by scope
  attempt,   \* requests in flight
  opened,    \* sessions opened so far
  fails      \* wrong passwords so far

sessionVars == <<now, admin, config, limits, attempt, opened, fails>>

-----------------------------------------------------------------------------
(* Records *)

Session(id, until) == [id |-> id, until |-> until]
NoSession == Session(0, 0)

Limit(attempts, window, until, updated) ==
  [attempts |-> attempts, window |-> window, until |-> until, updated |-> updated]
NoLimit == Limit(0, 0, 0, 0)

\* todo: the policies whose failure is still to be recorded, in order.
Attempt(pc, at, owner, todo) == [pc |-> pc, at |-> at, owner |-> owner, todo |-> todo]
NoAttempt == Attempt("idle", 0, 0, <<>>)

-----------------------------------------------------------------------------
(* Authority of a request *)

\* authorized: the session row exists and has not expired.
Authorized == admin.until > now

\* configuration_expiry: the configuration session belongs to this session.
ConfigurationAuthorized == Authorized /\ config.id = admin.id /\ config.until > now

\* retry_after: some policy of the request is blocked.
RetryAfter(policies, at) == \E i \in DOMAIN policies : limits[policies[i]].until > at

-----------------------------------------------------------------------------
(* login and enable_configuration *)

\* The account decides which policies count: an unknown one has no subject.
LoginPolicies(known) == IF known THEN <<"login_ip", "login_account">> ELSE <<"login_ip">>

\* login up to the credential check.
LoginCheck(a, known, good) ==
  LET policies == LoginPolicies(known)
  IN /\ attempt[a] = NoAttempt /\ (good => known) /\ ~RetryAfter(policies, now)
     /\ IF good
        THEN /\ opened < MaxSessions
             /\ attempt' = [attempt EXCEPT ![a] = Attempt("login", now, 0, <<>>)]
             /\ UNCHANGED fails
        ELSE /\ fails < MaxFails /\ fails' = fails + 1
             /\ attempt' = [attempt EXCEPT ![a] = Attempt("record", now, 0, policies)]
     /\ UNCHANGED <<now, admin, config, limits, opened>>

\* create_browser_session: a second reading of the clock, a new row and cookie.
CreateSession(a) ==
  /\ attempt[a].pc = "login" /\ opened < MaxSessions
  /\ opened' = opened + 1
  /\ admin' = Session(opened', now + SessionLifetime)
  /\ attempt' = [attempt EXCEPT ![a] = NoAttempt]
  /\ UNCHANGED <<now, config, limits, fails>>

\* enable_configuration up to the credential check.
EnableCheck(a, good) ==
  /\ attempt[a] = NoAttempt /\ Authorized /\ ~RetryAfter(<<"configuration_ip">>, now)
  /\ IF good
     THEN /\ ~ConfigurationAuthorized /\ opened < MaxSessions
          /\ attempt' = [attempt EXCEPT ![a] = Attempt("enable", now, admin.id, <<>>)]
          /\ UNCHANGED fails
     ELSE /\ fails < MaxFails /\ fails' = fails + 1
          /\ attempt' = [attempt EXCEPT ![a] =
                           Attempt("record", now, 0, <<"configuration_ip">>)]
  /\ UNCHANGED <<now, admin, config, limits, opened>>

\* The row references the session the request came with: a logout in between
\* removed it, and the insert fails.
EnableConfiguration(a) ==
  /\ attempt[a].pc = "enable" /\ opened < MaxSessions
  /\ opened' = opened + 1
  /\ config' = IF attempt[a].owner = admin.id /\ admin.until > 0
               THEN Session(attempt[a].owner, attempt[a].at + ConfigLifetime) ELSE config
  /\ attempt' = [attempt EXCEPT ![a] = NoAttempt]
  /\ UNCHANGED <<now, admin, limits, fails>>

-----------------------------------------------------------------------------
(* record_failures *)

\* Mutation: a failure computes the block anew from its own clock.
NextBlockFresh(row, attempts, at) == IF attempts >= MaximumFailures THEN at + BlockSeconds ELSE 0
\* A block in force stays as it is.
NextBlock(row, attempts, at) ==
  IF row.until > at THEN row.until
  ELSE IF attempts >= MaximumFailures THEN at + BlockSeconds ELSE 0

\* The upsert of one failure; at is the clock of the request.
Failed(row, at) ==
  LET cutoff == IF at > Window THEN at - Window ELSE 0
      fresh == row.window <= cutoff
      attempts == IF fresh THEN 1 ELSE row.attempts + 1
  IN IF row = NoLimit THEN Limit(1, at, 0, at)
     ELSE Limit(attempts, IF fresh THEN at ELSE row.window, NextBlock(row, attempts, at), at)

\* The table checks that updated_at is not before the window.
TableAccepts(row) == row.updated >= row.window

\* One statement of record_failures.  A request slower than the window it meets
\* fails at the table's check.
RecordFailure(a) ==
  LET scope == Head(attempt[a].todo)
      row == Failed(limits[scope], attempt[a].at)
      rest == Tail(attempt[a].todo)
  IN /\ attempt[a].pc = "record"
     /\ \/ /\ TableAccepts(row)
           /\ limits' = [limits EXCEPT ![scope] = row]
           /\ attempt' = [attempt EXCEPT ![a] =
                            IF rest = <<>> THEN NoAttempt ELSE [@ EXCEPT !.todo = rest]]
        \/ /\ ~TableAccepts(row)
           /\ attempt' = [attempt EXCEPT ![a] = NoAttempt]
           /\ UNCHANGED limits
     /\ UNCHANGED <<now, admin, config, opened, fails>>

-----------------------------------------------------------------------------
(* The end of a session, the cron and time *)

\* logout deletes the row; its configuration session goes with it.
Logout ==
  /\ admin.until > 0
  /\ admin' = Session(admin.id, 0) /\ config' = NoSession
  /\ UNCHANGED <<now, limits, attempt, opened, fails>>

DisableConfiguration ==
  /\ config # NoSession /\ config' = NoSession
  /\ UNCHANGED <<now, admin, limits, attempt, opened, fails>>

\* delete_expired_auth_rate_limits goes by updated_at alone.
Retirable(row) == row # NoLimit /\ row.updated + Retention <= now

RetireLimits ==
  /\ \E s \in Scopes : Retirable(limits[s])
  /\ limits' = [s \in Scopes |-> IF Retirable(limits[s]) THEN NoLimit ELSE limits[s]]
  /\ UNCHANGED <<now, admin, config, attempt, opened, fails>>

\* A request does not outlive MaxDelay.
Tick ==
  /\ now < MaxNow
  /\ \A a \in Attempts : attempt[a] # NoAttempt => now < attempt[a].at + MaxDelay
  /\ now' = now + 1
  /\ UNCHANGED <<admin, config, limits, attempt, opened, fails>>

-----------------------------------------------------------------------------

SessionInit ==
  /\ now = 1 /\ admin = NoSession /\ config = NoSession /\ opened = 0 /\ fails = 0
  /\ limits = [s \in Scopes |-> NoLimit]
  /\ attempt = [a \in Attempts |-> NoAttempt]

SessionNext ==
  \/ \E a \in Attempts :
       \/ \E known, good \in BOOLEAN : LoginCheck(a, known, good)
       \/ \E good \in BOOLEAN : EnableCheck(a, good)
       \/ CreateSession(a) \/ EnableConfiguration(a) \/ RecordFailure(a)
  \/ Logout \/ DisableConfiguration \/ RetireLimits \/ Tick

-----------------------------------------------------------------------------
(* Properties *)

SessionTypeOK ==
  /\ now \in 1..MaxNow /\ opened \in 0..MaxSessions /\ fails \in 0..MaxFails
  /\ admin \in [id : 0..MaxSessions, until : 0..(MaxNow + SessionLifetime)]
  /\ config \in [id : 0..MaxSessions, until : 0..(MaxNow + ConfigLifetime)]
  /\ limits \in [Scopes -> [attempts : Nat, window : Nat, updated : Nat,
                            until : 0..(MaxNow + BlockSeconds)]]
  /\ \A s \in Scopes : TableAccepts(limits[s])
  /\ attempt \in [Attempts -> [pc : {"idle", "login", "enable", "record"}, at : 0..MaxNow,
                               owner : 0..MaxSessions, todo : Seq(Scopes)]]
  /\ \A a \in Attempts : attempt[a].pc = "record" <=> attempt[a].todo # <<>>

\* Whatever failures other requests record with older clocks, and whenever the
\* cron retires rows, a block that is in force is never shortened or removed
\* (record_failures, delete_expired_auth_rate_limits).
BlockHolds ==
  [][\A s \in Scopes : limits[s].until > now' => limits'[s].until >= limits[s].until]_sessionVars
=============================================================================

-------------------------- MODULE ManagementPlane_proofs --------------------------
(***************************************************************************)
(* Proofs about ManagementPlane and OperatorSessions, for every set of     *)
(* requests, keys, resources and proposals, and every setting of the rate  *)
(* limits:                                                                 *)
(*   - receipts, and what the CLI reports, stand for what was asked;       *)
(*   - a key is spent once, and no call is answered without its receipt;   *)
(*   - a client accepts every page of events;                              *)
(*   - a block in force is never shortened.                                *)
(***************************************************************************)
EXTENDS ManagementPlane, TLAPS, FiniteSetTheorems, SequenceTheorems

-----------------------------------------------------------------------------
(* The inductive invariant *)

\* A request in flight read its clock at most MaxDelay ago, so a block ends
\* BlockSeconds from now at the latest, and BlockSeconds + MaxDelay after the
\* clock of the last request that touched its row.
LimitInv ==
  /\ \A a \in Attempts : attempt[a].pc # "idle" =>
       attempt[a].at <= now /\ now <= attempt[a].at + MaxDelay
  /\ \A s \in Scopes : /\ limits[s].until <= now + BlockSeconds
                       /\ limits[s].until <= limits[s].updated + BlockSeconds + MaxDelay

\* A call carries a proposal of this run, made for a row that was there unless
\* it creates one.
CallInv ==
  \A h \in Requests :
    /\ req[h].pc = "idle" => req[h] = NoCall
    /\ req[h].pc # "idle" => /\ req[h].p \in work
                             /\ ~Creates(req[h].p) => req[h].expected > 0

\* What was created and has its first revision is as it was created.
CreatedInv ==
  \A r \in receipts :
    /\ r.p \in work
    /\ r.p.op = "principal.create" => rows[r.p.id].rev > 0
    /\ r.p.op \in {"principal.create", "group.create"} /\ rows[r.p.id].rev = 1
         => Holds(r.p, rows)

\* The cursor of a page is past the client's position.
PageInv ==
  /\ watch.pc # "rejected"
  /\ watch.pc = "pinned" => watch.after < watch.cursor

IInv ==
  /\ LimitInv /\ CallInv /\ CreatedInv /\ PageInv
  /\ ReceiptsHonest /\ AnsweredByReceipt

-----------------------------------------------------------------------------
(* Sessions and rate limits *)

SessionSet(lifetime) == [id : 0..MaxSessions, until : 0..(MaxNow + lifetime)]
LimitSet == [attempts : Nat, window : Nat, updated : Nat, until : 0..(MaxNow + BlockSeconds)]
AttemptSet == [pc : {"idle", "login", "enable", "record"}, at : 0..MaxNow,
               owner : 0..MaxSessions, todo : Seq(Scopes)]

LEMMA Numbers ==
  /\ SessionLifetime \in Nat /\ ConfigLifetime \in Nat /\ Window \in Nat
  /\ MaximumFailures \in Nat /\ BlockSeconds \in Nat /\ Retention \in Nat
  /\ MaxDelay \in Nat /\ MaxNow \in Nat /\ MaxSessions \in Nat /\ MaxFails \in Nat
  /\ BlockSeconds + MaxDelay <= Retention
BY OperatorSessionsAssumption

LEMMA NoAttemptType == NoAttempt \in AttemptSet /\ NoAttempt.pc = "idle" /\ NoAttempt.todo = <<>>
BY Numbers DEF NoAttempt, Attempt, AttemptSet

LEMMA NoLimitType ==
  /\ NoLimit \in LimitSet /\ NoLimit.until = 0 /\ NoLimit.updated = 0 /\ TableAccepts(NoLimit)
BY Numbers DEF NoLimit, Limit, LimitSet, TableAccepts

\* The upsert of a failure: a block in force stays, and a new one is counted
\* from the request's clock.
LEMMA FailedEffect ==
  ASSUME NEW row \in LimitSet, NEW at \in 0..MaxNow
  PROVE  /\ Failed(row, at) \in LimitSet /\ Failed(row, at).updated = at
         /\ row.until > at => Failed(row, at).until = row.until
         /\ row.until <= at => Failed(row, at).until \in {0, at + BlockSeconds}
<1> DEFINE fresh == row.window <= (IF at > Window THEN at - Window ELSE 0)
           n == IF fresh THEN 1 ELSE row.attempts + 1
           w == IF fresh THEN at ELSE row.window
           u == NextBlock(row, n, at)
<1>1. n \in Nat /\ w \in Nat /\ at \in Nat
  BY Numbers DEF LimitSet
<1>2. /\ row.until \in 0..(MaxNow + BlockSeconds)
      /\ u \in {row.until, at + BlockSeconds, 0}
      /\ row.until > at => u = row.until
      /\ row.until <= at => u \in {0, at + BlockSeconds}
  BY Numbers DEF LimitSet, NextBlock
<1>3. u \in 0..(MaxNow + BlockSeconds)
  BY <1>2, Numbers
<1>4. Failed(row, at) = IF row = NoLimit THEN Limit(1, at, 0, at) ELSE Limit(n, w, u, at)
  BY DEF Failed
<1> HIDE DEF n, w, u
<1>5. \A i \in Nat, j \in Nat, k \in 0..(MaxNow + BlockSeconds), l \in Nat :
        Limit(i, j, k, l) \in LimitSet /\ Limit(i, j, k, l).updated = l
        /\ Limit(i, j, k, l).until = k
  BY DEF Limit, LimitSet
<1>6. CASE row = NoLimit
  <2>1. Failed(row, at) = Limit(1, at, 0, at) /\ 0 \in 0..(MaxNow + BlockSeconds)
    BY <1>4, <1>6, Numbers
  <2>2. /\ Failed(row, at) \in LimitSet /\ Failed(row, at).updated = at
        /\ Failed(row, at).until = 0
    BY <1>1, <1>5, <2>1
  <2>3. row.until = 0
    BY <1>6, NoLimitType
  <2> QED BY <1>1, <2>2, <2>3
<1>7. CASE row # NoLimit
  <2>1. Failed(row, at) = Limit(n, w, u, at)
    BY <1>4, <1>7
  <2>2. /\ Failed(row, at) \in LimitSet /\ Failed(row, at).updated = at
        /\ Failed(row, at).until = u
    BY <1>1, <1>3, <1>5, <2>1
  <2> QED BY <1>2, <2>2
<1> QED BY <1>6, <1>7

\* An attempt starts at the present clock.
LEMMA StartEffect ==
  ASSUME SessionTypeOK, NEW a \in Attempts, NEW pc \in {"login", "enable", "record"},
         NEW owner \in 0..MaxSessions, NEW todo \in Seq(Scopes), pc = "record" <=> todo # <<>>,
         attempt' = [attempt EXCEPT ![a] = Attempt(pc, now, owner, todo)]
  PROVE  /\ attempt' \in [Attempts -> AttemptSet] /\ attempt'[a].at = now
         /\ \A b \in Attempts \ {a} : attempt'[b] = attempt[b]
         /\ \A b \in Attempts : attempt'[b].pc = "record" <=> attempt'[b].todo # <<>>
<1>1. attempt \in [Attempts -> AttemptSet] /\ now \in 0..MaxNow
  BY Numbers DEF SessionTypeOK, AttemptSet
<1>2. PICK k : k = Attempt(pc, now, owner, todo)
  OBVIOUS
<1>3. k \in AttemptSet /\ k.at = now /\ k.pc = pc /\ k.todo = todo
  BY <1>1, <1>2 DEF Attempt, AttemptSet
<1>4. attempt' = [attempt EXCEPT ![a] = k]
  BY <1>2
<1>5. attempt'[a] = k /\ \A b \in Attempts \ {a} : attempt'[b] = attempt[b]
  BY <1>1, <1>4
<1>6. attempt' \in [Attempts -> AttemptSet]
  BY <1>1, <1>3, <1>4
<1> QED BY <1>3, <1>5, <1>6 DEF SessionTypeOK

\* The same facts, by variable.
ClockOK == now \in 1..MaxNow /\ opened \in 0..MaxSessions /\ fails \in 0..MaxFails
CookiesOK == admin \in SessionSet(SessionLifetime) /\ config \in SessionSet(ConfigLifetime)
AttemptsOK ==
  /\ attempt \in [Attempts -> AttemptSet]
  /\ \A a \in Attempts : attempt[a].pc = "record" <=> attempt[a].todo # <<>>
  /\ \A a \in Attempts : attempt[a].pc # "idle" =>
       attempt[a].at <= now /\ now <= attempt[a].at + MaxDelay
LimitsOK ==
  /\ limits \in [Scopes -> LimitSet]
  /\ \A s \in Scopes : /\ TableAccepts(limits[s])
                       /\ limits[s].until <= now + BlockSeconds
                       /\ limits[s].until <= limits[s].updated + BlockSeconds + MaxDelay

LEMMA SessionSplit ==
  SessionTypeOK /\ LimitInv <=> ClockOK /\ CookiesOK /\ AttemptsOK /\ LimitsOK
BY DEF SessionTypeOK, LimitInv, ClockOK, CookiesOK, AttemptsOK, LimitsOK, SessionSet, LimitSet,
       AttemptSet

LEMMA SessionJoin ==
  ClockOK' /\ CookiesOK' /\ AttemptsOK' /\ LimitsOK' => SessionTypeOK' /\ LimitInv'
BY DEF SessionTypeOK, LimitInv, ClockOK, CookiesOK, AttemptsOK, LimitsOK, SessionSet, LimitSet,
       AttemptSet, TableAccepts

LEMMA SameLimits ==
  ASSUME LimitsOK, limits' = limits, now' = now
  PROVE  LimitsOK'
BY DEF LimitsOK, TableAccepts

LEMMA StartAttempt ==
  ASSUME SessionTypeOK, LimitInv, NEW a \in Attempts, NEW pc \in {"login", "enable", "record"},
         NEW owner \in 0..MaxSessions, NEW todo \in Seq(Scopes), pc = "record" <=> todo # <<>>,
         attempt' = [attempt EXCEPT ![a] = Attempt(pc, now, owner, todo)], now' = now
  PROVE  AttemptsOK'
<1>1. AttemptsOK /\ now \in Nat
  BY SessionSplit DEF ClockOK
<1>2. /\ attempt' \in [Attempts -> AttemptSet] /\ attempt'[a].at = now
      /\ \A b \in Attempts \ {a} : attempt'[b] = attempt[b]
      /\ \A b \in Attempts : attempt'[b].pc = "record" <=> attempt'[b].todo # <<>>
  BY StartEffect
<1>3. ASSUME NEW b \in Attempts, attempt'[b].pc # "idle"
      PROVE  attempt'[b].at <= now' /\ now' <= attempt'[b].at + MaxDelay
  <2>1. CASE b = a
    BY <1>1, <1>2, <2>1, Numbers
  <2>2. CASE b # a
    BY <1>1, <1>2, <1>3, <2>2 DEF AttemptsOK
  <2> QED BY <2>1, <2>2
<1> QED BY <1>2, <1>3 DEF AttemptsOK

LEMMA EndAttempt ==
  ASSUME AttemptsOK, NEW a \in Attempts, attempt' = [attempt EXCEPT ![a] = NoAttempt], now' = now
  PROVE  AttemptsOK'
BY NoAttemptType DEF AttemptsOK

LEMMA LoginKept ==
  ASSUME SessionTypeOK, LimitInv, NEW a \in Attempts, NEW known \in BOOLEAN, NEW good \in BOOLEAN,
         LoginCheck(a, known, good) \/ EnableCheck(a, good)
  PROVE  SessionTypeOK' /\ LimitInv'
<1>0. ClockOK /\ CookiesOK /\ AttemptsOK /\ LimitsOK
  BY SessionSplit
<1>1. /\ now' = now /\ admin' = admin /\ config' = config /\ limits' = limits
      /\ opened' = opened /\ fails' \in {fails, fails + 1} /\ (fails' # fails => fails < MaxFails)
  BY DEF LoginCheck, EnableCheck
<1>2. ClockOK' /\ CookiesOK' /\ LimitsOK'
  <2>1. fails' \in 0..MaxFails
    BY <1>0, <1>1, Numbers DEF ClockOK
  <2> QED BY <1>0, <1>1, <2>1, SameLimits DEF ClockOK, CookiesOK
<1>3. AttemptsOK'
  <2>1. PICK pc \in {"login", "enable", "record"}, owner \in {0, admin.id},
             todo \in {<<>>, <<"login_ip">>, <<"login_ip", "login_account">>,
                       <<"configuration_ip">>} :
          /\ pc = "record" <=> todo # <<>>
          /\ attempt' = [attempt EXCEPT ![a] = Attempt(pc, now, owner, todo)]
    <3>1. /\ <<"login_ip">> # <<>> /\ <<"login_ip", "login_account">> # <<>>
          /\ <<"configuration_ip">> # <<>>
      OBVIOUS
    <3>2. LoginPolicies(known) \in {<<"login_ip">>, <<"login_ip", "login_account">>}
      BY DEF LoginPolicies
    <3>3. CASE LoginCheck(a, known, good)
      <4>1. \/ attempt' = [attempt EXCEPT ![a] = Attempt("login", now, 0, <<>>)]
            \/ attempt' = [attempt EXCEPT ![a] = Attempt("record", now, 0, LoginPolicies(known))]
        BY <3>3 DEF LoginCheck
      <4> QED BY <3>1, <3>2, <4>1
    <3>4. CASE EnableCheck(a, good)
      <4>1. \/ attempt' = [attempt EXCEPT ![a] = Attempt("enable", now, admin.id, <<>>)]
            \/ attempt' = [attempt EXCEPT ![a] = Attempt("record", now, 0, <<"configuration_ip">>)]
        BY <3>4 DEF EnableCheck
      <4> QED BY <3>1, <4>1
    <3> QED BY <3>3, <3>4
  <2>2. owner \in 0..MaxSessions
    BY <1>0, Numbers DEF CookiesOK, SessionSet
  <2>3. todo \in Seq(Scopes)
    <3>1. "login_ip" \in Scopes /\ "login_account" \in Scopes /\ "configuration_ip" \in Scopes
      BY DEF Scopes
    <3>2. <<>> \in Seq(Scopes) /\ <<"login_ip">> \in Seq(Scopes)
      BY <3>1
    <3>3. <<"login_ip", "login_account">> \in Seq(Scopes) /\ <<"configuration_ip">> \in Seq(Scopes)
      BY <3>1
    <3> QED BY <2>1, <3>2, <3>3
  <2> QED BY <1>1, <2>1, <2>2, <2>3, StartAttempt
<1> QED BY <1>2, <1>3, SessionJoin

LEMMA CookiesKept ==
  ASSUME SessionTypeOK, LimitInv,
         \/ \E a \in Attempts : CreateSession(a) \/ EnableConfiguration(a)
         \/ Logout \/ DisableConfiguration
  PROVE  SessionTypeOK' /\ LimitInv'
<1>0. ClockOK /\ CookiesOK /\ AttemptsOK /\ LimitsOK
  BY SessionSplit
<1>1. \A n \in Nat : \A i \in 0..MaxSessions, u \in 0..(MaxNow + n) :
        Session(i, u) \in SessionSet(n)
  BY DEF Session, SessionSet
<1>2. NoSession \in SessionSet(SessionLifetime) /\ NoSession \in SessionSet(ConfigLifetime)
  BY Numbers DEF NoSession, Session, SessionSet
<1>3. /\ admin.id \in 0..MaxSessions /\ now \in 0..MaxNow
      /\ now + SessionLifetime \in 0..(MaxNow + SessionLifetime)
      /\ 0 \in 0..(MaxNow + SessionLifetime)
  BY <1>0, Numbers DEF CookiesOK, SessionSet, ClockOK
<1>4. ASSUME NEW a \in Attempts, CreateSession(a) PROVE ClockOK' /\ CookiesOK' /\ AttemptsOK'
  <2>1. /\ opened < MaxSessions /\ opened' = opened + 1 /\ now' = now /\ fails' = fails
        /\ config' = config /\ admin' = Session(opened', now + SessionLifetime)
        /\ attempt' = [attempt EXCEPT ![a] = NoAttempt]
    BY <1>4 DEF CreateSession
  <2>2. opened' \in 0..MaxSessions
    BY <1>0, <2>1, Numbers DEF ClockOK
  <2>3. admin' \in SessionSet(SessionLifetime)
    BY <1>1, <1>3, <2>1, <2>2, Numbers
  <2> QED BY <1>0, <2>1, <2>2, <2>3, EndAttempt DEF ClockOK, CookiesOK
<1>5. ASSUME NEW a \in Attempts, EnableConfiguration(a)
      PROVE  ClockOK' /\ CookiesOK' /\ AttemptsOK'
  <2>1. /\ opened < MaxSessions /\ opened' = opened + 1 /\ now' = now /\ fails' = fails
        /\ admin' = admin
        /\ config' \in {config, Session(attempt[a].owner, attempt[a].at + ConfigLifetime)}
        /\ attempt' = [attempt EXCEPT ![a] = NoAttempt]
    BY <1>5 DEF EnableConfiguration
  <2>2. opened' \in 0..MaxSessions
    BY <1>0, <2>1, Numbers DEF ClockOK
  <2>3. /\ attempt[a].owner \in 0..MaxSessions
        /\ attempt[a].at + ConfigLifetime \in 0..(MaxNow + ConfigLifetime)
    BY <1>0, Numbers DEF AttemptsOK, AttemptSet
  <2>4. Session(attempt[a].owner, attempt[a].at + ConfigLifetime) \in SessionSet(ConfigLifetime)
    BY <1>1, <2>3, Numbers
  <2>5. config' \in SessionSet(ConfigLifetime)
    BY <1>0, <2>1, <2>4 DEF CookiesOK
  <2> QED BY <1>0, <2>1, <2>2, <2>5, EndAttempt DEF ClockOK, CookiesOK
<1>6. ASSUME Logout \/ DisableConfiguration PROVE ClockOK' /\ CookiesOK' /\ AttemptsOK'
  <2>1. /\ now' = now /\ opened' = opened /\ fails' = fails /\ attempt' = attempt
        /\ config' = NoSession /\ admin' \in {admin, Session(admin.id, 0)}
    BY <1>6 DEF Logout, DisableConfiguration
  <2>2. Session(admin.id, 0) \in SessionSet(SessionLifetime)
    BY <1>1, <1>3, Numbers
  <2> QED BY <1>0, <1>2, <2>1, <2>2 DEF ClockOK, CookiesOK, AttemptsOK
<1>7. LimitsOK'
  BY <1>0, SameLimits DEF CreateSession, EnableConfiguration, Logout, DisableConfiguration
<1> QED BY <1>4, <1>5, <1>6, <1>7, SessionJoin

LEMMA RecordKept ==
  ASSUME SessionTypeOK, LimitInv, NEW a \in Attempts, RecordFailure(a)
  PROVE  /\ SessionTypeOK' /\ LimitInv'
         /\ \A s \in Scopes : limits[s].until > now => limits'[s].until = limits[s].until
<1>0. ClockOK /\ CookiesOK /\ AttemptsOK /\ LimitsOK
  BY SessionSplit
<1> DEFINE scope == Head(attempt[a].todo)
           row == Failed(limits[scope], attempt[a].at)
           rest == Tail(attempt[a].todo)
<1>1. /\ attempt[a].pc = "record" /\ attempt[a] \in AttemptSet
      /\ now' = now /\ admin' = admin /\ config' = config /\ opened' = opened /\ fails' = fails
  BY <1>0 DEF RecordFailure, AttemptsOK
<1>2. attempt[a].todo \in Seq(Scopes) /\ attempt[a].todo # <<>> /\ attempt[a].at \in 0..MaxNow
  BY <1>0, <1>1 DEF AttemptsOK, AttemptSet
<1>3. scope \in Scopes /\ rest \in Seq(Scopes)
  BY <1>2, HeadTailProperties
<1>4. PICK at \in 0..MaxNow : at = attempt[a].at
  BY <1>2
<1>5. at <= now /\ now <= at + MaxDelay /\ now \in Nat /\ at \in Nat
  BY <1>0, <1>1, <1>4, Numbers DEF AttemptsOK, ClockOK
<1>6. PICK sc \in Scopes : sc = scope
  BY <1>3
<1>7. PICK l \in LimitSet : l = limits[sc]
  BY <1>0 DEF LimitsOK
<1>8. PICK f : f = Failed(l, at)
  OBVIOUS
<1>9. /\ f \in LimitSet /\ f.updated = at
      /\ l.until > at => f.until = l.until
      /\ l.until <= at => f.until \in {0, at + BlockSeconds}
  BY <1>7, <1>8, FailedEffect
<1>10. \/ /\ TableAccepts(f) /\ limits' = [limits EXCEPT ![sc] = f]
          /\ attempt' = [attempt EXCEPT ![a] =
                           IF rest = <<>> THEN NoAttempt ELSE [attempt[a] EXCEPT !.todo = rest]]
       \/ attempt' = [attempt EXCEPT ![a] = NoAttempt] /\ limits' = limits
  BY <1>4, <1>6, <1>7, <1>8 DEF RecordFailure
<1>11. /\ l.until \in Nat /\ l.until <= now + BlockSeconds /\ f.until \in Nat
       /\ f.until <= now + BlockSeconds /\ f.until <= f.updated + BlockSeconds + MaxDelay
  <2>1. l.until \in Nat /\ f.until \in Nat /\ l.until <= now + BlockSeconds
    BY <1>0, <1>7, <1>9, Numbers DEF LimitSet, LimitsOK
  <2>2. f.until \in {l.until, 0, at + BlockSeconds}
    BY <1>5, <1>9, <2>1
  <2> QED BY <1>5, <1>9, <2>1, <2>2, Numbers
<1>12. LimitsOK' /\ \A s \in Scopes : limits[s].until > now => limits'[s].until = limits[s].until
  <2>1. CASE limits' = limits
    BY <1>0, <1>1, <2>1, SameLimits
  <2>2. CASE TableAccepts(f) /\ limits' = [limits EXCEPT ![sc] = f]
    <3>1. /\ limits' \in [Scopes -> LimitSet] /\ limits'[sc] = f
          /\ \A s \in Scopes \ {sc} : limits'[s] = limits[s]
      BY <1>0, <1>9, <2>2 DEF LimitsOK
    <3>2. \A s \in Scopes : /\ TableAccepts(limits'[s])
                            /\ limits'[s].until <= now' + BlockSeconds
                            /\ limits'[s].until <= limits'[s].updated + BlockSeconds + MaxDelay
      BY <1>0, <1>1, <1>11, <2>2, <3>1 DEF LimitsOK
    <3>3. l.until > now => f.until = l.until
      BY <1>5, <1>9, <1>11
    <3>4. \A s \in Scopes : limits[s].until > now => limits'[s].until = limits[s].until
      BY <1>7, <3>1, <3>3
    <3> QED BY <3>1, <3>2, <3>4 DEF LimitsOK, TableAccepts
  <2> QED BY <1>10, <2>1, <2>2
<1>13. AttemptsOK'
  <2>1. CASE attempt' = [attempt EXCEPT ![a] = NoAttempt]
    BY <1>0, <1>1, <2>1, EndAttempt
  <2>2. CASE rest # <<>> /\ attempt' = [attempt EXCEPT ![a] = [attempt[a] EXCEPT !.todo = rest]]
    <3>1. PICK k : k = [attempt[a] EXCEPT !.todo = rest]
      OBVIOUS
    <3>2. /\ k \in AttemptSet /\ k.pc = "record" /\ k.todo = rest /\ k.at = attempt[a].at
      BY <1>1, <1>3, <3>1 DEF AttemptSet
    <3>3. attempt' = [attempt EXCEPT ![a] = k]
      BY <2>2, <3>1
    <3>4. /\ attempt' \in [Attempts -> AttemptSet] /\ attempt'[a] = k
          /\ \A b \in Attempts \ {a} : attempt'[b] = attempt[b]
      BY <1>0, <3>2, <3>3 DEF AttemptsOK
    <3> QED BY <1>0, <1>1, <2>2, <3>2, <3>4 DEF AttemptsOK
  <2> QED BY <1>10, <2>1, <2>2
<1>14. ClockOK' /\ CookiesOK'
  BY <1>0, <1>1 DEF ClockOK, CookiesOK
<1> QED BY <1>12, <1>13, <1>14, SessionJoin

LEMMA RetireKept ==
  ASSUME SessionTypeOK, LimitInv, RetireLimits
  PROVE  /\ SessionTypeOK' /\ LimitInv'
         /\ \A s \in Scopes : limits[s].until > now => limits'[s] = limits[s]
<1>0. ClockOK /\ CookiesOK /\ AttemptsOK /\ LimitsOK
  BY SessionSplit
<1>1. /\ now' = now /\ admin' = admin /\ config' = config /\ attempt' = attempt
      /\ opened' = opened /\ fails' = fails
      /\ limits' = [s \in Scopes |-> IF Retirable(limits[s]) THEN NoLimit ELSE limits[s]]
  BY DEF RetireLimits
<1>2. \A s \in Scopes : limits'[s] \in {limits[s], NoLimit}
  BY <1>1
<1>3. limits' \in [Scopes -> LimitSet]
  BY <1>0, <1>1, NoLimitType DEF LimitsOK
<1>4. ASSUME NEW s \in Scopes
      PROVE  /\ TableAccepts(limits'[s]) /\ limits'[s].until <= now' + BlockSeconds
             /\ limits'[s].until <= limits'[s].updated + BlockSeconds + MaxDelay
  <2>1. CASE limits'[s] = limits[s]
    BY <1>0, <1>1, <2>1 DEF LimitsOK
  <2>2. CASE limits'[s] = NoLimit
    BY <1>0, <1>1, <2>2, NoLimitType, Numbers DEF ClockOK
  <2> QED BY <1>2, <2>1, <2>2
<1>5. ASSUME NEW s \in Scopes, limits[s].until > now PROVE limits'[s] = limits[s]
  <2>1. /\ limits[s].updated \in Nat /\ limits[s].until \in Nat /\ now \in Nat
        /\ limits[s].until <= limits[s].updated + BlockSeconds + MaxDelay
    BY <1>0, Numbers DEF LimitsOK, LimitSet, ClockOK
  <2>2. ~(limits[s].updated + Retention <= now)
    BY <1>5, <2>1, Numbers
  <2> QED BY <1>1, <2>2 DEF Retirable
<1>6. LimitsOK'
  BY <1>3, <1>4 DEF LimitsOK, TableAccepts
<1>7. ClockOK' /\ CookiesOK' /\ AttemptsOK'
  BY <1>0, <1>1 DEF ClockOK, CookiesOK, AttemptsOK
<1> QED BY <1>5, <1>6, <1>7, SessionJoin

LEMMA TickKept ==
  ASSUME SessionTypeOK, LimitInv, Tick
  PROVE  SessionTypeOK' /\ LimitInv' /\ limits' = limits
<1>0. ClockOK /\ CookiesOK /\ AttemptsOK /\ LimitsOK
  BY SessionSplit
<1>1. /\ now < MaxNow /\ now' = now + 1 /\ admin' = admin /\ config' = config
      /\ attempt' = attempt /\ opened' = opened /\ fails' = fails /\ limits' = limits
      /\ \A a \in Attempts : attempt[a] # NoAttempt => now < attempt[a].at + MaxDelay
  BY DEF Tick
<1>2. ClockOK' /\ CookiesOK'
  BY <1>0, <1>1, Numbers DEF ClockOK, CookiesOK
<1>3. ASSUME NEW a \in Attempts, attempt[a].pc # "idle"
      PROVE  attempt[a].at <= now + 1 /\ now + 1 <= attempt[a].at + MaxDelay
  <2>1. attempt[a] # NoAttempt
    BY <1>3, NoAttemptType
  <2>2. attempt[a].at \in Nat /\ now \in Nat
    BY <1>0, Numbers DEF AttemptsOK, AttemptSet, ClockOK
  <2> QED BY <1>0, <1>1, <1>3, <2>1, <2>2, Numbers DEF AttemptsOK
<1>4. AttemptsOK'
  BY <1>0, <1>1, <1>3 DEF AttemptsOK
<1>5. LimitsOK'
  <2>1. now \in Nat /\ \A s \in Scopes : limits[s].until \in Nat
    BY <1>0, Numbers DEF LimitsOK, LimitSet, ClockOK
  <2>2. \A s \in Scopes : limits[s].until <= now + 1 + BlockSeconds
    BY <1>0, <2>1, Numbers DEF LimitsOK
  <2> QED BY <1>0, <1>1, <2>2 DEF LimitsOK, TableAccepts
<1> QED BY <1>1, <1>2, <1>4, <1>5, SessionJoin

\* A step of the sessions keeps the types and the clocks, and every block.
LEMMA SessionKept ==
  ASSUME SessionTypeOK, LimitInv, SessionNext
  PROVE  /\ SessionTypeOK' /\ LimitInv'
         /\ \A s \in Scopes : limits[s].until > now' => limits'[s].until >= limits[s].until
<1>0. now \in Nat /\ \A s \in Scopes : limits[s].until \in Nat
  BY SessionSplit, Numbers DEF LimitsOK, LimitSet, ClockOK
<1>1. ASSUME NEW a \in Attempts,
             \/ \E known, good \in BOOLEAN : LoginCheck(a, known, good)
             \/ \E good \in BOOLEAN : EnableCheck(a, good)
      PROVE  SessionTypeOK' /\ LimitInv' /\ limits' = limits
  <2>1. PICK known \in BOOLEAN, good \in BOOLEAN :
          LoginCheck(a, known, good) \/ EnableCheck(a, good)
    BY <1>1
  <2>2. limits' = limits
    BY <2>1 DEF LoginCheck, EnableCheck
  <2> QED BY <2>1, <2>2, LoginKept
<1>2. ASSUME \/ \E a \in Attempts : CreateSession(a) \/ EnableConfiguration(a)
             \/ Logout \/ DisableConfiguration
      PROVE  SessionTypeOK' /\ LimitInv' /\ limits' = limits
  <2>1. limits' = limits
    BY <1>2 DEF CreateSession, EnableConfiguration, Logout, DisableConfiguration
  <2> QED BY <1>2, <2>1, CookiesKept
<1>3. ASSUME (\E a \in Attempts : RecordFailure(a)) \/ RetireLimits
      PROVE  /\ SessionTypeOK' /\ LimitInv' /\ now' = now
             /\ \A s \in Scopes : limits[s].until > now => limits'[s].until = limits[s].until
  <2>1. now' = now
    BY <1>3 DEF RecordFailure, RetireLimits
  <2> QED BY <1>3, <2>1, RecordKept, RetireKept
<1>4. ASSUME Tick PROVE SessionTypeOK' /\ LimitInv' /\ limits' = limits
  BY <1>4, TickKept
<1>5. CASE limits' = limits
  BY <1>0, <1>1, <1>2, <1>3, <1>4, <1>5 DEF SessionNext
<1>6. CASE limits' # limits
  BY <1>0, <1>1, <1>2, <1>3, <1>4, <1>6 DEF SessionNext
<1> QED BY <1>5, <1>6

-----------------------------------------------------------------------------
(* The batch of a mutation *)

RowsOK == DOMAIN rows = Resources /\ \A r \in Resources : RowOK(rows[r])

LEMMA AbsentRow == RowOK(Absent) /\ Absent.rev = 0
BY DEF Absent, Row, RowOK

\* The operations of the five kinds of proposal.
Known(p) ==
  p.op \in {"quota", "token.annotation", "driver.state", "driver.register", "principal.create",
            "principal.update", "group.create", "group.update", "group.delete",
            "membership.add", "membership.remove"}

LEMMA ProposalFacts ==
  ASSUME work \in Workloads \cup {{}}, NEW p \in work
  PROVE  /\ p.id \in Table(p) /\ p.id \in Resources
         /\ p.op \in {"membership.add", "membership.remove"} => p.member \in Principals
<1>1. work \in Workloads
  OBVIOUS
<1>2. /\ p.id \in Table(p)
      /\ p.op \in {"membership.add", "membership.remove"} => p.member \in Principals
  BY <1>1, ManagementPlaneAssumption
<1>3. Table(p) \in {Quotas, Tokens, Drivers, Principals, Groups}
  BY DEF Table
<1> QED BY <1>2, <1>3 DEF Resources

\* What the statements make of the row: nothing, the next revision of the one
\* they expect, a first revision, or no row.
RowStep(p, e, row) ==
  \/ row = rows[p.id] /\ ~Creates(p)
  \/ rows[p.id].rev = e /\ row.rev = e + 1 /\ ~Creates(p)
  \/ Creates(p) /\ row.rev = 1
  \/ p.op = "group.delete" /\ rows[p.id].rev = e /\ row = Absent

\* f has the rows but for the one of id.
OneRow(f, id, row) ==
  DOMAIN f = Resources /\ f[id] = row /\ \A r \in Resources \ {id} : f[r] = rows[r]

LEMMA ExceptRow ==
  ASSUME RowsOK, NEW id \in Resources, NEW row
  PROVE  OneRow([rows EXCEPT ![id] = row], id, row) /\ OneRow(rows, id, rows[id])
BY DEF RowsOK, OneRow

LEMMA WriteEffect ==
  ASSUME RowsOK, NEW p, p.id \in Resources, Known(p), NEW e \in Nat,
         p.op = "membership.add" => p.member \in Principals
  PROVE  \E row : RowOK(row) /\ RowStep(p, e, row) /\ OneRow(Write(p, e), p.id, row)
<1> DEFINE Goal == \E row : RowOK(row) /\ RowStep(p, e, row) /\ OneRow(Write(p, e), p.id, row)
<1>0. PICK row : row = rows[p.id] /\ RowOK(row)
  BY DEF RowsOK
<1>s. ASSUME ~Creates(p), Write(p, e) = rows PROVE Goal
  BY <1>0, <1>s, ExceptRow DEF RowStep
<1>1. ASSUME NEW x, ~Creates(p), x.rev = e + 1, x.members \in SUBSET Principals,
             Write(p, e) = Guarded(p, e, x)
      PROVE  Goal
  <2>1. RowOK(x)
    BY <1>1 DEF RowOK
  <2>2. CASE rows[p.id].rev = e
    <3>1. OneRow(Write(p, e), p.id, x)
      BY <1>1, <2>2, ExceptRow DEF Guarded
    <3> QED BY <1>1, <2>1, <2>2, <3>1 DEF RowStep
  <2>3. CASE rows[p.id].rev # e
    BY <1>1, <1>s, <2>3 DEF Guarded
  <2> QED BY <2>2, <2>3
<1>2. ASSUME NEW x, Creates(p), x.rev = 1, x.members = {},
             Write(p, e) = [rows EXCEPT ![p.id] = x]
      PROVE  Goal
  <2>1. RowOK(x)
    BY <1>2 DEF RowOK
  <2>2. OneRow(Write(p, e), p.id, x)
    BY <1>2, ExceptRow
  <2> QED BY <1>2, <2>1, <2>2 DEF RowStep
<1>3. CASE p.op \in {"quota", "token.annotation"}
  <2>1. PICK x : x = Row(e + 1, p.text, TRUE, {})
    OBVIOUS
  <2>2. x.rev = e + 1 /\ x.members \in SUBSET Principals
    BY <2>1 DEF Row
  <2>3. ~Creates(p) /\ Write(p, e) = Guarded(p, e, x)
    BY <1>3, <2>1 DEF Write, QuotaWrite, AnnotationWrite, Creates
  <2> QED BY <1>1, <2>2, <2>3
<1>4. CASE p.op = "driver.state"
  <2>1. PICK x : x = Row(e + 1, rows[p.id].text, p.on, {})
    OBVIOUS
  <2>2. x.rev = e + 1 /\ x.members \in SUBSET Principals
    BY <2>1 DEF Row
  <2>3. ~Creates(p) /\ Write(p, e) = Guarded(p, e, x)
    BY <1>4, <2>1 DEF Write, StateWrite, Creates
  <2> QED BY <1>1, <2>2, <2>3
<1>5. CASE p.op \in {"driver.register", "principal.create", "group.create"}
  <2>1. PICK x : x = Row(1, p.text, p.op # "driver.register", {})
    OBVIOUS
  <2>2. x.rev = 1 /\ x.members = {}
    BY <2>1 DEF Row
  <2>3. Creates(p)
    BY <1>5 DEF Creates
  <2>4. CASE p.op = "driver.register"
    <3>1. (p.op # "driver.register") = FALSE
      BY <2>4
    <3>2. Write(p, e) = [rows EXCEPT ![p.id] = x]
      BY <2>1, <2>4, <3>1 DEF Write, RegisterWrite
    <3> QED BY <1>2, <2>2, <2>3, <3>2
  <2>5. CASE p.op \in {"principal.create", "group.create"}
    <3>1. (p.op # "driver.register") = TRUE
      BY <2>5
    <3>2. Write(p, e) = [rows EXCEPT ![p.id] = x]
      BY <2>1, <2>5, <3>1 DEF Write, AccessWrite
    <3> QED BY <1>2, <2>2, <2>3, <3>2
  <2> QED BY <1>5, <2>4, <2>5
<1>6. CASE p.op = "principal.update"
  <2>1. PICK x : x = Row(e + 1, p.text, p.on, {})
    OBVIOUS
  <2>2. x.rev = e + 1 /\ x.members \in SUBSET Principals
    BY <2>1 DEF Row
  <2>3. ~Creates(p) /\ Write(p, e) = Guarded(p, e, x)
    BY <1>6, <2>1 DEF Write, AccessWrite, Creates
  <2> QED BY <1>1, <2>2, <2>3
<1>7. CASE p.op = "group.update"
  <2>1. PICK x : x = Row(e + 1, p.text, TRUE, row.members)
    OBVIOUS
  <2>2. x.rev = e + 1 /\ x.members \in SUBSET Principals
    BY <1>0, <2>1 DEF Row, RowOK
  <2>3. ~Creates(p) /\ Write(p, e) = Guarded(p, e, x)
    BY <1>0, <1>7, <2>1 DEF Write, AccessWrite, Creates
  <2> QED BY <1>1, <2>2, <2>3
<1>8. CASE p.op = "group.delete"
  <2>1. Write(p, e) = Guarded(p, e, Absent) /\ ~Creates(p)
    BY <1>8 DEF Write, AccessWrite, Creates
  <2>2. CASE rows[p.id].rev = e
    <3>1. OneRow(Write(p, e), p.id, Absent)
      BY <2>1, <2>2, ExceptRow DEF Guarded
    <3> QED BY <1>8, <2>2, <3>1, AbsentRow DEF RowStep
  <2>3. CASE rows[p.id].rev # e
    BY <1>s, <2>1, <2>3 DEF Guarded
  <2> QED BY <2>2, <2>3
<1>9. CASE p.op = "membership.add"
  <2>1. PICK x : x = Row(e + 1, row.text, TRUE, row.members \cup {p.member})
    OBVIOUS
  <2>2. x.rev = e + 1 /\ x.members \in SUBSET Principals
    BY <1>0, <1>9, <2>1 DEF Row, RowOK
  <2>3. ~Creates(p) /\ Write(p, e) = Guarded(p, e, x)
    BY <1>0, <1>9, <2>1 DEF Write, AccessWrite, Creates
  <2> QED BY <1>1, <2>2, <2>3
<1>10. CASE p.op = "membership.remove"
  <2>1. PICK x : x = Row(e + 1, row.text, TRUE, row.members \ {p.member})
    OBVIOUS
  <2>2. x.rev = e + 1 /\ x.members \in SUBSET Principals /\ ~Creates(p)
    BY <1>0, <1>10, <2>1 DEF Row, RowOK, Creates
  <2>3. Write(p, e) = IF p.member \in row.members THEN Guarded(p, e, x) ELSE rows
    BY <1>0, <1>10, <2>1 DEF Write, AccessWrite
  <2> QED BY <1>1, <1>s, <2>2, <2>3
<1> QED BY <1>3, <1>4, <1>5, <1>6, <1>7, <1>8, <1>9, <1>10 DEF Known

Content(p) == p.op \notin {"principal.update", "group.update"}

\* A batch that commits leaves the resource as it was asked for, whether its
\* guarded update matched or another operator had done the same.
LEMMA CommitHolds ==
  ASSUME RowsOK, NEW p, p.id \in Resources, Known(p), NEW e \in Nat, Content(p),
         ~Aborts(p, e), Witnessed(p, e, Write(p, e))
  PROVE  Holds(p, Write(p, e))
<1> DEFINE after == Write(p, e)
<1>1. CASE p.op \in {"quota", "token.annotation", "driver.state", "driver.register",
                     "group.delete"}
  BY <1>1 DEF Witnessed, Holds
<1>2. CASE p.op \in {"principal.create", "group.create"}
  <2>1. PICK x : x = Row(1, p.text, TRUE, {})
    OBVIOUS
  <2>2. x.rev = 1 /\ x.text = p.text /\ x.on = TRUE
    BY <2>1 DEF Row
  <2>3. Write(p, e) = [rows EXCEPT ![p.id] = x]
    BY <1>2, <2>1 DEF Write, AccessWrite
  <2>4. Write(p, e)[p.id] = x
    BY <2>3 DEF RowsOK
  <2> QED BY <1>2, <2>2, <2>4 DEF Holds
<1>3. CASE p.op = "membership.add"
  <2>1. PICK x : x = Row(e + 1, rows[p.id].text, TRUE, rows[p.id].members \cup {p.member})
    OBVIOUS
  <2>2. x.rev = e + 1 /\ x.members = rows[p.id].members \cup {p.member}
    BY <2>1 DEF Row
  <2>3. rows[p.id].rev = e
    BY <1>3 DEF Aborts
  <2>4. Write(p, e) = [rows EXCEPT ![p.id] = x]
    BY <1>3, <2>1, <2>3 DEF Write, AccessWrite, Guarded
  <2>5. Write(p, e)[p.id] = x
    BY <2>4 DEF RowsOK
  <2> QED BY <1>3, <2>2, <2>5 DEF Holds
<1>4. CASE p.op = "membership.remove"
  <2>1. Write(p, e)[p.id].rev = e + 1
    BY <1>4 DEF Witnessed, Final, Creates
  <2>2. ASSUME p.member \in rows[p.id].members PROVE p.member \notin Write(p, e)[p.id].members
    <3>1. PICK x : x = Row(e + 1, rows[p.id].text, TRUE, rows[p.id].members \ {p.member})
      OBVIOUS
    <3>2. x.members = rows[p.id].members \ {p.member}
      BY <3>1 DEF Row
    <3>3. rows[p.id].rev = e
      BY <1>4, <2>2 DEF Aborts
    <3>4. Write(p, e) = [rows EXCEPT ![p.id] = x]
      BY <1>4, <2>2, <3>1, <3>3 DEF Write, AccessWrite, Guarded
    <3>5. Write(p, e)[p.id] = x
      BY <3>4 DEF RowsOK
    <3> QED BY <3>2, <3>5
  <2>3. ASSUME p.member \notin rows[p.id].members PROVE p.member \notin Write(p, e)[p.id].members
    <3>1. Write(p, e) = rows
      BY <1>4, <2>3 DEF Write, AccessWrite
    <3> QED BY <2>3, <3>1
  <2> QED BY <1>4, <2>1, <2>2, <2>3 DEF Holds
<1> QED BY <1>1, <1>2, <1>3, <1>4 DEF Known, Content

-----------------------------------------------------------------------------
(* Calls *)

ReqSet == [pc : {"idle", "sent", "check", "batch", "reload", "answered"},
           p : work \cup {NoProposal}, expected : Nat, expires : Nat, key : Keys \cup {""}]

Finishes(h) ==
  \/ FinishQuota(h) \/ FinishAnnotation(h) \/ FinishState(h)
  \/ FinishRegistration(h) \/ FinishAccess(h)

\* A step of the management plane, by what it is rather than by its kind.
CallStep(h) ==
  \/ \E p \in work : Known(p) /\ Validate(h, p)
  \/ \E g \in Requests : Resend(h, g)
  \/ Load(h) \/ Check(h) \/ (Known(req[h].p) /\ Commit(h)) \/ Rollback(h) \/ Reload(h)
  \/ Finishes(h) \/ GiveUp(h)

AnyStep ==
  \/ SessionNext /\ UNCHANGED managementVars
  \/ \E h \in Requests : CallStep(h)
  \/ PinCursor \/ ReadPage
  \/ UNCHANGED vars

LEMMA NextSplit == [Next]_vars => AnyStep
<1> SUFFICES ASSUME [Next]_vars PROVE AnyStep
  OBVIOUS
<1>1. ASSUME NEW h \in Requests, NEW p \in work,
             \/ ValidateQuota(h, p) \/ ValidateAnnotation(h, p) \/ ValidateState(h, p)
             \/ ValidateRegistration(h, p) \/ ValidateAccess(h, p)
      PROVE  Known(p) /\ Validate(h, p)
  BY <1>1 DEF ValidateQuota, ValidateAnnotation, ValidateState, ValidateRegistration,
              ValidateAccess, Access, Known
<1>2. ASSUME NEW h \in Requests,
             \/ ApplyQuota(h) \/ ApplyAnnotation(h) \/ ApplyState(h)
             \/ ApplyRegistration(h) \/ ApplyAccess(h)
      PROVE  \/ Load(h) \/ Check(h) \/ (Known(req[h].p) /\ Commit(h)) \/ Rollback(h)
             \/ Reload(h)
  <2>1. Known(req[h].p)
    BY <1>2 DEF ApplyQuota, ApplyAnnotation, ApplyState, ApplyRegistration, ApplyAccess,
                Access, Known
  <2> QED
    BY <1>2, <2>1 DEF ApplyQuota, ApplyAnnotation, ApplyState, ApplyRegistration, ApplyAccess,
                      Apply
<1> QED BY <1>1, <1>2 DEF Next, AnyStep, CallStep, Finishes

\* What a step makes of one call.
ReqStep(h) ==
  /\ req' \in [Requests -> ReqSet]
  /\ \A g \in Requests \ {h} : req'[g] = req[g]
  /\ req'[h].pc = "idle" => req'[h] = NoCall

LEMMA NoCallType == NoCall \in ReqSet /\ NoCall.pc = "idle"
BY DEF NoCall, Call, NoProposal, ReqSet

LEMMA EndEffect ==
  ASSUME TypeOK, NEW h \in Requests, End(h)
  PROVE  ReqStep(h) /\ req'[h] = NoCall
<1>1. req \in [Requests -> ReqSet]
  BY DEF TypeOK, ReqSet
<1> QED BY <1>1, NoCallType DEF End, ReqStep

LEMMA StepEffect ==
  ASSUME TypeOK, NEW h \in Requests, NEW pc \in {"check", "batch", "reload", "answered"},
         req' = Step(h, pc)
  PROVE  /\ ReqStep(h) /\ req'[h].pc = pc /\ req'[h].p = req[h].p
         /\ req'[h].expected = req[h].expected /\ req'[h].expires = req[h].expires
         /\ req'[h].key = req[h].key
<1>1. req \in [Requests -> ReqSet]
  BY DEF TypeOK, ReqSet
<1>2. PICK k : k = [req[h] EXCEPT !.pc = pc]
  OBVIOUS
<1>3. /\ k \in ReqSet /\ k.pc = pc /\ k.p = req[h].p /\ k.expected = req[h].expected
      /\ k.expires = req[h].expires /\ k.key = req[h].key
  BY <1>1, <1>2 DEF ReqSet
<1>4. req' = [req EXCEPT ![h] = k]
  BY <1>2 DEF Step
<1> QED BY <1>1, <1>3, <1>4 DEF ReqStep

\* A call that is answered has its receipt.
Answered(c, rs) ==
  \E r \in rs : /\ r.key = c.key /\ r.p = c.p
                /\ r.expected = c.expected /\ r.expires = c.expires

LEMMA StoredReplays ==
  ASSUME NEW c, NEW r \in Stored(c), Replays(c, r)
  PROVE  Answered(c, receipts)
BY DEF Stored, Replays, Answered

\* The calls after a step.
CallsKept ==
  /\ req' \in [Requests -> ReqSet']
  /\ \A g \in Requests :
       /\ req'[g].pc = "idle" => req'[g] = NoCall
       /\ req'[g].pc # "idle" => /\ req'[g].p \in work
                                 /\ ~Creates(req'[g].p) => req'[g].expected > 0
       /\ req'[g].pc = "answered" => \/ req[g].pc = "answered" /\ req'[g] = req[g]
                                     \/ Answered(req'[g], receipts')

LEMMA SameCalls ==
  ASSUME TypeOK, CallInv, work' = work, req' = req
  PROVE  CallsKept
BY DEF TypeOK, CallInv, CallsKept, ReqSet

LEMMA EndKept ==
  ASSUME TypeOK, CallInv, work' = work, NEW h \in Requests, End(h)
  PROVE  CallsKept
<1>1. ReqStep(h) /\ req'[h] = NoCall
  BY EndEffect
<1>2. ReqSet' = ReqSet
  BY DEF ReqSet
<1> QED BY <1>1, <1>2, NoCallType DEF ReqStep, CallsKept, CallInv

LEMMA StepKept ==
  ASSUME TypeOK, CallInv, work' = work, NEW h \in Requests, req[h].pc # "idle",
         NEW pc \in {"check", "batch", "reload", "answered"}, req' = Step(h, pc),
         pc = "answered" => Answered(req[h], receipts')
  PROVE  CallsKept
<1>1. /\ ReqStep(h) /\ req'[h].pc = pc /\ req'[h].p = req[h].p
      /\ req'[h].expected = req[h].expected /\ req'[h].expires = req[h].expires
      /\ req'[h].key = req[h].key
  BY StepEffect
<1>2. ReqSet' = ReqSet
  BY DEF ReqSet
<1>3. pc = "answered" => Answered(req'[h], receipts')
  BY <1>1 DEF Answered
<1> QED BY <1>1, <1>2, <1>3 DEF ReqStep, CallsKept, CallInv

LEMMA ValidateKept ==
  ASSUME TypeOK, CallInv, NEW h \in Requests, NEW p \in work, Known(p), Validate(h, p)
  PROVE  CallsKept
<1>1. PICK k \in Keys :
        req' = [req EXCEPT ![h] = Call("sent", p, Expected(p), now + ValidationLifetime, k)]
  BY DEF Validate
<1>2. p.id \in Resources
  BY ProposalFacts DEF TypeOK
<1>3. Expected(p) \in Nat /\ (~Creates(p) => Expected(p) > 0)
  <2>1. CASE Creates(p)
    BY <2>1 DEF Expected
  <2>2. CASE ~Creates(p)
    <3>1. Expected(p) = rows[p.id].rev /\ rows[p.id].rev \in Nat
      BY <1>2, <2>2 DEF Expected, TypeOK, RowOK
    <3>2. Current(p, Expected(p))
      BY DEF Validate
    <3>3. Expected(p) > 0
      BY <2>2, <3>2 DEF Current, PolicyCurrent, MetadataCurrent, DriverStateCurrent,
                        AccessCurrent, Known, Creates
    <3> QED BY <3>1, <3>3
  <2> QED BY <2>1, <2>2
<1>4. now + ValidationLifetime \in Nat
  <2>1. ValidationLifetime \in Nat
    BY ManagementPlaneAssumption
  <2>2. SessionTypeOK
    BY DEF TypeOK
  <2>3. now \in 1..MaxNow
    BY <2>2 DEF SessionTypeOK
  <2>4. now \in Nat
    BY <2>3, Numbers
  <2> QED BY <2>1, <2>4
<1>5. PICK c : c = Call("sent", p, Expected(p), now + ValidationLifetime, k)
  OBVIOUS
<1>6. /\ c \in ReqSet /\ c.pc = "sent" /\ c.p = p /\ c.expected = Expected(p)
  BY <1>3, <1>4, <1>5 DEF Call, ReqSet
<1>7. req' = [req EXCEPT ![h] = c] /\ work' = work
  BY <1>1, <1>5 DEF Validate
<1>8. req \in [Requests -> ReqSet] /\ ReqSet' = ReqSet
  BY <1>7 DEF TypeOK, ReqSet
<1>9. req' \in [Requests -> ReqSet] /\ req'[h] = c /\ \A g \in Requests \ {h} : req'[g] = req[g]
  BY <1>6, <1>7, <1>8
<1> QED BY <1>3, <1>6, <1>8, <1>9 DEF CallsKept, CallInv

LEMMA ResendKept ==
  ASSUME TypeOK, CallInv, NEW h \in Requests, NEW g \in Requests, Resend(h, g)
  PROVE  CallsKept
<1>1. PICK c : c = [req[h] EXCEPT !.pc = "sent"]
  OBVIOUS
<1>2. req' = [req EXCEPT ![g] = c] /\ work' = work /\ req[h] # NoCall
  BY <1>1 DEF Resend
<1>3. req \in [Requests -> ReqSet] /\ ReqSet' = ReqSet
  BY <1>2 DEF TypeOK, ReqSet
<1>4. c \in ReqSet /\ c.pc = "sent" /\ c.p = req[h].p /\ c.expected = req[h].expected
  BY <1>1, <1>3 DEF ReqSet
<1>5. /\ req' \in [Requests -> ReqSet] /\ req'[g] = c
      /\ \A d \in Requests \ {g} : req'[d] = req[d]
  BY <1>2, <1>3, <1>4
<1>6. req[h].pc # "idle"
  BY <1>2 DEF CallInv
<1> QED BY <1>3, <1>4, <1>5, <1>6 DEF CallsKept, CallInv

LEMMA FinishesEffect ==
  ASSUME NEW h \in Requests, Finishes(h)
  PROVE  \E confirmed \in BOOLEAN :
           /\ Finish(h, confirmed) /\ Known(req[h].p)
           /\ confirmed /\ Content(req[h].p) /\ req[h].expected \in Nat
                => \/ Holds(req[h].p, rows)
                   \/ /\ req[h].p.op \in {"principal.create", "group.create"}
                      /\ rows[req[h].p.id].rev = 1
<1>1. PICK p, e : p = req[h].p /\ e = req[h].expected
  OBVIOUS
<1>2. ASSUME FinishQuota(h)
      PROVE  /\ Finish(h, QuotaConfirms(p, e)) /\ Known(p)
             /\ QuotaConfirms(p, e) /\ e \in Nat => Holds(p, rows)
  BY <1>1, <1>2 DEF FinishQuota, QuotaConfirms, Holds, Known
<1>3. ASSUME FinishAnnotation(h)
      PROVE  /\ Finish(h, AnnotationConfirms(p, e)) /\ Known(p)
             /\ AnnotationConfirms(p, e) /\ e \in Nat => Holds(p, rows)
  BY <1>1, <1>3 DEF FinishAnnotation, AnnotationConfirms, Holds, Known
<1>4. ASSUME FinishState(h)
      PROVE  /\ Finish(h, StateConfirms(p, e)) /\ Known(p)
             /\ StateConfirms(p, e) /\ e \in Nat => Holds(p, rows)
  BY <1>1, <1>4 DEF FinishState, StateConfirms, Holds, Known
<1>5. ASSUME FinishRegistration(h)
      PROVE  /\ Finish(h, RegistrationConfirms(p, e)) /\ Known(p)
             /\ RegistrationConfirms(p, e) => Holds(p, rows)
  BY <1>1, <1>5 DEF FinishRegistration, RegistrationConfirms, Holds, Known
<1>6. ASSUME FinishAccess(h)
      PROVE  /\ Finish(h, AccessConfirms(p, e)) /\ Known(p)
             /\ AccessConfirms(p, e) /\ e \in Nat /\ Content(p)
                  => \/ Holds(p, rows)
                     \/ /\ p.op \in {"principal.create", "group.create"}
                        /\ rows[p.id].rev = 1
  <2>1. Finish(h, AccessConfirms(p, e)) /\ Access(p)
    BY <1>1, <1>6 DEF FinishAccess
  <2>2. Known(p)
    BY <2>1 DEF Access, Known
  <2>3. ASSUME AccessConfirms(p, e), e \in Nat, Content(p)
        PROVE  \/ Holds(p, rows)
               \/ p.op \in {"principal.create", "group.create"} /\ rows[p.id].rev = 1
    <3>1. CASE p.op \in {"principal.create", "group.create"}
      BY <2>3, <3>1 DEF AccessConfirms, Final, Creates
    <3>2. CASE p.op = "group.delete"
      BY <2>3, <3>2 DEF AccessConfirms, Holds
    <3>3. CASE p.op \in {"membership.add", "membership.remove"}
      <4>1. rows[p.id].rev = e + 1 /\ (p.member \in rows[p.id].members) = (p.op = "membership.add")
        BY <2>3, <3>3 DEF AccessConfirms, Final, Creates
      <4> QED BY <2>3, <3>3, <4>1 DEF Holds
    <3> QED BY <2>1, <2>3, <3>1, <3>2, <3>3 DEF Access, Content
  <2> QED BY <2>1, <2>2, <2>3
<1>7. /\ QuotaConfirms(p, e) \in BOOLEAN /\ AnnotationConfirms(p, e) \in BOOLEAN
      /\ StateConfirms(p, e) \in BOOLEAN /\ RegistrationConfirms(p, e) \in BOOLEAN
      /\ AccessConfirms(p, e) \in BOOLEAN
  BY DEF QuotaConfirms, AnnotationConfirms, StateConfirms, RegistrationConfirms, AccessConfirms
<1> QED BY <1>1, <1>2, <1>3, <1>4, <1>5, <1>6, <1>7 DEF Finishes

\* Every step but a commit leaves the rows, the receipts and the events alone.
LEMMA CallsStep ==
  ASSUME TypeOK, CallInv, NEW h \in Requests, CallStep(h)
  PROVE  /\ CallsKept
         /\ sessionVars' = sessionVars /\ watch' = watch /\ work' = work
         /\ \/ rows' = rows /\ receipts' = receipts /\ events' = events
            \/ Known(req[h].p) /\ Commit(h)
         /\ misled' = misled \/ Finishes(h)
         /\ calls' \in 0..MaxCalls
<1>0. MaxCalls \in Nat /\ calls \in 0..MaxCalls
  BY ManagementPlaneAssumption DEF TypeOK
<1>1. /\ sessionVars' = sessionVars /\ watch' = watch /\ work' = work
      /\ \/ rows' = rows /\ receipts' = receipts /\ events' = events
         \/ Known(req[h].p) /\ Commit(h)
      /\ misled' = misled \/ Finishes(h)
      /\ calls' = calls \/ (calls < MaxCalls /\ calls' = calls + 1)
  BY DEF CallStep, Validate, Resend, Load, Check, Commit, Rollback, Reload, Finishes,
         FinishQuota, FinishAnnotation, FinishState, FinishRegistration, FinishAccess, Finish,
         GiveUp
<1>2. calls' \in 0..MaxCalls
  BY <1>0, <1>1
<1>3. ASSUME Load(h) PROVE CallsKept
  <2>1. req[h].pc = "sent" /\ receipts' = receipts
    BY <1>3 DEF Load
  <2>2. CASE End(h)
    BY <1>1, <2>2, EndKept
  <2>3. CASE req' = Step(h, "check")
    BY <1>1, <2>1, <2>3, StepKept
  <2>4. ASSUME NEW r \in Stored(req[h]), Replays(req[h], r), req' = Step(h, "answered")
        PROVE  CallsKept
    BY <1>1, <2>1, <2>4, StepKept, StoredReplays
  <2> QED BY <1>3, <2>2, <2>3, <2>4 DEF Load
<1>4. ASSUME Check(h) PROVE CallsKept
  <2>1. req[h].pc = "check" /\ (End(h) \/ req' = Step(h, "batch"))
    BY <1>4 DEF Check
  <2> QED BY <1>1, <2>1, EndKept, StepKept
<1>5. ASSUME Commit(h) PROVE CallsKept
  <2>1. PICK applied, holds : receipts' = receipts \cup {Receipt(req[h], applied, holds)}
    BY <1>5 DEF Commit
  <2>2. Answered(req[h], receipts')
    <3>1. PICK r : r = Receipt(req[h], applied, holds)
      OBVIOUS
    <3>2. /\ r.key = req[h].key /\ r.p = req[h].p /\ r.expected = req[h].expected
          /\ r.expires = req[h].expires
      BY <3>1 DEF Receipt
    <3> QED BY <2>1, <3>1, <3>2 DEF Answered
  <2>3. req[h].pc = "batch" /\ req' = Step(h, "answered")
    BY <1>5 DEF Commit
  <2> QED BY <1>1, <2>2, <2>3, StepKept
<1>6. ASSUME Rollback(h) PROVE CallsKept
  <2>1. req[h].pc = "batch" /\ (End(h) \/ req' = Step(h, "reload"))
    BY <1>6 DEF Rollback
  <2> QED BY <1>1, <2>1, EndKept, StepKept
<1>7. ASSUME Reload(h) PROVE CallsKept
  <2>1. /\ req[h].pc = "reload" /\ receipts' = receipts
        /\ \/ End(h)
           \/ req' = Step(h, "answered") /\ \E r \in Stored(req[h]) : Replays(req[h], r)
    BY <1>7 DEF Reload
  <2> QED BY <1>1, <2>1, EndKept, StepKept, StoredReplays
<1>8. ASSUME Finishes(h) \/ GiveUp(h) PROVE CallsKept
  BY <1>1, <1>8, EndKept
  DEF Finishes, FinishQuota, FinishAnnotation, FinishState, FinishRegistration, FinishAccess,
      Finish, GiveUp
<1>9. CallsKept
  BY <1>3, <1>4, <1>5, <1>6, <1>7, <1>8, ValidateKept, ResendKept DEF CallStep
<1> QED BY <1>1, <1>2, <1>9

-----------------------------------------------------------------------------
(* The commit of a batch *)

\* What a commit writes: a receipt no other has the kind and key of, and the
\* row of its proposal.
CommitOf(p, e, x, row) ==
  /\ p \in work /\ Known(p) /\ p.id \in Resources /\ e \in Nat
  /\ ~Creates(p) => e > 0
  /\ Creates(p) => rows[p.id].rev = 0
  /\ RowOK(row) /\ RowStep(p, e, row) /\ OneRow(rows', p.id, row)
  /\ x.p = p /\ (Content(p) => x.holds /\ Holds(p, rows'))
  /\ receipts' = receipts \cup {x} /\ events' = events + 1
  /\ \A r \in receipts : ~(r.kind = x.kind /\ r.key = x.key)

LEMMA CommitEffect ==
  ASSUME TypeOK, CallInv, NEW h \in Requests, Known(req[h].p), Commit(h)
  PROVE  \E p, e, x, row : CommitOf(p, e, x, row)
<1>1. PICK c : c = req[h]
  OBVIOUS
<1>2. PICK p, e : p = c.p /\ e = c.expected
  OBVIOUS
<1>3. /\ c.pc = "batch" /\ KeyFree(c) /\ ~Aborts(p, e) /\ Witnessed(p, e, Write(p, e))
      /\ rows' = Write(p, e) /\ events' = events + 1
      /\ receipts' = receipts \cup {Receipt(c, Expected(p) = e, Holds(p, Write(p, e)))}
  BY <1>1, <1>2 DEF Commit
<1>4. p \in work /\ Known(p) /\ (~Creates(p) => e > 0)
  BY <1>1, <1>2, <1>3 DEF CallInv
<1>5. e \in Nat
  BY <1>1, <1>2 DEF TypeOK
<1>6. RowsOK /\ work \in Workloads \cup {{}}
  BY DEF TypeOK, RowsOK
<1>7. p.id \in Resources /\ (p.op = "membership.add" => p.member \in Principals)
  BY <1>4, <1>6, ProposalFacts
<1>8. PICK row : RowOK(row) /\ RowStep(p, e, row) /\ OneRow(rows', p.id, row)
  BY <1>3, <1>4, <1>5, <1>6, <1>7, WriteEffect
<1>9. Creates(p) => rows[p.id].rev = 0
  <2>1. rows[p.id].rev \in Nat
    BY <1>6, <1>7 DEF RowsOK, RowOK
  <2> QED BY <1>3, <2>1 DEF Aborts
<1>10. Content(p) => Holds(p, Write(p, e))
  BY <1>3, <1>4, <1>5, <1>6, <1>7, CommitHolds
<1>11. PICK x : x = Receipt(c, Expected(p) = e, Holds(p, Write(p, e)))
  OBVIOUS
<1>12. x.p = p /\ x.kind = Kind(p) /\ x.key = c.key /\ x.holds = Holds(p, Write(p, e))
  BY <1>2, <1>11 DEF Receipt
<1>13. \A r \in receipts : ~(r.kind = x.kind /\ r.key = x.key)
  BY <1>2, <1>3, <1>12 DEF KeyFree
<1>14. /\ Content(p) => x.holds /\ Holds(p, rows')
       /\ receipts' = receipts \cup {x}
  BY <1>3, <1>10, <1>11, <1>12
<1>15. CommitOf(p, e, x, row)
  BY <1>3, <1>4, <1>5, <1>7, <1>8, <1>9, <1>12, <1>13, <1>14 DEF CommitOf
<1> QED BY <1>15

\* Resources of different tables differ.
LEMMA TablesApart ==
  ASSUME work \in Workloads \cup {{}}, NEW p \in work, NEW q \in work, p.id = q.id,
         p.op \in {"principal.create", "group.create"}, Known(q), Creates(q)
  PROVE  q.op = p.op /\ (p.op = "group.create" => q = p)
<1>1. work \in Workloads
  OBVIOUS
<1>2. p.id \in Table(p) /\ q.id \in Table(q)
  BY ProposalFacts
<1>3. /\ Principals \cap Groups = {} /\ Principals \cap Drivers = {} /\ Groups \cap Drivers = {}
  BY ManagementPlaneAssumption
<1>4. q.op = p.op
  BY <1>2, <1>3 DEF Table, Creates
<1>5. p.op = "group.create" => q = p
  BY <1>1, <1>4, ManagementPlaneAssumption
<1> QED BY <1>4, <1>5

\* A principal stays once it is there: only a group is deleted.
LEMMA PrincipalsStay ==
  ASSUME work \in Workloads \cup {{}}, NEW p \in work, NEW q \in work, p.id = q.id,
         p.op = "principal.create"
  PROVE  q.op # "group.delete"
<1>1. p.id \in Table(p) /\ q.id \in Table(q)
  BY ProposalFacts
<1>2. Principals \cap Groups = {}
  BY ManagementPlaneAssumption
<1> QED BY <1>1, <1>2 DEF Table

LEMMA CommitKept ==
  ASSUME TypeOK, CreatedInv, NEW p, NEW e, NEW x, NEW row, CommitOf(p, e, x, row),
         \A r \in receipts : Content(r.p) => r.holds,
         \A r, s \in receipts : r.kind = s.kind /\ r.key = s.key => r = s,
         work' = work
  PROVE  /\ RowsOK' /\ IsFiniteSet(receipts') /\ events' = Cardinality(receipts')
         /\ events' = events + 1 /\ events \in Nat
         /\ \A r \in receipts' : Content(r.p) => r.holds
         /\ \A r, s \in receipts' : r.kind = s.kind /\ r.key = s.key => r = s
         /\ CreatedInv'
<1>0. /\ p \in work /\ Known(p) /\ p.id \in Resources /\ e \in Nat
      /\ ~Creates(p) => e > 0
      /\ Creates(p) => rows[p.id].rev = 0
      /\ RowOK(row) /\ RowStep(p, e, row) /\ OneRow(rows', p.id, row)
      /\ x.p = p /\ (Content(p) => x.holds /\ Holds(p, rows'))
      /\ receipts' = receipts \cup {x} /\ events' = events + 1
      /\ \A r \in receipts : ~(r.kind = x.kind /\ r.key = x.key)
  BY DEF CommitOf
<1>w. work \in Workloads \cup {{}} /\ RowsOK
  BY DEF TypeOK, RowsOK
<1>1. RowsOK'
  <2>1. DOMAIN rows' = Resources /\ \A r \in Resources : RowOK(rows'[r])
    BY <1>0, <1>w DEF OneRow, RowsOK
  <2> QED BY <2>1 DEF RowsOK, RowOK
<1>2. IsFiniteSet(receipts') /\ events' = Cardinality(receipts') /\ events \in Nat
  <2>1. IsFiniteSet(receipts) /\ events = Cardinality(receipts)
    BY DEF TypeOK
  <2>2. x \notin receipts
    BY <1>0
  <2> QED BY <1>0, <2>1, <2>2, FS_AddElement, FS_CardinalityType
<1>3. \A r \in receipts' : Content(r.p) => r.holds
  BY <1>0
<1>4. \A r, s \in receipts' : r.kind = s.kind /\ r.key = s.key => r = s
  BY <1>0
<1>5. CreatedInv'
  <2> SUFFICES ASSUME NEW r \in receipts'
               PROVE  /\ r.p \in work
                      /\ r.p.op = "principal.create" => rows'[r.p.id].rev > 0
                      /\ r.p.op \in {"principal.create", "group.create"} /\ rows'[r.p.id].rev = 1
                           => Holds(r.p, rows')
    BY DEF CreatedInv, Holds
  <2>1. CASE r = x
    <3>1. r.p = p
      BY <1>0, <2>1
    <3>2. p.op \in {"principal.create", "group.create"} => Content(p) /\ Creates(p)
      BY DEF Content, Creates
    <3>3. p.op = "principal.create" => rows'[p.id].rev > 0
      <4>1. Creates(p) /\ p.op = "principal.create" => row.rev = 1
        BY <1>0 DEF RowStep
      <4> QED BY <1>0, <3>2, <4>1 DEF OneRow
    <3> QED BY <1>0, <3>1, <3>2, <3>3
  <2>2. CASE r \in receipts
    <3>1. /\ r.p \in work
          /\ r.p.op = "principal.create" => rows[r.p.id].rev > 0
          /\ r.p.op \in {"principal.create", "group.create"} /\ rows[r.p.id].rev = 1
               => Holds(r.p, rows)
      BY <2>2 DEF CreatedInv
    <3>2. r.p.id \in Resources
      BY <1>w, <3>1, ProposalFacts
    <3>3. ASSUME rows'[r.p.id] = rows[r.p.id]
          PROVE  /\ r.p.op = "principal.create" => rows'[r.p.id].rev > 0
                 /\ r.p.op \in {"principal.create", "group.create"} /\ rows'[r.p.id].rev = 1
                      => Holds(r.p, rows')
      BY <3>1, <3>3 DEF Holds
    <3>4. CASE r.p.id # p.id
      BY <1>0, <3>1, <3>2, <3>3, <3>4 DEF OneRow
    <3>5. CASE r.p.id = p.id
      <4>1. rows'[r.p.id] = row
        BY <1>0, <3>5 DEF OneRow
      <4>2. CASE row = rows[p.id]
        BY <3>1, <3>3, <3>5, <4>1, <4>2
      <4>3. CASE ~Creates(p) /\ row.rev = e + 1
        BY <1>0, <3>1, <4>1, <4>3
      <4>4. CASE Creates(p)
        <5>1. ASSUME r.p.op \in {"principal.create", "group.create"}
              PROVE  p.op = r.p.op /\ (p.op = "group.create" => p = r.p)
          BY <1>0, <1>w, <3>1, <3>5, <4>4, <5>1, TablesApart
        <5>2. r.p.op # "principal.create"
          BY <1>0, <3>1, <3>5, <4>4
        <5>3. r.p.op = "group.create" => Holds(r.p, rows')
          <6>1. r.p.op = "group.create" => p = r.p /\ Content(p)
            BY <5>1 DEF Content
          <6> QED BY <1>0, <6>1
        <5> QED BY <3>1, <5>2, <5>3
      <4>5. CASE p.op = "group.delete" /\ row = Absent
        <5>1. r.p.op # "principal.create"
          BY <1>0, <1>w, <3>1, <3>5, <4>5, PrincipalsStay
        <5>2. rows'[r.p.id].rev = 0
          BY <4>1, <4>5, AbsentRow
        <5> QED BY <3>1, <5>1, <5>2
      <4> QED BY <1>0, <4>2, <4>3, <4>4, <4>5 DEF RowStep
    <3> QED BY <3>4, <3>5
  <2> QED BY <1>0, <2>1, <2>2
<1> QED BY <1>0, <1>1, <1>2, <1>3, <1>4, <1>5

-----------------------------------------------------------------------------
(* What the CLI reports *)

LEMMA FinishKept ==
  ASSUME TypeOK, CallInv, CreatedInv, AnsweredByReceipt, NEW h \in Requests, Finishes(h),
         \A p \in misled : ~Content(p)
  PROVE  misled' \subseteq work /\ \A p \in misled' : ~Content(p)
<1>1. PICK confirmed \in BOOLEAN :
        /\ Finish(h, confirmed) /\ Known(req[h].p)
        /\ confirmed /\ Content(req[h].p) /\ req[h].expected \in Nat
             => \/ Holds(req[h].p, rows)
                \/ /\ req[h].p.op \in {"principal.create", "group.create"}
                   /\ rows[req[h].p.id].rev = 1
  BY FinishesEffect
<1>2. req[h].pc = "answered"
  BY <1>1 DEF Finish
<1>3. req[h].expected \in Nat /\ misled \subseteq work
  BY DEF TypeOK
<1>4. req[h].p \in work
  BY <1>2 DEF CallInv
<1>5. PICK r \in receipts : r.p = req[h].p
  BY <1>2 DEF AnsweredByReceipt
<1>6. confirmed /\ Content(req[h].p) => Holds(req[h].p, rows)
  BY <1>1, <1>3, <1>5 DEF CreatedInv
<1>7. misled' = misled \/ (~Content(req[h].p) /\ misled' = misled \cup {req[h].p})
  BY <1>1, <1>6 DEF Finish
<1> QED BY <1>3, <1>4, <1>7

-----------------------------------------------------------------------------
(* Pages of events *)

LEMMA PageFacts ==
  ASSUME NEW a \in Nat, NEW c \in Nat, a < c, events \in Nat, c <= events
  PROVE  LET found == PageRows(a, c)
             page == {id \in found : id <= a + PageLimit}
             next == IF page = {} THEN a ELSE CHOOSE m \in page : \A n \in page : m >= n
             more == Cardinality(found) > PageLimit
         IN ValidPage(a, c, page, next, more) /\ next \in 0..c
<1> DEFINE found == PageRows(a, c)
           page == {id \in found : id <= a + PageLimit}
           next == IF page = {} THEN a ELSE CHOOSE m \in page : \A n \in page : m >= n
           more == Cardinality(found) > PageLimit
<1>0. PageLimit \in Nat \ {0}
  BY ManagementPlaneAssumption
<1>1. PICK t \in Nat : t = IF c <= a + PageLimit THEN c ELSE a + PageLimit
  BY <1>0
<1>2. PICK u \in Nat : u = IF c <= a + PageLimit + 1 THEN c ELSE a + PageLimit + 1
  BY <1>0
<1>3. a + 1 <= t /\ a + 1 <= u /\ t <= c /\ u <= c
  BY <1>0, <1>1, <1>2
<1>4. found = (a + 1)..u
  BY <1>0, <1>2 DEF PageRows
<1>5. page = (a + 1)..t
  BY <1>0, <1>1, <1>2, <1>4
<1>6. Cardinality(found) = u - a
  <2>1. Cardinality((a + 1)..u) = IF a + 1 > u THEN 0 ELSE u - (a + 1) + 1
    BY FS_Interval
  <2> QED BY <1>3, <1>4, <2>1
<1>7. Cardinality(page) = t - a
  <2>1. Cardinality((a + 1)..t) = IF a + 1 > t THEN 0 ELSE t - (a + 1) + 1
    BY FS_Interval
  <2>2. Cardinality((a + 1)..t) = t - a
    BY <1>3, <2>1
  <2> HIDE DEF page
  <2> QED BY <1>5, <2>2
<1>8. page # {} /\ t \in page /\ \A n \in page : t >= n
  BY <1>3, <1>5
<1>9. next = t
  <2>1. next = CHOOSE m \in page : \A n \in page : m >= n
    BY <1>8
  <2>2. next \in page /\ \A n \in page : next >= n
    BY <1>8, <2>1
  <2> QED BY <1>5, <1>8, <2>2
<1>10. more <=> c > a + PageLimit
  BY <1>0, <1>2, <1>6
<1>11. ValidPage(a, c, page, t, more)
  <2>1. c >= a /\ t >= a /\ t <= c /\ Cardinality(page) <= PageLimit
    BY <1>0, <1>1, <1>3, <1>7
  <2>2. \A id \in page : id > a /\ id <= c
    BY <1>3, <1>5
  <2>3. t = (IF page = {} THEN a ELSE CHOOSE m \in page : \A n \in page : m >= n)
    BY <1>9
  <2>4. /\ more => Cardinality(page) = PageLimit /\ t < c
        /\ ~more => t = c
    BY <1>0, <1>1, <1>7, <1>10
  <2> HIDE DEF page, more
  <2> QED BY <2>1, <2>2, <2>3, <2>4 DEF ValidPage
<1>12. t \in 0..c
  BY <1>3
<1> QED BY <1>9, <1>11, <1>12

WatchSet == [pc : {"idle", "pinned", "rejected"}, after : 0..events, cursor : 0..events]

LEMMA PagesKept ==
  ASSUME TypeOK, PageInv, PinCursor \/ ReadPage
  PROVE  watch' \in WatchSet /\ PageInv'
<1>1. events \in Nat
  BY FS_CardinalityType DEF TypeOK
<1>2. watch \in WatchSet
  BY DEF TypeOK, WatchSet
<1>3. PICK a, c : a = watch.after /\ c = watch.cursor
  OBVIOUS
<1>4. a \in 0..events /\ c \in 0..events
  BY <1>2, <1>3 DEF WatchSet
<1>5. CASE PinCursor
  <2>1. PICK k : k = Watch("pinned", a, events)
    OBVIOUS
  <2>2. k.pc = "pinned" /\ k.after = a /\ k.cursor = events
    BY <2>1 DEF Watch
  <2>3. k \in WatchSet
    BY <1>1, <1>4, <2>1 DEF Watch, WatchSet
  <2>4. watch' = k /\ a < events
    BY <1>3, <1>5, <2>1 DEF PinCursor
  <2> QED BY <2>2, <2>3, <2>4 DEF PageInv
<1>6. CASE ReadPage
  <2> DEFINE found == PageRows(a, c)
             page == {id \in found : id <= a + PageLimit}
             next == IF page = {} THEN a ELSE CHOOSE m \in page : \A n \in page : m >= n
             more == Cardinality(found) > PageLimit
  <2>1. a < c /\ a \in Nat /\ c \in Nat /\ c <= events
    BY <1>1, <1>3, <1>4, <1>6 DEF ReadPage, PageInv
  <2>2. ValidPage(a, c, page, next, more) /\ next \in 0..c
    BY <1>1, <2>1, PageFacts
  <2>3. watch' = IF ValidPage(a, c, page, next, more) THEN Watch("idle", next, 0)
                 ELSE Watch("rejected", a, c)
    BY <1>3, <1>6 DEF ReadPage
  <2> HIDE DEF next, page, more
  <2>4. watch' = Watch("idle", next, 0)
    BY <2>2, <2>3
  <2>5. next \in 0..events
    BY <1>1, <2>1, <2>2
  <2>6. PICK k : k = Watch("idle", next, 0)
    OBVIOUS
  <2>7. k \in WatchSet /\ k.pc = "idle"
    BY <1>1, <2>5, <2>6 DEF Watch, WatchSet
  <2> QED BY <2>4, <2>6, <2>7 DEF PageInv
<1> QED BY <1>5, <1>6

-----------------------------------------------------------------------------
(* The invariant *)

\* The type invariant and ReceiptsHonest, by what they are about.
PlaneOK ==
  /\ RowsOK /\ IsFiniteSet(receipts) /\ events = Cardinality(receipts)
  /\ work \in Workloads \cup {{}} /\ misled \subseteq work /\ calls \in 0..MaxCalls
  /\ req \in [Requests -> ReqSet] /\ watch \in WatchSet
ReportsOK == /\ \A r \in receipts : Content(r.p) => r.holds
             /\ \A p \in misled : ~Content(p)
KeysOK == \A r, s \in receipts : r.kind = s.kind /\ r.key = s.key => r = s
AnswersOK == \A h \in Requests : req[h].pc = "answered" => Answered(req[h], receipts)

Parts ==
  /\ SessionTypeOK /\ LimitInv /\ PlaneOK /\ CallInv /\ CreatedInv /\ PageInv
  /\ ReportsOK /\ KeysOK /\ AnswersOK

LEMMA SplitInv == IInv => Parts /\ TypeOK
BY DEF IInv, Parts, PlaneOK, TypeOK, ReceiptsHonest, AnsweredByReceipt, ReportsOK, KeysOK,
       AnswersOK, Answered, Content, RowsOK, ReqSet, WatchSet

LEMMA JoinInv == Parts => IInv
BY DEF IInv, Parts, PlaneOK, TypeOK, ReceiptsHonest, AnsweredByReceipt, ReportsOK, KeysOK,
       AnswersOK, Answered, Content, RowsOK, ReqSet, WatchSet

LEMMA JoinPrimed == Parts' => IInv'
BY DEF IInv, Parts, PlaneOK, TypeOK, ReceiptsHonest, AnsweredByReceipt, ReportsOK, KeysOK,
       AnswersOK, Answered, Content, RowsOK, ReqSet, WatchSet

LEMMA InvInit == Init => IInv
<1> SUFFICES ASSUME Init PROVE Parts
  BY JoinInv
<1>1. /\ rows = InitialRows /\ receipts = {} /\ events = 0
      /\ req = [h \in Requests |-> NoCall] /\ misled = {} /\ watch = Watch("idle", 0, 0)
      /\ limits = [s \in Scopes |-> NoLimit] /\ attempt = [a \in Attempts |-> NoAttempt]
  BY DEF Init, SessionInit
<1>2. MaxNow > 2 /\ MaxCalls \in Nat
  BY ManagementPlaneAssumption
<1>3. ClockOK /\ CookiesOK
  <2>1. \A n \in Nat : \A i \in 0..MaxSessions, u \in 0..(MaxNow + n) :
          Session(i, u) \in SessionSet(n)
    BY DEF Session, SessionSet
  <2>2. CASE SessionInit
    <3>1. /\ now = 1 /\ opened = 0 /\ fails = 0
          /\ admin = Session(0, 0) /\ config = Session(0, 0)
      BY <2>2 DEF SessionInit, NoSession
    <3>2. /\ 0 \in 0..MaxSessions /\ 0 \in 0..(MaxNow + SessionLifetime)
          /\ 0 \in 0..(MaxNow + ConfigLifetime)
      BY Numbers
    <3>3. admin \in SessionSet(SessionLifetime) /\ config \in SessionSet(ConfigLifetime)
      BY <2>1, <3>1, <3>2, Numbers
    <3> QED BY <1>2, <3>1, <3>3, Numbers DEF ClockOK, CookiesOK
  <2>3. CASE /\ now = MaxNow - 2 /\ opened = MaxSessions /\ fails = MaxFails
             /\ admin = Session(MaxSessions, now + SessionLifetime)
             /\ config = Session(MaxSessions, now + ConfigLifetime)
    <3>1. /\ MaxSessions \in 0..MaxSessions
          /\ now + SessionLifetime \in 0..(MaxNow + SessionLifetime)
          /\ now + ConfigLifetime \in 0..(MaxNow + ConfigLifetime)
      BY <1>2, <2>3, Numbers
    <3>2. admin \in SessionSet(SessionLifetime) /\ config \in SessionSet(ConfigLifetime)
      BY <2>1, <2>3, <3>1, Numbers
    <3> QED BY <1>2, <2>3, <3>2, Numbers DEF ClockOK, CookiesOK
  <2> QED BY <2>2, <2>3 DEF Init
<1>4. AttemptsOK
  BY <1>1, NoAttemptType DEF AttemptsOK
<1>5. LimitsOK
  <2>1. now \in Nat
    BY <1>3, Numbers DEF ClockOK
  <2>2. 0 <= now + BlockSeconds /\ 0 <= 0 + BlockSeconds + MaxDelay
    BY <2>1, Numbers
  <2> QED BY <1>1, <2>2, NoLimitType DEF LimitsOK
<1>6. SessionTypeOK /\ LimitInv
  BY <1>3, <1>4, <1>5, SessionSplit
<1>7. PlaneOK
  <2>1. RowsOK
    BY <1>1, ManagementPlaneAssumption DEF RowsOK
  <2>2. IsFiniteSet(receipts) /\ events = Cardinality(receipts)
    BY <1>1, FS_EmptySet
  <2>3. work \in Workloads \cup {{}} /\ misled \subseteq work /\ calls \in 0..MaxCalls
    BY <1>1, <1>2 DEF Init
  <2>4. req \in [Requests -> ReqSet]
    BY <1>1, NoCallType
  <2>5. watch \in WatchSet
    BY <1>1 DEF Watch, WatchSet
  <2> QED BY <2>1, <2>2, <2>3, <2>4, <2>5 DEF PlaneOK
<1>8. CallInv /\ AnswersOK
  BY <1>1, NoCallType DEF CallInv, AnswersOK
<1>9. CreatedInv /\ ReportsOK /\ KeysOK
  BY <1>1 DEF CreatedInv, ReportsOK, KeysOK
<1>10. PageInv
  BY <1>1 DEF PageInv, Watch
<1> QED BY <1>6, <1>7, <1>8, <1>9, <1>10 DEF Parts

LEMMA SameSessions ==
  ASSUME SessionTypeOK, LimitInv, sessionVars' = sessionVars
  PROVE  SessionTypeOK' /\ LimitInv'
BY DEF SessionTypeOK, LimitInv, sessionVars, TableAccepts

LEMMA SamePlane ==
  ASSUME Parts, managementVars' = managementVars
  PROVE  (PlaneOK /\ CallInv /\ CreatedInv /\ PageInv /\ ReportsOK /\ KeysOK /\ AnswersOK)'
<1>1. /\ rows' = rows /\ receipts' = receipts /\ events' = events /\ req' = req
      /\ misled' = misled /\ watch' = watch /\ work' = work /\ calls' = calls
  BY DEF managementVars
<1>2. PlaneOK' /\ CallInv' /\ PageInv'
  BY <1>1 DEF Parts, PlaneOK, CallInv, PageInv, RowsOK, RowOK, ReqSet, WatchSet
<1>3. CreatedInv' /\ ReportsOK' /\ KeysOK' /\ AnswersOK'
  BY <1>1 DEF Parts, CreatedInv, Holds, ReportsOK, KeysOK, AnswersOK, Answered
<1> QED BY <1>2, <1>3

LEMMA CallStepKept ==
  ASSUME Parts, TypeOK, AnsweredByReceipt, NEW h \in Requests, CallStep(h)
  PROVE  Parts'
<1>0. /\ SessionTypeOK /\ LimitInv /\ PlaneOK /\ CallInv /\ CreatedInv /\ PageInv
      /\ ReportsOK /\ KeysOK /\ AnswersOK
  BY DEF Parts
<1>1. /\ CallsKept
      /\ sessionVars' = sessionVars /\ watch' = watch /\ work' = work
      /\ \/ rows' = rows /\ receipts' = receipts /\ events' = events
         \/ Known(req[h].p) /\ Commit(h)
      /\ misled' = misled \/ Finishes(h)
      /\ calls' \in 0..MaxCalls
  BY <1>0, CallsStep
<1>2. SessionTypeOK' /\ LimitInv'
  BY <1>0, <1>1, SameSessions
<1>3. misled' \subseteq work' /\ \A p \in misled' : ~Content(p)
  <2>1. CASE misled' = misled
    BY <1>0, <1>1, <2>1 DEF PlaneOK, ReportsOK
  <2>2. CASE Finishes(h)
    BY <1>0, <1>1, <2>2, FinishKept DEF ReportsOK
  <2> QED BY <1>1, <2>1, <2>2
<1>4. /\ RowsOK' /\ IsFiniteSet(receipts') /\ events' = Cardinality(receipts')
      /\ events \in Nat /\ events' \in {events, events + 1} /\ receipts \subseteq receipts'
      /\ \A r \in receipts' : Content(r.p) => r.holds
      /\ KeysOK' /\ CreatedInv'
  <2>1. CASE rows' = rows /\ receipts' = receipts /\ events' = events
    <3>1. RowsOK' /\ IsFiniteSet(receipts') /\ events' = Cardinality(receipts')
      BY <1>0, <2>1 DEF PlaneOK, RowsOK, RowOK
    <3>2. events \in Nat
      BY <1>0, FS_CardinalityType DEF PlaneOK
    <3>3. CreatedInv' /\ KeysOK' /\ \A r \in receipts' : Content(r.p) => r.holds
      BY <1>0, <1>1, <2>1 DEF CreatedInv, Holds, KeysOK, ReportsOK
    <3> QED BY <2>1, <3>1, <3>2, <3>3
  <2>2. CASE Known(req[h].p) /\ Commit(h)
    <3>1. PICK p, e, x, row : CommitOf(p, e, x, row)
      BY <1>0, <2>2, CommitEffect
    <3>2. /\ RowsOK' /\ IsFiniteSet(receipts') /\ events' = Cardinality(receipts')
          /\ events' = events + 1 /\ events \in Nat
          /\ \A r \in receipts' : Content(r.p) => r.holds
          /\ \A r, s \in receipts' : r.kind = s.kind /\ r.key = s.key => r = s
          /\ CreatedInv'
      BY <1>0, <1>1, <3>1, CommitKept DEF ReportsOK, KeysOK
    <3>3. receipts \subseteq receipts'
      BY <3>1 DEF CommitOf
    <3> QED BY <3>2, <3>3 DEF KeysOK
  <2> QED BY <1>1, <2>1, <2>2
<1>5. AnswersOK'
  <2> SUFFICES ASSUME NEW g \in Requests, req'[g].pc = "answered"
               PROVE  Answered(req'[g], receipts')
    BY DEF AnswersOK, Answered
  <2>1. CASE req[g].pc = "answered" /\ req'[g] = req[g]
    <3>1. Answered(req[g], receipts)
      BY <1>0, <2>1 DEF AnswersOK
    <3> QED BY <1>4, <2>1, <3>1 DEF Answered
  <2> QED BY <1>1, <2>1 DEF CallsKept
<1>6. CallInv'
  BY <1>1 DEF CallsKept, CallInv
<1>7. watch' \in WatchSet' /\ PageInv'
  <2>1. watch \in WatchSet
    BY <1>0 DEF PlaneOK
  <2>2. watch \in WatchSet'
    BY <1>4, <2>1 DEF WatchSet
  <2> QED BY <1>0, <1>1, <2>2 DEF PageInv
<1>8. PlaneOK'
  <2>1. work' \in Workloads \cup {{}}
    BY <1>0, <1>1 DEF PlaneOK
  <2>2. req' \in [Requests -> ReqSet']
    BY <1>1 DEF CallsKept
  <2> QED BY <1>1, <1>3, <1>4, <1>7, <2>1, <2>2 DEF PlaneOK
<1>9. ReportsOK'
  BY <1>3, <1>4 DEF ReportsOK
<1> QED BY <1>2, <1>4, <1>5, <1>6, <1>7, <1>8, <1>9 DEF Parts

LEMMA PageStepKept ==
  ASSUME Parts, TypeOK, PinCursor \/ ReadPage
  PROVE  Parts'
<1>1. /\ sessionVars' = sessionVars /\ rows' = rows /\ receipts' = receipts /\ events' = events
      /\ req' = req /\ misled' = misled /\ work' = work /\ calls' = calls
  BY DEF PinCursor, ReadPage
<1>2. SessionTypeOK' /\ LimitInv'
  BY <1>1, SameSessions DEF Parts
<1>3. watch' \in WatchSet /\ PageInv'
  BY PagesKept DEF Parts
<1>4. watch' \in WatchSet'
  BY <1>1, <1>3 DEF WatchSet
<1>5. PlaneOK' /\ CallInv'
  BY <1>1, <1>4 DEF Parts, PlaneOK, CallInv, RowsOK, RowOK, ReqSet
<1>6. CreatedInv' /\ ReportsOK' /\ KeysOK' /\ AnswersOK'
  BY <1>1 DEF Parts, CreatedInv, Holds, ReportsOK, KeysOK, AnswersOK, Answered
<1> QED BY <1>2, <1>3, <1>5, <1>6 DEF Parts

LEMMA InvStep == IInv /\ [Next]_vars => IInv'
<1> SUFFICES ASSUME IInv, [Next]_vars PROVE Parts'
  BY JoinPrimed
<1>1. Parts /\ TypeOK /\ AnsweredByReceipt
  BY SplitInv DEF IInv
<1>2. CASE SessionNext /\ UNCHANGED managementVars
  <2>1. SessionTypeOK' /\ LimitInv'
    BY <1>1, <1>2, SessionKept DEF Parts
  <2> QED BY <1>1, <1>2, <2>1, SamePlane DEF Parts
<1>3. ASSUME NEW h \in Requests, CallStep(h) PROVE Parts'
  BY <1>1, <1>3, CallStepKept
<1>4. CASE PinCursor \/ ReadPage
  BY <1>1, <1>4, PageStepKept
<1>5. CASE UNCHANGED vars
  <2>1. sessionVars' = sessionVars /\ managementVars' = managementVars
    BY <1>5 DEF vars
  <2>2. SessionTypeOK' /\ LimitInv'
    BY <1>1, <2>1, SameSessions DEF Parts
  <2> QED BY <1>1, <2>1, <2>2, SamePlane DEF Parts
<1> QED BY <1>2, <1>3, <1>4, <1>5, NextSplit DEF AnyStep

LEMMA Invariance == Spec => []IInv
BY InvInit, InvStep, PTL DEF Spec

-----------------------------------------------------------------------------
(* The theorems *)

\* For every set of operators' proposals and every interleaving of their calls:
\* a receipt that management.rs, management_access.rs and their siblings wrote
\* stands for a resource as it was asked for, and so does what the CLI reports
\* after its readback, but for updates of principals and groups.
THEOREM ReceiptsAreHonest == Spec => []ReceiptsHonest
<1>1. IInv => ReceiptsHonest
  BY DEF IInv
<1> QED BY <1>1, Invariance, PTL

\* A key is spent once whatever calls are repeated or overtaken, and apply
\* answers no call that has no receipt of its own.
THEOREM CallsAreAnsweredByReceipts == Spec => []AnsweredByReceipt
<1>1. IInv => AnsweredByReceipt
  BY DEF IInv
<1> QED BY <1>1, Invariance, PTL

\* For every page limit and however many events are appended between the two
\* statements of the events handler, the client's validate_event_page accepts
\* the page.
THEOREM PagesAreContinuous == Spec => []PagesContinuous
<1>1. IInv => PagesContinuous
  BY DEF IInv, PageInv, PagesContinuous
<1> QED BY <1>1, Invariance, PTL

\* For every window, block and retention with BlockSeconds + MaxDelay <=
\* Retention: neither a failure recorded with an older clock nor the cron
\* shortens a block that is in force.
THEOREM BlocksHold == Spec => BlockHolds
<1> DEFINE Kept == \A s \in Scopes : limits[s].until > now' => limits'[s].until >= limits[s].until
<1>1. IInv /\ [Next]_vars => [Kept]_sessionVars
  <2> SUFFICES ASSUME IInv, [Next]_vars PROVE Kept \/ sessionVars' = sessionVars
    BY DEF sessionVars
  <2>1. Parts /\ TypeOK
    BY SplitInv
  <2>2. CASE SessionNext
    BY <2>1, <2>2, SessionKept DEF Parts
  <2>3. ASSUME NEW h \in Requests, CallStep(h) PROVE sessionVars' = sessionVars
    BY <2>1, <2>3, CallsStep DEF Parts
  <2>4. ASSUME PinCursor \/ ReadPage \/ UNCHANGED vars PROVE sessionVars' = sessionVars
    BY <2>4 DEF PinCursor, ReadPage, vars
  <2> QED BY <2>2, <2>3, <2>4, NextSplit DEF AnyStep
<1> QED BY <1>1, Invariance, PTL DEF Spec, BlockHolds
=============================================================================

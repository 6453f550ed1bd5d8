------------------------- MODULE MCDriverCredentials -------------------------
(***************************************************************************)
(* Two renewals and two operators of one driver.  A claim lasts two        *)
(* seconds and a handler may run longer, so that claims lapse under        *)
(* running handlers.  The second operator brings a token of another        *)
(* account, or of the same.  A run starts from scenarios that spend the    *)
(* bounds on one kind of trouble each.                                     *)
(***************************************************************************)
EXTENDS DriverCredentials, TLC

CONSTANTS o1, o2, acme, other

MCOpAccount == (o1 :> acme) @@ (o2 :> other)
SameAccount == (o1 :> acme) @@ (o2 :> acme)

Symmetry == Permutations(Workers) \cup Permutations(Ops)

Tries(n, m) == op[o1].tries = MaxTries - n /\ op[o2].tries = MaxTries - m

\* A replacement races two renewals, and one thing goes wrong.
Troubled == env.rev = 1 /\ Tries(1, 0) /\ faults = MaxFaults - 1 /\ driver.rev = 1 + MaxStates

\* Two operators bring the first credential, and the driver's state changes.
Unprovisioned == env.rev = 0 /\ Tries(1, 1) /\ faults = MaxFaults /\ driver.rev = 1

\* One operator sends again after a crash or a fault of the provider.
Retried ==
  env.rev = 0 /\ Tries(2, 0) /\ faults = MaxFaults - 1 /\ driver.rev = 1 + MaxStates

MCInit == Init /\ (Troubled \/ Unprovisioned \/ Retried)
MCSpec == MCInit /\ [][Next]_vars /\ Fairness

\* Two operators of one account replace an imported credential.
Contended == env.rev = 1 /\ Tries(1, 1) /\ faults = MaxFaults /\ driver.rev = 1 + MaxStates

ContendedSpec == Init /\ Contended /\ [][Next]_vars
=============================================================================

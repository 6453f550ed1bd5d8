--------------------------- MODULE MCManagementPlane ----------------------------
EXTENDS ManagementPlane, TLC

PrincipalsDef == {"root", "ann", "bob"}
GroupsDef == {"staff", "guests"}
DriversDef == {"r2", "s3"}
TokensDef == {"token"}
QuotasDef == {"quota"}

\* A deployed system: one driver of two is registered; staff has no member.
InitialRowsDef ==
  [r \in Resources |->
     IF r \in {"s3", "bob", "guests"} THEN Absent ELSE Row(1, "a", TRUE, {})]

\* Proposals for different tables do not meet, but for principals and groups.
WorkloadsDef ==
  {{Proposal("quota", "quota", t, TRUE, "") : t \in {"b", "c"}},
   {Proposal("token.annotation", "token", t, TRUE, "") : t \in {"b", "c"}},
   {Proposal("driver.state", "r2", "", FALSE, ""), Proposal("driver.state", "r2", "", TRUE, "")},
   {Proposal("driver.register", "s3", t, FALSE, "") : t \in {"b", "c"}},
   {Proposal("principal.update", "ann", "b", TRUE, ""),
    Proposal("principal.update", "ann", "a", FALSE, ""),
    Proposal("principal.create", "bob", "b", TRUE, "")},
   {Proposal("group.create", "guests", "b", TRUE, ""),
    Proposal("group.update", "staff", "b", TRUE, ""),
    Proposal("group.delete", "staff", "", TRUE, ""),
    Proposal("membership.add", "staff", "", TRUE, "ann"),
    Proposal("membership.remove", "staff", "", TRUE, "ann")}}

\* Two operators rename one principal.
RenamesDef == {{Proposal("principal.update", "ann", t, TRUE, "") : t \in {"b", "c"}}}

Symmetry == Permutations(Requests) \cup Permutations(Keys) \cup Permutations(Attempts)
=============================================================================

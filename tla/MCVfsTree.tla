------------------------------- MODULE MCVfsTree -------------------------------
(***************************************************************************)
(* A root with two directories and room for one or two more, two drivers,  *)
(* and scenarios of two or three requests that can disturb each other.     *)
(***************************************************************************)
EXTENDS VfsTree, TLC

CONSTANTS R, A, B, C, r1, r2, r3, p1, p2, x1, d1, d2, s1

MCNamed == (A :> 1) @@ (B :> 2)

\* The requests of a run: three mutations, two policies, one read.
Asked(op1, op2, op3, kind1, kind2, read) ==
  /\ <<req[r1].op, req[r2].op, req[r3].op>> = <<op1, op2, op3>>
  /\ <<pol[p1].kind, pol[p2].kind>> = <<kind1, kind2>>
  /\ rd[x1].pc = read

NoMounts == \A d \in Born : dir[d].mount = "inherited"

\* Two or three mutations of one tree.
Branches ==
  /\ NoMounts
  /\ \/ Asked("rename", "mkdir", "put", "none", "none", "done")
     \/ Asked("rename", "mkdir", "remove", "none", "none", "done")
     \/ Asked("rename", "rename", "remove", "none", "none", "done")

\* A change of driver against everything that relies on it.
Mounting ==
  \/ Asked("rename", "put", "none", "placement", "none", "done")
  \/ Asked("put", "remove", "none", "placement", "placement", "done")
  \/ Asked("mkdir", "rename", "none", "placement", "none", "done")
  \/ Asked("none", "none", "none", "placement", "placement", "done")
  \/ Asked("none", "none", "none", "acl", "acl", "done")

\* A read against every change.
Reading ==
  /\ NoMounts
  /\ \/ Asked("rename", "none", "none", "none", "none", "new")
     \/ Asked("put", "mkdir", "none", "none", "none", "new")
     \/ Asked("put", "rename", "none", "none", "none", "new")
     \/ Asked("mkdir", "remove", "none", "none", "none", "new")
     \/ Asked("none", "none", "none", "placement", "acl", "new")

MCInit == Init /\ (Branches \/ Mounting \/ Reading)
MCSpec == MCInit /\ [][Next]_vars
=============================================================================

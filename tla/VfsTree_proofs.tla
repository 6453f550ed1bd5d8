----------------------------- MODULE VfsTree_proofs -----------------------------
(***************************************************************************)
(* Proofs about VfsTree: the directories stay a tree, the drivers agree,   *)
(* replacements hit what was listed and answered reads are snapshots.      *)
(***************************************************************************)
EXTENDS VfsTree, TLAPS, FiniteSetTheorems

-----------------------------------------------------------------------------
(* Ancestors, as a function of the parents *)

Closed(p, S) == \A y \in S : p[y] \in S \cup {Nowhere}

\* What every closed set holds that holds d.
Above(p, d) == {x \in Dirs : \A S \in SUBSET Dirs : Closed(p, S) /\ d \in S => x \in S}

Parents == [d \in Dirs |-> dir[d].parent]

ParentMaps == [Dirs -> Dirs \cup {Nowhere}]

\* Ancestors is Above of the parents the rows hold.
LEMMA AncestorsAbove ==
  ASSUME NEW d PROVE Ancestors(d) = Above(Parents, d)
<1>1. ASSUME NEW x \in Ancestors(d) PROVE x \in Above(Parents, d)
  <2>1. x \in Dirs BY <1>1 DEF Ancestors
  <2>2. SUFFICES ASSUME NEW S \in SUBSET Dirs, Closed(Parents, S), d \in S, x \notin S PROVE FALSE
    BY <2>1 DEF Above
  <2>3. S \in SUBSET (Dirs \ {x}) BY <2>2
  <2>4. PICK y \in S : dir[y].parent \notin S \cup {Nowhere} BY <1>1, <2>2, <2>3 DEF Ancestors
  <2>5. Parents[y] \in S \cup {Nowhere} BY <2>2 DEF Closed
  <2> QED BY <2>4, <2>5 DEF Parents
<1>2. ASSUME NEW x \in Above(Parents, d) PROVE x \in Ancestors(d)
  <2>1. x \in Dirs BY <1>2 DEF Above
  <2>2. SUFFICES ASSUME NEW S \in SUBSET (Dirs \ {x}), d \in S,
                        \A y \in S : dir[y].parent \in S \cup {Nowhere}
                 PROVE FALSE
    BY <2>1 DEF Ancestors
  <2>3. Closed(Parents, S) BY <2>2 DEF Closed, Parents
  <2> QED BY <1>2, <2>2, <2>3 DEF Above
<1> QED BY <1>1, <1>2

\* The same of the state after a step.
LEMMA AncestorsAboveNext ==
  ASSUME NEW d PROVE Ancestors(d)' = Above(Parents', d)
<1>1. ASSUME NEW x \in Ancestors(d)' PROVE x \in Above(Parents', d)
  <2>1. x \in Dirs BY <1>1 DEF Ancestors
  <2>2. SUFFICES ASSUME NEW S \in SUBSET Dirs, Closed(Parents', S), d \in S, x \notin S PROVE FALSE
    BY <2>1 DEF Above
  <2>3. S \in SUBSET (Dirs \ {x}) BY <2>2
  <2>4. PICK y \in S : dir'[y].parent \notin S \cup {Nowhere} BY <1>1, <2>2, <2>3 DEF Ancestors
  <2>5. Parents'[y] \in S \cup {Nowhere} BY <2>2 DEF Closed
  <2> QED BY <2>4, <2>5 DEF Parents
<1>2. ASSUME NEW x \in Above(Parents', d) PROVE x \in Ancestors(d)'
  <2>1. x \in Dirs BY <1>2 DEF Above
  <2>2. SUFFICES ASSUME NEW S \in SUBSET (Dirs \ {x}), d \in S,
                        \A y \in S : dir'[y].parent \in S \cup {Nowhere}
                 PROVE FALSE
    BY <2>1 DEF Ancestors
  <2>3. Closed(Parents', S) BY <2>2 DEF Closed, Parents
  <2> QED BY <1>2, <2>2, <2>3 DEF Above
<1> QED BY <1>1, <1>2

LEMMA AboveSelf == ASSUME NEW p, NEW d \in Dirs PROVE d \in Above(p, d)
BY DEF Above

LEMMA AboveIn ==
  ASSUME NEW p, NEW S \in SUBSET Dirs, Closed(p, S), NEW d \in S
  PROVE  Above(p, d) \subseteq S
BY DEF Above

\* The ancestors of a directory are closed.
LEMMA AboveClosed ==
  ASSUME NEW p \in ParentMaps, NEW d \in Dirs PROVE Closed(p, Above(p, d))
<1> SUFFICES ASSUME NEW y \in Above(p, d), p[y] # Nowhere PROVE p[y] \in Above(p, d)
  BY DEF Closed
<1>1. y \in Dirs /\ p[y] \in Dirs BY DEF Above, ParentMaps
<1>2. SUFFICES ASSUME NEW S \in SUBSET Dirs, Closed(p, S), d \in S PROVE p[y] \in S
  BY <1>1 DEF Above
<1>3. y \in S BY <1>2 DEF Above
<1> QED BY <1>2, <1>3 DEF Closed

LEMMA AboveTrans ==
  ASSUME NEW p \in ParentMaps, NEW d \in Dirs, NEW x \in Above(p, d)
  PROVE  Above(p, x) \subseteq Above(p, d)
<1>1. Above(p, d) \in SUBSET Dirs BY DEF Above
<1> QED BY <1>1, AboveClosed, AboveIn

\* One directory changes its parent, within a set that stays closed: whatever
\* lies outside keeps what is below it.
LEMMA AboveSame ==
  ASSUME NEW p \in ParentMaps, NEW q \in ParentMaps, NEW c, NEW A \in SUBSET Dirs,
         \A y \in Dirs : y # c => q[y] = p[y],
         p[c] \in A \cup {Nowhere}, q[c] \in A \cup {Nowhere}, Closed(p, A),
         NEW d \in Dirs \ A, NEW x \in Dirs
  PROVE  d \in Above(p, x) <=> d \in Above(q, x)
<1>1. Closed(q, A) BY DEF Closed
<1>2. ASSUME d \in Above(p, x) PROVE d \in Above(q, x)
  <2>1. SUFFICES ASSUME NEW S \in SUBSET Dirs, Closed(q, S), x \in S PROVE d \in S
    BY DEF Above
  <2>2. Closed(p, S \cup A) BY <2>1 DEF Closed
  <2>3. d \in S \cup A BY <1>2, <2>1, <2>2 DEF Above
  <2> QED BY <2>3
<1>3. ASSUME d \in Above(q, x) PROVE d \in Above(p, x)
  <2>1. SUFFICES ASSUME NEW S \in SUBSET Dirs, Closed(p, S), x \in S PROVE d \in S
    BY DEF Above
  <2>2. Closed(q, S \cup A) BY <1>1, <2>1 DEF Closed
  <2>3. d \in S \cup A BY <1>3, <2>1, <2>2 DEF Above
  <2> QED BY <2>3
<1> QED BY <1>2, <1>3

-----------------------------------------------------------------------------
(* Types *)

LEMMA Assumed ==
  /\ Root \in Dirs /\ Born \subseteq Dirs /\ Root \notin Born /\ Home \in Drivers
  /\ Nowhere \notin Dirs /\ Nowhere \notin Drivers /\ Nowhere \notin Mutators
  /\ Dirs \cap Mutators = {} /\ IsFiniteSet(Dirs) /\ IsFiniteSet(Names) /\ Names \subseteq Nat
  /\ \A d \in Born : Named[d] \in Names
  /\ \A c, d \in Born : Named[c] = Named[d] => c = d
  /\ Attempts \in Nat /\ Attempts >= 1
<1>1. Attempts \in Nat \ {0} BY VfsTreeAssumption
<1>2. Attempts \in Nat /\ Attempts >= 1 BY <1>1
<1> QED BY VfsTreeAssumption, <1>2

LEMMA EntryType ==
  ASSUME NEW kind \in {"absent", "file", "directory"},
         NEW subject \in Dirs \cup Mutators \cup {Nowhere},
         NEW rev \in Nat, NEW on \in Drivers \cup {Nowhere}
  PROVE  Entry(kind, subject, rev, on) \in EntryRows
BY DEF Entry, EntryRows

LEMMA NoEntryType == NoEntry \in EntryRows
BY DEF NoEntry, Entry, EntryRows

LEMMA DirectoryType ==
  ASSUME NEW parent \in Dirs \cup {Nowhere}, NEW name \in Names \cup {0},
         NEW driver \in Drivers \cup {Nowhere}, NEW mount \in {"default", "mount", "inherited"}
  PROVE  Directory(parent, name, driver, mount) \in DirectoryRows
BY DEF Directory, DirectoryRows

LEMMA UnbornType == Unborn \in DirectoryRows
<1>1. PICK u : u = Directory(Nowhere, 0, Nowhere, "inherited") OBVIOUS
<1>2. u \in DirectoryRows BY <1>1 DEF Directory, DirectoryRows
<1>3. Unborn = [u EXCEPT !.state = "none"] BY <1>1 DEF Unborn
<1> QED BY <1>2, <1>3 DEF DirectoryRows

LEMMA MutationType ==
  ASSUME NEW op \in {"none", "put", "mkdir", "remove", "rename"},
         NEW d \in Dirs \cup {Nowhere}, NEW n \in Names \cup {0}, NEW e \in EntryRows,
         NEW dst \in Dirs \cup {Nowhere}, NEW dname \in Names \cup {0}
  PROVE  Mutation(op, d, n, e, dst, dname) \in Mutations
<1>1. 0 \in 0 .. Attempts - 1 BY Assumed
<1>2. [x \in Dirs |-> 0] \in [Dirs -> Nat] OBVIOUS
<1> QED BY <1>1, <1>2 DEF Mutation, Mutations

LEMMA NewMutationType ==
  ASSUME NEW op \in {"none", "put", "mkdir", "remove", "rename"}
  PROVE  /\ NewMutation(op) \in Mutations
         /\ NewMutation(op).pc = IF op = "none" THEN "done" ELSE "new"
         /\ NewMutation(op).op = op
<1>1. PICK m : m = Mutation(op, Nowhere, 0, NoEntry, Nowhere, 0) OBVIOUS
<1>2. m \in Mutations BY <1>1, MutationType, NoEntryType
<1>3. NewMutation(op) = [m EXCEPT !.pc = IF op = "none" THEN "done" ELSE "new"]
  BY <1>1 DEF NewMutation
<1>4. m.op = op BY <1>1 DEF Mutation
<1> QED BY <1>2, <1>3, <1>4 DEF Mutations

LEMMA PolicyType ==
  ASSUME NEW pc \in {"new", "list", "listed", "batch", "committed", "done"},
         NEW kind \in {"none", "placement", "acl"}, NEW d \in Dirs \cup {Nowhere}, NEW rev \in Nat
  PROVE  Policy(pc, kind, d, rev) \in PolicyRequests
<1>1. {} \in RowSets BY DEF RowSets
<1> QED BY <1>1 DEF Policy, PolicyRequests

LEMMA NewPolicyType ==
  ASSUME NEW kind \in {"none", "placement", "acl"}
  PROVE  /\ NewPolicy(kind) \in PolicyRequests /\ NewPolicy(kind).kind = kind
         /\ NewPolicy(kind).pc = IF kind = "none" THEN "done" ELSE "new"
<1>1. PICK pc \in {"new", "done"} :
        pc = (IF kind = "none" THEN "done" ELSE "new") /\ NewPolicy(kind) = Policy(pc, kind, Nowhere, 0)
  BY DEF NewPolicy
<1>2. NewPolicy(kind).pc = pc /\ NewPolicy(kind).kind = kind BY <1>1 DEF Policy
<1> QED BY <1>1, <1>2, PolicyType

LEMMA NoViewType == NoView \in Views
BY DEF NoView, Views

LEMMA ReadType ==
  ASSUME NEW pc \in {"new", "path", "done"}, NEW d \in Dirs \cup {Nowhere}, NEW view \in Views
  PROVE  Read(pc, d, view) \in Reads
BY DEF Read, Reads

LEMMA TypeInit == Init => TypeOK
<1> SUFFICES ASSUME Init PROVE TypeOK OBVIOUS
<1>1. dir \in [Dirs -> DirectoryRows]
  <2>1. PICK on \in [Born -> Drivers] : dir = [d \in Dirs |->
      IF d = Root THEN Directory(Nowhere, 0, Home, "default")
      ELSE IF d \notin Born THEN Unborn
      ELSE Directory(Root, Named[d], on[d], IF on[d] = Home THEN "inherited" ELSE "mount")]
    BY DEF Init, InitDirs
  <2>2. SUFFICES ASSUME NEW d \in Dirs PROVE dir[d] \in DirectoryRows
    BY <2>1
  <2>3. CASE d = Root BY <2>1, <2>3, Assumed, DirectoryType
  <2>4. CASE d # Root /\ d \notin Born BY <2>1, <2>4, UnbornType
  <2>5. CASE d # Root /\ d \in Born
    <3>1. PICK m \in {"inherited", "mount"} : dir[d] = Directory(Root, Named[d], on[d], m)
      BY <2>1, <2>5
    <3>2. Named[d] \in Names /\ on[d] \in Drivers /\ Root \in Dirs BY <2>5, Assumed
    <3> QED BY <3>1, <3>2, DirectoryType
  <2> QED BY <2>3, <2>4, <2>5
<1>2. entry \in [Dirs -> [Names -> EntryRows]]
  <2>1. ASSUME NEW d \in Dirs, NEW n \in Names PROVE InitEntry(d, n) \in EntryRows
    <3>1. CASE d = Root /\ \E c \in Born : Named[c] = n
      <4>1. PICK c : c = CHOOSE b \in Born : Named[b] = n OBVIOUS
      <4>2. c \in Born BY <3>1, <4>1
      <4>3. InitEntry(d, n) = Entry("directory", c, 1, Nowhere) BY <3>1, <4>1 DEF InitEntry
      <4> QED BY <4>2, <4>3, EntryType, Assumed
    <3>2. CASE ~(d = Root /\ \E c \in Born : Named[c] = n)
      BY <3>2, NoEntryType DEF InitEntry
    <3> QED BY <3>1, <3>2
  <2> QED BY <2>1 DEF Init
<1>3. req \in [Mutators -> Mutations] BY NewMutationType DEF Init
<1>4. pol \in [Policies -> PolicyRequests] BY NewPolicyType DEF Init
<1>5. rd \in [Readers -> Reads]
  <2>1. NewRead("new") \in Reads BY ReadType, NoViewType DEF NewRead
  <2>2. NewRead("done") \in Reads BY ReadType, NoViewType DEF NewRead
  <2> QED BY <2>1, <2>2 DEF Init
<1> QED BY <1>1, <1>2, <1>3, <1>4, <1>5 DEF Init, TypeOK

-----------------------------------------------------------------------------
(* What holds of the rows whatever a removal may have taken *)

Created(d) == d \in Dirs /\ dir[d].state # "none"

\* No entry, a file, or a directory that was created.
GoodEntry(e) ==
  \/ e = NoEntry
  \/ e.kind = "file" /\ e.subject \in Mutators
  \/ e.kind = "directory" /\ e.subject # Root /\ Created(e.subject)

RowInv ==
  /\ Active(Root) /\ dir[Root].parent = Nowhere
  /\ \A d \in Dirs \ {Root} : Created(d) => dir[d].parent \in Dirs /\ dir[d].name \in Names
  /\ \A d \in Dirs : Created(d) => dir[d].driver \in Drivers
  /\ \A d \in Dirs : ~Created(d) => dir[d] = Unborn /\ HasNoEntry(d)
  /\ \A d \in Dirs, n \in Names : GoodEntry(entry[d][n])

\* What a request that is under way asks for.
Asks(q) ==
  /\ q.op # "none"
  /\ Created(q.dir) /\ q.name \in Names
  /\ q.op = "put" => q.loaded.kind = "file" /\ q.loaded.subject \in Mutators
  /\ q.op = "mkdir" => \E c \in Dirs \ {Root} : q.loaded = Entry("directory", c, 0, Nowhere)
  /\ q.op \in {"remove", "rename"} => q.loaded # NoEntry /\ GoodEntry(q.loaded)
  /\ q.op = "rename" => Created(q.dst) /\ q.dname \in Names

\* A loaded row is no newer than the directory; while it is current the
\* directory is active, and its parent is loaded or the next one to load.
RowLoaded(q, x) ==
  /\ Created(x) /\ q.rows[x] <= dir[x].rev
  /\ q.rows[x] = dir[x].rev =>
       /\ Active(x)
       /\ \/ dir[x].parent = Nowhere
          \/ q.rows[dir[x].parent] # 0
          \/ q.pc = "walk" /\ dir[x].parent = q.at

\* How far the walk along the one or two branches has come.
Walked(q) ==
  /\ \A x \in Dirs : q.rows[x] # 0 => RowLoaded(q, x)
  /\ q.pc = "walk" => q.at \in Dirs
  /\ q.rows[q.dir] # 0 \/ (q.pc = "walk" /\ q.leg = "source" /\ q.at = q.dir)
  /\ q.op = "rename" =>
       q.rows[q.dst] # 0 \/ (q.pc = "walk" /\ (q.leg = "source" \/ q.at = q.dst))

Walking(q) == q.pc \in {"walk", "plan", "batch"}
Sound(q) == Walking(q) => Asks(q) /\ Walked(q)

ReqInv == \A r \in Mutators : Sound(req[r])

-----------------------------------------------------------------------------
(* The steps of a request before its batch *)

\* A request takes a sound record.
TakesSound(r) == \E v \in Mutations : req' = [req EXCEPT ![r] = v] /\ Sound(v)

LEMMA MutationFields ==
  ASSUME NEW op, NEW d, NEW n, NEW e, NEW dst, NEW dname, NEW v,
         v = Mutation(op, d, n, e, dst, dname)
  PROVE  /\ v.pc = "walk" /\ v.op = op /\ v.dir = d /\ v.name = n /\ v.loaded = e
         /\ v.dst = dst /\ v.dname = dname /\ v.leg = "source" /\ v.at = d /\ v.chain = {}
         /\ v.rows = [x \in Dirs |-> 0] /\ v.tries = 0
BY DEF Mutation

\* A request at its first row is sound if what it asks for is.
LEMMA SoundFirst ==
  ASSUME NEW v, v.pc = "walk", v.leg = "source", v.at = v.dir, v.dir \in Dirs,
         v.rows = [x \in Dirs |-> 0], Asks(v)
  PROVE  Sound(v)
<1>1. \A x \in Dirs : v.rows[x] = 0 OBVIOUS
<1>2. Walked(v) BY <1>1 DEF Walked
<1> QED BY <1>2 DEF Sound

LEMMA NotWalking ==
  ASSUME NEW op \in {"none", "put", "mkdir", "remove", "rename"} PROVE Sound(NewMutation(op))
<1>1. NewMutation(op).pc \in {"done", "new"} BY NewMutationType
<1> QED BY <1>1 DEF Sound, Walking

LEMMA StartSound ==
  ASSUME TypeOK, RowInv, ReqInv, NEW r \in Mutators, Start(r) PROVE TakesSound(r)
<1>1. PICK d \in Dirs, n \in Names :
        \/ StartPut(r, d, n)
        \/ StartRemove(r, d, n)
        \/ \E c \in Dirs : StartMkdir(r, d, n, c)
        \/ \E s \in Dirs, m \in Names : StartRename(r, d, n, s, m)
  BY DEF Start
<1>2. entry[d][n] \in EntryRows /\ dir[d] \in DirectoryRows BY DEF TypeOK
<1>3. GoodEntry(entry[d][n]) BY DEF RowInv
<1>4. entry[d][n] # NoEntry => Created(d) BY DEF RowInv, HasNoEntry
<1>5. CASE StartPut(r, d, n)
  <2>1. PICK e : e = entry[d][n] OBVIOUS
  <2>2. PICK s : s = IF e = NoEntry THEN r ELSE e.subject OBVIOUS
  <2>3. PICK f : f = Entry("file", s, e.rev, dir[d].driver) OBVIOUS
  <2>4. PICK v : v = Mutation("put", d, n, f, Nowhere, 0) OBVIOUS
  <2>5. req' = [req EXCEPT ![r] = v] BY <1>5, <2>1, <2>2, <2>3, <2>4 DEF StartPut
  <2>6. Active(d) /\ e.kind # "directory" BY <1>5, <2>1 DEF StartPut
  <2>7. s \in Mutators BY <1>3, <2>1, <2>2, <2>6 DEF GoodEntry
  <2>8. f \in EntryRows
    <3>1. e.rev \in Nat BY <1>2, <2>1 DEF EntryRows
    <3>2. dir[d].driver \in Drivers \cup {Nowhere} BY <1>2 DEF DirectoryRows
    <3> QED BY <2>3, <2>7, <3>1, <3>2, EntryType
  <2>9. v \in Mutations BY <2>4, <2>8, MutationType
  <2>10. f.kind = "file" /\ f.subject = s BY <2>3 DEF Entry
  <2>11. Asks(v)
    <3>1. v.op = "put" /\ v.dir = d /\ v.name = n /\ v.loaded = f BY <2>4, MutationFields
    <3>2. Created(d) BY <2>6 DEF Created, Active
    <3> QED BY <3>1, <3>2, <2>7, <2>10 DEF Asks
  <2>12. Sound(v) BY <2>4, <2>11, MutationFields, SoundFirst
  <2> QED BY <2>5, <2>9, <2>12 DEF TakesSound
<1>6. CASE StartRemove(r, d, n)
  <2>1. PICK v : v = Mutation("remove", d, n, entry[d][n], Nowhere, 0) OBVIOUS
  <2>2. req' = [req EXCEPT ![r] = v] /\ entry[d][n] # NoEntry BY <1>6, <2>1 DEF StartRemove
  <2>3. v \in Mutations BY <1>2, <2>1, MutationType
  <2>4. v.op = "remove" /\ v.dir = d /\ v.name = n /\ v.loaded = entry[d][n]
    BY <2>1, MutationFields
  <2>5. Asks(v) BY <2>2, <2>4, <1>3, <1>4 DEF Asks
  <2>6. Sound(v) BY <2>1, <2>5, MutationFields, SoundFirst
  <2> QED BY <2>2, <2>3, <2>6 DEF TakesSound
<1>7. ASSUME NEW c \in Dirs, StartMkdir(r, d, n, c) PROVE TakesSound(r)
  <2>1. PICK f : f = Entry("directory", c, 0, Nowhere) OBVIOUS
  <2>2. PICK v : v = Mutation("mkdir", d, n, f, Nowhere, 0) OBVIOUS
  <2>3. req' = [req EXCEPT ![r] = v] BY <1>7, <2>1, <2>2 DEF StartMkdir
  <2>4. Active(d) /\ dir[c] = Unborn BY <1>7 DEF StartMkdir
  <2>5. c # Root
    <3>1. Unborn.state = "none" BY DEF Unborn, Directory
    <3> QED BY <2>4, <3>1 DEF RowInv, Active
  <2>6. f \in EntryRows BY <2>1, EntryType
  <2>7. v \in Mutations BY <2>2, <2>6, MutationType
  <2>8. v.op = "mkdir" /\ v.dir = d /\ v.name = n /\ v.loaded = f BY <2>2, MutationFields
  <2>9. Created(d) BY <2>4 DEF Created, Active
  <2>10. Asks(v) BY <2>1, <2>5, <2>8, <2>9 DEF Asks
  <2>11. Sound(v) BY <2>2, <2>10, MutationFields, SoundFirst
  <2> QED BY <2>3, <2>7, <2>11 DEF TakesSound
<1>8. ASSUME NEW s \in Dirs, NEW m \in Names, StartRename(r, d, n, s, m) PROVE TakesSound(r)
  <2>1. PICK v : v = Mutation("rename", d, n, entry[d][n], s, m) OBVIOUS
  <2>2. req' = [req EXCEPT ![r] = v] /\ entry[d][n] # NoEntry /\ Created(s)
    BY <1>8, <2>1 DEF StartRename, Created
  <2>3. v \in Mutations BY <1>2, <2>1, MutationType
  <2>4. /\ v.op = "rename" /\ v.dir = d /\ v.name = n /\ v.loaded = entry[d][n]
        /\ v.dst = s /\ v.dname = m
    BY <2>1, MutationFields
  <2>5. Asks(v) BY <2>2, <2>4, <1>3, <1>4 DEF Asks
  <2>6. Sound(v) BY <2>1, <2>5, MutationFields, SoundFirst
  <2> QED BY <2>2, <2>3, <2>6 DEF TakesSound
<1> QED BY <1>1, <1>5, <1>6, <1>7, <1>8

LEMMA AsksSame ==
  ASSUME NEW q, NEW v, Asks(q), v.op = q.op, v.dir = q.dir, v.name = q.name, v.loaded = q.loaded,
         v.dst = q.dst, v.dname = q.dname
  PROVE  Asks(v)
BY DEF Asks

\* One row is loaded: what was loaded stays so.
Loads(q, v) ==
  v.rows = [q.rows EXCEPT ![q.at] = IF q.rows[q.at] = 0 THEN dir[q.at].rev ELSE q.rows[q.at]]

Leads(q, v) == dir[q.at].parent = Nowhere \/ (v.pc = "walk" /\ v.at = dir[q.at].parent)

RowsLoaded(q, v) ==
  /\ \A x \in Dirs : v.rows[x] # 0 => RowLoaded(v, x)
  /\ v.rows[q.at] # 0
  /\ \A x \in Dirs : q.rows[x] # 0 => v.rows[x] # 0

LEMMA LoadStep ==
  ASSUME TypeOK, NEW q \in Mutations, Walked(q), q.pc = "walk", Active(q.at), NEW v,
         Loads(q, v), Leads(q, v)
  PROVE  RowsLoaded(q, v)
<1> USE DEF Loads, Leads, RowsLoaded
<1>1. q.at \in Dirs /\ q.rows \in [Dirs -> Nat] BY DEF Active, Mutations
<1>2. dir[q.at] \in DirectoryRows BY <1>1 DEF TypeOK
<1>3. dir[q.at].rev \in Nat /\ dir[q.at].rev # 0 BY <1>2 DEF DirectoryRows
<1>4. v.rows[q.at] # 0 BY <1>1, <1>3
<1>5. \A x \in Dirs : q.rows[x] # 0 => v.rows[x] = q.rows[x] BY <1>1
<1>6. \A x \in Dirs : q.rows[x] # 0 => v.rows[x] # 0 BY <1>5
<1>7. ASSUME NEW x \in Dirs, v.rows[x] # 0 PROVE RowLoaded(v, x)
  <2>1. CASE q.rows[x] = 0
    <3>1. x = q.at BY <1>1, <1>7, <2>1
    <3>2. v.rows[x] = dir[x].rev BY <1>1, <2>1, <3>1
    <3>3. dir[x].rev <= dir[x].rev BY <1>3, <3>1
    <3>4. Created(x) BY <3>1 DEF Active, Created
    <3> QED BY <3>1, <3>2, <3>3, <3>4 DEF RowLoaded
  <2>2. CASE q.rows[x] # 0
    <3>1. RowLoaded(q, x) /\ v.rows[x] = q.rows[x] BY <1>5, <2>2 DEF Walked
    <3>2. ASSUME dir[x].parent # Nowhere, v.rows[x] = dir[x].rev PROVE v.rows[dir[x].parent] # 0
      <4>1. q.rows[dir[x].parent] # 0 \/ dir[x].parent = q.at BY <3>1, <3>2 DEF RowLoaded
      <4>2. dir[x].parent \in Dirs BY <3>2 DEF TypeOK, DirectoryRows
      <4> QED BY <1>4, <1>6, <4>1, <4>2
    <3> QED BY <3>1, <3>2 DEF RowLoaded
  <2> QED BY <2>1, <2>2
<1> QED BY <1>4, <1>6, <1>7

LEMMA WalkSound ==
  ASSUME TypeOK, RowInv, ReqInv, NEW r \in Mutators, Walk(r) PROVE TakesSound(r)
<1>1. PICK q : q = req[r] OBVIOUS
<1>2. PICK row : row = dir[q.at] OBVIOUS
<1>3. PICK on : on = [q EXCEPT !.chain = q.chain \cup {q.at},
                       !.rows[q.at] = IF q.rows[q.at] = 0 THEN row.rev ELSE q.rows[q.at]]
  OBVIOUS
<1>4. q \in Mutations BY <1>1 DEF TypeOK
<1>5. q.pc = "walk" /\ row.state = "active" BY <1>1, <1>2 DEF Walk
<1>6. Asks(q) /\ Walked(q) BY <1>1, <1>5 DEF ReqInv, Sound, Walking
<1>7. q.at \in Dirs BY <1>5, <1>6 DEF Walked
<1>8. row \in DirectoryRows /\ Active(q.at) BY <1>2, <1>5, <1>7 DEF TypeOK, Active
<1>9. q.rows \in [Dirs -> Nat] /\ q.chain \in SUBSET Dirs BY <1>4 DEF Mutations
<1>10. row.rev \in Nat /\ row.parent \in Dirs \cup {Nowhere} BY <1>8 DEF DirectoryRows
<1>11. PICK rows : rows = [q.rows EXCEPT ![q.at] = IF q.rows[q.at] = 0 THEN row.rev ELSE q.rows[q.at]]
  OBVIOUS
<1>12. rows \in [Dirs -> Nat] BY <1>7, <1>9, <1>10, <1>11
<1>13. on = [q EXCEPT !.chain = q.chain \cup {q.at}, !.rows = rows] BY <1>3, <1>11
<1>14. on \in Mutations BY <1>4, <1>7, <1>9, <1>12, <1>13 DEF Mutations
<1>15. /\ on.pc = "walk" /\ on.op = q.op /\ on.dir = q.dir /\ on.name = q.name
       /\ on.loaded = q.loaded /\ on.dst = q.dst /\ on.dname = q.dname /\ on.leg = q.leg
       /\ on.rows = rows
  BY <1>4, <1>5, <1>13 DEF Mutations
<1>16. req' = [req EXCEPT ![r] =
         IF row.parent # Nowhere THEN [on EXCEPT !.at = row.parent]
         ELSE IF q.op = "rename" /\ q.leg = "source"
                THEN [on EXCEPT !.leg = "destination", !.at = q.dst, !.chain = {}]
                ELSE [on EXCEPT !.pc = "plan"]]
  BY <1>1, <1>2, <1>3 DEF Walk
<1>17. CASE row.parent # Nowhere
  <2>1. PICK v : v = [on EXCEPT !.at = row.parent] OBVIOUS
  <2>2. v \in Mutations BY <1>10, <1>14, <2>1 DEF Mutations
  <2>3. /\ v.pc = "walk" /\ v.op = q.op /\ v.dir = q.dir /\ v.name = q.name
        /\ v.loaded = q.loaded /\ v.dst = q.dst /\ v.dname = q.dname /\ v.leg = q.leg
        /\ v.rows = rows /\ v.at = row.parent
    BY <1>14, <1>15, <2>1 DEF Mutations
  <2>4. Asks(v) BY <1>6, <2>3, AsksSame
  <2>5. RowsLoaded(q, v)
    <3>1. Loads(q, v) BY <1>2, <1>11, <2>3 DEF Loads
    <3>2. Leads(q, v) BY <1>2, <2>3 DEF Leads
    <3> QED BY <1>4, <1>5, <1>6, <1>8, <3>1, <3>2, LoadStep
  <2>6. q.dir \in Dirs BY <1>6 DEF Asks, Created
  <2>7. v.rows[v.dir] # 0 BY <1>6, <2>3, <2>5, <2>6 DEF Walked, RowsLoaded
  <2>8. v.op = "rename" => v.rows[v.dst] # 0 \/ v.leg = "source"
    <3>1. q.op = "rename" => q.dst \in Dirs BY <1>6 DEF Asks, Created
    <3> QED BY <1>6, <2>3, <2>5, <3>1 DEF Walked, RowsLoaded
  <2>9. v.at \in Dirs BY <1>10, <1>17, <2>3
  <2>10. Walked(v) BY <2>3, <2>5, <2>7, <2>8, <2>9 DEF Walked, RowsLoaded
  <2>11. req' = [req EXCEPT ![r] = v] BY <1>16, <1>17, <2>1
  <2> QED BY <2>2, <2>4, <2>10, <2>11 DEF TakesSound, Sound
<1>18. CASE row.parent = Nowhere /\ q.op = "rename" /\ q.leg = "source"
  <2>1. PICK v : v = [on EXCEPT !.leg = "destination", !.at = q.dst, !.chain = {}] OBVIOUS
  <2>6. q.dir \in Dirs /\ q.dst \in Dirs BY <1>6, <1>18 DEF Asks, Created
  <2>2. v \in Mutations BY <1>14, <2>1, <2>6 DEF Mutations
  <2>3. /\ v.pc = "walk" /\ v.op = q.op /\ v.dir = q.dir /\ v.name = q.name
        /\ v.loaded = q.loaded /\ v.dst = q.dst /\ v.dname = q.dname
        /\ v.rows = rows /\ v.at = q.dst
    BY <1>14, <1>15, <2>1 DEF Mutations
  <2>4. Asks(v) BY <1>6, <2>3, AsksSame
  <2>5. RowsLoaded(q, v)
    <3>1. Loads(q, v) BY <1>2, <1>11, <2>3 DEF Loads
    <3>2. Leads(q, v) BY <1>2, <1>18, <2>3 DEF Leads
    <3> QED BY <1>4, <1>5, <1>6, <1>8, <3>1, <3>2, LoadStep
  <2>7. v.rows[v.dir] # 0 BY <1>6, <2>3, <2>5, <2>6 DEF Walked, RowsLoaded
  <2>10. Walked(v) BY <2>3, <2>5, <2>6, <2>7 DEF Walked, RowsLoaded
  <2>11. req' = [req EXCEPT ![r] = v] BY <1>16, <1>18, <2>1
  <2> QED BY <2>2, <2>4, <2>10, <2>11 DEF TakesSound, Sound
<1>19. CASE row.parent = Nowhere /\ ~(q.op = "rename" /\ q.leg = "source")
  <2>1. PICK v : v = [on EXCEPT !.pc = "plan"] OBVIOUS
  <2>2. v \in Mutations BY <1>14, <2>1 DEF Mutations
  <2>3. /\ v.pc = "plan" /\ v.op = q.op /\ v.dir = q.dir /\ v.name = q.name
        /\ v.loaded = q.loaded /\ v.dst = q.dst /\ v.dname = q.dname /\ v.rows = rows
    BY <1>14, <1>15, <2>1 DEF Mutations
  <2>4. Asks(v) BY <1>6, <2>3, AsksSame
  <2>5. RowsLoaded(q, v)
    <3>1. Loads(q, v) BY <1>2, <1>11, <2>3 DEF Loads
    <3>2. Leads(q, v) BY <1>2, <1>19, <2>3 DEF Leads
    <3> QED BY <1>4, <1>5, <1>6, <1>8, <3>1, <3>2, LoadStep
  <2>6. q.dir \in Dirs BY <1>6 DEF Asks, Created
  <2>7. v.rows[v.dir] # 0 BY <1>6, <2>3, <2>5, <2>6 DEF Walked, RowsLoaded
  <2>8. v.op = "rename" => v.rows[v.dst] # 0
    <3>1. q.op = "rename" => q.dst \in Dirs BY <1>6 DEF Asks, Created
    <3> QED BY <1>6, <1>19, <2>3, <2>5, <3>1 DEF Walked, RowsLoaded
  <2>10. Walked(v) BY <2>3, <2>5, <2>7, <2>8 DEF Walked, RowsLoaded
  <2>11. req' = [req EXCEPT ![r] = v] BY <1>16, <1>19, <2>1
  <2> QED BY <2>2, <2>4, <2>10, <2>11 DEF TakesSound, Sound
<1> QED BY <1>17, <1>18, <1>19

LEMMA EndSound == ASSUME NEW r, EndMutation(r) PROVE TakesSound(r)
<1>1. NewMutation("none") \in Mutations /\ Sound(NewMutation("none"))
  BY NewMutationType, NotWalking
<1> QED BY <1>1 DEF EndMutation, TakesSound

LEMMA RebaseSound ==
  ASSUME TypeOK, ReqInv, NEW r \in Mutators, Walking(req[r]), Rebase(r) PROVE TakesSound(r)
<1>1. PICK q : q = req[r] OBVIOUS
<1>2. q \in Mutations /\ Asks(q) BY <1>1 DEF TypeOK, ReqInv, Sound
<1>3. CASE q.tries + 1 < Attempts
  <2>1. PICK m : m = Mutation(q.op, q.dir, q.name, q.loaded, q.dst, q.dname) OBVIOUS
  <2>2. PICK v : v = [m EXCEPT !.tries = q.tries + 1] OBVIOUS
  <2>3. m \in Mutations
    <3>1. /\ q.op \in {"none", "put", "mkdir", "remove", "rename"} /\ q.dir \in Dirs \cup {Nowhere}
          /\ q.name \in Names \cup {0} /\ q.loaded \in EntryRows /\ q.dst \in Dirs \cup {Nowhere}
          /\ q.dname \in Names \cup {0}
      BY <1>2 DEF Mutations
    <3> QED BY <2>1, <3>1, MutationType
  <2>4. q.tries + 1 \in 0 .. Attempts - 1
    <3>1. q.tries \in 0 .. Attempts - 1 BY <1>2 DEF Mutations
    <3> QED BY <1>3, <3>1, Assumed
  <2>5. v \in Mutations BY <2>2, <2>3, <2>4 DEF Mutations
  <2>6. /\ m.pc = "walk" /\ m.op = q.op /\ m.dir = q.dir /\ m.name = q.name /\ m.loaded = q.loaded
        /\ m.dst = q.dst /\ m.dname = q.dname /\ m.leg = "source" /\ m.at = q.dir
        /\ m.rows = [x \in Dirs |-> 0]
    BY <2>1, MutationFields
  <2>7. /\ v.pc = "walk" /\ v.op = q.op /\ v.dir = q.dir /\ v.name = q.name /\ v.loaded = q.loaded
        /\ v.dst = q.dst /\ v.dname = q.dname /\ v.leg = "source" /\ v.at = q.dir
        /\ v.rows = [x \in Dirs |-> 0]
    BY <2>2, <2>3, <2>6 DEF Mutations
  <2>8. Asks(v) BY <1>2, <2>7, AsksSame
  <2>9. v.dir \in Dirs BY <2>8 DEF Asks, Created
  <2>10. Sound(v) BY <2>7, <2>8, <2>9, SoundFirst
  <2>11. req' = [req EXCEPT ![r] = v] BY <1>1, <1>3, <2>1, <2>2 DEF Rebase
  <2> QED BY <2>5, <2>10, <2>11 DEF TakesSound
<1>4. CASE ~(q.tries + 1 < Attempts)
  <2>1. EndMutation(r) BY <1>1, <1>4 DEF Rebase
  <2> QED BY <2>1, EndSound
<1> QED BY <1>3, <1>4

LEMMA PlanSound ==
  ASSUME TypeOK, ReqInv, NEW r \in Mutators, Plan(r) PROVE TakesSound(r)
<1>1. PICK q : q = req[r] OBVIOUS
<1>2. q.pc = "plan" BY <1>1 DEF Plan
<1>3. q \in Mutations /\ Asks(q) /\ Walked(q) BY <1>1, <1>2 DEF TypeOK, ReqInv, Sound, Walking
<1>4. CASE Rebase(r)
  <2>1. Walking(req[r]) BY <1>1, <1>2 DEF Walking
  <2> QED BY <1>4, <2>1, RebaseSound
<1>5. CASE req' = [req EXCEPT ![r].pc = "batch"]
  <2>1. PICK v : v = [q EXCEPT !.pc = "batch"] OBVIOUS
  <2>2. v \in Mutations BY <1>3, <2>1 DEF Mutations
  <2>3. /\ v.pc = "batch" /\ v.op = q.op /\ v.dir = q.dir /\ v.name = q.name
        /\ v.loaded = q.loaded /\ v.dst = q.dst /\ v.dname = q.dname /\ v.rows = q.rows
    BY <1>3, <2>1 DEF Mutations
  <2>4. Asks(v) BY <1>3, <2>3, AsksSame
  <2>5. Walked(v) BY <1>2, <1>3, <2>3 DEF Walked, RowLoaded
  <2>6. req' = [req EXCEPT ![r] = v] BY <1>1, <1>5, <2>1
  <2> QED BY <2>2, <2>4, <2>5, <2>6 DEF TakesSound, Sound
<1>6. CASE EndMutation(r) BY <1>6, EndSound
<1> QED BY <1>1, <1>4, <1>5, <1>6 DEF Plan

\* Every step of a request leaves it with a sound record.
LEMMA MutateSound ==
  ASSUME TypeOK, RowInv, ReqInv, NEW r \in Mutators, Mutate(r) PROVE TakesSound(r)
<1>1. CASE Start(r) BY <1>1, StartSound
<1>2. CASE Walk(r) BY <1>2, WalkSound
<1>3. CASE Plan(r) BY <1>3, PlanSound
<1>4. CASE RefusedBatch(r)
  <2>1. Walking(req[r]) /\ Rebase(r) BY <1>4 DEF RefusedBatch, Walking
  <2> QED BY <2>1, RebaseSound
<1>5. CASE EndMutation(r) BY <1>5, EndSound
<1>6. EndMutation(r) \/ Start(r) \/ Walk(r) \/ Plan(r) \/ RefusedBatch(r)
  BY DEF Mutate, WalkRefused, PutBatch, MkdirBatch, RemoveBatch, RenameBatch
<1> QED BY <1>1, <1>2, <1>3, <1>4, <1>5, <1>6

-----------------------------------------------------------------------------
(* What the batches write *)

BumpTo(q, x, b) ==
  /\ b \in DirectoryRows
  /\ b.state = dir[x].state /\ b.parent = dir[x].parent /\ b.name = dir[x].name
  /\ b.place = dir[x].place /\ b.driver = dir[x].driver /\ b.mount = dir[x].mount
  /\ b.acl = dir[x].acl /\ b.grants = dir[x].grants
  /\ b.rev = IF q.rows[x] = 0 THEN dir[x].rev ELSE dir[x].rev + 1
  /\ q.rows[x] = 0 => b = dir[x]

LinkTo(q, e, f) ==
  /\ f \in EntryRows
  /\ f.kind = e.kind /\ f.subject = e.subject /\ f.on = e.on
  /\ f = NoEntry <=> e = NoEntry
  /\ f # e => e.kind = "directory" /\ q.rows[e.subject] # 0

Touched(q, d, n) == (d = q.dir /\ n = q.name) \/ (q.op = "rename" /\ d = q.dst /\ n = q.dname)

\* The rest of the entries.
Elsewhere(q) ==
  \A d \in Dirs, n \in Names : ~Touched(q, d, n) => LinkTo(q, entry[d][n], entry'[d][n])

Typed == dir' \in [Dirs -> DirectoryRows] /\ entry' \in [Dirs -> [Names -> EntryRows]]

LEMMA BumpedRow ==
  ASSUME TypeOK, NEW q \in Mutations, NEW x \in Dirs PROVE BumpTo(q, x, Bumped(q)[x])
<1>1. PICK w : w = dir[x] OBVIOUS
<1>2. w \in DirectoryRows BY <1>1 DEF TypeOK
<1>3. w.rev \in Nat /\ w.rev # 0 BY <1>2 DEF DirectoryRows
<1>4. w.rev + 1 \in Nat \ {0} BY <1>3
<1>5. PICK b : b = Bumped(q)[x] OBVIOUS
<1>6. CASE q.rows[x] = 0
  <2>1. b = w BY <1>1, <1>5, <1>6 DEF Bumped
  <2> QED BY <1>1, <1>2, <1>5, <1>6, <2>1 DEF BumpTo
<1>7. CASE q.rows[x] # 0
  <2>1. b = [w EXCEPT !.rev = w.rev + 1] BY <1>1, <1>5, <1>7 DEF Bumped
  <2>2. b \in DirectoryRows BY <1>2, <1>4, <2>1 DEF DirectoryRows
  <2>3. /\ b.state = w.state /\ b.parent = w.parent /\ b.name = w.name /\ b.place = w.place
        /\ b.driver = w.driver /\ b.mount = w.mount /\ b.acl = w.acl /\ b.grants = w.grants
        /\ b.rev = w.rev + 1
    BY <1>2, <2>1 DEF DirectoryRows
  <2> QED BY <1>1, <1>5, <1>7, <2>2, <2>3 DEF BumpTo
<1> QED BY <1>6, <1>7

LEMMA RelinkedRow ==
  ASSUME TypeOK, NEW q \in Mutations, NEW d \in Dirs, NEW n \in Names
  PROVE  LinkTo(q, entry[d][n], Relinked(q)[d][n])
<1>1. PICK e : e = entry[d][n] OBVIOUS
<1>2. PICK f : f = Relinked(q)[d][n] OBVIOUS
<1>3. e \in EntryRows BY <1>1 DEF TypeOK
<1>4. NoEntry.kind = "absent" BY DEF NoEntry, Entry
<1>5. CASE e.kind = "directory" /\ q.rows[e.subject] # 0
  <2>1. f = [e EXCEPT !.rev = e.rev + 1] BY <1>1, <1>2, <1>5 DEF Relinked
  <2>2. e.rev \in Nat BY <1>3 DEF EntryRows
  <2>3. f \in EntryRows BY <1>3, <2>1, <2>2 DEF EntryRows
  <2>4. f.kind = e.kind /\ f.subject = e.subject /\ f.on = e.on BY <1>3, <2>1 DEF EntryRows
  <2>5. e # NoEntry /\ f # NoEntry BY <1>4, <1>5, <2>4
  <2> QED BY <1>1, <1>2, <1>5, <2>3, <2>4, <2>5 DEF LinkTo
<1>6. CASE ~(e.kind = "directory" /\ q.rows[e.subject] # 0)
  <2>1. f = e BY <1>1, <1>2, <1>6 DEF Relinked
  <2> QED BY <1>1, <1>2, <1>3, <2>1 DEF LinkTo
<1> QED BY <1>5, <1>6

\* The request of a batch.
LEMMA BatchRequest ==
  ASSUME TypeOK, ReqInv, NEW r \in Mutators, req[r].pc = "batch"
  PROVE  req[r] \in Mutations /\ Asks(req[r]) /\ Walked(req[r])
BY DEF TypeOK, ReqInv, Sound, Walking

PutEffect(q) ==
  /\ PutCommits(q) /\ Typed /\ Elsewhere(q)
  /\ \A x \in Dirs : BumpTo(q, x, dir'[x])
  /\ entry'[q.dir][q.name].kind = "file" /\ entry'[q.dir][q.name].subject \in Mutators
  /\ entry'[q.dir][q.name].on = q.loaded.on
  /\ mislaid' = mislaid

LEMMA PutDoes ==
  ASSUME TypeOK, ReqInv, NEW r \in Mutators, PutBatch(r) PROVE PutEffect(req[r])
<1>1. PICK q : q = req[r] OBVIOUS
<1>2. q.pc = "batch" /\ q.op = "put" /\ Commits(q) BY <1>1 DEF PutBatch
<1>3. q \in Mutations /\ Asks(q) BY <1>1, <1>2, BatchRequest
<1>4. PutCommits(q) BY <1>2 DEF Commits
<1>5. q.dir \in Dirs /\ q.name \in Names BY <1>3 DEF Asks, Created
<1>6. dir' = Bumped(q) /\ mislaid' = mislaid BY <1>1 DEF PutBatch
<1>7. \A x \in Dirs : BumpTo(q, x, dir'[x]) BY <1>3, <1>6, BumpedRow
<1>8. dir' \in [Dirs -> DirectoryRows] BY <1>6, <1>7 DEF BumpTo, Bumped
<1>9. PICK l : l = Relinked(q) OBVIOUS
<1>10. \A d \in Dirs, n \in Names : LinkTo(q, entry[d][n], l[d][n]) BY <1>3, <1>9, RelinkedRow
<1>11. l \in [Dirs -> [Names -> EntryRows]] BY <1>9, <1>10 DEF LinkTo, Relinked
<1>12. PICK e : e = [q.loaded EXCEPT !.rev = q.loaded.rev + 1] OBVIOUS
<1>13. q.loaded \in EntryRows BY <1>3 DEF Mutations
<1>14. e \in EntryRows /\ e.kind = q.loaded.kind /\ e.subject = q.loaded.subject /\ e.on = q.loaded.on
  BY <1>12, <1>13 DEF EntryRows
<1>15. entry' = [l EXCEPT ![q.dir][q.name] = e] BY <1>1, <1>9, <1>12 DEF PutBatch
<1>16. entry' \in [Dirs -> [Names -> EntryRows]] BY <1>5, <1>11, <1>14, <1>15
<1>17. entry'[q.dir][q.name] = e BY <1>5, <1>11, <1>15
<1>18. \A d \in Dirs, n \in Names : ~Touched(q, d, n) => entry'[d][n] = l[d][n]
  BY <1>5, <1>11, <1>15 DEF Touched
<1>19. Elsewhere(q) BY <1>10, <1>18 DEF Elsewhere
<1>20. q.loaded.kind = "file" /\ q.loaded.subject \in Mutators BY <1>2, <1>3 DEF Asks
<1>21. PutEffect(q) BY <1>4, <1>6, <1>7, <1>8, <1>14, <1>16, <1>17, <1>19, <1>20 DEF PutEffect, Typed
<1> QED BY <1>1, <1>21

MkdirEffect(q, c) ==
  /\ MkdirCommits(q) /\ Typed /\ Elsewhere(q)
  /\ c \in Dirs \ {Root} /\ dir[c] = Unborn
  /\ dir'[c] = Directory(q.dir, q.name, dir[q.dir].driver, "inherited")
  /\ \A x \in Dirs : x # c => BumpTo(q, x, dir'[x])
  /\ entry'[q.dir][q.name].kind = "directory" /\ entry'[q.dir][q.name].subject = c
  /\ mislaid' = mislaid

LEMMA MkdirDoes ==
  ASSUME TypeOK, ReqInv, NEW r \in Mutators, MkdirBatch(r)
  PROVE  \E c \in Dirs : MkdirEffect(req[r], c)
<1>1. PICK q : q = req[r] OBVIOUS
<1>2. q.pc = "batch" /\ q.op = "mkdir" /\ Commits(q) BY <1>1 DEF MkdirBatch
<1>3. q \in Mutations /\ Asks(q) BY <1>1, <1>2, BatchRequest
<1>4. MkdirCommits(q) BY <1>2 DEF Commits
<1>5. q.dir \in Dirs /\ q.name \in Names BY <1>3 DEF Asks, Created
<1>6. PICK c \in Dirs \ {Root} : q.loaded = Entry("directory", c, 0, Nowhere)
  BY <1>2, <1>3 DEF Asks
<1>7. q.loaded.kind = "directory" /\ q.loaded.subject = c BY <1>6 DEF Entry
<1>8. dir[c] = Unborn BY <1>4, <1>7 DEF MkdirCommits
<1>9. PICK w : w = Directory(q.dir, q.name, dir[q.dir].driver, "inherited") OBVIOUS
<1>10. dir' = [Bumped(q) EXCEPT ![c] = w] /\ mislaid' = mislaid
  BY <1>1, <1>7, <1>9 DEF MkdirBatch
<1>11. \A x \in Dirs : BumpTo(q, x, Bumped(q)[x]) BY <1>3, BumpedRow
<1>12. w \in DirectoryRows
  <2>1. dir[q.dir].driver \in Drivers \cup {Nowhere} BY <1>5 DEF TypeOK, DirectoryRows
  <2> QED BY <1>5, <1>9, <2>1, DirectoryType
<1>13. Bumped(q) \in [Dirs -> DirectoryRows] BY <1>11 DEF BumpTo, Bumped
<1>14. dir' \in [Dirs -> DirectoryRows] /\ dir'[c] = w BY <1>10, <1>12, <1>13
<1>15. \A x \in Dirs : x # c => dir'[x] = Bumped(q)[x] BY <1>10, <1>13
<1>16. \A x \in Dirs : x # c => BumpTo(q, x, dir'[x]) BY <1>11, <1>15
<1>17. PICK l : l = Relinked(q) OBVIOUS
<1>18. \A d \in Dirs, n \in Names : LinkTo(q, entry[d][n], l[d][n]) BY <1>3, <1>17, RelinkedRow
<1>19. l \in [Dirs -> [Names -> EntryRows]] BY <1>17, <1>18 DEF LinkTo, Relinked
<1>20. PICK e : e = [q.loaded EXCEPT !.rev = 1] OBVIOUS
<1>21. q.loaded \in EntryRows BY <1>3 DEF Mutations
<1>22. e \in EntryRows /\ e.kind = "directory" /\ e.subject = c
  BY <1>7, <1>20, <1>21 DEF EntryRows
<1>23. entry' = [l EXCEPT ![q.dir][q.name] = e] BY <1>1, <1>17, <1>20 DEF MkdirBatch
<1>24. entry' \in [Dirs -> [Names -> EntryRows]] BY <1>5, <1>19, <1>22, <1>23
<1>25. entry'[q.dir][q.name] = e BY <1>5, <1>19, <1>23
<1>26. \A d \in Dirs, n \in Names : ~Touched(q, d, n) => entry'[d][n] = l[d][n]
  BY <1>5, <1>19, <1>23 DEF Touched
<1>27. Elsewhere(q) BY <1>18, <1>26 DEF Elsewhere
<1>28. MkdirEffect(q, c)
  BY <1>4, <1>6, <1>8, <1>9, <1>10, <1>14, <1>16, <1>22, <1>24, <1>25, <1>27 DEF MkdirEffect, Typed
<1> QED BY <1>1, <1>28

\* c is removed.
TombTo(c, b) ==
  /\ b \in DirectoryRows
  /\ b.state = "tombstoned" /\ b.parent = dir[c].parent /\ b.name = dir[c].name
  /\ b.place = dir[c].place /\ b.driver = dir[c].driver /\ b.mount = dir[c].mount
  /\ b.acl = dir[c].acl /\ b.grants = dir[c].grants
  /\ b.rev = dir[c].rev + 1

Removed(q, x) == q.loaded.kind = "directory" /\ x = q.loaded.subject /\ Active(x)

RemoveEffect(q) ==
  /\ RemoveCommits(q) /\ Typed /\ Elsewhere(q)
  /\ \A x \in Dirs : IF Removed(q, x) THEN TombTo(x, dir'[x]) ELSE BumpTo(q, x, dir'[x])
  /\ entry'[q.dir][q.name] = NoEntry
  /\ ~mislaid' => ~mislaid /\ entry[q.dir][q.name].subject = q.loaded.subject

LEMMA RemoveDoes ==
  ASSUME TypeOK, ReqInv, NEW r \in Mutators, RemoveBatch(r) PROVE RemoveEffect(req[r])
<1>1. PICK q : q = req[r] OBVIOUS
<1>2. q.pc = "batch" /\ q.op = "remove" /\ Commits(q) BY <1>1 DEF RemoveBatch
<1>3. q \in Mutations /\ Asks(q) BY <1>1, <1>2, BatchRequest
<1>4. RemoveCommits(q) BY <1>2 DEF Commits
<1>5. q.dir \in Dirs /\ q.name \in Names BY <1>3 DEF Asks, Created
<1>6. dir' = [x \in Dirs |->
         IF Removed(q, x) THEN [dir[x] EXCEPT !.state = "tombstoned", !.rev = dir[x].rev + 1]
                          ELSE Bumped(q)[x]]
  BY <1>1 DEF RemoveBatch, Removed
<1>7. ~mislaid' => ~mislaid /\ entry[q.dir][q.name].subject = q.loaded.subject
  BY <1>1 DEF RemoveBatch, TypeOK
<1>8. ASSUME NEW x \in Dirs, ~Removed(q, x) PROVE BumpTo(q, x, dir'[x])
  <2>1. dir'[x] = Bumped(q)[x] BY <1>6, <1>8
  <2> QED BY <1>3, <2>1, BumpedRow
<1>9. ASSUME NEW x \in Dirs, Removed(q, x) PROVE TombTo(x, dir'[x])
  <2>1. PICK w : w = dir[x] OBVIOUS
  <2>2. PICK b : b = dir'[x] OBVIOUS
  <2>3. w \in DirectoryRows BY <2>1 DEF TypeOK
  <2>4. w.rev \in Nat BY <2>3 DEF DirectoryRows
  <2>5. w.rev + 1 \in Nat \ {0} BY <2>4
  <2>6. b = [w EXCEPT !.state = "tombstoned", !.rev = w.rev + 1] BY <1>6, <1>9, <2>1, <2>2
  <2>7. b \in DirectoryRows BY <2>3, <2>5, <2>6 DEF DirectoryRows
  <2>8. /\ b.state = "tombstoned" /\ b.parent = w.parent /\ b.name = w.name /\ b.place = w.place
        /\ b.driver = w.driver /\ b.mount = w.mount /\ b.acl = w.acl /\ b.grants = w.grants
        /\ b.rev = w.rev + 1
    BY <2>3, <2>6 DEF DirectoryRows
  <2> QED BY <2>1, <2>2, <2>7, <2>8 DEF TombTo
<1>10. \A x \in Dirs : dir'[x] \in DirectoryRows BY <1>8, <1>9 DEF BumpTo, TombTo
<1>11. dir' \in [Dirs -> DirectoryRows] BY <1>6, <1>10
<1>12. PICK l : l = Relinked(q) OBVIOUS
<1>13. \A d \in Dirs, n \in Names : LinkTo(q, entry[d][n], l[d][n]) BY <1>3, <1>12, RelinkedRow
<1>14. l \in [Dirs -> [Names -> EntryRows]] BY <1>12, <1>13 DEF LinkTo, Relinked
<1>15. entry' = [l EXCEPT ![q.dir][q.name] = NoEntry] BY <1>1, <1>12 DEF RemoveBatch
<1>16. entry' \in [Dirs -> [Names -> EntryRows]] BY <1>5, <1>14, <1>15, NoEntryType
<1>17. entry'[q.dir][q.name] = NoEntry BY <1>5, <1>14, <1>15
<1>18. \A d \in Dirs, n \in Names : ~Touched(q, d, n) => entry'[d][n] = l[d][n]
  BY <1>5, <1>14, <1>15 DEF Touched
<1>19. Elsewhere(q) BY <1>13, <1>18 DEF Elsewhere
<1>20. RemoveEffect(q)
  BY <1>4, <1>7, <1>8, <1>9, <1>11, <1>16, <1>17, <1>19 DEF RemoveEffect, Typed
<1> QED BY <1>1, <1>20

\* c is moved.
MoveTo(q, c, b) ==
  /\ b \in DirectoryRows
  /\ b.state = dir[c].state /\ b.parent = q.dst /\ b.name = q.dname
  /\ b.place = dir[c].place /\ b.driver = dir[c].driver /\ b.mount = dir[c].mount
  /\ b.acl = dir[c].acl /\ b.grants = dir[c].grants
  /\ b.rev = dir[c].rev + 1

Moved(q, x) == q.loaded.kind = "directory" /\ x = q.loaded.subject

RenameEffect(q) ==
  /\ RenameCommits(q) /\ Typed /\ Elsewhere(q)
  /\ \A x \in Dirs : IF Moved(q, x) THEN MoveTo(q, x, dir'[x]) ELSE BumpTo(q, x, dir'[x])
  /\ entry'[q.dir][q.name] = NoEntry
  /\ entry'[q.dst][q.dname].kind = q.loaded.kind
  /\ entry'[q.dst][q.dname].subject = q.loaded.subject
  /\ entry'[q.dst][q.dname].on = q.loaded.on
  /\ mislaid' = mislaid

LEMMA RenameDoes ==
  ASSUME TypeOK, ReqInv, NEW r \in Mutators, RenameBatch(r) PROVE RenameEffect(req[r])
<1>1. PICK q : q = req[r] OBVIOUS
<1>2. q.pc = "batch" /\ q.op = "rename" /\ Commits(q) BY <1>1 DEF RenameBatch
<1>3. q \in Mutations /\ Asks(q) BY <1>1, <1>2, BatchRequest
<1>4. RenameCommits(q) BY <1>2 DEF Commits
<1>5. q.dir \in Dirs /\ q.name \in Names /\ q.dst \in Dirs /\ q.dname \in Names
  BY <1>2, <1>3 DEF Asks, Created
<1>6. dir' = [x \in Dirs |->
         IF Moved(q, x)
           THEN [dir[x] EXCEPT !.parent = q.dst, !.name = q.dname, !.rev = dir[x].rev + 1]
           ELSE Bumped(q)[x]]
  BY <1>1 DEF RenameBatch, Moved
<1>7. mislaid' = mislaid BY DEF RenameBatch
<1>8. ASSUME NEW x \in Dirs, ~Moved(q, x) PROVE BumpTo(q, x, dir'[x])
  <2>1. dir'[x] = Bumped(q)[x] BY <1>6, <1>8
  <2> QED BY <1>3, <2>1, BumpedRow
<1>9. ASSUME NEW x \in Dirs, Moved(q, x) PROVE MoveTo(q, x, dir'[x])
  <2>1. PICK w : w = dir[x] OBVIOUS
  <2>2. PICK b : b = dir'[x] OBVIOUS
  <2>3. w \in DirectoryRows BY <2>1 DEF TypeOK
  <2>4. w.rev \in Nat BY <2>3 DEF DirectoryRows
  <2>5. w.rev + 1 \in Nat \ {0} BY <2>4
  <2>6. b = [w EXCEPT !.parent = q.dst, !.name = q.dname, !.rev = w.rev + 1]
    BY <1>6, <1>9, <2>1, <2>2
  <2>7. b \in DirectoryRows BY <1>5, <2>3, <2>5, <2>6 DEF DirectoryRows
  <2>8. /\ b.state = w.state /\ b.parent = q.dst /\ b.name = q.dname /\ b.place = w.place
        /\ b.driver = w.driver /\ b.mount = w.mount /\ b.acl = w.acl /\ b.grants = w.grants
        /\ b.rev = w.rev + 1
    BY <2>3, <2>6 DEF DirectoryRows
  <2> QED BY <2>1, <2>2, <2>7, <2>8 DEF MoveTo
<1>10. \A x \in Dirs : dir'[x] \in DirectoryRows BY <1>8, <1>9 DEF BumpTo, MoveTo
<1>11. dir' \in [Dirs -> DirectoryRows] BY <1>6, <1>10
<1>12. PICK l : l = Relinked(q) OBVIOUS
<1>13. \A d \in Dirs, n \in Names : LinkTo(q, entry[d][n], l[d][n]) BY <1>3, <1>12, RelinkedRow
<1>14. l \in [Dirs -> [Names -> EntryRows]] BY <1>12, <1>13 DEF LinkTo, Relinked
<1>15. PICK e : e = [q.loaded EXCEPT !.rev = q.loaded.rev + 1] OBVIOUS
<1>16. q.loaded \in EntryRows BY <1>3 DEF Mutations
<1>17. e \in EntryRows /\ e.kind = q.loaded.kind /\ e.subject = q.loaded.subject /\ e.on = q.loaded.on
  BY <1>15, <1>16 DEF EntryRows
<1>18. entry' = [l EXCEPT ![q.dir][q.name] = NoEntry, ![q.dst][q.dname] = e]
  BY <1>1, <1>12, <1>15 DEF RenameBatch
<1>19. PICK k : k = [l EXCEPT ![q.dir][q.name] = NoEntry] OBVIOUS
<1>20. k \in [Dirs -> [Names -> EntryRows]] BY <1>5, <1>14, <1>19, NoEntryType
<1>21. entry' = [k EXCEPT ![q.dst][q.dname] = e] BY <1>18, <1>19
<1>22. entry' \in [Dirs -> [Names -> EntryRows]] BY <1>5, <1>17, <1>20, <1>21
<1>23. entry'[q.dst][q.dname] = e BY <1>5, <1>20, <1>21
<1>24. ~(q.dir = q.dst /\ q.name = q.dname)
  BY <1>2, <1>3, <1>4 DEF Asks, RenameCommits, SourceIsLoaded
<1>25. entry'[q.dir][q.name] = NoEntry BY <1>5, <1>14, <1>19, <1>20, <1>21, <1>24
<1>26. \A d \in Dirs, n \in Names : ~Touched(q, d, n) => entry'[d][n] = l[d][n]
  BY <1>2, <1>5, <1>14, <1>19, <1>20, <1>21 DEF Touched
<1>27. Elsewhere(q) BY <1>13, <1>26 DEF Elsewhere
<1>28. RenameEffect(q)
  BY <1>4, <1>7, <1>8, <1>9, <1>11, <1>17, <1>22, <1>23, <1>25, <1>27 DEF RenameEffect, Typed
<1> QED BY <1>1, <1>28

-----------------------------------------------------------------------------
(* The steps of a policy *)

\* The revision a client has is no newer than the directory's; while it is
\* current, so are the rows the client has seen.
PolicyListed(q) ==
  /\ q.kind # "none" /\ Created(q.dir) /\ q.rev <= Revision(q.kind, q.dir)
  /\ q.pc \in {"listed", "batch"} /\ q.rev = Revision(q.kind, q.dir)
       => q.listed = PolicyRows(q.kind, q.dir)

PolicySound(q) ==
  /\ q.pc = "new" => q.kind # "none"
  /\ q.pc \in {"list", "listed", "batch"} => PolicyListed(q)
  /\ q.pc = "batch" => q.want \in IF q.kind = "placement" THEN Drivers ELSE Subjects
  /\ q.pc = "committed" => q.was = q.listed

PolInv == \A p \in Policies : PolicySound(pol[p])

\* A mount that is about to be made has another driver than its parent.
MountPlanned(q) ==
  q.pc = "batch" /\ q.kind = "placement" /\ q.mount = "mount" /\ Active(q.dir)
                 /\ dir[q.dir].place = q.rev
    => q.dir # Root /\ dir[dir[q.dir].parent].driver # q.want

TakesListed(p) ==
  \E v \in PolicyRequests :
    pol' = [pol EXCEPT ![p] = v] /\ PolicySound(v) /\ MountPlanned(v)

LEMMA PolicyFields ==
  ASSUME NEW pc, NEW kind, NEW d, NEW rev, NEW v, v = Policy(pc, kind, d, rev)
  PROVE  /\ v.pc = pc /\ v.kind = kind /\ v.dir = d /\ v.rev = rev /\ v.listed = {} /\ v.was = {}
         /\ v.want = Nowhere /\ v.mount = "inherited"
BY DEF Policy

LEMMA RevisionType ==
  ASSUME TypeOK, NEW kind, NEW d \in Dirs PROVE Revision(kind, d) \in Nat
<1>1. dir[d] \in DirectoryRows BY DEF TypeOK
<1>2. dir[d].place \in Nat /\ dir[d].acl \in Nat BY <1>1 DEF DirectoryRows
<1> QED BY <1>2 DEF Revision

LEMMA PolicyRowsType ==
  ASSUME TypeOK, NEW kind, NEW d \in Dirs PROVE PolicyRows(kind, d) \in RowSets
<1>1. dir[d] \in DirectoryRows BY DEF TypeOK
<1>2. /\ dir[d].driver \in Drivers \cup {Nowhere} /\ dir[d].mount \in {"default", "mount", "inherited"}
      /\ dir[d].grants \in SUBSET Subjects
  BY <1>1 DEF DirectoryRows
<1>3. <<dir[d].driver, dir[d].mount>> \in (Drivers \cup {Nowhere}) \X {"default", "mount", "inherited"}
  BY <1>2
<1>4. {<<dir[d].driver, dir[d].mount>>} \in RowSets BY <1>3 DEF RowSets
<1>5. dir[d].grants \in RowSets BY <1>2 DEF RowSets
<1> QED BY <1>4, <1>5 DEF PolicyRows

LEMMA ListSound ==
  ASSUME TypeOK, PolInv, NEW p \in Policies, NEW d \in Dirs, List(p, d) PROVE TakesListed(p)
<1>1. PICK kind : kind = pol[p].kind /\ kind # "none" BY DEF List, PolInv, PolicySound
<1>2. PICK v : v = Policy("list", kind, d, Revision(kind, d)) OBVIOUS
<1>3. kind \in {"none", "placement", "acl"} BY <1>1 DEF TypeOK, PolicyRequests
<1>4. Revision(kind, d) \in Nat BY RevisionType
<1>5. v \in PolicyRequests BY <1>2, <1>3, <1>4, PolicyType
<1>6. v.pc = "list" /\ v.kind = kind /\ v.dir = d /\ v.rev = Revision(kind, d)
  BY <1>2, PolicyFields
<1>7. Created(d) BY DEF List, Active, Created
<1>8. v.rev <= Revision(v.kind, v.dir) BY <1>4, <1>6
<1>9. PolicyListed(v) BY <1>1, <1>6, <1>7, <1>8 DEF PolicyListed
<1>10. PolicySound(v) /\ MountPlanned(v) BY <1>6, <1>9 DEF PolicySound, MountPlanned
<1>11. pol' = [pol EXCEPT ![p] = v] BY <1>1, <1>2 DEF List
<1> QED BY <1>5, <1>10, <1>11 DEF TakesListed

LEMMA ListRowsSound ==
  ASSUME TypeOK, PolInv, NEW p \in Policies, ListRows(p) PROVE TakesListed(p)
<1>1. PICK q : q = pol[p] OBVIOUS
<1>2. q \in PolicyRequests BY <1>1 DEF TypeOK
<1>3. q.pc = "list" BY <1>1 DEF ListRows
<1>4. PolicyListed(q) BY <1>1, <1>3 DEF PolInv, PolicySound
<1>5. q.dir \in Dirs BY <1>4 DEF PolicyListed, Created
<1>6. PICK rows : rows = PolicyRows(q.kind, q.dir) OBVIOUS
<1>7. rows \in RowSets BY <1>5, <1>6, PolicyRowsType
<1>8. PICK v : v = [q EXCEPT !.pc = "listed", !.listed = rows] OBVIOUS
<1>9. v \in PolicyRequests BY <1>2, <1>7, <1>8 DEF PolicyRequests
<1>10. v.pc = "listed" /\ v.kind = q.kind /\ v.dir = q.dir /\ v.rev = q.rev /\ v.listed = rows
  BY <1>2, <1>8 DEF PolicyRequests
<1>11. PolicyListed(v) BY <1>4, <1>6, <1>10 DEF PolicyListed
<1>12. PolicySound(v) /\ MountPlanned(v) BY <1>10, <1>11 DEF PolicySound, MountPlanned
<1>13. pol' = [pol EXCEPT ![p] = v] BY <1>1, <1>6, <1>8 DEF ListRows
<1> QED BY <1>9, <1>12, <1>13 DEF TakesListed

LEMMA StartPlacementSound ==
  ASSUME TypeOK, RowInv, PolInv, NEW p \in Policies, NEW driver \in Drivers, StartPlacement(p, driver)
  PROVE  TakesListed(p)
<1>1. PICK q : q = pol[p] OBVIOUS
<1>2. q \in PolicyRequests BY <1>1 DEF TypeOK
<1>3. q.pc = "listed" /\ q.kind = "placement" BY <1>1 DEF StartPlacement
<1>4. PolicyListed(q) BY <1>1, <1>3 DEF PolInv, PolicySound
<1>5. q.dir \in Dirs BY <1>4 DEF PolicyListed, Created
<1>6. PICK m : m = Desired(q.dir, driver) OBVIOUS
<1>7. m \in {"default", "mount", "inherited"} BY <1>1, <1>6 DEF StartPlacement, Desired
<1>8. PICK v : v = [q EXCEPT !.pc = "batch", !.want = driver, !.mount = m] OBVIOUS
<1>9. v \in PolicyRequests BY <1>2, <1>7, <1>8 DEF PolicyRequests
<1>10. /\ v.pc = "batch" /\ v.kind = q.kind /\ v.dir = q.dir /\ v.rev = q.rev /\ v.listed = q.listed
       /\ v.want = driver /\ v.mount = m
  BY <1>2, <1>8 DEF PolicyRequests
<1>11. PolicyListed(v) BY <1>3, <1>4, <1>10 DEF PolicyListed
<1>12. PolicySound(v) BY <1>3, <1>10, <1>11 DEF PolicySound
<1>13. MountPlanned(v)
  <2>1. ASSUME m = "mount" PROVE q.dir # Root /\ dir[dir[q.dir].parent].driver # driver
    BY <1>6, <2>1 DEF Desired, RowInv
  <2> QED BY <1>10, <2>1 DEF MountPlanned
<1>14. pol' = [pol EXCEPT ![p] = v] BY <1>1, <1>6, <1>8 DEF StartPlacement
<1> QED BY <1>9, <1>12, <1>13, <1>14 DEF TakesListed

LEMMA StartAclSound ==
  ASSUME TypeOK, PolInv, NEW p \in Policies, NEW s \in Subjects, StartAcl(p, s)
  PROVE  TakesListed(p)
<1>1. PICK q : q = pol[p] OBVIOUS
<1>2. q \in PolicyRequests BY <1>1 DEF TypeOK
<1>3. q.pc = "listed" /\ q.kind = "acl" BY <1>1 DEF StartAcl
<1>4. PolicyListed(q) BY <1>1, <1>3 DEF PolInv, PolicySound
<1>8. PICK v : v = [q EXCEPT !.pc = "batch", !.want = s] OBVIOUS
<1>9. v \in PolicyRequests BY <1>2, <1>8 DEF PolicyRequests
<1>10. /\ v.pc = "batch" /\ v.kind = q.kind /\ v.dir = q.dir /\ v.rev = q.rev /\ v.listed = q.listed
       /\ v.want = s
  BY <1>2, <1>8 DEF PolicyRequests
<1>11. PolicyListed(v) BY <1>3, <1>4, <1>10 DEF PolicyListed
<1>12. PolicySound(v) /\ MountPlanned(v) BY <1>3, <1>10, <1>11 DEF PolicySound, MountPlanned
<1>14. pol' = [pol EXCEPT ![p] = v] BY <1>1, <1>8 DEF StartAcl
<1> QED BY <1>9, <1>12, <1>14 DEF TakesListed

\* A batch that commits finds the rows its client has listed.
LEMMA CommittedSound ==
  ASSUME TypeOK, PolInv, NEW p \in Policies, pol[p].pc = "batch", IntentHolds(pol[p]), Committed(p)
  PROVE  TakesListed(p)
<1>1. PICK q : q = pol[p] OBVIOUS
<1>2. q \in PolicyRequests BY <1>1 DEF TypeOK
<1>3. PolicyListed(q) BY <1>1 DEF PolInv, PolicySound
<1>4. q.listed = PolicyRows(q.kind, q.dir) BY <1>1, <1>3 DEF PolicyListed, IntentHolds
<1>5. q.listed \in RowSets BY <1>2 DEF PolicyRequests
<1>6. PICK v : v = [q EXCEPT !.pc = "committed", !.was = q.listed] OBVIOUS
<1>7. v \in PolicyRequests BY <1>2, <1>5, <1>6 DEF PolicyRequests
<1>8. v.pc = "committed" /\ v.was = v.listed BY <1>2, <1>6 DEF PolicyRequests
<1>9. PolicySound(v) /\ MountPlanned(v) BY <1>8 DEF PolicySound, MountPlanned
<1>10. pol' = [pol EXCEPT ![p] = v] BY <1>1, <1>4, <1>6 DEF Committed
<1> QED BY <1>7, <1>9, <1>10 DEF TakesListed

LEMMA RefusedPolicySound ==
  ASSUME NEW p \in Policies, RefusedPolicy(p) PROVE TakesListed(p)
<1>1. PICK v : v = NewPolicy("none") OBVIOUS
<1>2. v \in PolicyRequests /\ v.pc = "done" BY <1>1, NewPolicyType
<1>3. PolicySound(v) /\ MountPlanned(v) BY <1>2 DEF PolicySound, MountPlanned
<1>4. pol' = [pol EXCEPT ![p] = v] BY <1>1 DEF RefusedPolicy
<1> QED BY <1>2, <1>3, <1>4 DEF TakesListed

\* The rows a committed policy writes.
PlacementEffect(q) ==
  /\ IntentHolds(q) /\ MountHolds(q) /\ Typed /\ entry' = entry /\ mislaid' = mislaid
  /\ \A x \in Dirs : x # q.dir => dir'[x] = dir[x]
  /\ LET b == dir'[q.dir]
         w == dir[q.dir] IN
     /\ b.state = w.state /\ b.parent = w.parent /\ b.name = w.name /\ b.rev = w.rev
     /\ b.acl = w.acl /\ b.grants = w.grants
     /\ b.driver = q.want /\ b.mount = q.mount /\ b.place = w.place + 2

LEMMA PlacementDoes ==
  ASSUME TypeOK, PolInv, NEW p \in Policies, PlacementBatch(p) PROVE PlacementEffect(pol[p])
<1>1. PICK q : q = pol[p] OBVIOUS
<1>2. q \in PolicyRequests BY <1>1 DEF TypeOK
<1>3. q.pc = "batch" /\ q.kind = "placement" /\ IntentHolds(q) /\ MountHolds(q)
  BY <1>1 DEF PlacementBatch
<1>4. q.dir \in Dirs /\ q.want \in Drivers
  BY <1>1, <1>3 DEF PolInv, PolicySound, PolicyListed, Created
<1>5. PICK w : w = dir[q.dir] OBVIOUS
<1>6. w \in DirectoryRows BY <1>4, <1>5 DEF TypeOK
<1>7. PICK b : b = [w EXCEPT !.driver = q.want, !.mount = q.mount, !.place = w.place + 2] OBVIOUS
<1>8. w.place + 2 \in Nat
  <2>1. w.place \in Nat BY <1>6 DEF DirectoryRows
  <2> QED BY <2>1
<1>9. q.mount \in {"default", "mount", "inherited"} BY <1>2 DEF PolicyRequests
<1>10. b \in DirectoryRows BY <1>4, <1>6, <1>7, <1>8, <1>9 DEF DirectoryRows
<1>11. /\ b.state = w.state /\ b.parent = w.parent /\ b.name = w.name /\ b.rev = w.rev
       /\ b.acl = w.acl /\ b.grants = w.grants
       /\ b.driver = q.want /\ b.mount = q.mount /\ b.place = w.place + 2
  BY <1>6, <1>7 DEF DirectoryRows
<1>12. dir \in [Dirs -> DirectoryRows] BY DEF TypeOK
<1>13. dir' = [dir EXCEPT ![q.dir] = b]
  BY <1>1, <1>4, <1>5, <1>7, <1>12 DEF PlacementBatch
<1>14. dir' \in [Dirs -> DirectoryRows] /\ dir'[q.dir] = b
  BY <1>4, <1>10, <1>12, <1>13
<1>15. \A x \in Dirs : x # q.dir => dir'[x] = dir[x] BY <1>12, <1>13
<1>16. entry' = entry /\ mislaid' = mislaid BY DEF PlacementBatch
<1>17. entry' \in [Dirs -> [Names -> EntryRows]] BY <1>16 DEF TypeOK
<1>18. PlacementEffect(q)
  BY <1>3, <1>5, <1>11, <1>14, <1>15, <1>16, <1>17 DEF PlacementEffect, Typed
<1> QED BY <1>1, <1>18

AclEffect(q) ==
  /\ Typed /\ entry' = entry /\ mislaid' = mislaid
  /\ \A x \in Dirs : x # q.dir => dir'[x] = dir[x]
  /\ LET b == dir'[q.dir]
         w == dir[q.dir] IN
     /\ b.state = w.state /\ b.parent = w.parent /\ b.name = w.name /\ b.rev = w.rev
     /\ b.place = w.place /\ b.driver = w.driver /\ b.mount = w.mount /\ b.acl = w.acl + 1

LEMMA AclDoes ==
  ASSUME TypeOK, PolInv, NEW p \in Policies, AclBatch(p) PROVE AclEffect(pol[p])
<1>1. PICK q : q = pol[p] OBVIOUS
<1>2. q \in PolicyRequests BY <1>1 DEF TypeOK
<1>3. q.pc = "batch" /\ q.kind = "acl" BY <1>1 DEF AclBatch
<1>4. q.dir \in Dirs /\ q.want \in Subjects
  BY <1>1, <1>3 DEF PolInv, PolicySound, PolicyListed, Created
<1>5. PICK w : w = dir[q.dir] OBVIOUS
<1>6. w \in DirectoryRows BY <1>4, <1>5 DEF TypeOK
<1>7. PICK g : g = IF q.want \in w.grants THEN w.grants \ {q.want} ELSE w.grants \cup {q.want} OBVIOUS
<1>8. w.acl \in Nat /\ w.grants \in SUBSET Subjects BY <1>6 DEF DirectoryRows
<1>9. g \in SUBSET Subjects BY <1>4, <1>7, <1>8
<1>10. PICK b : b = [w EXCEPT !.grants = g, !.acl = w.acl + 1] OBVIOUS
<1>20. w.acl + 1 \in Nat BY <1>8
<1>11. b \in DirectoryRows BY <1>6, <1>9, <1>10, <1>20 DEF DirectoryRows
<1>12. /\ b.state = w.state /\ b.parent = w.parent /\ b.name = w.name /\ b.rev = w.rev
       /\ b.place = w.place /\ b.driver = w.driver /\ b.mount = w.mount /\ b.acl = w.acl + 1
  BY <1>6, <1>10 DEF DirectoryRows
<1>13. dir \in [Dirs -> DirectoryRows] BY DEF TypeOK
<1>14. dir' = [dir EXCEPT ![q.dir] = b]
  BY <1>1, <1>4, <1>5, <1>7, <1>10, <1>13 DEF AclBatch
<1>15. dir' \in [Dirs -> DirectoryRows] /\ dir'[q.dir] = b
  BY <1>4, <1>11, <1>13, <1>14
<1>16. \A x \in Dirs : x # q.dir => dir'[x] = dir[x] BY <1>13, <1>14
<1>17. entry' = entry /\ mislaid' = mislaid BY DEF AclBatch
<1>18. entry' \in [Dirs -> [Names -> EntryRows]] BY <1>17 DEF TypeOK
<1>19. AclEffect(q) BY <1>5, <1>12, <1>15, <1>16, <1>17, <1>18 DEF AclEffect, Typed
<1> QED BY <1>1, <1>19

-----------------------------------------------------------------------------
(* A step, as what it writes *)

Batch(q) == q \in Mutations /\ q.pc = "batch" /\ Asks(q) /\ Walked(q)
PolicyBatch(q) == q \in PolicyRequests /\ q.pc = "batch" /\ PolicySound(q) /\ (~mislaid => MountPlanned(q))

Puts(q) == Batch(q) /\ q.op = "put" /\ PutEffect(q)
Mkdirs(q, c) == Batch(q) /\ q.op = "mkdir" /\ MkdirEffect(q, c)
Removes(q) == Batch(q) /\ q.op = "remove" /\ RemoveEffect(q)
Renames(q) == Batch(q) /\ q.op = "rename" /\ RenameEffect(q)
Places(q) == PolicyBatch(q) /\ q.kind = "placement" /\ PlacementEffect(q)
Grants(q) == PolicyBatch(q) /\ q.kind = "acl" /\ AclEffect(q)
Still == dir' = dir /\ entry' = entry /\ mislaid' = mislaid

Writes ==
  \/ Still
  \/ \E q : Puts(q) \/ (\E c \in Dirs : Mkdirs(q, c)) \/ Removes(q) \/ Renames(q)
  \/ \E q : Places(q) \/ Grants(q)

\* MountsSound of one directory.
MountOk(d) ==
  /\ dir[d].mount = "default" => d = Root
  /\ dir[d].mount = "inherited" => d # Root /\ dir[d].driver = dir[dir[d].parent].driver
  /\ dir[d].mount = "mount" =>
       /\ d # Root /\ dir[d].driver # dir[dir[d].parent].driver
       /\ \A x \in Above(Parents, d) \ {d} : dir[x].mount # "mount"

Mounted == \A d \in Dirs : Active(d) => MountOk(d)

MountInv == ~mislaid => Mounted /\ \A p \in Policies : MountPlanned(pol[p])

LEMMA MutateWrites ==
  ASSUME TypeOK, RowInv, ReqInv, NEW r \in Mutators, Mutate(r)
  PROVE  Writes /\ TakesSound(r) /\ pol' = pol /\ rd' = rd
<1>1. TakesSound(r) BY MutateSound
<1>2. pol' = pol /\ rd' = rd
  BY DEF Mutate, Start, Walk, WalkRefused, Plan, PutBatch, MkdirBatch, RemoveBatch, RenameBatch,
         RefusedBatch
<1>3. CASE PutBatch(r)
  <2>1. PutEffect(req[r]) BY <1>3, PutDoes
  <2>2. req[r].pc = "batch" /\ req[r].op = "put" BY <1>3 DEF PutBatch
  <2>3. Puts(req[r]) BY <2>1, <2>2, BatchRequest DEF Puts, Batch
  <2> QED BY <1>1, <1>2, <2>3 DEF Writes
<1>4. CASE MkdirBatch(r)
  <2>1. PICK c \in Dirs : MkdirEffect(req[r], c) BY <1>4, MkdirDoes
  <2>2. req[r].pc = "batch" /\ req[r].op = "mkdir" BY <1>4 DEF MkdirBatch
  <2>3. Mkdirs(req[r], c) BY <2>1, <2>2, BatchRequest DEF Mkdirs, Batch
  <2> QED BY <1>1, <1>2, <2>3 DEF Writes
<1>5. CASE RemoveBatch(r)
  <2>1. RemoveEffect(req[r]) BY <1>5, RemoveDoes
  <2>2. req[r].pc = "batch" /\ req[r].op = "remove" BY <1>5 DEF RemoveBatch
  <2>3. Removes(req[r]) BY <2>1, <2>2, BatchRequest DEF Removes, Batch
  <2> QED BY <1>1, <1>2, <2>3 DEF Writes
<1>6. CASE RenameBatch(r)
  <2>1. RenameEffect(req[r]) BY <1>6, RenameDoes
  <2>2. req[r].pc = "batch" /\ req[r].op = "rename" BY <1>6 DEF RenameBatch
  <2>3. Renames(req[r]) BY <2>1, <2>2, BatchRequest DEF Renames, Batch
  <2> QED BY <1>1, <1>2, <2>3 DEF Writes
<1>7. CASE Start(r) \/ Walk(r) \/ WalkRefused(r) \/ Plan(r) \/ RefusedBatch(r)
  <2>1. Still BY <1>7 DEF Start, Walk, WalkRefused, Plan, RefusedBatch, Still
  <2> QED BY <1>1, <1>2, <2>1 DEF Writes
<1> QED BY <1>3, <1>4, <1>5, <1>6, <1>7 DEF Mutate

LEMMA ReplaceWrites ==
  ASSUME TypeOK, RowInv, PolInv, MountInv, NEW p \in Policies, Replace(p)
  PROVE  Writes /\ TakesListed(p) /\ req' = req /\ rd' = rd
<1>1. req' = req /\ rd' = rd
  BY DEF Replace, List, ListRows, StartPlacement, StartAcl, PlacementBatch, AclBatch, RefusedPolicy
<1>2. pol[p] \in PolicyRequests /\ PolicySound(pol[p]) /\ (~mislaid => MountPlanned(pol[p]))
  BY DEF TypeOK, PolInv, MountInv
<1>3. CASE PlacementBatch(p)
  <2>1. PlacementEffect(pol[p]) BY <1>3, PlacementDoes
  <2>2. /\ pol[p].pc = "batch" /\ pol[p].kind = "placement" /\ IntentHolds(pol[p]) /\ Committed(p)
    BY <1>3 DEF PlacementBatch
  <2>3. Places(pol[p]) BY <1>2, <2>1, <2>2 DEF Places, PolicyBatch
  <2>4. TakesListed(p) BY <2>2, CommittedSound
  <2> QED BY <1>1, <2>3, <2>4 DEF Writes
<1>4. CASE AclBatch(p)
  <2>1. AclEffect(pol[p]) BY <1>4, AclDoes
  <2>2. /\ pol[p].pc = "batch" /\ pol[p].kind = "acl" /\ IntentHolds(pol[p]) /\ Committed(p)
    BY <1>4 DEF AclBatch
  <2>3. Grants(pol[p]) BY <1>2, <2>1, <2>2 DEF Grants, PolicyBatch
  <2>4. TakesListed(p) BY <2>2, CommittedSound
  <2> QED BY <1>1, <2>3, <2>4 DEF Writes
<1>5. ASSUME NEW d \in Dirs, List(p, d) PROVE Still /\ TakesListed(p)
  <2>1. Still BY <1>5 DEF List, Still
  <2> QED BY <1>5, <2>1, ListSound
<1>6. ASSUME ListRows(p) PROVE Still /\ TakesListed(p)
  <2>1. Still BY <1>6 DEF ListRows, Still
  <2> QED BY <1>6, <2>1, ListRowsSound
<1>7. ASSUME NEW driver \in Drivers, StartPlacement(p, driver) PROVE Still /\ TakesListed(p)
  <2>1. Still BY <1>7 DEF StartPlacement, Still
  <2> QED BY <1>7, <2>1, StartPlacementSound
<1>8. ASSUME NEW s \in Subjects, StartAcl(p, s) PROVE Still /\ TakesListed(p)
  <2>1. Still BY <1>8 DEF StartAcl, Still
  <2> QED BY <1>8, <2>1, StartAclSound
<1>9. ASSUME RefusedPolicy(p) PROVE Still /\ TakesListed(p)
  <2>1. Still BY <1>9 DEF RefusedPolicy, Still
  <2> QED BY <1>9, <2>1, RefusedPolicySound
<1>10. PlacementBatch(p) \/ AclBatch(p) \/ (Still /\ TakesListed(p))
  BY <1>5, <1>6, <1>7, <1>8, <1>9 DEF Replace
<1> QED BY <1>1, <1>3, <1>4, <1>10 DEF Writes

LEMMA InspectWrites ==
  ASSUME NEW x \in Readers, Inspect(x) PROVE Still /\ Writes /\ req' = req /\ pol' = pol
BY DEF Inspect, ReadRow, ReadPath, ReadPlacement, ReadMount, MountGone, ReadEntries, ReadFence,
       PageCheck, PageRows, PageFence, ReadStep, Still, Writes

-----------------------------------------------------------------------------
(* Rows only grow: a revision that stands still keeps what it covers *)

Grown(d) ==
  LET b == dir'[d]
      w == dir[d] IN
  /\ b.state # "none" /\ (w.state = "tombstoned" => b.state = "tombstoned")
  /\ w.rev <= b.rev
  /\ b.rev = w.rev => b.state = w.state /\ b.parent = w.parent /\ b.name = w.name
  /\ w.place <= b.place /\ (b.place = w.place => b.driver = w.driver /\ b.mount = w.mount)
  /\ w.acl <= b.acl /\ (b.acl = w.acl => b.grants = w.grants)

Grows == \A d \in Dirs : Created(d) => Grown(d)

LEMMA RowNumbers ==
  ASSUME TypeOK, NEW d \in Dirs
  PROVE  dir[d].rev \in Nat /\ dir[d].rev # 0 /\ dir[d].place \in Nat /\ dir[d].acl \in Nat
<1>1. dir[d] \in DirectoryRows BY DEF TypeOK
<1> QED BY <1>1 DEF DirectoryRows

LEMMA UnbornState == Unborn.state = "none"
BY DEF Unborn, Directory

LEMMA BumpGrows ==
  ASSUME TypeOK, NEW q, NEW d \in Dirs, Created(d), BumpTo(q, d, dir'[d]) PROVE Grown(d)
BY RowNumbers DEF BumpTo, Grown, Created

LEMMA WritesGrow == ASSUME TypeOK, RowInv, Writes PROVE Grows
<1> SUFFICES ASSUME NEW d \in Dirs, Created(d) PROVE Grown(d) BY DEF Grows
<1>1. dir[d].rev \in Nat /\ dir[d].place \in Nat /\ dir[d].acl \in Nat BY RowNumbers
<1>2. CASE Still BY <1>1, <1>2 DEF Still, Grown, Created
<1>3. ASSUME NEW q, Puts(q) PROVE Grown(d)
  BY <1>3, BumpGrows DEF Puts, PutEffect
<1>4. ASSUME NEW q, NEW c \in Dirs, Mkdirs(q, c) PROVE Grown(d)
  <2>1. d # c BY <1>4, UnbornState DEF Mkdirs, MkdirEffect, Created
  <2> QED BY <1>4, <2>1, BumpGrows DEF Mkdirs, MkdirEffect
<1>5. ASSUME NEW q, Removes(q) PROVE Grown(d)
  <2>1. CASE Removed(q, d)
    <3>1. TombTo(d, dir'[d]) BY <1>5, <2>1 DEF Removes, RemoveEffect
    <3> QED BY <1>1, <3>1 DEF TombTo, Grown
  <2>2. CASE ~Removed(q, d) BY <1>5, <2>2, BumpGrows DEF Removes, RemoveEffect
  <2> QED BY <2>1, <2>2
<1>6. ASSUME NEW q, Renames(q) PROVE Grown(d)
  <2>1. CASE Moved(q, d)
    <3>1. MoveTo(q, d, dir'[d]) BY <1>6, <2>1 DEF Renames, RenameEffect
    <3> QED BY <1>1, <3>1 DEF MoveTo, Grown, Created
  <2>2. CASE ~Moved(q, d) BY <1>6, <2>2, BumpGrows DEF Renames, RenameEffect
  <2> QED BY <2>1, <2>2
<1>7. ASSUME NEW q, Places(q) PROVE Grown(d)
  <2>1. CASE d = q.dir BY <1>1, <1>7, <2>1 DEF Places, PlacementEffect, Grown, Created
  <2>2. CASE d # q.dir BY <1>1, <1>7, <2>2 DEF Places, PlacementEffect, Grown, Created
  <2> QED BY <2>1, <2>2
<1>8. ASSUME NEW q, Grants(q) PROVE Grown(d)
  <2>1. CASE d = q.dir BY <1>1, <1>8, <2>1 DEF Grants, AclEffect, Grown, Created
  <2>2. CASE d # q.dir BY <1>1, <1>8, <2>2 DEF Grants, AclEffect, Grown, Created
  <2> QED BY <2>1, <2>2
<1> QED BY <1>2, <1>3, <1>4, <1>5, <1>6, <1>7, <1>8 DEF Writes

LEMMA CreatedKept == ASSUME Grows, NEW d, Created(d) PROVE Created(d)'
BY DEF Grows, Grown, Created

LEMMA GoodKept == ASSUME Grows, NEW e, GoodEntry(e) PROVE GoodEntry(e)'
<1>1. CASE e.kind = "directory" /\ e.subject # Root /\ Created(e.subject)
  <2>1. PICK c : c = e.subject OBVIOUS
  <2>2. Created(c)' BY <1>1, <2>1, CreatedKept
  <2> QED BY <1>1, <2>1, <2>2 DEF GoodEntry, Created
<1> QED BY <1>1 DEF GoodEntry

LEMMA AsksKept == ASSUME Grows, NEW q, Asks(q) PROVE Asks(q)'
<1>1. PICK d, e, s : d = q.dir /\ e = q.dst /\ s = q.loaded OBVIOUS
<1>2. Created(d)' BY <1>1, CreatedKept DEF Asks
<1>3. q.op = "rename" => Created(e)' BY <1>1, CreatedKept DEF Asks
<1>4. q.op \in {"remove", "rename"} => GoodEntry(s)' BY <1>1, GoodKept DEF Asks
<1> QED BY <1>1, <1>2, <1>3, <1>4 DEF Asks, Created, GoodEntry

LEMMA RowLoadedKept ==
  ASSUME TypeOK, dir' \in [Dirs -> DirectoryRows], Grows, NEW q \in Mutations, NEW x \in Dirs,
         RowLoaded(q, x)
  PROVE  RowLoaded(q, x)'
<1>1. Created(x) /\ q.rows[x] <= dir[x].rev BY DEF RowLoaded
<1>2. Grown(x) BY <1>1 DEF Grows
<1>3. dir[x].rev \in Nat BY RowNumbers
<1>4. dir'[x].rev \in Nat BY DEF DirectoryRows
<1>5. q.rows[x] \in Nat BY DEF Mutations
<1>6. dir[x].rev <= dir'[x].rev BY <1>2 DEF Grown
<1>7. q.rows[x] <= dir'[x].rev BY <1>1, <1>3, <1>4, <1>5, <1>6
<1>8. Created(x)' BY <1>1, CreatedKept
<1>9. ASSUME q.rows[x] = dir'[x].rev
      PROVE  /\ dir'[x].state = "active"
             /\ \/ dir'[x].parent = Nowhere
                \/ q.rows[dir'[x].parent] # 0
                \/ q.pc = "walk" /\ dir'[x].parent = q.at
  <2>1. dir'[x].rev = dir[x].rev BY <1>1, <1>3, <1>4, <1>5, <1>6, <1>9
  <2>2. dir'[x].state = dir[x].state /\ dir'[x].parent = dir[x].parent BY <1>2, <2>1 DEF Grown
  <2>3. q.rows[x] = dir[x].rev BY <1>9, <2>1
  <2> QED BY <2>2, <2>3 DEF RowLoaded, Active
<1> QED BY <1>7, <1>8, <1>9 DEF RowLoaded, Active

LEMMA SoundKept ==
  ASSUME TypeOK, dir' \in [Dirs -> DirectoryRows], Grows, NEW q \in Mutations, Sound(q)
  PROVE  Sound(q)'
<1> SUFFICES ASSUME Walking(q) PROVE Asks(q)' /\ Walked(q)' BY DEF Sound, Walking
<1>1. Asks(q) /\ Walked(q) BY DEF Sound
<1>2. Asks(q)' BY <1>1, AsksKept
<1>3. \A x \in Dirs : q.rows[x] # 0 => RowLoaded(q, x)'
  BY <1>1, RowLoadedKept DEF Walked
<1>4. Walked(q)' BY <1>1, <1>3 DEF Walked
<1> QED BY <1>2, <1>4

LEMMA PolicyKept ==
  ASSUME TypeOK, dir' \in [Dirs -> DirectoryRows], Grows, NEW q \in PolicyRequests, PolicySound(q)
  PROVE  PolicySound(q)'
<1>1. ASSUME q.pc \in {"list", "listed", "batch"} PROVE PolicyListed(q)'
  <2>1. PolicyListed(q) BY <1>1 DEF PolicySound
  <2>2. PICK d : d = q.dir OBVIOUS
  <2>3. Created(d) /\ d \in Dirs BY <2>1, <2>2 DEF PolicyListed, Created
  <2>4. Created(d)' /\ Grown(d) BY <2>3, CreatedKept DEF Grows
  <2>5. PICK k : k = q.kind OBVIOUS
  <2>6. k \in {"placement", "acl"} BY <2>1, <2>5 DEF PolicyListed, PolicyRequests
  <2>7. Revision(k, d) \in Nat /\ q.rev \in Nat BY <2>3, RevisionType DEF PolicyRequests
  <2>8. Revision(k, d)' \in Nat
    <3>1. dir'[d] \in DirectoryRows BY <2>3
    <3>2. dir'[d].place \in Nat /\ dir'[d].acl \in Nat BY <3>1 DEF DirectoryRows
    <3> QED BY <3>2 DEF Revision
  <2>9. Revision(k, d) <= Revision(k, d)' BY <2>4 DEF Grown, Revision
  <2>10. Revision(k, d) = Revision(k, d)' => PolicyRows(k, d) = PolicyRows(k, d)'
    BY <2>4, <2>6 DEF Grown, Revision, PolicyRows
  <2>11. q.rev <= Revision(k, d) BY <2>1, <2>2, <2>5 DEF PolicyListed
  <2>12. q.rev <= Revision(k, d)' BY <2>7, <2>8, <2>9, <2>11
  <2>13. q.rev = Revision(k, d)' => q.rev = Revision(k, d) BY <2>7, <2>8, <2>9, <2>11
  <2>14. q.pc \in {"listed", "batch"} /\ q.rev = Revision(k, d)' => q.listed = PolicyRows(k, d)'
    BY <2>1, <2>2, <2>5, <2>10, <2>13 DEF PolicyListed
  <2> QED BY <2>1, <2>2, <2>4, <2>5, <2>12, <2>14 DEF PolicyListed, Created, Revision, PolicyRows
<1> QED BY <1>1 DEF PolicySound

-----------------------------------------------------------------------------
(* The rows keep their invariant *)

LEMMA GoodLink ==
  ASSUME Grows, NEW q, NEW e, NEW f, GoodEntry(e), LinkTo(q, e, f) PROVE GoodEntry(f)'
<1>1. GoodEntry(e)' BY GoodKept
<1>2. GoodEntry(f)' BY <1>1 DEF LinkTo, GoodEntry
<1> QED BY <1>2

\* The request of a batch holds no rows of directories that do not exist.
LEMMA BatchCreated ==
  ASSUME NEW q, Batch(q)
  PROVE  /\ \A x \in Dirs : q.rows[x] # 0 => Created(x)
         /\ q.dir \in Dirs /\ q.name \in Names
         /\ q.op = "rename" => q.dst \in Dirs /\ q.dname \in Names
         /\ q.op = "remove" /\ q.loaded.kind = "directory" =>
              q.loaded.subject # Root /\ Created(q.loaded.subject)
         /\ q.op = "rename" =>
              \/ q.loaded.kind = "file" /\ q.loaded.subject \in Mutators
              \/ q.loaded.kind = "directory" /\ q.loaded.subject # Root /\ Created(q.loaded.subject)
<1>1. NoEntry.kind = "absent" BY DEF NoEntry, Entry
<1> QED BY <1>1 DEF Batch, Asks, Walked, RowLoaded, GoodEntry, Created

\* A directory that does not exist after a step was not touched by it.
LEMMA UnbornKept ==
  ASSUME TypeOK, RowInv, Writes, NEW d \in Dirs, ~Created(d)'
  PROVE  dir'[d] = Unborn /\ HasNoEntry(d)'
<1>1. ~Created(d) BY WritesGrow, CreatedKept
<1>2. dir[d] = Unborn /\ \A n \in Names : entry[d][n] = NoEntry BY <1>1 DEF RowInv, HasNoEntry
<1>3. SUFFICES dir'[d] = dir[d] /\ \A n \in Names : entry'[d][n] = NoEntry
  BY <1>2 DEF HasNoEntry
<1>4. ASSUME NEW q, Batch(q), BumpTo(q, d, dir'[d]) PROVE dir'[d] = dir[d]
  BY <1>1, <1>4, BatchCreated DEF BumpTo
<1>5. ASSUME NEW q, Batch(q), Elsewhere(q) PROVE \A n \in Names : entry'[d][n] = NoEntry
  <2>1. d # q.dir /\ (q.op = "rename" => d # q.dst) BY <1>1, <1>5 DEF Batch, Asks
  <2>2. \A n \in Names : LinkTo(q, entry[d][n], entry'[d][n]) BY <1>5, <2>1 DEF Elsewhere, Touched
  <2> QED BY <1>2, <2>2 DEF LinkTo
<1>6. CASE Still BY <1>2, <1>6 DEF Still
<1>7. ASSUME NEW q, Puts(q) PROVE dir'[d] = dir[d] /\ \A n \in Names : entry'[d][n] = NoEntry
  BY <1>4, <1>5, <1>7 DEF Puts, PutEffect
<1>8. ASSUME NEW q, NEW c \in Dirs, Mkdirs(q, c)
      PROVE  dir'[d] = dir[d] /\ \A n \in Names : entry'[d][n] = NoEntry
  <2>1. d # c BY <1>8 DEF Mkdirs, MkdirEffect, Created, Directory
  <2> QED BY <1>4, <1>5, <1>8, <2>1 DEF Mkdirs, MkdirEffect
<1>9. ASSUME NEW q, Removes(q) PROVE dir'[d] = dir[d] /\ \A n \in Names : entry'[d][n] = NoEntry
  <2>1. ~Removed(q, d) BY <1>1 DEF Removed, Active, Created
  <2> QED BY <1>4, <1>5, <1>9, <2>1 DEF Removes, RemoveEffect
<1>10. ASSUME NEW q, Renames(q) PROVE dir'[d] = dir[d] /\ \A n \in Names : entry'[d][n] = NoEntry
  <2>1. ~Moved(q, d) BY <1>1, <1>10, BatchCreated DEF Moved, Renames
  <2> QED BY <1>4, <1>5, <1>10, <2>1 DEF Renames, RenameEffect
<1>11. ASSUME NEW q, Places(q) PROVE dir'[d] = dir[d] /\ \A n \in Names : entry'[d][n] = NoEntry
  <2>1. d # q.dir BY <1>1, <1>11 DEF Places, PolicyBatch, PolicySound, PolicyListed
  <2> QED BY <1>2, <1>11, <2>1 DEF Places, PlacementEffect
<1>12. ASSUME NEW q, Grants(q) PROVE dir'[d] = dir[d] /\ \A n \in Names : entry'[d][n] = NoEntry
  <2>1. d # q.dir BY <1>1, <1>12 DEF Grants, PolicyBatch, PolicySound, PolicyListed
  <2> QED BY <1>2, <1>12, <2>1 DEF Grants, AclEffect
<1> QED BY <1>6, <1>7, <1>8, <1>9, <1>10, <1>11, <1>12 DEF Writes

LEMMA EntriesGood ==
  ASSUME TypeOK, RowInv, Writes, NEW d \in Dirs, NEW n \in Names PROVE GoodEntry(entry[d][n])'
<1>1. Grows BY WritesGrow
<1>2. GoodEntry(entry[d][n]) BY DEF RowInv
<1>3. PICK f : f = entry'[d][n] OBVIOUS
<1>4. SUFFICES GoodEntry(f)' BY <1>3 DEF GoodEntry, Created
<1>5. ASSUME entry' = entry PROVE GoodEntry(f)'
  <2>1. PICK e : e = entry[d][n] OBVIOUS
  <2>2. GoodEntry(e)' BY <1>1, <1>2, <2>1, GoodKept
  <2> QED BY <1>3, <1>5, <2>1, <2>2
<1>6. ASSUME NEW q, Elsewhere(q), ~Touched(q, d, n) PROVE GoodEntry(f)'
  <2>1. PICK e : e = entry[d][n] OBVIOUS
  <2>2. LinkTo(q, e, f) BY <1>3, <1>6, <2>1 DEF Elsewhere
  <2> QED BY <1>1, <1>2, <2>1, <2>2, GoodLink
<1>7. ASSUME f = NoEntry PROVE GoodEntry(f)' BY <1>7 DEF GoodEntry
<1>8. ASSUME NEW q, Puts(q) PROVE GoodEntry(f)'
  <2>1. CASE Touched(q, d, n)
    <3>1. f.kind = "file" /\ f.subject \in Mutators
      BY <1>3, <1>8, <2>1 DEF Puts, PutEffect, Touched
    <3> QED BY <3>1 DEF GoodEntry
  <2> QED BY <1>6, <1>8, <2>1 DEF Puts, PutEffect
<1>9. ASSUME NEW q, NEW c \in Dirs, Mkdirs(q, c) PROVE GoodEntry(f)'
  <2>1. CASE Touched(q, d, n)
    <3>1. f.kind = "directory" /\ f.subject = c /\ c # Root
      BY <1>3, <1>9, <2>1 DEF Mkdirs, MkdirEffect, Touched
    <3>2. dir'[c].state # "none" BY <1>9 DEF Mkdirs, MkdirEffect, Directory
    <3> QED BY <3>1, <3>2 DEF GoodEntry, Created
  <2> QED BY <1>6, <1>9, <2>1 DEF Mkdirs, MkdirEffect
<1>10. ASSUME NEW q, Removes(q) PROVE GoodEntry(f)'
  <2>1. CASE Touched(q, d, n) BY <1>3, <1>7, <1>10, <2>1 DEF Removes, RemoveEffect, Touched
  <2> QED BY <1>6, <1>10, <2>1 DEF Removes, RemoveEffect
<1>11. ASSUME NEW q, Renames(q) PROVE GoodEntry(f)'
  <2>1. CASE d = q.dir /\ n = q.name BY <1>3, <1>7, <1>11, <2>1 DEF Renames, RenameEffect
  <2>2. CASE d = q.dst /\ n = q.dname
    <3>1. f.kind = q.loaded.kind /\ f.subject = q.loaded.subject
      BY <1>3, <1>11, <2>2 DEF Renames, RenameEffect
    <3>2. PICK e : e = q.loaded OBVIOUS
    <3>3. GoodEntry(e) /\ e # NoEntry BY <1>11, <3>2 DEF Renames, Batch, Asks
    <3>4. GoodEntry(e)' BY <1>1, <3>3, GoodKept
    <3> QED BY <3>1, <3>2, <3>3, <3>4 DEF GoodEntry
  <2>3. CASE ~(d = q.dir /\ n = q.name) /\ ~(d = q.dst /\ n = q.dname)
    BY <1>6, <1>11, <2>3 DEF Renames, RenameEffect, Touched
  <2> QED BY <2>1, <2>2, <2>3
<1>12. Still => entry' = entry BY DEF Still
<1>13. (\E q : Places(q) \/ Grants(q)) => entry' = entry
  BY DEF Places, Grants, PlacementEffect, AclEffect
<1> QED BY <1>5, <1>8, <1>9, <1>10, <1>11, <1>12, <1>13 DEF Writes

\* Columns of a directory after a step.
ColumnsGood(d) ==
  /\ d # Root => dir'[d].parent \in Dirs /\ dir'[d].name \in Names
  /\ dir'[d].driver \in Drivers
  /\ d = Root => dir'[d].state = "active" /\ dir'[d].parent = Nowhere

LEMMA WritesColumns ==
  ASSUME TypeOK, RowInv, Writes, NEW d \in Dirs, Created(d)' PROVE ColumnsGood(d)
<1>1. ASSUME Created(d)
      PROVE  /\ d # Root => dir[d].parent \in Dirs /\ dir[d].name \in Names
             /\ dir[d].driver \in Drivers
             /\ d = Root => dir[d].state = "active" /\ dir[d].parent = Nowhere
  BY <1>1 DEF RowInv, Active
<1>2. ASSUME Created(d), dir'[d].state = dir[d].state, dir'[d].parent = dir[d].parent,
             dir'[d].name = dir[d].name, dir'[d].driver = dir[d].driver
      PROVE  ColumnsGood(d)
  BY <1>1, <1>2 DEF ColumnsGood
<1>3. ASSUME NEW q, BumpTo(q, d, dir'[d]) PROVE ColumnsGood(d)
  <2>1. Created(d) BY <1>3 DEF BumpTo, Created
  <2> QED BY <1>2, <1>3, <2>1 DEF BumpTo
<1>4. CASE Still BY <1>2, <1>4 DEF Still, Created
<1>5. ASSUME NEW q, Puts(q) PROVE ColumnsGood(d) BY <1>3, <1>5 DEF Puts, PutEffect
<1>6. ASSUME NEW q, NEW c \in Dirs, Mkdirs(q, c) PROVE ColumnsGood(d)
  <2>1. CASE d = c
    <3>1. dir'[d].parent = q.dir /\ dir'[d].name = q.name /\ dir'[d].driver = dir[q.dir].driver
      BY <1>6, <2>1 DEF Mkdirs, MkdirEffect, Directory
    <3>2. d # Root BY <1>6, <2>1 DEF Mkdirs, MkdirEffect
    <3>3. Created(q.dir) /\ q.dir \in Dirs /\ q.name \in Names BY <1>6 DEF Mkdirs, Batch, Asks, Created
    <3>4. dir[q.dir].driver \in Drivers BY <3>3 DEF RowInv
    <3> QED BY <3>1, <3>2, <3>3, <3>4 DEF ColumnsGood
  <2> QED BY <1>3, <1>6, <2>1 DEF Mkdirs, MkdirEffect
<1>7. ASSUME NEW q, Removes(q) PROVE ColumnsGood(d)
  <2>1. CASE Removed(q, d)
    <3>1. TombTo(d, dir'[d]) BY <1>7, <2>1 DEF Removes, RemoveEffect
    <3>2. d # Root BY <1>7, <2>1, BatchCreated DEF Removes, Removed
    <3>3. Created(d) BY <2>1 DEF Removed, Active, Created
    <3> QED BY <1>1, <3>1, <3>2, <3>3 DEF TombTo, ColumnsGood
  <2> QED BY <1>3, <1>7, <2>1 DEF Removes, RemoveEffect
<1>8. ASSUME NEW q, Renames(q) PROVE ColumnsGood(d)
  <2>1. CASE Moved(q, d)
    <3>1. MoveTo(q, d, dir'[d]) BY <1>8, <2>1 DEF Renames, RenameEffect
    <3>2. d # Root /\ Created(d)
      BY <1>8, <2>1, BatchCreated DEF Renames, Moved
    <3>3. q.dst \in Dirs /\ q.dname \in Names BY <1>8, BatchCreated DEF Renames
    <3> QED BY <1>1, <3>1, <3>2, <3>3 DEF MoveTo, ColumnsGood
  <2> QED BY <1>3, <1>8, <2>1 DEF Renames, RenameEffect
<1>9. ASSUME NEW q, Places(q) PROVE ColumnsGood(d)
  <2>1. CASE d = q.dir
    <3>1. /\ dir'[d].state = dir[d].state /\ dir'[d].parent = dir[d].parent
          /\ dir'[d].name = dir[d].name /\ dir'[d].driver = q.want
      BY <1>9, <2>1 DEF Places, PlacementEffect
    <3>2. q.want \in Drivers BY <1>9 DEF Places, PolicyBatch, PolicySound
    <3>3. Created(d) BY <3>1 DEF Created
    <3> QED BY <1>1, <3>1, <3>2, <3>3 DEF ColumnsGood
  <2>2. CASE d # q.dir
    <3>1. dir'[d] = dir[d] BY <1>9, <2>2 DEF Places, PlacementEffect
    <3> QED BY <1>2, <3>1 DEF Created
  <2> QED BY <2>1, <2>2
<1>10. ASSUME NEW q, Grants(q) PROVE ColumnsGood(d)
  <2>1. /\ dir'[d].state = dir[d].state /\ dir'[d].parent = dir[d].parent
        /\ dir'[d].name = dir[d].name /\ dir'[d].driver = dir[d].driver
    BY <1>10 DEF Grants, AclEffect
  <2>2. Created(d) BY <2>1 DEF Created
  <2> QED BY <1>2, <2>1, <2>2
<1> QED BY <1>4, <1>5, <1>6, <1>7, <1>8, <1>9, <1>10 DEF Writes

LEMMA RowStep == ASSUME TypeOK, RowInv, Writes PROVE RowInv'
<1>1. Created(Root)'
  <2>1. Created(Root) BY Assumed DEF RowInv, Active, Created
  <2> QED BY <2>1, WritesGrow, CreatedKept
<1>2. Active(Root)' /\ dir'[Root].parent = Nowhere
  BY <1>1, WritesColumns, Assumed DEF ColumnsGood, Active
<1>3. \A d \in Dirs \ {Root} : Created(d)' => dir'[d].parent \in Dirs /\ dir'[d].name \in Names
  BY WritesColumns DEF ColumnsGood
<1>4. \A d \in Dirs : Created(d)' => dir'[d].driver \in Drivers BY WritesColumns DEF ColumnsGood
<1>5. \A d \in Dirs : ~Created(d)' => dir'[d] = Unborn /\ HasNoEntry(d)' BY UnbornKept
<1>6. \A d \in Dirs, n \in Names : GoodEntry(entry[d][n])' BY EntriesGood
<1> QED BY <1>2, <1>3, <1>4, <1>5, <1>6 DEF RowInv

-----------------------------------------------------------------------------
(* The tree *)

\* An active directory has an active parent, which holds its entry.
Linked ==
  \A d \in Dirs \ {Root} : Active(d) =>
    Active(dir[d].parent) /\ entry[dir[d].parent][dir[d].name].subject = d

\* From an active directory the parents lead to the root.
Rooted == \A d \in Dirs : Active(d) => Root \in Above(Parents, d)

\* An entry lies in an active directory; that of a directory is its place.
Placed ==
  \A d \in Dirs, n \in Names : entry[d][n] # NoEntry =>
    /\ Active(d)
    /\ entry[d][n].kind = "directory" =>
         /\ Active(entry[d][n].subject)
         /\ dir[entry[d][n].subject].parent = d /\ dir[entry[d][n].subject].name = n

ShapeInv == ~mislaid => Linked /\ Rooted /\ Placed

LEMMA ParentsType == ASSUME TypeOK PROVE Parents \in ParentMaps
BY DEF TypeOK, DirectoryRows, Parents, ParentMaps

LEMMA ParentsTypeNext == ASSUME Typed PROVE Parents' \in ParentMaps
<1>1. \A d \in Dirs : dir'[d].parent \in Dirs \cup {Nowhere} BY DEF Typed, DirectoryRows
<1> QED BY <1>1 DEF Parents, ParentMaps

\* The rows of a batch that commits are a branch, or two, up to the root.
LEMMA BatchBranch ==
  ASSUME TypeOK, NEW q, Batch(q), RowsCurrent(q)
  PROVE  /\ LoadedDirs(q) \in SUBSET Dirs /\ Closed(Parents, LoadedDirs(q))
         /\ \A x \in LoadedDirs(q) : Active(x)
         /\ q.dir \in LoadedDirs(q)
         /\ q.op = "rename" => q.dst \in LoadedDirs(q)
<1>1. \A x \in LoadedDirs(q) : x \in Dirs /\ q.rows[x] # 0 /\ q.rows[x] = dir[x].rev
  BY DEF LoadedDirs, RowsCurrent
<1>2. \A x \in LoadedDirs(q) : RowLoaded(q, x) BY <1>1 DEF Batch, Walked
<1>3. \A x \in LoadedDirs(q) : Active(x) BY <1>1, <1>2 DEF RowLoaded
<1>4. ASSUME NEW x \in LoadedDirs(q) PROVE Parents[x] \in LoadedDirs(q) \cup {Nowhere}
  <2>1. dir[x].parent = Nowhere \/ q.rows[dir[x].parent] # 0 BY <1>1, <1>2 DEF RowLoaded, Batch
  <2>2. dir[x].parent \in Dirs \cup {Nowhere} BY <1>1 DEF TypeOK, DirectoryRows
  <2> QED BY <1>1, <2>1, <2>2 DEF Parents, LoadedDirs
<1>5. q.dir \in Dirs /\ (q.op = "rename" => q.dst \in Dirs) BY BatchCreated
<1>6. q.rows[q.dir] # 0 /\ (q.op = "rename" => q.rows[q.dst] # 0) BY DEF Batch, Walked
<1> QED BY <1>1, <1>3, <1>4, <1>5, <1>6 DEF Closed, LoadedDirs

LEMMA DirectoryEntry ==
  ASSUME RowInv, NEW d \in Dirs, NEW n \in Names, entry[d][n].subject \in Dirs
  PROVE  entry[d][n].kind = "directory" /\ entry[d][n] # NoEntry
<1>1. GoodEntry(entry[d][n]) BY DEF RowInv
<1>2. NoEntry.subject = Nowhere BY DEF NoEntry, Entry
<1> QED BY <1>1, <1>2, Assumed DEF GoodEntry

\* Where a batch leaves the parents and the states alone.
SameTree ==
  \A x \in Dirs : /\ dir'[x].state = dir[x].state /\ dir'[x].parent = dir[x].parent
                  /\ dir'[x].name = dir[x].name

LEMMA SameTreeSteps ==
  /\ Still => SameTree
  /\ \A q : Puts(q) => SameTree
  /\ \A q : Places(q) => SameTree
  /\ \A q : Grants(q) => SameTree
<1>1. Still => SameTree BY DEF Still, SameTree
<1>2. \A q : Puts(q) => SameTree BY DEF Puts, PutEffect, BumpTo, SameTree
<1>3. ASSUME NEW q, Places(q) PROVE SameTree
  <2>1. ASSUME NEW x \in Dirs
        PROVE  /\ dir'[x].state = dir[x].state /\ dir'[x].parent = dir[x].parent
               /\ dir'[x].name = dir[x].name
    <3>1. CASE x = q.dir BY <1>3, <3>1 DEF Places, PlacementEffect
    <3>2. CASE x # q.dir BY <1>3, <3>2 DEF Places, PlacementEffect
    <3> QED BY <3>1, <3>2
  <2> QED BY <2>1 DEF SameTree
<1>4. ASSUME NEW q, Grants(q) PROVE SameTree
  <2>1. ASSUME NEW x \in Dirs
        PROVE  /\ dir'[x].state = dir[x].state /\ dir'[x].parent = dir[x].parent
               /\ dir'[x].name = dir[x].name
    <3>1. CASE x = q.dir BY <1>4, <3>1 DEF Grants, AclEffect
    <3>2. CASE x # q.dir BY <1>4, <3>2 DEF Grants, AclEffect
    <3> QED BY <3>1, <3>2
  <2> QED BY <2>1 DEF SameTree
<1> QED BY <1>1, <1>2, <1>3, <1>4

LEMMA SameTreeParents == ASSUME SameTree PROVE Parents' = Parents
BY DEF SameTree, Parents

LEMMA RootedMkdir ==
  ASSUME TypeOK, RowInv, Rooted, NEW q, NEW c \in Dirs, Mkdirs(q, c) PROVE Rooted'
<1> SUFFICES ASSUME NEW d \in Dirs, dir'[d].state = "active" PROVE Root \in Above(Parents', d)
  BY DEF Rooted, Active
<1>1. SUFFICES ASSUME NEW S \in SUBSET Dirs, Closed(Parents', S), d \in S PROVE Root \in S
  BY Assumed DEF Above
<1>2. Parents[c] = Nowhere BY DEF Mkdirs, MkdirEffect, Parents, Unborn, Directory
<1>3. Parents'[c] = q.dir BY DEF Mkdirs, MkdirEffect, Parents, Directory
<1>4. \A x \in Dirs : x # c => Parents'[x] = Parents[x] BY DEF Mkdirs, MkdirEffect, BumpTo, Parents
<1>5. Closed(Parents, S)
  BY <1>1, <1>2, <1>4 DEF Closed
<1>6. CASE d # c
  <2>1. Active(d) BY <1>6 DEF Mkdirs, MkdirEffect, BumpTo, Active
  <2> QED BY <1>1, <1>5, <2>1 DEF Rooted, Above
<1>7. CASE d = c
  <2>1. q.dir \in Dirs /\ Active(q.dir) BY DEF Mkdirs, MkdirEffect, MkdirCommits, Active
  <2>2. q.dir \in S \cup {Nowhere} BY <1>1, <1>3, <1>7 DEF Closed
  <2>3. q.dir \in S BY <2>1, <2>2, Assumed
  <2> QED BY <1>5, <2>1, <2>3 DEF Rooted, Above
<1> QED BY <1>6, <1>7

\* No rename closes a cycle: what lies above the destination is a branch that
\* does not hold the moved directory.
LEMMA RootedRename ==
  ASSUME TypeOK, RowInv, Rooted, NEW q, Renames(q) PROVE Rooted'
<1> SUFFICES ASSUME NEW d \in Dirs, dir'[d].state = "active" PROVE Root \in Above(Parents', d)
  BY DEF Rooted, Active
<1>1. SUFFICES ASSUME NEW S \in SUBSET Dirs, Closed(Parents', S), d \in S PROVE Root \in S
  BY Assumed DEF Above
<1>2. Parents \in ParentMaps BY ParentsType
<1>3. Active(d) BY DEF Renames, RenameEffect, BumpTo, MoveTo, Active
<1>4. \A x \in Dirs : ~Moved(q, x) => Parents'[x] = Parents[x]
  BY DEF Renames, RenameEffect, BumpTo, Parents
<1>5. \A x \in Dirs : Moved(q, x) => Parents'[x] = q.dst
  BY DEF Renames, RenameEffect, MoveTo, Parents
<1>6. RowsCurrent(q) BY DEF Renames, RenameEffect, RenameCommits
<1>7. Active(q.dst) /\ q.dst \in Dirs BY <1>6, BatchBranch DEF Renames
<1>8. CASE \A x \in S : ~Moved(q, x)
  <2>1. Closed(Parents, S) BY <1>1, <1>4, <1>8 DEF Closed
  <2> QED BY <1>1, <1>3, <2>1 DEF Rooted, Above
<1>9. ASSUME NEW c \in S, Moved(q, c) PROVE Root \in S
  <2>1. q.dst \in S
    <3>1. q.dst \in S \cup {Nowhere} BY <1>1, <1>5, <1>9 DEF Closed
    <3> QED BY <1>7, <3>1, Assumed
  <2>2. PICK A : A = Above(Parents, q.dst) OBVIOUS
  <2>3. c \notin A
    BY <1>9, <2>2, AncestorsAbove DEF Renames, RenameEffect, RenameCommits, MoveAllowed, Moved
  <2>4. A \in SUBSET Dirs /\ Closed(Parents, A) /\ q.dst \in A
    BY <1>2, <1>7, <2>2, AboveClosed, AboveSelf DEF Above
  <2>5. \A x \in A : Parents'[x] = Parents[x] BY <1>4, <1>9, <2>3, <2>4 DEF Moved
  <2>6. Closed(Parents, S \cap A) BY <1>1, <2>4, <2>5 DEF Closed
  <2>7. S \cap A \in SUBSET Dirs /\ q.dst \in S \cap A BY <2>1, <2>4
  <2>8. Root \in Above(Parents, q.dst) BY <1>7 DEF Rooted
  <2>9. Root \in S \cap A BY <2>6, <2>7, <2>8 DEF Above
  <2> QED BY <2>9
<1> QED BY <1>8, <1>9

LEMMA RootedStep ==
  ASSUME TypeOK, RowInv, Rooted, Writes PROVE Rooted'
<1>1. ASSUME SameTree PROVE Rooted'
  BY <1>1, SameTreeParents DEF SameTree, Rooted, Active
<1>2. ASSUME NEW q, Removes(q) PROVE Rooted'
  <2>1. Parents' = Parents
    <3>1. \A x \in Dirs : dir'[x].parent = dir[x].parent
      BY <1>2 DEF Removes, RemoveEffect, TombTo, BumpTo
    <3> QED BY <3>1 DEF Parents
  <2>2. \A x \in Dirs : dir'[x].state = "active" => dir[x].state = "active"
    BY <1>2 DEF Removes, RemoveEffect, TombTo, BumpTo
  <2> QED BY <2>1, <2>2 DEF Rooted, Active
<1> QED BY <1>1, <1>2, SameTreeSteps, RootedMkdir, RootedRename DEF Writes

\* An active directory other than the root, its parent and its entry.
LEMMA LinkedAt ==
  ASSUME RowInv, Linked, NEW d \in Dirs \ {Root}, Active(d)
  PROVE  /\ dir[d].parent \in Dirs /\ dir[d].name \in Names /\ Active(dir[d].parent)
         /\ entry[dir[d].parent][dir[d].name].subject = d
         /\ entry[dir[d].parent][dir[d].name].kind = "directory"
         /\ entry[dir[d].parent][dir[d].name] # NoEntry
<1>1. dir[d].parent \in Dirs /\ dir[d].name \in Names BY DEF RowInv, Created, Active
<1>2. Active(dir[d].parent) /\ entry[dir[d].parent][dir[d].name].subject = d BY DEF Linked
<1> QED BY <1>1, <1>2, DirectoryEntry

LEMMA LinkedStep ==
  ASSUME TypeOK, RowInv, Linked, Placed, Writes, ~mislaid' PROVE Linked'
<1> SUFFICES ASSUME NEW d \in Dirs \ {Root}, dir'[d].state = "active"
             PROVE  /\ Active(dir[d].parent)'
                    /\ entry'[dir'[d].parent][dir'[d].name].subject = d
  BY DEF Linked, Active
<1> DEFINE Good == /\ dir'[d].parent \in Dirs /\ dir'[dir'[d].parent].state = "active"
                   /\ entry'[dir'[d].parent][dir'[d].name].subject = d
<1>1. SUFFICES Good BY DEF Active
<1>2. PICK p, n : p = dir[d].parent /\ n = dir[d].name OBVIOUS
<1>3. ASSUME Active(d)
      PROVE  /\ p \in Dirs /\ n \in Names /\ Active(p) /\ entry[p][n].subject = d
             /\ entry[p][n].kind = "directory" /\ entry[p][n] # NoEntry
  BY <1>2, <1>3, LinkedAt
<1>4. ASSUME Active(d), dir'[d].parent = p, dir'[d].name = n, dir'[p].state = "active",
             entry'[p][n].subject = d
      PROVE  Good
  BY <1>3, <1>4
<1> HIDE DEF Good
<1>5. ASSUME SameTree, entry' = entry PROVE Good
  <2>1. Active(d) BY <1>5 DEF SameTree, Active
  <2>2. dir'[d].parent = p /\ dir'[d].name = n BY <1>2, <1>5 DEF SameTree
  <2>3. dir'[p].state = "active" BY <1>3, <1>5, <2>1 DEF SameTree, Active
  <2> QED BY <1>3, <1>4, <1>5, <2>1, <2>2, <2>3
<1>6. ASSUME NEW q, Puts(q) PROVE Good
  <2>1. SameTree BY <1>6, SameTreeSteps
  <2>2. Active(d) BY <2>1 DEF SameTree, Active
  <2>3. dir'[d].parent = p /\ dir'[d].name = n BY <1>2, <2>1 DEF SameTree
  <2>4. dir'[p].state = "active" BY <1>3, <2>1, <2>2 DEF SameTree, Active
  <2>5. entry[q.dir][q.name].kind # "directory"
    BY <1>6 DEF Puts, PutEffect, PutCommits, Plannable
  <2>6. ~Touched(q, p, n) BY <1>3, <1>6, <2>2, <2>5 DEF Touched, Puts
  <2>7. LinkTo(q, entry[p][n], entry'[p][n])
    BY <1>3, <1>6, <2>2, <2>6 DEF Puts, PutEffect, Elsewhere
  <2> QED BY <1>3, <1>4, <2>2, <2>3, <2>4, <2>7 DEF LinkTo
<1>7. ASSUME NEW q, NEW c \in Dirs, Mkdirs(q, c) PROVE Good
  <2>1. CASE d = c
    <3>1. dir'[d].parent = q.dir /\ dir'[d].name = q.name
      BY <1>7, <2>1 DEF Mkdirs, MkdirEffect, Directory
    <3>2. Active(q.dir) /\ q.dir # c
      BY <1>7, UnbornState DEF Mkdirs, MkdirEffect, MkdirCommits, Active
    <3>3. dir'[q.dir].state = "active" BY <1>7, <3>2 DEF Mkdirs, MkdirEffect, BumpTo, Active
    <3>4. entry'[q.dir][q.name].subject = d BY <1>7, <2>1 DEF Mkdirs, MkdirEffect
    <3>5. q.dir \in Dirs BY <3>2 DEF Active
    <3> QED BY <3>1, <3>3, <3>4, <3>5 DEF Good
  <2>2. CASE d # c
    <3>1. BumpTo(q, d, dir'[d]) BY <1>7, <2>2 DEF Mkdirs, MkdirEffect
    <3>2. Active(d) /\ dir'[d].parent = p /\ dir'[d].name = n BY <1>2, <3>1 DEF BumpTo, Active
    <3>3. p # c BY <1>3, <1>7, <3>2, UnbornState DEF Mkdirs, MkdirEffect, Active
    <3>4. BumpTo(q, p, dir'[p]) BY <1>3, <1>7, <3>2, <3>3 DEF Mkdirs, MkdirEffect
    <3>5. dir'[p].state = "active" BY <1>3, <3>2, <3>4 DEF BumpTo, Active
    <3>6. ~Touched(q, p, n)
      BY <1>2, <1>7 DEF Touched, Mkdirs, MkdirEffect, MkdirCommits, NameFree
    <3>7. LinkTo(q, entry[p][n], entry'[p][n])
      BY <1>3, <1>7, <3>2, <3>6 DEF Mkdirs, MkdirEffect, Elsewhere
    <3> QED BY <1>3, <1>4, <3>2, <3>5, <3>7 DEF LinkTo
  <2> QED BY <2>1, <2>2
<1>8. ASSUME NEW q, Removes(q) PROVE Good
  <2>1. ~Removed(q, d) BY <1>8 DEF Removes, RemoveEffect, TombTo
  <2>2. BumpTo(q, d, dir'[d]) BY <1>8, <2>1 DEF Removes, RemoveEffect
  <2>3. Active(d) /\ dir'[d].parent = p /\ dir'[d].name = n BY <1>2, <2>2 DEF BumpTo, Active
  <2>4. ~Removed(q, p)
    BY <1>3, <1>8, <2>3 DEF Removed, Removes, RemoveEffect, RemoveCommits, HasNoEntry
  <2>5. BumpTo(q, p, dir'[p]) BY <1>3, <1>8, <2>3, <2>4 DEF Removes, RemoveEffect
  <2>6. dir'[p].state = "active" BY <1>3, <2>3, <2>5 DEF BumpTo, Active
  <2>7. ~Touched(q, p, n)
    <3>1. ASSUME p = q.dir, n = q.name PROVE FALSE
      <4>1. q.loaded.subject = d BY <1>3, <1>8, <2>3, <3>1 DEF Removes, RemoveEffect
      <4>2. q.loaded # NoEntry /\ GoodEntry(q.loaded) BY <1>8 DEF Removes, Batch, Asks
      <4>3. q.loaded.kind = "directory" BY <4>1, <4>2, Assumed DEF GoodEntry
      <4> QED BY <2>1, <2>3, <4>1, <4>3 DEF Removed
    <3> QED BY <1>8, <3>1 DEF Touched, Removes
  <2>8. LinkTo(q, entry[p][n], entry'[p][n])
    BY <1>3, <1>8, <2>3, <2>7 DEF Removes, RemoveEffect, Elsewhere
  <2> QED BY <1>3, <1>4, <2>3, <2>6, <2>8 DEF LinkTo
<1>9. ASSUME NEW q, Renames(q) PROVE Good
  <2>1. \A x \in Dirs : dir'[x].state = dir[x].state
    BY <1>9 DEF Renames, RenameEffect, MoveTo, BumpTo
  <2>2. Active(d) BY <2>1 DEF Active
  <2>3. CASE Moved(q, d)
    <3>1. MoveTo(q, d, dir'[d]) BY <1>9, <2>3 DEF Renames, RenameEffect
    <3>2. RowsCurrent(q) BY <1>9 DEF Renames, RenameEffect, RenameCommits
    <3>3. Active(q.dst) /\ q.dst \in Dirs BY <1>9, <3>2, BatchBranch DEF Renames
    <3>4. dir'[q.dst].state = "active" BY <2>1, <3>3 DEF Active
    <3>5. entry'[q.dst][q.dname].subject = d BY <1>9, <2>3 DEF Renames, RenameEffect, Moved
    <3>6. dir'[d].parent = q.dst /\ dir'[d].name = q.dname BY <3>1 DEF MoveTo
    <3> QED BY <3>3, <3>4, <3>5, <3>6 DEF Good
  <2>4. CASE ~Moved(q, d)
    <3>1. BumpTo(q, d, dir'[d]) BY <1>9, <2>4 DEF Renames, RenameEffect
    <3>2. dir'[d].parent = p /\ dir'[d].name = n BY <1>2, <3>1 DEF BumpTo
    <3>3. dir'[p].state = "active" BY <1>3, <2>1, <2>2 DEF Active
    <3>4. ~(p = q.dir /\ n = q.name)
      BY <1>3, <1>9, <2>2, <2>4 DEF Renames, RenameEffect, RenameCommits, SourceIsLoaded, Moved
    <3>5. ~(p = q.dst /\ n = q.dname)
      BY <1>3, <1>9, <2>2 DEF Renames, RenameEffect, RenameCommits
    <3>6. LinkTo(q, entry[p][n], entry'[p][n])
      BY <1>3, <1>9, <2>2, <3>4, <3>5 DEF Renames, RenameEffect, Elsewhere, Touched
    <3> QED BY <1>3, <1>4, <2>2, <3>2, <3>3, <3>6 DEF LinkTo
  <2> QED BY <2>3, <2>4
<1>10. Still => SameTree /\ entry' = entry BY SameTreeSteps DEF Still
<1>11. ASSUME NEW q, Places(q) \/ Grants(q) PROVE SameTree /\ entry' = entry
  BY <1>11, SameTreeSteps DEF Places, Grants, PlacementEffect, AclEffect
<1> QED BY <1>5, <1>6, <1>7, <1>8, <1>9, <1>10, <1>11 DEF Writes

LEMMA PlacedStep ==
  ASSUME TypeOK, RowInv, Linked, Placed, Writes, ~mislaid' PROVE Placed'
<1> SUFFICES ASSUME NEW d \in Dirs, NEW n \in Names, entry'[d][n] # NoEntry
             PROVE  /\ Active(d)'
                    /\ entry'[d][n].kind = "directory" =>
                         /\ Active(entry[d][n].subject)'
                         /\ dir'[entry'[d][n].subject].parent = d
                         /\ dir'[entry'[d][n].subject].name = n
  BY DEF Placed
<1>1. PICK e, f : e = entry[d][n] /\ f = entry'[d][n] OBVIOUS
<1> DEFINE Good == /\ dir'[d].state = "active"
                   /\ f.kind = "directory" =>
                        /\ f.subject \in Dirs /\ dir'[f.subject].state = "active"
                        /\ dir'[f.subject].parent = d /\ dir'[f.subject].name = n
<1>2. SUFFICES Good BY <1>1 DEF Active
<1>3. ASSUME e # NoEntry
      PROVE  /\ Active(d)
             /\ e.kind = "directory" =>
                  e.subject \in Dirs /\ Active(e.subject) /\ dir[e.subject].parent = d
                    /\ dir[e.subject].name = n
  BY <1>1, <1>3 DEF Placed, Active
<1>4. ASSUME e # NoEntry, f.kind = e.kind, f.subject = e.subject, dir'[d].state = dir[d].state,
             e.kind = "directory" =>
               /\ dir'[e.subject].state = dir[e.subject].state
               /\ dir'[e.subject].parent = dir[e.subject].parent
               /\ dir'[e.subject].name = dir[e.subject].name
      PROVE  Good
  BY <1>3, <1>4 DEF Active
<1>5. ASSUME NEW q, Elsewhere(q), ~Touched(q, d, n)
      PROVE  e # NoEntry /\ f.kind = e.kind /\ f.subject = e.subject
  BY <1>1, <1>5 DEF Elsewhere, LinkTo
<1> HIDE DEF Good
<1>6. ASSUME SameTree, entry' = entry PROVE Good
  <2>1. e = f /\ e # NoEntry BY <1>1, <1>6
  <2>2. e.kind = "directory" => e.subject \in Dirs BY <1>3, <2>1
  <2> QED BY <1>4, <1>6, <2>1, <2>2 DEF SameTree
<1>7. ASSUME NEW q, Puts(q) PROVE Good
  <2>1. SameTree BY <1>7, SameTreeSteps
  <2>2. CASE Touched(q, d, n)
    <3>1. d = q.dir /\ f.kind = "file" BY <1>1, <1>7, <2>2 DEF Touched, Puts, PutEffect
    <3>2. Active(d) BY <1>7, <3>1 DEF Puts, PutEffect, PutCommits
    <3> QED BY <2>1, <3>1, <3>2 DEF SameTree, Active, Good
  <2>3. CASE ~Touched(q, d, n)
    <3>1. e # NoEntry /\ f.kind = e.kind /\ f.subject = e.subject
      BY <1>5, <1>7, <2>3 DEF Puts, PutEffect
    <3> QED BY <1>3, <1>4, <2>1, <3>1 DEF SameTree
  <2> QED BY <2>2, <2>3
<1>8. ASSUME NEW q, NEW c \in Dirs, Mkdirs(q, c) PROVE Good
  <2>1. \A x \in Dirs : x # c => BumpTo(q, x, dir'[x]) BY <1>8 DEF Mkdirs, MkdirEffect
  <2>2. \A x : Active(x) => x # c BY <1>8, UnbornState DEF Mkdirs, MkdirEffect, Active
  <2>3. CASE Touched(q, d, n)
    <3>1. d = q.dir /\ n = q.name /\ f.subject = c
      BY <1>1, <1>8, <2>3 DEF Touched, Mkdirs, MkdirEffect
    <3>2. Active(d) BY <1>8, <3>1 DEF Mkdirs, MkdirEffect, MkdirCommits
    <3>3. dir'[c].parent = d /\ dir'[c].name = n /\ dir'[c].state = "active"
      BY <1>8, <3>1 DEF Mkdirs, MkdirEffect, Directory
    <3>4. dir'[d].state = "active" BY <2>1, <2>2, <3>2 DEF BumpTo, Active
    <3> QED BY <3>1, <3>3, <3>4 DEF Good
  <2>4. CASE ~Touched(q, d, n)
    <3>1. e # NoEntry /\ f.kind = e.kind /\ f.subject = e.subject
      BY <1>5, <1>8, <2>4 DEF Mkdirs, MkdirEffect
    <3>2. BumpTo(q, d, dir'[d]) BY <1>3, <2>1, <2>2, <3>1
    <3>3. e.kind = "directory" => BumpTo(q, e.subject, dir'[e.subject])
      BY <1>3, <2>1, <2>2, <3>1
    <3> QED BY <1>4, <3>1, <3>2, <3>3 DEF BumpTo
  <2> QED BY <2>3, <2>4
<1>9. ASSUME NEW q, Removes(q) PROVE Good
  <2>1. ~(d = q.dir /\ n = q.name) BY <1>9 DEF Removes, RemoveEffect
  <2>2. ~Touched(q, d, n) BY <1>9, <2>1 DEF Touched, Removes
  <2>3. e # NoEntry /\ f.kind = e.kind /\ f.subject = e.subject
    BY <1>5, <1>9, <2>2 DEF Removes, RemoveEffect
  <2>4. ~Removed(q, d)
    BY <1>1, <1>9, <2>3 DEF Removed, Removes, RemoveEffect, RemoveCommits, HasNoEntry
  <2>5. BumpTo(q, d, dir'[d]) BY <1>9, <2>4 DEF Removes, RemoveEffect
  <2>6. ASSUME e.kind = "directory" PROVE ~Removed(q, e.subject)
    <3>1. SUFFICES ASSUME Removed(q, e.subject) PROVE FALSE OBVIOUS
    <3>2. e.subject \in Dirs /\ dir[e.subject].parent = d /\ dir[e.subject].name = n
      BY <1>3, <2>3, <2>6
    <3>3. entry[q.dir][q.name].subject = e.subject
      BY <1>9, <3>1 DEF Removes, RemoveEffect, Removed
    <3>4. q.dir \in Dirs /\ q.name \in Names BY <1>9, BatchCreated DEF Removes
    <3>5. entry[q.dir][q.name].kind = "directory" /\ entry[q.dir][q.name] # NoEntry
      BY <3>2, <3>3, <3>4, DirectoryEntry
    <3>6. dir[e.subject].parent = q.dir /\ dir[e.subject].name = q.name
      BY <3>3, <3>4, <3>5 DEF Placed
    <3> QED BY <2>1, <3>2, <3>6
  <2>7. e.kind = "directory" => BumpTo(q, e.subject, dir'[e.subject])
    BY <1>3, <1>9, <2>3, <2>6 DEF Removes, RemoveEffect
  <2> QED BY <1>4, <2>3, <2>5, <2>7 DEF BumpTo
<1>10. ASSUME NEW q, Renames(q) PROVE Good
  <2>1. \A x \in Dirs : dir'[x].state = dir[x].state
    BY <1>10 DEF Renames, RenameEffect, MoveTo, BumpTo
  <2>2. q.dir \in Dirs /\ q.name \in Names BY <1>10, BatchCreated DEF Renames
  <2>3. entry[q.dir][q.name] = q.loaded /\ q.loaded # NoEntry
    BY <1>10 DEF Renames, RenameEffect, RenameCommits, SourceIsLoaded, Batch, Asks
  <2>4. q.loaded.kind = "directory" =>
          /\ Active(q.loaded.subject) /\ dir[q.loaded.subject].parent = q.dir
          /\ dir[q.loaded.subject].name = q.name
    BY <2>2, <2>3 DEF Placed
  <2>5. ~(d = q.dir /\ n = q.name) BY <1>10 DEF Renames, RenameEffect
  <2>6. CASE d = q.dst /\ n = q.dname
    <3>1. f.kind = q.loaded.kind /\ f.subject = q.loaded.subject
      BY <1>1, <1>10, <2>6 DEF Renames, RenameEffect
    <3>2. RowsCurrent(q) BY <1>10 DEF Renames, RenameEffect, RenameCommits
    <3>3. Active(q.dst) BY <1>10, <3>2, BatchBranch DEF Renames
    <3>4. dir'[d].state = "active" BY <2>1, <2>6, <3>3 DEF Active
    <3>5. ASSUME f.kind = "directory"
          PROVE  /\ f.subject \in Dirs /\ dir'[f.subject].state = "active"
                 /\ dir'[f.subject].parent = d /\ dir'[f.subject].name = n
      <4>1. Active(f.subject) /\ Moved(q, f.subject) BY <2>4, <3>1, <3>5 DEF Moved
      <4>2. f.subject \in Dirs BY <4>1 DEF Active
      <4>3. MoveTo(q, f.subject, dir'[f.subject]) BY <1>10, <4>1, <4>2 DEF Renames, RenameEffect
      <4> QED BY <2>6, <4>1, <4>2, <4>3 DEF MoveTo, Active
    <3> QED BY <3>4, <3>5 DEF Good
  <2>7. CASE ~(d = q.dst /\ n = q.dname)
    <3>1. ~Touched(q, d, n) BY <2>5, <2>7 DEF Touched
    <3>2. e # NoEntry /\ f.kind = e.kind /\ f.subject = e.subject
      BY <1>5, <1>10, <3>1 DEF Renames, RenameEffect
    <3>3. ASSUME e.kind = "directory" PROVE BumpTo(q, e.subject, dir'[e.subject])
      <4>1. ~Moved(q, e.subject) BY <1>3, <2>4, <2>5, <3>2, <3>3 DEF Moved
      <4> QED BY <1>3, <1>10, <3>2, <3>3, <4>1 DEF Renames, RenameEffect
    <3> QED BY <1>4, <2>1, <3>2, <3>3 DEF BumpTo
  <2> QED BY <2>6, <2>7
<1>11. Still => SameTree /\ entry' = entry BY SameTreeSteps DEF Still
<1>12. ASSUME NEW q, Places(q) \/ Grants(q) PROVE SameTree /\ entry' = entry
  BY <1>12, SameTreeSteps DEF Places, Grants, PlacementEffect, AclEffect
<1> QED BY <1>6, <1>7, <1>8, <1>9, <1>10, <1>11, <1>12 DEF Writes

LEMMA MislaidKept == ASSUME Writes, ~mislaid' PROVE ~mislaid
BY DEF Writes, Still, Puts, Mkdirs, Removes, Renames, Places, Grants, PutEffect, MkdirEffect,
       RemoveEffect, RenameEffect, PlacementEffect, AclEffect

LEMMA ShapeStep == ASSUME TypeOK, RowInv, ShapeInv, Writes PROVE ShapeInv'
<1> SUFFICES ASSUME ~mislaid' PROVE Linked' /\ Rooted' /\ Placed' BY DEF ShapeInv
<1>1. Linked /\ Rooted /\ Placed BY MislaidKept DEF ShapeInv
<1> QED BY <1>1, LinkedStep, RootedStep, PlacedStep

-----------------------------------------------------------------------------
(* Drivers *)

LEMMA HoldsNothingHere == ASSUME NEW d \in Dirs, HoldsNothing(d) PROVE HasNoEntry(d)
<1>1. d \in Descendants(d) BY AncestorsAbove, AboveSelf DEF Descendants
<1> QED BY <1>1 DEF HoldsNothing

LEMMA BackedStep ==
  ASSUME TypeOK, RowInv, EntriesBacked, Writes PROVE EntriesBacked'
<1> SUFFICES ASSUME NEW d \in Dirs, NEW n \in Names, entry'[d][n].kind = "file"
             PROVE  entry'[d][n].on = dir'[d].driver
  BY DEF EntriesBacked
<1>1. PICK e, f : e = entry[d][n] /\ f = entry'[d][n] OBVIOUS
<1>2. e.kind = "file" => e.on = dir[d].driver BY <1>1 DEF EntriesBacked
<1>3. NoEntry.kind = "absent" BY DEF NoEntry, Entry
<1>4. ASSUME NEW q, Elsewhere(q), ~Touched(q, d, n) PROVE e.kind = "file" /\ f.on = e.on
  BY <1>1, <1>4 DEF Elsewhere, LinkTo
<1>5. CASE Still BY <1>1, <1>2, <1>5 DEF Still
<1>6. ASSUME NEW q, Puts(q) PROVE f.on = dir'[d].driver
  <2>1. dir'[d].driver = dir[d].driver BY <1>6 DEF Puts, PutEffect, BumpTo
  <2>2. CASE Touched(q, d, n)
    BY <1>1, <1>6, <2>1, <2>2 DEF Touched, Puts, PutEffect, PutCommits
  <2>3. CASE ~Touched(q, d, n) BY <1>2, <1>4, <1>6, <2>1, <2>3 DEF Puts, PutEffect
  <2> QED BY <2>2, <2>3
<1>7. ASSUME NEW q, NEW c \in Dirs, Mkdirs(q, c) PROVE f.on = dir'[d].driver
  <2>1. ~Touched(q, d, n) BY <1>1, <1>7 DEF Touched, Mkdirs, MkdirEffect
  <2>2. e.kind = "file" /\ f.on = e.on BY <1>4, <1>7, <2>1 DEF Mkdirs, MkdirEffect
  <2>3. d # c
    BY <1>1, <1>3, <1>7, <2>2, UnbornState DEF Mkdirs, MkdirEffect, RowInv, Created, HasNoEntry
  <2>4. dir'[d].driver = dir[d].driver BY <1>7, <2>3 DEF Mkdirs, MkdirEffect, BumpTo
  <2> QED BY <1>2, <2>2, <2>4
<1>8. ASSUME NEW q, Removes(q) PROVE f.on = dir'[d].driver
  <2>1. ~Touched(q, d, n) BY <1>1, <1>3, <1>8 DEF Touched, Removes, RemoveEffect
  <2>2. e.kind = "file" /\ f.on = e.on BY <1>4, <1>8, <2>1 DEF Removes, RemoveEffect
  <2>3. dir'[d].driver = dir[d].driver BY <1>8 DEF Removes, RemoveEffect, BumpTo, TombTo
  <2> QED BY <1>2, <2>2, <2>3
<1>9. ASSUME NEW q, Renames(q) PROVE f.on = dir'[d].driver
  <2>1. dir'[d].driver = dir[d].driver BY <1>9 DEF Renames, RenameEffect, BumpTo, MoveTo
  <2>2. CASE d = q.dst /\ n = q.dname
    <3>1. f.on = q.loaded.on /\ q.loaded.kind = "file" BY <1>1, <1>9, <2>2 DEF Renames, RenameEffect
    <3>2. entry[q.dir][q.name] = q.loaded /\ dir[q.dir].driver = dir[d].driver
      BY <1>9, <2>2
      DEF Renames, RenameEffect, RenameCommits, SourceIsLoaded, RenameKeepsDriver
    <3>3. q.dir \in Dirs /\ q.name \in Names BY <1>9, BatchCreated DEF Renames
    <3>4. q.loaded.on = dir[q.dir].driver BY <3>1, <3>2, <3>3 DEF EntriesBacked
    <3> QED BY <2>1, <3>1, <3>2, <3>4
  <2>3. CASE d = q.dir /\ n = q.name BY <1>1, <1>3, <1>9, <2>3 DEF Renames, RenameEffect
  <2>4. CASE ~(d = q.dst /\ n = q.dname) /\ ~(d = q.dir /\ n = q.name)
    BY <1>2, <1>4, <1>9, <2>1, <2>4 DEF Renames, RenameEffect, Touched
  <2> QED BY <2>2, <2>3, <2>4
<1>10. ASSUME NEW q, Places(q) PROVE f.on = dir'[d].driver
  <2>1. e = f BY <1>1, <1>10 DEF Places, PlacementEffect
  <2>2. CASE d # q.dir BY <1>1, <1>2, <1>10, <2>1, <2>2 DEF Places, PlacementEffect
  <2>3. CASE d = q.dir
    <3>1. dir'[d].driver = q.want BY <1>10, <2>3 DEF Places, PlacementEffect
    <3>2. dir[d].driver = q.want \/ HoldsNothing(d)
      BY <1>10, <2>3 DEF Places, PlacementEffect, IntentHolds, ChangeIsSafe
    <3>3. ~HoldsNothing(d) BY <1>1, <1>3, <2>1, HoldsNothingHere DEF HasNoEntry
    <3> QED BY <1>1, <1>2, <2>1, <3>1, <3>2, <3>3
  <2> QED BY <2>2, <2>3
<1>11. ASSUME NEW q, Grants(q) PROVE f.on = dir'[d].driver
  <2>1. dir'[d].driver = dir[d].driver BY <1>11 DEF Grants, AclEffect
  <2>2. e = f BY <1>1, <1>11 DEF Grants, AclEffect
  <2> QED BY <1>1, <1>2, <2>1, <2>2
<1> QED BY <1>1, <1>5, <1>6, <1>7, <1>8, <1>9, <1>10, <1>11 DEF Writes

\* What lies above an active directory is active.
LEMMA ActiveAbove ==
  ASSUME TypeOK, RowInv, Linked, NEW d \in Dirs, Active(d), NEW x \in Above(Parents, d)
  PROVE  Active(x)
<1> DEFINE S == {y \in Dirs : Active(y)}
<1>1. Closed(Parents, S)
  <2> SUFFICES ASSUME NEW y \in S, dir[y].parent # Nowhere PROVE dir[y].parent \in S
    BY DEF Closed, Parents
  <2>1. y # Root BY DEF RowInv
  <2> QED BY <2>1, LinkedAt
<1>2. S \in SUBSET Dirs /\ d \in S OBVIOUS
<1>3. x \in S BY <1>1, <1>2, AboveIn
<1> QED BY <1>3

LEMMA AboveStep ==
  ASSUME NEW p \in ParentMaps, NEW d \in Dirs, p[d] \in Dirs
  PROVE  Above(p, d) \subseteq {d} \cup Above(p, p[d])
<1> DEFINE S == {d} \cup Above(p, p[d])
<1>1. S \in SUBSET Dirs BY DEF Above
<1>2. Closed(p, S) BY AboveClosed, AboveSelf DEF Closed
<1>3. d \in S OBVIOUS
<1> HIDE DEF S
<1>4. Above(p, d) \subseteq S BY <1>1, <1>2, <1>3, AboveIn
<1> QED BY <1>4 DEF S

LEMMA AboveParent ==
  ASSUME NEW p \in ParentMaps, NEW d \in Dirs, p[d] \in Dirs
  PROVE  p[d] \in Above(p, d) /\ Above(p, p[d]) \subseteq Above(p, d)
<1>1. p[d] \in Above(p, d) BY AboveClosed, AboveSelf, Assumed DEF Closed
<1> QED BY <1>1, AboveTrans

\* An active directory does not lie above its parent.
LEMMA NoCycle ==
  ASSUME TypeOK, RowInv, Rooted, NEW d \in Dirs, Active(d), d # Root, dir[d].parent \in Dirs
  PROVE  d \notin Above(Parents, dir[d].parent)
<1>1. SUFFICES ASSUME d \in Above(Parents, dir[d].parent) PROVE FALSE OBVIOUS
<1>2. Parents \in ParentMaps BY ParentsType
<1>3. PICK P : P = Parents OBVIOUS
<1>4. P \in ParentMaps /\ d \in Above(P, P[d]) BY <1>1, <1>2, <1>3 DEF Parents
<1> DEFINE S == {x \in Above(P, d) : d \in Above(P, x)}
<1>5. S \in SUBSET Dirs /\ d \in S BY AboveSelf DEF Above
<1>6. Closed(P, S)
  <2> SUFFICES ASSUME NEW x \in S, P[x] # Nowhere PROVE P[x] \in S BY DEF Closed
  <2>1. x \in Dirs /\ P[x] \in Dirs BY <1>4, <1>5 DEF ParentMaps
  <2>2. P[x] \in Above(P, d) BY <1>4, AboveClosed DEF Closed
  <2>3. d \in Above(P, P[x])
    <3>1. CASE x = d BY <1>4, <3>1
    <3>2. CASE x # d
      <4>1. d \in Above(P, x) OBVIOUS
      <4>2. Above(P, x) \subseteq {x} \cup Above(P, P[x]) BY <1>4, <2>1, AboveStep
      <4> QED BY <3>2, <4>1, <4>2
    <3> QED BY <3>1, <3>2
  <2> QED BY <2>2, <2>3
<1>7. Root \in S
  <2>1. Root \in Above(P, d) BY <1>3 DEF Rooted
  <2> HIDE DEF S
  <2>2. Above(P, d) \subseteq S BY <1>5, <1>6, AboveIn
  <2> QED BY <2>1, <2>2
<1>8. d \in Above(P, Root) BY <1>7
<1>9. P[Root] = Nowhere BY <1>3, Assumed DEF Parents, RowInv
<1>10. Closed(P, {Root}) BY <1>9 DEF Closed
<1>11. Above(P, Root) \subseteq {Root} BY <1>10, AboveIn, Assumed
<1> QED BY <1>8, <1>11

\* No active directory lies below one without entries.
LEMMA NothingBelow ==
  ASSUME TypeOK, RowInv, Linked, NEW d \in Dirs, HasNoEntry(d), NEW k \in Dirs, Active(k),
         d \in Above(Parents, k)
  PROVE  k = d
<1>1. SUFFICES ASSUME k # d PROVE FALSE OBVIOUS
<1>2. Parents \in ParentMaps BY ParentsType
<1> DEFINE S == Above(Parents, k) \ {d}
<1>3. S \in SUBSET Dirs /\ k \in S BY <1>1, AboveSelf DEF Above
<1>4. Closed(Parents, S)
  <2> SUFFICES ASSUME NEW y \in S, Parents[y] # Nowhere PROVE Parents[y] \in S BY DEF Closed
  <2>1. Active(y) /\ y \in Dirs BY <1>3, ActiveAbove
  <2>2. y # Root BY <2>1 DEF RowInv, Parents
  <2>3. dir[y].parent # d BY <2>1, <2>2, LinkedAt DEF HasNoEntry
  <2>4. Parents[y] \in Above(Parents, k) BY <1>2, AboveClosed DEF Closed
  <2> QED BY <2>1, <2>3, <2>4 DEF Parents
<1> HIDE DEF S
<1>5. Above(Parents, k) \subseteq S BY <1>3, <1>4, AboveIn
<1> QED BY <1>5 DEF S

\* Whatever a step does, the directory above an active one keeps its driver:
\* a directory changes it only when it holds nothing, and a rename goes to a
\* directory with the same.
LEMMA ParentDriverKept ==
  ASSUME TypeOK, RowInv, Linked, Placed, Writes, NEW d \in Dirs \ {Root}, Active(d)
  PROVE  dir'[dir'[d].parent].driver = dir[dir[d].parent].driver
<1>1. PICK p : p = dir[d].parent OBVIOUS
<1>2. p \in Dirs /\ Active(p) /\ ~HasNoEntry(p) BY <1>1, LinkedAt DEF HasNoEntry
<1>3. ASSUME dir'[d].parent = p, dir'[p].driver = dir[p].driver
      PROVE  dir'[dir'[d].parent].driver = dir[dir[d].parent].driver
  BY <1>1, <1>3
<1>4. CASE Still BY <1>1, <1>4 DEF Still
<1>5. ASSUME NEW q, Puts(q) PROVE dir'[d].parent = p /\ dir'[p].driver = dir[p].driver
  BY <1>1, <1>2, <1>5 DEF Puts, PutEffect, BumpTo
<1>6. ASSUME NEW q, NEW c \in Dirs, Mkdirs(q, c)
      PROVE  dir'[d].parent = p /\ dir'[p].driver = dir[p].driver
  <2>1. d # c /\ p # c BY <1>2, <1>6, UnbornState DEF Mkdirs, MkdirEffect, Active
  <2>2. BumpTo(q, d, dir'[d]) /\ BumpTo(q, p, dir'[p]) BY <1>2, <1>6, <2>1 DEF Mkdirs, MkdirEffect
  <2> QED BY <1>1, <2>2 DEF BumpTo
<1>7. ASSUME NEW q, Removes(q) PROVE dir'[d].parent = p /\ dir'[p].driver = dir[p].driver
  BY <1>1, <1>2, <1>7 DEF Removes, RemoveEffect, BumpTo, TombTo
<1>8. ASSUME NEW q, Renames(q) PROVE dir'[dir'[d].parent].driver = dir[dir[d].parent].driver
  <2>1. \A x \in Dirs : dir'[x].driver = dir[x].driver
    BY <1>8 DEF Renames, RenameEffect, BumpTo, MoveTo
  <2>2. CASE ~Moved(q, d)
    <3>1. BumpTo(q, d, dir'[d]) BY <1>8, <2>2 DEF Renames, RenameEffect
    <3> QED BY <1>1, <1>2, <1>3, <2>1, <3>1 DEF BumpTo
  <2>3. CASE Moved(q, d)
    <3>1. MoveTo(q, d, dir'[d]) BY <1>8, <2>3 DEF Renames, RenameEffect
    <3>2. q.dir \in Dirs /\ q.name \in Names /\ q.dst \in Dirs BY <1>8, BatchCreated DEF Renames
    <3>3. /\ entry[q.dir][q.name] = q.loaded /\ q.loaded # NoEntry
          /\ dir[q.dir].driver = dir[q.dst].driver
      BY <1>8
      DEF Renames, RenameEffect, RenameCommits, SourceIsLoaded, RenameKeepsDriver, Batch, Asks
    <3>4. p = q.dir BY <1>1, <2>3, <3>2, <3>3 DEF Moved, Placed
    <3> QED BY <1>1, <2>1, <3>1, <3>2, <3>3, <3>4 DEF MoveTo
  <2> QED BY <2>2, <2>3
<1>9. ASSUME NEW q, Places(q) PROVE dir'[d].parent = p /\ dir'[p].driver = dir[p].driver
  <2>1. dir'[d].parent = p BY <1>1, <1>9, SameTreeSteps DEF SameTree
  <2>2. CASE p # q.dir BY <1>2, <1>9, <2>1, <2>2 DEF Places, PlacementEffect
  <2>3. CASE p = q.dir
    <3>1. ~HoldsNothing(p) BY <1>2, HoldsNothingHere
    <3>2. dir[p].driver = q.want
      BY <1>9, <2>3, <3>1 DEF Places, PlacementEffect, IntentHolds, ChangeIsSafe
    <3>3. dir'[p].driver = q.want BY <1>9, <2>3 DEF Places, PlacementEffect
    <3> QED BY <2>1, <3>2, <3>3
  <2> QED BY <2>2, <2>3
<1>10. ASSUME NEW q, Grants(q) PROVE dir'[d].parent = p /\ dir'[p].driver = dir[p].driver
  <2>1. dir'[d].parent = p BY <1>1, <1>10, SameTreeSteps DEF SameTree
  <2> QED BY <1>2, <1>10, <2>1 DEF Grants, AclEffect
<1> QED BY <1>3, <1>4, <1>5, <1>6, <1>7, <1>8, <1>9, <1>10 DEF Writes

\* Without a mount above it a directory has the root's driver.
LEMMA UnmountedDriver ==
  ASSUME TypeOK, RowInv, Linked, Rooted, Mounted, NEW d \in Dirs, Active(d),
         \A x \in Above(Parents, d) : dir[x].mount # "mount"
  PROVE  dir[d].driver = dir[Root].driver
<1>1. Parents \in ParentMaps BY ParentsType
<1> DEFINE S == {y \in Above(Parents, d) : dir[y].driver = dir[d].driver}
<1>2. S \in SUBSET Dirs /\ d \in S BY AboveSelf DEF Above
<1>3. Closed(Parents, S)
  <2> SUFFICES ASSUME NEW y \in S, Parents[y] # Nowhere PROVE Parents[y] \in S BY DEF Closed
  <2>1. Active(y) /\ y \in Dirs BY <1>2, ActiveAbove
  <2>2. y # Root BY <2>1 DEF RowInv, Parents
  <2>3. MountOk(y) /\ dir[y].mount # "mount" BY <2>1 DEF Mounted
  <2>4. dir[y].mount \in {"default", "mount", "inherited"} BY <2>1 DEF TypeOK, DirectoryRows
  <2>5. dir[dir[y].parent].driver = dir[d].driver BY <2>2, <2>3, <2>4 DEF MountOk
  <2>6. Parents[y] \in Above(Parents, d) BY <1>1, AboveClosed DEF Closed
  <2> QED BY <2>1, <2>5, <2>6 DEF Parents
<1>4. Root \in Above(Parents, d) BY DEF Rooted
<1> HIDE DEF S
<1>5. Root \in S BY <1>2, <1>3, <1>4, AboveIn
<1> QED BY <1>5 DEF S

\* Below a mount a directory has another driver than the root.
LEMMA MountedDriver ==
  ASSUME TypeOK, RowInv, Linked, Rooted, Mounted, NEW d \in Dirs, Active(d),
         NEW m \in Above(Parents, d), dir[m].mount = "mount"
  PROVE  dir[d].driver # dir[Root].driver
<1>1. Parents \in ParentMaps BY ParentsType
<1>2. m \in Dirs /\ Active(m) BY ActiveAbove DEF Above
<1>3. MountOk(m) BY <1>2 DEF Mounted
<1>4. m # Root BY <1>3 DEF MountOk
<1>5. PICK p : p = dir[m].parent OBVIOUS
<1>6. p \in Dirs /\ Active(p) BY <1>2, <1>4, <1>5, LinkedAt
<1>7. m \notin Above(Parents, p) BY <1>2, <1>4, <1>5, <1>6, NoCycle
<1>8. Parents[m] = p BY <1>2, <1>5 DEF Parents
<1>9. Above(Parents, p) \subseteq Above(Parents, m) BY <1>1, <1>2, <1>6, <1>8, AboveParent
<1>10. \A x \in Above(Parents, p) : dir[x].mount # "mount" BY <1>3, <1>7, <1>9 DEF MountOk
<1>11. dir[p].driver = dir[Root].driver BY <1>6, <1>10, UnmountedDriver
<1>12. dir[m].driver # dir[Root].driver BY <1>3, <1>5, <1>11 DEF MountOk
<1> DEFINE S == {y \in Above(Parents, d) : m \in Above(Parents, y) => dir[y].driver = dir[d].driver}
<1>13. S \in SUBSET Dirs /\ d \in S BY AboveSelf DEF Above
<1>14. Closed(Parents, S)
  <2> SUFFICES ASSUME NEW y \in S, Parents[y] # Nowhere, m \in Above(Parents, Parents[y])
               PROVE  dir[Parents[y]].driver = dir[d].driver
    BY <1>1, AboveClosed DEF Closed
  <2>1. Active(y) /\ y \in Dirs BY <1>13, ActiveAbove
  <2>2. y # Root BY <2>1 DEF RowInv, Parents
  <2>3. Parents[y] \in Dirs BY <1>1, <2>1 DEF ParentMaps
  <2>4. m \in Above(Parents, y) BY <1>1, <2>1, <2>3, AboveParent
  <2>5. y # m BY <1>7, <1>8
  <2>6. MountOk(y) BY <2>1 DEF Mounted
  <2>7. dir[y].mount # "mount" BY <2>4, <2>5, <2>6 DEF MountOk
  <2>8. dir[y].mount \in {"default", "mount", "inherited"} BY <2>1 DEF TypeOK, DirectoryRows
  <2>9. dir[y].driver = dir[dir[y].parent].driver BY <2>2, <2>6, <2>7, <2>8 DEF MountOk
  <2> QED BY <2>1, <2>4, <2>9 DEF Parents
<1> HIDE DEF S
<1>15. m \in S BY <1>13, <1>14, AboveIn
<1>16. m \in Above(Parents, m) BY <1>2, AboveSelf
<1>17. dir[m].driver = dir[d].driver BY <1>15, <1>16 DEF S
<1> QED BY <1>12, <1>17

\* A directory that moves takes no mount below another.
LEMMA RenameNestsNothing ==
  ASSUME TypeOK, RowInv, Linked, Rooted, Placed, Mounted, NEW q, Renames(q),
         NEW d \in Dirs, Active(d), dir[d].mount = "mount",
         NEW x \in Above(Parents', d) \ {d}
  PROVE  dir[x].mount # "mount"
<1>1. Parents \in ParentMaps BY ParentsType
<1>2. RowsCurrent(q) BY DEF Renames, RenameEffect, RenameCommits
<1>3. q.dst \in Dirs /\ Active(q.dst) BY <1>2, BatchBranch DEF Renames
<1>4. MountOk(d) BY DEF Mounted
<1>5. \A y \in Dirs : ~Moved(q, y) => Parents'[y] = Parents[y]
  BY DEF Renames, RenameEffect, BumpTo, Parents
<1>6. PICK A, B : A = Above(Parents, d) /\ B = Above(Parents, q.dst) OBVIOUS
<1>7. /\ A \in SUBSET Dirs /\ B \in SUBSET Dirs /\ Closed(Parents, A) /\ Closed(Parents, B)
      /\ d \in A /\ q.dst \in B
  BY <1>1, <1>3, <1>6, AboveClosed, AboveSelf DEF Above
<1>8. \A y \in A \ {d} : dir[y].mount # "mount" BY <1>4, <1>6 DEF MountOk
<1>9. CASE \A y \in A : ~Moved(q, y)
  <2>1. Closed(Parents', A) BY <1>5, <1>7, <1>9 DEF Closed
  <2>2. x \in A BY <1>7, <2>1, AboveIn
  <2> QED BY <1>8, <2>2
<1>10. ASSUME NEW c \in A, Moved(q, c) PROVE dir[x].mount # "mount"
  <2>1. c \in Dirs BY <1>7
  <2>2. c \notin B
    BY <1>6, <1>10, AncestorsAbove DEF Renames, RenameEffect, RenameCommits, MoveAllowed, Moved
  <2>3. Parents'[c] = q.dst BY <1>10, <2>1 DEF Renames, RenameEffect, MoveTo, Parents
  <2>4. \A y \in Dirs : y # c => Parents'[y] = Parents[y] BY <1>5, <1>10 DEF Moved
  <2>5. Closed(Parents', A \cup B) BY <1>7, <2>2, <2>3, <2>4 DEF Closed
  <2>6. A \cup B \in SUBSET Dirs /\ d \in A \cup B BY <1>7
  <2>7. x \in A \cup B BY <2>5, <2>6, AboveIn
  <2>8. CASE x \in A BY <1>8, <2>8
  <2>9. CASE x \in B
    <3>1. SUFFICES ASSUME dir[x].mount = "mount" PROVE FALSE OBVIOUS
    <3>2. dir[q.dst].driver # dir[Root].driver BY <1>3, <1>6, <2>9, <3>1, MountedDriver
    <3>3. q.dir \in Dirs /\ q.name \in Names BY BatchCreated DEF Renames
    <3>4. /\ entry[q.dir][q.name] = q.loaded /\ q.loaded # NoEntry
          /\ dir[q.dir].driver = dir[q.dst].driver /\ dir[c].mount # "mount"
      BY <1>10
      DEF Renames, RenameEffect, RenameCommits, SourceIsLoaded, RenameKeepsDriver, Batch, Asks, Moved
    <3>5. Active(c) /\ dir[c].parent = q.dir BY <1>10, <3>3, <3>4 DEF Moved, Placed
    <3>6. c # Root BY <1>10, BatchCreated DEF Renames, Moved
    <3>7. Active(q.dir) BY <1>2, BatchBranch DEF Renames
    <3>8. c \notin Above(Parents, q.dir) BY <2>1, <3>3, <3>5, <3>6, NoCycle
    <3>9. Parents[c] = q.dir BY <2>1, <3>5 DEF Parents
    <3>10. Above(Parents, q.dir) \subseteq A
      <4>1. Above(Parents, q.dir) \subseteq Above(Parents, c)
        BY <1>1, <2>1, <3>3, <3>9, AboveParent
      <4>2. Above(Parents, c) \subseteq A BY <1>1, <1>6, <1>10, AboveTrans
      <4> QED BY <4>1, <4>2
    <3>11. d \notin Above(Parents, q.dir)
      <4>1. d \in Above(Parents, q.dir) => A \subseteq Above(Parents, q.dir)
        BY <1>1, <1>6, <3>3, AboveTrans
      <4> QED BY <1>10, <3>8, <4>1
    <3>12. \A y \in Above(Parents, q.dir) : dir[y].mount # "mount" BY <1>8, <3>10, <3>11
    <3>13. dir[q.dir].driver = dir[Root].driver BY <3>3, <3>7, <3>12, UnmountedDriver
    <3> QED BY <3>2, <3>4, <3>13
  <2> QED BY <2>7, <2>8, <2>9
<1> QED BY <1>9, <1>10

\* MountOk after a step, part by part.
LEMMA MountedSame ==
  ASSUME Mounted, TypeOK, RowInv, Linked, Placed, Writes, Parents' = Parents,
         \A x \in Dirs : /\ dir'[x].driver = dir[x].driver /\ dir'[x].mount = dir[x].mount
                         /\ dir'[x].state = "active" => dir[x].state = "active"
  PROVE  Mounted'
<1> SUFFICES ASSUME NEW d \in Dirs, dir'[d].state = "active" PROVE MountOk(d)'
  BY DEF Mounted, Active
<1>1. Active(d) /\ MountOk(d) BY DEF Mounted, Active
<1>2. d # Root => dir'[dir'[d].parent].driver = dir[dir[d].parent].driver
  BY <1>1, ParentDriverKept
<1>3. \A x \in Above(Parents, d) : x \in Dirs BY DEF Above
<1> QED BY <1>1, <1>2, <1>3 DEF MountOk

LEMMA MountedMkdir ==
  ASSUME TypeOK, RowInv, Linked, Placed, Mounted, Writes, NEW q, NEW c \in Dirs, Mkdirs(q, c)
  PROVE  Mounted'
<1> SUFFICES ASSUME NEW d \in Dirs, dir'[d].state = "active" PROVE MountOk(d)'
  BY DEF Mounted, Active
<1>1. \A x \in Dirs : x # c => BumpTo(q, x, dir'[x]) BY DEF Mkdirs, MkdirEffect
<1>2. \A x : Active(x) => x # c BY UnbornState DEF Mkdirs, MkdirEffect, Active
<1>3. CASE d = c
  <2>1. /\ dir'[c].parent = q.dir /\ dir'[c].mount = "inherited"
        /\ dir'[c].driver = dir[q.dir].driver
    BY DEF Mkdirs, MkdirEffect, Directory
  <2>2. Active(q.dir) /\ q.dir \in Dirs /\ c # Root BY DEF Mkdirs, MkdirEffect, MkdirCommits, Active
  <2>3. dir'[q.dir].driver = dir[q.dir].driver BY <1>1, <1>2, <2>2 DEF BumpTo
  <2> QED BY <1>3, <2>1, <2>2, <2>3 DEF MountOk
<1>4. CASE d # c
  <2>1. BumpTo(q, d, dir'[d]) BY <1>1, <1>4
  <2>2. Active(d) /\ MountOk(d) BY <2>1 DEF BumpTo, Active, Mounted
  <2>3. d # Root => dir'[dir'[d].parent].driver = dir[dir[d].parent].driver
    BY <2>2, ParentDriverKept
  <2>4. PICK A : A = Above(Parents, d) OBVIOUS
  <2>5. A \in SUBSET Dirs /\ d \in A /\ Closed(Parents, A)
    BY <2>4, ParentsType, AboveSelf, AboveClosed DEF Above
  <2>6. \A y \in A : y # c BY <1>2, <2>2, <2>4, ActiveAbove
  <2>7. \A y \in A : Parents'[y] = Parents[y] /\ dir'[y].mount = dir[y].mount
    BY <1>1, <2>5, <2>6 DEF BumpTo, Parents
  <2>8. Closed(Parents', A) BY <2>5, <2>7 DEF Closed
  <2>9. Above(Parents', d) \subseteq A BY <2>5, <2>8, AboveIn
  <2>10. dir[d].mount = "mount" => \A x \in Above(Parents', d) \ {d} : dir'[x].mount # "mount"
    BY <2>2, <2>4, <2>7, <2>9 DEF MountOk
  <2>11. dir'[d].mount = dir[d].mount /\ dir'[d].driver = dir[d].driver BY <2>1 DEF BumpTo
  <2> QED BY <2>2, <2>3, <2>10, <2>11 DEF MountOk
<1> QED BY <1>3, <1>4

LEMMA MountedRename ==
  ASSUME TypeOK, RowInv, Linked, Rooted, Placed, Mounted, Writes, NEW q, Renames(q)
  PROVE  Mounted'
<1> SUFFICES ASSUME NEW d \in Dirs, dir'[d].state = "active" PROVE MountOk(d)'
  BY DEF Mounted, Active
<1>1. \A x \in Dirs : /\ dir'[x].driver = dir[x].driver /\ dir'[x].mount = dir[x].mount
                      /\ dir'[x].state = dir[x].state
  BY DEF Renames, RenameEffect, BumpTo, MoveTo
<1>2. Active(d) /\ MountOk(d) BY <1>1 DEF Mounted, Active
<1>3. d # Root => dir'[dir'[d].parent].driver = dir[dir[d].parent].driver
  BY <1>2, ParentDriverKept
<1>4. \A x \in Above(Parents', d) : x \in Dirs BY DEF Above
<1>5. dir[d].mount = "mount" => \A x \in Above(Parents', d) \ {d} : dir[x].mount # "mount"
  BY <1>2, RenameNestsNothing
<1> QED BY <1>1, <1>2, <1>3, <1>4, <1>5 DEF MountOk

LEMMA MountedPlacement ==
  ASSUME TypeOK, RowInv, Linked, Rooted, Placed, Mounted, Writes, ~mislaid, NEW q, Places(q)
  PROVE  Mounted'
<1> SUFFICES ASSUME NEW d \in Dirs, dir'[d].state = "active" PROVE MountOk(d)'
  BY DEF Mounted, Active
<1>1. PICK k : k = q.dir OBVIOUS
<1>2. SameTree /\ Parents' = Parents BY SameTreeSteps, SameTreeParents
<1>3. Active(d) /\ MountOk(d) BY <1>2 DEF SameTree, Mounted, Active
<1>4. /\ \A x \in Dirs : x # k => dir'[x] = dir[x]
      /\ dir'[k].driver = q.want /\ dir'[k].mount = q.mount
  BY <1>1 DEF Places, PlacementEffect
<1>5. d # Root => dir'[dir'[d].parent].driver = dir[dir[d].parent].driver
  BY <1>3, ParentDriverKept
<1>6. \A x \in Above(Parents, d) : x \in Dirs BY DEF Above
<1>7. IntentHolds(q) /\ MountHolds(q) BY DEF Places, PlacementEffect
<1>8. q.mount = "mount" =>
        /\ k # Root /\ HasNoEntry(k) /\ ~Nested(k) /\ dir[dir[k].parent].driver # q.want
  <2>1. MountPlanned(q) /\ q.pc = "batch" /\ q.kind = "placement" BY DEF Places, PolicyBatch
  <2>2. Active(q.dir) /\ dir[q.dir].place = q.rev BY <1>7, <2>1 DEF IntentHolds, Revision
  <2> QED BY <1>1, <1>7, <2>1, <2>2 DEF MountPlanned, MountHolds
<1>9. q.mount = "inherited" => k # Root /\ dir[dir[k].parent].driver = q.want
  BY <1>1, <1>7 DEF MountHolds
<1>10. q.mount = "default" => k = Root BY <1>1, <1>7 DEF MountHolds
<1>11. q.mount \in {"default", "mount", "inherited"} BY DEF Places, PolicyBatch, PolicyRequests
<1>12. CASE d = k
  <2>1. q.mount = "mount" => \A x \in Above(Parents, d) \ {d} : dir'[x].mount # "mount"
    BY <1>4, <1>6, <1>8, <1>12, AncestorsAbove DEF Nested
  <2> QED BY <1>2, <1>4, <1>5, <1>8, <1>9, <1>10, <1>11, <1>12, <2>1 DEF MountOk
<1>13. CASE d # k
  <2>1. dir'[d] = dir[d] BY <1>4, <1>13
  <2>2. ASSUME NEW x \in Above(Parents, d) \ {d}, dir[x].mount # "mount"
        PROVE  dir'[x].mount # "mount"
    <3>1. CASE x # k BY <1>4, <1>6, <2>2, <3>1
    <3>2. CASE x = k
      <4>1. SUFFICES ASSUME q.mount = "mount" PROVE FALSE BY <1>4, <3>2
      <4>2. HasNoEntry(k) /\ k \in Dirs BY <1>6, <1>8, <3>2, <4>1
      <4>3. d = k BY <1>3, <3>2, <4>2, NothingBelow
      <4> QED BY <1>13, <4>3
    <3> QED BY <3>1, <3>2
  <2> QED BY <1>2, <1>3, <1>5, <2>1, <2>2 DEF MountOk
<1> QED BY <1>12, <1>13

LEMMA MountedStep ==
  ASSUME TypeOK, RowInv, Linked, Rooted, Placed, Mounted, Writes, ~mislaid PROVE Mounted'
<1>1. CASE Still
  <2>1. Parents' = Parents BY <1>1, SameTreeSteps, SameTreeParents
  <2> QED BY <1>1, <2>1, MountedSame DEF Still
<1>2. ASSUME NEW q, Puts(q) PROVE Mounted'
  <2>1. Parents' = Parents BY <1>2, SameTreeSteps, SameTreeParents
  <2>2. \A x \in Dirs : /\ dir'[x].driver = dir[x].driver /\ dir'[x].mount = dir[x].mount
                        /\ dir'[x].state = "active" => dir[x].state = "active"
    BY <1>2 DEF Puts, PutEffect, BumpTo
  <2> QED BY <2>1, <2>2, MountedSame
<1>3. ASSUME NEW q, Removes(q) PROVE Mounted'
  <2>1. \A x \in Dirs : /\ dir'[x].driver = dir[x].driver /\ dir'[x].mount = dir[x].mount
                        /\ dir'[x].state = "active" => dir[x].state = "active"
    BY <1>3 DEF Removes, RemoveEffect, BumpTo, TombTo
  <2>2. \A x \in Dirs : dir'[x].parent = dir[x].parent
    BY <1>3 DEF Removes, RemoveEffect, BumpTo, TombTo
  <2>3. Parents' = Parents BY <2>2 DEF Parents
  <2> QED BY <2>1, <2>3, MountedSame
<1>4. ASSUME NEW q, Grants(q) PROVE Mounted'
  <2>1. Parents' = Parents BY <1>4, SameTreeSteps, SameTreeParents
  <2>2. ASSUME NEW x \in Dirs
        PROVE  /\ dir'[x].driver = dir[x].driver /\ dir'[x].mount = dir[x].mount
               /\ dir'[x].state = "active" => dir[x].state = "active"
    <3>1. CASE x = q.dir BY <1>4, <3>1 DEF Grants, AclEffect
    <3>2. CASE x # q.dir BY <1>4, <3>2 DEF Grants, AclEffect
    <3> QED BY <3>1, <3>2
  <2> QED BY <2>1, <2>2, MountedSame
<1> QED BY <1>1, <1>2, <1>3, <1>4, MountedMkdir, MountedRename, MountedPlacement DEF Writes

LEMMA MountPlannedKept ==
  ASSUME TypeOK, RowInv, Linked, Placed, Writes, Typed,
         NEW v \in PolicyRequests, PolicySound(v), MountPlanned(v)
  PROVE  MountPlanned(v)'
<1>1. PICK d : d = v.dir OBVIOUS
<1>2. SUFFICES ASSUME v.pc = "batch", v.kind = "placement", v.mount = "mount",
                      d \in Dirs, dir'[d].state = "active", dir'[d].place = v.rev
               PROVE  d # Root /\ dir'[dir'[d].parent].driver # v.want
  BY <1>1 DEF MountPlanned, Active
<1>3. Created(d) /\ v.rev <= dir[d].place
  BY <1>1, <1>2 DEF PolicySound, PolicyListed, Revision
<1>4. Grown(d) BY <1>2, <1>3, WritesGrow DEF Grows
<1>5. dir[d].place \in Nat /\ v.rev \in Nat BY <1>2, RowNumbers DEF PolicyRequests
<1>6. dir[d].place <= dir'[d].place BY <1>4 DEF Grown
<1>7. dir[d].place = v.rev BY <1>2, <1>3, <1>5, <1>6
<1>8. dir[d].state = "active"
  <2>1. dir[d].state \in {"none", "active", "tombstoned"} BY <1>2 DEF TypeOK, DirectoryRows
  <2> QED BY <1>2, <1>3, <1>4, <2>1 DEF Grown, Created
<1>9. d # Root /\ dir[dir[d].parent].driver # v.want
  BY <1>1, <1>2, <1>7, <1>8 DEF MountPlanned, Active
<1>10. Active(d) BY <1>2, <1>8 DEF Active
<1> QED BY <1>2, <1>9, <1>10, ParentDriverKept

-----------------------------------------------------------------------------
(* What the revision of a directory covers *)

\* Nothing that an answer about d counts has changed.
SameBelow(d) ==
  /\ \A n \in Names : entry'[d][n] = entry[d][n]
  /\ \A x \in Dirs : (Active(x) /\ dir[x].parent = d)' <=> (Active(x) /\ dir[x].parent = d)
  /\ \A x \in Dirs : d \in Above(Parents', x) /\ (x = d \/ Active(x)')
                       <=> d \in Above(Parents, x) /\ (x = d \/ Active(x))
  /\ \A x \in Dirs, n \in Names : d \in Above(Parents, x) =>
       (entry'[x][n].kind = "file" <=> entry[x][n].kind = "file")

LEMMA DescendantsBelow ==
  ASSUME NEW d
  PROVE  Descendants(d) = {x \in Dirs : d \in Above(Parents, x) /\ (x = d \/ Active(x))}
BY AncestorsAbove DEF Descendants

LEMMA DescendantsBelowNext ==
  ASSUME NEW d
  PROVE  Descendants(d)' = {x \in Dirs : d \in Above(Parents', x) /\ (x = d \/ Active(x)')}
BY AncestorsAboveNext DEF Descendants

LEMMA CountsSame == ASSUME NEW d \in Dirs, SameBelow(d) PROVE Counts(d)' = Counts(d)
<1>1. {x \in Dirs : Active(x) /\ dir[x].parent = d}' = {x \in Dirs : Active(x) /\ dir[x].parent = d}
  BY DEF SameBelow
<1>2. Descendants(d)' = Descendants(d)
  BY DescendantsBelow, DescendantsBelowNext DEF SameBelow
<1>3. PICK D : D = Descendants(d) OBVIOUS
<1>4. \A x \in D : x \in Dirs /\ d \in Above(Parents, x) BY <1>3, DescendantsBelow
<1>5. \A f \in D \X Names : entry'[f[1]][f[2]].kind = "file" <=> entry[f[1]][f[2]].kind = "file"
  <2> SUFFICES ASSUME NEW f \in D \X Names
               PROVE  entry'[f[1]][f[2]].kind = "file" <=> entry[f[1]][f[2]].kind = "file"
    OBVIOUS
  <2>1. f[1] \in D /\ f[2] \in Names OBVIOUS
  <2> QED BY <1>4, <2>1 DEF SameBelow
<1>6. {f \in D \X Names : entry'[f[1]][f[2]].kind = "file"}
        = {f \in D \X Names : entry[f[1]][f[2]].kind = "file"}
  BY <1>5
<1> QED BY <1>1, <1>2, <1>3, <1>6 DEF Counts

LEMMA EntriesSame == ASSUME NEW d \in Dirs, SameBelow(d) PROVE EntriesOf(d)' = EntriesOf(d)
<1>1. \A n \in Names : entry'[d][n] = entry[d][n] BY DEF SameBelow
<1>2. {m \in Names : entry'[d][m] # NoEntry} = {m \in Names : entry[d][m] # NoEntry} BY <1>1
<1> QED BY <1>1, <1>2 DEF EntriesOf

\* Outside the planned directories a batch changes no entry, and below such a
\* directory no file comes or goes.
LEMMA BatchEntries ==
  ASSUME TypeOK, RowInv, Placed, NEW q, Batch(q), RowsCurrent(q), Elsewhere(q),
         NEW d \in Dirs \ LoadedDirs(q)
  PROVE  /\ \A n \in Names : entry'[d][n] = entry[d][n]
         /\ \A x \in Dirs, n \in Names : d \in Above(Parents, x) =>
              (entry'[x][n].kind = "file" <=> entry[x][n].kind = "file")
<1>1. PICK L : L = LoadedDirs(q) OBVIOUS
<1>2. /\ L \in SUBSET Dirs /\ Closed(Parents, L) /\ q.dir \in L
      /\ q.op = "rename" => q.dst \in L
  BY <1>1, BatchBranch
<1>3. ASSUME NEW x \in Dirs \ L, NEW n \in Names PROVE LinkTo(q, entry[x][n], entry'[x][n])
  BY <1>2, <1>3 DEF Elsewhere, Touched
<1>4. ASSUME NEW n \in Names PROVE entry'[d][n] = entry[d][n]
  <2>1. LinkTo(q, entry[d][n], entry'[d][n]) BY <1>1, <1>3
  <2>2. SUFFICES ASSUME entry[d][n].kind = "directory", q.rows[entry[d][n].subject] # 0 PROVE FALSE
    BY <2>1 DEF LinkTo
  <2>3. PICK c : c = entry[d][n].subject OBVIOUS
  <2>4. entry[d][n] # NoEntry BY <2>2 DEF NoEntry, Entry
  <2>5. c \in Dirs /\ dir[c].parent = d BY <2>2, <2>3, <2>4 DEF Placed, Active
  <2>6. c \in L BY <1>1, <2>2, <2>3, <2>5 DEF LoadedDirs
  <2>7. d \in L \cup {Nowhere} BY <1>2, <2>5, <2>6 DEF Closed, Parents
  <2> QED BY <1>1, <2>7, Assumed
<1>5. ASSUME NEW x \in Dirs, NEW n \in Names, d \in Above(Parents, x)
      PROVE  entry'[x][n].kind = "file" <=> entry[x][n].kind = "file"
  <2>1. x \notin L BY <1>1, <1>2, <1>5, AboveIn
  <2> QED BY <1>3, <2>1 DEF LinkTo
<1> QED BY <1>4, <1>5

LEMMA FencedMkdir ==
  ASSUME TypeOK, RowInv, Placed, NEW q, NEW c \in Dirs, Mkdirs(q, c), Typed,
         NEW d \in Dirs, Active(d), dir'[d].rev = dir[d].rev
  PROVE  SameBelow(d)
<1>1. PICK L : L = LoadedDirs(q) OBVIOUS
<1>2. RowsCurrent(q) /\ Batch(q) /\ Elsewhere(q) BY DEF Mkdirs, MkdirEffect, MkdirCommits
<1>3. L \in SUBSET Dirs /\ Closed(Parents, L) /\ q.dir \in L BY <1>1, <1>2, BatchBranch
<1>4. d # c BY UnbornState DEF Mkdirs, MkdirEffect, Active
<1>5. \A x \in Dirs : x # c => BumpTo(q, x, dir'[x]) BY DEF Mkdirs, MkdirEffect
<1>6. d \notin L
  <2>1. dir[d].rev \in Nat BY RowNumbers
  <2>2. dir[d].rev # dir[d].rev + 1 BY <2>1
  <2> QED BY <1>1, <1>4, <1>5, <2>2 DEF LoadedDirs, BumpTo
<1>7. Parents \in ParentMaps /\ Parents' \in ParentMaps BY ParentsType, ParentsTypeNext
<1>8. Parents[c] = Nowhere BY DEF Mkdirs, MkdirEffect, Parents, Unborn, Directory
<1>9. Parents'[c] = q.dir BY DEF Mkdirs, MkdirEffect, Parents, Directory
<1>10. \A x \in Dirs : x # c => Parents'[x] = Parents[x] BY <1>5 DEF BumpTo, Parents
<1>11. \A x \in Dirs : d \in Above(Parents, x) <=> d \in Above(Parents', x)
  BY <1>3, <1>6, <1>7, <1>8, <1>9, <1>10, AboveSame
<1>12. \A x \in Dirs : x # c => (Active(x)' <=> Active(x)) BY <1>5 DEF BumpTo, Active
<1>13. d \notin Above(Parents, c)
  <2>1. Closed(Parents, {c}) BY <1>8 DEF Closed
  <2> QED BY <1>4, <2>1, AboveIn
<1>14. ~Active(c) BY UnbornState DEF Mkdirs, MkdirEffect, Active
<1>15. ASSUME NEW x \in Dirs
       PROVE  (Active(x) /\ dir[x].parent = d)' <=> (Active(x) /\ dir[x].parent = d)
  <2>1. CASE x = c
    <3>1. dir'[c].parent = q.dir BY DEF Mkdirs, MkdirEffect, Directory
    <3> QED BY <1>3, <1>6, <1>14, <2>1, <3>1
  <2>2. CASE x # c BY <1>5, <1>12, <2>2 DEF BumpTo
  <2> QED BY <2>1, <2>2
<1>16. \A x \in Dirs : d \in Above(Parents', x) /\ (x = d \/ Active(x)')
                       <=> d \in Above(Parents, x) /\ (x = d \/ Active(x))
  BY <1>4, <1>11, <1>12, <1>13
<1>17. /\ \A n \in Names : entry'[d][n] = entry[d][n]
       /\ \A x \in Dirs, n \in Names : d \in Above(Parents, x) =>
            (entry'[x][n].kind = "file" <=> entry[x][n].kind = "file")
  BY <1>1, <1>2, <1>6, BatchEntries
<1> QED BY <1>15, <1>16, <1>17 DEF SameBelow

LEMMA FencedRemove ==
  ASSUME TypeOK, RowInv, Placed, NEW q, Removes(q), Typed, ~mislaid',
         NEW d \in Dirs, Active(d), dir'[d].rev = dir[d].rev
  PROVE  SameBelow(d)
<1>1. PICK L : L = LoadedDirs(q) OBVIOUS
<1>2. RowsCurrent(q) /\ Batch(q) /\ Elsewhere(q) BY DEF Removes, RemoveEffect, RemoveCommits
<1>3. L \in SUBSET Dirs /\ Closed(Parents, L) /\ q.dir \in L BY <1>1, <1>2, BatchBranch
<1>4. dir[d].rev # dir[d].rev + 1
  <2>1. dir[d].rev \in Nat BY RowNumbers
  <2> QED BY <2>1
<1>5. ~Removed(q, d) BY <1>4 DEF Removes, RemoveEffect, TombTo
<1>6. d \notin L BY <1>1, <1>4, <1>5 DEF Removes, RemoveEffect, LoadedDirs, BumpTo
<1>7. \A x \in Dirs : dir'[x].parent = dir[x].parent BY DEF Removes, RemoveEffect, TombTo, BumpTo
<1>8. Parents' = Parents BY <1>7 DEF Parents
<1>9. \A x \in Dirs : ~Removed(q, x) => (Active(x)' <=> Active(x))
  BY DEF Removes, RemoveEffect, BumpTo, Active
<1>10. ASSUME NEW c \in Dirs, Removed(q, c) PROVE dir[c].parent = q.dir /\ d \notin Above(Parents, c)
  <2>1. entry[q.dir][q.name].subject = c BY <1>10 DEF Removed, Removes, RemoveEffect
  <2>2. q.dir \in Dirs /\ q.name \in Names BY <1>2, BatchCreated
  <2>3. dir[c].parent = q.dir BY <2>1, <2>2, DirectoryEntry DEF Placed
  <2>4. Closed(Parents, L \cup {c}) BY <1>3, <2>3 DEF Closed, Parents
  <2>5. Above(Parents, c) \subseteq L \cup {c} BY <1>3, <2>4, AboveIn
  <2>6. d # c BY <1>5, <1>10
  <2> QED BY <1>6, <2>3, <2>5, <2>6
<1>11. ASSUME NEW x \in Dirs
       PROVE  (Active(x) /\ dir[x].parent = d)' <=> (Active(x) /\ dir[x].parent = d)
  <2>1. CASE Removed(q, x) BY <1>3, <1>6, <1>7, <1>10, <2>1
  <2>2. CASE ~Removed(q, x) BY <1>7, <1>9, <2>2
  <2> QED BY <2>1, <2>2
<1>12. \A x \in Dirs : d \in Above(Parents', x) /\ (x = d \/ Active(x)')
                       <=> d \in Above(Parents, x) /\ (x = d \/ Active(x))
  BY <1>8, <1>9, <1>10
<1>13. /\ \A n \in Names : entry'[d][n] = entry[d][n]
       /\ \A x \in Dirs, n \in Names : d \in Above(Parents, x) =>
            (entry'[x][n].kind = "file" <=> entry[x][n].kind = "file")
  BY <1>1, <1>2, <1>6, BatchEntries
<1> QED BY <1>11, <1>12, <1>13 DEF SameBelow

LEMMA FencedRename ==
  ASSUME TypeOK, RowInv, Placed, NEW q, Renames(q), Typed,
         NEW d \in Dirs, Active(d), dir'[d].rev = dir[d].rev
  PROVE  SameBelow(d)
<1>1. PICK L : L = LoadedDirs(q) OBVIOUS
<1>2. RowsCurrent(q) /\ Batch(q) /\ Elsewhere(q) /\ q.op = "rename"
  BY DEF Renames, RenameEffect, RenameCommits
<1>3. L \in SUBSET Dirs /\ Closed(Parents, L) /\ q.dir \in L /\ q.dst \in L
  BY <1>1, <1>2, BatchBranch
<1>4. dir[d].rev # dir[d].rev + 1
  <2>1. dir[d].rev \in Nat BY RowNumbers
  <2> QED BY <2>1
<1>5. ~Moved(q, d) BY <1>4 DEF Renames, RenameEffect, MoveTo
<1>6. d \notin L BY <1>1, <1>4, <1>5 DEF Renames, RenameEffect, LoadedDirs, BumpTo
<1>7. \A x \in Dirs : Active(x)' <=> Active(x)
  BY DEF Renames, RenameEffect, BumpTo, MoveTo, Active
<1>8. Parents \in ParentMaps /\ Parents' \in ParentMaps BY ParentsType, ParentsTypeNext
<1>9. ASSUME NEW x \in Dirs, ~Moved(q, x) PROVE dir'[x].parent = dir[x].parent
  BY <1>9 DEF Renames, RenameEffect, BumpTo
<1>10. ASSUME NEW c \in Dirs, Moved(q, c) PROVE dir[c].parent = q.dir /\ dir'[c].parent = q.dst
  <2>1. entry[q.dir][q.name] = q.loaded /\ q.loaded # NoEntry
    BY DEF Renames, RenameEffect, RenameCommits, SourceIsLoaded, Batch, Asks
  <2>2. q.dir \in Dirs /\ q.name \in Names BY <1>2, BatchCreated
  <2>3. dir[c].parent = q.dir BY <1>10, <2>1, <2>2 DEF Placed, Moved
  <2> QED BY <1>10, <2>3 DEF Renames, RenameEffect, MoveTo
<1>11. \A x \in Dirs : d \in Above(Parents, x) <=> d \in Above(Parents', x)
  <2>1. CASE \A c \in Dirs : ~Moved(q, c)
    <3>1. Parents' = Parents BY <1>9, <2>1 DEF Parents
    <3> QED BY <3>1
  <2>2. ASSUME NEW c \in Dirs, Moved(q, c)
        PROVE  \A x \in Dirs : d \in Above(Parents, x) <=> d \in Above(Parents', x)
    <3>1. \A x \in Dirs : x # c => Parents'[x] = Parents[x]
      BY <1>9, <2>2 DEF Moved, Parents
    <3>2. Parents[c] = q.dir /\ Parents'[c] = q.dst BY <1>10, <2>2 DEF Parents
    <3> QED BY <1>3, <1>6, <1>8, <3>1, <3>2, AboveSame
  <2> QED BY <2>1, <2>2
<1>12. ASSUME NEW x \in Dirs
       PROVE  (Active(x) /\ dir[x].parent = d)' <=> (Active(x) /\ dir[x].parent = d)
  <2>1. CASE Moved(q, x) BY <1>3, <1>6, <1>10, <2>1
  <2>2. CASE ~Moved(q, x) BY <1>7, <1>9, <2>2
  <2> QED BY <2>1, <2>2
<1>13. \A x \in Dirs : d \in Above(Parents', x) /\ (x = d \/ Active(x)')
                       <=> d \in Above(Parents, x) /\ (x = d \/ Active(x))
  BY <1>7, <1>11
<1>14. /\ \A n \in Names : entry'[d][n] = entry[d][n]
       /\ \A x \in Dirs, n \in Names : d \in Above(Parents, x) =>
            (entry'[x][n].kind = "file" <=> entry[x][n].kind = "file")
  BY <1>1, <1>2, <1>6, BatchEntries
<1> QED BY <1>12, <1>13, <1>14 DEF SameBelow

\* Every change of the entries of a directory, or of what lies below it,
\* raises its revision.
LEMMA Fenced ==
  ASSUME TypeOK, RowInv, Placed, Writes, Typed, ~mislaid',
         NEW d \in Dirs, Active(d), dir'[d].rev = dir[d].rev
  PROVE  SameBelow(d)
<1>1. ASSUME SameTree, entry' = entry PROVE SameBelow(d)
  BY <1>1, SameTreeParents DEF SameTree, SameBelow, Active
<1>2. ASSUME NEW q, Puts(q) PROVE SameBelow(d)
  <2>1. SameTree /\ Parents' = Parents BY <1>2, SameTreeSteps, SameTreeParents
  <2>2. RowsCurrent(q) /\ Batch(q) /\ Elsewhere(q) BY <1>2 DEF Puts, PutEffect, PutCommits
  <2>3. d \notin LoadedDirs(q)
    <3>1. dir[d].rev \in Nat BY RowNumbers
    <3>2. dir[d].rev # dir[d].rev + 1 BY <3>1
    <3> QED BY <1>2, <3>2 DEF Puts, PutEffect, LoadedDirs, BumpTo
  <2>4. /\ \A n \in Names : entry'[d][n] = entry[d][n]
        /\ \A x \in Dirs, n \in Names : d \in Above(Parents, x) =>
             (entry'[x][n].kind = "file" <=> entry[x][n].kind = "file")
    BY <2>2, <2>3, BatchEntries
  <2> QED BY <2>1, <2>4 DEF SameTree, SameBelow, Active
<1>3. Still => SameTree /\ entry' = entry BY SameTreeSteps DEF Still
<1>4. ASSUME NEW q, Places(q) \/ Grants(q) PROVE SameTree /\ entry' = entry
  BY <1>4, SameTreeSteps DEF Places, Grants, PlacementEffect, AclEffect
<1> QED BY <1>1, <1>2, <1>3, <1>4, FencedMkdir, FencedRemove, FencedRename DEF Writes
-----------------------------------------------------------------------------
(* The steps of a read *)

\* Revisions never go back.
NoNewer(v, d) == v.revs[1] <= dir[d].rev /\ v.revs[2] <= dir[d].acl /\ v.revs[3] <= dir[d].place

Same(v, d) == v.parent = dir[d].parent /\ v.name = dir[d].name /\ v.counts = Counts(d)

SnapSame(s, d) ==
  /\ Same(s, d) /\ s.revs = Revisions(d) /\ s.driver = dir[d].driver /\ s.mount = dir[d].mount
  /\ s.entries = EntriesOf(d)

\* While the three revisions are those that were read, so is all the rest.
Behind(q) ==
  Active(q.dir) /\ Revisions(q.dir) = q.view.revs =>
    /\ Same(q.view, q.dir)
    /\ q.pc # "path" => SnapSame(q.snap, q.dir) /\ q.view.path = q.snap.path
    /\ q.pc \notin {"path", "placement"} => q.view.driver = dir[q.dir].driver
    /\ q.pc \notin {"path", "placement", "mount"} => q.view.mount = dir[q.dir].mount
    /\ q.pc = "fence" => q.view.entries = EntriesOf(q.dir)

\* The pages so far come before the rest of the entries.
PagedOf(E, got) == got \subseteq E /\ \A g \in got : \A e \in E \ got : Before(g, e)

Paged(q) ==
  Active(q.dir) /\ dir[q.dir].rev = q.view.revs[1] =>
    /\ EntriesOf(q.dir) = q.snap.entries
    /\ PagedOf(q.snap.entries, q.got)
    /\ q.pc = "last" => q.got = q.snap.entries

Early == {"path", "placement", "mount", "entries", "fence"}
Late == {"answered", "page", "more", "last"}

ReadOf(q) ==
  /\ q.pc \in Early \cup Late => Created(q.dir) /\ NoNewer(q.view, q.dir)
  /\ q.pc \in Early => q.got = {}
  /\ ~mislaid /\ q.pc \in Early => Behind(q)
  /\ ~mislaid /\ q.pc \in Late => q.view = q.snap /\ Paged(q)
  /\ ~mislaid /\ q.pc = "complete" => q.view = q.snap /\ q.got = q.snap.entries

ReadInv == \A x \in Readers : ReadOf(rd[x])

TakesRead(x) == \E v \in Reads : rd' = [rd EXCEPT ![x] = v] /\ ReadOf(v)

LEMMA CountsType == ASSUME NEW d \in Dirs PROVE Counts(d) \in Int \X Int \X Int
<1>1. PICK C : C = {x \in Dirs : Active(x) /\ dir[x].parent = d} OBVIOUS
<1>2. PICK D : D = Descendants(d) OBVIOUS
<1>3. PICK F : F = {f \in D \X Names : entry[f[1]][f[2]].kind = "file"} OBVIOUS
<1>4. C \in SUBSET Dirs BY <1>1
<1>5. D \in SUBSET Dirs BY <1>2 DEF Descendants
<1>6. F \in SUBSET (D \X Names) BY <1>3
<1>7. IsFiniteSet(C) /\ IsFiniteSet(D) BY <1>4, <1>5, Assumed, FS_Subset
<1>8. IsFiniteSet(D \X Names) BY <1>7, Assumed, FS_Product
<1>9. IsFiniteSet(F) BY <1>6, <1>8, FS_Subset
<1>10. Cardinality(C) \in Nat /\ Cardinality(D) \in Nat /\ Cardinality(F) \in Nat
  BY <1>7, <1>9, FS_CardinalityType
<1>11. Counts(d) = <<Cardinality(C), Cardinality(D) - 1, Cardinality(F)>>
  BY <1>1, <1>2, <1>3 DEF Counts
<1> QED BY <1>10, <1>11

LEMMA EntriesOfType == ASSUME TypeOK, NEW d \in Dirs PROVE EntriesOf(d) \in SUBSET (Names \X EntryRows)
<1>1. \A n \in Names : entry[d][n] \in EntryRows BY DEF TypeOK
<1> QED BY <1>1 DEF EntriesOf

LEMMA PathType == ASSUME TypeOK, NEW d \in Dirs PROVE Path(d) \in SUBSET (Dirs \X (Names \cup {0}))
<1>1. \A x \in Dirs : dir[x].name \in Names \cup {0} BY DEF TypeOK, DirectoryRows
<1>2. Ancestors(d) \subseteq Dirs BY DEF Ancestors
<1> QED BY <1>1, <1>2 DEF Path

LEMMA RevisionsType ==
  ASSUME TypeOK, NEW d \in Dirs
  PROVE  /\ Revisions(d) \in Nat \X Nat \X Nat
         /\ Revisions(d)[1] = dir[d].rev /\ Revisions(d)[2] = dir[d].acl /\ Revisions(d)[3] = dir[d].place
BY RowNumbers DEF Revisions

LEMMA ColumnsType ==
  ASSUME TypeOK, NEW d \in Dirs
  PROVE  /\ dir[d].parent \in Dirs \cup {Nowhere} /\ dir[d].name \in Names \cup {0}
         /\ dir[d].driver \in Drivers \cup {Nowhere}
         /\ dir[d].mount \in {"default", "mount", "inherited"}
BY DEF TypeOK, DirectoryRows

LEMMA SnapshotType ==
  ASSUME TypeOK, NEW d \in Dirs, NEW s, s = Snapshot(d)
  PROVE  s \in Views /\ SnapSame(s, d) /\ s.path = Path(d)
<1>1. s = [revs |-> Revisions(d), parent |-> dir[d].parent, name |-> dir[d].name, counts |-> Counts(d),
           path |-> Path(d), driver |-> dir[d].driver, mount |-> dir[d].mount,
           entries |-> EntriesOf(d)]
  BY DEF Snapshot
<1>2. s \in Views
  BY <1>1, CountsType, EntriesOfType, PathType, RevisionsType, ColumnsType DEF Views
<1>3. SnapSame(s, d) /\ s.path = Path(d) BY <1>1 DEF SnapSame, Same
<1> QED BY <1>2, <1>3

\* A reader that is under way.
LEMMA ReaderType ==
  ASSUME TypeOK, ReadInv, NEW x \in Readers
  PROVE  rd[x] \in Reads /\ ReadOf(rd[x]) /\ (rd[x].pc \in Early \cup Late => rd[x].dir \in Dirs)
<1>1. rd[x] \in Reads BY DEF TypeOK
<1>2. ReadOf(rd[x]) BY DEF ReadInv
<1> QED BY <1>1, <1>2 DEF ReadOf, Created

\* A read that has ended owes nothing.
LEMMA ReadDone == ASSUME NEW q, q.pc \in {"done", "new"} PROVE ReadOf(q)
BY DEF ReadOf, Early, Late

LEMMA ReadRowTakes ==
  ASSUME TypeOK, NEW x \in Readers, NEW d \in Dirs, ReadRow(x, d) PROVE TakesRead(x)
<1>1. PICK w : w = [NoView EXCEPT !.revs = Revisions(d), !.parent = dir[d].parent,
                                  !.name = dir[d].name, !.counts = Counts(d)]
  OBVIOUS
<1>2. /\ w.revs = Revisions(d) /\ w.parent = dir[d].parent /\ w.name = dir[d].name
      /\ w.counts = Counts(d)
  BY <1>1 DEF NoView
<1>3. w \in Views
  <2>1. NoView \in Views BY NoViewType
  <2> QED BY <1>1, <2>1, CountsType, RevisionsType, ColumnsType DEF Views
<1>4. PICK v : v = Read("path", d, w) OBVIOUS
<1>5. v \in Reads BY <1>3, <1>4, ReadType
<1>6. v.pc = "path" /\ v.dir = d /\ v.view = w /\ v.got = {} BY <1>4 DEF Read
<1>7. rd' = [rd EXCEPT ![x] = v] BY <1>1, <1>4 DEF ReadRow
<1>8. Created(d) BY DEF ReadRow, Active, Created
<1>9. NoNewer(w, d)
  <2>1. w.revs[1] = dir[d].rev /\ w.revs[2] = dir[d].acl /\ w.revs[3] = dir[d].place
    BY <1>2, RevisionsType
  <2> QED BY <2>1, RowNumbers DEF NoNewer
<1>10. Behind(v) BY <1>2, <1>6 DEF Behind, Same
<1>11. ReadOf(v) BY <1>6, <1>8, <1>9, <1>10 DEF ReadOf, Early, Late
<1> QED BY <1>5, <1>7, <1>11 DEF TakesRead

LEMMA ReadPathTakes ==
  ASSUME TypeOK, ReadInv, NEW x \in Readers, ReadPath(x) PROVE TakesRead(x)
<1>1. PICK q : q = rd[x] OBVIOUS
<1>2. q.pc = "path" BY <1>1 DEF ReadPath
<1>3. q \in Reads /\ ReadOf(q) /\ q.dir \in Dirs BY <1>1, <1>2, ReaderType DEF Early
<1>4. PICK d : d = q.dir OBVIOUS
<1>5. PICK s : s = Snapshot(d) OBVIOUS
<1>6. s \in Views /\ SnapSame(s, d) /\ s.path = Path(d) BY <1>3, <1>4, <1>5, SnapshotType
<1>7. PICK w : w = [q.view EXCEPT !.path = Path(d)] OBVIOUS
<1>8. /\ w.revs = q.view.revs /\ w.parent = q.view.parent /\ w.name = q.view.name
      /\ w.counts = q.view.counts /\ w.path = Path(d) /\ w \in Views
  <2>1. q.view \in Views BY <1>3 DEF Reads
  <2>2. Path(d) \in SUBSET (Dirs \X (Names \cup {0})) BY <1>3, <1>4, PathType
  <2> QED BY <1>7, <2>1, <2>2 DEF Views
<1>9. PICK v : v = [q EXCEPT !.pc = "placement", !.view = w, !.snap = s] OBVIOUS
<1>10. v \in Reads BY <1>3, <1>6, <1>8, <1>9 DEF Reads
<1>11. v.pc = "placement" /\ v.dir = d /\ v.view = w /\ v.snap = s /\ v.got = q.got
  BY <1>3, <1>4, <1>9 DEF Reads
<1>12. rd' = [rd EXCEPT ![x] = v]
  BY <1>1, <1>4, <1>5, <1>7, <1>9 DEF ReadPath
<1>13. Created(d) /\ NoNewer(q.view, d) /\ q.got = {} /\ (~mislaid => Behind(q))
  BY <1>2, <1>3, <1>4 DEF ReadOf, Early
<1>14. NoNewer(w, d) BY <1>8, <1>13 DEF NoNewer
<1>15. Behind(q) => Behind(v) BY <1>4, <1>6, <1>8, <1>11 DEF Behind, Same
<1>16. ReadOf(v) BY <1>11, <1>13, <1>14, <1>15 DEF ReadOf, Early, Late
<1> QED BY <1>10, <1>12, <1>16 DEF TakesRead

\* What a statement leaves of the record.
Stepped(q, v, to, w) ==
  v \in Reads /\ v.pc = to /\ v.dir = q.dir /\ v.view = w /\ v.snap = q.snap /\ v.got = q.got

LEMMA ReadStepTakes ==
  ASSUME TypeOK, NEW x \in Readers, NEW from, NEW w \in Views,
         NEW to \in {"new", "path", "placement", "mount", "entries", "fence", "answered", "page",
                     "more", "last", "complete", "done"},
         ReadStep(x, from, to, w)
  PROVE  /\ rd[x].pc = from
         /\ \E v : rd' = [rd EXCEPT ![x] = v] /\ Stepped(rd[x], v, to, w)
<1>1. PICK q : q = rd[x] OBVIOUS
<1>2. q \in Reads BY <1>1 DEF TypeOK
<1>3. PICK v : v = [q EXCEPT !.pc = to, !.view = w] OBVIOUS
<1>4. rd' = [rd EXCEPT ![x] = v] BY <1>1, <1>3 DEF ReadStep
<1>5. Stepped(q, v, to, w) BY <1>2, <1>3 DEF Reads, Stepped
<1>6. rd[x].pc = from BY DEF ReadStep
<1> QED BY <1>1, <1>4, <1>5, <1>6

\* A statement that ends the read.
LEMMA ReadEnds ==
  ASSUME TypeOK, NEW x \in Readers, NEW from, ReadStep(x, from, "done", rd[x].view)
  PROVE  TakesRead(x)
<1>1. rd[x].view \in Views BY DEF TypeOK, Reads
<1>2. PICK v : rd' = [rd EXCEPT ![x] = v] /\ Stepped(rd[x], v, "done", rd[x].view)
  BY <1>1, ReadStepTakes
<1>3. v \in Reads /\ v.pc = "done" BY <1>2 DEF Stepped
<1>4. ReadOf(v) BY <1>3, ReadDone
<1> QED BY <1>2, <1>3, <1>4 DEF TakesRead

LEMMA ReadPlacementTakes ==
  ASSUME TypeOK, ReadInv, NEW x \in Readers, ReadPlacement(x) PROVE TakesRead(x)
<1>1. PICK q : q = rd[x] OBVIOUS
<1>2. q.pc = "placement" BY <1>1 DEF ReadPlacement, ReadStep
<1>3. q \in Reads /\ ReadOf(q) /\ q.dir \in Dirs BY <1>1, <1>2, ReaderType DEF Early
<1>4. PICK w : w = [q.view EXCEPT !.driver = dir[q.dir].driver] OBVIOUS
<1>5. /\ w.revs = q.view.revs /\ w.parent = q.view.parent /\ w.name = q.view.name
      /\ w.counts = q.view.counts /\ w.path = q.view.path /\ w.driver = dir[q.dir].driver
      /\ w \in Views
  <2>1. q.view \in Views BY <1>3 DEF Reads
  <2>2. dir[q.dir].driver \in Drivers \cup {Nowhere} BY <1>3, ColumnsType
  <2> QED BY <1>4, <2>1, <2>2 DEF Views
<1>6. ReadStep(x, "placement", "mount", w) BY <1>1, <1>4 DEF ReadPlacement
<1>7. PICK v : rd' = [rd EXCEPT ![x] = v] /\ Stepped(q, v, "mount", w)
  BY <1>1, <1>5, <1>6, ReadStepTakes
<1>8. v \in Reads /\ v.pc = "mount" /\ v.dir = q.dir /\ v.view = w /\ v.snap = q.snap /\ v.got = q.got
  BY <1>7 DEF Stepped
<1>9. Created(q.dir) /\ NoNewer(q.view, q.dir) /\ q.got = {} /\ (~mislaid => Behind(q))
  BY <1>2, <1>3 DEF ReadOf, Early
<1>10. NoNewer(w, q.dir) BY <1>5, <1>9 DEF NoNewer
<1>11. Behind(q) => Behind(v) BY <1>2, <1>5, <1>8 DEF Behind, Same
<1>12. ReadOf(v) BY <1>8, <1>9, <1>10, <1>11 DEF ReadOf, Early, Late
<1> QED BY <1>7, <1>8, <1>12 DEF TakesRead

LEMMA ReadMountTakes ==
  ASSUME TypeOK, ReadInv, NEW x \in Readers, ReadMount(x) PROVE TakesRead(x)
<1>1. PICK q : q = rd[x] OBVIOUS
<1>2. q.pc = "mount" /\ dir[q.dir].driver = q.view.driver BY <1>1 DEF ReadMount
<1>3. q \in Reads /\ ReadOf(q) /\ q.dir \in Dirs BY <1>1, <1>2, ReaderType DEF Early
<1>4. PICK w : w = [q.view EXCEPT !.mount = dir[q.dir].mount] OBVIOUS
<1>5. /\ w.revs = q.view.revs /\ w.parent = q.view.parent /\ w.name = q.view.name
      /\ w.counts = q.view.counts /\ w.path = q.view.path /\ w.driver = q.view.driver
      /\ w.mount = dir[q.dir].mount /\ w \in Views
  <2>1. q.view \in Views BY <1>3 DEF Reads
  <2>2. dir[q.dir].mount \in {"default", "mount", "inherited"} BY <1>3, ColumnsType
  <2> QED BY <1>4, <2>1, <2>2 DEF Views
<1>6. ReadStep(x, "mount", "entries", w) BY <1>1, <1>4 DEF ReadMount
<1>7. PICK v : rd' = [rd EXCEPT ![x] = v] /\ Stepped(q, v, "entries", w)
  BY <1>1, <1>5, <1>6, ReadStepTakes
<1>8. v \in Reads /\ v.pc = "entries" /\ v.dir = q.dir /\ v.view = w /\ v.snap = q.snap /\ v.got = q.got
  BY <1>7 DEF Stepped
<1>9. Created(q.dir) /\ NoNewer(q.view, q.dir) /\ q.got = {} /\ (~mislaid => Behind(q))
  BY <1>2, <1>3 DEF ReadOf, Early
<1>10. NoNewer(w, q.dir) BY <1>5, <1>9 DEF NoNewer
<1>11. Behind(q) => Behind(v) BY <1>2, <1>5, <1>8 DEF Behind, Same
<1>12. ReadOf(v) BY <1>8, <1>9, <1>10, <1>11 DEF ReadOf, Early, Late
<1> QED BY <1>7, <1>8, <1>12 DEF TakesRead

LEMMA ReadEntriesTakes ==
  ASSUME TypeOK, ReadInv, NEW x \in Readers, ReadEntries(x) PROVE TakesRead(x)
<1>1. PICK q : q = rd[x] OBVIOUS
<1>2. q.pc = "entries" BY <1>1 DEF ReadEntries, ReadStep
<1>3. q \in Reads /\ ReadOf(q) /\ q.dir \in Dirs BY <1>1, <1>2, ReaderType DEF Early
<1>4. PICK w : w = [q.view EXCEPT !.entries = EntriesOf(q.dir)] OBVIOUS
<1>5. /\ w.revs = q.view.revs /\ w.parent = q.view.parent /\ w.name = q.view.name
      /\ w.counts = q.view.counts /\ w.path = q.view.path /\ w.driver = q.view.driver
      /\ w.mount = q.view.mount /\ w.entries = EntriesOf(q.dir) /\ w \in Views
  <2>1. q.view \in Views BY <1>3 DEF Reads
  <2>2. EntriesOf(q.dir) \in SUBSET (Names \X EntryRows) BY <1>3, EntriesOfType
  <2> QED BY <1>4, <2>1, <2>2 DEF Views
<1>6. ReadStep(x, "entries", "fence", w) BY <1>1, <1>4 DEF ReadEntries
<1>7. PICK v : rd' = [rd EXCEPT ![x] = v] /\ Stepped(q, v, "fence", w)
  BY <1>1, <1>5, <1>6, ReadStepTakes
<1>8. v \in Reads /\ v.pc = "fence" /\ v.dir = q.dir /\ v.view = w /\ v.snap = q.snap /\ v.got = q.got
  BY <1>7 DEF Stepped
<1>9. Created(q.dir) /\ NoNewer(q.view, q.dir) /\ q.got = {} /\ (~mislaid => Behind(q))
  BY <1>2, <1>3 DEF ReadOf, Early
<1>10. NoNewer(w, q.dir) BY <1>5, <1>9 DEF NoNewer
<1>11. Behind(q) => Behind(v) BY <1>2, <1>5, <1>8 DEF Behind, Same
<1>12. ReadOf(v) BY <1>8, <1>9, <1>10, <1>11 DEF ReadOf, Early, Late
<1> QED BY <1>7, <1>8, <1>12 DEF TakesRead

\* Views that agree in every column.
LEMMA ViewsEqual ==
  ASSUME NEW v \in Views, NEW w \in Views, v.revs = w.revs, v.parent = w.parent, v.name = w.name,
         v.counts = w.counts, v.path = w.path, v.driver = w.driver, v.mount = w.mount,
         v.entries = w.entries
  PROVE  v = w
BY DEF Views

\* A read whose fence holds has its snapshot.
LEMMA ReadFenceTakes ==
  ASSUME TypeOK, ReadInv, NEW x \in Readers, ReadFence(x) PROVE TakesRead(x)
<1>1. PICK q : q = rd[x] OBVIOUS
<1>2. q.pc = "fence" BY <1>1 DEF ReadFence, ReadStep
<1>3. q \in Reads /\ ReadOf(q) /\ q.dir \in Dirs BY <1>1, <1>2, ReaderType DEF Early
<1>4. q.view \in Views /\ q.snap \in Views BY <1>3 DEF Reads
<1>5. CASE ~FenceMatches(x)
  <2>1. ReadStep(x, "fence", "done", rd[x].view) BY <1>5 DEF ReadFence
  <2> QED BY <2>1, ReadEnds
<1>6. CASE FenceMatches(x)
  <2>1. ReadStep(x, "fence", "answered", q.view) BY <1>1, <1>6 DEF ReadFence
  <2>2. PICK v : rd' = [rd EXCEPT ![x] = v] /\ Stepped(q, v, "answered", q.view)
    BY <1>1, <1>4, <2>1, ReadStepTakes
  <2>3. /\ v \in Reads /\ v.pc = "answered" /\ v.dir = q.dir /\ v.view = q.view /\ v.snap = q.snap
        /\ v.got = q.got
    BY <2>2 DEF Stepped
  <2>4. Created(q.dir) /\ NoNewer(q.view, q.dir) /\ q.got = {} /\ (~mislaid => Behind(q))
    BY <1>2, <1>3 DEF ReadOf, Early
  <2>5. ASSUME Behind(q) PROVE v.view = v.snap /\ Paged(v)
    <3>1. Active(q.dir) /\ Revisions(q.dir) = q.view.revs BY <1>1, <1>6 DEF FenceMatches
    <3>2. /\ Same(q.view, q.dir) /\ SnapSame(q.snap, q.dir) /\ q.view.path = q.snap.path
          /\ q.view.driver = dir[q.dir].driver /\ q.view.mount = dir[q.dir].mount
          /\ q.view.entries = EntriesOf(q.dir)
      BY <1>2, <2>5, <3>1 DEF Behind
    <3>3. /\ q.view.revs = q.snap.revs /\ q.view.parent = q.snap.parent /\ q.view.name = q.snap.name
          /\ q.view.counts = q.snap.counts /\ q.view.driver = q.snap.driver
          /\ q.view.mount = q.snap.mount /\ q.view.entries = q.snap.entries
      BY <3>1, <3>2 DEF SnapSame, Same
    <3>4. q.view = q.snap BY <1>4, <3>2, <3>3, ViewsEqual
    <3>5. EntriesOf(q.dir) = q.snap.entries BY <3>2 DEF SnapSame
    <3>6. PagedOf(q.snap.entries, {}) BY DEF PagedOf
    <3> QED BY <2>3, <2>4, <3>4, <3>5, <3>6 DEF Paged
  <2>6. ReadOf(v) BY <2>3, <2>4, <2>5 DEF ReadOf, Early, Late
  <2> QED BY <2>2, <2>3, <2>6 DEF TakesRead
<1> QED BY <1>5, <1>6

LEMMA PageCheckTakes ==
  ASSUME TypeOK, ReadInv, NEW x \in Readers, PageCheck(x) PROVE TakesRead(x)
<1>1. PICK q : q = rd[x] OBVIOUS
<1>2. q.pc = "answered" BY <1>1 DEF PageCheck, ReadStep
<1>3. q \in Reads /\ ReadOf(q) /\ q.dir \in Dirs BY <1>1, <1>2, ReaderType DEF Late
<1>4. q.view \in Views BY <1>3 DEF Reads
<1>5. CASE ~RevisionMatches(x)
  <2>1. ReadStep(x, "answered", "done", rd[x].view) BY <1>5 DEF PageCheck
  <2> QED BY <2>1, ReadEnds
<1>6. CASE RevisionMatches(x)
  <2>1. ReadStep(x, "answered", "page", q.view) BY <1>1, <1>6 DEF PageCheck
  <2>2. PICK v : rd' = [rd EXCEPT ![x] = v] /\ Stepped(q, v, "page", q.view)
    BY <1>1, <1>4, <2>1, ReadStepTakes
  <2>3. /\ v \in Reads /\ v.pc = "page" /\ v.dir = q.dir /\ v.view = q.view /\ v.snap = q.snap
        /\ v.got = q.got
    BY <2>2 DEF Stepped
  <2>4. Created(q.dir) /\ NoNewer(q.view, q.dir) /\ (~mislaid => q.view = q.snap /\ Paged(q))
    BY <1>2, <1>3 DEF ReadOf, Late
  <2>5. Paged(q) => Paged(v) BY <2>3 DEF Paged
  <2>6. ReadOf(v) BY <2>3, <2>4, <2>5 DEF ReadOf, Early, Late
  <2> QED BY <2>2, <2>3, <2>6 DEF TakesRead
<1> QED BY <1>5, <1>6

\* The entries of a directory are finitely many.
LEMMA EntriesFinite == ASSUME NEW d PROVE IsFiniteSet(EntriesOf(d))
<1>1. PICK N : N = {m \in Names : entry[d][m] # NoEntry} OBVIOUS
<1>2. IsFiniteSet(N)
  <2>1. N \in SUBSET Names BY <1>1
  <2> QED BY <2>1, Assumed, FS_Subset
<1>3. PICK f : f = [n \in N |-> <<n, entry[d][n]>>] OBVIOUS
<1>4. EntriesOf(d) = {<<n, entry[d][n]>> : n \in N} BY <1>1 DEF EntriesOf
<1>5. f \in Surjection(N, EntriesOf(d)) BY <1>3, <1>4 DEF Surjection
<1> QED BY <1>2, <1>5, FS_Surjection

\* A page of one: the pages still come before the rest, and a last page
\* leaves nothing.
LEMMA PageAdds ==
  ASSUME NEW E \in SUBSET (Names \X EntryRows), IsFiniteSet(E), NEW got, PagedOf(E, got),
         NEW rest, rest = {e \in E : \A g \in got : Before(g, e)}
  PROVE  /\ PagedOf(E, got \cup FirstOf(rest))
         /\ ~(Cardinality(rest) > 1) => got \cup FirstOf(rest) = E
<1>1. \A e \in E : ~Before(e, e)
  <2> SUFFICES ASSUME NEW e \in E PROVE ~Before(e, e) OBVIOUS
  <2>1. e[1] \in Nat BY Assumed
  <2>2. ~(e[1] < e[1]) BY <2>1
  <2> QED BY <2>2 DEF Before
<1>2. got \subseteq E /\ \A g \in got : \A e \in E \ got : Before(g, e) BY DEF PagedOf
<1>3. rest = E \ got BY <1>1, <1>2
<1>4. PICK F : F = FirstOf(rest) OBVIOUS
<1>5. F \subseteq rest /\ \A g \in F : \A e \in rest : e = g \/ Before(g, e)
  BY <1>4 DEF FirstOf
<1>6. PagedOf(E, got \cup F)
  <2>1. got \cup F \subseteq E BY <1>2, <1>3, <1>5
  <2>2. ASSUME NEW g \in got \cup F, NEW e \in E \ (got \cup F) PROVE Before(g, e)
    BY <1>2, <1>3, <1>5, <2>2
  <2> QED BY <2>1, <2>2 DEF PagedOf
<1>7. ASSUME ~(Cardinality(rest) > 1) PROVE got \cup F = E
  <2>1. IsFiniteSet(rest)
    <3>1. rest \in SUBSET E BY <1>3
    <3> QED BY <3>1, FS_Subset
  <2>2. Cardinality(rest) \in Nat BY <2>1, FS_CardinalityType
  <2>3. Cardinality(rest) = 0 \/ Cardinality(rest) = 1 BY <1>7, <2>2
  <2>4. rest = {} \/ \E y : rest = {y} BY <2>1, <2>3, FS_EmptySet, FS_Singleton
  <2>5. F = rest BY <1>4, <2>4 DEF FirstOf
  <2> QED BY <1>2, <1>3, <2>5
<1> QED BY <1>4, <1>6, <1>7

LEMMA PageRowsTakes ==
  ASSUME TypeOK, ReadInv, NEW x \in Readers, PageRows(x) PROVE TakesRead(x)
<1>1. PICK q : q = rd[x] OBVIOUS
<1>2. q.pc = "page" BY <1>1 DEF PageRows
<1>3. q \in Reads /\ ReadOf(q) /\ q.dir \in Dirs BY <1>1, <1>2, ReaderType DEF Late
<1>4. PICK rest : rest = Rest(x) OBVIOUS
<1>5. rest = {e \in EntriesOf(q.dir) : \A g \in q.got : Before(g, e)} BY <1>1, <1>4 DEF Rest
<1>6. PICK to : to = (IF Cardinality(rest) > 1 THEN "more" ELSE "last") OBVIOUS
<1>7. PICK got : got = q.got \cup FirstOf(rest) OBVIOUS
<1>8. PICK v : v = [q EXCEPT !.got = got, !.pc = to] OBVIOUS
<1>9. rd' = [rd EXCEPT ![x] = v] BY <1>1, <1>4, <1>6, <1>7, <1>8 DEF PageRows
<1>10. EntriesOf(q.dir) \in SUBSET (Names \X EntryRows) BY <1>3, EntriesOfType
<1>11. got \in SUBSET (Names \X EntryRows)
  <2>1. q.got \in SUBSET (Names \X EntryRows) BY <1>3 DEF Reads
  <2> QED BY <1>5, <1>7, <1>10, <2>1 DEF FirstOf
<1>12. to \in {"more", "last"} BY <1>6
<1>13. v \in Reads BY <1>3, <1>8, <1>11, <1>12 DEF Reads
<1>14. /\ v.pc = to /\ v.dir = q.dir /\ v.view = q.view /\ v.snap = q.snap /\ v.got = got
  BY <1>3, <1>8 DEF Reads
<1>15. Created(q.dir) /\ NoNewer(q.view, q.dir) /\ (~mislaid => q.view = q.snap /\ Paged(q))
  BY <1>2, <1>3 DEF ReadOf, Late
<1>16. ASSUME Paged(q) PROVE Paged(v)
  <2>1. SUFFICES ASSUME Active(q.dir), dir[q.dir].rev = q.view.revs[1]
                 PROVE  /\ EntriesOf(q.dir) = q.snap.entries
                        /\ PagedOf(q.snap.entries, got)
                        /\ to = "last" => got = q.snap.entries
    BY <1>14 DEF Paged
  <2>2. EntriesOf(q.dir) = q.snap.entries /\ PagedOf(q.snap.entries, q.got)
    BY <1>16, <2>1 DEF Paged
  <2>3. PICK E : E = q.snap.entries OBVIOUS
  <2>4. /\ E \in SUBSET (Names \X EntryRows) /\ IsFiniteSet(E) /\ PagedOf(E, q.got)
        /\ rest = {e \in E : \A g \in q.got : Before(g, e)}
    BY <1>5, <1>10, <2>2, <2>3, EntriesFinite
  <2>5. /\ PagedOf(E, q.got \cup FirstOf(rest))
        /\ ~(Cardinality(rest) > 1) => q.got \cup FirstOf(rest) = E
    BY <2>4, PageAdds
  <2> QED BY <1>6, <1>7, <2>2, <2>3, <2>5
<1>17. ReadOf(v) BY <1>12, <1>14, <1>15, <1>16 DEF ReadOf, Early, Late
<1> QED BY <1>9, <1>13, <1>17 DEF TakesRead

LEMMA PageFenceTakes ==
  ASSUME TypeOK, ReadInv, NEW x \in Readers, PageFence(x) PROVE TakesRead(x)
<1>1. PICK q : q = rd[x] OBVIOUS
<1>2. q.pc \in {"more", "last"} BY <1>1 DEF PageFence
<1>3. q \in Reads /\ ReadOf(q) /\ q.dir \in Dirs BY <1>1, <1>2, ReaderType DEF Late
<1>4. q.view \in Views BY <1>3 DEF Reads
<1>5. CASE ~RevisionMatches(x)
  <2>1. ReadStep(x, rd[x].pc, "done", rd[x].view) BY <1>5 DEF PageFence
  <2> QED BY <2>1, ReadEnds
<1>6. CASE RevisionMatches(x)
  <2>1. PICK to : to = (IF q.pc = "more" THEN "answered" ELSE "complete") OBVIOUS
  <2>2. to \in {"answered", "complete"} BY <2>1
  <2>3. ReadStep(x, q.pc, to, q.view) BY <1>1, <1>6, <2>1 DEF PageFence
  <2>4. PICK v : rd' = [rd EXCEPT ![x] = v] /\ Stepped(q, v, to, q.view)
    BY <1>1, <1>4, <2>2, <2>3, ReadStepTakes
  <2>5. /\ v \in Reads /\ v.pc = to /\ v.dir = q.dir /\ v.view = q.view /\ v.snap = q.snap
        /\ v.got = q.got
    BY <2>4 DEF Stepped
  <2>6. Created(q.dir) /\ NoNewer(q.view, q.dir) /\ (~mislaid => q.view = q.snap /\ Paged(q))
    BY <1>2, <1>3 DEF ReadOf, Late
  <2>7. ASSUME Paged(q) PROVE Paged(v) /\ (to = "complete" => q.got = q.snap.entries)
    <3>1. Active(q.dir) /\ dir[q.dir].rev = q.view.revs[1] BY <1>1, <1>6 DEF RevisionMatches
    <3>2. /\ EntriesOf(q.dir) = q.snap.entries /\ PagedOf(q.snap.entries, q.got)
          /\ q.pc = "last" => q.got = q.snap.entries
      BY <2>7, <3>1 DEF Paged
    <3> QED BY <1>2, <2>1, <2>2, <2>5, <3>2 DEF Paged
  <2>8. ReadOf(v) BY <2>2, <2>5, <2>6, <2>7 DEF ReadOf, Early, Late
  <2> QED BY <2>4, <2>5, <2>8 DEF TakesRead
<1> QED BY <1>5, <1>6

\* Every step of a read leaves it with a record that is in order.
LEMMA InspectTakes ==
  ASSUME TypeOK, ReadInv, NEW x \in Readers, Inspect(x) PROVE TakesRead(x)
<1>1. ASSUME NEW d \in Dirs, ReadRow(x, d) PROVE TakesRead(x) BY <1>1, ReadRowTakes
<1>2. CASE MountGone(x)
  <2>1. ReadStep(x, "mount", "done", rd[x].view) BY <1>2 DEF MountGone
  <2> QED BY <2>1, ReadEnds
<1> QED BY <1>1, <1>2, ReadPathTakes, ReadPlacementTakes, ReadMountTakes, ReadEntriesTakes,
           ReadFenceTakes, PageCheckTakes, PageRowsTakes, PageFenceTakes DEF Inspect

-----------------------------------------------------------------------------
(* A read while others write *)

\* While the revision stays what was read, so do the columns it covers.
LEMMA RevisionKept ==
  ASSUME TypeOK, RowInv, ShapeInv, Writes, Typed, ~mislaid', NEW d \in Dirs, Created(d),
         NEW rev \in Nat, rev <= dir[d].rev, dir'[d].state = "active", dir'[d].rev = rev
  PROVE  /\ dir[d].state = "active" /\ dir[d].rev = rev
         /\ dir'[d].parent = dir[d].parent /\ dir'[d].name = dir[d].name
         /\ Counts(d)' = Counts(d) /\ EntriesOf(d)' = EntriesOf(d)
<1>1. Grown(d) BY WritesGrow DEF Grows
<1>2. dir[d].rev \in Nat BY RowNumbers
<1>3. dir[d].rev <= dir'[d].rev BY <1>1 DEF Grown
<1>4. dir[d].rev = rev /\ dir'[d].rev = dir[d].rev BY <1>2, <1>3
<1>5. /\ dir[d].state = "active" /\ dir'[d].parent = dir[d].parent /\ dir'[d].name = dir[d].name
  BY <1>1, <1>4 DEF Grown
<1>6. Active(d) BY <1>5 DEF Active
<1>7. Placed BY MislaidKept DEF ShapeInv
<1>8. SameBelow(d) BY <1>4, <1>6, <1>7, Fenced
<1> QED BY <1>4, <1>5, <1>8, CountsSame, EntriesSame

LEMMA NoNewerKept ==
  ASSUME TypeOK, Typed, Grows, NEW d \in Dirs, Created(d), NEW v \in Views, NoNewer(v, d)
  PROVE  NoNewer(v, d)'
<1>1. Grown(d) BY DEF Grows
<1>2. dir[d].rev <= dir'[d].rev /\ dir[d].acl <= dir'[d].acl /\ dir[d].place <= dir'[d].place
  BY <1>1 DEF Grown
<1>3. dir[d].rev \in Nat /\ dir[d].acl \in Nat /\ dir[d].place \in Nat BY RowNumbers
<1>4. dir'[d].rev \in Nat /\ dir'[d].acl \in Nat /\ dir'[d].place \in Nat
  BY DEF Typed, DirectoryRows
<1>5. v.revs[1] \in Nat /\ v.revs[2] \in Nat /\ v.revs[3] \in Nat BY DEF Views
<1>6. v.revs[1] <= dir[d].rev /\ v.revs[2] <= dir[d].acl /\ v.revs[3] <= dir[d].place
  BY DEF NoNewer
<1>7. v.revs[1] <= dir'[d].rev /\ v.revs[2] <= dir'[d].acl /\ v.revs[3] <= dir'[d].place
  BY <1>2, <1>3, <1>4, <1>5, <1>6
<1> QED BY <1>7 DEF NoNewer

LEMMA BehindKept ==
  ASSUME TypeOK, RowInv, ShapeInv, Writes, Typed, ~mislaid', NEW q \in Reads, q.dir \in Dirs,
         Created(q.dir), NoNewer(q.view, q.dir), Behind(q)
  PROVE  Behind(q)'
<1>1. PICK d : d = q.dir OBVIOUS
<1>2. SUFFICES ASSUME dir'[d].state = "active", Revisions(d)' = q.view.revs
               PROVE  /\ Same(q.view, d)'
                      /\ q.pc # "path" => SnapSame(q.snap, d)' /\ q.view.path = q.snap.path
                      /\ q.pc \notin {"path", "placement"} => q.view.driver = dir'[d].driver
                      /\ q.pc \notin {"path", "placement", "mount"} => q.view.mount = dir'[d].mount
                      /\ q.pc = "fence" => q.view.entries = EntriesOf(d)'
  BY <1>1 DEF Behind, Active
<1>3. PICK v : v = q.view OBVIOUS
<1>4. v \in Views /\ v.revs[1] \in Nat /\ v.revs[2] \in Nat /\ v.revs[3] \in Nat
  BY <1>3 DEF Reads, Views
<1>5. v.revs[1] <= dir[d].rev /\ v.revs[2] <= dir[d].acl /\ v.revs[3] <= dir[d].place
  BY <1>1, <1>3 DEF NoNewer
<1>6. dir'[d].rev = v.revs[1] /\ dir'[d].acl = v.revs[2] /\ dir'[d].place = v.revs[3]
  <2>1. v.revs = <<dir'[d].rev, dir'[d].acl, dir'[d].place>> BY <1>2, <1>3 DEF Revisions
  <2> QED BY <2>1
<1>7. d \in Dirs /\ Created(d) BY <1>1
<1>8. /\ dir[d].state = "active" /\ dir[d].rev = v.revs[1]
      /\ dir'[d].parent = dir[d].parent /\ dir'[d].name = dir[d].name
      /\ Counts(d)' = Counts(d) /\ EntriesOf(d)' = EntriesOf(d)
  BY <1>2, <1>4, <1>5, <1>6, <1>7, RevisionKept
<1>9. Grown(d) BY <1>7, WritesGrow DEF Grows
<1>10. /\ dir[d].acl <= dir'[d].acl /\ dir[d].place <= dir'[d].place
       /\ dir'[d].place = dir[d].place => dir'[d].driver = dir[d].driver /\ dir'[d].mount = dir[d].mount
  BY <1>9 DEF Grown
<1>11. dir[d].acl \in Nat /\ dir[d].place \in Nat BY <1>7, RowNumbers
<1>12. dir[d].acl = v.revs[2] /\ dir[d].place = v.revs[3]
  BY <1>4, <1>5, <1>6, <1>10, <1>11
<1>13. dir'[d].driver = dir[d].driver /\ dir'[d].mount = dir[d].mount BY <1>6, <1>10, <1>12
<1>14. Active(d) BY <1>7, <1>8 DEF Active
<1>15. Revisions(d)' = Revisions(d) BY <1>6, <1>8, <1>12 DEF Revisions
<1>16. /\ Same(v, d)
       /\ q.pc # "path" => SnapSame(q.snap, d) /\ v.path = q.snap.path
       /\ q.pc \notin {"path", "placement"} => v.driver = dir[d].driver
       /\ q.pc \notin {"path", "placement", "mount"} => v.mount = dir[d].mount
       /\ q.pc = "fence" => v.entries = EntriesOf(d)
  BY <1>1, <1>2, <1>3, <1>14, <1>15 DEF Behind
<1>17. \A s : Same(s, d) => Same(s, d)' BY <1>8 DEF Same
<1>18. \A s : SnapSame(s, d) => SnapSame(s, d)' BY <1>8, <1>13, <1>15, <1>17 DEF SnapSame
<1>19. Same(v, d)' BY <1>16, <1>17
<1>20. PICK s : s = q.snap OBVIOUS
<1>21. q.pc # "path" => SnapSame(s, d)' BY <1>16, <1>18, <1>20
<1> QED BY <1>3, <1>8, <1>13, <1>16, <1>19, <1>20, <1>21

LEMMA PagedKept ==
  ASSUME TypeOK, RowInv, ShapeInv, Writes, Typed, ~mislaid', NEW q \in Reads, q.dir \in Dirs,
         Created(q.dir), NoNewer(q.view, q.dir), Paged(q)
  PROVE  Paged(q)'
<1>1. PICK d : d = q.dir OBVIOUS
<1>2. PICK rev : rev = q.view.revs[1] OBVIOUS
<1>3. SUFFICES ASSUME dir'[d].state = "active", dir'[d].rev = rev
               PROVE  /\ EntriesOf(d)' = q.snap.entries
                      /\ PagedOf(q.snap.entries, q.got)
                      /\ q.pc = "last" => q.got = q.snap.entries
  BY <1>1, <1>2 DEF Paged, Active
<1>4. rev \in Nat BY <1>2 DEF Reads, Views
<1>5. rev <= dir[d].rev BY <1>1, <1>2 DEF NoNewer
<1>6. d \in Dirs /\ Created(d) BY <1>1
<1>7. dir[d].state = "active" /\ dir[d].rev = rev /\ EntriesOf(d)' = EntriesOf(d)
  BY <1>3, <1>4, <1>5, <1>6, RevisionKept
<1>8. Active(q.dir) /\ dir[q.dir].rev = q.view.revs[1] BY <1>1, <1>2, <1>6, <1>7 DEF Active
<1>9. /\ EntriesOf(q.dir) = q.snap.entries /\ PagedOf(q.snap.entries, q.got)
      /\ q.pc = "last" => q.got = q.snap.entries
  BY <1>8 DEF Paged
<1> QED BY <1>1, <1>7, <1>9

\* What the revisions of a read cover holds until they change.
LEMMA ReadKept ==
  ASSUME TypeOK, RowInv, ShapeInv, Writes, Typed, NEW q \in Reads, ReadOf(q)
  PROVE  ReadOf(q)'
<1>1. Grows BY WritesGrow
<1>2. ~mislaid' => ~mislaid BY MislaidKept
<1>3. q.view \in Views BY DEF Reads
<1>4. ASSUME q.pc \in Early \cup Late
      PROVE  q.dir \in Dirs /\ Created(q.dir) /\ NoNewer(q.view, q.dir)
  BY <1>4 DEF ReadOf, Created
<1>5. ASSUME q.pc \in Early \cup Late PROVE Created(q.dir)' /\ NoNewer(q.view, q.dir)'
  <2>1. PICK d : d = q.dir OBVIOUS
  <2>2. PICK v : v = q.view OBVIOUS
  <2>3. d \in Dirs /\ Created(d) /\ NoNewer(v, d) /\ v \in Views BY <1>3, <1>4, <1>5, <2>1, <2>2
  <2>4. Created(d)' BY <1>1, <2>3, CreatedKept
  <2>5. NoNewer(v, d)' BY <1>1, <2>3, NoNewerKept
  <2> QED BY <2>1, <2>2, <2>4, <2>5
<1>6. ASSUME ~mislaid', q.pc \in Early PROVE Behind(q)'
  <2>1. Behind(q) BY <1>2, <1>6 DEF ReadOf
  <2> QED BY <1>4, <1>6, <2>1, BehindKept
<1>7. ASSUME ~mislaid', q.pc \in Late PROVE q.view = q.snap /\ Paged(q)'
  <2>1. q.view = q.snap /\ Paged(q) BY <1>2, <1>7 DEF ReadOf
  <2> QED BY <1>4, <1>7, <2>1, PagedKept
<1>8. ASSUME q.pc \in Early PROVE q.got = {} BY <1>8 DEF ReadOf
<1>9. ASSUME ~mislaid', q.pc = "complete" PROVE q.view = q.snap /\ q.got = q.snap.entries
  BY <1>2, <1>9 DEF ReadOf
<1> QED BY <1>5, <1>6, <1>7, <1>8, <1>9 DEF ReadOf, Early, Late

-----------------------------------------------------------------------------
(* The first state *)

FirstRows ==
  /\ /\ dir[Root].state = "active" /\ dir[Root].parent = Nowhere /\ dir[Root].driver = Home
     /\ dir[Root].mount = "default"
  /\ \A d \in Born :
       /\ dir[d].state = "active" /\ dir[d].parent = Root /\ dir[d].name = Named[d]
       /\ dir[d].driver \in Drivers
       /\ dir[d].mount = IF dir[d].driver = Home THEN "inherited" ELSE "mount"
  /\ \A d \in Dirs : d # Root /\ d \notin Born => dir[d] = Unborn
  /\ \A d \in Born : entry[Root][Named[d]] = Entry("directory", d, 1, Nowhere)
  /\ \A d \in Dirs, n \in Names :
       \/ entry[d][n] = NoEntry
       \/ d = Root /\ \E c \in Born : n = Named[c] /\ entry[d][n] = Entry("directory", c, 1, Nowhere)

LEMMA InitRows == ASSUME Init PROVE FirstRows
<1>1. PICK on \in [Born -> Drivers] : dir = [d \in Dirs |->
    IF d = Root THEN Directory(Nowhere, 0, Home, "default")
    ELSE IF d \notin Born THEN Unborn
    ELSE Directory(Root, Named[d], on[d], IF on[d] = Home THEN "inherited" ELSE "mount")]
  BY DEF Init, InitDirs
<1>2. /\ dir[Root].state = "active" /\ dir[Root].parent = Nowhere /\ dir[Root].driver = Home
      /\ dir[Root].mount = "default"
  <2>1. dir[Root] = Directory(Nowhere, 0, Home, "default") BY <1>1, Assumed
  <2> QED BY <2>1 DEF Directory
<1>3. ASSUME NEW d \in Born
      PROVE  /\ dir[d].state = "active" /\ dir[d].parent = Root /\ dir[d].name = Named[d]
             /\ dir[d].driver \in Drivers
             /\ dir[d].mount = IF dir[d].driver = Home THEN "inherited" ELSE "mount"
  <2>1. PICK m : m = IF on[d] = Home THEN "inherited" ELSE "mount" OBVIOUS
  <2>2. d \in Dirs /\ d # Root BY Assumed
  <2>3. dir[d] = Directory(Root, Named[d], on[d], m) BY <1>1, <2>1, <2>2
  <2> QED BY <2>1, <2>3 DEF Directory
<1>4. \A d \in Dirs : d # Root /\ d \notin Born => dir[d] = Unborn BY <1>1
<1>5. \A d \in Dirs, n \in Names : entry[d][n] = InitEntry(d, n) BY DEF Init
<1>6. ASSUME NEW d \in Born PROVE entry[Root][Named[d]] = Entry("directory", d, 1, Nowhere)
  <2>1. Root \in Dirs /\ Named[d] \in Names BY Assumed
  <2>2. PICK c : c = CHOOSE b \in Born : Named[b] = Named[d] OBVIOUS
  <2>3. c \in Born /\ Named[c] = Named[d] BY <2>2
  <2>4. c = d BY <2>3, Assumed
  <2>5. InitEntry(Root, Named[d]) = Entry("directory", c, 1, Nowhere) BY <2>2 DEF InitEntry
  <2> QED BY <1>5, <2>1, <2>4, <2>5
<1>7. ASSUME NEW d \in Dirs, NEW n \in Names, entry[d][n] # NoEntry
      PROVE  d = Root /\ \E c \in Born : n = Named[c] /\ entry[d][n] = Entry("directory", c, 1, Nowhere)
  <2>1. d = Root /\ \E c \in Born : Named[c] = n BY <1>5, <1>7 DEF InitEntry
  <2>2. PICK c \in Born : Named[c] = n BY <2>1
  <2> QED BY <1>6, <2>1, <2>2
<1> QED BY <1>2, <1>3, <1>4, <1>6, <1>7 DEF FirstRows

LEMMA EntryFields ==
  ASSUME NEW kind, NEW subject, NEW rev, NEW on, NEW e, e = Entry(kind, subject, rev, on)
  PROVE  e.kind = kind /\ e.subject = subject /\ e.rev = rev /\ e.on = on
BY DEF Entry

LEMMA RowFirst == ASSUME FirstRows PROVE RowInv
<1>1. \A d \in Born : d \in Dirs /\ d # Root /\ Created(d) BY Assumed DEF FirstRows, Created
<1>2. \A d \in Dirs : Created(d) => d = Root \/ d \in Born
  BY UnbornState DEF FirstRows, Created
<1>3. Active(Root) /\ dir[Root].parent = Nowhere BY Assumed DEF FirstRows, Active
<1>4. \A d \in Dirs \ {Root} : Created(d) => dir[d].parent \in Dirs /\ dir[d].name \in Names
  BY <1>2, Assumed DEF FirstRows
<1>5. \A d \in Dirs : Created(d) => dir[d].driver \in Drivers BY <1>2, Assumed DEF FirstRows
<1>6. ASSUME NEW d \in Dirs, ~Created(d) PROVE dir[d] = Unborn /\ HasNoEntry(d)
  <2>1. d # Root BY <1>3, <1>6 DEF Active, Created
  <2>2. d \notin Born BY <1>1, <1>6
  <2> QED BY <2>1, <2>2 DEF FirstRows, HasNoEntry
<1>7. ASSUME NEW d \in Dirs, NEW n \in Names PROVE GoodEntry(entry[d][n])
  <2>1. CASE entry[d][n] = NoEntry BY <2>1 DEF GoodEntry
  <2>2. CASE entry[d][n] # NoEntry
    <3>1. PICK c \in Born : entry[d][n] = Entry("directory", c, 1, Nowhere) BY <2>2 DEF FirstRows
    <3>2. entry[d][n].kind = "directory" /\ entry[d][n].subject = c BY <3>1, EntryFields
    <3> QED BY <1>1, <3>2 DEF GoodEntry
  <2> QED BY <2>1, <2>2
<1> QED BY <1>3, <1>4, <1>5, <1>6, <1>7 DEF RowInv

LEMMA ShapeFirst == ASSUME TypeOK, FirstRows PROVE Linked /\ Rooted /\ Placed
<1>1. \A d \in Born : d \in Dirs /\ d # Root /\ Active(d) /\ dir[d].parent = Root
  BY Assumed DEF FirstRows, Active
<1>2. \A d \in Dirs : Active(d) => d = Root \/ d \in Born BY UnbornState DEF FirstRows, Active
<1>3. Active(Root) BY Assumed DEF FirstRows, Active
<1>4. Linked
  <2> SUFFICES ASSUME NEW d \in Dirs \ {Root}, Active(d)
               PROVE  Active(dir[d].parent) /\ entry[dir[d].parent][dir[d].name].subject = d
    BY DEF Linked
  <2>1. d \in Born BY <1>2
  <2>2. dir[d].parent = Root /\ dir[d].name = Named[d] BY <2>1 DEF FirstRows
  <2>3. entry[Root][Named[d]] = Entry("directory", d, 1, Nowhere) BY <2>1 DEF FirstRows
  <2> QED BY <1>3, <2>2, <2>3, EntryFields
<1>5. Rooted
  <2> SUFFICES ASSUME NEW d \in Dirs, Active(d) PROVE Root \in Above(Parents, d) BY DEF Rooted
  <2>1. CASE d = Root BY <2>1, AboveSelf
  <2>2. CASE d \in Born
    <3>1. Parents[d] = Root /\ Root \in Dirs BY <1>1, <2>2, Assumed DEF Parents
    <3> QED BY <3>1, ParentsType, AboveParent
  <2> QED BY <1>2, <2>1, <2>2
<1>6. Placed
  <2> SUFFICES ASSUME NEW d \in Dirs, NEW n \in Names, entry[d][n] # NoEntry
               PROVE  /\ Active(d)
                      /\ Active(entry[d][n].subject)
                      /\ dir[entry[d][n].subject].parent = d /\ dir[entry[d][n].subject].name = n
    BY DEF Placed
  <2>1. PICK c \in Born : /\ d = Root /\ n = Named[c]
                          /\ entry[d][n] = Entry("directory", c, 1, Nowhere)
    BY DEF FirstRows
  <2>2. entry[d][n].subject = c BY <2>1, EntryFields
  <2>3. dir[c].parent = Root /\ dir[c].name = Named[c] BY DEF FirstRows
  <2> QED BY <1>1, <1>3, <2>1, <2>2, <2>3
<1> QED BY <1>4, <1>5, <1>6

LEMMA DriversFirst == ASSUME FirstRows PROVE EntriesBacked /\ Mounted
<1>1. EntriesBacked
  <2> SUFFICES ASSUME NEW d \in Dirs, NEW n \in Names PROVE entry[d][n].kind # "file"
    BY DEF EntriesBacked
  <2>1. NoEntry.kind = "absent" BY EntryFields DEF NoEntry
  <2>2. \A c : Entry("directory", c, 1, Nowhere).kind = "directory" BY DEF Entry
  <2> QED BY <2>1, <2>2 DEF FirstRows
<1>2. ASSUME NEW d \in Dirs, Active(d) PROVE MountOk(d)
  <2>1. d = Root \/ d \in Born BY <1>2, UnbornState DEF FirstRows, Active
  <2>2. CASE d = Root BY <2>2 DEF FirstRows, MountOk
  <2>3. CASE d \in Born
    <3>1. /\ d # Root /\ dir[d].parent = Root /\ dir[Root].driver = Home
          /\ dir[d].mount = IF dir[d].driver = Home THEN "inherited" ELSE "mount"
          /\ dir[Root].mount = "default" /\ dir[Root].parent = Nowhere
      BY <2>3, Assumed DEF FirstRows
    <3>2. {d, Root} \in SUBSET Dirs /\ Closed(Parents, {d, Root})
      BY <3>1, Assumed DEF Closed, Parents
    <3>3. Above(Parents, d) \subseteq {d, Root} BY <3>2, AboveIn
    <3>4. \A x \in Above(Parents, d) \ {d} : dir[x].mount # "mount" BY <3>1, <3>3
    <3> QED BY <3>1, <3>4 DEF MountOk
  <2> QED BY <2>1, <2>2, <2>3
<1> QED BY <1>1, <1>2 DEF Mounted

-----------------------------------------------------------------------------
(* The inductive invariant *)

IInv ==
  TypeOK /\ RowInv /\ ReqInv /\ ShapeInv /\ EntriesBacked /\ PolInv /\ MountInv /\ ReadInv

LEMMA IInvInit == Init => IInv
<1> SUFFICES ASSUME Init PROVE IInv OBVIOUS
<1>1. TypeOK BY TypeInit
<1>2. FirstRows BY InitRows
<1>3. RowInv BY <1>2, RowFirst
<1>4. ReqInv
  <2> SUFFICES ASSUME NEW r \in Mutators PROVE Sound(req[r]) BY DEF ReqInv
  <2>1. PICK op \in {"none", "put", "mkdir", "remove", "rename"} : req[r] = NewMutation(op)
    BY DEF Init
  <2> QED BY <2>1, NotWalking
<1>5. ShapeInv BY <1>1, <1>2, ShapeFirst DEF ShapeInv
<1>6. EntriesBacked /\ Mounted BY <1>2, DriversFirst
<1>7. ASSUME NEW p \in Policies PROVE PolicySound(pol[p]) /\ MountPlanned(pol[p])
  <2>1. PICK kind \in {"none", "placement", "acl"} : pol[p] = NewPolicy(kind) BY DEF Init
  <2>2. pol[p].kind = kind /\ pol[p].pc = IF kind = "none" THEN "done" ELSE "new"
    BY <2>1, NewPolicyType
  <2> QED BY <2>2 DEF PolicySound, MountPlanned
<1>8. PolInv /\ MountInv BY <1>6, <1>7 DEF PolInv, MountInv
<1>9. ReadInv
  <2> SUFFICES ASSUME NEW x \in Readers PROVE ReadOf(rd[x]) BY DEF ReadInv
  <2>1. PICK pc \in {"done", "new"} : rd[x] = NewRead(pc) BY DEF Init
  <2>2. rd[x].pc = pc BY <2>1 DEF NewRead, Read
  <2> QED BY <2>2, ReadDone
<1> QED BY <1>1, <1>3, <1>4, <1>5, <1>6, <1>8, <1>9 DEF IInv

LEMMA WritesTyped == ASSUME TypeOK, Writes PROVE Typed
<1>1. CASE Still BY <1>1 DEF Still, TypeOK, Typed
<1>2. CASE \E q : Puts(q) \/ (\E c \in Dirs : Mkdirs(q, c)) \/ Removes(q) \/ Renames(q)
  BY <1>2 DEF Puts, Mkdirs, Removes, Renames, PutEffect, MkdirEffect, RemoveEffect, RenameEffect
<1>3. CASE \E q : Places(q) \/ Grants(q)
  BY <1>3 DEF Places, Grants, PlacementEffect, AclEffect
<1> QED BY <1>1, <1>2, <1>3 DEF Writes

LEMMA MislaidType == ASSUME TypeOK, NEW r \in Mutators, Mutate(r) PROVE mislaid' \in BOOLEAN
<1>1. mislaid \in BOOLEAN BY DEF TypeOK
<1>2. CASE RemoveBatch(r) BY <1>2 DEF RemoveBatch
<1>3. CASE ~RemoveBatch(r)
  BY <1>1, <1>3 DEF Mutate, Start, Walk, WalkRefused, Plan, PutBatch, MkdirBatch, RenameBatch,
                    RefusedBatch
<1> QED BY <1>2, <1>3

\* Every request, policy and read has after a step a record that was in order
\* in the state before it.
ReqMoved ==
  /\ req' \in [Mutators -> Mutations]
  /\ \A r \in Mutators : \E v \in Mutations : req'[r] = v /\ Sound(v)

PolMoved ==
  /\ pol' \in [Policies -> PolicyRequests]
  /\ \A p \in Policies : \E v \in PolicyRequests :
       pol'[p] = v /\ PolicySound(v) /\ (~mislaid => MountPlanned(v))

RdMoved ==
  /\ rd' \in [Readers -> Reads]
  /\ \A x \in Readers : \E v \in Reads : rd'[x] = v /\ ReadOf(v)

Moves == Writes /\ mislaid' \in BOOLEAN /\ ReqMoved /\ PolMoved /\ RdMoved

LEMMA ReqStays == ASSUME TypeOK, ReqInv, req' = req PROVE ReqMoved
BY DEF TypeOK, ReqInv, ReqMoved

LEMMA PolStays == ASSUME TypeOK, PolInv, MountInv, pol' = pol PROVE PolMoved
BY DEF TypeOK, PolInv, MountInv, PolMoved

LEMMA RdStays == ASSUME TypeOK, ReadInv, rd' = rd PROVE RdMoved
BY DEF TypeOK, ReadInv, RdMoved

LEMMA ReqTakes == ASSUME TypeOK, ReqInv, NEW r \in Mutators, TakesSound(r) PROVE ReqMoved
<1>1. PICK v \in Mutations : req' = [req EXCEPT ![r] = v] /\ Sound(v) BY DEF TakesSound
<1>2. req \in [Mutators -> Mutations] BY DEF TypeOK
<1>3. req' \in [Mutators -> Mutations] BY <1>1, <1>2
<1>4. ASSUME NEW s \in Mutators PROVE \E w \in Mutations : req'[s] = w /\ Sound(w)
  <2>1. CASE s = r BY <1>1, <1>2, <2>1
  <2>2. CASE s # r
    <3>1. req'[s] = req[s] BY <1>1, <1>2, <2>2
    <3>2. Sound(req[s]) BY DEF ReqInv
    <3> QED BY <1>2, <3>1, <3>2
  <2> QED BY <2>1, <2>2
<1> QED BY <1>3, <1>4 DEF ReqMoved

LEMMA PolTakes ==
  ASSUME TypeOK, PolInv, MountInv, NEW p \in Policies, TakesListed(p) PROVE PolMoved
<1>1. PICK v \in PolicyRequests : pol' = [pol EXCEPT ![p] = v] /\ PolicySound(v) /\ MountPlanned(v)
  BY DEF TakesListed
<1>2. pol \in [Policies -> PolicyRequests] BY DEF TypeOK
<1>3. pol' \in [Policies -> PolicyRequests] BY <1>1, <1>2
<1>4. ASSUME NEW s \in Policies
      PROVE  \E w \in PolicyRequests : pol'[s] = w /\ PolicySound(w) /\ (~mislaid => MountPlanned(w))
  <2>1. CASE s = p BY <1>1, <1>2, <2>1
  <2>2. CASE s # p
    <3>1. pol'[s] = pol[s] BY <1>1, <1>2, <2>2
    <3>2. PolicySound(pol[s]) /\ (~mislaid => MountPlanned(pol[s])) BY DEF PolInv, MountInv
    <3> QED BY <1>2, <3>1, <3>2
  <2> QED BY <2>1, <2>2
<1> QED BY <1>3, <1>4 DEF PolMoved

LEMMA RdTakes == ASSUME TypeOK, ReadInv, NEW x \in Readers, TakesRead(x) PROVE RdMoved
<1>1. PICK v \in Reads : rd' = [rd EXCEPT ![x] = v] /\ ReadOf(v) BY DEF TakesRead
<1>2. rd \in [Readers -> Reads] BY DEF TypeOK
<1>3. rd' \in [Readers -> Reads] BY <1>1, <1>2
<1>4. ASSUME NEW s \in Readers PROVE \E w \in Reads : rd'[s] = w /\ ReadOf(w)
  <2>1. CASE s = x BY <1>1, <1>2, <2>1
  <2>2. CASE s # x
    <3>1. rd'[s] = rd[s] BY <1>1, <1>2, <2>2
    <3>2. ReadOf(rd[s]) BY DEF ReadInv
    <3> QED BY <1>2, <3>1, <3>2
  <2> QED BY <2>1, <2>2
<1> QED BY <1>3, <1>4 DEF RdMoved

LEMMA NextMoves == ASSUME IInv, [Next]_vars PROVE Moves
<1>1. TypeOK /\ RowInv /\ ReqInv /\ PolInv /\ MountInv /\ ReadInv BY DEF IInv
<1>2. mislaid \in BOOLEAN BY <1>1 DEF TypeOK
<1>3. CASE \E r \in Mutators : Mutate(r)
  <2>1. PICK r \in Mutators : Mutate(r) BY <1>3
  <2>2. Writes /\ TakesSound(r) /\ pol' = pol /\ rd' = rd BY <1>1, <2>1, MutateWrites
  <2>3. mislaid' \in BOOLEAN BY <1>1, <2>1, MislaidType
  <2>4. ReqMoved /\ PolMoved /\ RdMoved BY <1>1, <2>2, ReqTakes, PolStays, RdStays
  <2> QED BY <2>2, <2>3, <2>4 DEF Moves
<1>4. CASE \E p \in Policies : Replace(p)
  <2>1. PICK p \in Policies : Replace(p) BY <1>4
  <2>2. Writes /\ TakesListed(p) /\ req' = req /\ rd' = rd BY <1>1, <2>1, ReplaceWrites
  <2>3. mislaid' = mislaid
    BY <2>1 DEF Replace, List, ListRows, StartPlacement, StartAcl, PlacementBatch, AclBatch,
                RefusedPolicy
  <2>4. ReqMoved /\ PolMoved /\ RdMoved BY <1>1, <2>2, ReqStays, PolTakes, RdStays
  <2> QED BY <1>2, <2>2, <2>3, <2>4 DEF Moves
<1>5. CASE \E x \in Readers : Inspect(x)
  <2>1. PICK x \in Readers : Inspect(x) BY <1>5
  <2>2. Still /\ Writes /\ req' = req /\ pol' = pol BY <2>1, InspectWrites
  <2>3. TakesRead(x) BY <1>1, <2>1, InspectTakes
  <2>4. ReqMoved /\ PolMoved /\ RdMoved BY <1>1, <2>2, <2>3, ReqStays, PolStays, RdTakes
  <2> QED BY <1>2, <2>2, <2>4 DEF Moves, Still
<1>6. CASE UNCHANGED vars
  <2>1. Still /\ req' = req /\ pol' = pol /\ rd' = rd BY <1>6 DEF vars, Still
  <2>2. ReqMoved /\ PolMoved /\ RdMoved BY <1>1, <2>1, ReqStays, PolStays, RdStays
  <2> QED BY <1>2, <2>1, <2>2 DEF Moves, Writes, Still
<1> QED BY <1>3, <1>4, <1>5, <1>6 DEF Next

LEMMA IInvNext == IInv /\ [Next]_vars => IInv'
<1> SUFFICES ASSUME IInv, [Next]_vars PROVE IInv' OBVIOUS
<1>1. /\ TypeOK /\ RowInv /\ ReqInv /\ ShapeInv /\ EntriesBacked /\ PolInv /\ MountInv /\ ReadInv
  BY DEF IInv
<1>2. Writes /\ mislaid' \in BOOLEAN /\ ReqMoved /\ PolMoved /\ RdMoved BY NextMoves DEF Moves
<1>3. Typed BY <1>1, <1>2, WritesTyped
<1>4. Grows BY <1>1, <1>2, WritesGrow
<1>5. dir' \in [Dirs -> DirectoryRows] BY <1>3 DEF Typed
<1>6. TypeOK' BY <1>2, <1>3 DEF TypeOK, Typed, ReqMoved, PolMoved, RdMoved
<1>7. RowInv' BY <1>1, <1>2, RowStep
<1>8. ShapeInv' BY <1>1, <1>2, ShapeStep
<1>9. EntriesBacked' BY <1>1, <1>2, BackedStep
<1>10. ReqInv'
  <2> SUFFICES ASSUME NEW r \in Mutators PROVE Sound(req[r])' BY DEF ReqInv
  <2>1. PICK v \in Mutations : req'[r] = v /\ Sound(v) BY <1>2 DEF ReqMoved
  <2>2. Sound(v)' BY <1>1, <1>4, <1>5, <2>1, SoundKept
  <2> QED BY <2>1, <2>2
<1>11. PolInv'
  <2> SUFFICES ASSUME NEW p \in Policies PROVE PolicySound(pol[p])' BY DEF PolInv
  <2>1. PICK v \in PolicyRequests : pol'[p] = v /\ PolicySound(v) BY <1>2 DEF PolMoved
  <2>2. PolicySound(v)' BY <1>1, <1>4, <1>5, <2>1, PolicyKept
  <2> QED BY <2>1, <2>2
<1>12. MountInv'
  <2> SUFFICES ASSUME ~mislaid' PROVE Mounted' /\ \A p \in Policies : MountPlanned(pol[p])'
    BY DEF MountInv
  <2>1. ~mislaid BY <1>2, MislaidKept
  <2>2. Linked /\ Rooted /\ Placed BY <1>1, <2>1 DEF ShapeInv
  <2>3. Mounted BY <1>1, <2>1 DEF MountInv
  <2>4. Mounted' BY <1>1, <1>2, <2>1, <2>2, <2>3, MountedStep
  <2>5. ASSUME NEW p \in Policies PROVE MountPlanned(pol[p])'
    <3>1. PICK v \in PolicyRequests : pol'[p] = v /\ PolicySound(v) /\ MountPlanned(v)
      BY <1>2, <2>1 DEF PolMoved
    <3>2. MountPlanned(v)' BY <1>1, <1>2, <1>3, <2>2, <3>1, MountPlannedKept
    <3> QED BY <3>1, <3>2
  <2> QED BY <2>4, <2>5
<1>13. ReadInv'
  <2> SUFFICES ASSUME NEW x \in Readers PROVE ReadOf(rd[x])' BY DEF ReadInv
  <2>1. PICK v \in Reads : rd'[x] = v /\ ReadOf(v) BY <1>2 DEF RdMoved
  <2>2. ReadOf(v)' BY <1>1, <1>2, <1>3, <2>1, ReadKept
  <2> QED BY <2>1, <2>2
<1> QED BY <1>6, <1>7, <1>8, <1>9, <1>10, <1>11, <1>12, <1>13 DEF IInv

LEMMA AlwaysIInv == Spec => []IInv
<1>1. Init => IInv BY IInvInit
<1>2. IInv /\ [Next]_vars => IInv' BY IInvNext
<1> QED BY <1>1, <1>2, PTL DEF Spec

-----------------------------------------------------------------------------
(* The theorems *)

\* The directories stay one tree however renames, removals and creations of
\* vfs_rename, vfs_remove and vfs_directories interleave, as long as no removal
\* took the entry of another subject; and every row and request has its type.
THEOREM TreeKeepsShape == Spec => []TreeShape
<1>1. ASSUME IInv PROVE TreeShape
  <2>1. TypeOK /\ RowInv /\ ShapeInv BY <1>1 DEF IInv
  <2>2. ASSUME ~mislaid PROVE Linked /\ Rooted /\ Placed BY <2>1, <2>2 DEF ShapeInv
  <2>3. ASSUME Rooted PROVE \A d \in Dirs : Active(d) => Root \in Ancestors(d)
    BY <2>3, AncestorsAbove DEF Rooted
  <2> QED BY <2>1, <2>2, <2>3 DEF TreeShape, Linked, Placed
<1>2. IInv => TreeShape BY <1>1
<1> QED BY <1>2, AlwaysIInv, PTL

\* Directories, mounts and files agree on their drivers: what the triggers of a
\* mount policy, a put and a rename check in the batch is enough, whatever
\* happened since their handlers looked.
THEOREM DriversAlwaysAgree == Spec => []DriversAgree
<1>1. ASSUME IInv PROVE DriversAgree
  <2>1. TypeOK /\ EntriesBacked /\ MountInv BY <1>1 DEF IInv
  <2>2. MountsSound
    <3> SUFFICES ASSUME ~mislaid, NEW d \in Dirs, Active(d)
                 PROVE  CASE dir[d].mount = "default"   -> d = Root
                          [] dir[d].mount = "inherited" ->
                               d # Root /\ dir[d].driver = dir[dir[d].parent].driver
                          [] dir[d].mount = "mount"     ->
                               /\ d # Root /\ ~Nested(d)
                               /\ dir[d].driver # dir[dir[d].parent].driver
      BY DEF MountsSound
    <3>1. MountOk(d) BY <2>1 DEF MountInv, Mounted
    <3>2. dir[d].mount \in {"default", "mount", "inherited"} BY <2>1, ColumnsType
    <3>3. CASE dir[d].mount = "default" BY <3>1, <3>3 DEF MountOk
    <3>4. CASE dir[d].mount = "inherited" BY <3>1, <3>4 DEF MountOk
    <3>5. CASE dir[d].mount = "mount"
      <4>1. ~Nested(d) BY <3>1, <3>5, AncestorsAbove DEF MountOk, Nested
      <4> QED BY <3>1, <3>5, <4>1 DEF MountOk
    <3> QED BY <3>2, <3>3, <3>4, <3>5
  <2> QED BY <2>1, <2>2 DEF DriversAgree
<1>2. IInv => DriversAgree BY <1>1
<1> QED BY <1>2, AlwaysIInv, PTL

\* A committed replacement of a placement or an ACL replaced the very rows its
\* client had listed: the revision is read before the rows and checked in the
\* batch.
THEOREM ReplacementIsOfListed == Spec => []ReplacesWhatWasListed
<1>1. IInv => ReplacesWhatWasListed BY DEF IInv, PolInv, PolicySound, ReplacesWhatWasListed
<1> QED BY <1>1, AlwaysIInv, PTL

\* A read of the console that passes its fence answers the directory as it was
\* at one instant, and its pages add up to the entries of that instant.
THEOREM ReadsAreSnapshots == Spec => []ReadIsSnapshot
<1>1. ASSUME IInv PROVE ReadIsSnapshot
  <2> SUFFICES ASSUME ~mislaid, NEW x \in Readers
               PROVE  /\ rd[x].pc \in {"answered", "page", "more", "last", "complete"} =>
                           rd[x].view = rd[x].snap
                      /\ rd[x].pc = "complete" => rd[x].got = rd[x].snap.entries
    BY DEF ReadIsSnapshot
  <2>1. ReadOf(rd[x]) BY <1>1 DEF IInv, ReadInv
  <2> QED BY <2>1 DEF ReadOf, Late
<1>2. IInv => ReadIsSnapshot BY <1>1
<1> QED BY <1>2, AlwaysIInv, PTL
=============================================================================

--------------------------- MODULE MCCatalogClient ---------------------------
(* Small instances of CatalogClient. *)
EXTENDS CatalogClient, TLC

Dir(in, name, id) == [in |-> in, name |-> name, kind |-> "directory", id |-> id]
File(in, name, id) == [in |-> in, name |-> name, kind |-> "file", id |-> id]

\* A source directory a with a directory s, whose file changes; the source
\* under another name, so that a delta reuses the nodes below it.
Tree(name, version) ==
  {Dir("root", name, "d"), Dir("d", "s", "e"), File("e", "y", version)}

SmallTrees == {Tree("a", "v1"), Tree("a", "v2"), Tree("c", "v1")}
First == Tree("a", "v1")
SourcePath == <<"a">>
Symmetry == Permutations(Syncs)
=============================================================================

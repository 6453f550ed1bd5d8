----------------------- MODULE MCCatalogMaterialization -----------------------
(* Small instances of CatalogMaterialization. *)
EXTENDS CatalogMaterialization, TLC

Dir(in, name, id) == [in |-> in, name |-> name, kind |-> "directory", id |-> id]
File(in, name, id) == [in |-> in, name |-> name, kind |-> "file", id |-> id]

\* Two directories; then one of them with another name and another file,
\* while the node of the other is shared by the two trees.
Plain   == {Dir("root", "a", "d"), File("d", "x", "v1"), Dir("root", "b", "e")}
Changed == {Dir("root", "c", "d"), File("d", "x", "v2"), Dir("root", "b", "e")}

SmallTrees == {Plain, Changed}
=============================================================================

------------------------- MODULE MCImportCollector -------------------------
(* Instances of ImportCollector: two directories, both lib paths, and three *)
(* names.  Disks are built from few files: a imports up to two names, b and *)
(* c up to one, so that chains, shared imports and cycles occur, with       *)
(* garbled files among them.                                                *)
EXTENDS ImportCollectorProofs

MCNames == {"a", "b", "c"}
MCDirs == {"lib", "vendor"}
MCLibPaths == <<"lib", "vendor">>
MCRoots == {<<"lib", "a">>}

Good(s) == [lexes |-> TRUE, imports |-> s]
Garbled == [lexes |-> FALSE, imports |-> <<>>]

\* At most two imports of a file, in either order.
Lists == {<<>>} \cup {<<x>> : x \in MCNames} \cup {<<x, y>> : x, y \in MCNames}

\* a and b in lib; c in lib, in vendor, in both with other imports, or absent.
Places == {{<<"lib", "c">>}, {<<"vendor", "c">>}, {<<"lib", "c">>, <<"vendor", "c">>}, {}}
AB == {<<"lib", "a">>, <<"lib", "b">>}

\* The imports of b and of c in lib; c in vendor imports b.
ShortLists == {<<>>} \cup {<<x>> : x \in MCNames}
MCDisks ==
    UNION {{[p \in AB \cup cs |->
                IF p[2] = "a" THEN Good(la)
                ELSE IF p[2] = "b" THEN fb
                ELSE IF p[1] = "lib" THEN fc ELSE Good(<<"b">>)] :
              la \in Lists,
              fb \in {Good(s) : s \in ShortLists} \cup {Garbled},
              fc \in {Good(s) : s \in ShortLists} \cup {Garbled}} : cs \in Places}
=============================================================================

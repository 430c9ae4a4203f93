---------------------------- MODULE MCNodeCache ----------------------------
(* Small instances of NodeCache for TLC.  A document imports 1; 1 imports 2  *)
(* or nothing; documents live in "src", libraries in "lib".                  *)
EXTENDS NodeCache

File(imports, status) == [imports |-> imports, status |-> status]

OneDoc == {<<"src", 0>>}
OneDir == {<<"lib", 1>>, <<"lib", 2>>}
OneDirPaths == {<<>>, <<"lib">>}

\* 1 imports 2, which may fail to evaluate.
ChainContents(p) ==
    CASE p[2] = 0 -> {File({1}, "ok")}
      [] p[2] = 1 -> {File({2}, "ok")}
      [] p[2] = 2 -> {File({}, "ok"), File({}, "failing")}

\* What else can go wrong: a document with two imports or one that does not
\* lex, a file with an import that is nowhere, and a 2 that does not evaluate.
MixedContents(p) ==
    CASE p[2] = 0 -> {File({1, 2}, "ok"), File({}, "garbled")}
      [] p[2] = 1 -> {File({2}, "ok"), File({3}, "ok")}
      [] p[2] = 2 -> {File({}, "ok"), File({}, "failing")}
============================================================================

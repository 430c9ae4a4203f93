------------------------------ MODULE MCLexer ------------------------------
(* Texts for the lexer.                                                      *)
EXTENDS Pieces

Dialect(begins, runes, max) == [begins |-> begins, runes |-> runes, max |-> max]
Texts == {
    Dialect(<<>>, {"0", "1", ".", "e", "+"}, 6),
    Dialect(<<>>, {"i", "n", "0", " ", "newline"}, 5),
    Dialect(<<>>, {"\"", "\\", "newline", "e'"}, 6),
    Dialect(<<"@">>, {"'", "@", "\"", "x"}, 7),
    Dialect(<<>>, {"/", "*", "newline", "="}, 6),
    Dialect(<<>>, {"#", "newline", "tab", "e'", "{"}, 5),
    Dialect(<<>>, {"=", "-", "|", "/", "*"}, 5),
    Dialect(<<"x">>, {"=", "!", "+", "$"}, 6),
    Dialect(<<"|", "|", "|", "newline">>, {" ", "tab", "x", "newline", "|"}, 9),
    Dialect(<<"|", "|", "|", "newline", " ", "x", "newline">>, {" ", "x", "newline", "|"}, 12),
    Dialect(<<"|", "|", "|", " ">>, {"|", " ", "return", "newline"}, 9) }
----------------------------------------------------------------------------
\* Whatever the text, Lex returns: no loop misses its end, and backup is never
\* called twice for one next.
Returns == <>(at \in {"done", "error"})
============================================================================

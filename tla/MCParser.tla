----------------------------- MODULE MCParser -----------------------------
(* Dialects that each leave room for a few constructs at a time, and the    *)
(* parser against the grammar.                                              *)
EXTENDS Grammar

Dialect(begins, kinds, max, full) ==
    [begins |-> begins, kinds |-> kinds, max |-> max, full |-> full]

MCDialects ==
    {Dialect(<<>>, {"x", "lit", "+", "*", "!", "in", "super", "."}, 5, 3),
     Dialect(<<"x">>, {"x", "+", "*", "in", "super", "."}, 7, 5),
     Dialect(<<"super">>, {"x", "[", "]", ".", "+"}, 7, 6),
     Dialect(<<"x", "(">>, {"x", "y", ")", ",", "=", "tailstrict"}, 8, 7),
     Dialect(<<"function", "(">>, {"x", "y", ")", ",", "=", "lit"}, 8, 7),
     Dialect(<<"local", "x">>, {"x", "y", "local", "=", ";", ",", "(", ")"}, 8, 5),
     Dialect(<<"x", "[">>, {"x", "[", "]", ":", "::", "colonString", "+"}, 7, 4),
     Dialect(<<>>, {"str", "block", "import", "+", "{", "}", ":"}, 5, 3),
     Dialect(<<>>, {"x", "if", "then", "else", "error", "assert", ";", ":"}, 6, 3),
     Dialect(<<"if", "x">>, {"x", "then", "else", "if", "+"}, 7, 5),
     Dialect(<<"assert", "x">>, {"x", ";", ":", "error", "+"}, 7, 5),
     Dialect(<<"[", "x">>, {"x", "[", "]", ",", "for", "in", "if"}, 7, 5),
     Dialect(<<"{", "x">>, {"x", "y", "{", "}", ":", "+:", ",", "local", "="}, 8, 5),
     Dialect(<<"{">>, {"x", "str", "}", ":", ",", "assert", "(", ")", "+:"}, 7, 4),
     Dialect(<<"{", "[", "x", "]">>, {"x", "}", ":", "::", "for", "local", "=", ","}, 10, 7),
     Dialect(<<"{", "[", "x", "]", ":", "x", "for">>, {"x", "}", "for", "in", "if", ","}, 13, 10),
     Dialect(<<"local", "x", "=", "{", "x", ":">>, {"x", "(", "}", ":", ",", ";"}, 10, 0)}

MCPanicking == {Dialect(<<>>, {"x", "local", "=", "{", "}", ":"}, 6, 0)}

Text == IF ended THEN Front(tokens) ELSE tokens
Read == SubSeq(tokens, 1, cur)
Silent == stopped /\ ~panicked /\ ret # "err" /\ diags = {}

\* What the parser takes without a word is a sentence, up to where it stopped
\* reading.  Two texts are let through besides: a local with nothing after it,
\* and a string that reads `:` where a slice has its colon.
Sound ==
    Silent => \/ IsExpression(Read)
              \/ Last(Read) = "local"
              \/ "colonString" \in ToSet(Read)

\* Sentences that the parser is known to reject or to leave half read: an
\* index before `::`, an operator after an import or after `in super`.
Unsupported(s) ==
    \/ \E i \in Where(s, {"::"}), j \in Where(s, {"["}) :
          j < i /\ IsExpression(Part(s, j + 1, i - 1))
    \/ \E i \in 1..(Len(s) - 2) :
          /\ s[i] = "import" \/ SubSeq(s, i, i + 1) = <<"in", "super">>
          /\ s[i + 2] \in Applies \cup DOMAIN bopPrecedence
    \/ "colonString" \in ToSet(s)

\* Every other sentence is read to its end, without an error or diagnostic.
Complete ==
    stopped /\ ended /\ IsExpression(Text) /\ ~Unsupported(Text) =>
        Silent /\ cur = Len(Text)
=============================================================================

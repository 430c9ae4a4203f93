------------------------------- MODULE Lexer -------------------------------
(* token.Lex: a text becomes tokens, and what lies between them is fodder of *)
(* the token that follows.                                                   *)
(*                                                                           *)
(* `at` is the place of the code that asks for the next rune: the loop of    *)
(* Lex ("lex"), a state of lexNumber, or one of the loops that read the rest *)
(* of something.  The runes of a text are decided when the lexer first looks *)
(* at them.  Runes, and words other than the keywords below, that the lexer  *)
(* treats alike have few representatives; "e'" is one of two bytes.          *)
EXTENDS Naturals, Sequences, FiniteSets, SequencesExt

CONSTANT
    \* The texts to lex: the runes they begin with, the others, their number.
    Dialects

Digits == {"0", "1"}
Letters == {"e", "i", "n", "x"}
Indents == {" ", "tab"}
Blanks == Indents \cup {"return"}
Quotes == {"\"", "'"}
Symbols == {"!", "$", "+", "-", "=", "|", "/", "*"}
Punctuation == {"{", ","}
Runes == Digits \cup Letters \cup Blanks \cup Quotes \cup Symbols \cup Punctuation
            \cup {"newline", ".", "@", "#", "\\", "e'"}
Keywords == {<<"i", "n">>}

ASSUME DialectsAssumption ==
    Dialects \subseteq [begins : Seq(Runes), runes : SUBSET Runes, max : Nat]

VARIABLES
    dialect, text, ended,  \* the text, as far as the lexer has looked
    cursor,                \* lexer.pos and lexer.prev
    start,                 \* the position TokenStart and TokenStartLoc are of
    tokens, fodder,        \* what has been lexed
    at,                    \* the place in the code
    quot, data, indent     \* locals: the quote, cb or data, StringBlockIndent
text_vars == <<dialect, text, ended>>
vars == <<text_vars, cursor, start, tokens, fodder, at, quot, data, indent>>
-----------------------------------------------------------------------------
(* The cursor.  A position also counts the runes before it (n).              *)
None == [n |-> 0, byteNo |-> 0, lineNo |-> 0, lineStart |-> 0]
Width(r) == IF r = "e'" THEN 2 ELSE 1
RuneAt(n) == IF n < Len(text) THEN text[n + 1] ELSE "eof"
Prefix(n, s) == \A i \in 1..Len(s) : RuneAt(n + i - 1) = s[i]

\* Mutant: a rune is a byte.
AfterByte(p) ==
    LET rune == RuneAt(p.n)
        byteNo == p.byteNo + 1
    IN IF rune = "eof" THEN p
       ELSE [n |-> p.n + 1, byteNo |-> byteNo,
             lineNo |-> p.lineNo + (IF rune = "newline" THEN 1 ELSE 0),
             lineStart |-> IF rune = "newline" THEN byteNo ELSE p.lineStart]
After(p) ==
    LET rune == RuneAt(p.n)
        byteNo == p.byteNo + Width(rune)
    IN IF rune = "eof" THEN p
       ELSE [n |-> p.n + 1, byteNo |-> byteNo,
             lineNo |-> p.lineNo + (IF rune = "newline" THEN 1 ELSE 0),
             lineStart |-> IF rune = "newline" THEN byteNo ELSE p.lineStart]

\* Mutant: at the end of the text prev stays what it was.
nextForgets(c) ==
    IF RuneAt(c.pos.n) = "eof" THEN c ELSE [pos |-> After(c.pos), prev |-> c.pos]
next(c) == [pos |-> After(c.pos), prev |-> c.pos]

\* Without a previous rune backup panics, and nothing goes on from None.
backup(c) == [pos |-> c.prev, prev |-> None]

\* It is used for blanks and bars only.
Moved(p, n, byteNo) == [n |-> n, byteNo |-> byteNo, lineNo |-> p.lineNo, lineStart |-> p.lineStart]
Forward(p, n) == Moved(p, p.n + n, p.byteNo + n)
acceptN(c, n) == [pos |-> Forward(c.pos, n), prev |-> Forward(c.pos, n - 1)]

location(p) == [line |-> p.lineNo, column |-> p.byteNo - p.lineStart + 1]

\* The rune that next returns, the runes after it, and the cursor once next, or
\* next and backup, have been called.
r == RuneAt(cursor.pos.n)
Follows(s) == Prefix(cursor.pos.n + 1, s)
Read == next(cursor)
Seen == backup(next(cursor))

\* What the code looks at is known: three runes, or a run of blanks.
Ready ==
    \/ ended
    \/ /\ Len(text) >= cursor.pos.n + 3
       /\ \E i \in cursor.pos.n + 1 .. Len(text) : text[i] \notin Indents

On(place) == at = place /\ Ready /\ cursor.pos # None
Stopped == at \in {"done", "error"} \/ cursor.pos = None

Reveal ==
    /\ ~Stopped /\ ~Ready
    /\ \/ ended' = TRUE /\ text' = text
       \/ /\ Len(text) < dialect.max
          /\ \E rune \in dialect.runes : text' = Append(text, rune)
          /\ ended' = FALSE
    /\ UNCHANGED <<dialect, cursor, start, tokens, fodder, at, quot, data, indent>>
-----------------------------------------------------------------------------
(* What the places of the code do.                                           *)
GoTo(call, place) ==
    /\ \E c \in {call} : cursor' = c
    /\ at' = place
    /\ UNCHANGED <<text_vars, start, tokens, fodder, quot, indent>>
Go(c, place) == GoTo(c, place) /\ data' = data
Fail == Go(Read, "error")

resetTokenStart(c) == start' = c.pos

Lexeme(c) == SubSeq(text, start.n + 1, c.pos.n)

emit(call, kind, what, place) ==
    /\ \E c \in {call} :
          /\ tokens' = Append(tokens, [kind |-> kind, fodder |-> fodder, data |-> what,
                                       from |-> start.n, to |-> c.pos.n,
                                       begin |-> location(start), end |-> location(c.pos)])
          /\ resetTokenStart(c) /\ cursor' = c
    /\ fodder' = <<>> /\ at' = place
    /\ UNCHANGED <<text_vars, quot, data, indent>>
emitFullToken(c, kind, what) == emit(c, kind, what, "lex")
emitToken(c, kind) == emitFullToken(c, kind, Lexeme(c))
\* A string's quotes are not part of its data.
emitString(c) == emitFullToken(c, "string", SubSeq(text, start.n + 2, c.pos.n - 1))

\* Fodder from TokenStart up to `end`; the lexer goes on at c.
Fodder(kind, end) == [kind |-> kind, from |-> start.n, to |-> end.n]
addFodder(call, all) ==
    /\ \E c \in {call} : resetTokenStart(c) /\ cursor' = c
    /\ fodder' = all /\ at' = "lex"
    /\ UNCHANGED <<text_vars, tokens, quot, data, indent>>
addWhitespaceFodder(c) ==
    addFodder(c, IF fodder = <<>> \/ Last(fodder).kind # "space"
                 THEN Append(fodder, Fodder("space", c.pos))
                 ELSE [fodder EXCEPT ![Len(fodder)].to = c.pos.n])
addCommentFodder(c, kind) == addFodder(c, Append(fodder, Fodder(kind, c.pos)))

\* A comment begins, and its delimiter is thrown out.
Begin(call, place) ==
    /\ \E c \in {call} : resetTokenStart(c) /\ cursor' = c
    /\ at' = place
    /\ UNCHANGED <<text_vars, tokens, fodder, quot, data, indent>>

Quote(call, quote, place) ==
    /\ \E c \in {call} : cursor' = c
    /\ quot' = quote /\ data' = <<>> /\ at' = place
    /\ UNCHANGED <<text_vars, start, tokens, fodder, indent>>
-----------------------------------------------------------------------------
(* The loop of Lex.                                                          *)
LexEnd == On("lex") /\ r = "eof" /\ emit(Read, "eof", Lexeme(Read), "done")
LexWhitespace == On("lex") /\ r \in Blanks \cup {"newline"} /\ addWhitespaceFodder(Read)
LexPunctuation == On("lex") /\ r \in Punctuation \cup {"."} /\ emitToken(Read, r)
LexWord ==
    /\ On("lex")
    /\ \/ r \in Digits /\ Go(Seen, "begin")
       \/ r \in Letters /\ Go(next(Seen), "identifier")
LexString == On("lex") /\ r \in Quotes /\ Quote(Read, r, "string")
LexVerbatim ==
    /\ On("lex") /\ r = "@"
    /\ LET quote == RuneAt(cursor.pos.n + 1)
       IN IF quote \in Quotes THEN Quote(next(Read), quote, "verbatim") ELSE Fail
LexHash == On("lex") /\ r = "#" /\ Begin(Read, "# comment")
LexOther ==
    /\ On("lex")
    /\ r \in {"\\", "e'"}
    /\ Fail
-----------------------------------------------------------------------------
(* lexNumber.                                                                *)
NumberStates == {"begin", "after zero", "after one to nine", "after dot", "after digit",
                 "after e", "after sign", "after exponent"}
NumberStep(state) ==
    CASE state = "begin" -> IF r = "0" THEN "after zero" ELSE "after one to nine"
      [] r \in Digits /\ state \in {"after one to nine"} -> state
      [] r \in Digits /\ state \in {"after dot", "after digit"} -> "after digit"
      [] r \in Digits /\ state \in {"after e", "after sign", "after exponent"} -> "after exponent"
      [] r = "." /\ state \in {"after zero", "after one to nine"} -> "after dot"
      [] r = "e" /\ state \in {"after zero", "after one to nine", "after digit"} -> "after e"
      [] r \in {"+", "-"} /\ state = "after e" -> "after sign"
      [] OTHER -> IF state \in {"after dot", "after e", "after sign"} THEN "junk" ELSE "end"

LexNumber ==
    /\ at \in NumberStates /\ Ready
    /\ LET to == NumberStep(at)
       IN CASE to = "junk" -> Fail
            [] to = "end" -> emitToken(Seen, "number")
            [] OTHER -> Go(Read, to)

LexIdentifier ==
    /\ On("identifier")
    /\ IF r \in Letters \cup Digits THEN Go(Read, "identifier")
       ELSE emitToken(Seen, IF Lexeme(Seen) \in Keywords THEN "keyword" ELSE "identifier")
-----------------------------------------------------------------------------
(* Strings.                                                                  *)
LexStringRune ==
    /\ On("string")
    /\ CASE r = "eof" -> Fail
         [] r = quot -> emitString(Read)
         [] OTHER -> Go(IF r # "\\" THEN Read
                        ELSE LET c == backup(next(Read))     \* peek
                             IN IF RuneAt(c.pos.n) # "eof" THEN next(c) ELSE c,
                        "string")

\* A doubled quote stands for the quote.
LexVerbatimRune ==
    /\ On("verbatim")
    /\ \E c \in {backup(next(Read))} :     \* peek, after a quote
            CASE r = "eof" -> Fail
            [] r = quot /\ RuneAt(c.pos.n) # quot -> emitFullToken(c, "verbatim", data)
            [] OTHER -> /\ GoTo(IF r = quot THEN next(c) ELSE Read, "verbatim")
                        /\ data' = Append(data, r)
-----------------------------------------------------------------------------
(* lexSymbol.                                                                *)
LexSymbol ==
    /\ On("lex") /\ r \in Symbols
    /\ \E c \in {IF r = "/" THEN backup(next(next(Seen))) ELSE next(Seen)} :
            CASE r = "/" /\ Follows(<<"/">>) -> Begin(next(c), "// comment")
            [] r = "/" /\ Follows(<<"*">>) -> Begin(next(c), "/* comment")
            [] r = "|" /\ Follows(<<"|", "|">>) ->
                 /\ GoTo(acceptN(c, 2), "block")
                 /\ data' = <<>>
            [] OTHER -> Go(c, "operator")

\* The newline is left to be fodder of its own.
LexLineComment ==
    /\ On("# comment") \/ On("// comment")
    /\ IF r \in {"eof", "newline"} THEN addCommentFodder(Seen, at) ELSE Go(Read, at)

LexBlockComment ==
    /\ On("/* comment")
    /\ \E peeked \in {backup(next(Read))} :
            CASE r = "eof" -> Fail
            [] r = "*" /\ Follows(<<"/">>) ->
                 addFodder(next(peeked), Append(fodder, Fodder(at, cursor.pos)))
            [] OTHER -> Go(IF r = "*" THEN peeked ELSE Read, at)

\* Operators do not run into a comment or a text block.  One that would end in
\* + - ~ or ! is wound back, to its first rune.
\* Mutant: a comment after an operator is part of it.
OperatorStops == r \notin Symbols
Stops ==
    \/ r \notin Symbols
    \/ r = "/" /\ (Follows(<<"/">>) \/ Follows(<<"*">>))
    \/ r = "|" /\ Follows(<<"|", "|">>)
WindBack(c) ==
    IF c.pos.n > start.n + 1 /\ text[c.pos.n] \in {"+", "-", "!"}
    THEN [c EXCEPT !.pos = Moved(c.pos, start.n + 1, start.byteNo + 1)]
    ELSE c
LexOperator ==
    /\ On("operator")
    /\ IF ~Stops THEN Go(Read, "operator")
       ELSE \E c \in {WindBack(Seen)} :
                emitToken(c, IF Lexeme(c) = <<"$">> THEN "$" ELSE "operator")
-----------------------------------------------------------------------------
(* lexSymbol: text blocks.                                                   *)
BlockOpens ==
    /\ On("block")
    /\ CASE r \in Blanks -> Go(Read, "block")
         [] r = "newline" -> Go(Read, "first line")
         [] OTHER -> Fail

\* checkWhitespace(input, input): the blanks at the cursor indent the text block.
Indented == {k \in cursor.pos.n + 1 .. Len(text) :
                \A j \in cursor.pos.n + 1 .. k : text[j] \in Indents}
Indent == SubSeq(text, cursor.pos.n + 1, cursor.pos.n + Cardinality(Indented))

BlockFirstLine ==
    /\ On("first line")
    /\ CASE r = "newline" -> GoTo(Read, at) /\ data' = Append(data, r)
         [] r # "newline" /\ Indent = <<>> -> Fail
         [] OTHER ->
              /\ indent' = Indent
              /\ cursor' = acceptN(Seen, Len(indent')) /\ at' = "line"
              /\ UNCHANGED <<text_vars, start, tokens, fodder, quot, data>>

BlockLine ==
    /\ On("line")
    /\ IF r = "eof" THEN Fail
       ELSE /\ GoTo(Read, IF r = "newline" THEN "next line" ELSE "line")
            /\ data' = Append(data, r)

\* Blank lines belong to the block; a line that lacks the indent ends it.
BlockNextLine ==
    /\ On("next line")
    /\ CASE r = "newline" -> GoTo(Read, at) /\ data' = Append(data, r)
         [] Prefix(cursor.pos.n, indent) -> Go(acceptN(Seen, Len(indent)), "line")
         [] OTHER -> Go(Seen, "last line")

BlockLastLine ==
    /\ On("last line")
    /\ CASE r \in Indents -> Go(Read, at)
         [] Prefix(cursor.pos.n, <<"|", "|", "|">>) ->
              emitFullToken(acceptN(Seen, 3), "block", data)
         [] OTHER -> Fail
-----------------------------------------------------------------------------
Init ==
    /\ dialect \in Dialects /\ text = dialect.begins /\ ended = FALSE
    /\ start = [n |-> 0, byteNo |-> 0, lineNo |-> 1, lineStart |-> 0]
    /\ cursor = [pos |-> start, prev |-> None]
    /\ tokens = <<>> /\ fodder = <<>>
    /\ at = "lex" /\ quot = "none" /\ data = <<>> /\ indent = <<>>

Lex ==
    \/ LexEnd \/ LexWhitespace \/ LexPunctuation \/ LexWord \/ LexString \/ LexVerbatim
    \/ LexHash \/ LexOther \/ LexNumber \/ LexIdentifier \/ LexStringRune \/ LexVerbatimRune
    \/ LexSymbol \/ LexLineComment \/ LexBlockComment \/ LexOperator
    \/ BlockOpens \/ BlockFirstLine \/ BlockLine \/ BlockNextLine \/ BlockLastLine

Next == Reveal \/ Lex

\* Lex is a function that runs to its end.
Spec == Init /\ [][Next]_vars /\ WF_vars(Next)
-----------------------------------------------------------------------------
(* Positions.                                                                *)
Position == [n : Nat, byteNo : Nat, lineNo : Nat, lineStart : Nat]
Location == [line : Nat, column : Nat]
Comments == {"# comment", "// comment", "/* comment"}
Kinds == Punctuation \cup {".", "eof", "number", "keyword", "identifier", "string", "verbatim",
                           "$", "operator", "block"}
Element == [kind : Comments \cup {"space"}, from : Nat, to : Nat]
Lexed == [kind : Kinds, fodder : Seq(Element), data : Seq(Runes), from : Nat, to : Nat,
          begin : Location, end : Location]

\* Line and column after n runes of t: those on the line that rune n ends or is in
\* count once, and once more for each that is of two bytes.
Newlines(t, n) == {k \in 1..n : t[k] = "newline"}
OnLine(t, n) == {k \in 1..n : \A j \in k..n : t[j] # "newline"}
Wide(t, n) == {k \in OnLine(t, n) : t[k] = "e'"}
LocationIn(t, n) ==
    [line |-> Cardinality(Newlines(t, n)) + 1,
     column |-> Cardinality(OnLine(t, n)) + Cardinality(Wide(t, n)) + 1]

\* Lines and columns stay in step with the text through every peek, backup and
\* wind back (lexer.go:671), so an editor finds a token where the lexer says it is,
\* and tokens lie apart and in the order of the text.
Located ==
    /\ location(cursor.pos) = LocationIn(text, cursor.pos.n)
    /\ \A i \in DOMAIN tokens :
          /\ tokens[i].begin = LocationIn(text, tokens[i].from)
          /\ tokens[i].end = LocationIn(text, tokens[i].to)
          /\ tokens[i].from <= tokens[i].to
          /\ tokens[i].to <= IF i = Len(tokens) THEN cursor.pos.n ELSE tokens[i + 1].from
=============================================================================

---------------------------- MODULE LexerProofs ----------------------------
(***************************************************************************)
(* For every text, the tokens of the lexer lie apart, in order and at the  *)
(* lines and columns it says (LocationsAreSound), tokens and fodder are    *)
(* the pieces of the text (TextRecognised), and no step leaves Lex where   *)
(* it was (LexMovesOn).                                                    *)
(*                                                                         *)
(* A line and a column are numbers of runes of the text (LocationIn), and  *)
(* the runes a step moves over change them by as much (NextNewline,        *)
(* NextOnLine, ForwardSound).  That the cursor is in step with the text is *)
(* not inductive: an operator is wound back to its first rune, with the    *)
(* line of its last, so IInv says that they are on one line.               *)
(*                                                                         *)
(* What the runes read so far are at each place of the code is Pending: a  *)
(* number without its exponent, a string whose last rune is no backslash,  *)
(* the margin of a block.  The text of the model grows with what the lexer *)
(* looks at, and what a piece is depends on the rune after it; so Reads is *)
(* said of every text that continues it, and a step that looks at one more *)
(* rune only leaves fewer of them (RevealContinues).                       *)
(***************************************************************************)
EXTENDS Pieces, FiniteSetTheorems, SequenceTheorems, TLAPS

\* A position that is in step with the text.
Sound(p) ==
    /\ p \in Position /\ p.n \in 0..Len(text)
    /\ location(p) = LocationIn(text, p.n)

TypeOK ==
    /\ dialect \in Dialects
    /\ text \in Seq(Runes) /\ data \in Seq(Runes)
    /\ tokens \in Seq(Lexed) /\ fodder \in Seq(Element)
    /\ indent \in Seq(Indents)

\* Where a token begins is known: at the cursor in the loop of Lex, and on the
\* same line while an operator is read.
Begun ==
    /\ Sound(cursor.pos) /\ Sound(start) /\ start.n <= cursor.pos.n
    /\ at = "lex" => start = cursor.pos
    /\ at \in {"operator", "string"} => start.n < cursor.pos.n
    /\ at = "operator" =>
         /\ start.lineNo = cursor.pos.lineNo /\ start.lineStart = cursor.pos.lineStart
         /\ text[start.n + 1] \in Symbols

Ordered(s, t) ==
    /\ t.from \in 0..Len(s) /\ t.to \in 0..Len(s)
    /\ t.from <= t.to
    /\ t.begin = LocationIn(s, t.from) /\ t.end = LocationIn(s, t.to)
Placed ==
    \A i \in 1..Len(tokens) :
        /\ Ordered(text, tokens[i])
        /\ tokens[i].to <= IF i = Len(tokens) THEN start.n ELSE tokens[i + 1].from

IInv == TypeOK /\ Begun /\ Placed

----------------------------------------------------------------------------
(* Locations.                                                              *)

LEMMA FiniteLines ==
    ASSUME NEW n \in Nat
    PROVE  /\ IsFiniteSet(Newlines(text, n)) /\ IsFiniteSet(OnLine(text, n)) /\ IsFiniteSet(Wide(text, n))
           /\ Cardinality(Newlines(text, n)) \in Nat /\ Cardinality(OnLine(text, n)) \in Nat
           /\ Cardinality(Wide(text, n)) \in Nat
<1>1. IsFiniteSet(1..n)
  BY FS_Interval
<1>2. Newlines(text, n) \in SUBSET (1..n) /\ OnLine(text, n) \in SUBSET (1..n) /\ Wide(text, n) \in SUBSET (1..n)
  BY DEF Newlines, OnLine, Wide
<1>3. IsFiniteSet(Newlines(text, n)) /\ IsFiniteSet(OnLine(text, n)) /\ IsFiniteSet(Wide(text, n))
  BY <1>1, <1>2, FS_Subset
<1> QED
  BY <1>3, FS_CardinalityType

LEMMA LocationTyped ==
    ASSUME NEW n \in Nat
    PROVE  LocationIn(text, n) \in Location
BY FiniteLines DEF LocationIn, Location

\* The runes after n do not move what lies before them.
LEMMA LocationKept ==
    ASSUME NEW t \in Seq(Runes), NEW rune, NEW n \in 0..Len(t)
    PROVE  LocationIn(Append(t, rune), n) = LocationIn(t, n)
<1> DEFINE u == Append(t, rune)
<1>1. \A k \in 1..n : u[k] = t[k]
  BY AppendProperties, LenProperties
<1> HIDE DEF u
<1>2. Newlines(u, n) = Newlines(t, n)
  BY <1>1 DEF Newlines
<1>3. OnLine(u, n) = OnLine(t, n)
  BY <1>1 DEF OnLine
<1>4. Wide(u, n) = Wide(t, n)
  BY <1>1, <1>3 DEF Wide, OnLine
<1>5. LocationIn(u, n) = LocationIn(t, n)
  BY <1>2, <1>3, <1>4 DEF LocationIn
<1> QED
  BY <1>5 DEF u

LEMMA NextNewline ==
    ASSUME NEW n \in Nat, text[n + 1] = "newline"
    PROVE  LocationIn(text, n + 1) = [line |-> LocationIn(text, n).line + 1, column |-> 1]
<1>1. Newlines(text, n + 1) = Newlines(text, n) \cup {n + 1} /\ n + 1 \notin Newlines(text, n)
  BY DEF Newlines
<1>2. OnLine(text, n + 1) = {} /\ Wide(text, n + 1) = {}
  BY DEF OnLine, Wide
<1>3. Cardinality(Newlines(text, n + 1)) = Cardinality(Newlines(text, n)) + 1
  BY <1>1, FiniteLines, FS_AddElement
<1>4. Cardinality(OnLine(text, n + 1)) = 0 /\ Cardinality(Wide(text, n + 1)) = 0
  BY <1>2, FS_EmptySet
<1> QED
  BY <1>3, <1>4, FiniteLines DEF LocationIn

LEMMA NextOnLine ==
    ASSUME NEW n \in Nat, text[n + 1] # "newline"
    PROVE  LocationIn(text, n + 1) =
             [line |-> LocationIn(text, n).line,
              column |-> LocationIn(text, n).column + (IF text[n + 1] = "e'" THEN 2 ELSE 1)]
<1>1. Newlines(text, n + 1) = Newlines(text, n)
  BY DEF Newlines
<1>2. OnLine(text, n + 1) = OnLine(text, n) \cup {n + 1} /\ n + 1 \notin OnLine(text, n)
  BY DEF OnLine
<1>3. Cardinality(OnLine(text, n + 1)) = Cardinality(OnLine(text, n)) + 1
  BY <1>2, FiniteLines, FS_AddElement
<1>4. CASE text[n + 1] = "e'"
  <2>1. Wide(text, n + 1) = Wide(text, n) \cup {n + 1} /\ n + 1 \notin Wide(text, n)
    BY <1>2, <1>4 DEF Wide
  <2>2. Cardinality(Wide(text, n + 1)) = Cardinality(Wide(text, n)) + 1
    BY <2>1, FiniteLines, FS_AddElement
  <2> QED
    BY <1>1, <1>3, <1>4, <2>2, FiniteLines DEF LocationIn
<1>5. CASE text[n + 1] # "e'"
  <2>1. Wide(text, n + 1) = Wide(text, n)
    BY <1>2, <1>5 DEF Wide
  <2> QED
    BY <1>1, <1>3, <1>5, <2>1, FiniteLines DEF LocationIn
<1> QED
  BY <1>4, <1>5

LEMMA RuneTyped ==
    ASSUME TypeOK, NEW n \in Nat
    PROVE  /\ RuneAt(n) # "eof" => n < Len(text) /\ RuneAt(n) = text[n + 1] /\ RuneAt(n) \in Runes
           /\ RuneAt(n) = "eof" => n >= Len(text)
<1>1. Len(text) \in Nat /\ \A k \in 1..Len(text) : text[k] \in Runes
  BY LenProperties, ElementOfSeq DEF TypeOK
<1>2. "eof" \notin Runes
  BY DEF Runes, Digits, Letters, Blanks, Indents, Quotes, Symbols, Punctuation
<1>3. CASE n < Len(text)
  <2>1. RuneAt(n) = text[n + 1] /\ n + 1 \in 1..Len(text)
    BY <1>1, <1>3 DEF RuneAt
  <2> QED
    BY <1>1, <1>2, <1>3, <2>1
<1>4. CASE ~(n < Len(text))
  BY <1>1, <1>4 DEF RuneAt
<1> QED
  BY <1>3, <1>4

LEMMA AfterSound ==
    ASSUME TypeOK, NEW p, Sound(p)
    PROVE  /\ Sound(After(p))
           /\ After(p).n = IF RuneAt(p.n) = "eof" THEN p.n ELSE p.n + 1
<1> DEFINE n == p.n
<1>1. p \in Position /\ n \in Nat /\ n <= Len(text) /\ Len(text) \in Nat
  BY LenProperties DEF Sound, Position, TypeOK
<1>2. CASE RuneAt(n) = "eof"
  BY <1>1, <1>2 DEF After
<1>3. CASE RuneAt(n) # "eof"
  <2>1. n < Len(text) /\ RuneAt(n) = text[n + 1]
    BY <1>1, <1>3, RuneTyped
  <2>2. LocationIn(text, n) = [line |-> p.lineNo, column |-> p.byteNo - p.lineStart + 1]
    BY DEF Sound, location
  <2>3. /\ p.byteNo \in Nat /\ p.lineNo \in Nat /\ p.lineStart \in Nat
        /\ Width(text[n + 1]) \in Nat
    BY <1>1 DEF Position, Width
  <2>4. CASE text[n + 1] = "newline"
    <3>1. After(p) = [n |-> n + 1, byteNo |-> p.byteNo + 1, lineNo |-> p.lineNo + 1,
                      lineStart |-> p.byteNo + 1]
      BY <1>3, <2>1, <2>4 DEF After, Width
    <3>2. LocationIn(text, n + 1) = [line |-> p.lineNo + 1, column |-> 1]
      BY <1>1, <2>2, <2>4, NextNewline
    <3>3. After(p) \in Position /\ After(p).n = n + 1 /\ n + 1 \in 0..Len(text)
      BY <1>1, <2>1, <2>3, <3>1 DEF Position
    <3>4. location(After(p)) = [line |-> p.lineNo + 1, column |-> 1]
      BY <2>3, <3>1 DEF location
    <3> QED
      BY <1>3, <3>2, <3>3, <3>4 DEF Sound
  <2>5. CASE text[n + 1] # "newline"
    <3>1. After(p) = [n |-> n + 1, byteNo |-> p.byteNo + Width(text[n + 1]), lineNo |-> p.lineNo,
                      lineStart |-> p.lineStart]
      BY <1>3, <2>1, <2>3, <2>5 DEF After
    <3>2. LocationIn(text, n + 1) = [line |-> p.lineNo,
                               column |-> p.byteNo - p.lineStart + 1 + Width(text[n + 1])]
      BY <1>1, <2>2, <2>5, NextOnLine DEF Width
    <3> QED
      BY <1>1, <1>3, <2>1, <2>3, <3>1, <3>2 DEF Sound, location, Position
  <2> QED
    BY <2>4, <2>5
<1> QED
  BY <1>2, <1>3

\* A run of blanks or bars is skipped without looking at each of them.
LEMMA ForwardSound ==
    ASSUME TypeOK, NEW p, Sound(p), NEW m \in Nat, p.n + m <= Len(text),
           \A j \in p.n + 1 .. p.n + m : text[j] # "newline" /\ text[j] # "e'"
    PROVE  Sound(Forward(p, m)) /\ Forward(p, m).n = p.n + m
<1> DEFINE n == p.n
           skipped == n + 1 .. n + m
<1>1. p \in Position /\ n \in Nat /\ Len(text) \in Nat
  BY LenProperties DEF Sound, Position, TypeOK
<1>2. Newlines(text, n + m) = Newlines(text, n)
  BY <1>1 DEF Newlines
<1>3. OnLine(text, n + m) = OnLine(text, n) \cup skipped
  BY <1>1 DEF OnLine
<1>4. Wide(text, n + m) = Wide(text, n)
  BY <1>1, <1>3 DEF Wide
<1>5. IsFiniteSet(skipped) /\ Cardinality(skipped) = m
  <2>1. n + 1 \in Int /\ n + m \in Int
    BY <1>1
  <2>2. IsFiniteSet(n + 1 .. n + m)
        /\ Cardinality(n + 1 .. n + m) = IF n + 1 > n + m THEN 0 ELSE (n + m) - (n + 1) + 1
    BY <2>1, FS_Interval
  <2>3. (IF n + 1 > n + m THEN 0 ELSE (n + m) - (n + 1) + 1) = m
    BY <1>1
  <2> QED
    BY <2>2, <2>3
<1>6. OnLine(text, n) \cap skipped = {} /\ Cardinality({}) = 0
  BY <1>1, FS_EmptySet DEF OnLine
<1>7. Cardinality(OnLine(text, n) \cup skipped) = Cardinality(OnLine(text, n)) + m
  <2>1. Cardinality(OnLine(text, n) \cup skipped)
          = Cardinality(OnLine(text, n)) + Cardinality(skipped) - Cardinality(OnLine(text, n) \cap skipped)
    BY <1>1, <1>5, FiniteLines, FS_Union
  <2>2. Cardinality(skipped) = m /\ Cardinality(OnLine(text, n) \cap skipped) = 0
    BY <1>5, <1>6
  <2>3. Cardinality(OnLine(text, n)) \in Nat
    BY <1>1, FiniteLines
  <2>4. Cardinality(OnLine(text, n) \cup skipped) = Cardinality(OnLine(text, n)) + m - 0
    BY <2>1, <2>2
  <2> QED
    BY <2>3, <2>4
<1>8. LocationIn(text, n + m) = [line |-> LocationIn(text, n).line, column |-> LocationIn(text, n).column + m]
  <2>1. /\ LocationIn(text, n).line = Cardinality(Newlines(text, n)) + 1
        /\ LocationIn(text, n).column = Cardinality(OnLine(text, n)) + Cardinality(Wide(text, n)) + 1
        /\ LocationIn(text, n + m).line = Cardinality(Newlines(text, n + m)) + 1
        /\ LocationIn(text, n + m) = [line |-> Cardinality(Newlines(text, n)) + 1,
                                column |-> Cardinality(OnLine(text, n)) + m + Cardinality(Wide(text, n)) + 1]
    BY <1>2, <1>3, <1>4, <1>7 DEF LocationIn
  <2> QED
    BY <1>1, <2>1, FiniteLines
<1>9. Forward(p, m) = [n |-> n + m, byteNo |-> p.byteNo + m, lineNo |-> p.lineNo,
                       lineStart |-> p.lineStart]
  BY DEF Forward, Moved
<1>10. LocationIn(text, n) = [line |-> p.lineNo, column |-> p.byteNo - p.lineStart + 1]
  BY DEF Sound, location
<1> QED
  BY <1>1, <1>8, <1>9, <1>10 DEF Sound, location, Position

LEMMA NextSound ==
    ASSUME TypeOK, NEW c, Sound(c.pos)
    PROVE  /\ Sound(next(c).pos) /\ backup(next(c)).pos = c.pos
           /\ next(c).pos = After(c.pos)
           /\ next(c).pos.n = IF RuneAt(c.pos.n) = "eof" THEN c.pos.n ELSE c.pos.n + 1
           /\ next(c).pos.n >= c.pos.n
<1>1. next(c).pos = After(c.pos) /\ backup(next(c)).pos = c.pos
  BY DEF next, backup
<1>2. Sound(After(c.pos)) /\ After(c.pos).n = IF RuneAt(c.pos.n) = "eof" THEN c.pos.n ELSE c.pos.n + 1
  BY AfterSound
<1>3. c.pos.n \in Nat
  BY DEF Sound, Position
<1> QED
  BY <1>1, <1>2, <1>3

----------------------------------------------------------------------------
(* What each of the forms of a step does to the invariant.                 *)

\* The cursor moves on and no token begins.
LEMMA GoStep ==
    ASSUME IInv, NEW c, NEW place, GoTo(c, place), data' \in Seq(Runes),
           Sound(c.pos), start.n <= c.pos.n, place # "lex",
           place \in {"operator", "string"} => start.n < c.pos.n,
           place = "operator" =>
             /\ start.lineNo = c.pos.lineNo /\ start.lineStart = c.pos.lineStart
             /\ text[start.n + 1] \in Symbols
    PROVE  IInv'
<1>1. /\ cursor' = c /\ at' = place /\ dialect' = dialect /\ text' = text /\ start' = start
      /\ tokens' = tokens /\ fodder' = fodder /\ indent' = indent
  BY DEF GoTo, text_vars
<1>2. TypeOK'
  BY <1>1 DEF IInv, TypeOK
<1>3. Sound(cursor.pos)' /\ Sound(start)'
  BY <1>1 DEF IInv, Begun, Sound
<1>4. Begun'
  BY <1>1, <1>3 DEF Begun
<1>5. Placed'
  BY <1>1 DEF IInv, Placed, Ordered
<1> QED
  BY <1>2, <1>4, <1>5 DEF IInv

\* What begins, begins at c.
LEMMA StartStep ==
    ASSUME IInv, NEW c, Sound(c.pos), start.n <= c.pos.n,
           cursor' = c, start' = c.pos, at' \notin {"operator", "string"},
           UNCHANGED <<dialect, text, tokens, indent>>,
           fodder' \in Seq(Element), data' \in Seq(Runes)
    PROVE  IInv'
<1>1. TypeOK'
  BY DEF IInv, TypeOK
<1>2. Sound(cursor.pos)' /\ Sound(start)'
  BY DEF Sound
<1>3. start'.n <= cursor'.pos.n
  BY DEF Sound, Position
<1>4. Begun'
  BY <1>2, <1>3 DEF Begun
<1>5. Placed'
  <2> SUFFICES ASSUME NEW i \in 1..Len(tokens)
               PROVE  /\ Ordered(text', tokens[i])
                      /\ tokens[i].to <= IF i = Len(tokens) THEN start'.n ELSE tokens[i + 1].from
    BY DEF Placed
  <2>1. Ordered(text, tokens[i]) /\ tokens[i].to <= IF i = Len(tokens) THEN start.n ELSE tokens[i + 1].from
    BY DEF IInv, Placed
  <2>2. Ordered(text', tokens[i])
    BY <2>1 DEF Ordered
  <2>3. tokens[i].to \in Nat
    BY <2>1 DEF Ordered
  <2>4. start.n \in Nat /\ start'.n \in Nat
    BY <1>2 DEF IInv, Begun, Sound, Position
  <2> QED
    BY <2>1, <2>2, <2>3, <2>4
<1> QED
  BY <1>1, <1>4, <1>5 DEF IInv

LEMMA BeginStep ==
    ASSUME IInv, NEW c, NEW place, Begin(c, place), Sound(c.pos), start.n <= c.pos.n,
           place \notin {"operator", "string"}
    PROVE  IInv'
<1>1. /\ cursor' = c /\ start' = c.pos /\ at' = place
      /\ UNCHANGED <<dialect, text, tokens, fodder, data, indent>>
  BY DEF Begin, resetTokenStart, text_vars
<1>2. fodder' \in Seq(Element) /\ data' \in Seq(Runes)
  BY <1>1 DEF IInv, TypeOK
<1> QED
  BY <1>1, <1>2, StartStep

LEMMA AddFodderStep ==
    ASSUME IInv, NEW c, NEW all, addFodder(c, all), Sound(c.pos), start.n <= c.pos.n,
           all \in Seq(Element)
    PROVE  IInv'
<1>1. /\ cursor' = c /\ start' = c.pos /\ at' = "lex" /\ fodder' = all
      /\ UNCHANGED <<dialect, text, tokens, data, indent>>
  BY DEF addFodder, resetTokenStart, text_vars
<1>2. fodder' \in Seq(Element) /\ data' \in Seq(Runes)
  BY <1>1 DEF IInv, TypeOK
<1> QED
  BY <1>1, <1>2, StartStep

LEMMA QuoteStep ==
    ASSUME IInv, NEW c, NEW quote, NEW place, Quote(c, quote, place),
           Sound(c.pos), start.n < c.pos.n, place \notin {"lex", "operator"}
    PROVE  IInv'
<1>1. /\ cursor' = c /\ at' = place /\ dialect' = dialect /\ text' = text /\ start' = start
      /\ tokens' = tokens /\ fodder' = fodder /\ indent' = indent /\ data' = <<>>
  BY DEF Quote, text_vars
<1>2. TypeOK'
  BY <1>1 DEF IInv, TypeOK
<1>3. Sound(cursor.pos)' /\ Sound(start)'
  BY <1>1 DEF IInv, Begun, Sound
<1>4. start.n \in Nat /\ c.pos.n \in Nat
  BY DEF IInv, Begun, Sound, Position
<1>5. Begun'
  BY <1>1, <1>3, <1>4 DEF Begun
<1>6. Placed'
  BY <1>1 DEF IInv, Placed, Ordered
<1> QED
  BY <1>2, <1>5, <1>6 DEF IInv

\* A token is emitted that begins where the last one ended, or later.
LEMMA EmitStep ==
    ASSUME IInv, NEW c, NEW kind \in Kinds, NEW what \in Seq(Runes), NEW place,
           emit(c, kind, what, place), Sound(c.pos), start.n <= c.pos.n,
           place \in {"lex", "done"}
    PROVE  IInv'
<1> DEFINE t == [kind |-> kind, fodder |-> fodder, data |-> what, from |-> start.n, to |-> c.pos.n,
                 begin |-> location(start), end |-> location(c.pos)]
<1>1. /\ cursor' = c /\ at' = place /\ start' = c.pos /\ tokens' = Append(tokens, t)
      /\ fodder' = <<>> /\ UNCHANGED <<dialect, text, data, indent>>
  BY DEF emit, resetTokenStart, text_vars
<1>2. /\ start.n \in 0..Len(text) /\ c.pos.n \in 0..Len(text) /\ Len(text) \in Nat
      /\ location(start) = LocationIn(text, start.n)
      /\ location(c.pos) = LocationIn(text, c.pos.n)
  BY LenProperties DEF IInv, TypeOK, Begun, Sound
<1>3. location(start) \in Location /\ location(c.pos) \in Location
  BY <1>2, LocationTyped
<1>4. t \in Lexed
  BY <1>2, <1>3 DEF Lexed, IInv, TypeOK
<1>5. Ordered(text, t)
  BY <1>2 DEF Ordered
<1> HIDE DEF t
<1>6. /\ tokens \in Seq(Lexed) /\ Append(tokens, t) \in Seq(Lexed) /\ Len(tokens) \in Nat
      /\ Len(Append(tokens, t)) = Len(tokens) + 1
      /\ \A i \in 1..Len(tokens) : Append(tokens, t)[i] = tokens[i]
      /\ Append(tokens, t)[Len(tokens) + 1] = t
  BY <1>4, AppendProperties, LenProperties DEF IInv, TypeOK
<1>7. TypeOK'
  BY <1>1, <1>6 DEF IInv, TypeOK
<1>8. Begun'
  <2>1. Sound(cursor.pos)' /\ Sound(start)'
    BY <1>1 DEF Sound
  <2> QED
    BY <1>1, <1>2, <2>1 DEF Begun
<1>9. Placed'
  <2> SUFFICES ASSUME NEW i \in 1..Len(tokens')
               PROVE  /\ Ordered(text', tokens'[i])
                      /\ tokens'[i].to <= IF i = Len(tokens') THEN start'.n ELSE tokens'[i + 1].from
    BY DEF Placed
  <2>1. t.from = start.n /\ t.to = c.pos.n
    BY DEF t
  <2>2. CASE i = Len(tokens) + 1
    <3>1. tokens'[i] = t
      BY <1>1, <1>6, <2>2
    <3> QED
      BY <1>1, <1>2, <1>5, <1>6, <2>1, <2>2, <3>1 DEF Ordered
  <2>3. CASE i # Len(tokens) + 1
    <3>1. i \in 1..Len(tokens)
      BY <1>1, <1>6, <2>3
    <3>2. Ordered(text, tokens[i]) /\ tokens[i].to <= IF i = Len(tokens) THEN start.n ELSE tokens[i + 1].from
      BY <3>1 DEF IInv, Placed
    <3>3. tokens'[i] = tokens[i]
      BY <1>1, <1>6, <3>1
    <3>4. Ordered(text', tokens'[i])
      BY <1>1, <3>2, <3>3 DEF Ordered
    <3>5. CASE i = Len(tokens)
      <4>1. tokens'[i + 1] = t
        BY <1>1, <1>6, <3>5
      <4> QED
        BY <1>1, <1>6, <2>1, <3>2, <3>3, <3>4, <3>5, <4>1
    <3>6. CASE i # Len(tokens)
      <4>1. i + 1 \in 1..Len(tokens)
        BY <1>6, <3>1, <3>6
      <4>2. tokens'[i + 1] = tokens[i + 1]
        BY <1>1, <1>6, <4>1
      <4> QED
        BY <1>1, <1>6, <3>1, <3>2, <3>3, <3>4, <3>6, <4>2
    <3> QED
      BY <3>5, <3>6
  <2> QED
    BY <2>2, <2>3
<1> QED
  BY <1>7, <1>8, <1>9 DEF IInv

----------------------------------------------------------------------------
(* What the steps have in common.                                          *)

LEMMA LexemeTyped ==
    ASSUME TypeOK, NEW i \in Nat \ {0}, NEW j \in Int, j <= Len(text)
    PROVE  SubSeq(text, i, j) \in Seq(Runes)
<1>1. Len(text) \in Nat /\ \A k \in 1..Len(text) : text[k] \in Runes
  BY LenProperties, ElementOfSeq DEF TypeOK
<1>2. \A k \in i..j : text[k] \in Runes
  BY <1>1
<1> QED
  BY <1>2, SubSeqProperties

LEMMA SoundInText ==
    ASSUME TypeOK, NEW p, Sound(p)
    PROVE  p.n \in Nat /\ p.n <= Len(text) /\ Len(text) \in Nat
BY LenProperties DEF Sound, Position, TypeOK

\* Where next, and next and backup, leave the cursor.
LEMMA Cursor ==
    ASSUME IInv
    PROVE  /\ TypeOK
           /\ Sound(Read.pos) /\ Sound(Seen.pos) /\ Seen.pos = cursor.pos
           /\ Read.pos = After(cursor.pos)
           /\ start.n \in Nat /\ cursor.pos.n \in Nat /\ Read.pos.n \in Nat /\ Len(text) \in Nat
           /\ start.n <= cursor.pos.n /\ cursor.pos.n <= Read.pos.n /\ Read.pos.n <= Len(text)
           /\ Read.pos.n = IF r = "eof" THEN cursor.pos.n ELSE cursor.pos.n + 1
           /\ r # "eof" => r \in Runes /\ r = text[cursor.pos.n + 1]
           /\ data \in Seq(Runes) /\ fodder \in Seq(Element)
           /\ Lexeme(Read) \in Seq(Runes) /\ Lexeme(Seen) \in Seq(Runes)
<1>1. TypeOK /\ Sound(cursor.pos) /\ start.n <= cursor.pos.n /\ Sound(start)
  BY DEF IInv, Begun
<1>2. /\ Sound(Read.pos) /\ Seen.pos = cursor.pos /\ Read.pos = After(cursor.pos)
      /\ Read.pos.n = IF r = "eof" THEN cursor.pos.n ELSE cursor.pos.n + 1
  BY <1>1, NextSound DEF Read, Seen, r
<1>3. start.n \in Nat /\ cursor.pos.n \in Nat /\ Read.pos.n \in Nat /\ Len(text) \in Nat
      /\ Read.pos.n <= Len(text) /\ cursor.pos.n <= Len(text)
  BY <1>1, <1>2, SoundInText
<1>4. r # "eof" => r \in Runes /\ r = text[cursor.pos.n + 1]
  BY <1>1, <1>3, RuneTyped DEF r
<1>5. Lexeme(Read) \in Seq(Runes) /\ Lexeme(Seen) \in Seq(Runes)
  <2>1. start.n + 1 \in Nat \ {0} /\ Read.pos.n \in Int /\ cursor.pos.n \in Int
    BY <1>3
  <2>2. SubSeq(text, start.n + 1, Read.pos.n) \in Seq(Runes)
    BY <1>1, <1>3, <2>1, LexemeTyped
  <2>3. SubSeq(text, start.n + 1, cursor.pos.n) \in Seq(Runes)
    BY <1>1, <1>3, <2>1, LexemeTyped
  <2> QED
    BY <1>2, <2>2, <2>3 DEF Lexeme
<1> QED
  BY <1>1, <1>2, <1>3, <1>4, <1>5 DEF TypeOK

LEMMA Onward ==
    ASSUME IInv, NEW c, Sound(c.pos), cursor.pos.n <= c.pos.n
    PROVE  start.n <= c.pos.n
<1>1. TypeOK /\ start.n \in Nat /\ cursor.pos.n \in Nat /\ start.n <= cursor.pos.n
  BY Cursor
<1>2. c.pos.n \in Nat
  BY <1>1, SoundInText
<1> QED
  BY <1>1, <1>2

\* A step that only moves the cursor, to a place that begins nothing.
LEMMA GoFrom ==
    ASSUME IInv, NEW c, NEW place, Go(c, place), Sound(c.pos), cursor.pos.n <= c.pos.n,
           place \notin {"lex", "operator", "string"}
    PROVE  IInv'
<1>1. GoTo(c, place) /\ data' = data
  BY DEF Go
<1>2. start.n <= c.pos.n
  BY Onward
<1> QED
  BY <1>1, <1>2, Cursor, GoStep

LEMMA FailStep ==
    ASSUME IInv, Fail
    PROVE  IInv'
<1>1. Sound(Read.pos) /\ cursor.pos.n <= Read.pos.n
  BY Cursor
<1>2. Go(Read, "error")
  BY DEF Fail
<1> QED
  BY <1>1, <1>2, GoFrom

LEMMA TokenStep ==
    ASSUME IInv, NEW c, NEW kind \in Kinds, emitToken(c, kind), Sound(c.pos), start.n <= c.pos.n
    PROVE  IInv'
<1>1. emit(c, kind, Lexeme(c), "lex")
  BY DEF emitToken, emitFullToken
<1>2. c.pos.n \in Int /\ c.pos.n <= Len(text) /\ start.n + 1 \in Nat \ {0}
  BY Cursor, SoundInText
<1>3. Lexeme(c) \in Seq(Runes)
  BY <1>2, LexemeTyped DEF Lexeme, IInv
<1> QED
  BY <1>1, <1>3, EmitStep

LEMMA FodderTyped ==
    ASSUME IInv, NEW kind \in Comments \cup {"space"}, NEW p, Sound(p)
    PROVE  Append(fodder, Fodder(kind, p)) \in Seq(Element)
<1>1. Fodder(kind, p) \in Element
  BY Cursor, SoundInText DEF Fodder, Element
<1> QED
  BY <1>1, Cursor, AppendProperties

----------------------------------------------------------------------------
(* The loop of Lex.                                                        *)

LEMMA LoopStep ==
    ASSUME IInv,
           LexEnd \/ LexPunctuation \/ LexWord \/ LexString \/ LexVerbatim \/ LexHash \/ LexOther
    PROVE  IInv'
<1>1. CASE LexEnd
  <2>1. emit(Read, "eof", Lexeme(Read), "done")
    BY <1>1 DEF LexEnd
  <2>2. "eof" \in Kinds
    BY DEF Kinds
  <2>3. Sound(Read.pos) /\ start.n <= Read.pos.n /\ Lexeme(Read) \in Seq(Runes)
    BY Cursor
  <2> QED
    BY <2>1, <2>2, <2>3, EmitStep
<1>2. CASE LexPunctuation
  <2>1. r \in Kinds /\ emitToken(Read, r)
    BY <1>2 DEF LexPunctuation, Kinds
  <2>2. Sound(Read.pos) /\ start.n <= Read.pos.n
    BY Cursor
  <2> QED
    BY <2>1, <2>2, TokenStep
<1>3. CASE LexWord
  <2>1. CASE Go(Seen, "begin")
    <3>1. Sound(Seen.pos) /\ cursor.pos.n <= Seen.pos.n
      BY Cursor
    <3> QED
      BY <2>1, <3>1, GoFrom
  <2>2. CASE Go(next(Seen), "identifier")
    <3>1. Sound(next(Seen).pos) /\ next(Seen).pos.n >= Seen.pos.n
      BY Cursor, NextSound DEF IInv
    <3>2. cursor.pos.n <= next(Seen).pos.n
      BY <3>1, Cursor, SoundInText
    <3> QED
      BY <2>2, <3>1, <3>2, GoFrom
  <2> QED
    BY <1>3, <2>1, <2>2 DEF LexWord
<1>4. CASE LexString
  <2>1. Quote(Read, r, "string") /\ start = cursor.pos /\ r # "eof"
    BY <1>4 DEF LexString, On, IInv, Begun, Quotes
  <2>2. Sound(Read.pos) /\ start.n < Read.pos.n
    BY <2>1, Cursor
  <2> QED
    BY <2>1, <2>2, QuoteStep
<1>5. CASE LexVerbatim
  <2> DEFINE quote == RuneAt(cursor.pos.n + 1)
  <2>1. CASE Fail
    BY <2>1, FailStep
  <2>2. CASE quote \in Quotes /\ Quote(next(Read), quote, "verbatim")
    <3>1. start = cursor.pos /\ r # "eof"
      BY <1>5 DEF LexVerbatim, On, IInv, Begun
    <3>2. Sound(next(Read).pos) /\ next(Read).pos.n >= Read.pos.n
      BY Cursor, NextSound DEF IInv
    <3>3. start.n < next(Read).pos.n
      BY <3>1, <3>2, Cursor, SoundInText
    <3> HIDE DEF quote
    <3> QED
      BY <2>2, <3>2, <3>3, QuoteStep
  <2> QED
    BY <1>5, <2>1, <2>2 DEF LexVerbatim
<1>6. CASE LexHash
  <2>1. Begin(Read, "# comment")
    BY <1>6 DEF LexHash
  <2>2. Sound(Read.pos) /\ start.n <= Read.pos.n
    BY Cursor
  <2> QED
    BY <2>1, <2>2, BeginStep
<1>7. CASE LexOther
  BY <1>7, FailStep DEF LexOther
<1> QED
  BY <1>1, <1>2, <1>3, <1>4, <1>5, <1>6, <1>7

LEMMA WhitespaceStep ==
    ASSUME IInv, LexWhitespace
    PROVE  IInv'
<1> DEFINE longer == [fodder EXCEPT ![Len(fodder)].to = Read.pos.n]
<1>1. Sound(Read.pos) /\ start.n <= Read.pos.n /\ Read.pos.n \in Nat /\ fodder \in Seq(Element)
  BY Cursor
<1>2. CASE fodder = <<>> \/ Last(fodder).kind # "space"
  <2>1. addFodder(Read, Append(fodder, Fodder("space", Read.pos)))
    BY <1>2 DEF LexWhitespace, addWhitespaceFodder
  <2>2. Append(fodder, Fodder("space", Read.pos)) \in Seq(Element)
    BY <1>1, FodderTyped
  <2> QED
    BY <1>1, <2>1, <2>2, AddFodderStep
<1>3. CASE ~(fodder = <<>> \/ Last(fodder).kind # "space")
  <2>1. addFodder(Read, longer)
    BY <1>3 DEF LexWhitespace, addWhitespaceFodder
  <2>2. Len(fodder) \in 1..Len(fodder) /\ Len(fodder) \in Nat /\ DOMAIN fodder = 1..Len(fodder)
    BY <1>1, <1>3, EmptySeq, LenProperties
  <2>3. fodder[Len(fodder)] \in Element
    BY <1>1, <2>2, ElementOfSeq
  <2>4. longer = [fodder EXCEPT ![Len(fodder)] = [fodder[Len(fodder)] EXCEPT !.to = Read.pos.n]]
    OBVIOUS
  <2>5. [fodder[Len(fodder)] EXCEPT !.to = Read.pos.n] \in Element
    BY <1>1, <2>3 DEF Element
  <2>6. longer \in Seq(Element)
    BY <1>1, <2>2, <2>4, <2>5, ExceptSeq
  <2> HIDE DEF longer
  <2> QED
    BY <1>1, <2>1, <2>6, AddFodderStep
<1> QED
  BY <1>2, <1>3

----------------------------------------------------------------------------
(* Numbers, words and strings.                                             *)

LEMMA LexNumberStep ==
    ASSUME IInv, LexNumber
    PROVE  IInv'
<1> DEFINE to == NumberStep(at)
<1>1. to \notin {"lex", "operator", "string"}
  BY DEF LexNumber, NumberStates, NumberStep
<1>2. Sound(Read.pos) /\ cursor.pos.n <= Read.pos.n /\ Sound(Seen.pos) /\ start.n <= Seen.pos.n
  BY Cursor
<1>3. Fail \/ emitToken(Seen, "number") \/ Go(Read, to)
  <2> HIDE DEF to
  <2>1. (CASE to = "junk" -> Fail [] to = "end" -> emitToken(Seen, "number") [] OTHER -> Go(Read, to))
    BY DEF LexNumber, to
  <2> QED
    BY <2>1
<1> HIDE DEF to
<1>4. "number" \in Kinds
  BY DEF Kinds
<1>5. CASE Fail
  BY <1>5, FailStep
<1>6. CASE emitToken(Seen, "number")
  BY <1>2, <1>4, <1>6, TokenStep
<1>7. CASE Go(Read, to)
  BY <1>1, <1>2, <1>7, GoFrom
<1> QED
  BY <1>3, <1>5, <1>6, <1>7

LEMMA IdentifierStep ==
    ASSUME IInv, LexIdentifier
    PROVE  IInv'
<1> DEFINE kind == IF Lexeme(Seen) \in Keywords THEN "keyword" ELSE "identifier"
<1>1. Sound(Read.pos) /\ cursor.pos.n <= Read.pos.n /\ Sound(Seen.pos) /\ start.n <= Seen.pos.n
  BY Cursor
<1>2. kind \in Kinds
  BY DEF Kinds
<1>3. Go(Read, "identifier") \/ emitToken(Seen, kind)
  BY DEF LexIdentifier
<1> HIDE DEF kind
<1>4. CASE Go(Read, "identifier")
  BY <1>1, <1>4, GoFrom
<1>5. CASE emitToken(Seen, kind)
  BY <1>1, <1>2, <1>5, TokenStep
<1> QED
  BY <1>3, <1>4, <1>5

LEMMA StringStep ==
    ASSUME IInv, LexStringRune
    PROVE  IInv'
<1>1. at = "string" /\ start.n < cursor.pos.n
  BY DEF LexStringRune, On, IInv, Begun
<1>2. TypeOK /\ Sound(Read.pos) /\ start.n <= Read.pos.n /\ start.n < Read.pos.n
  BY <1>1, Cursor
<1>3. ASSUME NEW c, Go(c, "string"), Sound(c.pos), start.n < c.pos.n
      PROVE  IInv'
  <2>1. GoTo(c, "string") /\ data' = data /\ start.n <= c.pos.n
    BY <1>3, Cursor, SoundInText DEF Go
  <2> QED
    BY <1>3, <2>1, Cursor, GoStep
<1>4. CASE Fail
  BY <1>4, FailStep
<1>5. CASE emitString(Read)
  <2> DEFINE what == SubSeq(text, start.n + 2, Read.pos.n - 1)
  <2>1. emit(Read, "string", what, "lex")
    BY <1>5 DEF emitString, emitFullToken
  <2>2. start.n + 2 \in Nat \ {0} /\ Read.pos.n - 1 \in Int /\ Read.pos.n - 1 <= Len(text)
    BY Cursor
  <2>3. what \in Seq(Runes)
    BY <1>2, <2>2, LexemeTyped
  <2>4. "string" \in Kinds
    BY DEF Kinds
  <2> HIDE DEF what
  <2> QED
    BY <1>2, <2>1, <2>3, <2>4, EmitStep
<1>6. CASE Go(Read, "string")
  BY <1>2, <1>3, <1>6
<1> DEFINE peeked == backup(next(Read))
<1>7. peeked.pos = Read.pos
  BY <1>2, NextSound
<1>8. CASE Go(peeked, "string")
  <2> HIDE DEF peeked
  <2>1. Sound(peeked.pos) /\ start.n < peeked.pos.n
    BY <1>2, <1>7
  <2> QED
    BY <1>3, <1>8, <2>1
<1>9. CASE Go(next(peeked), "string")
  <2> HIDE DEF peeked
  <2>1. Sound(peeked.pos)
    BY <1>2, <1>7
  <2>2. Sound(next(peeked).pos) /\ next(peeked).pos.n >= peeked.pos.n
    BY <1>2, <2>1, NextSound
  <2>3. start.n < next(peeked).pos.n
    BY <1>2, <1>7, <2>1, <2>2, Cursor, SoundInText
  <2> QED
    BY <1>3, <1>9, <2>2, <2>3
<1>10. Fail \/ emitString(Read) \/ Go(Read, "string") \/ Go(peeked, "string") \/ Go(next(peeked), "string")
  BY DEF LexStringRune
<1> QED
  BY <1>4, <1>5, <1>6, <1>8, <1>9, <1>10

LEMMA VerbatimStep ==
    ASSUME IInv, LexVerbatimRune
    PROVE  IInv'
<1> DEFINE c == backup(next(Read))
<1>1. TypeOK /\ Sound(Read.pos) /\ cursor.pos.n <= Read.pos.n /\ start.n <= Read.pos.n /\ c.pos = Read.pos
  BY Cursor, NextSound
<1>2. \/ Fail
      \/ emitFullToken(c, "verbatim", data)
      \/ /\ GoTo(next(c), "verbatim") \/ GoTo(Read, "verbatim")
         /\ r # "eof" /\ data' = Append(data, r)
  BY DEF LexVerbatimRune
<1> HIDE DEF c
<1>3. CASE Fail
  BY <1>3, FailStep
<1>4. CASE emitFullToken(c, "verbatim", data)
  <2>1. emit(c, "verbatim", data, "lex") /\ Sound(c.pos) /\ start.n <= c.pos.n /\ data \in Seq(Runes)
    BY <1>1, <1>4, Cursor DEF emitFullToken
  <2>2. "verbatim" \in Kinds
    BY DEF Kinds
  <2> QED
    BY <2>1, <2>2, EmitStep
<1>5. ASSUME r # "eof", data' = Append(data, r)
      PROVE  data' \in Seq(Runes)
  BY <1>5, Cursor, AppendProperties
<1>6. CASE GoTo(Read, "verbatim") /\ r # "eof" /\ data' = Append(data, r)
  BY <1>1, <1>5, <1>6, GoStep
<1>7. CASE GoTo(next(c), "verbatim") /\ r # "eof" /\ data' = Append(data, r)
  <2>1. Sound(c.pos)
    BY <1>1
  <2>2. Sound(next(c).pos) /\ next(c).pos.n >= c.pos.n
    BY <1>1, <2>1, NextSound
  <2>3. start.n <= next(c).pos.n
    BY <1>1, <2>1, <2>2, Cursor, SoundInText
  <2> QED
    BY <1>5, <1>7, <2>2, <2>3, GoStep
<1> QED
  BY <1>2, <1>3, <1>4, <1>6, <1>7

----------------------------------------------------------------------------
(* Comments and operators.                                                 *)

LEMMA LineCommentStep ==
    ASSUME IInv, LexLineComment
    PROVE  IInv'
<1>1. at \in Comments /\ at \notin {"lex", "operator", "string"}
  BY DEF LexLineComment, On, Comments
<1>2. Sound(Read.pos) /\ cursor.pos.n <= Read.pos.n /\ Sound(Seen.pos) /\ start.n <= Seen.pos.n
  BY Cursor
<1>3. addCommentFodder(Seen, at) \/ Go(Read, at)
  BY DEF LexLineComment
<1>4. CASE addCommentFodder(Seen, at)
  <2>1. addFodder(Seen, Append(fodder, Fodder(at, Seen.pos)))
    BY <1>4 DEF addCommentFodder
  <2>2. Append(fodder, Fodder(at, Seen.pos)) \in Seq(Element)
    BY <1>1, <1>2, FodderTyped
  <2> QED
    BY <1>2, <2>1, <2>2, AddFodderStep
<1>5. CASE Go(Read, at)
  BY <1>1, <1>2, <1>5, GoFrom
<1> QED
  BY <1>3, <1>4, <1>5

LEMMA BlockCommentStep ==
    ASSUME IInv, LexBlockComment
    PROVE  IInv'
<1> DEFINE peeked == backup(next(Read))
           all == Append(fodder, Fodder(at, cursor.pos))
<1>1. at \in Comments /\ at \notin {"lex", "operator", "string"}
  BY DEF LexBlockComment, On, Comments
<1>2. /\ TypeOK /\ Sound(Read.pos) /\ cursor.pos.n <= Read.pos.n /\ start.n <= Read.pos.n
      /\ peeked.pos = Read.pos /\ Sound(cursor.pos)
  BY Cursor, NextSound
<1>3. Fail \/ addFodder(next(peeked), all) \/ Go(Read, at) \/ Go(peeked, at)
  BY DEF LexBlockComment
<1>4. all \in Seq(Element)
  BY <1>1, <1>2, FodderTyped
<1> HIDE DEF peeked, all
<1>5. CASE Fail
  BY <1>5, FailStep
<1>6. CASE addFodder(next(peeked), all)
  <2>1. Sound(peeked.pos)
    BY <1>2
  <2>2. Sound(next(peeked).pos) /\ next(peeked).pos.n >= peeked.pos.n
    BY <1>2, <2>1, NextSound
  <2>3. start.n <= next(peeked).pos.n
    BY <1>2, <2>1, <2>2, Cursor, SoundInText
  <2> QED
    BY <1>4, <1>6, <2>2, <2>3, AddFodderStep
<1>7. CASE Go(Read, at)
  BY <1>1, <1>2, <1>7, GoFrom
<1>8. CASE Go(peeked, at)
  <2>1. Sound(peeked.pos) /\ cursor.pos.n <= peeked.pos.n
    BY <1>2
  <2> QED
    BY <1>1, <1>8, <2>1, GoFrom
<1> QED
  BY <1>3, <1>5, <1>6, <1>7, <1>8

\* A symbol is no newline, and of one byte.
LEMMA SymbolOnLine ==
    ASSUME IInv, r \in Symbols
    PROVE  /\ r # "eof" /\ Read.pos.n = cursor.pos.n + 1 /\ text[cursor.pos.n + 1] \in Symbols
           /\ Read.pos.lineNo = cursor.pos.lineNo /\ Read.pos.lineStart = cursor.pos.lineStart
<1>1. r # "eof" /\ r # "newline"
  BY DEF Symbols
<1>2. Read.pos.n = cursor.pos.n + 1 /\ r = text[cursor.pos.n + 1] /\ Read.pos = After(cursor.pos)
      /\ cursor.pos \in Position
  BY <1>1, Cursor DEF IInv, Begun, Sound
<1>3. cursor.pos.lineNo \in Nat /\ RuneAt(cursor.pos.n) # "eof" /\ RuneAt(cursor.pos.n) # "newline"
  BY <1>1, <1>2 DEF Position, r
<1>4. After(cursor.pos).lineNo = cursor.pos.lineNo /\ After(cursor.pos).lineStart = cursor.pos.lineStart
  BY <1>3 DEF After
<1> QED
  BY <1>1, <1>2, <1>4

\* acceptN stays in step over blanks and bars that are there.
LEMMA PrefixSound ==
    ASSUME TypeOK, NEW p, Sound(p), NEW s \in Seq(Indents \cup {"|"}), Prefix(p.n, s)
    PROVE  Sound(Forward(p, Len(s))) /\ Forward(p, Len(s)).n >= p.n
<1>1. Len(s) \in Nat /\ \A i \in 1..Len(s) : s[i] \in Indents \cup {"|"}
  BY LenProperties, ElementOfSeq
<1>2. p.n \in Nat /\ p.n <= Len(text) /\ Len(text) \in Nat
  BY SoundInText
<1>3. ASSUME NEW i \in 1..Len(s)
      PROVE  /\ p.n + i <= Len(text)
             /\ text[p.n + i] # "newline" /\ text[p.n + i] # "e'"
  <2>1. s[i] \in Indents \cup {"|"} /\ RuneAt(p.n + i - 1) = s[i]
    BY <1>1 DEF Prefix
  <2>2. RuneAt(p.n + i - 1) \notin {"eof", "newline", "e'"}
    BY <2>1 DEF Indents
  <2>3. p.n + i - 1 \in Nat /\ (p.n + i - 1) + 1 = p.n + i
    BY <1>1, <1>2
  <2>4. p.n + i - 1 < Len(text) /\ RuneAt(p.n + i - 1) = text[(p.n + i - 1) + 1]
    BY <2>2, <2>3, RuneTyped
  <2> QED
    BY <1>1, <1>2, <2>2, <2>3, <2>4
<1>4. p.n + Len(s) <= Len(text)
  BY <1>1, <1>2, <1>3
<1>5. \A j \in p.n + 1 .. p.n + Len(s) : text[j] # "newline" /\ text[j] # "e'"
  <2> SUFFICES ASSUME NEW j \in p.n + 1 .. p.n + Len(s)
               PROVE  text[j] # "newline" /\ text[j] # "e'"
    OBVIOUS
  <2>1. j - p.n \in 1..Len(s) /\ p.n + (j - p.n) = j
    BY <1>1, <1>2
  <2> QED
    BY <1>3, <2>1
<1>6. Sound(Forward(p, Len(s))) /\ Forward(p, Len(s)).n = p.n + Len(s)
  BY <1>1, <1>4, <1>5, ForwardSound
<1> QED
  BY <1>1, <1>2, <1>6

LEMMA SymbolStep ==
    ASSUME IInv, LexSymbol
    PROVE  IInv'
<1> DEFINE c == IF r = "/" THEN backup(next(next(Seen))) ELSE next(Seen)
<1>1. r \in Symbols /\ start = cursor.pos
  BY DEF LexSymbol, On, IInv, Begun
<1>2. TypeOK /\ Sound(cursor.pos) /\ Seen.pos = cursor.pos /\ Sound(Seen.pos)
  BY Cursor DEF IInv, Begun
<1>3. next(Seen).pos = Read.pos /\ Sound(next(Seen).pos)
  BY <1>2, Cursor, NextSound
<1>4. c.pos = Read.pos
  BY <1>2, <1>3, NextSound
<1>5. /\ Sound(c.pos) /\ c.pos.n = cursor.pos.n + 1 /\ start.n < c.pos.n /\ start.n <= c.pos.n
      /\ start.lineNo = c.pos.lineNo /\ start.lineStart = c.pos.lineStart
      /\ text[start.n + 1] \in Symbols
  BY <1>1, <1>4, Cursor, SymbolOnLine
<1>6. \/ Begin(next(c), "// comment") \/ Begin(next(c), "/* comment")
      \/ Follows(<<"|", "|">>) /\ GoTo(acceptN(c, 2), "block") /\ data' = <<>>
      \/ Go(c, "operator")
  BY DEF LexSymbol
<1> HIDE DEF c
<1>7. Sound(next(c).pos) /\ start.n <= next(c).pos.n
  <2>1. Sound(next(c).pos) /\ next(c).pos.n >= c.pos.n
    BY <1>2, <1>5, NextSound
  <2>2. cursor.pos.n \in Nat /\ next(c).pos.n \in Nat
    BY <1>2, <2>1, Cursor, SoundInText
  <2>3. cursor.pos.n <= next(c).pos.n
    BY <1>5, <2>1, <2>2
  <2> QED
    BY <2>1, <2>3, Onward
<1>8. CASE Begin(next(c), "// comment") \/ Begin(next(c), "/* comment")
  BY <1>7, <1>8, BeginStep
<1>9. CASE Follows(<<"|", "|">>) /\ GoTo(acceptN(c, 2), "block") /\ data' = <<>>
  <2>1. Prefix(c.pos.n, <<"|", "|">>)
    BY <1>5, <1>9 DEF Follows
  <2>2. <<"|", "|">> \in Seq(Indents \cup {"|"}) /\ Len(<<"|", "|">>) = 2
    OBVIOUS
  <2>3. Sound(Forward(c.pos, 2)) /\ Forward(c.pos, 2).n >= c.pos.n
    BY <1>2, <1>5, <2>1, <2>2, PrefixSound
  <2>4. acceptN(c, 2).pos = Forward(c.pos, 2)
    BY DEF acceptN
  <2>5. Sound(acceptN(c, 2).pos) /\ start.n <= acceptN(c, 2).pos.n
    <3>1. Sound(acceptN(c, 2).pos) /\ acceptN(c, 2).pos.n >= cursor.pos.n + 1
      BY <1>5, <2>3, <2>4
    <3>2. cursor.pos.n \in Nat /\ acceptN(c, 2).pos.n \in Nat
      BY <1>2, <3>1, Cursor, SoundInText
    <3>3. cursor.pos.n <= acceptN(c, 2).pos.n
      BY <3>1, <3>2
    <3> QED
      BY <3>1, <3>3, Onward
  <2>6. data' \in Seq(Runes)
    BY <1>9
  <2> QED
    BY <1>9, <2>5, <2>6, GoStep
<1>10. CASE Go(c, "operator")
  <2>1. GoTo(c, "operator") /\ data' \in Seq(Runes)
    BY <1>10, Cursor DEF Go
  <2> QED
    BY <1>5, <2>1, GoStep
<1> QED
  BY <1>6, <1>8, <1>9, <1>10

\* An operator is wound back along its line.
LEMMA WindBackSound ==
    ASSUME IInv, at = "operator"
    PROVE  /\ Sound(WindBack(Seen).pos) /\ start.n <= WindBack(Seen).pos.n
           /\ WindBack(Seen).pos.n = IF cursor.pos.n > start.n + 1 /\ text[cursor.pos.n] \in {"+", "-", "!"}
                                     THEN start.n + 1 ELSE cursor.pos.n
<1> DEFINE back == Moved(cursor.pos, start.n + 1, start.byteNo + 1)
<1>1. /\ start.n < cursor.pos.n
      /\ start.lineNo = cursor.pos.lineNo /\ start.lineStart = cursor.pos.lineStart
      /\ text[start.n + 1] \in Symbols
  BY DEF IInv, Begun
<1>2. TypeOK /\ Sound(start) /\ Sound(cursor.pos) /\ Seen.pos = cursor.pos
  BY Cursor DEF IInv, Begun
<1>3. start.n \in Nat /\ cursor.pos.n \in Nat /\ Len(text) \in Nat /\ start.n + 1 <= Len(text)
  BY <1>1, Cursor
<1>4. \A j \in start.n + 1 .. start.n + 1 : text[j] # "newline" /\ text[j] # "e'"
  BY <1>1, <1>3 DEF Symbols
<1>5. Sound(Forward(start, 1)) /\ Forward(start, 1).n = start.n + 1
  BY <1>2, <1>3, <1>4, ForwardSound
<1>6. back = Forward(start, 1)
  BY <1>1 DEF Moved, Forward
<1>7. Sound(back) /\ back.n = start.n + 1
  BY <1>5, <1>6
<1>8. WindBack(Seen).pos = IF cursor.pos.n > start.n + 1 /\ text[cursor.pos.n] \in {"+", "-", "!"}
                          THEN back ELSE cursor.pos
  <2>1. CASE cursor.pos.n > start.n + 1 /\ text[cursor.pos.n] \in {"+", "-", "!"}
    <3>1. WindBack(Seen) = [Seen EXCEPT !.pos = back]
      BY <1>2, <2>1 DEF WindBack
    <3>2. Seen = [pos |-> cursor.pos, prev |-> None]
      BY <1>2 DEF Seen, backup
    <3> HIDE DEF back
    <3> QED
      BY <2>1, <3>1, <3>2
  <2>2. CASE ~(cursor.pos.n > start.n + 1 /\ text[cursor.pos.n] \in {"+", "-", "!"})
    <3>1. WindBack(Seen) = Seen
      BY <1>2, <2>2 DEF WindBack
    <3> QED
      BY <1>2, <2>2, <3>1
  <2> QED
    BY <2>1, <2>2
<1> HIDE DEF back
<1> QED
  BY <1>1, <1>2, <1>3, <1>7, <1>8

LEMMA OperatorStep ==
    ASSUME IInv, LexOperator
    PROVE  IInv'
<1> DEFINE c == WindBack(Seen)
           kind == IF Lexeme(c) = <<"$">> THEN "$" ELSE "operator"
<1>1. /\ at = "operator" /\ start.n < cursor.pos.n
      /\ start.lineNo = cursor.pos.lineNo /\ start.lineStart = cursor.pos.lineStart
      /\ text[start.n + 1] \in Symbols
  BY DEF LexOperator, On, IInv, Begun
<1>2. CASE ~Stops /\ Go(Read, "operator")
  <2>1. r \in Symbols /\ GoTo(Read, "operator") /\ data' \in Seq(Runes)
    BY <1>2, Cursor DEF Stops, Go
  <2>2. Read.pos.lineNo = start.lineNo /\ Read.pos.lineStart = start.lineStart
    BY <1>1, <2>1, SymbolOnLine
  <2>3. Sound(Read.pos) /\ start.n < Read.pos.n /\ start.n <= Read.pos.n
    BY <1>1, Cursor
  <2> QED
    BY <1>1, <2>1, <2>2, <2>3, GoStep
<1>3. CASE emitToken(c, kind)
  <2>1. kind \in Kinds
    BY DEF Kinds
  <2>2. Sound(c.pos) /\ start.n <= c.pos.n
    BY <1>1, WindBackSound
  <2> HIDE DEF c, kind
  <2> QED
    BY <1>3, <2>1, <2>2, TokenStep
<1> QED
  BY <1>2, <1>3 DEF LexOperator

----------------------------------------------------------------------------
(* Text blocks.                                                            *)

\* The blanks before the first rune that is none are as many as Indented.
LEMMA IndentedFirst ==
    ASSUME IInv
    PROVE  /\ IsFiniteSet(Indented) /\ Cardinality(Indented) \in Nat
           /\ \A k \in cursor.pos.n + 1 .. cursor.pos.n + Cardinality(Indented) : k \in Indented
<1> DEFINE n == cursor.pos.n
           m == Cardinality(Indented)
<1>1. n \in Nat /\ Len(text) \in Nat
  BY Cursor
<1>2. Indented \subseteq n + 1 .. Len(text)
  BY DEF Indented
<1>3. IsFiniteSet(Indented) /\ m \in Nat
  <2>1. n + 1 \in Int /\ Len(text) \in Int
    BY <1>1
  <2>2. IsFiniteSet(n + 1 .. Len(text))
    BY <2>1, FS_Interval
  <2> QED
    BY <1>2, <2>2, FS_Subset, FS_CardinalityType
<1> HIDE DEF m
<1>4. ASSUME NEW k \in n + 1 .. n + m
      PROVE  k \in Indented
  <2> SUFFICES ASSUME k \notin Indented
               PROVE  FALSE
    OBVIOUS
  <2>1. k \in Int /\ n + 1 <= k /\ k <= n + m /\ k - 1 \in Int
    BY <1>1, <1>3
  <2>2. Indented \subseteq n + 1 .. k - 1
    <3> SUFFICES ASSUME NEW l \in Indented
                 PROVE  l \in n + 1 .. k - 1
      OBVIOUS
    <3>1. l \in n + 1 .. Len(text) /\ \A j \in n + 1 .. l : text[j] \in Indents
      BY DEF Indented
    <3>2. CASE k <= l
      <4>1. k \in n + 1 .. Len(text)
        BY <1>1, <2>1, <3>1, <3>2
      <4>2. \A j \in n + 1 .. k : text[j] \in Indents
        BY <1>1, <2>1, <3>1, <3>2
      <4> QED
        BY <4>1, <4>2 DEF Indented
    <3>3. CASE l < k
      BY <1>1, <2>1, <3>1, <3>3
    <3> QED
      BY <1>1, <2>1, <3>1, <3>2, <3>3
  <2>3. IsFiniteSet(n + 1 .. k - 1)
        /\ Cardinality(n + 1 .. k - 1) = IF n + 1 > k - 1 THEN 0 ELSE (k - 1) - (n + 1) + 1
    <3>1. n + 1 \in Int /\ k - 1 \in Int
      BY <1>1, <2>1
    <3> QED
      BY <3>1, FS_Interval
  <2>4. (IF n + 1 > k - 1 THEN 0 ELSE (k - 1) - (n + 1) + 1) = k - 1 - n
    BY <1>1, <2>1
  <2>5. m <= Cardinality(n + 1 .. k - 1)
    BY <2>2, <2>3, FS_Subset DEF m
  <2> QED
    BY <1>1, <1>3, <2>1, <2>3, <2>4, <2>5
<1> QED
  BY <1>3, <1>4 DEF m

LEMMA IndentIsThere ==
    ASSUME IInv
    PROVE  Indent \in Seq(Indents) /\ Prefix(cursor.pos.n, Indent)
<1> DEFINE n == cursor.pos.n
           m == Cardinality(Indented)
<1>1. n \in Nat /\ Len(text) \in Nat
  BY Cursor
<1>2. m \in Nat
  BY IndentedFirst
<1>3. \A k \in n + 1 .. n + m : k \in Indented
  BY IndentedFirst
<1> HIDE DEF m
<1>4. \A k \in n + 1 .. n + m : k <= Len(text) /\ text[k] \in Indents
  BY <1>1, <1>3 DEF Indented
<1>5. /\ Indent \in Seq(Indents) /\ Len(Indent) = m
      /\ \A i \in 1..m : Indent[i] = text[n + i]
  <2> DEFINE first == n + 1
             last == n + m
             s == SubSeq(text, first, last)
  <2>1. first \in Int /\ last \in Int
    BY <1>1, <1>2
  <2>2. \A k \in first..last : text[k] \in Indents
    BY <1>4
  <2>3. /\ (IF first <= last THEN last - first + 1 ELSE 0) = m
        /\ last - first + 1 = m /\ \A i \in 1..m : first + i - 1 = n + i
    <3>1. last - first + 1 = m /\ (first > last => m = 0)
      BY <1>1, <1>2
    <3>2. \A i \in 1..m : first + i - 1 = n + i
      BY <1>1, <1>2
    <3> QED
      BY <1>1, <1>2, <3>1, <3>2
  <2>4. Indent = s
    BY DEF Indent, m
  <2> HIDE DEF first, last
  <2>5. /\ s \in Seq(Indents) /\ Len(s) = IF first <= last THEN last - first + 1 ELSE 0
        /\ \A i \in 1 .. last - first + 1 : s[i] = text[first + i - 1]
    BY <2>1, <2>2, SubSeqProperties
  <2> HIDE DEF s
  <2> QED
    BY <2>3, <2>4, <2>5
<1>6. ASSUME NEW i \in 1..m
      PROVE  RuneAt(n + i - 1) = Indent[i]
  <2>1. n + i \in n + 1 .. n + m /\ n + i - 1 + 1 = n + i
    BY <1>1, <1>2
  <2>2. n + i - 1 < Len(text)
    BY <1>1, <1>2, <1>4, <2>1
  <2>3. RuneAt(n + i - 1) = text[n + i]
    BY <2>1, <2>2 DEF RuneAt
  <2> QED
    BY <1>5, <2>3
<1> QED
  BY <1>5, <1>6 DEF Prefix

\* Seen, and the cursor after a prefix that is there.
LEMMA AcceptSound ==
    ASSUME IInv, NEW s \in Seq(Indents \cup {"|"}), Prefix(cursor.pos.n, s)
    PROVE  Sound(acceptN(Seen, Len(s)).pos) /\ cursor.pos.n <= acceptN(Seen, Len(s)).pos.n
<1>1. TypeOK /\ Sound(cursor.pos) /\ Seen.pos = cursor.pos /\ cursor.pos.n \in Nat
  BY Cursor DEF IInv, Begun
<1>2. Sound(Forward(cursor.pos, Len(s))) /\ Forward(cursor.pos, Len(s)).n >= cursor.pos.n
  BY <1>1, PrefixSound
<1>3. acceptN(Seen, Len(s)).pos = Forward(cursor.pos, Len(s))
  BY <1>1 DEF acceptN
<1> QED
  BY <1>1, <1>2, <1>3, SoundInText

LEMMA IndentsTyped ==
    ASSUME NEW s \in Seq(Indents)
    PROVE  s \in Seq(Runes) /\ s \in Seq(Indents \cup {"|"})
<1>1. Indents \subseteq Runes /\ Indents \subseteq Indents \cup {"|"}
  BY DEF Runes, Blanks
<1> QED
  BY <1>1, SeqMonotonic

\* A rune of a text block is kept.
LEMMA KeepStep ==
    ASSUME IInv, NEW place, place \notin {"lex", "operator", "string"},
           GoTo(Read, place), r # "eof", data' = Append(data, r)
    PROVE  IInv'
<1>1. Sound(Read.pos) /\ start.n <= Read.pos.n
  BY Cursor
<1>2. data' \in Seq(Runes)
  BY Cursor, AppendProperties
<1> QED
  BY <1>1, <1>2, GoStep

LEMMA FirstLineStep ==
    ASSUME IInv, BlockFirstLine
    PROVE  IInv'
<1> DEFINE c == acceptN(Seen, Len(Indent))
<1>1. \/ r = "newline" /\ GoTo(Read, at) /\ data' = Append(data, r)
      \/ Fail
      \/ /\ indent' = Indent /\ cursor' = acceptN(Seen, Len(indent')) /\ at' = "line"
         /\ UNCHANGED <<text_vars, start, tokens, fodder, quot, data>>
  BY DEF BlockFirstLine
<1>2. at \notin {"lex", "operator", "string"}
  BY DEF BlockFirstLine, On
<1>3. CASE r = "newline" /\ GoTo(Read, at) /\ data' = Append(data, r)
  BY <1>2, <1>3, KeepStep
<1>4. CASE Fail
  BY <1>4, FailStep
<1>5. CASE /\ indent' = Indent /\ cursor' = acceptN(Seen, Len(indent')) /\ at' = "line"
           /\ UNCHANGED <<text_vars, start, tokens, fodder, quot, data>>
  <2>1. Indent \in Seq(Indents) /\ Prefix(cursor.pos.n, Indent)
    BY IndentIsThere
  <2>2. Indent \in Seq(Indents \cup {"|"})
    BY <2>1, IndentsTyped
  <2>3. Sound(c.pos) /\ cursor.pos.n <= c.pos.n
    BY <2>1, <2>2, AcceptSound
  <2>4. /\ cursor' = c /\ indent' = Indent /\ at' = "line"
        /\ UNCHANGED <<dialect, text, start, tokens, fodder, data>>
    BY <1>5 DEF text_vars
  <2> HIDE DEF c
  <2>5. start.n <= c.pos.n
    BY <2>3, Onward
  <2>6. TypeOK'
    BY <2>1, <2>4 DEF IInv, TypeOK
  <2>7. Sound(cursor.pos)' /\ Sound(start)'
    BY <2>3, <2>4 DEF IInv, Begun, Sound
  <2>8. Begun'
    BY <2>4, <2>5, <2>7 DEF Begun
  <2>9. Placed'
    BY <2>4 DEF IInv, Placed, Ordered
  <2> QED
    BY <2>6, <2>8, <2>9 DEF IInv
<1> QED
  BY <1>1, <1>3, <1>4, <1>5

LEMMA BlockStep ==
    ASSUME IInv, BlockOpens \/ BlockLine \/ BlockNextLine \/ BlockLastLine
    PROVE  IInv'
<1>1. Sound(Read.pos) /\ cursor.pos.n <= Read.pos.n /\ Sound(Seen.pos) /\ cursor.pos.n <= Seen.pos.n
      /\ data \in Seq(Runes) /\ indent \in Seq(Indents) /\ TypeOK
  BY Cursor DEF IInv, TypeOK
<1>2. CASE Fail
  BY <1>2, FailStep
<1>3. CASE BlockOpens
  <2>1. Go(Read, "block") \/ Go(Read, "first line") \/ Fail
    BY <1>3 DEF BlockOpens
  <2>2. CASE Go(Read, "block")
    BY <1>1, <2>2, GoFrom
  <2>3. CASE Go(Read, "first line")
    BY <1>1, <2>3, GoFrom
  <2> QED
    BY <1>2, <2>1, <2>2, <2>3
<1>4. CASE BlockLine
  <2> DEFINE place == IF r = "newline" THEN "next line" ELSE "line"
  <2>1. Fail \/ (r # "eof" /\ GoTo(Read, place) /\ data' = Append(data, r))
    BY <1>4 DEF BlockLine
  <2>2. place \notin {"lex", "operator", "string"}
    OBVIOUS
  <2> HIDE DEF place
  <2> QED
    BY <1>2, <2>1, <2>2, KeepStep
<1>5. CASE BlockNextLine
  <2> DEFINE c == acceptN(Seen, Len(indent))
  <2>1. /\ at \notin {"lex", "operator", "string"}
        /\ \/ r = "newline" /\ GoTo(Read, at) /\ data' = Append(data, r)
           \/ Prefix(cursor.pos.n, indent) /\ Go(c, "line")
           \/ Go(Seen, "last line")
    BY <1>5 DEF BlockNextLine, On
  <2> HIDE DEF c
  <2>2. CASE r = "newline" /\ GoTo(Read, at) /\ data' = Append(data, r)
    BY <2>1, <2>2, KeepStep
  <2>3. CASE Prefix(cursor.pos.n, indent) /\ Go(c, "line")
    <3>1. indent \in Seq(Indents \cup {"|"})
      BY <1>1, IndentsTyped
    <3>2. Sound(c.pos) /\ cursor.pos.n <= c.pos.n
      BY <2>3, <3>1, AcceptSound DEF c
    <3> QED
      BY <2>3, <3>2, GoFrom
  <2>4. CASE Go(Seen, "last line")
    BY <1>1, <2>4, GoFrom
  <2> QED
    BY <2>1, <2>2, <2>3, <2>4
<1>6. CASE BlockLastLine
  <2> DEFINE bars == <<"|", "|", "|">>
             c == acceptN(Seen, Len(bars))
  <2>1. bars \in Seq(Indents \cup {"|"}) /\ Len(bars) = 3
    OBVIOUS
  <2>2. /\ at \notin {"lex", "operator", "string"}
        /\ \/ Go(Read, at)
           \/ Prefix(cursor.pos.n, bars) /\ emit(acceptN(Seen, 3), "block", data, "lex")
           \/ Fail
    BY <1>6 DEF BlockLastLine, On, emitFullToken
  <2> HIDE DEF bars
  <2>3. CASE Go(Read, at)
    BY <1>1, <2>2, <2>3, GoFrom
  <2>4. CASE Prefix(cursor.pos.n, bars) /\ emit(acceptN(Seen, 3), "block", data, "lex")
    <3>1. Sound(c.pos) /\ cursor.pos.n <= c.pos.n /\ emit(c, "block", data, "lex")
      BY <2>1, <2>4, AcceptSound
    <3> HIDE DEF c
    <3>2. start.n <= c.pos.n
      BY <3>1, Onward
    <3>3. "block" \in Kinds
      BY DEF Kinds
    <3> QED
      BY <1>1, <3>1, <3>2, <3>3, EmitStep
  <2> QED
    BY <1>2, <2>2, <2>3, <2>4
<1> QED
  BY <1>3, <1>4, <1>5, <1>6

----------------------------------------------------------------------------
(* The invariant.                                                          *)

LEMMA InitIInv == Init => IInv
<1> SUFFICES ASSUME Init
             PROVE  IInv
  OBVIOUS
<1>1. dialect \in Dialects /\ dialect \in [begins : Seq(Runes), runes : SUBSET Runes, max : Nat]
  BY DialectsAssumption DEF Init
<1>2. text \in Seq(Runes)
  BY <1>1 DEF Init
<1>3. TypeOK
  BY <1>1, <1>2 DEF Init, TypeOK
<1>4. LocationIn(text, 0) = [line |-> 1, column |-> 1]
  <2>1. Newlines(text, 0) = {} /\ OnLine(text, 0) = {} /\ Wide(text, 0) = {}
    BY DEF Newlines, OnLine, Wide
  <2>2. /\ Cardinality(Newlines(text, 0)) = 0 /\ Cardinality(OnLine(text, 0)) = 0
        /\ Cardinality(Wide(text, 0)) = 0
    BY <2>1, FS_EmptySet
  <2> QED
    BY <2>2 DEF LocationIn
<1>5. start = [n |-> 0, byteNo |-> 0, lineNo |-> 1, lineStart |-> 0] /\ cursor.pos = start
  BY DEF Init
<1>6. location(start) = [line |-> 1, column |-> 1]
  BY <1>5 DEF location
<1>7. start \in Position /\ start.n = 0 /\ Len(text) \in Nat
  BY <1>2, <1>5, LenProperties DEF Position
<1>8. Sound(start)
  BY <1>4, <1>6, <1>7 DEF Sound
<1>9. at = "lex" /\ tokens = <<>>
  BY DEF Init
<1>10. Begun
  BY <1>5, <1>7, <1>8, <1>9 DEF Begun
<1>11. Placed
  BY <1>9 DEF Placed
<1> QED
  BY <1>3, <1>10, <1>11 DEF IInv

\* The lexer looks at a rune that no location depends on.
LEMMA RevealStep ==
    ASSUME IInv, Reveal
    PROVE  IInv'
<1>1. UNCHANGED <<dialect, cursor, start, tokens, fodder, at, quot, data, indent>>
  BY DEF Reveal
<1>2. text \in Seq(Runes) /\ Len(text) \in Nat
  BY Cursor DEF TypeOK
<1>3. /\ text' \in Seq(Runes) /\ Len(text') \in Nat /\ Len(text') >= Len(text)
      /\ \A k \in 1..Len(text) : text'[k] = text[k]
      /\ \A n \in 0..Len(text) : LocationIn(text', n) = LocationIn(text, n)
  <2>1. CASE text' = text
    BY <1>2, <2>1
  <2>2. CASE \E rune \in dialect.runes : text' = Append(text, rune)
    <3>1. PICK rune \in dialect.runes : text' = Append(text, rune)
      BY <2>2
    <3>2. dialect \in [begins : Seq(Runes), runes : SUBSET Runes, max : Nat]
      BY DialectsAssumption DEF IInv, TypeOK
    <3>3. rune \in Runes
      BY <3>2
    <3>4. /\ text' \in Seq(Runes) /\ Len(text') = Len(text) + 1
          /\ \A k \in 1..Len(text) : text'[k] = text[k]
      BY <1>2, <3>1, <3>3, AppendProperties
    <3>5. \A n \in 0..Len(text) : LocationIn(text', n) = LocationIn(text, n)
      BY <1>2, <3>1, LocationKept
    <3> QED
      BY <1>2, <3>4, <3>5
  <2> QED
    BY <2>1, <2>2 DEF Reveal
<1>4. TypeOK'
  BY <1>1, <1>3 DEF IInv, TypeOK
<1>5. ASSUME NEW n, n \in 0..Len(text)
      PROVE  n \in 0..Len(text') /\ LocationIn(text', n) = LocationIn(text, n)
  BY <1>2, <1>3, <1>5
<1>6. Sound(cursor.pos)' /\ Sound(start)'
  <2>1. /\ cursor.pos.n \in 0..Len(text) /\ start.n \in 0..Len(text)
        /\ cursor.pos \in Position /\ start \in Position
        /\ location(cursor.pos) = LocationIn(text, cursor.pos.n)
        /\ location(start) = LocationIn(text, start.n)
    BY DEF IInv, Begun, Sound
  <2>2. /\ LocationIn(text', cursor.pos.n) = LocationIn(text, cursor.pos.n)
        /\ LocationIn(text', start.n) = LocationIn(text, start.n)
        /\ cursor.pos.n \in 0..Len(text') /\ start.n \in 0..Len(text')
    BY <1>5, <2>1
  <2> QED
    BY <1>1, <2>1, <2>2 DEF Sound
<1>7. at = "operator" => text'[start.n + 1] = text[start.n + 1]
  <2> SUFFICES ASSUME at = "operator"
               PROVE  text'[start.n + 1] = text[start.n + 1]
    OBVIOUS
  <2>1. start.n < cursor.pos.n /\ cursor.pos.n \in Nat /\ start.n \in Nat /\ cursor.pos.n <= Len(text)
    BY Cursor DEF IInv, Begun
  <2>2. start.n + 1 \in 1..Len(text)
    BY <1>2, <2>1
  <2> QED
    BY <1>3, <2>2
<1>8. Begun'
  BY <1>1, <1>6, <1>7 DEF IInv, Begun
<1>9. Placed'
  <2> SUFFICES ASSUME NEW i \in 1..Len(tokens)
               PROVE  /\ Ordered(text', tokens[i])
                      /\ tokens[i].to <= IF i = Len(tokens) THEN start.n ELSE tokens[i + 1].from
    BY <1>1 DEF Placed
  <2>1. /\ Ordered(text, tokens[i])
        /\ tokens[i].to <= IF i = Len(tokens) THEN start.n ELSE tokens[i + 1].from
    BY DEF IInv, Placed
  <2>2. Ordered(text', tokens[i])
    <3>1. /\ tokens[i].from \in 0..Len(text) /\ tokens[i].to \in 0..Len(text)
          /\ tokens[i].from <= tokens[i].to
          /\ tokens[i].begin = LocationIn(text, tokens[i].from)
          /\ tokens[i].end = LocationIn(text, tokens[i].to)
      BY <2>1 DEF Ordered
    <3>2. /\ LocationIn(text', tokens[i].from) = LocationIn(text, tokens[i].from)
          /\ LocationIn(text', tokens[i].to) = LocationIn(text, tokens[i].to)
          /\ tokens[i].from \in 0..Len(text') /\ tokens[i].to \in 0..Len(text')
      BY <1>5, <3>1
    <3> QED
      BY <3>1, <3>2 DEF Ordered
  <2> QED
    BY <2>1, <2>2
<1> QED
  BY <1>4, <1>8, <1>9 DEF IInv

LEMMA NextIInv == IInv /\ [Next]_vars => IInv'
<1> SUFFICES ASSUME IInv, [Next]_vars
             PROVE  IInv'
  OBVIOUS
<1>1. CASE UNCHANGED vars
  <2>1. UNCHANGED <<dialect, text, ended, cursor, start, tokens, fodder, at, quot, data, indent>>
    BY <1>1 DEF vars, text_vars
  <2>2. TypeOK' /\ Begun' /\ Placed'
    BY <2>1 DEF IInv, TypeOK, Begun, Sound, Placed, Ordered
  <2> QED
    BY <2>2 DEF IInv
<1>2. CASE Reveal
  BY <1>2, RevealStep
<1>3. CASE LexEnd \/ LexPunctuation \/ LexWord \/ LexString \/ LexVerbatim \/ LexHash \/ LexOther
  BY <1>3, LoopStep
<1>4. CASE LexWhitespace
  BY <1>4, WhitespaceStep
<1>5. CASE LexNumber
  BY <1>5, LexNumberStep
<1>6. CASE LexIdentifier
  BY <1>6, IdentifierStep
<1>7. CASE LexStringRune
  BY <1>7, StringStep
<1>8. CASE LexVerbatimRune
  BY <1>8, VerbatimStep
<1>9. CASE LexSymbol
  BY <1>9, SymbolStep
<1>10. CASE LexLineComment
  BY <1>10, LineCommentStep
<1>11. CASE LexBlockComment
  BY <1>11, BlockCommentStep
<1>12. CASE LexOperator
  BY <1>12, OperatorStep
<1>13. CASE BlockFirstLine
  BY <1>13, FirstLineStep
<1>14. CASE BlockOpens \/ BlockLine \/ BlockNextLine \/ BlockLastLine
  BY <1>14, BlockStep
<1> QED
  BY <1>1, <1>2, <1>3, <1>4, <1>5, <1>6, <1>7, <1>8, <1>9, <1>10, <1>11, <1>12, <1>13, <1>14
  DEF Next, Lex

LEMMA IInvLocated == IInv => Located
<1> SUFFICES ASSUME IInv
             PROVE  Located
  OBVIOUS
<1>1. location(cursor.pos) = LocationIn(text, cursor.pos.n)
  BY DEF IInv, Begun, Sound
<1>2. DOMAIN tokens = 1..Len(tokens)
  BY LenProperties DEF IInv, TypeOK
<1>3. ASSUME NEW i \in 1..Len(tokens)
      PROVE  /\ tokens[i].begin = LocationIn(text, tokens[i].from)
             /\ tokens[i].end = LocationIn(text, tokens[i].to)
             /\ tokens[i].from <= tokens[i].to
             /\ tokens[i].to <= IF i = Len(tokens) THEN cursor.pos.n ELSE tokens[i + 1].from
  <2>1. /\ Ordered(text, tokens[i])
        /\ tokens[i].to <= IF i = Len(tokens) THEN start.n ELSE tokens[i + 1].from
    BY DEF IInv, Placed
  <2>2. tokens[i].to \in Nat /\ start.n \in Nat /\ cursor.pos.n \in Nat /\ start.n <= cursor.pos.n
    BY <2>1, Cursor DEF Ordered
  <2> QED
    BY <2>1, <2>2 DEF Ordered
<1> QED
  BY <1>1, <1>2, <1>3 DEF Located

\* Whatever the text, every line and column the lexer gives out, of a token or of an
\* error at the cursor, is that of the text, and tokens lie apart and in the order of
\* the text: peeks, backups and wind backs of lexer.go keep lineNumber and lineStart.
THEOREM LocationsAreSound == Spec => []Located
<1>1. Spec => []IInv
  BY InitIInv, NextIInv, PTL DEF Spec
<1> QED
  BY <1>1, IInvLocated, PTL
----------------------------------------------------------------------------
(* Numbers.                                                                *)
Signs == {"+", "-"}

\* What a number may begin with, in one form.
Numeric(t, i, j, a, b) ==
    /\ i < a /\ a <= b /\ b <= j
    /\ AllIn(t, i, a, Digits) /\ (t[i + 1] = "0" => a = i + 1)
    /\ b = a \/ (t[a + 1] = "." /\ AllIn(t, a + 1, b, Digits))
    /\ \/ j = b
       \/ /\ b # a + 1 /\ t[b + 1] = "e"
          /\ \/ AllIn(t, b + 1, j, Digits)
             \/ b + 2 <= j /\ t[b + 2] \in Signs /\ AllIn(t, b + 2, j, Digits)

\* A number has a digit last, and what precedes its exponent ends in one.
LEMMA NumberNumeric ==
    ASSUME NEW t, NEW i \in Nat, NEW j \in Nat, Number(t, i, j)
    PROVE  /\ \E a \in i..j : \E b \in a..j : Numeric(t, i, j, a, b)
           /\ i < j /\ t[j] \in Digits
<1>0. PICK a \in i..j : \E b \in a..j : Integer(t, i, a) /\ Fraction(t, a, b) /\ Power(t, b, j)
  BY DEF Number
<1>1. PICK b \in a..j : Integer(t, i, a) /\ Fraction(t, a, b) /\ Power(t, b, j)
  BY <1>0
<1>2. i < a /\ AllIn(t, i, a, Digits) /\ (t[i + 1] = "0" => a = i + 1)
  BY <1>1 DEF Integer, Natural
<1>3. b = a \/ (a + 1 < b /\ t[a + 1] = "." /\ AllIn(t, a + 1, b, Digits))
  BY <1>1 DEF Fraction, Natural
<1>4. a \in Nat /\ b \in Nat /\ a <= b /\ b <= j
  OBVIOUS
<1>5. CASE j = b
  <2>1. t[j] \in Digits
    BY <1>2, <1>3, <1>4, <1>5 DEF AllIn
  <2> QED
    BY <1>2, <1>3, <1>4, <1>5, <2>1 DEF Numeric
<1>6. CASE j # b
  <2>1. b < j /\ t[b + 1] = "e"
    BY <1>1, <1>6 DEF Power
  <2>2. PICK k \in b + 1 .. j : Signed(t, b + 1, k) /\ Natural(t, k, j)
    BY <1>1, <1>6 DEF Power
  <2>3. k < j /\ AllIn(t, k, j, Digits) /\ k \in Nat
    BY <1>4, <2>2 DEF Natural
  <2>4. k = b + 1 \/ (k = b + 2 /\ t[b + 2] \in Signs)
    BY <1>4, <2>2 DEF Signed, Signs
  <2>5. t[j] \in Digits
    BY <2>3 DEF AllIn
  <2> QED
    BY <1>2, <1>3, <1>4, <2>1, <2>3, <2>4, <2>5 DEF Numeric
<1> QED
  BY <1>5, <1>6

\* What a number may begin with has its parts in order.
LEMMA BeginsNumeric ==
    ASSUME NEW t, NEW i \in Nat, NEW j \in Nat, BeginsNumber(t, i, j)
    PROVE  \E a \in i..j : \E b \in a..j : Numeric(t, i, j, a, b)
<1>1. CASE Number(t, i, j)
  BY <1>1, NumberNumeric
<1>2. CASE Unfinished(t, i, j)
  <2>1. PICK a \in i..j :
          /\ Integer(t, i, a)
          /\ \/ j = a + 1 /\ t[j] = "."
             \/ \E b \in a..j : /\ Fraction(t, a, b)
                                /\ b < j /\ t[b + 1] = "e" /\ Signed(t, b + 1, j)
    BY <1>2 DEF Unfinished
  <2>2. i < a /\ AllIn(t, i, a, Digits) /\ (t[i + 1] = "0" => a = i + 1) /\ a \in Nat
    BY <2>1 DEF Integer, Natural
  <2>3. CASE j = a + 1 /\ t[j] = "."
    <3>1. AllIn(t, a + 1, j, Digits)
      BY <2>2, <2>3 DEF AllIn
    <3>2. Numeric(t, i, j, a, j)
      BY <2>2, <2>3, <3>1 DEF Numeric
    <3> QED
      BY <2>2, <2>3, <3>2
  <2>4. CASE \E b \in a..j : Fraction(t, a, b) /\ b < j /\ t[b + 1] = "e" /\ Signed(t, b + 1, j)
    <3>1. PICK b \in a..j : Fraction(t, a, b) /\ b < j /\ t[b + 1] = "e" /\ Signed(t, b + 1, j)
      BY <2>4
    <3>2. b = a \/ (a + 1 < b /\ t[a + 1] = "." /\ AllIn(t, a + 1, b, Digits))
      BY <3>1 DEF Fraction, Natural
    <3>3. b \in Nat
      BY <2>2
    <3>4. j = b + 1 \/ (j = b + 2 /\ t[b + 2] \in Signs)
      BY <3>1, <3>3 DEF Signed, Signs
    <3>5. AllIn(t, j, j, Digits)
      BY DEF AllIn
    <3>6. Numeric(t, i, j, a, b)
      BY <2>2, <3>1, <3>2, <3>3, <3>4, <3>5 DEF Numeric
    <3> QED
      BY <3>6
  <2> QED
    BY <2>1, <2>3, <2>4
<1> QED
  BY <1>1, <1>2 DEF BeginsNumber

Fractional(t, i, j) == \E a \in i..j : Integer(t, i, a) /\ Fraction(t, a, j)

\* The runes read so far, by the state of lexNumber.
Shape(t, state, i, j) ==
    \/ state = "begin" /\ j = i
    \/ state = "after zero" /\ j = i + 1 /\ t[j] = "0"
    \/ state = "after one to nine" /\ Natural(t, i, j) /\ t[i + 1] # "0"
    \/ state = "after dot" /\ \E a \in i..j : Integer(t, i, a) /\ j = a + 1 /\ t[j] = "."
    \/ state = "after digit" /\ \E a \in i..j : Integer(t, i, a) /\ a < j /\ Fraction(t, a, j)
    \/ state = "after e" /\ \E b \in i..j : Fractional(t, i, b) /\ j = b + 1 /\ t[j] = "e"
    \/ /\ state = "after sign"
       /\ \E b \in i..j : Fractional(t, i, b) /\ j = b + 2 /\ t[b + 1] = "e" /\ t[j] \in Signs
    \/ /\ state = "after exponent"
       /\ \E b \in i..j : \E k \in b + 1 .. j :
             Fractional(t, i, b) /\ t[b + 1] = "e" /\ Signed(t, b + 1, k) /\ Natural(t, k, j)
Scans(t, state, i, j) ==
    Comes(t, i, Digits) /\ Shape(t, state, i, j) /\ \A k \in i + 1 .. j : BeginsNumber(t, i, k)

LEMMA ShapeOrder ==
    ASSUME NEW t, NEW i \in Nat, NEW j \in Nat, NEW state, Shape(t, state, i, j)
    PROVE  i <= j
<1>1. ASSUME NEW a \in i..j
      PROVE  i <= j
  OBVIOUS
<1>2. CASE state \in {"after dot", "after digit", "after e", "after sign", "after exponent"}
  <2>1. \E a \in i..j : TRUE
    BY <1>2 DEF Shape
  <2> QED
    BY <1>1, <2>1
<1>3. CASE state \in {"begin", "after zero"}
  <2>1. j = i \/ j = i + 1
    BY <1>3 DEF Shape
  <2> QED
    BY <2>1
<1>4. CASE state = "after one to nine"
  <2>1. i < j
    BY <1>4 DEF Shape, Natural
  <2> QED
    BY <2>1
<1>5. state \in {"begin", "after zero", "after one to nine", "after dot", "after digit", "after e",
                 "after sign", "after exponent"}
  BY DEF Shape
<1> QED
  BY <1>2, <1>3, <1>4, <1>5

\* Digits go on with digits.
LEMMA AllInNext ==
    ASSUME NEW t, NEW i \in Nat, NEW j \in Nat, NEW S, i <= j + 1, AllIn(t, i, j, S), t[j + 1] \in S
    PROVE  AllIn(t, i, j + 1, S)
<1> SUFFICES ASSUME NEW k \in i + 1 .. j + 1
             PROVE  t[k] \in S
  BY DEF AllIn
<1>1. k \in i + 1 .. j \/ k = j + 1
  OBVIOUS
<1> QED
  BY <1>1 DEF AllIn

LEMMA ShapeFractional ==
    ASSUME NEW t, NEW i \in Nat, NEW j \in Nat, NEW state, Shape(t, state, i, j)
    PROVE  /\ state \in {"after zero", "after one to nine"} => Integer(t, i, j)
           /\ state \in {"after zero", "after one to nine", "after digit"} => Fractional(t, i, j)
<1>1. ASSUME state = "after zero"
      PROVE  Integer(t, i, j)
  <2>1. j = i + 1 /\ t[j] = "0"
    BY <1>1 DEF Shape
  <2>2. AllIn(t, i, j, Digits)
    BY <2>1 DEF AllIn, Digits
  <2> QED
    BY <2>1, <2>2 DEF Integer, Natural
<1>2. ASSUME state = "after one to nine"
      PROVE  Integer(t, i, j)
  BY <1>2 DEF Shape, Integer
<1>3. ASSUME Integer(t, i, j)
      PROVE  Fractional(t, i, j)
  <2>1. j \in i..j
    BY <1>3 DEF Integer, Natural
  <2>2. Fraction(t, j, j)
    BY DEF Fraction
  <2> QED
    BY <1>3, <2>1, <2>2 DEF Fractional
<1>4. ASSUME state = "after digit"
      PROVE  Fractional(t, i, j)
  BY <1>4 DEF Shape, Fractional
<1> QED
  BY <1>1, <1>2, <1>3, <1>4

\* Digits, a fraction and an exponent make a number.
LEMMA FractionalNumber ==
    ASSUME NEW t, NEW i \in Nat, NEW j \in Nat, NEW b \in i..j, Fractional(t, i, b), Power(t, b, j)
    PROVE  Number(t, i, j)
<1>1. PICK a \in i..b : Integer(t, i, a) /\ Fraction(t, a, b)
  BY DEF Fractional
<1>2. a \in i..j /\ b \in a..j
  OBVIOUS
<1> QED
  BY <1>1, <1>2 DEF Number

\* Every state but the first has read what a number begins with, and four of them
\* a number.
LEMMA ShapeBegins ==
    ASSUME NEW t, NEW i \in Nat, NEW j \in Nat, NEW state, Shape(t, state, i, j), state # "begin"
    PROVE  /\ BeginsNumber(t, i, j)
           /\ state \in {"after zero", "after one to nine", "after digit", "after exponent"} => Number(t, i, j)
           /\ state \in {"after dot", "after e", "after sign"} => ~Number(t, i, j)
<1>1. ASSUME state \in {"after zero", "after one to nine", "after digit"}
      PROVE  Number(t, i, j)
  <2>1. Fractional(t, i, j)
    BY <1>1, ShapeFractional
  <2>2. Power(t, j, j) /\ j \in i..j
    BY <2>1 DEF Power, Fractional
  <2> QED
    BY <2>1, <2>2, FractionalNumber
<1>2. ASSUME state = "after exponent"
      PROVE  Number(t, i, j)
  <2>1. PICK b \in i..j : \E k \in b + 1 .. j :
            Fractional(t, i, b) /\ t[b + 1] = "e" /\ Signed(t, b + 1, k) /\ Natural(t, k, j)
    BY <1>2 DEF Shape
  <2>2. Power(t, b, j)
    BY <2>1 DEF Power
  <2> QED
    BY <2>1, <2>2, FractionalNumber
<1>3. ASSUME state = "after dot"
      PROVE  Unfinished(t, i, j) /\ t[j] \notin Digits
  BY <1>3 DEF Shape, Unfinished, Digits
<1>4. ASSUME NEW b \in i..j, Fractional(t, i, b), b < j, t[b + 1] = "e", Signed(t, b + 1, j)
      PROVE  Unfinished(t, i, j)
  <2>1. PICK a \in i..b : Integer(t, i, a) /\ Fraction(t, a, b)
    BY <1>4 DEF Fractional
  <2>2. a \in i..j /\ b \in a..j
    OBVIOUS
  <2> QED
    BY <1>4, <2>1, <2>2 DEF Unfinished
<1>5. ASSUME state = "after e"
      PROVE  Unfinished(t, i, j) /\ t[j] \notin Digits
  <2>1. PICK b \in i..j : Fractional(t, i, b) /\ j = b + 1 /\ t[j] = "e"
    BY <1>5 DEF Shape
  <2>2. Signed(t, b + 1, j) /\ b < j /\ t[b + 1] = "e"
    BY <2>1 DEF Signed
  <2> QED
    BY <1>4, <2>1, <2>2 DEF Digits
<1>6. ASSUME state = "after sign"
      PROVE  Unfinished(t, i, j) /\ t[j] \notin Digits
  <2>1. PICK b \in i..j : Fractional(t, i, b) /\ j = b + 2 /\ t[b + 1] = "e" /\ t[j] \in Signs
    BY <1>6 DEF Shape
  <2>2. Signed(t, b + 1, j) /\ b < j
    BY <2>1 DEF Signed, Signs
  <2> QED
    BY <1>4, <2>1, <2>2 DEF Digits, Signs
<1>7. t[j] \notin Digits => ~Number(t, i, j)
  BY NumberNumeric
<1>8. state \in {"after zero", "after one to nine", "after dot", "after digit", "after e", "after sign",
                 "after exponent"}
  BY DEF Shape
<1> QED
  BY <1>1, <1>2, <1>3, <1>5, <1>6, <1>7, <1>8 DEF BeginsNumber

\* The integer of a number that goes on with "." or "e" ends there.
LEMMA IntegerEnds ==
    ASSUME NEW t, NEW i \in Nat, NEW j \in Nat, NEW a \in Nat, NEW b \in Nat, NEW a1 \in Nat,
           Numeric(t, i, j, a, b), Integer(t, i, a1), a1 < j, t[a1 + 1] \in {".", "e"}
    PROVE  a = a1
<1>1. i < a /\ a <= b /\ b <= j /\ AllIn(t, i, a, Digits) /\ AllIn(t, i, a1, Digits) /\ i < a1
  BY DEF Numeric, Integer, Natural
<1>2. \A k \in {".", "e"} : k \notin Digits
  BY DEF Digits
<1>3. ASSUME a1 < a
      PROVE  FALSE
  <2>1. a1 + 1 \in i + 1 .. a
    BY <1>1, <1>3
  <2> QED
    BY <1>1, <1>2, <2>1 DEF AllIn
<1>4. ASSUME a < a1
      PROVE  FALSE
  <2>1. a + 1 \in i + 1 .. a1
    BY <1>1, <1>4
  <2>2. t[a + 1] \in Digits
    BY <1>1, <2>1 DEF AllIn
  <2>3. b = a /\ (j = b \/ t[b + 1] = "e")
    BY <1>2, <2>2 DEF Numeric
  <2> QED
    BY <1>2, <1>4, <2>2, <2>3
<1> QED
  BY <1>3, <1>4

\* The fraction ends before the first exponent mark.
LEMMA FractionEnds ==
    ASSUME NEW t, NEW i \in Nat, NEW j \in Nat, NEW a \in Nat, NEW b \in Nat, NEW b1 \in Nat,
           Numeric(t, i, j, a, b), Fractional(t, i, b1), b1 < j, t[b1 + 1] = "e"
    PROVE  b = b1
<1>1. PICK a1 \in i..b1 : Integer(t, i, a1) /\ Fraction(t, a1, b1)
  BY DEF Fractional
<1>2. b1 = a1 \/ (a1 + 1 < b1 /\ t[a1 + 1] = "." /\ AllIn(t, a1 + 1, b1, Digits))
  BY <1>1 DEF Fraction, Natural
<1>3. a1 \in Nat /\ a1 < j /\ t[a1 + 1] \in {".", "e"} /\ a1 <= b1
  BY <1>2
<1>4. a = a1
  BY <1>1, <1>3, IntegerEnds
<1>5. a <= b /\ b <= j
  BY DEF Numeric
<1>6. CASE b1 = a1
  BY <1>4, <1>6 DEF Numeric
<1>7. CASE b1 # a1
  <2>1. t[a + 1] = "." /\ a + 1 < b1 /\ AllIn(t, a + 1, b1, Digits)
    BY <1>2, <1>4, <1>7
  <2>2. b # a
    BY <1>5, <2>1 DEF Numeric
  <2>3. AllIn(t, a + 1, b, Digits) /\ a + 1 <= b
    BY <1>5, <2>2 DEF Numeric
  <2>4. ASSUME b1 < b
        PROVE  FALSE
    <3>1. t[b1 + 1] \in Digits
      BY <2>1, <2>3, <2>4 DEF AllIn
    <3> QED
      BY <3>1 DEF Digits
  <2>5. ASSUME b < b1
        PROVE  FALSE
    <3>1. t[b + 1] \in Digits
      BY <2>1, <2>3, <2>5 DEF AllIn
    <3>2. t[b + 1] = "e"
      BY <1>5, <2>5 DEF Numeric
    <3> QED
      BY <3>1, <3>2 DEF Digits
  <2> QED
    BY <2>4, <2>5
<1> QED
  BY <1>6, <1>7

Useless(state, x) ==
    /\ state # "after zero" => x \notin Digits
    /\ state \in {"after zero", "after one to nine"} => x # "."
    /\ state \in {"after zero", "after one to nine", "after digit"} => x # "e"
    /\ state = "after e" => x \notin Signs
LeadsTo(state, x, to) ==
    \/ state = "begin" /\ to = IF x = "0" THEN "after zero" ELSE "after one to nine"
    \/ state = "after one to nine" /\ x \in Digits /\ to = state
    \/ state \in {"after dot", "after digit"} /\ x \in Digits /\ to = "after digit"
    \/ state \in {"after e", "after sign", "after exponent"} /\ x \in Digits /\ to = "after exponent"
    \/ state \in {"after zero", "after one to nine"} /\ x = "." /\ to = "after dot"
    \/ state \in {"after zero", "after one to nine", "after digit"} /\ x = "e" /\ to = "after e"
    \/ state = "after e" /\ x \in Signs /\ to = "after sign"

\* A rune that a state has no use for does not go on with the number.
LEMMA NumberStops ==
    ASSUME NEW t, NEW i \in Nat, NEW j \in Nat, NEW state, Shape(t, state, i, j), state # "begin",
           Useless(state, t[j + 1])
    PROVE  ~BeginsNumber(t, i, j + 1)
<1> SUFFICES ASSUME BeginsNumber(t, i, j + 1)
             PROVE  FALSE
  OBVIOUS
<1> DEFINE x == t[j + 1]
<1>1. PICK a \in i..(j + 1) : \E b \in a..(j + 1) : Numeric(t, i, j + 1, a, b)
  BY BeginsNumeric
<1>2. PICK b \in a..(j + 1) : Numeric(t, i, j + 1, a, b)
  BY <1>1
<1>3. a \in Nat /\ b \in Nat
  OBVIOUS
<1>4. /\ i < a /\ a <= b /\ b <= j + 1
      /\ AllIn(t, i, a, Digits) /\ (t[i + 1] = "0" => a = i + 1)
      /\ b = a \/ (t[a + 1] = "." /\ AllIn(t, a + 1, b, Digits))
      /\ \/ j + 1 = b
         \/ /\ b # a + 1 /\ t[b + 1] = "e"
            /\ \/ AllIn(t, b + 1, j + 1, Digits)
               \/ b + 2 <= j + 1 /\ t[b + 2] \in Signs /\ AllIn(t, b + 2, j + 1, Digits)
  BY <1>2 DEF Numeric
<1>5. \A k \in Signs \cup {".", "e"} : k \notin Digits
  BY DEF Digits, Signs
<1>6. ASSUME state = "after zero"
      PROVE  FALSE
  <2>0. j = i + 1 /\ t[j] = "0"
    BY <1>6 DEF Shape
  <2>1. j = i + 1 /\ t[i + 1] = "0" /\ x # "." /\ x # "e"
    BY <1>6, <2>0 DEF Useless
  <2> QED
    BY <1>3, <1>4, <2>1
<1>7. ASSUME state = "after one to nine"
      PROVE  FALSE
  <2>1. i < j /\ AllIn(t, i, j, Digits) /\ x \notin Digits /\ x # "." /\ x # "e"
    BY <1>7 DEF Shape, Natural, Useless
  <2>2. a <= j
    BY <1>3, <1>4, <2>1 DEF AllIn
  <2>3. CASE a < j
    <3>1. t[a + 1] \in Digits
      BY <1>3, <1>4, <2>1, <2>3 DEF AllIn
    <3> QED
      BY <1>3, <1>4, <1>5, <2>3, <3>1
  <2> QED
    BY <1>3, <1>4, <2>1, <2>2, <2>3
<1>8. ASSUME state = "after dot"
      PROVE  FALSE
  <2>1. PICK d \in i..j : Integer(t, i, d) /\ j = d + 1 /\ t[j] = "."
    BY <1>8 DEF Shape
  <2>2. d \in Nat /\ d < j + 1 /\ t[d + 1] \in {".", "e"}
    BY <2>1
  <2>3. a = d
    BY <1>2, <1>3, <2>1, <2>2, IntegerEnds
  <2>4. x \notin Digits
    BY <1>8 DEF Useless
  <2>5. b # a
    BY <1>4, <2>1, <2>3
  <2>6. b # j + 1
    BY <1>3, <1>4, <2>1, <2>3, <2>4, <2>5 DEF AllIn
  <2> QED
    BY <1>3, <1>4, <2>1, <2>3, <2>5, <2>6
<1>9. ASSUME state = "after digit"
      PROVE  FALSE
  <2>1. PICK d \in i..j : Integer(t, i, d) /\ d < j /\ Fraction(t, d, j)
    BY <1>9 DEF Shape
  <2>2. d \in Nat /\ d + 1 < j /\ t[d + 1] = "." /\ AllIn(t, d + 1, j, Digits)
    BY <2>1 DEF Fraction, Natural
  <2>3. a = d
    BY <1>2, <1>3, <2>1, <2>2, IntegerEnds
  <2>4. x \notin Digits /\ x # "e"
    BY <1>9 DEF Useless
  <2>5. b # a
    BY <1>4, <2>2, <2>3
  <2>6. b # j + 1
    BY <1>3, <1>4, <2>2, <2>3, <2>4, <2>5 DEF AllIn
  <2>7. t[b + 1] = "e" /\ b > a
    BY <1>3, <1>4, <2>5, <2>6
  <2>8. b < j
    BY <1>3, <1>4, <2>4, <2>6, <2>7
  <2>9. t[b + 1] \in Digits
    BY <1>3, <2>2, <2>3, <2>7, <2>8 DEF AllIn
  <2> QED
    BY <1>5, <2>7, <2>9
<1>10. ASSUME state = "after e"
       PROVE  FALSE
  <2>1. PICK c \in i..j : Fractional(t, i, c) /\ j = c + 1 /\ t[j] = "e"
    BY <1>10 DEF Shape
  <2>2. c \in Nat /\ c < j + 1 /\ t[c + 1] = "e"
    BY <2>1
  <2>3. b = c
    BY <1>2, <1>3, <2>1, <2>2, FractionEnds
  <2>4. x \notin Digits /\ x \notin Signs
    BY <1>10 DEF Useless
  <2> QED
    BY <1>3, <1>4, <2>1, <2>3, <2>4 DEF AllIn
<1>11. ASSUME state = "after sign"
       PROVE  FALSE
  <2>1. PICK c \in i..j : Fractional(t, i, c) /\ j = c + 2 /\ t[c + 1] = "e" /\ t[j] \in Signs
    BY <1>11 DEF Shape
  <2>2. c \in Nat /\ c < j + 1
    BY <2>1
  <2>3. b = c
    BY <1>2, <1>3, <2>1, <2>2, FractionEnds
  <2>4. x \notin Digits
    BY <1>11 DEF Useless
  <2>5. ~AllIn(t, b + 1, j + 1, Digits)
    BY <1>5, <2>1, <2>3 DEF AllIn
  <2>6. ~AllIn(t, b + 2, j + 1, Digits)
    BY <2>1, <2>3, <2>4 DEF AllIn
  <2> QED
    BY <1>3, <1>4, <2>1, <2>3, <2>5, <2>6
<1>12. ASSUME state = "after exponent"
       PROVE  FALSE
  <2>1. PICK c \in i..j : \E k \in c + 1 .. j :
            Fractional(t, i, c) /\ t[c + 1] = "e" /\ Signed(t, c + 1, k) /\ Natural(t, k, j)
    BY <1>12 DEF Shape
  <2>2. c \in Nat /\ c + 1 < j /\ c < j + 1
    BY <2>1 DEF Natural
  <2>3. b = c
    BY <1>2, <1>3, <2>1, <2>2, FractionEnds
  <2>4. x \notin Digits
    BY <1>12 DEF Useless
  <2>5. ~AllIn(t, b + 1, j + 1, Digits) /\ ~AllIn(t, b + 2, j + 1, Digits)
    BY <2>2, <2>3, <2>4 DEF AllIn
  <2> QED
    BY <1>3, <1>4, <2>2, <2>3, <2>5
<1> QED
  BY <1>6, <1>7, <1>8, <1>9, <1>10, <1>11, <1>12 DEF Shape

\* The states a rune leads to.
LEMMA NumberGoes ==
    ASSUME NEW t, NEW i \in Nat, NEW j \in Nat, NEW state, NEW to, Scans(t, state, i, j), j < Len(t),
           LeadsTo(state, t[j + 1], to)
    PROVE  Scans(t, to, i, j + 1)
<1>0. Comes(t, i, Digits) /\ Shape(t, state, i, j) /\ t[i + 1] \in Digits
  BY DEF Scans, Comes
<1>1. j \in i..j + 1 /\ i <= j /\ j + 1 \in Nat
  BY <1>0, ShapeOrder
<1>2. Shape(t, to, i, j + 1)
  <2>1. ASSUME state = "begin", to = IF t[j + 1] = "0" THEN "after zero" ELSE "after one to nine"
        PROVE  Shape(t, to, i, j + 1)
    <3>1. j = i
      BY <2>1, <1>0 DEF Shape
    <3>2. CASE t[j + 1] = "0"
      BY <2>1, <3>1, <3>2 DEF Shape
    <3>3. CASE t[j + 1] # "0"
      <4>1. Natural(t, i, j + 1)
        BY <1>0, <3>1 DEF Natural, AllIn
      <4> QED
        BY <2>1, <3>1, <3>3, <4>1 DEF Shape
    <3> QED
      BY <3>2, <3>3
  <2>2. ASSUME state = "after one to nine", t[j + 1] \in Digits, to = state
        PROVE  Shape(t, to, i, j + 1)
    <3>1. Natural(t, i, j) /\ t[i + 1] # "0"
      BY <2>2, <1>0 DEF Shape
    <3>2. Natural(t, i, j + 1)
      <4>1. i < j /\ AllIn(t, i, j, Digits) /\ i <= j + 1
        BY <3>1 DEF Natural
      <4>2. AllIn(t, i, j + 1, Digits)
        BY <2>2, <4>1, AllInNext
      <4> QED
        BY <4>1, <4>2 DEF Natural
    <3> QED
      BY <2>2, <3>1, <3>2 DEF Shape
  <2>3. ASSUME state \in {"after dot", "after digit"}, t[j + 1] \in Digits, to = "after digit"
        PROVE  Shape(t, to, i, j + 1)
    <3>1. PICK a \in i..j : /\ Integer(t, i, a)
                            /\ \/ j = a + 1 /\ t[j] = "."
                               \/ a < j /\ Fraction(t, a, j)
      BY <2>3, <1>0 DEF Shape
    <3>2. a < j /\ t[a + 1] = "." /\ AllIn(t, a + 1, j, Digits)
      BY <3>1 DEF Fraction, Natural, AllIn
    <3>3. AllIn(t, a + 1, j + 1, Digits)
      <4>1. a + 1 \in Nat /\ a + 1 <= j + 1
        BY <3>2
      <4> QED
        BY <2>3, <3>2, <4>1, AllInNext
    <3>4. Fraction(t, a, j + 1) /\ a < j + 1 /\ a \in i..j + 1
      BY <3>2, <3>3 DEF Fraction, Natural
    <3> QED
      BY <2>3, <3>1, <3>4 DEF Shape
  <2>4. ASSUME state \in {"after e", "after sign", "after exponent"}, t[j + 1] \in Digits, to = "after exponent"
        PROVE  Shape(t, to, i, j + 1)
    <3>1. \E b \in i..j : \E k \in b + 1 .. j :
              Fractional(t, i, b) /\ t[b + 1] = "e" /\ Signed(t, b + 1, k) /\ AllIn(t, k, j, Digits)
      <4>1. CASE state = "after e"
        <5>1. PICK b \in i..j : Fractional(t, i, b) /\ j = b + 1 /\ t[j] = "e"
          BY <1>0, <4>1 DEF Shape
        <5>2. Signed(t, b + 1, j) /\ AllIn(t, j, j, Digits) /\ j \in b + 1 .. j
          BY <5>1 DEF Signed, AllIn
        <5> QED
          BY <5>1, <5>2
      <4>2. CASE state = "after sign"
        <5>1. PICK b \in i..j : Fractional(t, i, b) /\ j = b + 2 /\ t[b + 1] = "e" /\ t[j] \in Signs
          BY <1>0, <4>2 DEF Shape
        <5>2. Signed(t, b + 1, j) /\ AllIn(t, j, j, Digits) /\ j \in b + 1 .. j
          BY <5>1 DEF Signed, AllIn, Signs
        <5> QED
          BY <5>1, <5>2
      <4>3. CASE state = "after exponent"
        BY <1>0, <4>3 DEF Shape, Natural
      <4> QED
        BY <2>4, <4>1, <4>2, <4>3
    <3>2. PICK b \in i..j : \E k \in b + 1 .. j :
              Fractional(t, i, b) /\ t[b + 1] = "e" /\ Signed(t, b + 1, k) /\ AllIn(t, k, j, Digits)
      BY <3>1
    <3>3. PICK k \in b + 1 .. j :
              Fractional(t, i, b) /\ t[b + 1] = "e" /\ Signed(t, b + 1, k) /\ AllIn(t, k, j, Digits)
      BY <3>2
    <3>4. Natural(t, k, j + 1) /\ b \in i..j + 1 /\ k \in b + 1 .. j + 1
      <4>1. k \in Nat /\ b \in Nat /\ k <= j + 1 /\ k < j + 1
        OBVIOUS
      <4>2. AllIn(t, k, j + 1, Digits)
        BY <2>4, <3>3, <4>1, AllInNext
      <4> QED
        BY <4>1, <4>2 DEF Natural
    <3> QED
      BY <2>4, <3>3, <3>4 DEF Shape
  <2>5. ASSUME state \in {"after zero", "after one to nine"}, t[j + 1] = ".", to = "after dot"
        PROVE  Shape(t, to, i, j + 1)
    <3>1. Integer(t, i, j)
      BY <1>0, <2>5, ShapeFractional
    <3> QED
      BY <1>1, <2>5, <3>1 DEF Shape
  <2>6. ASSUME state \in {"after zero", "after one to nine", "after digit"}, t[j + 1] = "e", to = "after e"
        PROVE  Shape(t, to, i, j + 1)
    <3>1. Fractional(t, i, j)
      BY <1>0, <2>6, ShapeFractional
    <3> QED
      BY <1>1, <2>6, <3>1 DEF Shape
  <2>7. ASSUME state = "after e", t[j + 1] \in Signs, to = "after sign"
        PROVE  Shape(t, to, i, j + 1)
    <3>1. PICK b \in i..j : Fractional(t, i, b) /\ j = b + 1 /\ t[j] = "e"
      BY <1>0, <2>7 DEF Shape
    <3>2. b \in i..j + 1 /\ j + 1 = b + 2 /\ t[b + 1] = "e"
      BY <3>1
    <3> QED
      BY <2>7, <3>1, <3>2 DEF Shape
  <2> QED
    BY <2>1, <2>2, <2>3, <2>4, <2>5, <2>6, <2>7 DEF LeadsTo
<1>3. to # "begin"
  BY DEF LeadsTo
<1>4. BeginsNumber(t, i, j + 1)
  BY <1>1, <1>2, <1>3, ShapeBegins
<1>5. \A k \in i + 1 .. j + 1 : BeginsNumber(t, i, k)
  BY <1>4 DEF Scans
<1> QED
  BY <1>0, <1>2, <1>5 DEF Scans

\* Only the longest piece can be a number.
LEMMA LongestNumber ==
    ASSUME NEW t, NEW i \in Nat, NEW j \in Nat, Len(t) \in Nat, j <= Len(t), NEW state, Scans(t, state, i, j),
           state # "begin", j < Len(t) => ~BeginsNumber(t, i, j + 1)
    PROVE  /\ Longest(t, i, j)
           /\ \A k \in i..Len(t) : Longest(t, i, k) => k = j
<1>0. i <= j
  BY ShapeOrder DEF Scans
<1>1. Longest(t, i, j) /\ i <= j
  BY <1>0 DEF Longest, Scans
<1>2. ASSUME NEW k \in i..Len(t), Longest(t, i, k)
      PROVE  k = j
  <2>1. CASE k < j
    BY <2>1, <1>1, <1>2 DEF Longest
  <2>2. CASE j < k
    <3>1. j + 1 \in i + 1 .. k
      BY <1>1, <2>2
    <3> QED
      BY <3>1, <2>2, <1>2 DEF Longest
  <2> QED
    BY <2>1, <2>2
<1> QED
  BY <1>1, <1>2
----------------------------------------------------------------------------
(* Runs of one rune.                                                       *)
EvenRun(t, i, k, x) ==
    \E j \in i..k : AllIn(t, j, k, {x}) /\ (j > i => t[j] # x) /\ (k - j) % 2 = 0

\* A run of x that ends at rune k begins at one rune.
LEMMA RunBegins ==
    ASSUME NEW t, NEW i \in Nat, NEW k \in Nat, NEW x, NEW j1 \in i..k, NEW j2 \in i..k,
           AllIn(t, j1, k, {x}), j1 > i => t[j1] # x, AllIn(t, j2, k, {x}), j2 > i => t[j2] # x
    PROVE  j1 = j2
<1>1. ASSUME j1 < j2
      PROVE  FALSE
  <2>1. j2 \in j1 + 1 .. k /\ j2 > i
    BY <1>1
  <2> QED
    BY <2>1 DEF AllIn
<1>2. ASSUME j2 < j1
      PROVE  FALSE
  <2>1. j1 \in j2 + 1 .. k /\ j1 > i
    BY <1>2
  <2> QED
    BY <2>1 DEF AllIn
<1> QED
  BY <1>1, <1>2

\* A run is odd or even.
LEMMA NotBoth ==
    ASSUME NEW t, NEW i \in Nat, NEW k \in Nat, NEW x, EvenRun(t, i, k, x)
    PROVE  ~OddRun(t, i, k, x)
<1> SUFFICES ASSUME OddRun(t, i, k, x)
             PROVE  FALSE
  OBVIOUS
<1>1. PICK j1 \in i..k : AllIn(t, j1, k, {x}) /\ (j1 > i => t[j1] # x) /\ (k - j1) % 2 = 0
  BY DEF EvenRun
<1>2. PICK j2 \in i..k : AllIn(t, j2, k, {x}) /\ (j2 > i => t[j2] # x) /\ (k - j2) % 2 = 1
  BY DEF OddRun
<1>3. j1 = j2
  BY <1>1, <1>2, RunBegins
<1> QED
  BY <1>1, <1>2, <1>3

\* The next rune makes a run longer, or ends it.
LEMMA RunNext ==
    ASSUME NEW t, NEW i \in Nat, NEW k \in Nat, NEW x, i <= k
    PROVE  /\ t[k + 1] # x => EvenRun(t, i, k + 1, x)
           /\ t[k + 1] = x /\ EvenRun(t, i, k, x) => OddRun(t, i, k + 1, x)
           /\ t[k + 1] = x /\ OddRun(t, i, k, x) => EvenRun(t, i, k + 1, x)
<1>1. ASSUME t[k + 1] # x
      PROVE  EvenRun(t, i, k + 1, x)
  <2>1. k + 1 \in i..(k + 1) /\ (k + 1 - (k + 1)) % 2 = 0
    OBVIOUS
  <2>2. AllIn(t, k + 1, k + 1, {x})
    BY DEF AllIn
  <2> QED
    BY <1>1, <2>1, <2>2 DEF EvenRun
<1>2. ASSUME t[k + 1] = x, NEW j \in i..k, AllIn(t, j, k, {x}), j > i => t[j] # x
      PROVE  /\ j \in i..(k + 1) /\ AllIn(t, j, k + 1, {x})
             /\ (k - j) % 2 = 0 => (k + 1 - j) % 2 = 1
             /\ (k - j) % 2 = 1 => (k + 1 - j) % 2 = 0
  <2>1. j \in i..(k + 1) /\ j \in Nat /\ j <= k + 1
    OBVIOUS
  <2>2. AllIn(t, j, k + 1, {x})
    BY <1>2, <2>1, AllInNext
  <2>3. /\ (k - j) % 2 = 0 => (k + 1 - j) % 2 = 1
        /\ (k - j) % 2 = 1 => (k + 1 - j) % 2 = 0
    BY <2>1
  <2> QED
    BY <2>1, <2>2, <2>3
<1>3. ASSUME t[k + 1] = x, EvenRun(t, i, k, x)
      PROVE  OddRun(t, i, k + 1, x)
  <2>1. PICK j \in i..k : AllIn(t, j, k, {x}) /\ (j > i => t[j] # x) /\ (k - j) % 2 = 0
    BY <1>3 DEF EvenRun
  <2> QED
    BY <1>2, <1>3, <2>1 DEF OddRun
<1>4. ASSUME t[k + 1] = x, OddRun(t, i, k, x)
      PROVE  EvenRun(t, i, k + 1, x)
  <2>1. PICK j \in i..k : AllIn(t, j, k, {x}) /\ (j > i => t[j] # x) /\ (k - j) % 2 = 1
    BY <1>4 DEF OddRun
  <2>2. /\ j \in i..(k + 1) /\ AllIn(t, j, k + 1, {x}) /\ (k + 1 - j) % 2 = 0
    BY <1>2, <1>4, <2>1
  <2> QED
    BY <2>1, <2>2 DEF EvenRun
<1> QED
  BY <1>1, <1>3, <1>4

LEMMA NoRun ==
    ASSUME NEW t, NEW i \in Nat, NEW x
    PROVE  EvenRun(t, i, i, x)
<1>1. i \in i..i /\ (i - i) % 2 = 0
  OBVIOUS
<1>2. AllIn(t, i, i, {x})
  BY DEF AllIn
<1> QED
  BY <1>1, <1>2 DEF EvenRun

\* The next of the runes that are kept.
LEMMA KeepsNext ==
    ASSUME NEW t, NEW n \in Nat, NEW K \in SUBSET (1..n), NEW s \in Seq(Runes), Keeps(t, K, s),
           NEW k \in Nat, n < k, NEW x \in Runes, x = t[k]
    PROVE  Keeps(t, K \cup {k}, Append(s, x))
<1> DEFINE L == K \cup {k}
           u == Append(s, x)
<1>0. IsFiniteSet(1..n) /\ \A m \in K : m \in Nat /\ m < k
  BY FS_Interval
<1>1. IsFiniteSet(K) /\ k \notin K
  <2>1. IsFiniteSet(K)
    BY <1>0, FS_Subset
  <2> QED
    BY <1>0, <2>1
<1>2. IsFiniteSet(L) /\ Cardinality(L) = Cardinality(K) + 1 /\ Cardinality(K) \in Nat
  BY <1>1, FS_AddElement, FS_CardinalityType
<1>3. Len(s) = Cardinality(K) /\ Len(s) \in Nat /\ Len(u) = Len(s) + 1 /\ u[Len(s) + 1] = x
      /\ \A m \in 1..Len(s) : u[m] = s[m]
  BY AppendProperties, LenProperties DEF Keeps
<1>4. ASSUME NEW m \in L
      PROVE  u[Cardinality({q \in L : q <= m})] = t[m]
  <2>1. CASE m = k
    <3>0. \A q \in L : q <= m
      BY <1>0, <2>1
    <3>1. {q \in L : q <= m} = L
      BY <3>0
    <3> HIDE DEF L, u
    <3> QED
      BY <1>2, <1>3, <2>1, <3>1
  <2>2. CASE m # k
    <3>1. m \in K /\ {q \in L : q <= m} = {q \in K : q <= m}
      BY <1>0, <2>2
    <3> DEFINE C == {q \in K : q <= m}
    <3>2. IsFiniteSet(C) /\ Cardinality(C) <= Cardinality(K) /\ Cardinality(C) \in Nat
      BY <1>1, FS_Subset, FS_CardinalityType
    <3>3. C # {}
      BY <3>1
    <3>4. Cardinality(C) # 0
      BY <3>2, <3>3, FS_EmptySet
    <3>5. s[Cardinality(C)] = t[m]
      BY <3>1 DEF Keeps
    <3> HIDE DEF L, u, C
    <3>6. Cardinality(C) \in 1..Len(s)
      BY <1>2, <1>3, <3>2, <3>4
    <3>7. {q \in L : q <= m} = C
      BY <3>1 DEF C
    <3> QED
      BY <1>3, <3>5, <3>6, <3>7
  <2> QED
    BY <2>1, <2>2
<1>5. Len(u) = Cardinality(L)
  BY <1>2, <1>3
<1> QED
  BY <1>4, <1>5 DEF Keeps

LEMMA KeepsNone ==
    ASSUME NEW t
    PROVE  Keeps(t, {}, <<>>)
BY FS_EmptySet DEF Keeps

----------------------------------------------------------------------------
(* Strings.                                                                *)

\* A string that rune i + 1 opens has not ended up to rune j, and rune j is no
\* backslash that escapes.
Inside(t, i, j) ==
    /\ Comes(t, i, Quotes) /\ i + 1 <= j
    /\ j < Len(t) => EvenRun(t, i + 1, j, "\\")
    /\ \A k \in StringEnds(t, i) : j < k

\* A string is read up to the quote that no backslash escapes.
LEMMA StringOpens ==
    ASSUME NEW t, NEW i \in Nat, Len(t) \in Nat, Comes(t, i, Quotes)
    PROVE  Inside(t, i, i + 1)
<1>1. EvenRun(t, i + 1, i + 1, "\\")
  BY NoRun
<1>2. \A k \in StringEnds(t, i) : i + 1 < k
  BY DEF StringEnds
<1> QED
  BY <1>1, <1>2 DEF Inside

\* A backslash and the rune after it are read together.
LEMMA StringNext ==
    ASSUME NEW t, NEW i \in Nat, NEW j \in Nat, Len(t) \in Nat, Inside(t, i, j), j < Len(t),
           t[j + 1] # t[i + 1]
    PROVE  /\ t[j + 1] # "\\" => Inside(t, i, j + 1)
           /\ t[j + 1] = "\\" /\ j + 1 < Len(t) => Inside(t, i, j + 2)
           /\ t[j + 1] = "\\" /\ j + 1 = Len(t) => Inside(t, i, j + 1)
<1>1. /\ Comes(t, i, Quotes) /\ i + 1 <= j /\ EvenRun(t, i + 1, j, "\\") /\ i + 1 \in Nat
      /\ \A k \in StringEnds(t, i) : j < k
  BY DEF Inside
<1>2. \A k \in StringEnds(t, i) : k \in Nat /\ j + 1 < k
  BY <1>1 DEF StringEnds
<1>3. ASSUME t[j + 1] # "\\"
      PROVE  Inside(t, i, j + 1)
  <2>1. EvenRun(t, i + 1, j + 1, "\\")
    BY <1>1, <1>3, RunNext
  <2> QED
    BY <1>1, <1>2, <2>1 DEF Inside
<1>4. ASSUME t[j + 1] = "\\", j + 1 < Len(t)
      PROVE  Inside(t, i, j + 2)
  <2>1. OddRun(t, i + 1, j + 1, "\\")
    BY <1>1, <1>4, RunNext
  <2>2. EvenRun(t, i + 1, j + 1 + 1, "\\")
    <3>1. j + 1 \in Nat /\ i + 1 <= j + 1
      BY <1>1
    <3> QED
      BY <1>1, <2>1, <3>1, RunNext
  <2>3. j + 2 \notin StringEnds(t, i)
    <3>1. j + 2 - 1 = j + 1
      OBVIOUS
    <3> QED
      BY <2>1, <3>1 DEF StringEnds
  <2>4. \A k \in StringEnds(t, i) : j + 2 < k
    BY <1>2, <2>3
  <2> QED
    BY <1>1, <2>2, <2>4 DEF Inside
<1>5. ASSUME j + 1 = Len(t)
      PROVE  Inside(t, i, j + 1)
  BY <1>1, <1>2, <1>5 DEF Inside
<1> QED
  BY <1>3, <1>4, <1>5

\* A quote met there ends the string.
LEMMA StringCloses ==
    ASSUME NEW t, NEW i \in Nat, NEW j \in Nat, Len(t) \in Nat, Inside(t, i, j), j < Len(t),
           t[j + 1] = t[i + 1]
    PROVE  IsFirst(j + 1, StringEnds(t, i))
<1>1. /\ i + 1 <= j /\ EvenRun(t, i + 1, j, "\\") /\ i + 1 \in Nat
      /\ \A k \in StringEnds(t, i) : j < k
  BY DEF Inside
<1>2. ~OddRun(t, i + 1, j, "\\")
  BY <1>1, NotBoth
<1>3. j + 1 - 1 = j /\ j + 1 \in i + 2 .. Len(t)
  BY <1>1
<1>4. j + 1 \in StringEnds(t, i)
  BY <1>2, <1>3 DEF StringEnds
<1>5. \A k \in StringEnds(t, i) : k \in Nat
  BY DEF StringEnds
<1> QED
  BY <1>1, <1>4, <1>5 DEF IsFirst

\* Verbatim strings, whose data is what was read but for every second quote.
InVerbatim(t, i, j, s) ==
    /\ Comes(t, i, {"@"}) /\ Comes(t, i + 1, Quotes) /\ i + 2 <= j
    /\ EvenRun(t, i + 2, j, t[i + 2])
    /\ \A k \in VerbatimEnds(t, i) : j < k
    /\ Keeps(t, Undoubled(t, i, j), s)

\* A verbatim string is read up to a quote that is not doubled.
LEMMA VerbatimOpens ==
    ASSUME NEW t, NEW i \in Nat, Len(t) \in Nat, Comes(t, i, {"@"}), Comes(t, i + 1, Quotes)
    PROVE  InVerbatim(t, i, i + 2, <<>>)
<1>1. EvenRun(t, i + 2, i + 2, t[i + 2])
  BY NoRun
<1>2. \A k \in VerbatimEnds(t, i) : i + 2 < k
  BY DEF VerbatimEnds
<1>3. Undoubled(t, i, i + 2) = {}
  BY DEF Undoubled
<1>4. Keeps(t, Undoubled(t, i, i + 2), <<>>)
  BY <1>3, KeepsNone
<1> QED
  BY <1>1, <1>2, <1>4 DEF InVerbatim

\* Of a doubled quote one is kept.
LEMMA VerbatimNext ==
    ASSUME NEW t \in Seq(Runes), NEW i \in Nat, NEW j \in Nat, NEW s \in Seq(Runes), InVerbatim(t, i, j, s), j < Len(t)
    PROVE  /\ t[j + 1] # t[i + 2] => InVerbatim(t, i, j + 1, Append(s, t[j + 1]))
           /\ t[j + 1] = t[i + 2] /\ Comes(t, j + 1, {t[i + 2]}) => InVerbatim(t, i, j + 2, Append(s, t[j + 1]))
           /\ t[j + 1] = t[i + 2] /\ ~Comes(t, j + 1, {t[i + 2]}) => IsFirst(j + 1, VerbatimEnds(t, i))
<1> DEFINE q == t[i + 2]
<1>1. /\ Comes(t, i, {"@"}) /\ Comes(t, i + 1, Quotes) /\ i + 2 <= j /\ EvenRun(t, i + 2, j, q)
      /\ \A k \in VerbatimEnds(t, i) : j < k
      /\ Keeps(t, Undoubled(t, i, j), s)
  BY DEF InVerbatim
<1>2. Len(t) \in Nat /\ i + 2 \in Nat /\ j + 1 \in i + 3 .. Len(t) /\ t[j + 1] \in Runes /\ j + 1 \in Nat
  BY <1>1, LenProperties, ElementOfSeq
<1>3. \A k \in VerbatimEnds(t, i) : k \in Nat /\ j < k
  BY <1>1 DEF VerbatimEnds
<1>4. Undoubled(t, i, j) \in SUBSET (1..j)
  BY DEF Undoubled
<1>5. Keeps(t, Undoubled(t, i, j) \cup {j + 1}, Append(s, t[j + 1]))
  <2> DEFINE K == Undoubled(t, i, j)
             k == j + 1
             x == t[j + 1]
  <2>1. K \in SUBSET (1..j) /\ Keeps(t, K, s) /\ k \in Nat /\ j < k /\ x \in Runes /\ x = t[k]
    BY <1>1, <1>2, <1>4
  <2> HIDE DEF K, k, x
  <2>2. Keeps(t, K \cup {k}, Append(s, x))
    BY <2>1, KeepsNext
  <2> QED
    BY <2>2 DEF K, k, x
<1>6. ASSUME t[j + 1] # q
      PROVE  InVerbatim(t, i, j + 1, Append(s, t[j + 1]))
  <2>1. EvenRun(t, i + 2, j + 1, q)
    BY <1>1, <1>2, <1>6, RunNext
  <2>2. ~OddRun(t, i + 2, j + 1, q)
    BY <1>2, <2>1, NotBoth
  <2>3. \A k \in VerbatimEnds(t, i) : j + 1 < k
    BY <1>3, <2>2 DEF VerbatimEnds
  <2>4. Undoubled(t, i, j + 1) = Undoubled(t, i, j) \cup {j + 1}
    BY <1>2, <1>6 DEF Undoubled
  <2> QED
    <3>1. i + 2 <= j + 1
      BY <1>1
    <3>2. Keeps(t, Undoubled(t, i, j + 1), Append(s, t[j + 1]))
      BY <1>5, <2>4
    <3> QED
      BY <1>1, <2>1, <2>3, <3>1, <3>2 DEF InVerbatim
<1>7. ASSUME t[j + 1] = q
      PROVE  OddRun(t, i + 2, j + 1, q)
  BY <1>1, <1>2, <1>7, RunNext
<1>8. ASSUME t[j + 1] = q, Comes(t, j + 1, {q})
      PROVE  InVerbatim(t, i, j + 2, Append(s, t[j + 1]))
  <2>0. j + 1 < Len(t) /\ t[j + 1 + 1] = q /\ i + 2 <= j + 1
    BY <1>1, <1>8 DEF Comes
  <2>1. EvenRun(t, i + 2, j + 1 + 1, q)
    BY <1>2, <1>7, <1>8, <2>0, RunNext
  <2>2. EvenRun(t, i + 2, j + 2, q) /\ j + 1 + 1 = j + 2 /\ t[j + 2] = q
    BY <2>0, <2>1
  <2>3. ~OddRun(t, i + 2, j + 2, q)
    BY <1>2, <2>2, NotBoth
  <2>4. j + 1 \notin VerbatimEnds(t, i) /\ j + 2 \notin VerbatimEnds(t, i)
    BY <1>8, <2>3 DEF VerbatimEnds
  <2>5. \A k \in VerbatimEnds(t, i) : j + 2 < k
    BY <1>3, <2>4
  <2>6. Undoubled(t, i, j + 2) = Undoubled(t, i, j) \cup {j + 1}
    <3>1. \A k \in i + 3 .. j + 2 : k \in i + 3 .. j \/ k = j + 1 \/ k = j + 2
      OBVIOUS
    <3>2. j + 1 \in i + 3 .. j + 2 /\ \A k \in i + 3 .. j : k \in i + 3 .. j + 2
      BY <1>2
    <3> QED
      BY <1>7, <1>8, <2>2, <2>3, <3>1, <3>2 DEF Undoubled
  <2> QED
    <3>1. i + 2 <= j + 2
      BY <1>1
    <3>2. Keeps(t, Undoubled(t, i, j + 2), Append(s, t[j + 1]))
      BY <1>5, <2>6
    <3> QED
      BY <1>1, <2>2, <2>5, <3>1, <3>2 DEF InVerbatim
<1>9. ASSUME t[j + 1] = q, ~Comes(t, j + 1, {q})
      PROVE  IsFirst(j + 1, VerbatimEnds(t, i))
  <2>1. j + 1 \in VerbatimEnds(t, i)
    BY <1>2, <1>7, <1>9 DEF VerbatimEnds
  <2> QED
    BY <1>2, <1>3, <2>1 DEF IsFirst
<1> QED
  BY <1>6, <1>8, <1>9

----------------------------------------------------------------------------
(* Comments and operators.                                                 *)

\* The runes of a short prefix.
LEMMA SpellsPair ==
    ASSUME NEW t, NEW i \in Nat, NEW x, NEW y, Len(t) \in Nat
    PROVE  Spells(t, i, <<x, y>>) <=> i + 2 <= Len(t) /\ t[i + 1] = x /\ t[i + 2] = y
BY DEF Spells

LEMMA SpellsThree ==
    ASSUME NEW t, NEW i \in Nat, NEW x, NEW y, NEW z, Len(t) \in Nat
    PROVE  Spells(t, i, <<x, y, z>>) <=> i + 3 <= Len(t) /\ t[i + 1] = x /\ t[i + 2] = y /\ t[i + 3] = z
BY DEF Spells

InComment(t, i, j) ==
    Spells(t, i, <<"/", "*">>) /\ i + 2 <= j /\ \A k \in CommentEnds(t, i) : j + 1 < k

\* A comment ends at the first asterisk and slash, or goes on.
LEMMA CommentNext ==
    ASSUME NEW t, NEW i \in Nat, NEW j \in Nat, Len(t) \in Nat, InComment(t, i, j)
    PROVE  /\ Spells(t, j, <<"*", "/">>) => IsFirst(j + 2, CommentEnds(t, i))
           /\ ~Spells(t, j, <<"*", "/">>) => InComment(t, i, j + 1)
<1>1. Spells(t, i, <<"/", "*">>) /\ i + 2 <= j /\ \A k \in CommentEnds(t, i) : j + 1 < k
  BY DEF InComment
<1>2. \A k \in CommentEnds(t, i) : k \in Nat /\ j + 2 <= k
  BY <1>1 DEF CommentEnds
<1>3. j + 2 - 2 = j
  OBVIOUS
<1>4. ASSUME Spells(t, j, <<"*", "/">>)
      PROVE  IsFirst(j + 2, CommentEnds(t, i))
  <2>1. j + 2 <= Len(t)
    BY <1>4, SpellsPair
  <2>2. j + 2 \in i + 4 .. Len(t)
    BY <1>1, <2>1
  <2>3. j + 2 \in CommentEnds(t, i)
    BY <1>3, <1>4, <2>2 DEF CommentEnds
  <2> QED
    BY <1>2, <2>3 DEF IsFirst
<1>5. ASSUME ~Spells(t, j, <<"*", "/">>)
      PROVE  InComment(t, i, j + 1)
  <2>1. j + 2 \notin CommentEnds(t, i)
    BY <1>3, <1>5 DEF CommentEnds
  <2>2. \A k \in CommentEnds(t, i) : j + 2 < k
    BY <1>2, <2>1
  <2>3. i + 2 <= j + 1 /\ j + 1 + 1 = j + 2
    BY <1>1
  <2> QED
    BY <1>1, <2>2, <2>3 DEF InComment
<1> QED
  BY <1>4, <1>5

InOperator(t, i, j) ==
    Comes(t, i, Symbols) /\ ~Cut(t, i) /\ i + 1 <= j /\ \A k \in OperatorEnds(t, i) : j <= k

\* An operator ends at the first cut, or goes on.
LEMMA OperatorNext ==
    ASSUME NEW t, NEW i \in Nat, NEW j \in Nat, Len(t) \in Nat, InOperator(t, i, j), j <= Len(t)
    PROVE  /\ Cut(t, j) \/ ~Comes(t, j, Symbols) => IsFirst(j, OperatorEnds(t, i))
           /\ ~(Cut(t, j) \/ ~Comes(t, j, Symbols)) => InOperator(t, i, j + 1)
<1>1. Comes(t, i, Symbols) /\ ~Cut(t, i) /\ i + 1 <= j /\ \A k \in OperatorEnds(t, i) : j <= k
  BY DEF InOperator
<1>2. j \in OperatorEnds(t, i) <=> Cut(t, j) \/ ~Comes(t, j, Symbols)
  BY <1>1 DEF OperatorEnds
<1>3. \A k \in OperatorEnds(t, i) : k \in Nat
  BY DEF OperatorEnds
<1>4. ASSUME j \notin OperatorEnds(t, i)
      PROVE  InOperator(t, i, j + 1)
  <2>1. \A k \in OperatorEnds(t, i) : j + 1 <= k
    BY <1>1, <1>3, <1>4
  <2> QED
    BY <1>1, <2>1 DEF InOperator
<1>5. ASSUME j \in OperatorEnds(t, i)
      PROVE  IsFirst(j, OperatorEnds(t, i))
  BY <1>1, <1>5 DEF IsFirst
<1> QED
  BY <1>2, <1>4, <1>5

\* A run ends at one rune.
LEMMA RunUnique ==
    ASSUME NEW t, NEW i \in Nat, NEW S, Len(t) \in Nat, NEW j \in 0..Len(t), NEW k \in 0..Len(t),
           Run(t, i, j, S), Run(t, i, k, S)
    PROVE  j = k
<1>1. ASSUME NEW a \in 0..Len(t), NEW b \in 0..Len(t), Run(t, i, a, S), Run(t, i, b, S), a < b
      PROVE  FALSE
  <2>1. a + 1 \in i + 1 .. b
    BY <1>1 DEF Run
  <2>2. t[a + 1] \in S
    BY <1>1, <2>1 DEF Run, AllIn
  <2> QED
    BY <1>1, <2>2 DEF Run, Comes
<1> QED
  BY <1>1
----------------------------------------------------------------------------
(* Text blocks.                                                            *)

InHeader(t, i, j) == Spells(t, i, <<"|", "|", "|">>) /\ i + 3 <= j /\ AllIn(t, i + 3, j, Blanks)

\* A text block has one header, if any.
LEMMA HeaderUnique ==
    ASSUME NEW t, NEW i \in Nat, Len(t) \in Nat, NEW h \in Headers(t, i), NEW k \in Headers(t, i)
    PROVE  h = k
<1>1. /\ h \in Nat /\ k \in Nat /\ h - 1 \in 0..Len(t) /\ k - 1 \in 0..Len(t)
      /\ Run(t, i + 3, h - 1, Blanks) /\ Run(t, i + 3, k - 1, Blanks)
  BY DEF Headers
<1>2. h - 1 = k - 1
  BY <1>1, RunUnique
<1> QED
  BY <1>1, <1>2

\* The blanks after the bars end in a newline, or there is no header.
LEMMA HeaderEnds ==
    ASSUME NEW t, NEW i \in Nat, NEW j \in Nat, Len(t) \in Nat, InHeader(t, i, j), j <= Len(t)
    PROVE  /\ Comes(t, j, {"newline"}) => j + 1 \in Headers(t, i)
           /\ ~Comes(t, j, {"newline"}) /\ ~Comes(t, j, Blanks) => Headers(t, i) = {}
<1>1. i + 3 <= j /\ AllIn(t, i + 3, j, Blanks) /\ i + 3 \in Nat /\ j + 1 - 1 = j
  BY DEF InHeader
<1>2. "newline" \notin Blanks
  BY DEF Blanks, Indents
<1>3. ~Comes(t, j, Blanks) => Run(t, i + 3, j, Blanks)
  BY <1>1 DEF Run
<1>4. ASSUME Comes(t, j, {"newline"})
      PROVE  j + 1 \in Headers(t, i)
  <2>1. ~Comes(t, j, Blanks) /\ j < Len(t)
    BY <1>2, <1>4 DEF Comes
  <2>2. j + 1 \in i + 4 .. Len(t)
    BY <1>1, <2>1
  <2> QED
    BY <1>1, <1>3, <1>4, <2>1, <2>2 DEF Headers
<1>5. ASSUME ~Comes(t, j, {"newline"}), ~Comes(t, j, Blanks), NEW h \in Headers(t, i)
      PROVE  FALSE
  <2>1. h - 1 \in 0..Len(t) /\ Run(t, i + 3, h - 1, Blanks) /\ Comes(t, h - 1, {"newline"})
    BY DEF Headers
  <2>2. j \in 0..Len(t)
    OBVIOUS
  <2>3. h - 1 = j
    BY <1>1, <1>3, <1>5, <2>1, <2>2, RunUnique
  <2> QED
    BY <1>5, <2>1, <2>3
<1> QED
  BY <1>4, <1>5

\* Empty lines after the header.
InFirst(t, h, j, s) ==
    h <= j /\ AllIn(t, h, j, {"newline"}) /\ Keeps(t, h + 1 .. j, s)

\* A margin is one or more blanks, after the empty lines.
LEMMA MarginTyped ==
    ASSUME NEW t \in Seq(Runes), NEW h \in Nat, NEW m \in Margins(t, h)
    PROVE  /\ m \in Seq(Indents) /\ Len(m) \in Nat /\ Len(m) > 0
           /\ \A k \in 1..Len(m) : m[k] \in Indents /\ m[k] # "newline"
<1>1. PICK k \in FirstLines(t, h) : m \in {SubSeq(t, k + 1, j) : j \in MarginEnds(t, k)}
  BY DEF Margins
<1>2. PICK j \in MarginEnds(t, k) : m = SubSeq(t, k + 1, j)
  BY <1>1
<1>3. k \in Nat /\ j \in Nat /\ k < j /\ j <= Len(t) /\ Len(t) \in Nat /\ AllIn(t, k, j, Indents)
  BY LenProperties DEF FirstLines, MarginEnds, Run
<1>4. \A n \in k + 1 .. j : t[n] \in Indents
  BY <1>3 DEF AllIn
<1>5. k + 1 \in Nat \ {0} /\ j \in Nat
  BY <1>3
<1>6. m \in Seq(Indents) /\ Len(m) = j - (k + 1) + 1
  BY <1>2, <1>3, <1>4, <1>5, SubSeqProperties
<1>7. Len(m) > 0 /\ Len(m) \in Nat
  BY <1>3, <1>6
<1>8. \A n \in 1..Len(m) : m[n] \in Indents
  BY <1>6, ElementOfSeq
<1>9. "newline" \notin Indents
  BY DEF Indents
<1> QED
  BY <1>6, <1>7, <1>8, <1>9

\* Where the first line that is not empty begins, the blanks are the margin.
LEMMA MarginUnique ==
    ASSUME NEW t \in Seq(Runes), NEW h \in Nat, NEW j \in Nat, h <= j, j <= Len(t),
           AllIn(t, h, j, {"newline"}), ~Comes(t, j, {"newline"})
    PROVE  /\ \A e \in j + 1 .. Len(t) : Run(t, j, e, Indents) => Margins(t, h) = {SubSeq(t, j + 1, e)}
           /\ ~Comes(t, j, Indents) => Margins(t, h) = {}
<1>0. Len(t) \in Nat
  BY LenProperties
<1>1. Run(t, h, j, {"newline"}) /\ j \in FirstLines(t, h)
  BY <1>0 DEF Run, FirstLines
<1>2. ASSUME NEW k \in FirstLines(t, h)
      PROVE  k = j
  <2>1. k \in 0..Len(t) /\ Run(t, h, k, {"newline"}) /\ j \in 0..Len(t)
    BY <1>0 DEF FirstLines
  <2> QED
    BY <1>0, <1>1, <2>1, RunUnique
<1>3. Margins(t, h) = {SubSeq(t, j + 1, e) : e \in MarginEnds(t, j)}
  BY <1>1, <1>2 DEF Margins
<1>4. ASSUME NEW e \in j + 1 .. Len(t), Run(t, j, e, Indents)
      PROVE  MarginEnds(t, j) = {e}
  <2>1. ASSUME NEW k \in MarginEnds(t, j)
        PROVE  k = e
    <3>1. k \in 0..Len(t) /\ Run(t, j, k, Indents) /\ e \in 0..Len(t)
      BY <1>0 DEF MarginEnds
    <3> QED
      BY <1>0, <1>4, <3>1, RunUnique
  <2> QED
    BY <1>4, <2>1 DEF MarginEnds
<1>5. ASSUME ~Comes(t, j, Indents), NEW k \in MarginEnds(t, j)
      PROVE  FALSE
  <2>1. k \in j + 1 .. Len(t) /\ AllIn(t, j, k, Indents)
    BY DEF MarginEnds, Run
  <2>2. t[j + 1] \in Indents /\ j < Len(t)
    BY <1>0, <2>1 DEF AllIn
  <2> QED
    BY <1>5, <2>2 DEF Comes
<1>6. ASSUME NEW e \in j + 1 .. Len(t), Run(t, j, e, Indents)
      PROVE  Margins(t, h) = {SubSeq(t, j + 1, e)}
  BY <1>3, <1>4, <1>6
<1>7. ~Comes(t, j, Indents) => Margins(t, h) = {}
  BY <1>3, <1>5
<1> QED
  BY <1>6, <1>7

\* The lines that begin before rune j belong to the block and their margins have been
\* read.
MarginsRead(t, h, m, j) ==
    \A l \in Lines(t, h) : l < j => \/ Comes(t, l, {"newline"})
                                    \/ Spells(t, l, m) /\ l + Len(m) <= j

\* What has been read of the lines after the header.
Body(t, h, m, j, s) ==
    h <= j /\ j <= Len(t) /\ MarginsRead(t, h, m, j) /\ Keeps(t, Unindented(t, h, m, j), s)

\* A rune of a line, or the newline that ends it, is kept.
LEMMA LineRead ==
    ASSUME NEW t \in Seq(Runes), NEW h \in Nat, NEW m, NEW j \in Nat, NEW s \in Seq(Runes), Len(m) \in Nat,
           Body(t, h, m, j, s), j < Len(t), j \notin Lines(t, h) \/ t[j + 1] = "newline"
    PROVE  /\ Body(t, h, m, j + 1, Append(s, t[j + 1]))
           /\ j + 1 \in Lines(t, h) <=> t[j + 1] = "newline"
<1>1. h <= j /\ MarginsRead(t, h, m, j) /\ Keeps(t, Unindented(t, h, m, j), s)
  BY DEF Body
<1>2. Len(t) \in Nat /\ j + 1 \in h..Len(t) /\ j + 1 # h /\ t[j + 1] \in Runes /\ j + 1 \in Nat
  BY <1>1, LenProperties, ElementOfSeq
<1>3. j + 1 \in Lines(t, h) <=> t[j + 1] = "newline"
  BY <1>2 DEF Lines
<1>4. ASSUME NEW l \in Lines(t, h), l < j + 1, ~Comes(t, l, {"newline"})
      PROVE  Spells(t, l, m) /\ l + Len(m) <= j
  <2>1. l \in Nat
    BY DEF Lines
  <2>2. l # j
    BY <1>4 DEF Comes
  <2> QED
    BY <1>1, <1>4, <2>1, <2>2 DEF MarginsRead
<1>5. MarginsRead(t, h, m, j + 1)
  <2> SUFFICES ASSUME NEW l \in Lines(t, h), l < j + 1, ~Comes(t, l, {"newline"})
               PROVE  Spells(t, l, m) /\ l + Len(m) <= j + 1
    BY DEF MarginsRead
  <2>1. l \in Nat
    BY DEF Lines
  <2> QED
    BY <1>4, <2>1
<1>6. ~InMargin(t, h, m, j + 1)
  <2> SUFFICES ASSUME NEW l \in Lines(t, h), ~Comes(t, l, {"newline"}), l < j + 1, j + 1 <= l + Len(m)
               PROVE  FALSE
    BY DEF InMargin
  <2>1. l \in Nat
    BY DEF Lines
  <2> QED
    BY <1>4, <2>1
<1>7. Unindented(t, h, m, j + 1) = Unindented(t, h, m, j) \cup {j + 1}
  <2>1. \A k \in h + 1 .. j + 1 : k \in h + 1 .. j \/ k = j + 1
    OBVIOUS
  <2>2. j + 1 \in h + 1 .. j + 1 /\ \A k \in h + 1 .. j : k \in h + 1 .. j + 1
    BY <1>1
  <2> QED
    BY <1>6, <2>1, <2>2 DEF Unindented
<1>8. Keeps(t, Unindented(t, h, m, j) \cup {j + 1}, Append(s, t[j + 1]))
  <2> DEFINE K == Unindented(t, h, m, j)
             k == j + 1
             x == t[j + 1]
  <2>1. K \in SUBSET (1..j) /\ Keeps(t, K, s) /\ k \in Nat /\ j < k /\ x \in Runes /\ x = t[k]
    BY <1>1, <1>2 DEF Unindented
  <2> HIDE DEF K, k, x
  <2>2. Keeps(t, K \cup {k}, Append(s, x))
    BY <2>1, KeepsNext
  <2> QED
    BY <2>2 DEF K, k, x
<1>9. Keeps(t, Unindented(t, h, m, j + 1), Append(s, t[j + 1]))
  BY <1>7, <1>8
<1>10. h <= j + 1 /\ j + 1 <= Len(t)
  BY <1>1, <1>2
<1> QED
  BY <1>3, <1>5, <1>9, <1>10 DEF Body

\* The margin of a line is not.
LEMMA MarginRead ==
    ASSUME NEW t \in Seq(Runes), NEW h \in Nat, NEW m, NEW j \in Nat, NEW s, Len(m) \in Nat, Len(m) > 0,
           \A k \in 1..Len(m) : m[k] # "newline",
           Body(t, h, m, j, s), j \in Lines(t, h), Spells(t, j, m)
    PROVE  Body(t, h, m, j + Len(m), s) /\ j + Len(m) \notin Lines(t, h)
<1> DEFINE L == Len(m)
<1>1. h <= j /\ MarginsRead(t, h, m, j) /\ Keeps(t, Unindented(t, h, m, j), s)
  BY DEF Body
<1>2. Len(t) \in Nat /\ j + L <= Len(t) /\ \A k \in 1..L : t[j + k] = m[k]
  BY LenProperties DEF Spells
<1>3. \A k \in j + 1 .. j + L : k \notin Lines(t, h)
  <2> SUFFICES ASSUME NEW k \in j + 1 .. j + L
               PROVE  k \notin Lines(t, h)
    OBVIOUS
  <2>1. k - j \in 1..L /\ j + (k - j) = k /\ k # h
    BY <1>1
  <2>2. t[k] # "newline"
    BY <1>2, <2>1
  <2> QED
    BY <2>1, <2>2 DEF Lines
<1>4. ~Comes(t, j, {"newline"})
  <2>1. t[j + 1] = m[1] /\ 1 \in 1..L
    BY <1>2
  <2> QED
    BY <2>1 DEF Comes
<1>5. MarginsRead(t, h, m, j + L)
  <2> SUFFICES ASSUME NEW l \in Lines(t, h), l < j + L, ~Comes(t, l, {"newline"})
               PROVE  Spells(t, l, m) /\ l + L <= j + L
    BY DEF MarginsRead
  <2>1. l \in Nat
    BY DEF Lines
  <2>2. l <= j
    BY <1>3, <2>1
  <2>3. CASE l < j
    BY <1>1, <2>1, <2>3 DEF MarginsRead
  <2>4. CASE l = j
    BY <2>4
  <2> QED
    BY <2>1, <2>2, <2>3, <2>4
<1>6. \A k \in j + 1 .. j + L : InMargin(t, h, m, k)
  BY <1>4 DEF InMargin
<1>7. Unindented(t, h, m, j + L) = Unindented(t, h, m, j)
  <2>1. \A k \in h + 1 .. j + L : k \in h + 1 .. j \/ k \in j + 1 .. j + L
    OBVIOUS
  <2>2. \A k \in h + 1 .. j : k \in h + 1 .. j + L
    OBVIOUS
  <2> QED
    BY <1>6, <2>1, <2>2 DEF Unindented
<1>8. h <= j + L /\ Keeps(t, Unindented(t, h, m, j + L), s)
  BY <1>1, <1>7
<1>9. j + L \notin Lines(t, h)
  BY <1>3
<1> QED
  BY <1>2, <1>5, <1>8, <1>9 DEF Body

\* The empty lines and the margin of the first line begin the body.
LEMMA FirstRead ==
    ASSUME NEW t \in Seq(Runes), NEW h \in Nat, NEW m, NEW j \in Nat, NEW s, InFirst(t, h, j, s), j <= Len(t)
    PROVE  Body(t, h, m, j, s) /\ j \in Lines(t, h)
<1>1. h <= j /\ AllIn(t, h, j, {"newline"}) /\ Keeps(t, h + 1 .. j, s) /\ Len(t) \in Nat
  BY LenProperties DEF InFirst
<1>2. \A l \in Lines(t, h) : l < j => Comes(t, l, {"newline"})
  <2> SUFFICES ASSUME NEW l \in Lines(t, h), l < j
               PROVE  Comes(t, l, {"newline"})
    OBVIOUS
  <2>1. l \in h..Len(t)
    BY DEF Lines
  <2>2. l + 1 \in h + 1 .. j /\ l < Len(t)
    BY <1>1, <2>1
  <2> QED
    BY <1>1, <2>2 DEF AllIn, Comes
<1>3. j \in Lines(t, h)
  <2>1. CASE j = h
    BY <1>1, <2>1 DEF Lines
  <2>2. CASE j # h
    <3>1. j \in h + 1 .. j
      BY <1>1, <2>2
    <3> QED
      BY <1>1, <3>1 DEF AllIn, Lines
  <2> QED
    BY <2>1, <2>2
<1>4. \A k \in h + 1 .. j : ~InMargin(t, h, m, k)
  <2> SUFFICES ASSUME NEW k \in h + 1 .. j, NEW l \in Lines(t, h), ~Comes(t, l, {"newline"}), l < k
               PROVE  FALSE
    BY DEF InMargin
  <2>1. l \in Nat
    BY DEF Lines
  <2>2. l < j
    BY <2>1
  <2> QED
    BY <1>2, <2>2
<1>5. Unindented(t, h, m, j) = h + 1 .. j
  BY <1>4 DEF Unindented
<1> QED
  BY <1>1, <1>2, <1>3, <1>5 DEF Body, MarginsRead

\* The first line that does not belong is the last; a text may end before it.
LEMMA LastBegins ==
    ASSUME NEW t \in Seq(Runes), NEW h \in Nat, NEW m, NEW j \in Nat, NEW s, Body(t, h, m, j, s)
    PROVE  /\ j \in Lines(t, h) /\ ~Belongs(t, j, m) => IsFirst(j, LastLines(t, h, m))
           /\ j = Len(t) /\ j \notin Lines(t, h) => LastLines(t, h, m) = {}
<1>1. \A l \in LastLines(t, h, m) : l \in Lines(t, h) /\ l \in Nat /\ l <= Len(t) /\ j <= l
  <2> SUFFICES ASSUME NEW l \in LastLines(t, h, m)
               PROVE  l \in Lines(t, h) /\ l \in Nat /\ l <= Len(t) /\ j <= l
    OBVIOUS
  <2>1. l \in Lines(t, h) /\ ~Belongs(t, l, m)
    BY DEF LastLines
  <2>2. l \in Nat /\ l <= Len(t)
    BY <2>1, LenProperties DEF Lines
  <2>3. ~(l < j)
    BY <2>1 DEF Body, MarginsRead, Belongs
  <2> QED
    BY <2>1, <2>2, <2>3
<1>2. ASSUME j \in Lines(t, h), ~Belongs(t, j, m)
      PROVE  IsFirst(j, LastLines(t, h, m))
  BY <1>1, <1>2 DEF IsFirst, LastLines
<1>3. ASSUME j = Len(t), j \notin Lines(t, h), NEW l \in LastLines(t, h, m)
      PROVE  FALSE
  BY <1>1, <1>3
<1> QED
  BY <1>2, <1>3

\* How the block ends, or why there is none.
LEMMA BlockThere ==
    ASSUME NEW t, NEW i \in Nat, NEW h \in Headers(t, i), NEW m \in Margins(t, h), NEW l \in Nat,
           IsFirst(l, LastLines(t, h, m)), NEW j \in Nat, Run(t, l, j, Indents),
           Spells(t, j, <<"|", "|", "|">>)
    PROVE  Block(t, i, j + 3)
<1>1. l <= j
  BY DEF Run
<1>2. l + 3 <= j + 3 /\ j + 3 - 3 = j
  BY <1>1
<1>3. l \in LastLines(t, h, m)
  BY DEF IsFirst
<1> QED
  BY <1>2, <1>3 DEF Block

\* Without a margin, a last line or the closing bars there is no block.
LEMMA BlockMissing ==
    ASSUME NEW t, NEW i \in Nat, NEW h \in Headers(t, i), Len(t) \in Nat,
           \/ Margins(t, h) = {}
           \/ \E m \in Margins(t, h) :
                 /\ Margins(t, h) = {m}
                 /\ \/ LastLines(t, h, m) = {}
                    \/ \E l \in Nat : \E j \in 0..Len(t) :
                          /\ IsFirst(l, LastLines(t, h, m)) /\ Run(t, l, j, Indents)
                          /\ ~Spells(t, j, <<"|", "|", "|">>)
    PROVE  \A k \in i..Len(t) : ~Block(t, i, k)
<1> SUFFICES ASSUME NEW k \in i..Len(t), Block(t, i, k)
             PROVE  FALSE
  OBVIOUS
<1>1. PICK g \in Headers(t, i) : \E n \in Margins(t, g) : \E e \in LastLines(t, g, n) :
        /\ IsFirst(e, LastLines(t, g, n))
        /\ e + 3 <= k /\ Run(t, e, k - 3, Indents) /\ Spells(t, k - 3, <<"|", "|", "|">>)
  BY DEF Block
<1>2. g = h
  BY HeaderUnique
<1>3. PICK n \in Margins(t, h) : \E e \in LastLines(t, h, n) :
        /\ IsFirst(e, LastLines(t, h, n))
        /\ e + 3 <= k /\ Run(t, e, k - 3, Indents) /\ Spells(t, k - 3, <<"|", "|", "|">>)
  BY <1>1, <1>2
<1>4. PICK e \in LastLines(t, h, n) :
        /\ IsFirst(e, LastLines(t, h, n))
        /\ e + 3 <= k /\ Run(t, e, k - 3, Indents) /\ Spells(t, k - 3, <<"|", "|", "|">>)
  BY <1>3
<1>5. PICK l \in Nat : \E j \in 0..Len(t) :
         IsFirst(l, LastLines(t, h, n)) /\ Run(t, l, j, Indents) /\ ~Spells(t, j, <<"|", "|", "|">>)
  BY <1>3, <1>4
<1>6. PICK j \in 0..Len(t) :
         IsFirst(l, LastLines(t, h, n)) /\ Run(t, l, j, Indents) /\ ~Spells(t, j, <<"|", "|", "|">>)
  BY <1>5
<1>7. e \in Nat /\ l = e
  BY <1>4, <1>6 DEF IsFirst, LastLines, Lines
<1>8. k - 3 \in 0..Len(t)
  BY <1>4, <1>7
<1>9. k - 3 = j
  BY <1>4, <1>6, <1>7, <1>8, RunUnique
<1> QED
  BY <1>4, <1>6, <1>9

----------------------------------------------------------------------------
(* What a piece begins with.                                               *)

\* By its first runes a piece can be of one kind.
Begins(t, kind, i, j) ==
    \/ kind = "space" /\ t[i + 1] \in Spaces
    \/ kind = "# comment" /\ t[i + 1] = "#"
    \/ kind = "// comment" /\ t[i + 1] = "/" /\ Spells(t, i, <<"/", "/">>)
    \/ /\ kind = "/* comment" /\ t[i + 1] = "/" /\ Spells(t, i, <<"/", "*">>)
       /\ IsFirst(j, CommentEnds(t, i))
    \/ kind \in Punctuation \cup {"."} /\ t[i + 1] = kind
    \/ kind = "number" /\ t[i + 1] \in Digits /\ Longest(t, i, j) /\ Number(t, i, j)
    \/ kind \in {"identifier", "keyword"} /\ t[i + 1] \in Letters
    \/ kind = "string" /\ t[i + 1] \in Quotes /\ IsFirst(j, StringEnds(t, i))
    \/ /\ kind = "verbatim" /\ t[i + 1] = "@" /\ Comes(t, i + 1, Quotes)
       /\ IsFirst(j, VerbatimEnds(t, i))
    \/ kind \in {"operator", "$"} /\ t[i + 1] \in Symbols /\ ~Cut(t, i)
    \/ kind = "block" /\ t[i + 1] = "|" /\ Spells(t, i, <<"|", "|", "|">>) /\ Block(t, i, j)

\* What a piece begins with.
LEMMA PieceBegins ==
    ASSUME NEW t \in Seq(Runes), NEW i \in Nat, NEW j \in Nat, NEW kind, Piece(t, kind, i, j)
    PROVE  Begins(t, kind, i, j)
<1>0. Len(t) \in Nat
  BY LenProperties
<1>1. ASSUME NEW S, Comes(t, i, S)
      PROVE  t[i + 1] \in S
  BY <1>1 DEF Comes
<1>2. ASSUME NEW y, Spells(t, i, <<"/", y>>)
      PROVE  t[i + 1] = "/"
  BY <1>0, <1>2, SpellsPair
<1>3. ASSUME kind = "space", i < j, Run(t, i, j, Spaces)
      PROVE  Begins(t, kind, i, j)
  <2>1. t[i + 1] \in Spaces
    BY <1>3 DEF Run, AllIn
  <2> QED
    BY <1>3, <2>1 DEF Begins
<1>4. ASSUME kind \in {"operator", "$"}, Operator(t, i, j)
      PROVE  Begins(t, kind, i, j)
  BY <1>1, <1>4 DEF Operator, Begins
<1>5. ASSUME kind = "block", Spells(t, i, <<"|", "|", "|">>), Block(t, i, j)
      PROVE  Begins(t, kind, i, j)
  <2>1. t[i + 1] = "|"
    BY <1>0, <1>5, SpellsThree
  <2> QED
    BY <1>5, <2>1 DEF Begins
<1>6. ASSUME \/ kind = "# comment" /\ Comes(t, i, {"#"})
             \/ kind = "// comment" /\ Spells(t, i, <<"/", "/">>)
             \/ kind = "/* comment" /\ Spells(t, i, <<"/", "*">>) /\ IsFirst(j, CommentEnds(t, i))
             \/ kind \in Punctuation \cup {"."} /\ Comes(t, i, {kind})
      PROVE  Begins(t, kind, i, j)
  BY <1>1, <1>2, <1>6 DEF Begins
<1>7. ASSUME \/ kind = "number" /\ Comes(t, i, Digits) /\ Longest(t, i, j) /\ Number(t, i, j)
             \/ kind \in {"identifier", "keyword"} /\ Comes(t, i, Letters)
             \/ kind = "string" /\ Comes(t, i, Quotes) /\ IsFirst(j, StringEnds(t, i))
             \/ /\ kind = "verbatim" /\ Comes(t, i, {"@"}) /\ Comes(t, i + 1, Quotes)
                /\ IsFirst(j, VerbatimEnds(t, i))
      PROVE  Begins(t, kind, i, j)
  BY <1>1, <1>7 DEF Begins
<1> QED
  BY <1>3, <1>4, <1>5, <1>6, <1>7 DEF Piece

\* What may be wrong with the piece after rune i.
Wrong(t, i) ==
    \/ t[i + 1] \in {"\\", "e'"}
    \/ t[i + 1] = "@" /\ (Comes(t, i + 1, Quotes) => VerbatimEnds(t, i) = {})
    \/ t[i + 1] \in Digits /\ \A j \in i..Len(t) : Longest(t, i, j) => ~Number(t, i, j)
    \/ t[i + 1] \in Quotes /\ StringEnds(t, i) = {}
    \/ Spells(t, i, <<"/", "*">>) /\ CommentEnds(t, i) = {}
    \/ Spells(t, i, <<"|", "|", "|">>) /\ \A j \in i..Len(t) : ~Block(t, i, j)

\* Where no kind of piece begins well there is none.
LEMMA WrongJunk ==
    ASSUME NEW t \in Seq(Runes), NEW i \in Nat, i < Len(t), Wrong(t, i)
    PROVE  Junk(t, i)
<1>0. Len(t) \in Nat /\ t[i + 1] \in Runes
  BY LenProperties, ElementOfSeq
<1>1. ASSUME NEW j \in i..Len(t), NEW kind, Begins(t, kind, i, j)
      PROVE  FALSE
  <2> DEFINE x == t[i + 1]
  <2>0. j \in Nat
    OBVIOUS
  <2>1. CASE x \in {"\\", "e'"}
    BY <1>1, <2>1 DEF Begins, Spaces, Blanks, Indents, Punctuation, Digits, Letters, Quotes, Symbols
  <2>2. CASE x = "@" /\ (Comes(t, i + 1, Quotes) => VerbatimEnds(t, i) = {})
    BY <1>1, <2>2 DEF Begins, Spaces, Blanks, Indents, Punctuation, Digits, Letters, Quotes, Symbols, IsFirst
  <2>3. CASE x \in Digits /\ \A k \in i..Len(t) : Longest(t, i, k) => ~Number(t, i, k)
    BY <1>1, <2>3 DEF Begins, Spaces, Blanks, Indents, Punctuation, Digits, Letters, Quotes, Symbols
  <2>4. CASE x \in Quotes /\ StringEnds(t, i) = {}
    BY <1>1, <2>4 DEF Begins, Spaces, Blanks, Indents, Punctuation, Digits, Letters, Quotes, Symbols, IsFirst
  <2>5. CASE Spells(t, i, <<"/", "*">>) /\ CommentEnds(t, i) = {}
    <3>1. x = "/" /\ t[i + 2] = "*"
      BY <1>0, <2>5, SpellsPair
    <3>2. Cut(t, i)
      BY <2>5 DEF Cut
    <3>3. ~Spells(t, i, <<"/", "/">>)
      BY <1>0, <3>1, SpellsPair
    <3> QED
      BY <1>1, <2>5, <3>1, <3>2, <3>3 DEF Begins, Spaces, Blanks, Indents, Punctuation, Digits, Letters, Quotes, IsFirst
  <2>6. CASE Spells(t, i, <<"|", "|", "|">>) /\ \A k \in i..Len(t) : ~Block(t, i, k)
    <3>1. x = "|"
      BY <1>0, <2>6, SpellsThree
    <3>2. Cut(t, i)
      BY <2>6 DEF Cut
    <3> QED
      BY <1>1, <2>6, <3>1, <3>2 DEF Begins, Spaces, Blanks, Indents, Punctuation, Digits, Letters, Quotes
  <2> QED
    BY <2>1, <2>2, <2>3, <2>4, <2>5, <2>6 DEF Wrong
<1>2. Comes(t, i, Runes)
  BY <1>0 DEF Comes
<1>3. \A j \in i..Len(t) : \A kind \in Kinds \cup Comments \cup {"space"} : ~Piece(t, kind, i, j)
  BY <1>1, PieceBegins
<1> QED
  BY <1>2, <1>3 DEF Junk

----------------------------------------------------------------------------
(* Fodder.                                                                 *)

\* White space that may go on.
Part(t, f) == f.kind = "space" /\ f.from < f.to /\ f.to <= Len(t) /\ AllIn(t, f.from, f.to, Spaces)
\* Like Fills, but white space at the end may go on.
Trails(t, all, i, j) ==
    /\ \A k \in 1..Len(all) :
          /\ \/ Piece(t, all[k].kind, Opens(all[k]), Closes(all[k]))
             \/ k = Len(all) /\ Part(t, all[k])
          /\ Opens(all[k]) = IF k = 1 THEN i ELSE Closes(all[k - 1])
    /\ j = IF all = <<>> THEN i ELSE Closes(all[Len(all)])

\* The last white space of the fodder may grow.
LEMMA FillsTrails ==
    ASSUME NEW t, NEW all, NEW i, NEW j, Fills(t, all, i, j)
    PROVE  Trails(t, all, i, j)
BY DEF Fills, Trails

LEMMA FillsNone ==
    ASSUME NEW t, NEW i
    PROVE  Fills(t, <<>>, i, i)
<1>1. Len(<<>>) = 0
  BY EmptySeq
<1> QED
  BY <1>1 DEF Fills

\* White space has no delimiters.
LEMMA SpaceEnds ==
    ASSUME NEW f \in Element, f.kind = "space"
    PROVE  Opens(f) = f.from /\ Closes(f) = f.to
BY DEF Opens, Closes, Element

LEMMA SpacePart ==
    ASSUME NEW t, NEW f \in Element, f.kind = "space", Piece(t, f.kind, Opens(f), Closes(f)), Len(t) \in Nat
    PROVE  Part(t, f)
<1>1. f.from < f.to /\ Run(t, f.from, f.to, Spaces)
  BY SpaceEnds DEF Piece, Punctuation
<1>2. f.from \in Nat /\ f.to \in Nat
  BY DEF Element
<1> QED
  BY <1>1, <1>2 DEF Part, Run

\* White space ends where something else comes.
LEMMA TrailsFills ==
    ASSUME NEW t, NEW all \in Seq(Element), NEW i, NEW j, Trails(t, all, i, j), Len(t) \in Nat,
           ~Comes(t, j, Spaces)
    PROVE  Fills(t, all, i, j)
<1>1. Len(all) \in Nat /\ \A k \in 1..Len(all) : all[k] \in Element
  BY LenProperties, ElementOfSeq
<1>2. ASSUME NEW k \in 1..Len(all)
      PROVE  Piece(t, all[k].kind, Opens(all[k]), Closes(all[k]))
  <2>1. CASE k = Len(all) /\ Part(t, all[k])
    <3> DEFINE f == all[k]
    <3>1. f \in Element /\ f.kind = "space" /\ f.from < f.to /\ f.to <= Len(t) /\ AllIn(t, f.from, f.to, Spaces)
      BY <1>1, <2>1 DEF Part
    <3>2. Opens(f) = f.from /\ Closes(f) = f.to /\ f.from \in Nat /\ f.to \in Nat
      BY <3>1, SpaceEnds DEF Element
    <3>3. all # <<>>
      BY <1>1, EmptySeq
    <3>4. j = f.to
      BY <2>1, <3>2, <3>3 DEF Trails
    <3> HIDE DEF f
    <3>5. Run(t, f.from, f.to, Spaces)
      BY <3>1, <3>2, <3>4 DEF Run
    <3>6. Piece(t, f.kind, Opens(f), Closes(f))
      BY <3>1, <3>2, <3>5 DEF Piece
    <3> QED
      BY <3>6 DEF f
  <2> QED
    BY <2>1 DEF Trails
<1> QED
  BY <1>2 DEF Trails, Fills

\* Another element.
LEMMA FodderMore ==
    ASSUME NEW t, NEW all \in Seq(Element), NEW i, NEW j, Fills(t, all, i, j), NEW f \in Element, Opens(f) = j,
           Piece(t, f.kind, Opens(f), Closes(f)) \/ Part(t, f)
    PROVE  Trails(t, Append(all, f), i, Closes(f))
<1> DEFINE u == Append(all, f)
<1>1. /\ Len(all) \in Nat /\ Len(u) = Len(all) + 1 /\ u[Len(all) + 1] = f
      /\ \A k \in 1..Len(all) : u[k] = all[k]
  BY AppendProperties, LenProperties
<1>2. u # <<>>
  BY <1>1, EmptySeq
<1> HIDE DEF u
<1>3. Closes(f) = IF u = <<>> THEN i ELSE Closes(u[Len(u)])
  BY <1>1, <1>2
<1>4. ASSUME NEW k \in 1..Len(u)
      PROVE  /\ \/ Piece(t, u[k].kind, Opens(u[k]), Closes(u[k]))
                \/ k = Len(u) /\ Part(t, u[k])
             /\ Opens(u[k]) = IF k = 1 THEN i ELSE Closes(u[k - 1])
  <2>1. CASE k \in 1..Len(all)
    <3>1. u[k] = all[k] /\ (k # 1 => u[k - 1] = all[k - 1])
      BY <1>1, <2>1
    <3>2. /\ Piece(t, all[k].kind, Opens(all[k]), Closes(all[k]))
          /\ Opens(all[k]) = IF k = 1 THEN i ELSE Closes(all[k - 1])
      BY <2>1 DEF Fills
    <3> QED
      BY <3>1, <3>2
  <2>2. CASE k = Len(all) + 1
    <3>1. u[k] = f /\ k = Len(u)
      BY <1>1, <2>2
    <3>2. CASE k = 1
      <4>1. all = <<>>
        BY <1>1, <2>2, <3>2, EmptySeq
      <4>2. j = i
        BY <4>1 DEF Fills
      <4> QED
        BY <3>1, <3>2, <4>2
    <3>3. CASE k # 1
      <4>1. all # <<>> /\ k - 1 = Len(all) /\ u[k - 1] = all[Len(all)]
        BY <1>1, <2>2, <3>3, EmptySeq
      <4>2. j = Closes(all[Len(all)])
        BY <4>1 DEF Fills
      <4> QED
        BY <3>1, <3>3, <4>1, <4>2
    <3> QED
      BY <3>2, <3>3
  <2>3. k \in 1..Len(all) \/ k = Len(all) + 1
    BY <1>1
  <2> QED
    BY <2>1, <2>2, <2>3
<1>5. Trails(t, u, i, Closes(f))
  BY <1>3, <1>4 DEF Trails
<1> QED
  BY <1>5 DEF u

\* White space goes on by a rune.
LEMMA SpaceMore ==
    ASSUME NEW t, Len(t) \in Nat, NEW all \in Seq(Element), NEW i, NEW j \in Nat, Trails(t, all, i, j), all # <<>>,
           all[Len(all)].kind = "space", j < Len(t), t[j + 1] \in Spaces
    PROVE  Trails(t, [all EXCEPT ![Len(all)].to = j + 1], i, j + 1)
<1> DEFINE n == Len(all)
           u == [all EXCEPT ![n].to = j + 1]
           f == [all[n] EXCEPT !.to = j + 1]
<1>1. n \in Nat /\ n # 0 /\ n \in 1..n /\ DOMAIN all = 1..n /\ \A k \in 1..n : all[k] \in Element
  BY LenProperties, ElementOfSeq, EmptySeq
<1>2. all[n] \in Element /\ f \in Element /\ f.kind = "space" /\ f.from = all[n].from /\ f.to = j + 1
  BY <1>1 DEF Element
<1>3. u[n] = f /\ \A k \in 1..n : k # n => u[k] = all[k]
  BY <1>1
<1>4. u \in Seq(Element) /\ Len(u) = n
  BY <1>1, <1>2, ExceptSeq
<1>5. Part(t, all[n])
  <2>1. Piece(t, all[n].kind, Opens(all[n]), Closes(all[n])) \/ Part(t, all[n])
    BY <1>1 DEF Trails
  <2> QED
    BY <1>2, <2>1, SpacePart
<1>6. Closes(all[n]) = all[n].to /\ Opens(all[n]) = all[n].from /\ Opens(f) = f.from /\ Closes(f) = f.to
  BY <1>2, SpaceEnds
<1>7. all[n].to = j
  BY <1>6 DEF Trails
<1>8. Part(t, f)
  <2>1. all[n].from < j /\ AllIn(t, all[n].from, j, Spaces) /\ all[n].from \in Nat
    BY <1>2, <1>5, <1>7 DEF Part, Element
  <2>2. AllIn(t, all[n].from, j + 1, Spaces)
    BY <2>1, AllInNext
  <2> QED
    BY <1>2, <2>1, <2>2 DEF Part
<1>9. u # <<>>
  BY <1>1, <1>4, EmptySeq
<1> HIDE DEF u, f, n
<1>10. ASSUME NEW k \in 1..n
       PROVE  /\ \/ Piece(t, u[k].kind, Opens(u[k]), Closes(u[k]))
                 \/ k = n /\ Part(t, u[k])
              /\ Opens(u[k]) = IF k = 1 THEN i ELSE Closes(u[k - 1])
  <2>1. /\ \/ Piece(t, all[k].kind, Opens(all[k]), Closes(all[k]))
           \/ k = n /\ Part(t, all[k])
        /\ Opens(all[k]) = IF k = 1 THEN i ELSE Closes(all[k - 1])
    BY DEF Trails, n
  <2>2. k # 1 => k - 1 \in 1..n /\ k - 1 # n
    BY <1>1
  <2>3. k # 1 => u[k - 1] = all[k - 1]
    BY <1>3, <2>2
  <2>4. CASE k = n
    BY <1>2, <1>3, <1>6, <1>8, <2>1, <2>3, <2>4
  <2>5. CASE k # n
    BY <1>3, <2>1, <2>3, <2>5
  <2> QED
    BY <2>4, <2>5
<1>11. j + 1 = IF u = <<>> THEN i ELSE Closes(u[Len(u)])
  BY <1>2, <1>3, <1>4, <1>6, <1>9
<1>12. Trails(t, u, i, j + 1)
  BY <1>4, <1>10, <1>11 DEF Trails
<1> QED
  BY <1>12 DEF u, n
----------------------------------------------------------------------------
(* What has been read of what is being read.                               *)

\* t is the text, whatever its runes after those the lexer has looked at.
Continues(t) ==
    /\ t \in Seq(Runes) /\ Len(text) <= Len(t)
    /\ \A k \in 1..Len(text) : t[k] = text[k]
    /\ ended => Len(t) = Len(text)

\* At a place of the code the lexer is after rune j, in a piece that begins after
\* rune i; start is after rune `from`.
Pending(t, place, i, from, j, quote, s, margin) ==
    \/ place \in NumberStates /\ from = i /\ Scans(t, place, i, j)
    \/ place = "identifier" /\ from = i /\ Comes(t, i, Letters) /\ i < j /\ AllIn(t, i, j, Letters \cup Digits)
    \/ place = "string" /\ from = i /\ quote = t[i + 1] /\ Inside(t, i, j)
    \/ place = "verbatim" /\ from = i /\ quote = t[i + 2] /\ InVerbatim(t, i, j, s)
    \/ place = "# comment" /\ from = i + 1 /\ Comes(t, i, {"#"}) /\ AllIn(t, from, j, Line)
    \/ place = "// comment" /\ from = i + 2 /\ Spells(t, i, <<"/", "/">>) /\ AllIn(t, from, j, Line)
    \/ place = "/* comment" /\ from = i + 2 /\ InComment(t, i, j)
    \/ place = "operator" /\ from = i /\ InOperator(t, i, j)
    \/ place = "block" /\ from = i /\ s = <<>> /\ InHeader(t, i, j)
    \/ /\ place = "first line" /\ from = i /\ Spells(t, i, <<"|", "|", "|">>)
       /\ \E h \in Headers(t, i) : InFirst(t, h, j, s)
    \/ /\ place \in {"line", "next line"} /\ from = i /\ Spells(t, i, <<"|", "|", "|">>)
       /\ \E h \in Headers(t, i) :
             /\ Margins(t, h) = {margin} /\ Body(t, h, margin, j, s)
             /\ place = "next line" <=> j \in Lines(t, h)
    \/ /\ place = "last line" /\ from = i /\ Spells(t, i, <<"|", "|", "|">>)
       /\ \E h \in Headers(t, i) : \E l \in 0..j :
             /\ Margins(t, h) = {margin} /\ IsFirst(l, LastLines(t, h, margin))
             /\ Keeps(t, Unindented(t, h, margin, l), s) /\ AllIn(t, l, j, Indents)

Emitted(t) ==
    \A k \in 1..Len(tokens) :
        Fills(t, tokens[k].fodder, End(k - 1), tokens[k].from) /\ Spelled(t, tokens[k])
\* The fodder since the last token goes up to rune i.
Started(t, i) == i \in 0..Len(t) /\ Fills(t, fodder, End(Len(tokens)), i)
Reads(t) ==
    /\ Emitted(t)
    /\ at = "lex" => Trails(t, fodder, End(Len(tokens)), cursor.pos.n)
    /\ at = "done" => tokens # <<>> /\ tokens[Len(tokens)].kind = "eof"
    /\ at = "error" => \E i \in 0..Len(t) : Started(t, i) /\ Junk(t, i)
    /\ at \notin {"lex", "done", "error"} =>
         \E i \in 0..Len(t) :
             Started(t, i) /\ Pending(t, at, i, start.n, cursor.pos.n, quot, data, indent)

----------------------------------------------------------------------------
(* What the lexer sees of the text.                                        *)

\* The cursor is in every text that continues the one looked at.
LEMMA ContinuesTyped ==
    ASSUME IInv, NEW t, Continues(t)
    PROVE  /\ t \in Seq(Runes) /\ Len(t) \in Nat /\ Len(text) \in Nat /\ Len(text) <= Len(t)
           /\ start.n \in Nat /\ cursor.pos.n \in Nat
           /\ start.n <= cursor.pos.n /\ cursor.pos.n <= Len(t)
           /\ \A k \in 1..Len(t) : t[k] \in Runes
<1>1. t \in Seq(Runes) /\ Len(text) <= Len(t)
  BY DEF Continues
<1>2. Len(t) \in Nat /\ \A k \in 1..Len(t) : t[k] \in Runes
  BY <1>1, LenProperties, ElementOfSeq
<1>3. TypeOK /\ Sound(cursor.pos) /\ start.n \in Nat /\ start.n <= cursor.pos.n
  BY Cursor DEF IInv, Begun
<1>4. cursor.pos.n \in Nat /\ cursor.pos.n <= Len(text) /\ Len(text) \in Nat
  BY <1>3, SoundInText
<1> QED
  BY <1>1, <1>2, <1>3, <1>4

\* The rune that next finds after rune n is that of t.
Sees(t, n) ==
    \/ n < Len(t) /\ RuneAt(n) = t[n + 1] /\ t[n + 1] \in Runes /\ RuneAt(n) # "eof"
    \/ n >= Len(t) /\ RuneAt(n) = "eof"

\* What next finds is the rune of every such text, or the end of all of them.
LEMMA LooksInText ==
    ASSUME IInv, NEW t, Continues(t), NEW n \in Nat, n < Len(text) \/ ended
    PROVE  Sees(t, n)
<1>1. /\ Len(t) \in Nat /\ Len(text) \in Nat /\ Len(text) <= Len(t)
      /\ \A k \in 1..Len(t) : t[k] \in Runes
  BY ContinuesTyped
<1>2. "eof" \notin Runes
  BY DEF Runes, Digits, Letters, Blanks, Indents, Quotes, Symbols, Punctuation
<1>3. CASE n < Len(text)
  <2>1. RuneAt(n) = text[n + 1] /\ n + 1 \in 1..Len(text) /\ n + 1 \in 1..Len(t) /\ n < Len(t)
    BY <1>1, <1>3 DEF RuneAt
  <2>2. text[n + 1] = t[n + 1] /\ t[n + 1] \in Runes
    BY <1>1, <2>1 DEF Continues
  <2> QED
    BY <1>2, <2>1, <2>2 DEF Sees
<1>4. CASE ended /\ ~(n < Len(text))
  <2>1. RuneAt(n) = "eof" /\ Len(t) = Len(text)
    BY <1>4 DEF RuneAt, Continues
  <2> QED
    BY <1>1, <1>4, <2>1 DEF Sees
<1> QED
  BY <1>3, <1>4

\* The next three runes are those of the text.
LEMMA Looks ==
    ASSUME IInv, NEW t, Continues(t), Ready
    PROVE  Sees(t, cursor.pos.n) /\ Sees(t, cursor.pos.n + 1) /\ Sees(t, cursor.pos.n + 2)
<1>1. cursor.pos.n \in Nat /\ Len(text) \in Nat
  BY ContinuesTyped
<1>2. ended \/ Len(text) >= cursor.pos.n + 3
  BY DEF Ready
<1>3. ASSUME NEW n \in {cursor.pos.n, cursor.pos.n + 1, cursor.pos.n + 2}
      PROVE  Sees(t, n)
  <2>1. n \in Nat /\ (n < Len(text) \/ ended)
    BY <1>1, <1>2
  <2> QED
    BY <2>1, LooksInText
<1> QED
  BY <1>3

\* The rune at the cursor, and where next and backup leave it.
LEMMA Here ==
    ASSUME IInv, NEW t, Continues(t), Ready
    PROVE  /\ TypeOK /\ Seen.pos = cursor.pos /\ Sound(Read.pos) /\ Sound(Seen.pos)
           /\ r = "eof" => cursor.pos.n = Len(t) /\ Read.pos.n = cursor.pos.n
           /\ r # "eof" => /\ cursor.pos.n < Len(t) /\ r = t[cursor.pos.n + 1] /\ r \in Runes
                           /\ Read.pos.n = cursor.pos.n + 1
<1>1. Sees(t, cursor.pos.n)
  BY Looks
<1>2. cursor.pos.n \in Nat /\ Len(t) \in Nat /\ cursor.pos.n <= Len(t)
  BY ContinuesTyped
<1>3. /\ TypeOK /\ Seen.pos = cursor.pos /\ Sound(Read.pos) /\ Sound(Seen.pos)
      /\ Read.pos.n = IF r = "eof" THEN cursor.pos.n ELSE cursor.pos.n + 1
  BY Cursor
<1> QED
  BY <1>1, <1>2, <1>3 DEF Sees, r

\* The tests of the code on the rune at the cursor.
LEMMA ComesHere ==
    ASSUME IInv, NEW t, Continues(t), Ready, NEW S, "eof" \notin S
    PROVE  r \in S <=> Comes(t, cursor.pos.n, S)
<1>1. cursor.pos.n \in Nat /\ Len(t) \in Nat
  BY ContinuesTyped
<1> QED
  BY <1>1, Here DEF Comes

\* Its tests on two and on three runes.
LEMMA FollowsOne ==
    ASSUME IInv, NEW t, Continues(t), Ready, NEW x, NEW y, x # "eof", y # "eof"
    PROVE  r = x /\ Follows(<<y>>) <=> Spells(t, cursor.pos.n, <<x, y>>)
<1> DEFINE n == cursor.pos.n
<1>1. n \in Nat /\ Len(t) \in Nat /\ n + 1 \in Nat
  BY ContinuesTyped
<1>2. Sees(t, n) /\ Sees(t, n + 1) /\ r = RuneAt(n)
  BY Looks DEF r
<1>3. Follows(<<y>>) <=> RuneAt(n + 1) = y
  <2>1. Follows(<<y>>) <=> \A i \in 1..1 : RuneAt(n + 1 + i - 1) = <<y>>[i]
    BY DEF Follows, Prefix
  <2>2. n + 1 + 1 - 1 = n + 1
    BY <1>1
  <2> QED
    BY <2>1, <2>2
<1> HIDE DEF n
<1>4. Spells(t, n, <<x, y>>) <=> n + 2 <= Len(t) /\ t[n + 1] = x /\ t[n + 2] = y
  BY <1>1, SpellsPair
<1>5. r = x <=> n < Len(t) /\ t[n + 1] = x
  BY <1>1, <1>2 DEF Sees
<1>6. RuneAt(n + 1) = y <=> n + 1 < Len(t) /\ t[n + 2] = y
  <2>1. n + 1 + 1 = n + 2
    BY <1>1
  <2> QED
    BY <1>1, <1>2, <2>1 DEF Sees
<1>7. n + 2 <= Len(t) <=> n + 1 < Len(t)
  BY <1>1
<1>8. n + 1 < Len(t) => n < Len(t)
  BY <1>1
<1>9. r = x /\ Follows(<<y>>) <=> Spells(t, n, <<x, y>>)
  BY <1>3, <1>4, <1>5, <1>6, <1>7, <1>8
<1> QED
  BY <1>9 DEF n

LEMMA FollowsTwo ==
    ASSUME IInv, NEW t, Continues(t), Ready, NEW x, NEW y, NEW z, x # "eof", y # "eof", z # "eof"
    PROVE  /\ r = x /\ Follows(<<y, z>>) <=> Spells(t, cursor.pos.n, <<x, y, z>>)
           /\ Prefix(cursor.pos.n, <<x, y, z>>) <=> Spells(t, cursor.pos.n, <<x, y, z>>)
<1> DEFINE n == cursor.pos.n
<1>1. n \in Nat /\ Len(t) \in Nat /\ n + 1 \in Nat /\ n + 2 \in Nat
  BY ContinuesTyped
<1>2. Sees(t, n) /\ Sees(t, n + 1) /\ Sees(t, n + 2) /\ r = RuneAt(n)
  BY Looks DEF r
<1>3. Follows(<<y, z>>) <=> RuneAt(n + 1) = y /\ RuneAt(n + 2) = z
  <2>1. Follows(<<y, z>>) <=> \A i \in {1, 2} : RuneAt(n + 1 + i - 1) = <<y, z>>[i]
    <3>1. Len(<<y, z>>) = 2 /\ 1..2 = {1, 2}
      OBVIOUS
    <3> QED
      BY <3>1 DEF Follows, Prefix
  <2>2. n + 1 + 1 - 1 = n + 1 /\ n + 1 + 2 - 1 = n + 2
    BY <1>1
  <2> QED
    BY <2>1, <2>2
<1>4. Prefix(n, <<x, y, z>>) <=> RuneAt(n) = x /\ RuneAt(n + 1) = y /\ RuneAt(n + 2) = z
  <2>1. Prefix(n, <<x, y, z>>) <=> \A i \in {1, 2, 3} : RuneAt(n + i - 1) = <<x, y, z>>[i]
    <3>1. Len(<<x, y, z>>) = 3 /\ 1..3 = {1, 2, 3}
      OBVIOUS
    <3> QED
      BY <3>1 DEF Prefix
  <2>2. n + 1 - 1 = n /\ n + 2 - 1 = n + 1 /\ n + 3 - 1 = n + 2
    BY <1>1
  <2> QED
    BY <2>1, <2>2
<1> HIDE DEF n
<1>5. Spells(t, n, <<x, y, z>>) <=> n + 3 <= Len(t) /\ t[n + 1] = x /\ t[n + 2] = y /\ t[n + 3] = z
  BY <1>1, SpellsThree
<1>6. RuneAt(n) = x <=> n < Len(t) /\ t[n + 1] = x
  BY <1>1, <1>2 DEF Sees
<1>7. RuneAt(n + 1) = y <=> n + 1 < Len(t) /\ t[n + 2] = y
  <2>1. n + 1 + 1 = n + 2
    BY <1>1
  <2> QED
    BY <1>1, <1>2, <2>1 DEF Sees
<1>8. RuneAt(n + 2) = z <=> n + 2 < Len(t) /\ t[n + 3] = z
  <2>1. n + 2 + 1 = n + 3
    BY <1>1
  <2> QED
    BY <1>1, <1>2, <2>1 DEF Sees
<1>9. (n + 3 <= Len(t) <=> n + 2 < Len(t)) /\ (n + 2 < Len(t) => n + 1 < Len(t) /\ n < Len(t))
  BY <1>1
<1>10. /\ r = x /\ Follows(<<y, z>>) <=> Spells(t, n, <<x, y, z>>)
       /\ Prefix(n, <<x, y, z>>) <=> Spells(t, n, <<x, y, z>>)
  BY <1>2, <1>3, <1>4, <1>5, <1>6, <1>7, <1>8, <1>9
<1> QED
  BY <1>10 DEF n

\* What is behind the cursor is the same in every such text.
LEMMA SameRunes ==
    ASSUME IInv, NEW t, Continues(t), NEW i \in Nat \ {0}, NEW j \in Int, j <= Len(text)
    PROVE  SubSeq(text, i, j) = SubSeq(t, i, j)
<1>1. Len(text) \in Nat /\ Len(t) \in Nat /\ Len(text) <= Len(t) /\ \A k \in 1..Len(t) : t[k] \in Runes
  BY ContinuesTyped
<1>2. \A k \in i..j : text[k] = t[k] /\ t[k] \in Runes
  <2> SUFFICES ASSUME NEW k \in i..j
               PROVE  text[k] = t[k] /\ t[k] \in Runes
    OBVIOUS
  <2>1. k \in 1..Len(text) /\ k \in 1..Len(t)
    BY <1>1
  <2> QED
    BY <1>1, <2>1 DEF Continues
<1>3. /\ SubSeq(text, i, j) \in Seq(Runes) /\ SubSeq(t, i, j) \in Seq(Runes)
      /\ Len(SubSeq(text, i, j)) = Len(SubSeq(t, i, j))
      /\ Len(SubSeq(text, i, j)) = IF i <= j THEN j - i + 1 ELSE 0
      /\ \A k \in 1 .. j - i + 1 : SubSeq(text, i, j)[k] = text[i + k - 1] /\ SubSeq(t, i, j)[k] = t[i + k - 1]
  BY <1>2, SubSeqProperties
<1>4. \A k \in 1..Len(SubSeq(text, i, j)) : SubSeq(text, i, j)[k] = SubSeq(t, i, j)[k]
  <2> SUFFICES ASSUME NEW k \in 1..Len(SubSeq(text, i, j))
               PROVE  SubSeq(text, i, j)[k] = SubSeq(t, i, j)[k]
    OBVIOUS
  <2>1. k \in 1 .. j - i + 1 /\ i + k - 1 \in i..j
    BY <1>3
  <2> QED
    BY <1>2, <1>3, <2>1
<1> HIDE DEF Sees
<1> QED
  BY <1>3, <1>4, SeqEqual

LEMMA SameLexeme ==
    ASSUME IInv, NEW t, Continues(t), NEW c, Sound(c.pos)
    PROVE  Lexeme(c) = SubSeq(t, start.n + 1, c.pos.n)
<1>1. start.n + 1 \in Nat \ {0} /\ c.pos.n \in Int /\ c.pos.n <= Len(text)
  BY Cursor, SoundInText
<1> QED
  BY <1>1, SameRunes DEF Lexeme

\* The margin is there, all of it, or it is not.
LEMMA PrefixSpells ==
    ASSUME IInv, NEW t, Continues(t), Ready
    PROVE  Prefix(cursor.pos.n, indent) <=> Spells(t, cursor.pos.n, indent)
<1> DEFINE n == cursor.pos.n
           m == Len(indent)
<1>1. /\ n \in Nat /\ Len(t) \in Nat /\ Len(text) \in Nat /\ Len(text) <= Len(t) /\ n <= Len(t)
      /\ \A k \in 1..Len(text) : t[k] = text[k]
  BY ContinuesTyped DEF Continues
<1>2. m \in Nat /\ \A k \in 1..m : indent[k] \in Indents
  BY LenProperties, ElementOfSeq DEF IInv, TypeOK
<1>3. \A k \in 1..m : indent[k] # "eof"
  BY <1>2 DEF Indents
<1> HIDE DEF n, m
<1>4. ASSUME NEW k \in 1..m, n + k <= Len(text)
      PROVE  RuneAt(n + k - 1) = t[n + k]
  <2>1. n + k - 1 < Len(text) /\ n + k - 1 + 1 = n + k /\ n + k \in 1..Len(text)
    BY <1>1, <1>2, <1>4
  <2> QED
    BY <1>1, <2>1 DEF RuneAt
<1>5. ASSUME Prefix(n, indent)
      PROVE  Spells(t, n, indent)
  <2>1. ASSUME NEW k \in 1..m
        PROVE  n + k <= Len(text) /\ t[n + k] = indent[k]
    <3>1. RuneAt(n + k - 1) = indent[k]
      BY <1>5 DEF Prefix, m
    <3>2. n + k - 1 < Len(text)
      BY <1>3, <3>1 DEF RuneAt
    <3>3. n + k <= Len(text)
      BY <1>1, <1>2, <3>2
    <3> QED
      BY <1>4, <3>1, <3>3
  <2>2. n + m <= Len(t)
    BY <1>1, <1>2, <2>1
  <2> QED
    BY <2>1, <2>2 DEF Spells, m
<1>6. ASSUME Spells(t, n, indent)
      PROVE  Prefix(n, indent)
  <2>1. n + m <= Len(t) /\ \A k \in 1..m : t[n + k] = indent[k]
    BY <1>6 DEF Spells, m
  <2>2. n + m <= Len(text)
    <3>1. CASE ended
      BY <2>1, <3>1 DEF Continues
    <3>2. CASE \E i \in n + 1 .. Len(text) : text[i] \notin Indents
      <4>1. PICK i \in n + 1 .. Len(text) : text[i] \notin Indents
        BY <3>2
      <4>2. t[i] \notin Indents /\ i \in Nat /\ n + 1 <= i /\ i <= Len(text)
        BY <1>1, <4>1
      <4>3. ~(i <= n + m)
        <5> SUFFICES ASSUME i <= n + m
                     PROVE  FALSE
          OBVIOUS
        <5>1. i - n \in 1..m /\ n + (i - n) = i
          BY <1>1, <1>2, <4>2
        <5> QED
          BY <1>2, <2>1, <4>2, <5>1
      <4> QED
        BY <1>1, <1>2, <4>2, <4>3
    <3> QED
      BY <3>1, <3>2 DEF Ready, n
  <2>3. ASSUME NEW k \in 1..m
        PROVE  RuneAt(n + k - 1) = indent[k]
    <3>1. n + k <= Len(text)
      BY <1>1, <1>2, <2>2
    <3> QED
      BY <1>4, <2>1, <3>1
  <2> QED
    BY <2>3 DEF Prefix, m
<1> QED
  BY <1>5, <1>6 DEF n

\* The blanks at the cursor are a run of blanks of the text.
LEMMA IndentRun ==
    ASSUME IInv, NEW t, Continues(t), Ready
    PROVE  \E e \in cursor.pos.n .. Len(t) :
              /\ Run(t, cursor.pos.n, e, Indents) /\ Indent = SubSeq(t, cursor.pos.n + 1, e)
              /\ Len(Indent) = e - cursor.pos.n
<1> DEFINE n == cursor.pos.n
           m == Cardinality(Indented)
           e == n + m
<1>1. /\ n \in Nat /\ Len(t) \in Nat /\ Len(text) \in Nat /\ Len(text) <= Len(t) /\ n <= Len(t)
      /\ \A k \in 1..Len(text) : t[k] = text[k]
  BY ContinuesTyped DEF Continues
<1>2. n <= Len(text)
  BY Cursor DEF IInv, Begun, Sound
<1>3. IsFiniteSet(Indented) /\ m \in Nat /\ \A k \in n + 1 .. n + m : k \in Indented
  BY IndentedFirst
<1> HIDE DEF n, m
<1>4. \A k \in n + 1 .. e : k <= Len(text) /\ text[k] \in Indents
  <2> SUFFICES ASSUME NEW k \in n + 1 .. e
               PROVE  k <= Len(text) /\ text[k] \in Indents
    OBVIOUS
  <2>1. k \in Indented /\ k \in n + 1 .. k
    BY <1>1, <1>3
  <2> QED
    BY <1>1, <2>1 DEF Indented, n
<1>5. e \in Nat /\ n <= e /\ e <= Len(text)
  BY <1>1, <1>2, <1>3, <1>4
<1> HIDE DEF e
<1>6. AllIn(t, n, e, Indents)
  <2>1. ASSUME NEW k \in n + 1 .. e
        PROVE  t[k] \in Indents
    BY <1>1, <1>4, <1>5
  <2> QED
    BY <2>1 DEF AllIn
<1>7. ~Comes(t, e, Indents)
  <2> SUFFICES ASSUME e < Len(t), t[e + 1] \in Indents
               PROVE  FALSE
    BY DEF Comes
  <2>1. e + 1 <= Len(text)
    <3>1. CASE ended
      BY <1>1, <1>5, <3>1 DEF Continues
    <3>2. CASE \E i \in n + 1 .. Len(text) : text[i] \notin Indents
      <4>1. PICK i \in n + 1 .. Len(text) : text[i] \notin Indents
        BY <3>2
      <4>2. ~(i \in n + 1 .. e)
        BY <1>4, <4>1
      <4> QED
        BY <1>1, <1>5, <4>1, <4>2
    <3> QED
      BY <3>1, <3>2 DEF Ready, n
  <2>2. \A j \in n + 1 .. e + 1 : text[j] \in Indents
    <3> SUFFICES ASSUME NEW j \in n + 1 .. e + 1
                 PROVE  text[j] \in Indents
      OBVIOUS
    <3>1. CASE j \in n + 1 .. e
      BY <1>4, <3>1
    <3>2. CASE j = e + 1
      BY <1>1, <1>5, <2>1, <3>2
    <3> QED
      BY <1>1, <1>5, <3>1, <3>2
  <2>3. n + 1 .. e + 1 \subseteq Indented
    <3> SUFFICES ASSUME NEW k \in n + 1 .. e + 1
                 PROVE  k \in Indented
      OBVIOUS
    <3>1. k \in n + 1 .. Len(text) /\ \A j \in n + 1 .. k : j \in n + 1 .. e + 1
      BY <1>1, <1>5, <2>1
    <3> QED
      BY <2>2, <3>1 DEF Indented, n
  <2>4. Cardinality(n + 1 .. e + 1) = m + 1
    <3>1. n + 1 \in Int /\ e + 1 \in Int /\ n + 1 <= e + 1 /\ (e + 1) - (n + 1) + 1 = m + 1
      BY <1>1, <1>3, <1>5 DEF e
    <3>2. Cardinality(n + 1 .. e + 1) = IF n + 1 > e + 1 THEN 0 ELSE (e + 1) - (n + 1) + 1
      BY <3>1, FS_Interval
    <3> QED
      BY <3>1, <3>2
  <2>5. Cardinality(n + 1 .. e + 1) <= m
    BY <1>3, <2>3, FS_Subset DEF m
  <2> QED
    BY <1>3, <2>4, <2>5
<1>8. Indent = SubSeq(t, n + 1, e)
  <2>1. Indent = SubSeq(text, n + 1, e)
    BY DEF Indent, n, m, e
  <2>2. n + 1 \in Nat \ {0} /\ e \in Int
    BY <1>1, <1>5
  <2> QED
    BY <1>5, <2>1, <2>2, SameRunes
<1>9. Len(Indent) = e - n
  <2>1. \A k \in n + 1 .. e : t[k] \in Indents
    BY <1>6 DEF AllIn
  <2>2. n + 1 \in Int /\ e \in Int /\ e - (n + 1) + 1 = e - n
    BY <1>1, <1>5
  <2>3. Len(SubSeq(t, n + 1, e)) = IF n + 1 <= e THEN e - (n + 1) + 1 ELSE 0
    BY <2>1, <2>2, SubSeqProperties
  <2> QED
    BY <1>1, <1>5, <1>8, <2>2, <2>3
<1>10. e \in n..Len(t) /\ Run(t, n, e, Indents)
  BY <1>1, <1>5, <1>6, <1>7 DEF Run
<1>11. \E f \in n..Len(t) : Run(t, n, f, Indents) /\ Indent = SubSeq(t, n + 1, f) /\ Len(Indent) = f - n
  BY <1>8, <1>9, <1>10
<1> QED
  BY <1>11 DEF n

----------------------------------------------------------------------------
(* What the forms of a step do to Reads.                                   *)

\* The tokens of before remain pieces.
LEMMA StaysEmitted ==
    ASSUME NEW t, Emitted(t), UNCHANGED tokens
    PROVE  Emitted(t)' /\ End(Len(tokens))' = End(Len(tokens))
BY DEF Emitted, End

\* A piece goes on.
LEMMA GoReads ==
    ASSUME NEW t, Reads(t), NEW i, Started(t, i), UNCHANGED <<tokens, fodder>>,
           at' \notin {"lex", "done", "error"},
           Pending(t, at', i, start'.n, cursor'.pos.n, quot', data', indent')
    PROVE  Reads(t)'
<1>1. Emitted(t)' /\ End(Len(tokens))' = End(Len(tokens))
  BY StaysEmitted DEF Reads
<1>2. i \in 0..Len(t) /\ Started(t, i)'
  BY <1>1 DEF Started
<1> QED
  BY <1>1, <1>2 DEF Reads

\* There is no piece.
LEMMA FailReads ==
    ASSUME IInv, NEW t, Continues(t), Reads(t), NEW i, Started(t, i), i < Len(t), Wrong(t, i), Fail
    PROVE  Reads(t)'
<1>1. at' = "error" /\ UNCHANGED <<tokens, fodder>>
  BY DEF Fail, Go, GoTo
<1>2. Emitted(t)' /\ End(Len(tokens))' = End(Len(tokens))
  BY <1>1, StaysEmitted DEF Reads
<1>3. i \in 0..Len(t) /\ Started(t, i)'
  BY <1>1, <1>2 DEF Started
<1>4. Junk(t, i)
  BY <1>3, ContinuesTyped, WrongJunk
<1> QED
  BY <1>1, <1>2, <1>3, <1>4 DEF Reads

\* A piece that is a token has been read.
LEMMA EmitReads ==
    ASSUME IInv, NEW t, Continues(t), Reads(t), Started(t, start.n), NEW c, NEW kind \in Kinds,
           NEW what \in Seq(Runes), NEW place \in {"lex", "done"}, emit(c, kind, what, place), c.pos.n \in Nat,
           \/ Piece(t, kind, start.n, c.pos.n) /\ place = "lex"
           \/ kind = "eof" /\ start.n = Len(t) /\ c.pos.n = Len(t),
           Data(t, kind, start.n, c.pos.n, what)
    PROVE  Reads(t)'
<1> DEFINE token == [kind |-> kind, fodder |-> fodder, data |-> what, from |-> start.n, to |-> c.pos.n,
                     begin |-> location(start), end |-> location(c.pos)]
<1>1. /\ cursor' = c /\ at' = place /\ tokens' = Append(tokens, token) /\ fodder' = <<>>
      /\ token.kind = kind /\ token.fodder = fodder /\ token.data = what
      /\ token.from = start.n /\ token.to = c.pos.n
  BY DEF emit
<1> HIDE DEF token
<1>2. Spelled(t, token)
  BY <1>1 DEF Spelled
<1>3. /\ Len(tokens) \in Nat /\ Len(tokens') = Len(tokens) + 1 /\ tokens' # <<>>
      /\ \A k \in 1..Len(tokens) : tokens'[k] = tokens[k]
      /\ tokens'[Len(tokens) + 1] = token
  <2> DEFINE S == {tokens[k] : k \in 1..Len(tokens)} \cup {token}
  <2>1. tokens \in Seq(Lexed)
    BY DEF IInv, TypeOK
  <2>2. tokens \in Seq(S) /\ token \in S
    BY <2>1, SeqDef, LenProperties
  <2> HIDE DEF S
  <2> QED
    BY <1>1, <2>2, AppendProperties, LenProperties
<1>4. \A k \in 0..Len(tokens) : End(k)' = End(k)
  BY <1>3 DEF End
<1>5. Emitted(t)'
  <2> SUFFICES ASSUME NEW k \in 1 .. Len(tokens) + 1
               PROVE  Fills(t, tokens'[k].fodder, End(k - 1)', tokens'[k].from) /\ Spelled(t, tokens'[k])
    BY <1>3 DEF Emitted
  <2>1. k - 1 \in 0..Len(tokens) /\ End(k - 1)' = End(k - 1)
    BY <1>3, <1>4
  <2>2. CASE k \in 1..Len(tokens)
    BY <1>3, <2>1, <2>2 DEF Reads, Emitted
  <2>3. CASE k = Len(tokens) + 1
    <3>1. Fills(t, fodder, End(Len(tokens)), start.n) /\ k - 1 = Len(tokens)
      BY <1>3, <2>3 DEF Started
    <3> QED
      BY <1>1, <1>2, <1>3, <2>1, <2>3, <3>1
  <2> QED
    BY <1>3, <2>2, <2>3
<1>6. End(Len(tokens))' = c.pos.n
  BY <1>1, <1>3 DEF End
<1>7. Trails(t, <<>>, c.pos.n, c.pos.n)
  BY FillsNone, FillsTrails
<1>8. place = "done" => kind = "eof"
  OBVIOUS
<1>9. tokens'[Len(tokens')].kind = kind
  BY <1>1, <1>3
<1> QED
  BY <1>1, <1>3, <1>5, <1>6, <1>7, <1>8, <1>9 DEF Reads

\* A piece that is fodder has been read.
LEMMA FodderReads ==
    ASSUME NEW t, Reads(t), NEW c, NEW all, addFodder(c, all), Trails(t, all, End(Len(tokens)), c.pos.n)
    PROVE  Reads(t)'
<1>1. cursor' = c /\ at' = "lex" /\ fodder' = all /\ tokens' = tokens
  BY DEF addFodder
<1>2. Emitted(t)' /\ End(Len(tokens))' = End(Len(tokens))
  BY <1>1, StaysEmitted DEF Reads
<1> QED
  BY <1>1, <1>2 DEF Reads

\* In the loop of Lex a piece begins, unless white space goes on.
LEMMA LoopStarts ==
    ASSUME IInv, NEW t, Continues(t), Reads(t), On("lex"), r \notin Spaces
    PROVE  /\ start = cursor.pos /\ start.n = cursor.pos.n /\ Started(t, start.n) /\ Started(t, cursor.pos.n)
           /\ r # "eof" => start.n < Len(t) /\ r = t[start.n + 1]
<1>1. at = "lex" /\ Ready
  BY DEF On
<1>2. start = cursor.pos /\ start.n = cursor.pos.n
  BY <1>1 DEF IInv, Begun
<1>3. /\ Len(t) \in Nat /\ start.n \in Nat /\ start.n <= Len(t)
      /\ fodder \in Seq(Element)
  BY <1>2, ContinuesTyped DEF IInv, TypeOK
<1>4. Trails(t, fodder, End(Len(tokens)), start.n)
  BY <1>1, <1>2 DEF Reads
<1>5. "eof" \notin Spaces
  BY DEF Spaces, Blanks, Indents
<1>6. ~Comes(t, start.n, Spaces)
  BY <1>1, <1>2, <1>5, ComesHere
<1>7. Fills(t, fodder, End(Len(tokens)), start.n)
  BY <1>3, <1>4, <1>6, TrailsFills
<1>8. Started(t, start.n)
  BY <1>3, <1>7 DEF Started
<1> QED
  BY <1>1, <1>2, <1>8, Here

\* In the middle of a piece.
LEMMA PieceStarted ==
    ASSUME IInv, NEW t, Continues(t), Reads(t), at \notin {"lex", "done", "error"}
    PROVE  \E i \in 0..Len(t) :
              /\ i \in Nat /\ Started(t, i)
              /\ Pending(t, at, i, start.n, cursor.pos.n, quot, data, indent)
BY ContinuesTyped DEF Reads

----------------------------------------------------------------------------
(* The loop of Lex.                                                        *)

\* A token whose data are its runes is emitted.
LEMMA TokenReads ==
    ASSUME IInv, NEW t, Continues(t), Reads(t), Started(t, start.n), NEW c, NEW kind \in Kinds,
           emitToken(c, kind), Sound(c.pos), Piece(t, kind, start.n, c.pos.n),
           kind \notin {"string", "verbatim", "block"}
    PROVE  Reads(t)'
<1>1. emit(c, kind, Lexeme(c), "lex")
  BY DEF emitToken, emitFullToken
<1>2. Lexeme(c) = SubSeq(t, start.n + 1, c.pos.n)
  BY SameLexeme
<1>3. c.pos.n \in Nat /\ c.pos.n <= Len(text) /\ start.n + 1 \in Nat \ {0}
  BY Cursor, SoundInText
<1>4. Lexeme(c) \in Seq(Runes)
  BY <1>3, LexemeTyped DEF Lexeme, IInv
<1>5. Data(t, kind, start.n, c.pos.n, Lexeme(c))
  BY <1>2 DEF Data
<1> QED
  BY <1>1, <1>3, <1>4, <1>5, EmitReads

\* The steps of Lex: what begins is pending, what ends is a piece.
LEMMA EndReads ==
    ASSUME IInv, NEW t, Continues(t), Reads(t), LexEnd
    PROVE  Reads(t)'
<1>1. On("lex") /\ Ready /\ r = "eof" /\ emit(Read, "eof", Lexeme(Read), "done")
  BY DEF LexEnd, On
<1>2. r \notin Spaces
  BY <1>1 DEF Spaces, Blanks, Indents
<1>3. Started(t, start.n) /\ start.n = cursor.pos.n
  BY <1>1, <1>2, LoopStarts
<1>4. start.n = Len(t) /\ Read.pos.n = Len(t) /\ Sound(Read.pos)
  BY <1>1, <1>3, Here
<1>5. Lexeme(Read) = SubSeq(t, start.n + 1, Read.pos.n) /\ Lexeme(Read) \in Seq(Runes) /\ Read.pos.n \in Nat
  BY <1>4, SameLexeme, Cursor
<1>6. Data(t, "eof", start.n, Read.pos.n, Lexeme(Read)) /\ "eof" \in Kinds
  BY <1>5 DEF Data, Kinds
<1> HIDE DEF Read
<1> QED
  BY <1>1, <1>3, <1>4, <1>5, <1>6, EmitReads

LEMMA PunctuationReads ==
    ASSUME IInv, NEW t, Continues(t), Reads(t), LexPunctuation
    PROVE  Reads(t)'
<1>1. On("lex") /\ Ready /\ r \in Punctuation \cup {"."} /\ emitToken(Read, r)
  BY DEF LexPunctuation, On
<1>2. r \notin Spaces /\ r # "eof" /\ r \in Kinds /\ r \notin {"string", "verbatim", "block"}
  BY <1>1 DEF Spaces, Blanks, Indents, Punctuation, Kinds
<1>3. Started(t, start.n) /\ start.n = cursor.pos.n /\ start.n < Len(t) /\ r = t[start.n + 1]
  BY <1>1, <1>2, LoopStarts
<1>4. Sound(Read.pos) /\ Read.pos.n = start.n + 1
  BY <1>1, <1>2, <1>3, Here
<1>5. Piece(t, r, start.n, Read.pos.n)
  BY <1>1, <1>3, <1>4 DEF Piece, Comes
<1> QED
  BY <1>1, <1>2, <1>3, <1>4, <1>5, TokenReads

LEMMA WordReads ==
    ASSUME IInv, NEW t, Continues(t), Reads(t), LexWord
    PROVE  Reads(t)'
<1>1. On("lex") /\ Ready /\ ((r \in Digits /\ Go(Seen, "begin")) \/ (r \in Letters /\ Go(next(Seen), "identifier")))
  BY DEF LexWord, On
<1>2. r \notin Spaces /\ r # "eof"
  BY <1>1 DEF Spaces, Blanks, Indents, Digits, Letters
<1>3. Started(t, start.n) /\ start.n = cursor.pos.n /\ start.n < Len(t) /\ r = t[start.n + 1]
  BY <1>1, <1>2, LoopStarts
<1>4. start.n \in Nat /\ Len(t) \in Nat
  BY ContinuesTyped
<1>5. TypeOK /\ Seen.pos = cursor.pos /\ Sound(Seen.pos) /\ Read.pos.n = start.n + 1 /\ Read.pos = After(cursor.pos)
  BY <1>1, <1>2, <1>3, Here, Cursor
<1>6. CASE r \in Digits /\ Go(Seen, "begin")
  <2>1. at' = "begin" /\ UNCHANGED <<tokens, fodder, start>> /\ cursor' = Seen
    BY <1>6 DEF Go, GoTo
  <2>2. cursor'.pos.n = start.n /\ start'.n = start.n
    BY <1>3, <1>5, <2>1
  <2>3. Comes(t, start.n, Digits)
    BY <1>3, <1>6 DEF Comes
  <2>4. \A k \in start.n + 1 .. start.n : BeginsNumber(t, start.n, k)
    BY <1>4
  <2>5. Scans(t, "begin", start.n, start.n)
    BY <2>3, <2>4 DEF Scans, Shape
  <2>6. Pending(t, at', start.n, start'.n, cursor'.pos.n, quot', data', indent')
    BY <2>1, <2>2, <2>5 DEF Pending, NumberStates
  <2> QED
    BY <1>3, <2>1, <2>6, GoReads
<1>7. CASE r \in Letters /\ Go(next(Seen), "identifier")
  <2>1. at' = "identifier" /\ UNCHANGED <<tokens, fodder, start>> /\ cursor' = next(Seen)
    BY <1>7 DEF Go, GoTo
  <2>2. cursor'.pos.n = start.n + 1 /\ start'.n = start.n
    BY <1>5, <2>1, NextSound
  <2>3. Comes(t, start.n, Letters)
    BY <1>3, <1>7 DEF Comes
  <2>4. \A k \in start.n + 1 .. start.n + 1 : k = start.n + 1
    BY <1>4
  <2>5. AllIn(t, start.n, start.n + 1, Letters \cup Digits) /\ start.n < start.n + 1
    BY <1>3, <1>4, <1>7, <2>4 DEF AllIn
  <2>6. Pending(t, at', start.n, start'.n, cursor'.pos.n, quot', data', indent')
    BY <2>1, <2>2, <2>3, <2>5 DEF Pending
  <2> QED
    BY <1>3, <2>1, <2>6, GoReads
<1> QED
  BY <1>1, <1>6, <1>7

LEMMA QuoteReads ==
    ASSUME IInv, NEW t, Continues(t), Reads(t), LexString
    PROVE  Reads(t)'
<1>1. On("lex") /\ Ready /\ r \in Quotes /\ Quote(Read, r, "string")
  BY DEF LexString, On
<1>2. r \notin Spaces /\ r # "eof"
  BY <1>1 DEF Spaces, Blanks, Indents, Quotes
<1>3. Started(t, start.n) /\ start.n = cursor.pos.n /\ start.n < Len(t) /\ r = t[start.n + 1]
  BY <1>1, <1>2, LoopStarts
<1>4. start.n \in Nat /\ Len(t) \in Nat /\ Read.pos.n = start.n + 1
  BY <1>1, <1>2, <1>3, Here, ContinuesTyped
<1>5. at' = "string" /\ UNCHANGED <<tokens, fodder, start>> /\ cursor' = Read /\ quot' = r
  BY <1>1 DEF Quote
<1>6. Comes(t, start.n, Quotes)
  BY <1>1, <1>3 DEF Comes
<1>7. Inside(t, start.n, start.n + 1)
  BY <1>4, <1>6, StringOpens
<1>8. Pending(t, at', start.n, start'.n, cursor'.pos.n, quot', data', indent')
  BY <1>3, <1>4, <1>5, <1>7 DEF Pending
<1> QED
  BY <1>3, <1>5, <1>8, GoReads

LEMMA AtReads ==
    ASSUME IInv, NEW t, Continues(t), Reads(t), LexVerbatim
    PROVE  Reads(t)'
<1> DEFINE quote == RuneAt(cursor.pos.n + 1)
<1>1. On("lex") /\ Ready /\ r = "@"
  BY DEF LexVerbatim, On
<1>2. r \notin Spaces /\ r # "eof"
  BY <1>1 DEF Spaces, Blanks, Indents
<1>3. Started(t, start.n) /\ start.n = cursor.pos.n /\ start.n < Len(t) /\ t[start.n + 1] = "@"
  BY <1>1, <1>2, LoopStarts
<1>4. start.n \in Nat /\ Len(t) \in Nat /\ Read.pos.n = start.n + 1 /\ TypeOK /\ Sound(Read.pos)
      /\ start.n + 1 \in Nat /\ start.n + 1 + 1 = start.n + 2
  BY <1>1, <1>2, <1>3, Here, ContinuesTyped
<1>5. Sees(t, start.n + 1) /\ quote = RuneAt(start.n + 1)
  BY <1>1, <1>3, Looks
<1>6. "eof" \notin Quotes
  BY DEF Quotes
<1>7. quote \in Quotes <=> Comes(t, start.n + 1, Quotes)
  BY <1>4, <1>5, <1>6 DEF Sees, Comes
<1>8. IF quote \in Quotes THEN Quote(next(Read), quote, "verbatim") ELSE Fail
  BY DEF LexVerbatim
<1>9. CASE quote \in Quotes
  <2>1. at' = "verbatim" /\ UNCHANGED <<tokens, fodder, start>> /\ cursor' = next(Read) /\ quot' = quote
        /\ data' = <<>>
    BY <1>8, <1>9 DEF Quote
  <2>2. next(Read).pos.n = start.n + 2
    <3>1. next(Read).pos.n = IF RuneAt(Read.pos.n) = "eof" THEN Read.pos.n ELSE Read.pos.n + 1
      BY <1>4, NextSound
    <3>2. RuneAt(Read.pos.n) # "eof"
      BY <1>4, <1>5, <1>6, <1>9
    <3> QED
      BY <1>4, <3>1, <3>2
  <2>3. quote = t[start.n + 2]
    BY <1>4, <1>5, <1>6, <1>9 DEF Sees
  <2>4. Comes(t, start.n, {"@"}) /\ Comes(t, start.n + 1, Quotes)
    BY <1>3, <1>7, <1>9 DEF Comes
  <2>5. InVerbatim(t, start.n, start.n + 2, <<>>)
    BY <1>4, <2>4, VerbatimOpens
  <2> HIDE DEF quote
  <2>6. Pending(t, at', start.n, start'.n, cursor'.pos.n, quot', data', indent')
    BY <2>1, <2>2, <2>3, <2>5 DEF Pending
  <2> QED
    BY <1>3, <2>1, <2>6, GoReads
<1>10. CASE quote \notin Quotes
  <2>1. Wrong(t, start.n)
    BY <1>3, <1>7, <1>10 DEF Wrong
  <2> QED
    BY <1>3, <1>8, <1>10, <2>1, FailReads
<1> QED
  BY <1>9, <1>10

LEMMA HashReads ==
    ASSUME IInv, NEW t, Continues(t), Reads(t), LexHash
    PROVE  Reads(t)'
<1>1. On("lex") /\ Ready /\ r = "#" /\ Begin(Read, "# comment")
  BY DEF LexHash, On
<1>2. r \notin Spaces /\ r # "eof"
  BY <1>1 DEF Spaces, Blanks, Indents
<1>3. Started(t, start.n) /\ start.n = cursor.pos.n /\ start.n < Len(t) /\ t[start.n + 1] = "#"
  BY <1>1, <1>2, LoopStarts
<1>4. start.n \in Nat /\ Read.pos.n = start.n + 1
  BY <1>1, <1>2, <1>3, Here, ContinuesTyped
<1>5. at' = "# comment" /\ UNCHANGED <<tokens, fodder>> /\ cursor' = Read /\ start' = Read.pos
  BY <1>1 DEF Begin, resetTokenStart
<1>6. start'.n = start.n + 1 /\ cursor'.pos.n = start.n + 1
  BY <1>4, <1>5
<1>7. AllIn(t, start.n + 1, start.n + 1, Line)
  BY <1>4 DEF AllIn
<1>8. Comes(t, start.n, {"#"})
  BY <1>3 DEF Comes
<1>9. Pending(t, at', start.n, start'.n, cursor'.pos.n, quot', data', indent')
  BY <1>5, <1>6, <1>7, <1>8 DEF Pending
<1> QED
  BY <1>3, <1>5, <1>9, GoReads

LEMMA OtherReads ==
    ASSUME IInv, NEW t, Continues(t), Reads(t), LexOther
    PROVE  Reads(t)'
<1>1. On("lex") /\ r \in {"\\", "e'"} /\ Fail
  BY DEF LexOther
<1>2. r \notin Spaces /\ r # "eof"
  BY <1>1 DEF Spaces, Blanks, Indents
<1>3. Started(t, start.n) /\ start.n < Len(t) /\ r = t[start.n + 1]
  BY <1>1, <1>2, LoopStarts
<1>4. Wrong(t, start.n)
  BY <1>1, <1>3 DEF Wrong
<1> QED
  BY <1>1, <1>3, <1>4, FailReads

LEMMA TrailsNoSpace ==
    ASSUME NEW t, NEW all, NEW i, NEW j, Trails(t, all, i, j), all = <<>> \/ Last(all).kind # "space"
    PROVE  Fills(t, all, i, j)
<1>1. CASE all = <<>>
  <2>1. Len(all) = 0
    BY <1>1
  <2> QED
    BY <1>1, <2>1 DEF Trails, Fills
<1>2. CASE all # <<>> /\ Last(all).kind # "space"
  <2>1. ~Part(t, all[Len(all)])
    BY <1>2 DEF Part, Last
  <2> QED
    BY <2>1 DEF Trails, Fills
<1> QED
  BY <1>1, <1>2

LEMMA WhitespaceReads ==
    ASSUME IInv, NEW t, Continues(t), Reads(t), LexWhitespace
    PROVE  Reads(t)'
<1> DEFINE f == Fodder("space", Read.pos)
           longer == [fodder EXCEPT ![Len(fodder)].to = Read.pos.n]
<1>1. at = "lex" /\ Ready /\ r \in Spaces /\ addWhitespaceFodder(Read)
  BY DEF LexWhitespace, On, Spaces
<1>2. r # "eof"
  BY <1>1 DEF Spaces, Blanks, Indents
<1>3. /\ start.n = cursor.pos.n /\ start.n \in Nat /\ Len(t) \in Nat /\ Read.pos.n = start.n + 1
      /\ start.n < Len(t) /\ t[start.n + 1] \in Spaces /\ fodder \in Seq(Element)
  BY <1>1, <1>2, Here, ContinuesTyped DEF IInv, Begun, TypeOK
<1>4. Trails(t, fodder, End(Len(tokens)), start.n)
  BY <1>1, <1>3 DEF Reads
<1>5. CASE fodder = <<>> \/ Last(fodder).kind # "space"
  <2>1. addFodder(Read, Append(fodder, f))
    BY <1>1, <1>5 DEF addWhitespaceFodder
  <2>2. Fills(t, fodder, End(Len(tokens)), start.n)
    BY <1>4, <1>5, TrailsNoSpace
  <2>3. f = [kind |-> "space", from |-> start.n, to |-> start.n + 1]
    BY <1>3 DEF Fodder
  <2>4. f \in Element /\ f.kind = "space" /\ f.from = start.n /\ f.to = start.n + 1
    BY <1>3, <2>3 DEF Element
  <2>5. Opens(f) = start.n /\ Closes(f) = start.n + 1
    BY <2>4, SpaceEnds
  <2>6. \A k \in start.n + 1 .. start.n + 1 : k = start.n + 1
    BY <1>3
  <2>7. AllIn(t, start.n, start.n + 1, Spaces)
    BY <1>3, <2>6 DEF AllIn
  <2>8. Part(t, f)
    BY <1>3, <2>4, <2>7 DEF Part
  <2> HIDE DEF f
  <2>9. Trails(t, Append(fodder, f), End(Len(tokens)), Closes(f))
    BY <1>3, <2>2, <2>4, <2>5, <2>8, FodderMore
  <2> QED
    BY <1>3, <2>1, <2>5, <2>9, FodderReads
<1>6. CASE ~(fodder = <<>> \/ Last(fodder).kind # "space")
  <2>1. addFodder(Read, longer)
    BY <1>1, <1>6 DEF addWhitespaceFodder
  <2>2. fodder # <<>> /\ fodder[Len(fodder)].kind = "space"
    BY <1>6 DEF Last
  <2>3. Trails(t, [fodder EXCEPT ![Len(fodder)].to = start.n + 1], End(Len(tokens)), start.n + 1)
    BY <1>3, <1>4, <2>2, SpaceMore
  <2>4. Trails(t, longer, End(Len(tokens)), Read.pos.n)
    BY <1>3, <2>3
  <2> HIDE DEF longer
  <2> QED
    BY <2>1, <2>4, FodderReads
<1> QED
  BY <1>5, <1>6

LEMMA SymbolReads ==
    ASSUME IInv, NEW t, Continues(t), Reads(t), LexSymbol
    PROVE  Reads(t)'
<1> DEFINE c == IF r = "/" THEN backup(next(next(Seen))) ELSE next(Seen)
<1>1. On("lex") /\ Ready /\ r \in Symbols
  BY DEF LexSymbol, On
<1>2. r \notin Spaces /\ r # "eof"
  BY <1>1 DEF Spaces, Blanks, Indents, Symbols
<1>3. Started(t, start.n) /\ start.n = cursor.pos.n /\ start.n < Len(t) /\ t[start.n + 1] = r
  BY <1>1, <1>2, LoopStarts
<1>4. start.n \in Nat /\ Len(t) \in Nat /\ Read.pos.n = start.n + 1 /\ TypeOK /\ Sound(Read.pos)
      /\ Sound(Seen.pos) /\ Seen.pos = cursor.pos /\ Read.pos = After(cursor.pos)
  BY <1>1, <1>2, <1>3, Here, ContinuesTyped, Cursor
<1>5. c.pos = Read.pos
  <2>1. next(Seen).pos = Read.pos
    BY <1>4, NextSound
  <2>2. backup(next(next(Seen))).pos = next(Seen).pos
    BY <1>4, <2>1, NextSound
  <2> QED
    BY <2>1, <2>2
<1>6. /\ r = "/" /\ Follows(<<"/">>) <=> Spells(t, start.n, <<"/", "/">>)
      /\ r = "/" /\ Follows(<<"*">>) <=> Spells(t, start.n, <<"/", "*">>)
      /\ r = "|" /\ Follows(<<"|", "|">>) <=> Spells(t, start.n, <<"|", "|", "|">>)
  BY <1>1, <1>3, FollowsOne, FollowsTwo
<1>7. \/ Spells(t, start.n, <<"/", "/">>) /\ Begin(next(c), "// comment")
      \/ Spells(t, start.n, <<"/", "*">>) /\ Begin(next(c), "/* comment")
      \/ Spells(t, start.n, <<"|", "|", "|">>) /\ GoTo(acceptN(c, 2), "block") /\ data' = <<>>
      \/ /\ ~Spells(t, start.n, <<"/", "/">>) /\ ~Spells(t, start.n, <<"/", "*">>)
         /\ ~Spells(t, start.n, <<"|", "|", "|">>) /\ Go(c, "operator")
  <2> HIDE DEF c
  <2>1. (CASE r = "/" /\ Follows(<<"/">>) -> Begin(next(c), "// comment")
           [] r = "/" /\ Follows(<<"*">>) -> Begin(next(c), "/* comment")
           [] r = "|" /\ Follows(<<"|", "|">>) -> GoTo(acceptN(c, 2), "block") /\ data' = <<>>
           [] OTHER -> Go(c, "operator"))
    BY DEF LexSymbol, c
  <2> QED
    BY <1>6, <2>1
<1> HIDE DEF c
<1>8. ASSUME Spells(t, start.n, <<"/", "/">>) \/ Spells(t, start.n, <<"/", "*">>)
      PROVE  next(c).pos.n = start.n + 2
  <2>1. start.n + 2 <= Len(t)
    BY <1>4, <1>8, SpellsPair
  <2>2. Sees(t, start.n + 1)
    BY <1>1, <1>3, Looks
  <2>3. RuneAt(start.n + 1) # "eof"
    BY <1>4, <2>1, <2>2 DEF Sees
  <2>4. next(c).pos.n = IF RuneAt(c.pos.n) = "eof" THEN c.pos.n ELSE c.pos.n + 1
    BY <1>4, <1>5, NextSound
  <2> QED
    BY <1>4, <1>5, <2>3, <2>4
<1>9. AllIn(t, start.n + 2, start.n + 2, Line)
  BY <1>4 DEF AllIn
<1>10. CASE Spells(t, start.n, <<"/", "/">>) /\ Begin(next(c), "// comment")
  <2>1. /\ at' = "// comment" /\ UNCHANGED <<tokens, fodder>>
        /\ start'.n = start.n + 2 /\ cursor'.pos.n = start.n + 2
    BY <1>8, <1>10 DEF Begin, resetTokenStart
  <2>2. Pending(t, at', start.n, start'.n, cursor'.pos.n, quot', data', indent')
    BY <1>9, <1>10, <2>1 DEF Pending
  <2> QED
    BY <1>3, <2>1, <2>2, GoReads
<1>11. CASE Spells(t, start.n, <<"/", "*">>) /\ Begin(next(c), "/* comment")
  <2>1. /\ at' = "/* comment" /\ UNCHANGED <<tokens, fodder>>
        /\ start'.n = start.n + 2 /\ cursor'.pos.n = start.n + 2
    BY <1>8, <1>11 DEF Begin, resetTokenStart
  <2>2. start.n + 2 <= start.n + 2 /\ \A k \in CommentEnds(t, start.n) : start.n + 2 + 1 < k
    BY <1>4 DEF CommentEnds
  <2>3. InComment(t, start.n, start.n + 2)
    BY <1>4, <1>11, <2>2 DEF InComment
  <2>4. Pending(t, at', start.n, start'.n, cursor'.pos.n, quot', data', indent')
    BY <2>1, <2>3 DEF Pending
  <2> QED
    BY <1>3, <2>1, <2>4, GoReads
<1>12. CASE Spells(t, start.n, <<"|", "|", "|">>) /\ GoTo(acceptN(c, 2), "block") /\ data' = <<>>
  <2>1. /\ at' = "block" /\ UNCHANGED <<tokens, fodder, start>> /\ cursor' = acceptN(c, 2) /\ data' = <<>>
    BY <1>12 DEF GoTo
  <2>2. cursor'.pos.n = start.n + 3 /\ start'.n = start.n
    <3>1. cursor'.pos.n = c.pos.n + 2
      BY <2>1 DEF acceptN, Forward, Moved
    <3> QED
      BY <1>4, <1>5, <2>1, <3>1
  <2>3. AllIn(t, start.n + 3, start.n + 3, Blanks) /\ start.n + 3 <= start.n + 3
    BY <1>4 DEF AllIn
  <2>4. InHeader(t, start.n, start.n + 3)
    BY <1>12, <2>3 DEF InHeader
  <2>5. Pending(t, at', start.n, start'.n, cursor'.pos.n, quot', data', indent')
    BY <2>1, <2>2, <2>4 DEF Pending
  <2> QED
    BY <1>3, <2>1, <2>5, GoReads
<1>13. CASE /\ ~Spells(t, start.n, <<"/", "/">>) /\ ~Spells(t, start.n, <<"/", "*">>)
            /\ ~Spells(t, start.n, <<"|", "|", "|">>) /\ Go(c, "operator")
  <2>1. at' = "operator" /\ UNCHANGED <<tokens, fodder, start>> /\ cursor'.pos.n = start.n + 1 /\ start'.n = start.n
    BY <1>4, <1>5, <1>13 DEF Go, GoTo
  <2>2. ~Cut(t, start.n)
    BY <1>13 DEF Cut
  <2>3. Comes(t, start.n, Symbols)
    BY <1>1, <1>3 DEF Comes
  <2>4. start.n + 1 <= start.n + 1 /\ \A k \in OperatorEnds(t, start.n) : start.n + 1 <= k
    BY <1>4 DEF OperatorEnds
  <2>5. InOperator(t, start.n, start.n + 1)
    BY <2>2, <2>3, <2>4 DEF InOperator
  <2>6. Pending(t, at', start.n, start'.n, cursor'.pos.n, quot', data', indent')
    BY <2>1, <2>5 DEF Pending
  <2> QED
    BY <1>3, <2>1, <2>6, GoReads
<1> QED
  BY <1>7, <1>10, <1>11, <1>12, <1>13

----------------------------------------------------------------------------
(* Numbers, words and strings.                                             *)

\* lexNumber ends where a rune is of no use.
LEMMA StepLeads ==
    ASSUME NEW state \in NumberStates
    PROVE  \/ /\ LeadsTo(state, r, NumberStep(state)) /\ NumberStep(state) \in NumberStates \ {"begin"}
              /\ state # "begin" => r # "eof"
           \/ /\ NumberStep(state) = "junk" /\ state \in {"after dot", "after e", "after sign"}
              /\ Useless(state, r)
           \/ /\ NumberStep(state) = "end" /\ Useless(state, r)
              /\ state \in {"after zero", "after one to nine", "after digit", "after exponent"}
<1>1. "eof" \notin Digits /\ "." \notin Digits /\ "e" \notin Digits /\ "+" \notin Digits /\ "-" \notin Digits
  BY DEF Digits
<1>2. CASE state = "begin"
  <2>1. NumberStep(state) = IF r = "0" THEN "after zero" ELSE "after one to nine"
    BY <1>2 DEF NumberStep
  <2> QED
    BY <1>2, <2>1 DEF LeadsTo, NumberStates
<1>3. CASE state = "after zero"
  <2>1. NumberStep(state) = IF r = "." THEN "after dot" ELSE IF r = "e" THEN "after e" ELSE "end"
    BY <1>1, <1>3 DEF NumberStep
  <2> QED
    BY <1>1, <1>3, <2>1 DEF LeadsTo, NumberStates, Useless
<1>4. CASE state = "after one to nine"
  <2>1. NumberStep(state) = IF r \in Digits THEN "after one to nine" ELSE IF r = "." THEN "after dot"
                            ELSE IF r = "e" THEN "after e" ELSE "end"
    BY <1>1, <1>4 DEF NumberStep
  <2> QED
    BY <1>1, <1>4, <2>1 DEF LeadsTo, NumberStates, Useless
<1>5. CASE state = "after dot"
  <2>1. NumberStep(state) = IF r \in Digits THEN "after digit" ELSE "junk"
    BY <1>1, <1>5 DEF NumberStep
  <2> QED
    BY <1>1, <1>5, <2>1 DEF LeadsTo, NumberStates, Useless
<1>6. CASE state = "after digit"
  <2>1. NumberStep(state) = IF r \in Digits THEN "after digit" ELSE IF r = "e" THEN "after e" ELSE "end"
    BY <1>1, <1>6 DEF NumberStep
  <2> QED
    BY <1>1, <1>6, <2>1 DEF LeadsTo, NumberStates, Useless
<1>7. CASE state = "after e"
  <2>1. NumberStep(state) = IF r \in Digits THEN "after exponent" ELSE IF r \in Signs THEN "after sign" ELSE "junk"
    BY <1>1, <1>7 DEF NumberStep, Signs
  <2> QED
    BY <1>1, <1>7, <2>1 DEF LeadsTo, NumberStates, Useless, Signs
<1>8. CASE state = "after sign"
  <2>1. NumberStep(state) = IF r \in Digits THEN "after exponent" ELSE "junk"
    BY <1>1, <1>8 DEF NumberStep
  <2> QED
    BY <1>1, <1>8, <2>1 DEF LeadsTo, NumberStates, Useless
<1>9. CASE state = "after exponent"
  <2>1. NumberStep(state) = IF r \in Digits THEN "after exponent" ELSE "end"
    BY <1>1, <1>9 DEF NumberStep
  <2> QED
    BY <1>1, <1>9, <2>1 DEF LeadsTo, NumberStates, Useless
<1> QED
  BY <1>2, <1>3, <1>4, <1>5, <1>6, <1>7, <1>8, <1>9 DEF NumberStates

\* The steps within a piece: it goes on, it ends, or there is none.
LEMMA NumberReads ==
    ASSUME IInv, NEW t, Continues(t), Reads(t), LexNumber
    PROVE  Reads(t)'
<1> DEFINE j == cursor.pos.n
           to == NumberStep(at)
<1>1. at \in NumberStates /\ Ready /\ at \notin {"lex", "done", "error"}
  BY DEF LexNumber, NumberStates
<1>2. PICK i \in 0..Len(t) :
          i \in Nat /\ Started(t, i) /\ Pending(t, at, i, start.n, cursor.pos.n, quot, data, indent)
  BY <1>1, PieceStarted
<1>3. start.n = i /\ Scans(t, at, i, j)
  BY <1>1, <1>2 DEF Pending, NumberStates
<1>4. /\ Seen.pos = cursor.pos /\ Sound(Seen.pos)
      /\ r = "eof" => j = Len(t)
      /\ r # "eof" => j < Len(t) /\ r = t[j + 1] /\ Read.pos.n = j + 1
      /\ Len(t) \in Nat /\ j \in Nat /\ j <= Len(t)
  BY <1>1, Here, ContinuesTyped
<1> HIDE DEF j
<1>5. i < Len(t) /\ t[i + 1] \in Digits /\ Comes(t, i, Digits) /\ Shape(t, at, i, j)
  BY <1>3 DEF Scans, Comes
<1>6. at = "begin" => r # "eof"
  <2> SUFFICES ASSUME at = "begin"
               PROVE  r # "eof"
    OBVIOUS
  <2>1. j = i
    BY <1>5 DEF Shape
  <2> QED
    BY <1>4, <1>5, <2>1
<1>7. (CASE to = "junk" -> Fail [] to = "end" -> emitToken(Seen, "number") [] OTHER -> Go(Read, to))
  BY DEF LexNumber
<1> HIDE DEF to
<1>8. CASE LeadsTo(at, r, to) /\ to \in NumberStates \ {"begin"} /\ (at # "begin" => r # "eof")
  <2>1. r # "eof" /\ to \notin {"junk", "end", "lex", "done", "error"} /\ to \in NumberStates
    BY <1>6, <1>8 DEF NumberStates
  <2>2. Go(Read, to)
    BY <1>7, <2>1
  <2>3. Scans(t, to, i, j + 1)
    BY <1>2, <1>3, <1>4, <1>8, <2>1, NumberGoes
  <2>4. /\ at' = to /\ UNCHANGED <<tokens, fodder, start>>
        /\ cursor'.pos.n = j + 1 /\ start'.n = i
    BY <1>3, <1>4, <2>1, <2>2 DEF Go, GoTo
  <2>5. Pending(t, at', i, start'.n, cursor'.pos.n, quot', data', indent')
    BY <2>1, <2>3, <2>4 DEF Pending
  <2> QED
    BY <1>2, <2>1, <2>4, <2>5, GoReads
<1>9. ASSUME at # "begin", Useless(at, r)
      PROVE  j < Len(t) => ~BeginsNumber(t, i, j + 1)
  <2> SUFFICES ASSUME j < Len(t)
               PROVE  ~BeginsNumber(t, i, j + 1)
    OBVIOUS
  <2>1. Useless(at, t[j + 1])
    BY <1>4, <1>9
  <2> QED
    BY <1>2, <1>4, <1>5, <1>9, <2>1, NumberStops
<1>10. CASE to = "junk" /\ at \in {"after dot", "after e", "after sign"} /\ Useless(at, r)
  <2>1. at # "begin" /\ Fail
    BY <1>7, <1>10
  <2>2. j < Len(t) => ~BeginsNumber(t, i, j + 1)
    BY <1>9, <1>10, <2>1
  <2>3. \A k \in i..Len(t) : Longest(t, i, k) => k = j
    BY <1>2, <1>3, <1>4, <2>1, <2>2, LongestNumber
  <2>4. ~Number(t, i, j)
    BY <1>2, <1>4, <1>5, <1>10, <2>1, ShapeBegins
  <2>5. Wrong(t, i)
    BY <1>5, <2>3, <2>4 DEF Wrong
  <2> QED
    BY <1>2, <1>5, <2>1, <2>5, FailReads
<1>11. CASE /\ to = "end" /\ Useless(at, r)
            /\ at \in {"after zero", "after one to nine", "after digit", "after exponent"}
  <2>1. at # "begin" /\ emitToken(Seen, "number")
    BY <1>7, <1>11
  <2>2. j < Len(t) => ~BeginsNumber(t, i, j + 1)
    BY <1>9, <1>11, <2>1
  <2>3. Longest(t, i, j)
    BY <1>2, <1>3, <1>4, <2>1, <2>2, LongestNumber
  <2>4. Number(t, i, j)
    BY <1>2, <1>4, <1>5, <1>11, <2>1, ShapeBegins
  <2>5. Piece(t, "number", i, j)
    BY <1>5, <2>3, <2>4 DEF Piece
  <2>6. "number" \in Kinds /\ Seen.pos.n = j
    BY <1>4 DEF Kinds, j
  <2> QED
    BY <1>2, <1>3, <1>4, <2>1, <2>5, <2>6, TokenReads
<1> QED
  BY <1>1, <1>8, <1>10, <1>11, StepLeads DEF to

LEMMA IdentifierReads ==
    ASSUME IInv, NEW t, Continues(t), Reads(t), LexIdentifier
    PROVE  Reads(t)'
<1> DEFINE j == cursor.pos.n
           word == Letters \cup Digits
           kind == IF Lexeme(Seen) \in Keywords THEN "keyword" ELSE "identifier"
<1>1. at = "identifier" /\ Ready
  BY DEF LexIdentifier, On
<1>2. PICK i \in 0..Len(t) :
          i \in Nat /\ Started(t, i) /\ Pending(t, at, i, start.n, cursor.pos.n, quot, data, indent)
  BY <1>1, PieceStarted
<1>3. start.n = i /\ Comes(t, i, Letters) /\ i < j /\ AllIn(t, i, j, word)
  BY <1>1, <1>2 DEF Pending, NumberStates
<1>4. /\ Seen.pos = cursor.pos /\ Sound(Seen.pos)
      /\ r # "eof" => j < Len(t) /\ r = t[j + 1] /\ Read.pos.n = j + 1
      /\ Len(t) \in Nat /\ j \in Nat /\ j <= Len(t)
  BY <1>1, Here, ContinuesTyped
<1>5. "eof" \notin word
  BY DEF Letters, Digits
<1>6. r \in word <=> Comes(t, j, word)
  BY <1>1, <1>5, ComesHere
<1> HIDE DEF j, word
<1>7. CASE r \in word
  <2>1. Go(Read, "identifier")
    BY <1>7 DEF LexIdentifier, word
  <2>2. r # "eof" /\ t[j + 1] \in word /\ i <= j + 1 /\ i < j + 1
    BY <1>2, <1>3, <1>4, <1>5, <1>7
  <2>3. AllIn(t, i, j + 1, word)
    BY <1>2, <1>3, <1>4, <2>2, AllInNext
  <2>4. /\ at' = "identifier" /\ UNCHANGED <<tokens, fodder, start>>
        /\ cursor'.pos.n = j + 1 /\ start'.n = i
    BY <1>3, <1>4, <2>1, <2>2 DEF Go, GoTo
  <2>5. Pending(t, at', i, start'.n, cursor'.pos.n, quot', data', indent')
    BY <1>3, <2>2, <2>3, <2>4 DEF Pending, word
  <2> QED
    BY <1>2, <2>4, <2>5, GoReads
<1>8. CASE r \notin word
  <2>1. emitToken(Seen, kind)
    BY <1>8 DEF LexIdentifier, word
  <2>2. Lexeme(Seen) = SubSeq(t, i + 1, j)
    BY <1>3, <1>4, SameLexeme DEF j
  <2>3. j \in i..Len(t)
    BY <1>2, <1>3, <1>4
  <2>4. Run(t, i, j, word)
    BY <1>3, <1>6, <1>8, <2>3 DEF Run
  <2>5. kind \in {"identifier", "keyword"} /\ (kind = "keyword" <=> SubSeq(t, i + 1, j) \in Keywords)
    BY <2>2
  <2> HIDE DEF kind
  <2>6. Piece(t, kind, i, j)
    BY <1>3, <2>4, <2>5 DEF Piece, word
  <2>7. kind \in Kinds /\ Seen.pos.n = j /\ kind \notin {"string", "verbatim", "block"}
    BY <1>4, <2>5 DEF Kinds, j
  <2> QED
    BY <1>2, <1>3, <1>4, <2>1, <2>6, <2>7, TokenReads
<1> QED
  BY <1>7, <1>8

LEMMA StringReads ==
    ASSUME IInv, NEW t, Continues(t), Reads(t), LexStringRune
    PROVE  Reads(t)'
<1> DEFINE j == cursor.pos.n
           peeked == backup(next(Read))
<1>1. at = "string" /\ Ready
  BY DEF LexStringRune, On
<1>2. PICK i \in 0..Len(t) :
          i \in Nat /\ Started(t, i) /\ Pending(t, at, i, start.n, cursor.pos.n, quot, data, indent)
  BY <1>1, PieceStarted
<1>3. start.n = i /\ quot = t[i + 1] /\ Inside(t, i, j)
  BY <1>1, <1>2 DEF Pending, NumberStates
<1>4. /\ TypeOK /\ Sound(Read.pos)
      /\ r = "eof" => j = Len(t)
      /\ r # "eof" => j < Len(t) /\ r = t[j + 1] /\ Read.pos.n = j + 1
      /\ Len(t) \in Nat /\ j \in Nat /\ j <= Len(t) /\ j + 1 + 1 = j + 2 /\ j + 1 \in Nat
  BY <1>1, Here, ContinuesTyped
<1>5. Comes(t, i, Quotes) /\ i < Len(t) /\ t[i + 1] \in Quotes
  BY <1>3 DEF Inside, Comes
<1>6. peeked.pos = Read.pos
  BY <1>4, NextSound
<1>7. Sees(t, j + 1)
  BY <1>1, Looks
<1> HIDE DEF j, peeked
<1>8. CASE r = "eof"
  <2>1. Fail
    <3>1. r # quot
      BY <1>3, <1>5, <1>8 DEF Quotes
    <3> QED
      BY <1>8, <3>1 DEF LexStringRune
  <2>2. StringEnds(t, i) = {}
    BY <1>2, <1>3, <1>4, <1>8 DEF Inside, StringEnds
  <2>3. Wrong(t, i)
    BY <1>5, <2>2 DEF Wrong
  <2> QED
    BY <1>2, <1>5, <2>1, <2>3, FailReads
<1>9. CASE r # "eof" /\ r = quot
  <2> DEFINE what == SubSeq(text, start.n + 2, Read.pos.n - 1)
  <2>1. emit(Read, "string", what, "lex")
    BY <1>9 DEF LexStringRune, emitString, emitFullToken
  <2>2. IsFirst(j + 1, StringEnds(t, i)) /\ Read.pos.n = j + 1
    BY <1>2, <1>3, <1>4, <1>9, StringCloses
  <2>3. Piece(t, "string", start.n, Read.pos.n)
    BY <1>3, <1>5, <2>2 DEF Piece
  <2>4. start.n + 2 \in Nat \ {0} /\ Read.pos.n - 1 \in Int /\ Read.pos.n - 1 <= Len(text) /\ Read.pos.n \in Nat
    <3>1. start.n \in Nat /\ Read.pos.n \in Nat /\ Len(text) \in Nat /\ Read.pos.n <= Len(text)
      BY Cursor
    <3> QED
      BY <3>1
  <2>5. what \in Seq(Runes) /\ what = SubSeq(t, start.n + 2, Read.pos.n - 1)
    BY <1>4, <2>4, LexemeTyped, SameRunes
  <2> HIDE DEF what
  <2>6. Data(t, "string", start.n, Read.pos.n, what) /\ "string" \in Kinds
    BY <2>5 DEF Data, Kinds
  <2> QED
    BY <1>2, <1>3, <2>1, <2>3, <2>4, <2>5, <2>6, EmitReads
<1>10. CASE r # "eof" /\ r # quot
  <2>1. Go(IF r # "\\" THEN Read ELSE IF RuneAt(peeked.pos.n) # "eof" THEN next(peeked) ELSE peeked, "string")
    BY <1>10 DEF LexStringRune, peeked
  <2>2. /\ at' = "string" /\ UNCHANGED <<tokens, fodder, start, quot>>
        /\ cursor' = IF r # "\\" THEN Read ELSE IF RuneAt(peeked.pos.n) # "eof" THEN next(peeked) ELSE peeked
    BY <2>1 DEF Go, GoTo
  <2>3. RuneAt(peeked.pos.n) = RuneAt(j + 1) /\ peeked.pos.n = j + 1 /\ j < Len(t) /\ t[j + 1] # t[i + 1]
        /\ Read.pos.n = j + 1
    BY <1>3, <1>4, <1>6, <1>10
  <2>4. Inside(t, i, cursor'.pos.n)
    <3>1. CASE r # "\\"
      <4>1. Inside(t, i, j + 1)
        BY <1>2, <1>3, <1>4, <1>10, <2>3, <3>1, StringNext
      <4> QED
        BY <2>2, <2>3, <3>1, <4>1
    <3>2. CASE r = "\\" /\ RuneAt(j + 1) # "eof"
      <4>1. j + 1 < Len(t)
        BY <1>7, <3>2 DEF Sees
      <4>2. Inside(t, i, j + 2)
        BY <1>2, <1>3, <1>4, <1>10, <2>3, <3>2, <4>1, StringNext
      <4>3. next(peeked).pos.n = j + 2
        <5>1. Sound(peeked.pos)
          BY <1>4, <1>6
        <5>2. next(peeked).pos.n = IF RuneAt(peeked.pos.n) = "eof" THEN peeked.pos.n ELSE peeked.pos.n + 1
          BY <1>4, <5>1, NextSound
        <5> QED
          BY <1>4, <2>3, <3>2, <5>2
      <4>4. cursor' = next(peeked)
        BY <2>2, <2>3, <3>2
      <4> QED
        BY <4>2, <4>3, <4>4
    <3>3. CASE r = "\\" /\ RuneAt(j + 1) = "eof"
      <4>1. j + 1 = Len(t)
        <5>1. j + 1 >= Len(t)
          BY <1>7, <3>3 DEF Sees
        <5> QED
          BY <1>4, <2>3, <5>1
      <4>2. Inside(t, i, j + 1)
        BY <1>2, <1>3, <1>4, <1>10, <2>3, <3>3, <4>1, StringNext
      <4>3. cursor' = peeked
        BY <2>2, <2>3, <3>3
      <4> QED
        BY <2>3, <4>2, <4>3
    <3> QED
      BY <3>1, <3>2, <3>3
  <2>5. Pending(t, at', i, start'.n, cursor'.pos.n, quot', data', indent')
    BY <1>3, <2>2, <2>4 DEF Pending
  <2> QED
    BY <1>2, <2>2, <2>5, GoReads
<1> QED
  BY <1>8, <1>9, <1>10

LEMMA VerbatimReads ==
    ASSUME IInv, NEW t, Continues(t), Reads(t), LexVerbatimRune
    PROVE  Reads(t)'
<1> DEFINE j == cursor.pos.n
           c == backup(next(Read))
<1>1. at = "verbatim" /\ Ready
  BY DEF LexVerbatimRune, On
<1>2. PICK i \in 0..Len(t) :
          i \in Nat /\ Started(t, i) /\ Pending(t, at, i, start.n, cursor.pos.n, quot, data, indent)
  BY <1>1, PieceStarted
<1>3. start.n = i /\ quot = t[i + 2] /\ InVerbatim(t, i, j, data)
  BY <1>1, <1>2 DEF Pending, NumberStates
<1>4. /\ TypeOK /\ Sound(Read.pos) /\ data \in Seq(Runes) /\ t \in Seq(Runes)
      /\ r = "eof" => j = Len(t)
      /\ r # "eof" => j < Len(t) /\ r = t[j + 1] /\ Read.pos.n = j + 1
      /\ Len(t) \in Nat /\ j \in Nat /\ j <= Len(t) /\ j + 1 + 1 = j + 2 /\ j + 1 - 1 = j /\ j + 1 \in Nat
  <2>1. t \in Seq(Runes) /\ Len(t) \in Nat /\ j \in Nat /\ j <= Len(t)
    BY ContinuesTyped
  <2>2. j + 1 + 1 = j + 2 /\ j + 1 - 1 = j /\ j + 1 \in Nat
    BY <2>1
  <2>3. data \in Seq(Runes)
    BY DEF IInv, TypeOK
  <2> QED
    BY <1>1, <2>1, <2>2, <2>3, Here
<1>5. /\ Comes(t, i, {"@"}) /\ Comes(t, i + 1, Quotes) /\ i < Len(t) /\ t[i + 1] = "@"
      /\ Keeps(t, Undoubled(t, i, j), data)
  BY <1>3 DEF InVerbatim, Comes
<1>6. quot \in Quotes
  <2>1. i + 1 + 1 = i + 2
    BY <1>2
  <2> QED
    BY <1>3, <1>5, <2>1 DEF Comes
<1>7. c.pos = Read.pos
  BY <1>4, NextSound
<1>8. Sees(t, j + 1)
  BY <1>1, Looks
<1> HIDE DEF j, c
<1>9. RuneAt(j + 1) = quot <=> Comes(t, j + 1, {quot})
  <2>1. quot # "eof"
    BY <1>6 DEF Quotes
  <2> QED
    BY <1>4, <1>8, <2>1 DEF Sees, Comes
<1>10. CASE r = "eof"
  <2>1. Fail
    <3>1. r # quot
      BY <1>6, <1>10 DEF Quotes
    <3> QED
      BY <1>10, <3>1 DEF LexVerbatimRune
  <2>2. VerbatimEnds(t, i) = {}
    <3>1. \A k \in VerbatimEnds(t, i) : j < k
      BY <1>3 DEF InVerbatim
    <3>2. \A k \in VerbatimEnds(t, i) : k \in Nat /\ k <= Len(t)
      BY <1>2, <1>4 DEF VerbatimEnds
    <3> QED
      BY <1>4, <1>10, <3>1, <3>2
  <2>3. Wrong(t, i)
    BY <1>5, <2>2 DEF Wrong
  <2> QED
    BY <1>2, <1>5, <2>1, <2>3, FailReads
<1>11. CASE r # "eof" /\ r = quot /\ RuneAt(j + 1) # quot
  <2>1. c.pos.n = j + 1
    BY <1>4, <1>7, <1>11
  <2>2. emit(c, "verbatim", data, "lex")
    BY <1>11, <2>1 DEF LexVerbatimRune, emitFullToken, c
  <2>3. t[j + 1] = t[i + 2] /\ ~Comes(t, j + 1, {t[i + 2]}) /\ j < Len(t)
    BY <1>3, <1>4, <1>9, <1>11
  <2>4. IsFirst(j + 1, VerbatimEnds(t, i))
    BY <1>2, <1>3, <1>4, <2>3, VerbatimNext
  <2>5. Piece(t, "verbatim", start.n, c.pos.n)
    BY <1>3, <1>5, <2>1, <2>4 DEF Piece
  <2>6. Data(t, "verbatim", start.n, c.pos.n, data) /\ "verbatim" \in Kinds
    BY <1>3, <1>4, <1>5, <2>1 DEF Data, Kinds
  <2> QED
    BY <1>2, <1>3, <1>4, <2>1, <2>2, <2>5, <2>6, EmitReads
<1>12. ASSUME NEW k \in Nat, GoTo(IF r = quot THEN next(c) ELSE Read, "verbatim"), data' = Append(data, r),
              (IF r = quot THEN next(c) ELSE Read).pos.n = k, InVerbatim(t, i, k, Append(data, r))
       PROVE  Reads(t)'
  <2> DEFINE d == IF r = quot THEN next(c) ELSE Read
  <2>1. GoTo(d, "verbatim") /\ d.pos.n = k
    BY <1>12
  <2> HIDE DEF d
  <2>2. at' = "verbatim" /\ UNCHANGED <<tokens, fodder, start, quot>> /\ cursor'.pos.n = k
    BY <2>1 DEF GoTo
  <2>3. Pending(t, at', i, start'.n, cursor'.pos.n, quot', data', indent')
    BY <1>3, <1>12, <2>2 DEF Pending
  <2> QED
    BY <1>2, <2>2, <2>3, GoReads
<1>13. CASE r # "eof" /\ ~(r = quot /\ RuneAt(j + 1) # quot)
  <2>1. c.pos.n = j + 1 /\ j < Len(t) /\ r = t[j + 1] /\ Read.pos.n = j + 1
    BY <1>4, <1>7, <1>13
  <2>2. GoTo(IF r = quot THEN next(c) ELSE Read, "verbatim") /\ data' = Append(data, r)
    BY <1>13, <2>1 DEF LexVerbatimRune, c
  <2>3. CASE r # quot
    <3>1. InVerbatim(t, i, j + 1, Append(data, r))
      BY <1>2, <1>3, <1>4, <2>1, <2>3, VerbatimNext
    <3>2. (IF r = quot THEN next(c) ELSE Read).pos.n = j + 1
      BY <2>1, <2>3
    <3> QED
      BY <1>4, <1>12, <2>2, <3>1, <3>2
  <2>4. CASE r = quot
    <3>1. Comes(t, j + 1, {t[i + 2]}) /\ t[j + 1] = t[i + 2]
      BY <1>3, <1>9, <1>13, <2>1, <2>4
    <3>2. InVerbatim(t, i, j + 2, Append(data, r))
      BY <1>2, <1>3, <1>4, <2>1, <3>1, VerbatimNext
    <3>3. next(c).pos.n = j + 2
      <4>1. Sound(c.pos)
        BY <1>4, <1>7
      <4>2. next(c).pos.n = IF RuneAt(c.pos.n) = "eof" THEN c.pos.n ELSE c.pos.n + 1
        BY <1>4, <4>1, NextSound
      <4>3. RuneAt(j + 1) # "eof"
        BY <1>6, <1>13, <2>4 DEF Quotes
      <4> QED
        BY <1>4, <2>1, <4>2, <4>3
    <3>4. (IF r = quot THEN next(c) ELSE Read).pos.n = j + 2 /\ j + 2 \in Nat
      BY <1>4, <2>4, <3>3
    <3> QED
      BY <1>12, <2>2, <3>2, <3>4
  <2> QED
    BY <2>3, <2>4
<1> QED
  BY <1>10, <1>11, <1>13

----------------------------------------------------------------------------
(* Comments and operators.                                                 *)

\* A comment has been read up to rune `to`.
LEMMA CommentFills ==
    ASSUME NEW t, IInv, NEW i, Started(t, i), NEW kind \in Comments, NEW to \in Nat,
           i = start.n - (IF kind = "# comment" THEN 1 ELSE 2),
           NEW j, j = to + (IF kind = "/* comment" THEN 2 ELSE 0), Piece(t, kind, i, j)
    PROVE  Trails(t, Append(fodder, [kind |-> kind, from |-> start.n, to |-> to]), End(Len(tokens)), j)
<1> DEFINE f == [kind |-> kind, from |-> start.n, to |-> to]
<1>1. start.n \in Nat /\ fodder \in Seq(Element)
  BY Cursor
<1>2. f \in Element /\ f.kind = kind /\ f.from = start.n /\ f.to = to
  BY <1>1 DEF Element
<1>3. kind # "space"
  BY DEF Comments
<1> HIDE DEF f
<1>4. Opens(f) = i /\ Closes(f) = j
  BY <1>2, <1>3 DEF Opens, Closes
<1>5. Fills(t, fodder, End(Len(tokens)), i)
  BY DEF Started
<1>6. Trails(t, Append(fodder, f), End(Len(tokens)), Closes(f))
  BY <1>1, <1>2, <1>4, <1>5, FodderMore
<1> QED
  BY <1>4, <1>6 DEF f

LEMMA LineCommentReads ==
    ASSUME IInv, NEW t, Continues(t), Reads(t), LexLineComment
    PROVE  Reads(t)'
<1> DEFINE j == cursor.pos.n
<1>1. at \in {"# comment", "// comment"} /\ Ready /\ at \notin {"lex", "done", "error"}
  BY DEF LexLineComment, On
<1>2. PICK i \in 0..Len(t) :
          i \in Nat /\ Started(t, i) /\ Pending(t, at, i, start.n, cursor.pos.n, quot, data, indent)
  BY <1>1, PieceStarted
<1>3. /\ AllIn(t, start.n, j, Line)
      /\ \/ at = "# comment" /\ start.n = i + 1 /\ Comes(t, i, {"#"})
         \/ at = "// comment" /\ start.n = i + 2 /\ Spells(t, i, <<"/", "/">>)
  BY <1>1, <1>2 DEF Pending, NumberStates
<1>4. /\ Seen.pos = cursor.pos
      /\ r # "eof" => j < Len(t) /\ r = t[j + 1] /\ r \in Runes /\ Read.pos.n = j + 1
      /\ Len(t) \in Nat /\ j \in Nat /\ start.n \in Nat /\ start.n <= j /\ j <= Len(t)
  BY <1>1, Here, ContinuesTyped
<1>5. "eof" \notin Line
  BY DEF Line, Runes, Digits, Letters, Blanks, Indents, Quotes, Symbols, Punctuation
<1>6. r \in Line <=> Comes(t, j, Line)
  BY <1>1, <1>5, ComesHere
<1>7. r \in {"eof", "newline"} <=> r \notin Line
  BY <1>4, <1>5 DEF Line
<1> HIDE DEF j
<1>8. CASE r \in Line
  <2>1. Go(Read, at) /\ r # "eof"
    BY <1>5, <1>7, <1>8 DEF LexLineComment
  <2>2. t[j + 1] \in Line /\ start.n <= j + 1
    BY <1>4, <1>8, <2>1
  <2>3. AllIn(t, start.n, j + 1, Line)
    BY <1>3, <1>4, <2>2, AllInNext
  <2>4. at' = at /\ UNCHANGED <<tokens, fodder, start>> /\ cursor'.pos.n = j + 1 /\ start'.n = start.n
    BY <1>4, <2>1 DEF Go, GoTo
  <2>5. Pending(t, at', i, start'.n, cursor'.pos.n, quot', data', indent')
    BY <1>3, <2>3, <2>4 DEF Pending
  <2> QED
    BY <1>1, <1>2, <2>4, <2>5, GoReads
<1>9. CASE r \notin Line
  <2>1. addFodder(Seen, Append(fodder, Fodder(at, Seen.pos)))
    BY <1>7, <1>9 DEF LexLineComment, addCommentFodder
  <2>2. Fodder(at, Seen.pos) = [kind |-> at, from |-> start.n, to |-> j] /\ Seen.pos.n = j
    BY <1>4 DEF Fodder, j
  <2>3. j \in start.n .. Len(t)
    BY <1>4
  <2>4. Run(t, start.n, j, Line)
    BY <1>3, <1>6, <1>9, <2>3 DEF Run
  <2>5. Piece(t, at, i, j)
    BY <1>3, <2>4 DEF Piece
  <2>6. at \in Comments /\ i = start.n - (IF at = "# comment" THEN 1 ELSE 2)
        /\ j = j + (IF at = "/* comment" THEN 2 ELSE 0)
    <3>1. CASE at = "# comment"
      <4>1. at # "/* comment" /\ at \in Comments
        BY <3>1 DEF Comments
      <4>2. start.n = i + 1
        BY <1>3, <3>1
      <4>3. i = start.n - 1
        BY <1>2, <4>2
      <4>4. j = j + 0
        BY <1>4
      <4> QED
        BY <3>1, <4>1, <4>3, <4>4
    <3>2. CASE at = "// comment"
      <4>1. at # "/* comment" /\ at \in Comments
        BY <3>2 DEF Comments
      <4>2. start.n = i + 2
        BY <1>3, <3>2
      <4>3. i = start.n - 2
        BY <1>2, <4>2
      <4>4. j = j + 0
        BY <1>4
      <4> QED
        BY <3>2, <4>1, <4>3, <4>4
    <3> QED
      BY <1>1, <3>1, <3>2
  <2>7. Trails(t, Append(fodder, [kind |-> at, from |-> start.n, to |-> j]), End(Len(tokens)), j)
    BY <1>2, <1>4, <2>5, <2>6, CommentFills
  <2>8. Trails(t, Append(fodder, Fodder(at, Seen.pos)), End(Len(tokens)), Seen.pos.n)
    BY <2>2, <2>7
  <2> QED
    BY <2>1, <2>8, FodderReads
<1> QED
  BY <1>8, <1>9

LEMMA BlockCommentReads ==
    ASSUME IInv, NEW t, Continues(t), Reads(t), LexBlockComment
    PROVE  Reads(t)'
<1> DEFINE j == cursor.pos.n
           peeked == backup(next(Read))
           all == Append(fodder, Fodder(at, cursor.pos))
<1>1. at = "/* comment" /\ Ready
  BY DEF LexBlockComment, On
<1>2. PICK i \in 0..Len(t) :
          i \in Nat /\ Started(t, i) /\ Pending(t, at, i, start.n, cursor.pos.n, quot, data, indent)
  BY <1>1, PieceStarted
<1>3. start.n = i + 2 /\ InComment(t, i, j)
  BY <1>1, <1>2 DEF Pending, NumberStates
<1>4. /\ TypeOK /\ Sound(Read.pos)
      /\ r = "eof" => j = Len(t)
      /\ r # "eof" => j < Len(t) /\ r = t[j + 1] /\ Read.pos.n = j + 1
      /\ Len(t) \in Nat /\ j \in Nat /\ j <= Len(t) /\ j + 1 + 1 = j + 2
  <2>1. Len(t) \in Nat /\ j \in Nat /\ j <= Len(t)
    BY ContinuesTyped
  <2>2. j + 1 + 1 = j + 2
    BY <2>1
  <2> QED
    BY <1>1, <2>1, <2>2, Here
<1>5. Spells(t, i, <<"/", "*">>) /\ i < Len(t)
  <2>1. Spells(t, i, <<"/", "*">>)
    BY <1>3 DEF InComment
  <2>2. i + 2 <= Len(t)
    BY <1>2, <1>4, <2>1, SpellsPair
  <2> QED
    BY <1>2, <1>4, <2>1, <2>2
<1>6. peeked.pos = Read.pos
  BY <1>4, NextSound
<1>7. r = "*" /\ Follows(<<"/">>) <=> Spells(t, j, <<"*", "/">>)
  BY <1>1, FollowsOne
<1>8. \/ r = "eof" /\ Fail
      \/ r # "eof" /\ Spells(t, j, <<"*", "/">>) /\ addFodder(next(peeked), all)
      \/ r # "eof" /\ ~Spells(t, j, <<"*", "/">>) /\ Go(IF r = "*" THEN peeked ELSE Read, at)
  <2> HIDE DEF peeked, all
  <2>1. (CASE r = "eof" -> Fail
           [] r = "*" /\ Follows(<<"/">>) -> addFodder(next(peeked), all)
           [] OTHER -> Go(IF r = "*" THEN peeked ELSE Read, at))
    BY DEF LexBlockComment, peeked, all
  <2> QED
    BY <1>7, <2>1
<1> HIDE DEF j, peeked
<1>9. CASE r = "eof" /\ Fail
  <2>1. CommentEnds(t, i) = {}
    <3>1. \A k \in CommentEnds(t, i) : j + 1 < k
      BY <1>3 DEF InComment
    <3>2. \A k \in CommentEnds(t, i) : k \in Nat /\ k <= Len(t)
      BY <1>2, <1>4 DEF CommentEnds
    <3> QED
      BY <1>4, <1>9, <3>1, <3>2
  <2>2. Wrong(t, i)
    BY <1>5, <2>1 DEF Wrong
  <2> QED
    BY <1>2, <1>5, <1>9, <2>2, FailReads
<1>10. CASE r # "eof" /\ Spells(t, j, <<"*", "/">>) /\ addFodder(next(peeked), all)
  <2>1. IsFirst(j + 2, CommentEnds(t, i))
    BY <1>2, <1>3, <1>4, <1>10, CommentNext
  <2>2. Piece(t, "/* comment", i, j + 2)
    BY <1>5, <2>1 DEF Piece
  <2>3. i = start.n - 2
    BY <1>2, <1>3
  <2>4. Trails(t, Append(fodder, [kind |-> at, from |-> start.n, to |-> j]), End(Len(tokens)), j + 2)
    BY <1>1, <1>2, <1>4, <2>2, <2>3, CommentFills DEF Comments
  <2>5. next(peeked).pos.n = j + 2
    <3>1. j + 2 <= Len(t) /\ Sees(t, j + 1)
      BY <1>1, <1>4, <1>10, SpellsPair, Looks DEF j
    <3>2. RuneAt(j + 1) # "eof"
      BY <1>4, <3>1 DEF Sees
    <3>3. Sound(peeked.pos)
      BY <1>4, <1>6
    <3>4. next(peeked).pos.n = IF RuneAt(peeked.pos.n) = "eof" THEN peeked.pos.n ELSE peeked.pos.n + 1
      BY <1>4, <3>3, NextSound
    <3> QED
      BY <1>4, <1>6, <1>10, <3>2, <3>4
  <2>6. Trails(t, all, End(Len(tokens)), next(peeked).pos.n)
    BY <2>4, <2>5 DEF Fodder, j
  <2> HIDE DEF all
  <2> QED
    BY <1>10, <2>6, FodderReads
<1>11. CASE r # "eof" /\ ~Spells(t, j, <<"*", "/">>) /\ Go(IF r = "*" THEN peeked ELSE Read, at)
  <2>1. InComment(t, i, j + 1)
    BY <1>2, <1>3, <1>4, <1>11, CommentNext
  <2>2. (IF r = "*" THEN peeked ELSE Read).pos.n = j + 1
    BY <1>4, <1>6, <1>11
  <2>3. at' = at /\ UNCHANGED <<tokens, fodder, start>> /\ cursor'.pos.n = j + 1
    BY <1>11, <2>2 DEF Go, GoTo
  <2>4. Pending(t, at', i, start'.n, cursor'.pos.n, quot', data', indent')
    BY <1>1, <1>3, <2>1, <2>3 DEF Pending
  <2> QED
    BY <1>1, <1>2, <2>3, <2>4, GoReads
<1> QED
  BY <1>8, <1>9, <1>10, <1>11

LEMMA OperatorReads ==
    ASSUME IInv, NEW t, Continues(t), Reads(t), LexOperator
    PROVE  Reads(t)'
<1> DEFINE j == cursor.pos.n
           c == WindBack(Seen)
           kind == IF Lexeme(c) = <<"$">> THEN "$" ELSE "operator"
<1>1. at = "operator" /\ Ready
  BY DEF LexOperator, On
<1>2. PICK i \in 0..Len(t) :
          i \in Nat /\ Started(t, i) /\ Pending(t, at, i, start.n, cursor.pos.n, quot, data, indent)
  BY <1>1, PieceStarted
<1>3. start.n = i /\ InOperator(t, i, j)
  BY <1>1, <1>2 DEF Pending, NumberStates
<1>4. /\ r # "eof" => j < Len(t) /\ r = t[j + 1] /\ Read.pos.n = j + 1
      /\ Len(t) \in Nat /\ j \in Nat /\ j <= Len(t)
  BY <1>1, Here, ContinuesTyped
<1>5. "eof" \notin Symbols
  BY DEF Symbols
<1>6. r \in Symbols <=> Comes(t, j, Symbols)
  BY <1>1, <1>5, ComesHere
<1>7. Stops <=> Cut(t, j) \/ ~Comes(t, j, Symbols)
  <2>1. /\ r = "/" /\ Follows(<<"/">>) <=> Spells(t, j, <<"/", "/">>)
        /\ r = "/" /\ Follows(<<"*">>) <=> Spells(t, j, <<"/", "*">>)
        /\ r = "|" /\ Follows(<<"|", "|">>) <=> Spells(t, j, <<"|", "|", "|">>)
    BY <1>1, FollowsOne, FollowsTwo
  <2>2. Cut(t, j) <=> \/ Spells(t, j, <<"/", "/">>) \/ Spells(t, j, <<"/", "*">>)
                      \/ Spells(t, j, <<"|", "|", "|">>)
    BY DEF Cut
  <2> QED
    BY <1>6, <2>1, <2>2 DEF Stops
<1>8. CASE ~Stops /\ Go(Read, "operator")
  <2>1. InOperator(t, i, j + 1)
    BY <1>2, <1>3, <1>4, <1>7, <1>8, OperatorNext
  <2>2. r # "eof"
    BY <1>5, <1>6, <1>7, <1>8
  <2>3. at' = "operator" /\ UNCHANGED <<tokens, fodder, start>> /\ cursor'.pos.n = j + 1
    BY <1>4, <1>8, <2>2 DEF Go, GoTo
  <2>4. Pending(t, at', i, start'.n, cursor'.pos.n, quot', data', indent')
    BY <1>3, <2>1, <2>3 DEF Pending
  <2> QED
    BY <1>2, <2>3, <2>4, GoReads
<1>9. CASE Stops /\ emitToken(c, kind)
  <2>1. IsFirst(j, OperatorEnds(t, i)) /\ Comes(t, i, Symbols) /\ ~Cut(t, i) /\ i + 1 <= j
    BY <1>2, <1>3, <1>4, <1>7, <1>9, OperatorNext DEF InOperator
  <2>2. /\ Sound(c.pos)
        /\ c.pos.n = IF j > i + 1 /\ text[j] \in {"+", "-", "!"} THEN i + 1 ELSE j
    BY <1>1, <1>3, WindBackSound
  <2>3. text[j] = t[j]
    <3>1. j <= Len(text) /\ j >= 1
      BY <1>2, <1>4, <2>1, Cursor DEF IInv, Begun, Sound
    <3> QED
      BY <1>4, <3>1 DEF Continues
  <2> HIDE DEF c, j
  <2>4. c.pos.n = IF t[j] \in {"+", "-", "!"} THEN i + 1 ELSE j
    BY <1>2, <1>4, <2>1, <2>2, <2>3
  <2>5. j \in OperatorEnds(t, i)
    BY <2>1 DEF IsFirst
  <2>6. Operator(t, i, c.pos.n)
    BY <2>1, <2>4, <2>5 DEF Operator
  <2>7. Lexeme(c) = SubSeq(t, i + 1, c.pos.n)
    BY <1>3, <2>2, SameLexeme
  <2>8. kind \in {"operator", "$"} /\ (kind = "$" <=> SubSeq(t, i + 1, c.pos.n) = <<"$">>)
    BY <2>7
  <2> HIDE DEF kind
  <2>9. Piece(t, kind, i, c.pos.n)
    BY <2>6, <2>8 DEF Piece
  <2>10. kind \in Kinds /\ kind \notin {"string", "verbatim", "block"}
    BY <2>8 DEF Kinds
  <2> QED
    BY <1>2, <1>3, <1>9, <2>2, <2>9, <2>10, TokenReads
<1> QED
  BY <1>8, <1>9 DEF LexOperator

----------------------------------------------------------------------------
(* Text blocks.                                                            *)

\* The bars of a text block.
LEMMA BarsInText ==
    ASSUME NEW t, NEW i \in Nat, Len(t) \in Nat, Spells(t, i, <<"|", "|", "|">>)
    PROVE  i < Len(t)
<1>1. i + 3 <= Len(t)
  BY SpellsThree
<1> QED
  BY <1>1

LEMMA BarsHere ==
    ASSUME IInv, NEW t, Continues(t), Ready
    PROVE  Prefix(cursor.pos.n, <<"|", "|", "|">>) <=> Spells(t, cursor.pos.n, <<"|", "|", "|">>)
<1>1. "|" # "eof"
  OBVIOUS
<1> DEFINE bar == "|"
<1> HIDE DEF bar
<1>2. bar # "eof"
  BY <1>1 DEF bar
<1>3. Prefix(cursor.pos.n, <<bar, bar, bar>>) <=> Spells(t, cursor.pos.n, <<bar, bar, bar>>)
  BY <1>2, FollowsTwo
<1> QED
  BY <1>3 DEF bar

LEMMA HeaderTyped ==
    ASSUME NEW t, NEW i \in Nat, Len(t) \in Nat, NEW h \in Headers(t, i)
    PROVE  h \in Nat
<1>1. h \in i + 4 .. Len(t)
  BY DEF Headers
<1> QED
  BY <1>1

\* The lexer fails where a text block is missing something.
LEMMA NoBlock ==
    ASSUME IInv, NEW t, Continues(t), Reads(t), NEW i \in Nat, Started(t, i), Fail,
           Spells(t, i, <<"|", "|", "|">>), \A k \in i..Len(t) : ~Block(t, i, k)
    PROVE  Reads(t)'
<1>1. i < Len(t)
  BY ContinuesTyped, BarsInText
<1>2. Wrong(t, i)
  BY DEF Wrong
<1> QED
  BY <1>1, <1>2, FailReads

\* The lines of a text block.
LEMMA OpensReads ==
    ASSUME IInv, NEW t, Continues(t), Reads(t), BlockOpens
    PROVE  Reads(t)'
<1> DEFINE j == cursor.pos.n
<1>1. at = "block" /\ Ready
  BY DEF BlockOpens, On
<1>2. PICK i \in 0..Len(t) :
          i \in Nat /\ Started(t, i) /\ Pending(t, at, i, start.n, cursor.pos.n, quot, data, indent)
  BY <1>1, PieceStarted
<1>3. start.n = i /\ data = <<>> /\ InHeader(t, i, j)
  BY <1>1, <1>2 DEF Pending, NumberStates
<1>4. /\ r # "eof" => j < Len(t) /\ r = t[j + 1] /\ Read.pos.n = j + 1
      /\ Len(t) \in Nat /\ j \in Nat /\ j <= Len(t)
  BY <1>1, Here, ContinuesTyped
<1>5. Spells(t, i, <<"|", "|", "|">>) /\ i + 3 <= j /\ AllIn(t, i + 3, j, Blanks)
  BY <1>3 DEF InHeader
<1>6. "eof" \notin Blanks /\ "eof" \notin {"newline"} /\ "newline" \notin Blanks
  BY DEF Blanks, Indents
<1>7. (r \in Blanks <=> Comes(t, j, Blanks)) /\ (r = "newline" <=> Comes(t, j, {"newline"}))
  <2>1. r \in Blanks <=> Comes(t, j, Blanks)
    BY <1>1, <1>6, ComesHere
  <2>2. r \in {"newline"} <=> Comes(t, j, {"newline"})
    BY <1>1, <1>6, ComesHere
  <2> QED
    BY <2>1, <2>2
<1> HIDE DEF j
<1>8. CASE r \in Blanks
  <2>1. Go(Read, "block") /\ r # "eof"
    BY <1>6, <1>8 DEF BlockOpens
  <2>2. i + 3 <= j + 1 /\ t[j + 1] \in Blanks /\ i + 3 \in Nat
    BY <1>2, <1>4, <1>5, <1>8, <2>1
  <2>3. AllIn(t, i + 3, j + 1, Blanks)
    BY <1>4, <1>5, <2>2, AllInNext
  <2>4. at' = "block" /\ UNCHANGED <<tokens, fodder, start, data>> /\ cursor'.pos.n = j + 1
    BY <1>4, <2>1 DEF Go, GoTo
  <2>5. InHeader(t, i, j + 1)
    BY <1>5, <2>2, <2>3 DEF InHeader
  <2>6. Pending(t, at', i, start'.n, cursor'.pos.n, quot', data', indent')
    BY <1>3, <2>4, <2>5 DEF Pending
  <2> QED
    BY <1>2, <2>4, <2>6, GoReads
<1>9. CASE r = "newline"
  <2>1. Go(Read, "first line") /\ r # "eof"
    BY <1>6, <1>9 DEF BlockOpens
  <2>2. j + 1 \in Headers(t, i)
    BY <1>2, <1>3, <1>4, <1>7, <1>9, HeaderEnds
  <2>3. j + 1 + 1 .. j + 1 = {} /\ j + 1 <= j + 1
    BY <1>4
  <2>4. AllIn(t, j + 1, j + 1, {"newline"}) /\ Keeps(t, j + 1 + 1 .. j + 1, data)
    BY <1>3, <2>3, KeepsNone DEF AllIn
  <2>5. InFirst(t, j + 1, j + 1, data)
    BY <2>3, <2>4 DEF InFirst
  <2>6. at' = "first line" /\ UNCHANGED <<tokens, fodder, start, data>> /\ cursor'.pos.n = j + 1
    BY <1>4, <2>1 DEF Go, GoTo
  <2>7. Pending(t, at', i, start'.n, cursor'.pos.n, quot', data', indent')
    BY <1>3, <1>5, <2>2, <2>5, <2>6 DEF Pending
  <2> QED
    BY <1>2, <2>6, <2>7, GoReads
<1>10. CASE r \notin Blanks /\ r # "newline"
  <2>1. Fail
    BY <1>10 DEF BlockOpens
  <2>2. Headers(t, i) = {}
    BY <1>2, <1>3, <1>4, <1>7, <1>10, HeaderEnds
  <2>3. \A k \in i..Len(t) : ~Block(t, i, k)
    BY <2>2 DEF Block
  <2> QED
    BY <1>2, <1>5, <2>1, <2>3, NoBlock
<1> QED
  BY <1>8, <1>9, <1>10

LEMMA FirstLineReads ==
    ASSUME IInv, NEW t, Continues(t), Reads(t), BlockFirstLine
    PROVE  Reads(t)'
<1> DEFINE j == cursor.pos.n
<1>1. at = "first line" /\ Ready
  BY DEF BlockFirstLine, On
<1>2. PICK i \in 0..Len(t) :
          i \in Nat /\ Started(t, i) /\ Pending(t, at, i, start.n, cursor.pos.n, quot, data, indent)
  BY <1>1, PieceStarted
<1>3. start.n = i /\ Spells(t, i, <<"|", "|", "|">>) /\ \E h \in Headers(t, i) : InFirst(t, h, j, data)
  BY <1>1, <1>2 DEF Pending, NumberStates
<1>4. PICK h \in Headers(t, i) : InFirst(t, h, j, data)
  BY <1>3
<1>5. /\ Seen.pos = cursor.pos /\ t \in Seq(Runes) /\ data \in Seq(Runes)
      /\ r # "eof" => j < Len(t) /\ r = t[j + 1] /\ r \in Runes /\ Read.pos.n = j + 1
      /\ Len(t) \in Nat /\ j \in Nat /\ j <= Len(t) /\ h \in Nat
  <2>1. t \in Seq(Runes) /\ Len(t) \in Nat /\ j \in Nat /\ j <= Len(t)
    BY ContinuesTyped
  <2>2. data \in Seq(Runes)
    BY DEF IInv, TypeOK
  <2>3. h \in Nat
    BY <1>2, <2>1, HeaderTyped
  <2> QED
    BY <1>1, <2>1, <2>2, <2>3, Here
<1>6. h <= j /\ AllIn(t, h, j, {"newline"}) /\ Keeps(t, h + 1 .. j, data)
  BY <1>4 DEF InFirst
<1>7. r = "newline" <=> Comes(t, j, {"newline"})
  <2>1. r \in {"newline"} <=> Comes(t, j, {"newline"})
    BY <1>1, ComesHere
  <2> QED
    BY <2>1
<1>8. PICK e \in j..Len(t) : Run(t, j, e, Indents) /\ Indent = SubSeq(t, j + 1, e) /\ Len(Indent) = e - j
  BY <1>1, IndentRun
<1>9. Indent \in Seq(Indents)
  BY IndentIsThere
<1> HIDE DEF j
<1>10. CASE r = "newline"
  <2>1. GoTo(Read, "first line") /\ data' = Append(data, r)
    BY <1>1, <1>10 DEF BlockFirstLine
  <2>2. at' = "first line" /\ UNCHANGED <<tokens, fodder, start>> /\ cursor'.pos.n = j + 1
    BY <1>5, <1>10, <2>1 DEF GoTo
  <2>3. h <= j + 1 /\ t[j + 1] \in {"newline"} /\ j < j + 1
        /\ h + 1 .. j \in SUBSET (1..j) /\ (h + 1 .. j) \cup {j + 1} = h + 1 .. j + 1
    BY <1>5, <1>6, <1>10
  <2>4. AllIn(t, h, j + 1, {"newline"})
    BY <1>5, <1>6, <2>3, AllInNext
  <2>5. Keeps(t, (h + 1 .. j) \cup {j + 1}, Append(data, r))
    <3> DEFINE K == h + 1 .. j
               k == j + 1
    <3>1. K \in SUBSET (1..j) /\ k \in Nat /\ j < k /\ r \in Runes /\ r = t[k] /\ Keeps(t, K, data)
      BY <1>5, <1>6, <1>10, <2>3
    <3> HIDE DEF K, k
    <3>2. Keeps(t, K \cup {k}, Append(data, r))
      BY <1>5, <3>1, KeepsNext
    <3> QED
      BY <3>2 DEF K, k
  <2>6. InFirst(t, h, j + 1, data')
    BY <2>1, <2>3, <2>4, <2>5 DEF InFirst
  <2>7. Pending(t, at', i, start'.n, cursor'.pos.n, quot', data', indent')
    BY <1>3, <2>2, <2>6 DEF Pending
  <2> QED
    BY <1>2, <2>2, <2>7, GoReads
<1>11. CASE r # "newline" /\ Indent = <<>>
  <2>1. Fail
    BY <1>11 DEF BlockFirstLine
  <2>2. e = j
    <3>1. Len(Indent) = 0
      BY <1>9, <1>11, EmptySeq
    <3>2. e \in Int /\ e - j = 0
      BY <1>5, <1>8, <3>1
    <3> QED
      BY <1>5, <3>2
  <2>3. ~Comes(t, j, Indents)
    BY <1>8, <2>2 DEF Run
  <2>4. Margins(t, h) = {}
    BY <1>5, <1>6, <1>7, <1>11, <2>3, MarginUnique
  <2>5. \A k \in i..Len(t) : ~Block(t, i, k)
    BY <1>2, <1>4, <1>5, <2>4, BlockMissing
  <2> QED
    BY <1>2, <1>3, <2>1, <2>5, NoBlock
<1>12. CASE r # "newline" /\ Indent # <<>>
  <2> DEFINE m == Indent
  <2>1. indent' = m /\ cursor' = acceptN(Seen, Len(indent')) /\ at' = "line"
        /\ UNCHANGED <<tokens, fodder, start, data>>
    BY <1>12 DEF BlockFirstLine
  <2>2. e \in j + 1 .. Len(t)
    <3>1. Len(m) # 0
      BY <1>9, <1>12, EmptySeq
    <3> QED
      BY <1>5, <1>8, <3>1
  <2>3. Margins(t, h) = {m}
    BY <1>5, <1>6, <1>7, <1>8, <1>12, <2>2, MarginUnique
  <2>4. Body(t, h, m, j, data) /\ j \in Lines(t, h)
    BY <1>4, <1>5, FirstRead
  <2>5. m \in Margins(t, h) /\ Len(m) \in Nat /\ Len(m) > 0 /\ \A k \in 1..Len(m) : m[k] # "newline"
    <3>1. m \in Margins(t, h)
      BY <2>3
    <3> QED
      BY <1>5, <3>1, MarginTyped
  <2>6. Spells(t, j, m)
    <3>1. j + 1 \in Int /\ e \in Int /\ e - (j + 1) + 1 = e - j /\ j + (e - j) <= Len(t)
      BY <1>5, <2>2
    <3>2. \A k \in j + 1 .. e : t[k] \in Indents
      BY <1>8 DEF Run, AllIn
    <3>3. \A k \in 1 .. e - j : SubSeq(t, j + 1, e)[k] = t[j + 1 + k - 1]
      BY <3>1, <3>2, SubSeqProperties
    <3>4. \A k \in 1 .. e - j : m[k] = t[j + k]
      <4> SUFFICES ASSUME NEW k \in 1 .. e - j
                   PROVE  m[k] = t[j + k]
        OBVIOUS
      <4>1. j + 1 + k - 1 = j + k
        BY <1>5, <3>1
      <4> QED
        BY <1>8, <3>3, <4>1
    <3> QED
      BY <1>8, <3>1, <3>4 DEF Spells
  <2> HIDE DEF m
  <2>7. Body(t, h, m, j + Len(m), data) /\ j + Len(m) \notin Lines(t, h)
    BY <1>5, <2>4, <2>5, <2>6, MarginRead
  <2>8. cursor'.pos.n = j + Len(m)
    BY <1>5, <2>1 DEF acceptN, Forward, Moved, j
  <2>9. Pending(t, at', i, start'.n, cursor'.pos.n, quot', data', indent')
    <3>1. Margins(t, h) = {indent'} /\ Body(t, h, indent', cursor'.pos.n, data')
          /\ cursor'.pos.n \notin Lines(t, h) /\ start'.n = i /\ at' = "line"
      BY <1>3, <2>1, <2>3, <2>7, <2>8
    <3> QED
      BY <1>3, <1>4, <3>1 DEF Pending
  <2> QED
    BY <1>2, <2>1, <2>9, GoReads
<1> QED
  BY <1>10, <1>11, <1>12

\* A line of a text block is read, or begins.
LEMMA InLines ==
    ASSUME IInv, NEW t, Continues(t), Reads(t), On("line") \/ On("next line")
    PROVE  \E i \in 0..Len(t) : \E h \in Headers(t, i) :
              /\ i \in Nat /\ h \in Nat /\ Started(t, i) /\ start.n = i /\ Spells(t, i, <<"|", "|", "|">>)
              /\ Margins(t, h) = {indent} /\ Body(t, h, indent, cursor.pos.n, data)
              /\ at = "next line" <=> cursor.pos.n \in Lines(t, h)
              /\ Len(indent) \in Nat /\ Len(indent) > 0 /\ \A k \in 1..Len(indent) : indent[k] # "newline"
<1>1. at \in {"line", "next line"} /\ at \notin {"lex", "done", "error"}
  BY DEF On
<1>2. PICK i \in 0..Len(t) :
          i \in Nat /\ Started(t, i) /\ Pending(t, at, i, start.n, cursor.pos.n, quot, data, indent)
  BY <1>1, PieceStarted
<1>3. /\ start.n = i /\ Spells(t, i, <<"|", "|", "|">>)
      /\ \E h \in Headers(t, i) :
            /\ Margins(t, h) = {indent} /\ Body(t, h, indent, cursor.pos.n, data)
            /\ at = "next line" <=> cursor.pos.n \in Lines(t, h)
  BY <1>1, <1>2 DEF Pending, NumberStates
<1>4. PICK h \in Headers(t, i) :
            /\ Margins(t, h) = {indent} /\ Body(t, h, indent, cursor.pos.n, data)
            /\ at = "next line" <=> cursor.pos.n \in Lines(t, h)
  BY <1>3
<1>5. t \in Seq(Runes) /\ Len(t) \in Nat
  BY ContinuesTyped
<1>6. h \in Nat
  BY <1>2, <1>5, HeaderTyped
<1>7. Len(indent) \in Nat /\ Len(indent) > 0 /\ \A k \in 1..Len(indent) : indent[k] # "newline"
  <2>1. indent \in Margins(t, h)
    BY <1>4
  <2> QED
    BY <1>5, <1>6, <2>1, MarginTyped
<1> QED
  BY <1>2, <1>3, <1>4, <1>6, <1>7

\* A rune of a line is kept.
LEMMA RuneReads ==
    ASSUME IInv, NEW t, Continues(t), Reads(t), Ready, NEW i \in Nat, NEW h \in Headers(t, i), h \in Nat,
           Started(t, i), start.n = i, Spells(t, i, <<"|", "|", "|">>), Margins(t, h) = {indent},
           Body(t, h, indent, cursor.pos.n, data), Len(indent) \in Nat,
           cursor.pos.n \notin Lines(t, h) \/ r = "newline", r # "eof",
           NEW place, GoTo(Read, place), place = IF r = "newline" THEN "next line" ELSE "line",
           data' = Append(data, r)
    PROVE  Reads(t)'
<1> DEFINE j == cursor.pos.n
<1>1. t \in Seq(Runes) /\ data \in Seq(Runes) /\ j \in Nat
  BY ContinuesTyped DEF IInv, TypeOK
<1>2. j < Len(t) /\ r = t[j + 1] /\ Read.pos.n = j + 1
  BY Here
<1> HIDE DEF j
<1>3. /\ Body(t, h, indent, j + 1, Append(data, r))
      /\ j + 1 \in Lines(t, h) <=> r = "newline"
  BY <1>1, <1>2, LineRead DEF j
<1>4. /\ at' = place /\ UNCHANGED <<tokens, fodder, start, indent>> /\ cursor'.pos.n = j + 1
  BY <1>2 DEF GoTo
<1>5. place \in {"line", "next line"} /\ (place = "next line" <=> j + 1 \in Lines(t, h))
  BY <1>3
<1>6. Pending(t, at', i, start'.n, cursor'.pos.n, quot', data', indent')
  BY <1>3, <1>4, <1>5 DEF Pending
<1>7. at' \notin {"lex", "done", "error"}
  BY <1>4, <1>5
<1> QED
  BY <1>4, <1>6, <1>7, GoReads

LEMMA LineReads ==
    ASSUME IInv, NEW t, Continues(t), Reads(t), BlockLine
    PROVE  Reads(t)'
<1>1. On("line") /\ at = "line" /\ Ready
  BY DEF BlockLine, On
<1>2. PICK i \in 0..Len(t) : \E h \in Headers(t, i) :
              /\ i \in Nat /\ h \in Nat /\ Started(t, i) /\ start.n = i /\ Spells(t, i, <<"|", "|", "|">>)
              /\ Margins(t, h) = {indent} /\ Body(t, h, indent, cursor.pos.n, data)
              /\ at = "next line" <=> cursor.pos.n \in Lines(t, h)
              /\ Len(indent) \in Nat /\ Len(indent) > 0 /\ \A k \in 1..Len(indent) : indent[k] # "newline"
  BY <1>1, InLines
<1>3. PICK h \in Headers(t, i) :
              /\ i \in Nat /\ h \in Nat /\ Started(t, i) /\ start.n = i /\ Spells(t, i, <<"|", "|", "|">>)
              /\ Margins(t, h) = {indent} /\ Body(t, h, indent, cursor.pos.n, data)
              /\ at = "next line" <=> cursor.pos.n \in Lines(t, h)
              /\ Len(indent) \in Nat /\ Len(indent) > 0 /\ \A k \in 1..Len(indent) : indent[k] # "newline"
  BY <1>2
<1>4. cursor.pos.n \notin Lines(t, h)
  BY <1>1, <1>3
<1>5. CASE r = "eof"
  <2>1. Fail
    BY <1>5 DEF BlockLine
  <2>2. cursor.pos.n = Len(t) /\ cursor.pos.n \in Nat /\ t \in Seq(Runes) /\ Len(t) \in Nat
    BY <1>1, <1>5, Here, ContinuesTyped
  <2>3. LastLines(t, h, indent) = {}
    BY <1>3, <1>4, <2>2, LastBegins
  <2>4. \A k \in i..Len(t) : ~Block(t, i, k)
    BY <1>3, <2>2, <2>3, BlockMissing
  <2> QED
    BY <1>3, <2>1, <2>4, NoBlock
<1>6. CASE r # "eof"
  <2> DEFINE place == IF r = "newline" THEN "next line" ELSE "line"
  <2>1. GoTo(Read, place) /\ data' = Append(data, r)
    BY <1>6 DEF BlockLine
  <2> HIDE DEF place
  <2>2. place = IF r = "newline" THEN "next line" ELSE "line"
    BY DEF place
  <2> QED
    BY <1>1, <1>3, <1>4, <1>6, <2>1, <2>2, RuneReads
<1> QED
  BY <1>5, <1>6

LEMMA NextLineReads ==
    ASSUME IInv, NEW t, Continues(t), Reads(t), BlockNextLine
    PROVE  Reads(t)'
<1> DEFINE j == cursor.pos.n
<1>1. On("next line") /\ at = "next line" /\ Ready
  BY DEF BlockNextLine, On
<1>2. PICK i \in 0..Len(t) : \E h \in Headers(t, i) :
              /\ i \in Nat /\ h \in Nat /\ Started(t, i) /\ start.n = i /\ Spells(t, i, <<"|", "|", "|">>)
              /\ Margins(t, h) = {indent} /\ Body(t, h, indent, cursor.pos.n, data)
              /\ at = "next line" <=> cursor.pos.n \in Lines(t, h)
              /\ Len(indent) \in Nat /\ Len(indent) > 0 /\ \A k \in 1..Len(indent) : indent[k] # "newline"
  BY <1>1, InLines
<1>3. PICK h \in Headers(t, i) :
              /\ i \in Nat /\ h \in Nat /\ Started(t, i) /\ start.n = i /\ Spells(t, i, <<"|", "|", "|">>)
              /\ Margins(t, h) = {indent} /\ Body(t, h, indent, cursor.pos.n, data)
              /\ at = "next line" <=> cursor.pos.n \in Lines(t, h)
              /\ Len(indent) \in Nat /\ Len(indent) > 0 /\ \A k \in 1..Len(indent) : indent[k] # "newline"
  BY <1>2
<1>4. j \in Lines(t, h)
  BY <1>1, <1>3
<1>5. Seen.pos = cursor.pos /\ j \in Nat /\ t \in Seq(Runes) /\ Len(t) \in Nat
  BY <1>1, Here, ContinuesTyped
<1>6. Prefix(cursor.pos.n, indent) <=> Spells(t, j, indent)
  BY <1>1, PrefixSpells
<1>7. r = "newline" <=> Comes(t, j, {"newline"})
  <2>1. r \in {"newline"} <=> Comes(t, j, {"newline"})
    BY <1>1, ComesHere
  <2> QED
    BY <2>1
<1>8. \/ r = "newline" /\ GoTo(Read, "next line") /\ data' = Append(data, r)
      \/ Spells(t, j, indent) /\ Go(acceptN(Seen, Len(indent)), "line")
      \/ r # "newline" /\ ~Spells(t, j, indent) /\ Go(Seen, "last line")
  <2> HIDE DEF j
  <2> QED
    BY <1>1, <1>6 DEF BlockNextLine
<1> HIDE DEF j
<1>9. CASE r = "newline" /\ GoTo(Read, "next line") /\ data' = Append(data, r)
  <2>1. r # "eof" /\ "next line" = IF r = "newline" THEN "next line" ELSE "line"
    BY <1>9
  <2> QED
    BY <1>1, <1>3, <1>9, <2>1, RuneReads
<1>10. CASE Spells(t, j, indent) /\ Go(acceptN(Seen, Len(indent)), "line")
  <2>1. at' = "line" /\ UNCHANGED <<tokens, fodder, start, data, indent>>
        /\ cursor' = acceptN(Seen, Len(indent))
    BY <1>10 DEF Go, GoTo
  <2>2. cursor'.pos.n = j + Len(indent)
    BY <1>5, <2>1 DEF acceptN, Forward, Moved, j
  <2>3. Body(t, h, indent, j + Len(indent), data) /\ j + Len(indent) \notin Lines(t, h)
    BY <1>3, <1>4, <1>5, <1>10, MarginRead DEF j
  <2>4. Pending(t, at', i, start'.n, cursor'.pos.n, quot', data', indent')
    BY <1>3, <2>1, <2>2, <2>3 DEF Pending
  <2> QED
    BY <1>3, <2>1, <2>4, GoReads
<1>11. CASE r # "newline" /\ ~Spells(t, j, indent) /\ Go(Seen, "last line")
  <2>1. at' = "last line" /\ UNCHANGED <<tokens, fodder, start, data, indent>> /\ cursor'.pos.n = j
    BY <1>5, <1>11 DEF Go, GoTo, j
  <2>2. ~Belongs(t, j, indent)
    BY <1>7, <1>11 DEF Belongs
  <2>3. IsFirst(j, LastLines(t, h, indent))
    BY <1>3, <1>4, <1>5, <2>2, LastBegins DEF j
  <2>4. Keeps(t, Unindented(t, h, indent, j), data)
    BY <1>3 DEF Body, j
  <2>5. AllIn(t, j, j, Indents) /\ j \in 0..j
    BY <1>5 DEF AllIn
  <2>6. Pending(t, at', i, start'.n, cursor'.pos.n, quot', data', indent')
    BY <1>3, <2>1, <2>3, <2>4, <2>5 DEF Pending
  <2> QED
    BY <1>3, <2>1, <2>6, GoReads
<1> QED
  BY <1>8, <1>9, <1>10, <1>11

LEMMA LastLineReads ==
    ASSUME IInv, NEW t, Continues(t), Reads(t), BlockLastLine
    PROVE  Reads(t)'
<1> DEFINE j == cursor.pos.n
           bars == <<"|", "|", "|">>
<1>1. at = "last line" /\ Ready
  BY DEF BlockLastLine, On
<1>2. PICK i \in 0..Len(t) :
          i \in Nat /\ Started(t, i) /\ Pending(t, at, i, start.n, cursor.pos.n, quot, data, indent)
  BY <1>1, PieceStarted
<1>3. /\ start.n = i /\ Spells(t, i, bars)
      /\ \E h \in Headers(t, i) : \E l \in 0..j :
            /\ Margins(t, h) = {indent} /\ IsFirst(l, LastLines(t, h, indent))
            /\ Keeps(t, Unindented(t, h, indent, l), data) /\ AllIn(t, l, j, Indents)
  BY <1>1, <1>2 DEF Pending, NumberStates
<1>4. PICK h \in Headers(t, i) : \E l \in 0..j :
            /\ Margins(t, h) = {indent} /\ IsFirst(l, LastLines(t, h, indent))
            /\ Keeps(t, Unindented(t, h, indent, l), data) /\ AllIn(t, l, j, Indents)
  BY <1>3
<1>5. PICK l \in 0..j :
            /\ Margins(t, h) = {indent} /\ IsFirst(l, LastLines(t, h, indent))
            /\ Keeps(t, Unindented(t, h, indent, l), data) /\ AllIn(t, l, j, Indents)
  BY <1>4
<1>6. /\ Seen.pos = cursor.pos /\ data \in Seq(Runes)
      /\ r # "eof" => j < Len(t) /\ r = t[j + 1] /\ Read.pos.n = j + 1
      /\ Len(t) \in Nat /\ j \in Nat /\ j <= Len(t) /\ l \in Nat /\ l <= j
  <2>1. Len(t) \in Nat /\ j \in Nat /\ j <= Len(t)
    BY ContinuesTyped
  <2>2. data \in Seq(Runes)
    BY DEF IInv, TypeOK
  <2>3. l \in Nat /\ l <= j
    BY <2>1
  <2> QED
    BY <1>1, <2>1, <2>2, <2>3, Here
<1>7. "eof" \notin Indents /\ "|" \notin Indents
  BY DEF Indents
<1>8. r \in Indents <=> Comes(t, j, Indents)
  BY <1>1, <1>7, ComesHere
<1>9. Prefix(cursor.pos.n, bars) <=> Spells(t, j, bars)
  BY <1>1, BarsHere
<1>10. \/ r \in Indents /\ Go(Read, "last line")
       \/ Spells(t, j, bars) /\ emit(acceptN(Seen, 3), "block", data, "lex")
       \/ r \notin Indents /\ ~Spells(t, j, bars) /\ Fail
  <2> HIDE DEF bars, j
  <2>1. (CASE r \in Indents -> Go(Read, at)
           [] Prefix(cursor.pos.n, bars) -> emit(acceptN(Seen, 3), "block", data, "lex")
           [] OTHER -> Fail)
    BY DEF BlockLastLine, emitFullToken, bars
  <2> QED
    BY <1>1, <1>9, <2>1
<1> HIDE DEF j, bars
<1>11. CASE r \in Indents /\ Go(Read, "last line")
  <2>1. r # "eof" /\ t[j + 1] \in Indents /\ l <= j + 1 /\ l \in 0 .. j + 1
    <3>1. r # "eof"
      BY <1>7, <1>11
    <3>2. t[j + 1] \in Indents
      BY <1>6, <1>11, <3>1
    <3>3. l <= j + 1 /\ l \in 0 .. j + 1
      BY <1>6
    <3> QED
      BY <3>1, <3>2, <3>3
  <2>2. AllIn(t, l, j + 1, Indents)
    BY <1>5, <1>6, <2>1, AllInNext
  <2>3. at' = "last line" /\ UNCHANGED <<tokens, fodder, start, data, indent>> /\ cursor'.pos.n = j + 1
    BY <1>6, <1>11, <2>1 DEF Go, GoTo
  <2>4. Pending(t, at', i, start'.n, cursor'.pos.n, quot', data', indent')
    BY <1>3, <1>5, <2>1, <2>2, <2>3 DEF Pending, bars
  <2> QED
    BY <1>2, <2>3, <2>4, GoReads
<1>12. ASSUME r \notin Indents
       PROVE  Run(t, l, j, Indents)
  <2>1. j \in l..Len(t)
    BY <1>6
  <2> QED
    BY <1>5, <1>8, <1>12, <2>1 DEF Run
<1>13. CASE Spells(t, j, bars) /\ emit(acceptN(Seen, 3), "block", data, "lex")
  <2> DEFINE c == acceptN(Seen, 3)
  <2>1. r \notin Indents
    <3>1. j + 3 <= Len(t) /\ t[j + 1] = "|"
      BY <1>6, <1>13, SpellsThree DEF bars
    <3> QED
      BY <1>7, <1>8, <3>1 DEF Comes
  <2>2. Run(t, l, j, Indents)
    BY <1>12, <2>1
  <2>3. indent \in Margins(t, h) /\ l \in LastLines(t, h, indent)
    BY <1>5 DEF IsFirst
  <2>4. Block(t, i, j + 3)
    BY <1>2, <1>5, <1>6, <1>13, <2>2, <2>3, BlockThere DEF bars
  <2>5. c.pos.n = j + 3 /\ j + 3 \in Nat
    BY <1>6 DEF acceptN, Forward, Moved, j
  <2>6. Piece(t, "block", start.n, c.pos.n)
    BY <1>3, <2>4, <2>5 DEF Piece, bars
  <2>7. Data(t, "block", start.n, c.pos.n, data)
    <3>1. Data(t, "block", i, c.pos.n, data)
      <4>1. \E g \in Headers(t, i) : \E margin \in Margins(t, g) : \E k \in LastLines(t, g, margin) :
               IsFirst(k, LastLines(t, g, margin)) /\ Keeps(t, Unindented(t, g, margin, k), data)
        BY <1>5, <2>3
      <4> QED
        BY <4>1 DEF Data
    <3> QED
      BY <1>3, <3>1
  <2>8. "block" \in Kinds
    BY DEF Kinds
  <2> HIDE DEF c
  <2> QED
    BY <1>2, <1>3, <1>6, <1>13, <2>5, <2>6, <2>7, <2>8, EmitReads DEF c
<1>14. CASE r \notin Indents /\ ~Spells(t, j, bars) /\ Fail
  <2>1. Run(t, l, j, Indents) /\ j \in 0..Len(t)
    BY <1>6, <1>12, <1>14
  <2>2. \A k \in i..Len(t) : ~Block(t, i, k)
    <3>1. /\ indent \in Margins(t, h) /\ Margins(t, h) = {indent} /\ l \in Nat
          /\ IsFirst(l, LastLines(t, h, indent)) /\ ~Spells(t, j, <<"|", "|", "|">>)
      BY <1>5, <1>6, <1>14 DEF bars
    <3> QED
      BY <1>2, <1>6, <2>1, <3>1, BlockMissing
  <2> QED
    BY <1>2, <1>3, <1>14, <2>2, NoBlock DEF bars
<1> QED
  BY <1>10, <1>11, <1>13, <1>14

----------------------------------------------------------------------------
(* The invariant.                                                          *)
ReadsEvery == \A t : Continues(t) => Reads(t)

\* Nothing has been read.
LEMMA InitReads == Init => ReadsEvery
<1> SUFFICES ASSUME Init, NEW t, Continues(t)
             PROVE  Reads(t)
  BY DEF ReadsEvery
<1>1. at = "lex" /\ tokens = <<>> /\ fodder = <<>> /\ cursor.pos.n = 0
  BY DEF Init
<1>2. Len(tokens) = 0
  BY <1>1
<1>3. Emitted(t) /\ End(Len(tokens)) = 0
  BY <1>2 DEF Emitted, End
<1>4. Trails(t, <<>>, 0, 0)
  BY FillsNone, FillsTrails
<1> QED
  BY <1>1, <1>3, <1>4 DEF Reads

\* One more rune is known: fewer texts go on like that.
LEMMA RevealContinues ==
    ASSUME IInv, Reveal, NEW t, Continues(t)'
    PROVE  Continues(t)
<1>1. ~ended
  BY DEF Reveal, Ready
<1>2. text \in Seq(Runes) /\ Len(text) \in Nat
  BY Cursor DEF TypeOK
<1>3. t \in Seq(Runes) /\ Len(text') <= Len(t) /\ (\A k \in 1..Len(text') : t[k] = text'[k]) /\ Len(t) \in Nat
  BY LenProperties DEF Continues
<1>4. CASE text' = text
  BY <1>1, <1>3, <1>4 DEF Continues
<1>5. CASE \E rune \in dialect.runes : text' = Append(text, rune)
  <2>1. PICK rune \in dialect.runes : text' = Append(text, rune)
    BY <1>5
  <2>2. dialect \in [begins : Seq(Runes), runes : SUBSET Runes, max : Nat]
    BY DialectsAssumption DEF IInv, TypeOK
  <2>3. rune \in Runes
    BY <2>2
  <2>4. Len(text') = Len(text) + 1 /\ \A k \in 1..Len(text) : text'[k] = text[k]
    BY <1>2, <2>1, <2>3, AppendProperties
  <2>5. Len(text) <= Len(t) /\ \A k \in 1..Len(text) : k \in 1..Len(text')
    BY <1>2, <1>3, <2>4
  <2>6. \A k \in 1..Len(text) : t[k] = text[k]
    BY <1>3, <2>4, <2>5
  <2> QED
    BY <1>1, <1>3, <2>5, <2>6 DEF Continues
<1> QED
  BY <1>4, <1>5 DEF Reveal

\* No step but Reveal changes the text.
LEMMA LexKeepsText ==
    ASSUME Lex
    PROVE  UNCHANGED text_vars
<1>1. ASSUME NEW c, NEW place, Go(c, place) \/ GoTo(c, place) \/ Begin(c, place)
      PROVE  UNCHANGED text_vars
  BY <1>1 DEF Go, GoTo, Begin
<1>2. ASSUME Fail
      PROVE  UNCHANGED text_vars
  BY <1>1, <1>2 DEF Fail
<1>3. ASSUME NEW c, NEW x, NEW place, Quote(c, x, place)
      PROVE  UNCHANGED text_vars
  BY <1>3 DEF Quote
<1>4. ASSUME NEW c, NEW all, addFodder(c, all)
      PROVE  UNCHANGED text_vars
  BY <1>4 DEF addFodder
<1>5. ASSUME NEW c, NEW kind, NEW what, NEW place, emit(c, kind, what, place)
      PROVE  UNCHANGED text_vars
  BY <1>5 DEF emit
<1>6. ASSUME LexEnd \/ LexWhitespace \/ LexPunctuation \/ LexWord \/ LexString \/ LexVerbatim \/ LexHash \/ LexOther
      PROVE  UNCHANGED text_vars
  BY <1>1, <1>2, <1>3, <1>4, <1>5, <1>6 DEF LexEnd, LexWhitespace, LexPunctuation, LexWord, LexString, LexVerbatim,
     LexHash, LexOther, emitToken, emitFullToken, addWhitespaceFodder
<1>7. ASSUME LexNumber \/ LexIdentifier
      PROVE  UNCHANGED text_vars
  BY <1>1, <1>2, <1>5, <1>7 DEF LexNumber, LexIdentifier, emitToken, emitFullToken
<1>8. ASSUME LexStringRune \/ LexVerbatimRune
      PROVE  UNCHANGED text_vars
  BY <1>1, <1>2, <1>5, <1>8 DEF LexStringRune, LexVerbatimRune, emitString, emitFullToken
<1>9. ASSUME LexSymbol \/ LexLineComment \/ LexBlockComment \/ LexOperator
      PROVE  UNCHANGED text_vars
  BY <1>1, <1>2, <1>4, <1>5, <1>9 DEF LexSymbol, LexLineComment, LexBlockComment, LexOperator, emitToken, emitFullToken,
     addCommentFodder
<1>10. ASSUME BlockOpens \/ BlockFirstLine \/ BlockLine \/ BlockNextLine \/ BlockLastLine
       PROVE  UNCHANGED text_vars
  BY <1>1, <1>2, <1>5, <1>10 DEF BlockOpens, BlockFirstLine, BlockLine, BlockNextLine, BlockLastLine, emitFullToken
<1> QED
  BY <1>6, <1>7, <1>8, <1>9, <1>10 DEF Lex

\* Every place of the code reads a piece of the text, whatever the text is.
LEMMA NextReads == IInv /\ ReadsEvery /\ [Next]_vars => ReadsEvery'
<1> SUFFICES ASSUME IInv, ReadsEvery, [Next]_vars, NEW t, Continues(t)'
             PROVE  Reads(t)'
  BY DEF ReadsEvery
<1>1. CASE UNCHANGED vars
  <2>1. UNCHANGED <<text, ended, cursor, start, tokens, fodder, at, quot, data, indent>>
    BY <1>1 DEF vars, text_vars
  <2>2. Continues(t)
    BY <2>1 DEF Continues
  <2>3. Reads(t)
    BY <2>2 DEF ReadsEvery
  <2> QED
    BY <2>1, <2>3 DEF Reads, Emitted, Started, End
<1>2. CASE Reveal
  <2>1. Continues(t)
    BY <1>2, RevealContinues
  <2>2. Reads(t)
    BY <2>1 DEF ReadsEvery
  <2>3. UNCHANGED <<cursor, start, tokens, fodder, at, quot, data, indent>>
    BY <1>2 DEF Reveal
  <2> QED
    BY <2>2, <2>3 DEF Reads, Emitted, Started, End
<1>3. CASE Lex
  <2>1. UNCHANGED <<text, ended>>
    BY <1>3, LexKeepsText DEF text_vars
  <2>2. Continues(t)
    BY <2>1 DEF Continues
  <2>3. Reads(t)
    BY <2>2 DEF ReadsEvery
  <2>4. CASE LexEnd
    BY <2>2, <2>3, <2>4, EndReads
  <2>5. CASE LexWhitespace
    BY <2>2, <2>3, <2>5, WhitespaceReads
  <2>6. CASE LexPunctuation
    BY <2>2, <2>3, <2>6, PunctuationReads
  <2>7. CASE LexWord
    BY <2>2, <2>3, <2>7, WordReads
  <2>8. CASE LexString
    BY <2>2, <2>3, <2>8, QuoteReads
  <2>9. CASE LexVerbatim
    BY <2>2, <2>3, <2>9, AtReads
  <2>10. CASE LexHash
    BY <2>2, <2>3, <2>10, HashReads
  <2>11. CASE LexOther
    BY <2>2, <2>3, <2>11, OtherReads
  <2>12. CASE LexNumber
    BY <2>2, <2>3, <2>12, NumberReads
  <2>13. CASE LexIdentifier
    BY <2>2, <2>3, <2>13, IdentifierReads
  <2>14. CASE LexStringRune
    BY <2>2, <2>3, <2>14, StringReads
  <2>15. CASE LexVerbatimRune
    BY <2>2, <2>3, <2>15, VerbatimReads
  <2>16. CASE LexSymbol
    BY <2>2, <2>3, <2>16, SymbolReads
  <2>17. CASE LexLineComment
    BY <2>2, <2>3, <2>17, LineCommentReads
  <2>18. CASE LexBlockComment
    BY <2>2, <2>3, <2>18, BlockCommentReads
  <2>19. CASE LexOperator
    BY <2>2, <2>3, <2>19, OperatorReads
  <2>20. CASE BlockOpens
    BY <2>2, <2>3, <2>20, OpensReads
  <2>21. CASE BlockFirstLine
    BY <2>2, <2>3, <2>21, FirstLineReads
  <2>22. CASE BlockLine
    BY <2>2, <2>3, <2>22, LineReads
  <2>23. CASE BlockNextLine
    BY <2>2, <2>3, <2>23, NextLineReads
  <2>24. CASE BlockLastLine
    BY <2>2, <2>3, <2>24, LastLineReads
  <2> QED
    BY <1>3, <2>4, <2>5, <2>6, <2>7, <2>8, <2>9, <2>10, <2>11, <2>12, <2>13, <2>14, <2>15, <2>16,
       <2>17, <2>18, <2>19, <2>20, <2>21, <2>22, <2>23, <2>24 DEF Lex
<1> QED
  BY <1>1, <1>2, <1>3 DEF Next

\* What the places say together once nothing is left to read.
LEMMA ReadsRecognises == IInv /\ ReadsEvery => RecognisesText
<1> SUFFICES ASSUME IInv, ReadsEvery, at \in {"done", "error"}
             PROVE  /\ Emitted(text)
                    /\ at = "done" => tokens # <<>> /\ tokens[Len(tokens)].kind = "eof"
                    /\ at = "error" => \E i \in 0..Len(text) : Started(text, i) /\ Junk(text, i)
  BY DEF RecognisesText, Emitted, Started
<1>1. Continues(text)
  BY Cursor DEF Continues, TypeOK
<1>2. Reads(text)
  BY <1>1 DEF ReadsEvery
<1> QED
  BY <1>2 DEF Reads

\* Whatever the text, its tokens, their data and their fodder are the pieces it is
\* made of, without a gap, and where the lexer fails there is none.
THEOREM TextRecognised == Spec => []RecognisesText
<1>1. Spec => []IInv
  BY InitIInv, NextIInv, PTL DEF Spec
<1>2. Spec => []ReadsEvery
  BY <1>1, InitReads, NextReads, PTL DEF Spec
<1> QED
  BY <1>1, <1>2, ReadsRecognises, PTL
----------------------------------------------------------------------------
(* Lex ends.  Every step but Reveal lets what is being read begin at a later *)
(* rune, or the cursor move on, or the code come to a later place; Reveal    *)
(* looks further into a text of at most dialect.max runes.                   *)
Rank(place) ==
    IF place \in {"done", "error"} THEN 3
    ELSE IF place = "begin" THEN 2
    ELSE IF place \in {"lex", "last line"} THEN 1 ELSE 0
Moves ==
    \/ start'.n > start.n
    \/ start'.n = start.n /\ cursor'.pos.n > cursor.pos.n
    \/ start'.n = start.n /\ cursor'.pos.n = cursor.pos.n /\ Rank(at') > Rank(at)
Looked ==
    /\ \/ Len(text') = Len(text) + 1 /\ Len(text') <= dialect.max
       \/ text' = text /\ ended' /\ ~ended
    /\ UNCHANGED <<dialect, start, cursor, at>>

\* No step of Lex leaves it where it was, so that the loops of lexer.go end.
Advances == start.n <= cursor.pos.n /\ cursor.pos.n <= Len(text)
                /\ (Looked \/ (Moves /\ UNCHANGED text_vars))

\* The forms of a step.
LEMMA GoMoves ==
    ASSUME NEW c, NEW place, GoTo(c, place), c.pos.n > cursor.pos.n
    PROVE  Moves
<1>1. cursor' = c /\ start' = start
  BY DEF GoTo
<1> QED
  BY <1>1 DEF Moves

LEMMA FailMoves ==
    ASSUME IInv, Fail, at \notin {"done", "error"}
    PROVE  Moves
<1>1. cursor' = Read /\ start' = start /\ at' = "error"
  BY DEF Fail, Go, GoTo
<1>2. cursor.pos.n \in Nat /\ Read.pos.n \in Nat /\ cursor.pos.n <= Read.pos.n
  BY Cursor
<1>3. Rank(at') = 3 /\ Rank(at) \in {0, 1, 2}
  BY <1>1 DEF Rank
<1>4. Rank(at') > Rank(at)
  BY <1>3
<1> QED
  BY <1>1, <1>2, <1>4 DEF Moves

LEMMA EmitMoves ==
    ASSUME NEW c, NEW kind, NEW what, NEW place, emit(c, kind, what, place), c.pos.n > start.n
    PROVE  Moves
<1>1. start' = c.pos
  BY DEF emit, resetTokenStart
<1> QED
  BY <1>1 DEF Moves

LEMMA FodderMoves ==
    ASSUME NEW c, NEW all, addFodder(c, all), c.pos.n > start.n
    PROVE  Moves
<1>1. start' = c.pos
  BY DEF addFodder, resetTokenStart
<1> QED
  BY <1>1 DEF Moves

LEMMA BeginMoves ==
    ASSUME NEW c, NEW place, Begin(c, place), c.pos.n > start.n
    PROVE  Moves
<1>1. start' = c.pos
  BY DEF Begin, resetTokenStart
<1> QED
  BY <1>1 DEF Moves

LEMMA QuoteMoves ==
    ASSUME NEW c, NEW quote, NEW place, Quote(c, quote, place), c.pos.n > cursor.pos.n
    PROVE  Moves
<1>1. cursor' = c /\ start' = start
  BY DEF Quote
<1> QED
  BY <1>1 DEF Moves

\* Where the code may leave the cursor after a rune.
LEMMA Steps ==
    ASSUME IInv
    PROVE  /\ start.n \in Nat /\ cursor.pos.n \in Nat /\ start.n <= cursor.pos.n
           /\ Seen.pos = cursor.pos
           /\ backup(next(Read)).pos = Read.pos
           /\ next(backup(next(Read))).pos.n \in Nat
           /\ next(backup(next(Read))).pos.n >= Read.pos.n
           /\ next(Read).pos.n \in Nat /\ next(Read).pos.n >= Read.pos.n
           /\ next(Seen).pos = Read.pos /\ backup(next(next(Seen))).pos = Read.pos
           /\ r # "eof" => Read.pos.n = cursor.pos.n + 1
<1>1. /\ TypeOK /\ Sound(Read.pos) /\ Sound(Seen.pos) /\ Seen.pos = cursor.pos
      /\ Read.pos = After(cursor.pos) /\ start.n \in Nat /\ cursor.pos.n \in Nat
      /\ start.n <= cursor.pos.n
      /\ Read.pos.n = IF r = "eof" THEN cursor.pos.n ELSE cursor.pos.n + 1
  BY Cursor
<1>2. /\ backup(next(Read)).pos = Read.pos
      /\ Sound(next(Read).pos) /\ next(Read).pos.n >= Read.pos.n
  BY <1>1, NextSound
<1>3. /\ Sound(next(backup(next(Read))).pos)
      /\ next(backup(next(Read))).pos.n >= Read.pos.n
  BY <1>1, <1>2, NextSound
<1>4. next(Seen).pos = Read.pos /\ Sound(next(Seen).pos)
  BY <1>1 DEF next
<1>5. backup(next(next(Seen))).pos = Read.pos
  BY <1>1, <1>4, NextSound
<1> QED
  BY <1>1, <1>2, <1>3, <1>4, <1>5, SoundInText

\* The loop of Lex.
LEMMA LoopMoves ==
    ASSUME IInv,
           \/ LexEnd \/ LexWhitespace \/ LexPunctuation \/ LexWord \/ LexString \/ LexVerbatim
           \/ LexHash \/ LexOther
    PROVE  Moves
<1>0. /\ start.n \in Nat /\ cursor.pos.n \in Nat /\ Seen.pos = cursor.pos
      /\ next(Read).pos.n \in Nat /\ next(Read).pos.n >= Read.pos.n
      /\ next(Seen).pos = Read.pos
      /\ r # "eof" => Read.pos.n = cursor.pos.n + 1
      /\ r = "eof" => Read.pos.n = cursor.pos.n
  BY Steps, Cursor
<1>1. at = "lex" /\ start.n = cursor.pos.n
  BY DEF LexEnd, LexWhitespace, LexPunctuation, LexWord, LexString, LexVerbatim, LexHash, LexOther,
         On, IInv, Begun
<1>2. CASE LexEnd
  <2>1. r = "eof" /\ emit(Read, "eof", Lexeme(Read), "done")
    BY <1>2 DEF LexEnd
  <2>2. start'.n = cursor.pos.n /\ cursor'.pos.n = cursor.pos.n /\ at' = "done"
    BY <1>0, <2>1 DEF emit, resetTokenStart
  <2>3. Rank(at') = 3 /\ Rank(at) = 1
    BY <1>1, <2>2 DEF Rank
  <2> QED
    BY <1>0, <1>1, <2>2, <2>3 DEF Moves
<1>3. ASSUME r # "eof"
      PROVE  Read.pos.n > cursor.pos.n /\ next(Read).pos.n > cursor.pos.n /\ next(Seen).pos.n > cursor.pos.n
  BY <1>0, <1>3
<1>4. CASE LexWhitespace
  <2>1. r # "eof" /\ addWhitespaceFodder(Read)
    BY <1>4 DEF LexWhitespace, Blanks, Indents
  <2> QED
    BY <1>1, <1>3, <2>1, FodderMoves DEF addWhitespaceFodder
<1>5. CASE LexPunctuation
  <2>1. r # "eof" /\ emitToken(Read, r)
    BY <1>5 DEF LexPunctuation, Punctuation
  <2> QED
    BY <1>1, <1>3, <2>1, EmitMoves DEF emitToken, emitFullToken
<1>6. CASE LexWord
  <2>1. r # "eof" /\ (Go(Seen, "begin") \/ Go(next(Seen), "identifier"))
    BY <1>6 DEF LexWord, Digits, Letters
  <2>2. CASE Go(Seen, "begin")
    <3>1. start'.n = start.n /\ cursor'.pos.n = cursor.pos.n /\ at' = "begin"
      BY <1>0, <2>2 DEF Go, GoTo
    <3>2. Rank(at') = 2 /\ Rank(at) = 1
      BY <1>1, <3>1 DEF Rank
    <3> QED
      BY <3>1, <3>2 DEF Moves
  <2>3. CASE Go(next(Seen), "identifier")
    BY <1>3, <2>1, <2>3, GoMoves DEF Go
  <2> QED
    BY <2>1, <2>2, <2>3
<1>7. CASE LexString
  <2>1. r # "eof" /\ Quote(Read, r, "string")
    BY <1>7 DEF LexString, Quotes
  <2> QED
    BY <1>3, <2>1, QuoteMoves
<1>8. CASE LexVerbatim
  <2>1. r # "eof" /\ (Fail \/ Quote(next(Read), RuneAt(cursor.pos.n + 1), "verbatim"))
    BY <1>8 DEF LexVerbatim
  <2> QED
    BY <1>1, <1>3, <2>1, QuoteMoves, FailMoves
<1>9. CASE LexHash
  <2>1. r # "eof" /\ Begin(Read, "# comment")
    BY <1>9 DEF LexHash
  <2> QED
    BY <1>1, <1>3, <2>1, BeginMoves
<1>10. CASE LexOther
  BY <1>1, <1>10, FailMoves DEF LexOther
<1> QED
  BY <1>2, <1>4, <1>5, <1>6, <1>7, <1>8, <1>9, <1>10

\* A number or an identifier has a rune before the cursor, unless it begins.
LEMMA WordSpans ==
    ASSUME IInv, Reads(text), Continues(text), at \in (NumberStates \ {"begin"}) \cup {"identifier"}
    PROVE  start.n < cursor.pos.n
<1>0. at \notin {"lex", "done", "error"}
  BY DEF NumberStates
<1>1. PICK i \in 0..Len(text) :
          i \in Nat /\ Started(text, i) /\ Pending(text, at, i, start.n, cursor.pos.n, quot, data, indent)
  BY <1>0, PieceStarted
<1>2. /\ start.n = i /\ cursor.pos.n \in Nat
      /\ Shape(text, at, i, cursor.pos.n) \/ i < cursor.pos.n
  BY <1>1, Cursor DEF Pending, NumberStates, Scans
<1>3. ASSUME Shape(text, at, i, cursor.pos.n), at # "begin"
      PROVE  i < cursor.pos.n
  <2>1. cursor.pos.n = i => at \notin {"after zero", "after one to nine", "after dot", "after digit",
                                       "after e", "after sign", "after exponent"}
    <3>1. SUFFICES ASSUME cursor.pos.n = i
                   PROVE  /\ at # "after zero" /\ at # "after one to nine" /\ at # "after dot"
                          /\ at # "after digit" /\ at # "after e" /\ at # "after sign"
                          /\ at # "after exponent"
      OBVIOUS
    <3>2. \A a \in i..i : ~(i = a + 1) /\ ~(i = a + 2) /\ ~(a < i)
      BY <1>1
    <3>3. ~(i < i) /\ ~(i = i + 1)
      BY <1>1
    <3>4. ASSUME NEW b \in i..i, NEW k \in b + 1 .. i
          PROVE  FALSE
      BY <1>1, <3>4
    <3> QED
      BY <1>3, <3>1, <3>2, <3>3, <3>4 DEF Shape, Natural
  <2>2. i <= cursor.pos.n
    BY <1>1, <1>2, <1>3, ShapeOrder
  <2>3. cursor.pos.n # i
    BY <1>2, <1>3, <2>1 DEF Shape
  <2> QED
    BY <1>1, <1>2, <2>2, <2>3
<1> QED
  BY <1>2, <1>3

LEMMA NumberMoves ==
    ASSUME IInv, Reads(text), Continues(text), LexNumber
    PROVE  Moves
<1>1. at \in NumberStates /\ at \notin {"done", "error"}
  BY DEF LexNumber, NumberStates
<1>2. \/ Fail
      \/ NumberStep(at) = "end" /\ emitToken(Seen, "number")
      \/ NumberStep(at) \notin {"junk", "end"} /\ Go(Read, NumberStep(at))
  BY DEF LexNumber
<1>3. CASE Fail
  BY <1>1, <1>3, FailMoves
<1>4. CASE NumberStep(at) = "end" /\ emitToken(Seen, "number")
  <2>1. at # "begin"
    BY <1>4 DEF NumberStep
  <2>2. Seen.pos.n > start.n
    BY <1>1, <2>1, WordSpans, Steps
  <2> QED
    BY <1>4, <2>2, EmitMoves DEF emitToken, emitFullToken
<1>5. CASE NumberStep(at) \notin {"junk", "end"} /\ Go(Read, NumberStep(at))
  <2>1. CASE at # "begin"
    <3>1. r # "eof"
      BY <1>5, <2>1 DEF NumberStep, Digits
    <3>2. Read.pos.n > cursor.pos.n
      BY <3>1, Steps
    <3> QED
      BY <1>5, <3>2, GoMoves DEF Go
  <2>2. CASE at = "begin"
    <3>1. PICK i \in 0..Len(text) :
              i \in Nat /\ Started(text, i) /\ Pending(text, at, i, start.n, cursor.pos.n, quot, data, indent)
      BY <2>2, PieceStarted
    <3>2. Comes(text, i, Digits) /\ cursor.pos.n = i
      BY <2>2, <3>1 DEF Pending, NumberStates, Scans, Shape
    <3>3. r # "eof"
      <4>1. i < Len(text) /\ r = text[i + 1] /\ text[i + 1] \in Digits
        BY <3>2 DEF r, RuneAt, Comes
      <4> QED
        BY <4>1 DEF Digits
    <3>4. Read.pos.n > cursor.pos.n
      BY <3>3, Steps
    <3> QED
      BY <1>5, <3>4, GoMoves DEF Go
  <2> QED
    BY <2>1, <2>2
<1> QED
  BY <1>2, <1>3, <1>4, <1>5

LEMMA IdentifierMoves ==
    ASSUME IInv, Reads(text), Continues(text), LexIdentifier
    PROVE  Moves
<1>1. at = "identifier"
  BY DEF LexIdentifier, On
<1>2. CASE r \in Letters \cup Digits
  <2>1. r # "eof" /\ Go(Read, "identifier")
    BY <1>2 DEF LexIdentifier, Letters, Digits
  <2>2. Read.pos.n > cursor.pos.n
    BY <2>1, Steps
  <2> QED
    BY <2>1, <2>2, GoMoves DEF Go
<1>3. CASE r \notin Letters \cup Digits
  <2>1. Seen.pos.n > start.n
    BY <1>1, WordSpans, Steps
  <2>2. \E kind \in {"keyword", "identifier"} : emitToken(Seen, kind)
    BY <1>3 DEF LexIdentifier
  <2> QED
    BY <2>1, <2>2, EmitMoves DEF emitToken, emitFullToken
<1> QED
  BY <1>2, <1>3

\* A string's quote is a rune, not the end of the text.
LEMMA QuoteThere ==
    ASSUME IInv, Reads(text), Continues(text), at \in {"string", "verbatim"}
    PROVE  quot # "eof"
<1>0. at \notin {"lex", "done", "error"}
  OBVIOUS
<1>1. PICK i \in 0..Len(text) :
          i \in Nat /\ Started(text, i) /\ Pending(text, at, i, start.n, cursor.pos.n, quot, data, indent)
  BY <1>0, PieceStarted
<1>2. i + 1 + 1 = i + 2
  BY <1>1
<1>3. quot \in Quotes
  BY <1>1, <1>2 DEF Pending, NumberStates, Inside, InVerbatim, Comes
<1> QED
  BY <1>3 DEF Quotes

LEMMA StringMoves ==
    ASSUME IInv, Reads(text), Continues(text), LexStringRune \/ LexVerbatimRune
    PROVE  Moves
<1>0. at \notin {"done", "error"} /\ quot # "eof"
  BY QuoteThere DEF LexStringRune, LexVerbatimRune, On
<1>1. ASSUME r # "eof"
      PROVE  /\ Read.pos.n > cursor.pos.n /\ Read.pos.n > start.n
             /\ backup(next(Read)).pos.n > cursor.pos.n /\ backup(next(Read)).pos.n > start.n
             /\ next(backup(next(Read))).pos.n > cursor.pos.n
  BY <1>1, Steps
<1>2. CASE r = "eof"
  <2>1. CASE LexStringRune
    <3>1. Fail
      BY <1>0, <1>2, <2>1 DEF LexStringRune
    <3> QED
      BY <1>0, <3>1, FailMoves
  <2>2. CASE LexVerbatimRune
    <3>1. Fail
      BY <1>0, <1>2, <2>2 DEF LexVerbatimRune
    <3> QED
      BY <1>0, <3>1, FailMoves
  <2> QED
    BY <2>1, <2>2
<1>3. CASE r # "eof" /\ LexStringRune
  <2>1. \/ emitString(Read)
        \/ \E c \in {Read, backup(next(Read)), next(backup(next(Read)))} : Go(c, "string")
    BY <1>3 DEF LexStringRune
  <2>2. CASE emitString(Read)
    BY <1>1, <1>3, <2>2, EmitMoves DEF emitString, emitFullToken
  <2>3. ASSUME NEW c \in {Read, backup(next(Read)), next(backup(next(Read)))}, Go(c, "string")
        PROVE  Moves
    BY <1>1, <1>3, <2>3, GoMoves DEF Go
  <2> QED
    BY <2>1, <2>2, <2>3
<1>4. CASE r # "eof" /\ LexVerbatimRune
  <2>1. \/ emitFullToken(backup(next(Read)), "verbatim", data)
        \/ \E c \in {Read, next(backup(next(Read)))} : GoTo(c, "verbatim")
    BY <1>4 DEF LexVerbatimRune
  <2>2. CASE emitFullToken(backup(next(Read)), "verbatim", data)
    BY <1>1, <1>4, <2>2, EmitMoves DEF emitFullToken
  <2>3. ASSUME NEW c \in {Read, next(backup(next(Read)))}, GoTo(c, "verbatim")
        PROVE  Moves
    BY <1>1, <1>4, <2>3, GoMoves
  <2> QED
    BY <2>1, <2>2, <2>3
<1> QED
  BY <1>2, <1>3, <1>4

LEMMA SymbolMoves ==
    ASSUME IInv, LexSymbol
    PROVE  Moves
<1> DEFINE c == IF r = "/" THEN backup(next(next(Seen))) ELSE next(Seen)
<1>1. at = "lex" /\ start.n = cursor.pos.n /\ r # "eof"
  BY DEF LexSymbol, On, IInv, Begun, Symbols
<1>2. c.pos = Read.pos /\ Sound(c.pos) /\ c.pos.n > cursor.pos.n /\ TypeOK /\ c.pos.n \in Nat
      /\ cursor.pos.n \in Nat
  <2>1. c.pos = Read.pos
    BY Steps
  <2> HIDE DEF c
  <2>2. Sound(Read.pos) /\ TypeOK /\ Read.pos.n \in Nat /\ cursor.pos.n \in Nat
    BY Cursor
  <2>3. Read.pos.n = cursor.pos.n + 1
    BY <1>1, Steps
  <2> QED
    BY <2>1, <2>2, <2>3
<1>3. (CASE r = "/" /\ Follows(<<"/">>) -> Begin(next(c), "// comment")
         [] r = "/" /\ Follows(<<"*">>) -> Begin(next(c), "/* comment")
         [] r = "|" /\ Follows(<<"|", "|">>) -> GoTo(acceptN(c, 2), "block") /\ data' = <<>>
         [] OTHER -> Go(c, "operator"))
  BY DEF LexSymbol
<1> HIDE DEF c
<1>4. next(c).pos.n > cursor.pos.n
  <2>1. next(c).pos.n >= c.pos.n /\ Sound(next(c).pos)
    BY <1>2, NextSound
  <2>2. next(c).pos.n \in Nat
    BY <1>2, <2>1, SoundInText
  <2> QED
    BY <1>2, <2>1, <2>2
<1>5. acceptN(c, 2).pos.n > cursor.pos.n
  <2>1. acceptN(c, 2).pos.n = c.pos.n + 2
    BY DEF acceptN, Forward, Moved
  <2> QED
    BY <1>2, <2>1
<1>6. \/ \E place \in {"// comment", "/* comment"} : Begin(next(c), place)
      \/ GoTo(acceptN(c, 2), "block")
      \/ Go(c, "operator")
  BY <1>3
<1>7. CASE \E place \in {"// comment", "/* comment"} : Begin(next(c), place)
  BY <1>1, <1>4, <1>7, BeginMoves
<1>8. CASE GoTo(acceptN(c, 2), "block")
  BY <1>5, <1>8, GoMoves
<1>9. CASE Go(c, "operator")
  BY <1>2, <1>9, GoMoves DEF Go
<1> QED
  BY <1>6, <1>7, <1>8, <1>9

LEMMA CommentMoves ==
    ASSUME IInv, LexLineComment \/ LexBlockComment
    PROVE  Moves
<1>0. at \in Comments /\ at \notin {"done", "error"}
  BY DEF LexLineComment, LexBlockComment, On, Comments
<1>1. ASSUME r # "eof"
      PROVE  /\ Read.pos.n > cursor.pos.n
             /\ backup(next(Read)).pos.n > cursor.pos.n
             /\ next(backup(next(Read))).pos.n > start.n
  BY <1>1, Steps
<1>2. CASE LexLineComment
  <2>1. CASE r \in {"eof", "newline"}
    <3>1. addCommentFodder(Seen, at)
      BY <1>2, <2>1 DEF LexLineComment
    <3>2. start'.n = cursor.pos.n /\ cursor'.pos.n = cursor.pos.n /\ at' = "lex"
      BY <3>1, Steps DEF addCommentFodder, addFodder, resetTokenStart
    <3>3. start.n \in Nat /\ cursor.pos.n \in Nat /\ start.n <= cursor.pos.n
      BY Steps
    <3>4. Rank(at') = 1 /\ Rank(at) = 0
      BY <1>0, <3>2 DEF Rank, Comments
    <3> QED
      BY <3>2, <3>3, <3>4 DEF Moves
  <2>2. CASE r \notin {"eof", "newline"}
    <3>1. Go(Read, at)
      BY <1>2, <2>2 DEF LexLineComment
    <3> QED
      BY <1>1, <2>2, <3>1, GoMoves DEF Go
  <2> QED
    BY <2>1, <2>2
<1>3. CASE LexBlockComment
  <2>1. \/ Fail
        \/ r # "eof" /\ \E all \in {Append(fodder, Fodder(at, cursor.pos))} :
              addFodder(next(backup(next(Read))), all)
        \/ r # "eof" /\ \E c \in {Read, backup(next(Read))} : Go(c, at)
    BY <1>3 DEF LexBlockComment
  <2>2. CASE Fail
    BY <1>0, <2>2, FailMoves
  <2>3. CASE r # "eof" /\ \E all \in {Append(fodder, Fodder(at, cursor.pos))} :
                addFodder(next(backup(next(Read))), all)
    BY <1>1, <2>3, FodderMoves
  <2>4. CASE r # "eof" /\ \E c \in {Read, backup(next(Read))} : Go(c, at)
    BY <1>1, <2>4, GoMoves DEF Go
  <2> QED
    BY <2>1, <2>2, <2>3, <2>4
<1> QED
  BY <1>2, <1>3

LEMMA OperatorMoves ==
    ASSUME IInv, LexOperator
    PROVE  Moves
<1>1. at = "operator" /\ start.n < cursor.pos.n
  BY DEF LexOperator, On, IInv, Begun
<1>2. start.n \in Nat /\ cursor.pos.n \in Nat
  BY Steps
<1>3. CASE ~Stops
  <2>1. r # "eof" /\ Go(Read, "operator")
    BY <1>3 DEF LexOperator, Stops, Symbols
  <2>2. Read.pos.n > cursor.pos.n
    BY <2>1, Steps
  <2> QED
    BY <2>1, <2>2, GoMoves DEF Go
<1>4. CASE Stops
  <2>1. \E kind \in {"$", "operator"} : emitToken(WindBack(Seen), kind)
    BY <1>4 DEF LexOperator
  <2>2. WindBack(Seen).pos.n \in {start.n + 1, cursor.pos.n}
    BY <1>1, WindBackSound
  <2>3. WindBack(Seen).pos.n > start.n
    BY <1>1, <1>2, <2>2
  <2> QED
    BY <2>1, <2>3, EmitMoves DEF emitToken, emitFullToken
<1> QED
  BY <1>3, <1>4

\* Text blocks.
LEMMA BlockMoves ==
    ASSUME IInv, Reads(text), Continues(text),
           BlockOpens \/ BlockFirstLine \/ BlockLine \/ BlockNextLine \/ BlockLastLine
    PROVE  Moves
<1>0. at \notin {"done", "error"}
  BY DEF BlockOpens, BlockFirstLine, BlockLine, BlockNextLine, BlockLastLine, On
<1>1. /\ Seen.pos = cursor.pos /\ cursor.pos.n \in Nat /\ start.n \in Nat /\ start.n <= cursor.pos.n
      /\ r # "eof" => Read.pos.n > cursor.pos.n
  BY Steps
<1>2. ASSUME NEW place, GoTo(Read, place), r # "eof"
      PROVE  Moves
  BY <1>1, <1>2, GoMoves
<1>3. ASSUME NEW n
      PROVE  acceptN(Seen, n).pos.n = cursor.pos.n + n
  BY <1>1 DEF acceptN, Forward, Moved
<1>4. CASE BlockOpens
  <2>1. Fail \/ (r # "eof" /\ \E place \in {"block", "first line"} : GoTo(Read, place))
    BY <1>4 DEF BlockOpens, Go, Blanks, Indents
  <2> QED
    BY <1>0, <1>2, <2>1, FailMoves
<1>5. CASE BlockFirstLine
  <2>1. CASE r = "newline"
    BY <1>2, <1>5, <2>1 DEF BlockFirstLine
  <2>2. CASE r # "newline" /\ Indent = <<>>
    BY <1>0, <1>5, <2>2, FailMoves DEF BlockFirstLine
  <2>3. CASE r # "newline" /\ Indent # <<>>
    <3>1. indent' = Indent /\ cursor' = acceptN(Seen, Len(indent')) /\ start' = start
      BY <1>5, <2>3 DEF BlockFirstLine
    <3>2. Len(Indent) \in Nat /\ Len(Indent) > 0
      BY <2>3, IndentIsThere, EmptySeq, LenProperties
    <3>3. cursor'.pos.n = cursor.pos.n + Len(Indent)
      BY <1>3, <3>1
    <3> QED
      BY <1>1, <3>1, <3>2, <3>3 DEF Moves
  <2> QED
    BY <2>1, <2>2, <2>3
<1>6. CASE BlockLine
  <2>1. Fail \/ (r # "eof" /\ \E place \in {"next line", "line"} : GoTo(Read, place))
    BY <1>6 DEF BlockLine
  <2> QED
    BY <1>0, <1>2, <2>1, FailMoves
<1>7. CASE BlockNextLine
  <2>1. On("next line")
    BY <1>7 DEF BlockNextLine
  <2>2. Len(indent) \in Nat /\ Len(indent) > 0
    BY <2>1, InLines
  <2>3. CASE r = "newline" /\ GoTo(Read, at)
    BY <1>2, <2>3
  <2>4. CASE Go(acceptN(Seen, Len(indent)), "line")
    <3>1. acceptN(Seen, Len(indent)).pos.n > cursor.pos.n
      BY <1>1, <1>3, <2>2
    <3> QED
      BY <2>4, <3>1, GoMoves DEF Go
  <2>5. CASE Go(Seen, "last line")
    <3>1. start'.n = start.n /\ cursor'.pos.n = cursor.pos.n /\ at' = "last line"
      BY <1>1, <2>5 DEF Go, GoTo
    <3>2. Rank(at') = 1 /\ Rank(at) = 0
      BY <2>1, <3>1 DEF Rank, On
    <3>3. Rank(at') > Rank(at)
      BY <3>2
    <3> QED
      BY <3>1, <3>3 DEF Moves
  <2>6. \/ r = "newline" /\ GoTo(Read, at)
        \/ Go(acceptN(Seen, Len(indent)), "line")
        \/ Go(Seen, "last line")
    BY <1>7 DEF BlockNextLine
  <2> QED
    BY <2>3, <2>4, <2>5, <2>6
<1>8. CASE BlockLastLine
  <2>1. \/ Fail
        \/ r # "eof" /\ GoTo(Read, at)
        \/ emitFullToken(acceptN(Seen, 3), "block", data)
    BY <1>8 DEF BlockLastLine, Go, Indents
  <2>2. acceptN(Seen, 3).pos.n > start.n
    BY <1>1, <1>3
  <2> QED
    BY <1>0, <1>2, <2>1, <2>2, FailMoves, EmitMoves DEF emitFullToken
<1> QED
  BY <1>4, <1>5, <1>6, <1>7, <1>8

LEMMA RevealLooks ==
    ASSUME IInv, Reveal
    PROVE  Looked
<1>1. ~ended
  BY DEF Reveal, Ready
<1>2. text \in Seq(Runes) /\ Len(text) \in Nat
  BY Cursor DEF TypeOK
<1>3. dialect \in [begins : Seq(Runes), runes : SUBSET Runes, max : Nat]
  BY DialectsAssumption DEF IInv, TypeOK
<1>4. CASE ended' = TRUE /\ text' = text
  BY <1>1, <1>4 DEF Reveal, Looked
<1>5. CASE Len(text) < dialect.max /\ \E rune \in dialect.runes : text' = Append(text, rune)
  <2>1. PICK rune \in dialect.runes : text' = Append(text, rune)
    BY <1>5
  <2>2. rune \in Runes
    BY <1>3
  <2>3. Len(text') = Len(text) + 1
    BY <1>2, <2>1, <2>2, AppendProperties
  <2>4. Len(text') <= dialect.max
    BY <1>2, <1>3, <1>5, <2>3
  <2> QED
    BY <2>3, <2>4 DEF Reveal, Looked
<1> QED
  BY <1>4, <1>5 DEF Reveal

LEMMA NextAdvances == IInv /\ ReadsEvery /\ Next => Advances
<1> SUFFICES ASSUME IInv, ReadsEvery, Next
             PROVE  Advances
  OBVIOUS
<1>1. Continues(text)
  BY Cursor DEF Continues, TypeOK
<1>2. Reads(text)
  BY <1>1 DEF ReadsEvery
<1>3. start.n <= cursor.pos.n /\ cursor.pos.n <= Len(text)
  BY ContinuesTyped, <1>1
<1>4. CASE Reveal
  BY <1>3, <1>4, RevealLooks DEF Advances
<1>5. CASE Lex
  <2>1. Moves
    BY <1>1, <1>2, <1>5, LoopMoves, NumberMoves, IdentifierMoves, StringMoves, SymbolMoves,
       CommentMoves, OperatorMoves, BlockMoves DEF Lex
  <2> QED
    BY <1>3, <1>5, <2>1, LexKeepsText DEF Advances
<1> QED
  BY <1>4, <1>5 DEF Next

\* Lex returns (lexer.go:688), as far as it needs no fairness: no step leaves it
\* where it was, and the runes, the cursor and the places of the code move one way
\* within bounds, so only finitely many steps can follow each other.
THEOREM LexMovesOn == Spec => [][Advances]_vars
<1>1. IInv /\ ReadsEvery /\ [Next]_vars => [Advances]_vars
  BY NextAdvances
<1>2. Spec => []IInv
  BY InitIInv, NextIInv, PTL DEF Spec
<1>3. Spec => []ReadsEvery
  BY <1>2, InitReads, NextReads, PTL DEF Spec
<1> QED
  BY <1>1, <1>2, <1>3, PTL DEF Spec
=============================================================================

----------------------------- MODULE ParserProofs -----------------------------
(***************************************************************************)
(* Theorems about Parser, for all texts: the cursor never leaves the text  *)
(* but for one step past its end, and only with an error on its way up.    *)
(*                                                                         *)
(* The parser steps back in two places and counts on having advanced       *)
(* before, and it looks at tokens[cur] without asking whether one is left. *)
(* What makes this safe is that a place which begins an expression is only *)
(* reached with a token left to read, whatever the parser recovered from.  *)
(***************************************************************************)
EXTENDS Parser, SequenceTheorems, TLAPS

\* An object whose first field has been looked at.
Opened == [at : {"object"}, first : {FALSE}, inField : BOOLEAN, lits : SUBSET Kinds,
           binds : SUBSET Names, asserts : BOOLEAN, fields : Nat, lone : BOOLEAN]
Objects == [at : {"object"}, first : BOOLEAN, inField : BOOLEAN, lits : SUBSET Kinds,
            binds : SUBSET Names, asserts : BOOLEAN, fields : Nat, lone : BOOLEAN]
\* Where a bind leads to.
Targets == Opened \cup [at : {"bind body"}, names : SUBSET Names]
ArgumentLists(at) == [at : {at}, first : BOOLEAN, comma : BOOLEAN, named : BOOLEAN,
                      naming : BOOLEAN, simple : BOOLEAN]

\* The places that wait for the value of a call ...
Waiting ==
    [at : {"assert cond", "assert message", "wrap", "if cond", "if branch", "function",
           "import", "local", "called", "first element", "element"}]
    \cup [at : {"operators"}, level : Nat, prec : Nat]
    \cup ArgumentLists("argument")
    \cup [at : {"bind ="}, to : Targets]
    \cup Targets
    \cup [at : {"spec", "closing"}, end : Kinds]
    \cup [at : {"slice"}, colons : Nat, ready : {FALSE}]
    \cup [at : {"field name", "object assert"}, object : Opened]
    \cup [at : {"method"}, key : SUBSET Kinds, object : Opened]
\* ... and those that a call or a step of a loop begins with.
Starting ==
    [at : {"local body", "terminal", "array", "super", "element"}]
    \cup [at : {"parse"}, prec : Nat]
    \cup ArgumentLists("arguments")
    \cup [at : {"bind"}, names : SUBSET Names, to : Opened \cup [at : {"bind body"}]]
    \cup [at : {"bind parameters"}, to : Targets]
    \cup [at : {"bound"}, names : SUBSET Names]
    \cup [at : {"slice"}, colons : Nat, ready : {TRUE}]
    \cup [at : {"for"}, end : Kinds]
    \cup [at : {"field"}, key : SUBSET Kinds, object : Opened]
    \cup Objects

\* The callers wait, and so does the current place once a value is there.
CallersWait ==
    /\ stack \in Seq(Starting \cup Waiting)
    /\ \A i \in 1..(Len(stack) - 1) : stack[i] \in Waiting
    /\ stack # <<>> => /\ ret = "-" => top \in Starting
                       /\ ret # "-" => top \in Waiting

Tokens == Kinds \cup {"eof"}
Typed ==
    /\ dialect \in Dialects
    /\ tokens \in Seq(Tokens)
    /\ \A i \in DOMAIN tokens : tokens[i] = "eof" => i = Len(tokens)
    /\ cur \in Nat
    /\ ret \in Values
    /\ diags \subseteq Diagnostics
    /\ panicked \in BOOLEAN

\* A cursor that an error may leave, one that a value may, and one that has a
\* token left to read.
Reachable(c) == c <= Len(tokens) + 1 /\ (c > Len(tokens) => ended)
Within(c) == c <= Len(tokens)
Inside(c) == c <= Len(tokens) /\ (ended => c < Len(tokens))

\* The places that do no more than fail or go on to the body of a local when
\* the end of file has been consumed.
Harmless(f) ==
    \/ f.at \in {"bound", "local body", "element"}
    \/ f.at = "object" /\ ~f.first
    \/ f.at = "arguments" /\ ~f.first /\ ~f.comma

CursorInv ==
    /\ Reachable(cur)
    /\ ret # "err" => Within(cur)
    /\ ret \in {"simple", "complex"} => Inside(cur)
    /\ stack # <<>> /\ ret = "-" => Inside(cur) \/ Harmless(top)

\* No text begins with a comma or a semicolon that an object could be left at:
\* the parser gives up at once.
Unstarted == tokens = <<>> \/ tokens[1] \in {",", ";"}
StartInv ==
    Unstarted => /\ \A i \in DOMAIN stack : stack[i].at \in {"parse", "terminal", "operators"}
                 /\ ret = "err" \/ (ret = "-" /\ cur = 0)

\* The parser panics at an error past the end of file.
PanicInv == panicked => cur > Len(tokens)

IInv == Typed /\ CallersWait /\ CursorInv /\ StartInv /\ PanicInv
-----------------------------------------------------------------------------
(* What the places are.                                                    *)

LEMMA PlacesOf ==
  ASSUME NEW f \in Starting \cup Waiting
  PROVE  /\ f.at \in Places
         /\ f.at = "operators" => f \in [at : {"operators"}, level : Nat, prec : Nat]
         /\ f.at = "argument" => f \in ArgumentLists("argument")
         /\ f.at = "arguments" => f \in ArgumentLists("arguments")
         /\ f.at \in {"bind =", "bind parameters"} => f.to \in Targets
         /\ f.at \in {"spec", "closing", "for"} => f.end \in Kinds
         /\ f.at = "slice" => f.colons \in Nat /\ f.ready \in BOOLEAN
         /\ f.at \in {"field name", "object assert", "field", "method"} => f.object \in Opened
         /\ f.at \in {"field", "method"} => f.key \in SUBSET Kinds
         /\ f.at \in {"bound", "bind body", "bind"} => f.names \in SUBSET Names
         /\ f.at = "bind" => f.to \in Opened \cup [at : {"bind body"}]
         /\ f.at = "object" => f \in Objects
         /\ f.at = "field" => f \in [at : {"field"}, key : SUBSET Kinds, object : Opened]
         /\ f.at = "parse" => f.prec \in Nat
<1> USE DEF Starting, Waiting, Targets, Opened, Objects, ArgumentLists
<1>1. f.at \in Places
  BY DEF Places
<1>2. /\ f.at = "operators" => f \in [at : {"operators"}, level : Nat, prec : Nat]
      /\ f.at = "argument" => f \in ArgumentLists("argument")
      /\ f.at = "arguments" => f \in ArgumentLists("arguments")
  OBVIOUS
<1>3. /\ f.at \in {"bind =", "bind parameters"} => f.to \in Targets
      /\ f.at \in {"spec", "closing", "for"} => f.end \in Kinds
  OBVIOUS
<1>4. /\ f.at = "slice" => f.colons \in Nat /\ f.ready \in BOOLEAN
      /\ f.at = "parse" => f.prec \in Nat
  OBVIOUS
<1>5. /\ f.at \in {"field name", "object assert", "field", "method"} => f.object \in Opened
      /\ f.at \in {"field", "method"} => f.key \in SUBSET Kinds
  OBVIOUS
<1>6. /\ f.at \in {"bound", "bind body", "bind"} => f.names \in SUBSET Names
      /\ f.at = "bind" => f.to \in Opened \cup [at : {"bind body"}]
  OBVIOUS
<1>7. f.at = "object" => f \in Objects
  OBVIOUS
<1>8. f.at = "field" => f \in [at : {"field"}, key : SUBSET Kinds, object : Opened]
  OBVIOUS
<1>9. QED
  BY ONLY <1>1, <1>2, <1>3, <1>4, <1>5, <1>6, <1>7, <1>8

LEMMA WaitingAt ==
  ASSUME NEW f \in Waiting
  PROVE  /\ f.at \notin {"local body", "terminal", "array", "super", "parse", "arguments",
                         "bind", "bind parameters", "bound", "for", "field"}
         /\ f.at = "slice" => ~f.ready
         /\ f.at = "object" => f \in Opened
  BY DEF Waiting, Targets, Opened, ArgumentLists

LEMMA StartingAt ==
  ASSUME NEW f \in Starting
  PROVE  /\ f.at \in {"local body", "terminal", "array", "super", "parse", "arguments",
                      "bind", "bind parameters", "bound", "for", "field", "slice",
                      "element", "object"}
         /\ f.at = "slice" => f.ready
  BY DEF Starting, Objects, ArgumentLists
-----------------------------------------------------------------------------
(* Calls and returns.                                                      *)

LEMMA RestOf ==
  ASSUME CallersWait, stack # <<>>
  PROVE  /\ rest \in Seq(Waiting) /\ Len(rest) = Len(stack) - 1
         /\ \A i \in 1..Len(rest) : rest[i] = stack[i]
         /\ Len(stack) \in Nat \ {0} /\ top = stack[Len(stack)]
         /\ top \in Starting \cup Waiting
<1>1. Len(stack) \in Nat \ {0} /\ stack \in Seq(Starting \cup Waiting)
  BY EmptySeq DEF CallersWait
<1>2. rest = [i \in 1..(Len(stack) - 1) |-> stack[i]]
  BY <1>1 DEF rest, Front
<1>3. \A i \in 1..(Len(stack) - 1) : stack[i] \in Waiting
  BY DEF CallersWait
<1>4. rest \in Seq(Waiting) /\ Len(rest) = Len(stack) - 1
  BY <1>1, <1>2, <1>3
<1>5. QED
  BY <1>1, <1>2, <1>4 DEF top, Last

\* The current place gives way to calls.
LEMMA Grows ==
  ASSUME CallersWait, stack # <<>>, NEW calls \in Seq(Starting \cup Waiting),
         stack' = rest \o calls,
         \A i \in 1..(Len(calls) - 1) : calls[i] \in Waiting,
         calls = <<>> => ret' # "-",
         calls # <<>> /\ ret' = "-" => calls[Len(calls)] \in Starting,
         calls # <<>> /\ ret' # "-" => calls[Len(calls)] \in Waiting
  PROVE  /\ CallersWait'
         /\ Len(stack') = Len(rest) + Len(calls)
         /\ \A i \in 1..Len(rest) : stack'[i] = rest[i]
         /\ calls # <<>> => top' = calls[Len(calls)]
<1>1. /\ rest \in Seq(Waiting) /\ Len(rest) \in Nat /\ Len(calls) \in Nat
      /\ rest \in Seq(Starting \cup Waiting)
  BY RestOf
<1>2. /\ stack' \in Seq(Starting \cup Waiting) /\ Len(stack') = Len(rest) + Len(calls)
      /\ \A i \in 1..Len(rest) : stack'[i] = rest[i]
      /\ \A i \in 1..Len(calls) : stack'[Len(rest) + i] = calls[i]
  BY <1>1, ConcatProperties
<1>3. \A i \in 1..Len(rest) : rest[i] \in Waiting
  BY <1>1, ElementOfSeq
<1>4. calls # <<>> => Len(calls) > 0
  BY <1>1, EmptySeq
<1>5. calls = <<>> => Len(calls) = 0
  OBVIOUS
<1>6. \A i \in 1..(Len(stack') - 1) : stack'[i] \in Waiting
  <2> TAKE i \in 1..(Len(stack') - 1)
  <2>1. CASE i <= Len(rest)
    BY <1>1, <1>2, <1>3, <2>1
  <2>2. CASE i > Len(rest)
    <3>1. i - Len(rest) \in 1..(Len(calls) - 1) /\ i = Len(rest) + (i - Len(rest))
      BY <1>1, <1>2, <2>2
    <3>2. stack'[i] = calls[i - Len(rest)]
      BY <1>1, <1>2, <3>1
    <3>3. QED
      BY <3>1, <3>2
  <2>3. QED
    BY <1>1, <1>2, <2>1, <2>2
<1>7. calls # <<>> => stack'[Len(stack')] = calls[Len(calls)]
  BY <1>1, <1>2, <1>4
<1>8. calls = <<>> /\ stack' # <<>> => stack'[Len(stack')] \in Waiting
  <2> SUFFICES ASSUME calls = <<>>, stack' # <<>> PROVE stack'[Len(stack')] \in Waiting
    OBVIOUS
  <2>1. Len(stack') = Len(rest) /\ Len(stack') # 0
    BY <1>1, <1>2, <1>5, EmptySeq
  <2>2. QED
    BY <1>1, <1>2, <1>3, <2>1
<1>9. CallersWait'
  BY <1>2, <1>6, <1>7, <1>8 DEF CallersWait, top, Last
<1>10. QED
  BY <1>2, <1>7, <1>9 DEF top, Last

\* What holds of the text still holds, since a step of the parser reads on.
LEMMA TextKept ==
  ASSUME Typed, NEW n, NEW calls, NEW value \in Values, GoWith(n, calls, value),
         diags' \subseteq Diagnostics, cur + n \in Nat
  PROVE  /\ Typed' /\ ended' = ended /\ Unstarted' = Unstarted /\ cur' = cur + n
         /\ Len(tokens') = Len(tokens)
  BY DEF Typed, GoWith, ended, Unstarted

\* An error leaves to the caller.
LEMMA ErrorStep ==
  ASSUME IInv, ~stopped, NEW n \in Nat, Error(n), Reachable(cur + n)
  PROVE  IInv'
<1>1. /\ GoWith(n, <<>>, "err") /\ diags' = diags /\ "err" \in Values
      /\ stack # <<>> /\ ~panicked /\ panicked' = panicked
  BY DEF Error, Return, Quiet, GoWith, stopped, Values
<1>2. cur + n \in Nat /\ diags' \subseteq Diagnostics
  BY <1>1 DEF IInv, Typed
<1>3. Typed' /\ ended' = ended /\ Unstarted' = Unstarted /\ cur' = cur + n
      /\ Len(tokens') = Len(tokens)
  BY <1>1, <1>2, TextKept DEF IInv
<1>4. stack' = rest \o <<>> /\ ret' = "err"
  BY <1>1 DEF GoWith
<1>5. /\ CallersWait' /\ Len(stack') = Len(rest)
      /\ \A i \in 1..Len(rest) : stack'[i] = rest[i]
  <2> DEFINE calls == <<>>
  <2>1. calls \in Seq(Starting \cup Waiting) /\ Len(calls) = 0 /\ calls = <<>>
        /\ stack' = rest \o calls
    BY <1>4
  <2>2. Len(rest) \in Nat /\ CallersWait
    BY <1>1, RestOf DEF IInv
  <2> HIDE DEF calls
  <2>3. \A i \in 1..(Len(calls) - 1) : calls[i] \in Waiting
    BY <2>1
  <2>4. /\ CallersWait' /\ Len(stack') = Len(rest) + Len(calls)
        /\ \A i \in 1..Len(rest) : stack'[i] = rest[i]
    BY ONLY <1>1, <1>4, <2>1, <2>2, <2>3, Grows
  <2>5. QED
    BY <2>1, <2>2, <2>4
<1>6. CursorInv'
  BY <1>3, <1>4 DEF IInv, CursorInv, Reachable, Inside, Within
<1>7. StartInv'
  <2> SUFFICES ASSUME Unstarted', NEW i \in DOMAIN stack'
               PROVE  stack'[i].at \in {"parse", "terminal", "operators"}
    BY <1>4 DEF StartInv
  <2>1. /\ stack \in Seq(Starting \cup Waiting)
        /\ Len(stack') = Len(stack) - 1 /\ \A j \in 1..Len(stack') : stack'[j] = stack[j]
        /\ Len(stack) \in Nat
    BY <1>1, <1>5, RestOf DEF IInv, CallersWait
  <2>2. i \in DOMAIN stack /\ stack'[i] = stack[i]
    BY <2>1, <1>5 DEF CallersWait
  <2>3. QED
    BY <1>3, <2>2 DEF IInv, StartInv
<1>8. QED
  BY <1>1, <1>3, <1>5, <1>6, <1>7 DEF IInv, PanicInv

\* Any other step.  On a text that stops the parser at once it descends to the
\* first operand.
Descends(calls) == \A i \in DOMAIN calls : calls[i].at \in {"parse", "terminal", "operators"}
LEMMA GoStep ==
  ASSUME IInv, ~stopped, NEW n \in Int, NEW value \in Values \ {"err"},
         NEW calls \in Seq(Starting \cup Waiting), GoWith(n, calls, value),
         diags' \subseteq Diagnostics, cur + n \in Nat,
         \A i \in 1..(Len(calls) - 1) : calls[i] \in Waiting,
         calls = <<>> => value # "-",
         calls # <<>> /\ value = "-" => calls[Len(calls)] \in Starting,
         calls # <<>> /\ value = "-" => Inside(cur + n) \/ Harmless(calls[Len(calls)]),
         calls # <<>> /\ value # "-" => calls[Len(calls)] \in Waiting,
         Within(cur + n), value \in {"simple", "complex"} => Inside(cur + n),
         Unstarted => n = 0 /\ value = "-" /\ ret # "err" /\ Descends(calls)
  PROVE  IInv'
<1>1. /\ stack # <<>> /\ ~panicked /\ panicked' = panicked
      /\ stack' = rest \o calls /\ ret' = value
  BY DEF GoWith, stopped
<1>2. Typed' /\ ended' = ended /\ Unstarted' = Unstarted /\ cur' = cur + n
      /\ Len(tokens') = Len(tokens)
  BY TextKept DEF IInv
<1>3. CallersWait' /\ (calls # <<>> => top' = calls[Len(calls)])
  <2>1. /\ calls = <<>> => ret' # "-"
        /\ calls # <<>> /\ ret' = "-" => calls[Len(calls)] \in Starting
        /\ calls # <<>> /\ ret' # "-" => calls[Len(calls)] \in Waiting
    BY <1>1
  <2>2. CallersWait
    BY DEF IInv
  <2>3. QED
    BY ONLY <1>1, <2>1, <2>2, \A i \in 1..(Len(calls) - 1) : calls[i] \in Waiting,
            calls \in Seq(Starting \cup Waiting), Grows
<1>4. value = "-" => calls # <<>> /\ (Inside(cur + n) \/ Harmless(top'))
  BY <1>3
<1>5. CursorInv'
  <2>1. Len(tokens) \in Nat
    BY DEF IInv, Typed
  <2>2. Reachable(cur)' /\ Within(cur)'
    BY <1>2, <2>1 DEF Reachable, Within
  <2>3. Inside(cur)' <=> Inside(cur + n)
    BY <1>2 DEF Inside
  <2>4. Harmless(top)' <=> Harmless(top')
    BY DEF Harmless
  <2>5. QED
    BY <1>1, <1>4, <2>2, <2>3, <2>4 DEF CursorInv
<1>6. StartInv'
  <2> SUFFICES ASSUME Unstarted PROVE StartInv'
    BY <1>2 DEF StartInv
  <2>1. /\ \A i \in DOMAIN stack : stack[i].at \in {"parse", "terminal", "operators"}
        /\ cur = 0
    BY DEF IInv, StartInv
  <2>2. /\ rest \in Seq(Waiting) /\ Len(rest) = Len(stack) - 1 /\ Len(stack) \in Nat
        /\ \A i \in 1..Len(rest) : rest[i] = stack[i]
        /\ DOMAIN stack = 1..Len(stack) /\ rest \in Seq(Starting \cup Waiting)
    BY <1>1, RestOf DEF IInv, CallersWait
  <2>3. \A i \in 1..Len(rest) : rest[i].at \in {"parse", "terminal", "operators"}
    BY <2>1, <2>2
  <2>4. /\ Len(stack') = Len(rest) + Len(calls) /\ DOMAIN stack' = 1..Len(stack')
        /\ \A i \in 1..Len(rest) : stack'[i] = rest[i]
        /\ \A i \in 1..Len(calls) : stack'[Len(rest) + i] = calls[i]
        /\ Len(calls) \in Nat /\ DOMAIN calls = 1..Len(calls)
    <3>1. stack' = rest \o calls
      BY <1>1
    <3>2. rest \in Seq(Starting \cup Waiting)
      BY <2>2
    <3>3. /\ rest \o calls \in Seq(Starting \cup Waiting)
          /\ Len(rest \o calls) = Len(rest) + Len(calls)
          /\ \A i \in 1..Len(rest) : (rest \o calls)[i] = rest[i]
          /\ \A i \in 1..Len(calls) : (rest \o calls)[Len(rest) + i] = calls[i]
      BY ONLY <3>2, calls \in Seq(Starting \cup Waiting), ConcatProperties
    <3>4. Len(calls) \in Nat /\ DOMAIN calls = 1..Len(calls)
      OBVIOUS
    <3>5. DOMAIN (rest \o calls) = 1..Len(rest \o calls)
      BY ONLY <3>3, LenProperties
    <3>6. QED
      BY ONLY <3>1, <3>3, <3>4, <3>5
  <2>5. \A i \in DOMAIN stack' : stack'[i].at \in {"parse", "terminal", "operators"}
    <3> TAKE i \in DOMAIN stack'
    <3> i \in 1..Len(stack') /\ Len(rest) \in Nat
      BY <2>2, <2>4
    <3>1. CASE i <= Len(rest)
      BY <2>3, <2>4, <3>1
    <3>2. CASE i > Len(rest)
      <4>1. i - Len(rest) \in 1..Len(calls) /\ i = Len(rest) + (i - Len(rest))
        BY <2>2, <2>4, <3>2
      <4>2. stack'[i] = calls[i - Len(rest)]
        BY <2>4, <4>1
      <4>3. QED
        BY <2>4, <4>1, <4>2 DEF Descends
    <3>3. QED
      BY <3>1, <3>2
  <2>6. QED
    BY <1>1, <1>2, <2>1, <2>5 DEF StartInv
<1>7. QED
  BY <1>1, <1>2, <1>3, <1>5, <1>6 DEF IInv, PanicInv

LEMMA ReturnStep ==
  ASSUME IInv, ~stopped, ~Unstarted, NEW n \in Nat, NEW value \in Values \ {"err", "-"},
         GoWith(n, <<>>, value), diags' \subseteq Diagnostics,
         Within(cur + n), value \in {"simple", "complex"} => Inside(cur + n)
  PROVE  IInv'
<1>1. cur + n \in Nat
  BY DEF IInv, Typed
<1> DEFINE calls == <<>>
<1>2. /\ calls \in Seq(Starting \cup Waiting) /\ Len(calls) = 0 /\ calls = <<>>
      /\ GoWith(n, calls, value) /\ n \in Int
  OBVIOUS
<1> HIDE DEF calls
<1>3. \A i \in 1..(Len(calls) - 1) : calls[i] \in Waiting
  BY <1>2
<1>4. QED
  BY ONLY <1>1, <1>2, <1>3, IInv, ~stopped, ~Unstarted, Within(cur + n),
          value \in Values \ {"err", "-"}, diags' \subseteq Diagnostics,
          value \in {"simple", "complex"} => Inside(cur + n), GoStep

\* The current place goes on to another, with or without a value.
LEMMA MoveStep ==
  ASSUME IInv, ~stopped, ~Unstarted, NEW n \in Int, cur + n \in Nat, Within(cur + n),
         NEW f, NEW value \in {"-", "node"},
         GoWith(n, <<f>>, value), diags' \subseteq Diagnostics,
         value = "-" => f \in Starting /\ (Inside(cur + n) \/ Harmless(f)),
         value = "node" => f \in Waiting
  PROVE  IInv'
<1> DEFINE calls == <<f>>
<1>1. calls \in Seq(Starting \cup Waiting) /\ Len(calls) = 1 /\ calls[1] = f /\ calls # <<>>
  OBVIOUS
<1>2. GoWith(n, calls, value) /\ value \in Values \ {"err"}
      /\ value \notin {"simple", "complex"} /\ diags' \subseteq Diagnostics
  BY DEF Values, Nodes
<1> HIDE DEF calls
<1>3. /\ \A i \in 1..(Len(calls) - 1) : calls[i] \in Waiting
      /\ calls[Len(calls)] = f
  BY <1>1
<1>4. QED
  BY ONLY <1>1, <1>2, <1>3, IInv, ~stopped, ~Unstarted, n \in Int, cur + n \in Nat,
          Within(cur + n), value = "-" => f \in Starting /\ (Inside(cur + n) \/ Harmless(f)),
          value \in {"-", "node"}, value = "node" => f \in Waiting, GoStep

\* ... or waits for the value of a call.
LEMMA CallStep ==
  ASSUME IInv, ~stopped, NEW n \in Int, cur + n \in Nat, Inside(cur + n),
         NEW f \in Waiting, NEW g \in Starting, Go(n, <<f, g>>),
         Unstarted => n = 0 /\ ret # "err" /\ f.at = "operators" /\ g.at = "terminal"
  PROVE  IInv'
<1> DEFINE calls == <<f, g>>
<1>1. /\ calls \in Seq(Starting \cup Waiting) /\ Len(calls) = 2 /\ calls[1] = f
      /\ calls[2] = g /\ calls # <<>>
  OBVIOUS
<1>2. GoWith(n, calls, "-") /\ "-" \in Values \ {"err"} /\ diags' \subseteq Diagnostics
  BY DEF Values, Nodes, Go, Quiet, IInv, Typed
<1>3. Within(cur + n)
  BY DEF Inside, Within
<1>4. Unstarted => n = 0 /\ "-" = "-" /\ ret # "err" /\ Descends(calls)
  BY DEF Descends
<1> HIDE DEF calls
<1>5. /\ \A i \in 1..(Len(calls) - 1) : calls[i] \in Waiting
      /\ calls[Len(calls)] = g
  BY <1>1
<1>6. QED
  BY ONLY <1>1, <1>2, <1>3, <1>4, <1>5, n \in Int, cur + n \in Nat, IInv, ~stopped, Inside(cur + n),
          g \in Starting, GoStep

LEMMA CallTwiceStep ==
  ASSUME IInv, ~stopped, ~Unstarted, NEW n \in Nat, Inside(cur + n),
         NEW e \in Waiting, NEW f \in Waiting, NEW g \in Starting, Go(n, <<e, f, g>>)
  PROVE  IInv'
<1> DEFINE calls == <<e, f, g>>
<1>1. /\ calls \in Seq(Starting \cup Waiting) /\ Len(calls) = 3 /\ calls[1] = e
      /\ calls[2] = f /\ calls[3] = g /\ calls # <<>>
  OBVIOUS
<1>2. GoWith(n, calls, "-") /\ "-" \in Values \ {"err"} /\ diags' \subseteq Diagnostics
  BY DEF Values, Nodes, Go, Quiet, IInv, Typed
<1>3. cur + n \in Nat /\ Within(cur + n) /\ n \in Int
  BY DEF IInv, Typed, Inside, Within
<1> HIDE DEF calls
<1>4. /\ \A i \in 1..(Len(calls) - 1) : calls[i] \in Waiting
      /\ calls[Len(calls)] = g
  BY <1>1
<1>5. QED
  BY ONLY <1>1, <1>2, <1>3, <1>4, IInv, ~stopped, ~Unstarted, Inside(cur + n),
          g \in Starting, GoStep
-----------------------------------------------------------------------------
(* What a place knows.                                                     *)

\* The cursor and the tokens at it.
LEMMA TokensAt ==
  ASSUME IInv, Ready, ret # "err"
  PROVE  /\ cur \in Nat /\ Within(cur) /\ Within(cur + 0) /\ Reachable(cur + 0)
         /\ peek \in Tokens /\ Ahead(1) \in Tokens
         /\ peek # "eof" => Inside(cur) /\ Inside(cur + 0) /\ Inside(cur + 1) /\ Within(cur + 1)
         /\ Ahead(1) # "eof" => Inside(cur + 2) /\ Within(cur + 2)
         /\ peek # "eof" /\ peek \in LooksPast => Within(cur + 2)
         /\ Reachable(cur + 1)
         /\ Within(cur + 2) => Reachable(cur + 2)
         /\ Inside(cur) => Within(cur + 1)
         /\ ~Inside(cur) => peek = "eof" /\ ended /\ cur = Len(tokens)
<1>1. /\ cur \in Nat /\ Len(tokens) \in Nat /\ cur <= Len(tokens)
      /\ \A i \in 1..Len(tokens) : tokens[i] \in Tokens /\ (tokens[i] = "eof" => i = Len(tokens))
      /\ ended => Len(tokens) > 0 /\ tokens[Len(tokens)] = "eof"
  BY EmptySeq DEF IInv, Typed, CursorInv, Within, ended, Last
<1>2. /\ peek = IF cur < Len(tokens) THEN tokens[cur + 1] ELSE "eof"
      /\ Ahead(1) = IF cur + 1 < Len(tokens) THEN tokens[cur + 2] ELSE "eof"
  BY <1>1 DEF peek, Ahead
<1>3. ended \/ cur < Len(tokens)
  BY <1>1 DEF Ready, Known
<1>4. peek \in LooksPast => ended \/ cur + 1 < Len(tokens)
  BY <1>1 DEF Ready, Known
<1>5. tokens # <<>> /\ tokens[Len(tokens)] = "eof" => ended
  BY DEF ended, Last
<1>6. cur < Len(tokens) => tokens # <<>>
  BY <1>1
<1>7. peek \in Tokens /\ Ahead(1) \in Tokens
  BY <1>1, <1>2 DEF Tokens
<1>8. cur < Len(tokens) /\ peek # "eof" /\ ended => cur + 1 < Len(tokens)
  BY <1>1, <1>2
<1>9. cur + 1 < Len(tokens) /\ Ahead(1) # "eof" /\ ended => cur + 2 < Len(tokens)
  BY <1>1, <1>2
<1>10. peek = "eof" => ended
  BY <1>1, <1>2, <1>3, <1>5, <1>6
<1>11. QED
  BY ONLY <1>1, <1>2, <1>3, <1>4, <1>7, <1>8, <1>9, <1>10 DEF Within, Inside, Reachable

\* The code at place k, no error on its way up.
LEMMA AtPlace ==
  ASSUME IInv, NEW k, On(k)
  PROVE  /\ ~stopped /\ Ready /\ top.at = k /\ ret \in Values \ {"err"}
         /\ top \in Starting \cup Waiting
         /\ ret = "-" => top \in Starting
         /\ ret # "-" => top \in Waiting
         /\ ret \in {"simple", "complex"} => Inside(cur)
         /\ ret = "-" => Inside(cur) \/ Harmless(top)
         /\ k \notin {"parse", "terminal"} \/ peek \notin {",", ";"} => ~Unstarted
<1>1. ~stopped /\ Ready /\ top.at = k /\ ret # "err" /\ stack # <<>>
  BY DEF On, stopped
<1>2. /\ ret \in Values \ {"err"}
      /\ top \in Starting \cup Waiting
      /\ ret = "-" => top \in Starting
      /\ ret # "-" => top \in Waiting
  BY <1>1, RestOf DEF IInv, Typed, CallersWait
<1>3. /\ ret \in {"simple", "complex"} => Inside(cur)
      /\ ret = "-" => Inside(cur) \/ Harmless(top)
  BY <1>1 DEF IInv, CursorInv
<1>4. ASSUME Unstarted PROVE k \in {"parse", "terminal"} /\ peek \in {",", ";"}
  <2>1. /\ \A i \in DOMAIN stack : stack[i].at \in {"parse", "terminal", "operators"}
        /\ ret = "-" /\ cur = 0
    BY <1>1, <1>4 DEF IInv, StartInv
  <2>2. top = stack[Len(stack)] /\ Len(stack) \in DOMAIN stack
    BY <1>1, RestOf DEF IInv, CallersWait
  <2>3. k # "operators"
    BY <1>1, <1>2, <2>1, StartingAt
  <2>4. tokens # <<>>
    BY <1>1, <2>1 DEF Ready, Known, ended
  <2>5. peek = tokens[1]
    <3>1. Len(tokens) \in Nat \ {0}
      BY <2>4, EmptySeq DEF IInv, Typed
    <3>2. QED
      BY <2>1, <3>1 DEF peek, Ahead
  <2>6. QED
    BY <1>1, <1>4, <2>1, <2>2, <2>3, <2>4, <2>5 DEF Unstarted
<1>5. QED
  BY <1>1, <1>2, <1>3, <1>4

LEMMA SimplePlaces ==
  /\ \A k \in {"assert cond", "assert message", "wrap", "if cond", "if branch", "function",
               "import", "called", "first element", "element", "local"} : At(k) \in Waiting
  /\ \A k \in {"local body", "terminal", "array", "super", "element"} : At(k) \in Starting
  /\ Expression \in Starting /\ Object \in Starting /\ Arguments \in Starting
  /\ \A p \in Nat : parse(p) \in Starting
  /\ \A l, p \in Nat : OperatorLoop(l, p) \in Waiting
  /\ \A e \in Kinds : Specs(e) \in Starting /\ SpecTail(e) \in Waiting /\ Closing(e) \in Waiting
  /\ \A c \in Nat : Slice(c, TRUE) \in Starting /\ Slice(c, FALSE) \in Waiting
<1> USE DEF Waiting, Starting
<1>1. \A k \in {"assert cond", "assert message", "wrap", "if cond", "if branch", "function",
               "import", "called", "first element", "element", "local"} : At(k) \in Waiting
  BY DEF At
<1>2. \A k \in {"local body", "terminal", "array", "super", "element"} : At(k) \in Starting
  BY DEF At
<1>3. \A p \in Nat : parse(p) \in Starting
  BY DEF parse
<1>4. Expression \in Starting
  BY <1>3 DEF Expression, maxPrecedence
<1>5. Object \in Starting
  BY DEF Object, Objects
<1>6. Arguments \in Starting
  BY DEF Arguments, ArgumentLists
<1>7. \A l, p \in Nat : OperatorLoop(l, p) \in Waiting
  BY DEF OperatorLoop
<1>8. \A e \in Kinds : Specs(e) \in Starting /\ SpecTail(e) \in Waiting /\ Closing(e) \in Waiting
  BY DEF Specs, SpecTail, Closing
<1>9. \A c \in Nat : Slice(c, TRUE) \in Starting /\ Slice(c, FALSE) \in Waiting
  BY DEF Slice
<1>10. QED
  BY ONLY <1>1, <1>2, <1>3, <1>4, <1>5, <1>6, <1>7, <1>8, <1>9

\* Enough of the text is left for a construct that begins n tokens further on.
Reads(n) == \/ n = 0 /\ Inside(cur)
            \/ n = 1 /\ peek # "eof"
            \/ n = 2 /\ Ahead(1) # "eof"
\* ... or for one that ends there.
Ends(n) == \/ n = 0
           \/ n = 1 /\ Inside(cur)
           \/ n = 2 /\ Ahead(1) # "eof"
Proceeds(k) == k \notin {"parse", "terminal"} \/ peek \notin {",", ";"}

LEMMA Started ==
  ASSUME IInv, NEW k, On(k), Proceeds(k)
  PROVE  ~Unstarted
  BY AtPlace DEF Proceeds

LEMMA PlaceFails ==
  ASSUME IInv, NEW k, On(k), NEW n \in {0, 1}, Error(n)
  PROVE  IInv'
<1>1. ~stopped /\ Ready /\ ret # "err"
  BY AtPlace
<1>2. n \in Nat /\ Reachable(cur + n)
  BY <1>1, TokensAt
<1>3. QED
  BY ONLY <1>1, <1>2, IInv, Error(n), ErrorStep

LEMMA PlaceFailsFurther ==
  ASSUME IInv, NEW k, On(k), Error(2),
         Ahead(1) # "eof" \/ (peek # "eof" /\ peek \in LooksPast)
  PROVE  IInv'
<1>1. ~stopped /\ Ready /\ ret # "err"
  BY AtPlace
<1>2. 2 \in Nat /\ Reachable(cur + 2)
  BY <1>1, TokensAt
<1>3. QED
  BY ONLY <1>1, <1>2, IInv, Error(2), ErrorStep

LEMMA PlaceCalls ==
  ASSUME IInv, NEW k, On(k), Proceeds(k), NEW n \in {0, 1, 2}, Reads(n),
         NEW f \in Waiting, NEW g \in Starting, Go(n, <<f, g>>)
  PROVE  IInv'
<1>1. ~stopped /\ Ready /\ ret # "err" /\ ~Unstarted
  BY AtPlace DEF Proceeds
<1>2. n \in Int /\ cur + n \in Nat /\ Inside(cur + n)
  BY <1>1, TokensAt DEF Reads
<1>3. QED
  BY ONLY <1>1, <1>2, IInv, Go(n, <<f, g>>), f \in Waiting, g \in Starting, CallStep

LEMMA PlaceCallsTwice ==
  ASSUME IInv, NEW k, On(k), Proceeds(k), NEW n \in {0, 1, 2}, Reads(n),
         NEW e \in Waiting, NEW f \in Waiting, NEW g \in Starting, Go(n, <<e, f, g>>)
  PROVE  IInv'
<1>1. ~stopped /\ Ready /\ ret # "err" /\ ~Unstarted
  BY AtPlace DEF Proceeds
<1>2. n \in Nat /\ Inside(cur + n)
  BY <1>1, TokensAt DEF Reads
<1>3. QED
  BY ONLY <1>1, <1>2, IInv, Go(n, <<e, f, g>>), e \in Waiting, f \in Waiting,
          g \in Starting, CallTwiceStep

LEMMA PlaceMoves ==
  ASSUME IInv, NEW k, On(k), Proceeds(k), NEW n \in {0, 1, 2},
         NEW f \in Starting, Reads(n) \/ (n = 0 /\ Harmless(f)), Go(n, <<f>>)
  PROVE  IInv'
<1>1. ~stopped /\ Ready /\ ret # "err" /\ ~Unstarted
  BY AtPlace DEF Proceeds
<1>2. /\ n \in Int /\ cur + n \in Nat /\ Within(cur + n)
      /\ Inside(cur + n) \/ Harmless(f)
  BY <1>1, TokensAt DEF Reads
<1>3. GoWith(n, <<f>>, "-") /\ diags' \subseteq Diagnostics
  BY DEF Go, Quiet, IInv, Typed
<1>4. QED
  BY ONLY <1>1, <1>2, <1>3, IInv, f \in Starting, MoveStep

LEMMA PlaceReturns ==
  ASSUME IInv, NEW k, On(k), Proceeds(k), NEW n \in {0, 1, 2}, NEW value \in Nodes,
         Ends(n), GoWith(n, <<>>, value), diags' \subseteq Diagnostics
  PROVE  IInv'
<1>1. ~stopped /\ Ready /\ ret # "err" /\ ~Unstarted
  BY AtPlace DEF Proceeds
<1>2. n \in Nat /\ Within(cur + n)
  BY <1>1, TokensAt DEF Ends
<1>3. value \in Values \ {"err", "-"} /\ value \notin {"simple", "complex"}
  BY DEF Values, Nodes
<1>4. QED
  BY ONLY <1>1, <1>2, <1>3, IInv, GoWith(n, <<>>, value), diags' \subseteq Diagnostics,
          ReturnStep

LEMMA PlaceReturnsNode ==
  ASSUME IInv, NEW k, On(k), Proceeds(k), NEW n \in {0, 1, 2}, NEW value \in Nodes,
         Ends(n), Return(n, value)
  PROVE  IInv'
<1>1. GoWith(n, <<>>, value) /\ diags' \subseteq Diagnostics
  BY DEF Return, Quiet, IInv, Typed
<1>2. QED
  BY <1>1, PlaceReturns
-----------------------------------------------------------------------------
(* Constructs that begin with a keyword, and local.                        *)

LEMMA KeywordStep ==
  ASSUME IInv,
         \/ ParseAssert \/ AssertCond \/ AssertMessage \/ ParseError \/ ParseIf \/ IfCond
         \/ IfBranch \/ Wrap \/ ParseFunction \/ FunctionBody \/ ParseImport \/ ImportBody
  PROVE  IInv'
<1> USE DEF Proceeds, Reads, Ends
<1>1. CASE ParseAssert
  BY <1>1, PlaceCalls, SimplePlaces DEF ParseAssert
<1>2. ASSUME NEW k, On(k), k # "parse", k # "terminal", AssertRest PROVE IInv'
  <2>1. CASE peek = ";"
    BY <1>2, <2>1, PlaceCalls, SimplePlaces DEF AssertRest
  <2>2. CASE peek # ";"
    BY <1>2, <2>2, PlaceFails DEF AssertRest
  <2>3. QED
    BY <2>1, <2>2
<1>3. CASE AssertCond
  <2>1. CASE peek = ":"
    BY <1>3, <2>1, PlaceCalls, SimplePlaces DEF AssertCond
  <2>2. CASE peek # ":"
    <3>1. On("assert cond") /\ AssertRest
      BY <1>3, <2>2 DEF AssertCond
    <3>2. QED
      BY ONLY <1>2, <3>1
  <2>3. QED
    BY <2>1, <2>2
<1>4. CASE AssertMessage
  BY <1>2, <1>4 DEF AssertMessage
<1>5. CASE ParseError
  BY <1>5, PlaceCalls, SimplePlaces DEF ParseError
<1>6. CASE ParseIf
  BY <1>6, PlaceCalls, SimplePlaces DEF ParseIf
<1>7. CASE IfCond
  BY <1>7, PlaceCalls, PlaceFails, SimplePlaces DEF IfCond
<1>8. CASE IfBranch
  BY <1>8, PlaceCalls, PlaceReturnsNode, SimplePlaces DEF IfBranch, Nodes
<1>9. CASE Wrap
  <2>1. On("wrap") /\ Return(0, "node") /\ "node" \in Nodes /\ 0 \in {0, 1, 2}
    BY <1>9 DEF Wrap, Nodes
  <2>2. QED
    BY <2>1, PlaceReturnsNode
<1>10. CASE ParseFunction
  <2>1. CASE Ahead(1) = "("
    BY <1>10, <2>1, PlaceCalls, SimplePlaces DEF ParseFunction
  <2>2. CASE Ahead(1) # "("
    <3>1. On("parse") /\ peek = "function" /\ Error(2)
      BY <1>10, <2>2 DEF ParseFunction
    <3>2. top.at = "parse"
      BY <3>1, AtPlace
    <3>3. peek \in LooksPast
      BY ONLY <3>1, <3>2 DEF LooksPast
    <3>4. QED
      BY <3>1, <3>3, PlaceFailsFurther
  <2>3. QED
    BY <2>1, <2>2
<1>11. CASE FunctionBody
  <2>1. CASE ret = "simple"
    <3>1. On("function") /\ Inside(cur) /\ Go(0, <<At("wrap"), Expression>>)
      BY <1>11, <2>1, AtPlace DEF FunctionBody
    <3>2. QED
      BY <3>1, PlaceCalls, SimplePlaces
  <2>2. CASE ret # "simple"
    BY <1>11, <2>2, PlaceFails DEF FunctionBody
  <2>3. QED
    BY <2>1, <2>2
<1>12. CASE ParseImport
  BY <1>12, PlaceCalls, SimplePlaces DEF ParseImport
<1>13. CASE ImportBody
  BY <1>13, PlaceReturnsNode, PlaceFails DEF ImportBody, Nodes
<1>14. QED
  BY <1>1, <1>3, <1>4, <1>5, <1>6, <1>7, <1>8, <1>9, <1>10, <1>11, <1>12, <1>13

LEMMA BindPlaces ==
  /\ \A names \in SUBSET Names : /\ Bind(names, At("bind body")) \in Starting
                                 /\ [at |-> "bind body", names |-> names] \in Targets
                                 /\ [at |-> "bound", names |-> names] \in Starting
  /\ \A o \in Opened : Bind(o.binds, o) \in Starting
  /\ \A t \in Targets : /\ [at |-> "bind parameters", to |-> t] \in Starting
                        /\ [at |-> "bind =", to |-> t] \in Waiting
                        /\ t \in Waiting
  /\ \A o \in Opened, names \in SUBSET Names : [o EXCEPT !.binds = names] \in Targets
<1>1. \A names \in SUBSET Names : Bind(names, At("bind body")) \in Starting
  BY DEF Bind, At, Starting
<1>2. \A names \in SUBSET Names : /\ [at |-> "bind body", names |-> names] \in Targets
                                  /\ [at |-> "bound", names |-> names] \in Starting
  BY DEF Targets, Starting
<1>3. \A o \in Opened : Bind(o.binds, o) \in Starting
  <2> TAKE o \in Opened
  <2>1. o.binds \in SUBSET Names
    BY DEF Opened
  <2>2. QED
    BY <2>1 DEF Bind, Starting
<1>4. \A t \in Targets : /\ [at |-> "bind parameters", to |-> t] \in Starting
                         /\ [at |-> "bind =", to |-> t] \in Waiting
                         /\ t \in Waiting
  BY DEF Starting, Waiting
<1>5. \A o \in Opened, names \in SUBSET Names : [o EXCEPT !.binds = names] \in Targets
  BY DEF Opened, Targets
<1>6. QED
  BY ONLY <1>1, <1>2, <1>3, <1>4, <1>5

\* From the name of a bind to its body, in a local and in an object.
LEMMA BindAssignStep ==
  ASSUME IInv, NEW k, On(k), k \notin {"parse", "terminal"}, NEW t \in Targets, BindAssign(t)
  PROVE  IInv'
<1> USE DEF Proceeds, Reads
<1>1. t \in Waiting
  BY BindPlaces
<1>2. CASE peek = "="
  BY <1>1, <1>2, PlaceCalls, SimplePlaces DEF BindAssign
<1>3. CASE peek # "="
  BY <1>3, PlaceFails DEF BindAssign
<1>4. QED
  BY <1>2, <1>3

LEMMA BindStep ==
  ASSUME IInv, BindName \/ BindParameters \/ BindFunction \/ BindBody
  PROVE  IInv'
<1> USE DEF Proceeds, Reads
<1>1. CASE BindName
  <2> DEFINE names == top.names \cup {peek}
             to == IF top.to.at = "object" THEN [top.to EXCEPT !.binds = names]
                   ELSE [at |-> "bind body", names |-> names]
  <2>1. CASE peek \in Names \ top.names
    <3>1. On("bind") /\ Go(1, <<[at |-> "bind parameters", to |-> to]>>)
      BY <1>1, <2>1 DEF BindName
    <3>2. top.names \in SUBSET Names /\ top.to \in Opened \cup [at : {"bind body"}]
      BY <3>1, AtPlace, PlacesOf
    <3>3. names \in SUBSET Names /\ peek # "eof"
      BY <2>1, <3>2 DEF Names
    <3> HIDE DEF names
    <3>4. top.to.at = "object" => top.to \in Opened
      BY <3>2
    <3>5. to \in Targets
      BY <3>3, <3>4, BindPlaces
    <3> HIDE DEF to
    <3>6. [at |-> "bind parameters", to |-> to] \in Starting
      BY <3>5, BindPlaces
    <3>7. QED
      BY <3>1, <3>3, <3>6, PlaceMoves
  <2>2. CASE peek \notin Names \ top.names
    BY <1>1, <2>2, PlaceFails DEF BindName
  <2>3. QED
    BY <2>1, <2>2
<1>2. CASE BindParameters
  <2>1. On("bind parameters") /\ top.to \in Targets
    BY <1>2, AtPlace, PlacesOf DEF BindParameters
  <2>2. CASE peek = "("
    <3>1. Go(1, <<[at |-> "bind =", to |-> top.to], Arguments>>)
      BY <1>2, <2>2 DEF BindParameters
    <3>2. [at |-> "bind =", to |-> top.to] \in Waiting /\ Arguments \in Starting
      BY <2>1, BindPlaces, SimplePlaces
    <3>3. QED
      BY <2>1, <2>2, <3>1, <3>2, PlaceCalls
  <2>3. CASE peek # "("
    <3>1. BindAssign(top.to)
      BY <1>2, <2>3 DEF BindParameters
    <3>2. QED
      BY <2>1, <3>1, BindAssignStep
  <2>4. QED
    BY <2>2, <2>3
<1>3. CASE BindFunction
  <2>1. On("bind =") /\ top.to \in Targets
    BY <1>3, AtPlace, PlacesOf DEF BindFunction
  <2>2. CASE ret = "simple"
    <3>1. BindAssign(top.to)
      BY <1>3, <2>2 DEF BindFunction
    <3>2. QED
      BY <2>1, <3>1, BindAssignStep
  <2>3. CASE ret # "simple"
    BY <1>3, <2>3, PlaceFails DEF BindFunction
  <2>4. QED
    BY <2>2, <2>3
<1>4. CASE BindBody
  <2>1. On("bind body") /\ Go(0, <<[at |-> "bound", names |-> top.names]>>)
    BY <1>4 DEF BindBody
  <2>2. [at |-> "bound", names |-> top.names] \in Starting
    BY <2>1, AtPlace, PlacesOf, BindPlaces
  <2>3. Harmless([at |-> "bound", names |-> top.names])
    BY DEF Harmless
  <2>4. QED
    BY <2>1, <2>2, <2>3, PlaceMoves
<1>5. QED
  BY <1>1, <1>2, <1>3, <1>4

\* A local goes on at the last token when its body is missing.
LEMMA LocalStep ==
  ASSUME IInv, ParseLocal \/ NextBind \/ LocalBody \/ LocalEnd
  PROVE  IInv'
<1> USE DEF Proceeds, Reads, Ends
<1>1. CASE ParseLocal
  <2>1. On("parse") /\ peek = "local" /\ Inside(cur)
    BY <1>1, AtPlace, TokensAt DEF ParseLocal
  <2>2. CASE Ahead(1) = "eof"
    BY <1>1, <2>1, <2>2, PlaceReturnsNode DEF ParseLocal, Nodes
  <2>3. CASE Ahead(1) # "eof"
    <3>1. Go(1, <<Bind({}, At("bind body"))>>)
      BY <1>1, <2>3 DEF ParseLocal
    <3>2. Bind({}, At("bind body")) \in Starting
      BY BindPlaces
    <3>3. QED
      BY <2>1, <3>1, <3>2, PlaceMoves
  <2>4. QED
    BY <2>2, <2>3
<1>2. CASE NextBind
  <2>1. On("bound") /\ top.names \in SUBSET Names
    BY <1>2, AtPlace, PlacesOf DEF NextBind
  <2>2. CASE atEnd /\ Go(0, <<At("local body")>>)
    <3>1. At("local body") \in Starting /\ Harmless(At("local body"))
      BY SimplePlaces DEF Harmless, At
    <3>2. QED
      BY <2>1, <2>2, <3>1, PlaceMoves
  <2>3. CASE peek = ";" /\ Go(1, <<At("local body")>>)
    BY <2>1, <2>3, PlaceMoves, SimplePlaces
  <2>4. CASE peek = "," /\ Go(1, <<Bind(top.names, At("bind body"))>>)
    <3>1. Bind(top.names, At("bind body")) \in Starting
      BY <2>1, BindPlaces
    <3>2. QED
      BY <2>1, <2>4, <3>1, PlaceMoves
  <2>5. CASE Error(1)
    BY <2>1, <2>5, PlaceFails
  <2>6. QED
    BY <1>2, <2>2, <2>3, <2>4, <2>5 DEF NextBind
<1>3. CASE LocalBody
  <2> DEFINE last == Len(tokens) - 1
             n == (IF ended /\ cur > last THEN last ELSE cur) - cur
  <2>1. On("local body") /\ Go(n, <<At("local"), Expression>>)
    BY <1>3 DEF LocalBody
  <2>2. ~stopped /\ ~Unstarted /\ Ready /\ ret # "err"
    <3>1. On("local body") /\ IInv /\ Proceeds("local body")
      BY <2>1
    <3>2. ~stopped /\ Ready /\ ret # "err"
      BY ONLY <3>1, AtPlace
    <3>3. QED
      BY <3>1, <3>2, Started
  <2>3. cur \in Nat /\ Len(tokens) \in Nat /\ cur <= Len(tokens)
    BY <2>2, TokensAt DEF IInv, Typed, Within
  <2>4. ended => Len(tokens) > 0
    BY EmptySeq DEF IInv, Typed, ended
  <2>5. n \in Int /\ cur + n \in Nat /\ Inside(cur + n)
    BY ONLY <2>3, <2>4 DEF Inside
  <2>6. At("local") \in Waiting /\ Expression \in Starting
    BY SimplePlaces
  <2> HIDE DEF n
  <2>7. QED
    BY <2>1, <2>2, <2>5, <2>6, CallStep
<1>4. CASE LocalEnd
  BY <1>4, PlaceReturnsNode DEF LocalEnd, Nodes
<1>5. QED
  BY <1>1, <1>2, <1>3, <1>4
-----------------------------------------------------------------------------
(* Operators.                                                              *)

LEMMA LoopPlaces ==
  ASSUME NEW f \in [at : {"operators"}, level : Nat, prec : Nat]
  PROVE  /\ f.prec \in Nat
         /\ \A l \in Nat : OperatorLoop(l, f.prec) \in Waiting
  BY SimplePlaces

LEMMA OperandStep ==
  ASSUME IInv, ParseUnary \/ ParseOperand
  PROVE  IInv'
<1> USE DEF Proceeds, Reads
<1>1. On("parse") /\ top.prec \in Nat /\ top \in Starting
  <2>1. On("parse")
    BY DEF ParseUnary, ParseOperand
  <2>2. top.prec \in Nat
    BY <2>1, AtPlace, PlacesOf
  <2>3. top \in Starting
    <3>1. top.at = "parse" /\ (top \in Starting \/ top \in Waiting)
      BY <2>1, AtPlace
    <3>2. QED
      BY ONLY <3>1, WaitingAt
  <2>4. QED
    BY <2>1, <2>2, <2>3
<1>2. /\ OperatorLoop(1, top.prec) \in Waiting
      /\ OperatorLoop(unaryPrecedence + 1, top.prec) \in Waiting
      /\ At("wrap") \in Waiting /\ At("terminal") \in Starting
      /\ parse(unaryPrecedence) \in Starting
  <2>1. unaryPrecedence \in Nat /\ unaryPrecedence + 1 \in Nat
    BY DEF unaryPrecedence
  <2>2. QED
    BY <1>1, <2>1, SimplePlaces
<1>3. CASE ParseUnary
  <2>1. peek \notin {"eof", ",", ";"}
    BY <1>3 DEF ParseUnary, Operators
  <2>2. CASE peek \in UopMap
    <3>1. Go(1, <<OperatorLoop(unaryPrecedence + 1, top.prec), At("wrap"),
                  parse(unaryPrecedence)>>)
      BY <1>3, <2>2 DEF ParseUnary
    <3>2. QED
      BY <1>1, <1>2, <2>1, <3>1, PlaceCallsTwice
  <2>3. CASE peek \notin UopMap
    BY <1>1, <1>3, <2>3, PlaceFails DEF ParseUnary
  <2>4. QED
    BY <2>2, <2>3
<1>4. CASE ParseOperand
  <2> DEFINE f == OperatorLoop(1, top.prec)
             g == At("terminal")
  <2>1. Go(0, <<f, g>>)
    BY <1>4 DEF ParseOperand
  <2>2. f.at = "operators" /\ g.at = "terminal" /\ f \in Waiting /\ g \in Starting
    BY <1>2 DEF OperatorLoop, At
  <2> HIDE DEF f, g
  <2>3. ~stopped /\ Ready /\ ret # "err" /\ top.at = "parse" /\ (ret = "-" => Inside(cur) \/ Harmless(top))
    BY <1>1, AtPlace
  <2>4. ret = "-"
    <3>1. top \in Waiting \/ ret = "-"
      BY <1>1, AtPlace
    <3>2. QED
      BY <2>3, <3>1, WaitingAt
  <2>5. cur \in Nat /\ Inside(cur + 0)
    BY <2>3, <2>4, TokensAt DEF Harmless, Inside
  <2>6. QED
    BY <2>1, <2>2, <2>3, <2>5, CallStep
<1>5. QED
  BY <1>3, <1>4

LEMMA OperatorStep ==
  ASSUME IInv, \/ OperandEnds \/ NotBinary \/ Binary \/ ApplyDot \/ ApplyIndex \/ ApplyCall
               \/ ApplyObject
  PROVE  IInv'
<1> USE DEF Proceeds, Reads, Ends
<1>1. On("operators")
  BY DEF OperandEnds, NotBinary, Binary, ApplyDot, ApplyIndex, ApplyCall, ApplyObject, Apply
<1>2. /\ top \in [at : {"operators"}, level : Nat, prec : Nat] /\ top.at = "operators"
      /\ ret \in Values \ {"err", "-"} /\ ~stopped /\ ~Unstarted /\ Ready
      /\ ret \in {"simple", "complex"} => Inside(cur)
  <2> ~Unstarted
    <3>1. Proceeds("operators")
      OBVIOUS
    <3>2. QED
      BY ONLY <1>1, <3>1, IInv, Started
  <2>1. /\ top.at = "operators" /\ top \in Starting \cup Waiting /\ ret \in Values \ {"err"}
        /\ ~stopped /\ Ready /\ (ret = "-" => top \in Starting)
        /\ ret \in {"simple", "complex"} => Inside(cur)
    BY <1>1, AtPlace
  <2>2. ret # "-"
    BY <2>1, StartingAt
  <2>3. QED
    BY <2>1, <2>2, PlacesOf
<1>3. \A l \in Nat : OperatorLoop(l, top.prec) \in Waiting
  BY <1>2, LoopPlaces
<1>4. AppliedTo \in Waiting /\ OperatorLoop(applyPrecedence + 1, top.prec) \in Waiting
  BY <1>3 DEF AppliedTo, applyPrecedence
<1>5. CASE OperandEnds
  <2>1. GoWith(0, <<>>, ret) /\ diags' \subseteq Diagnostics
    BY <1>5 DEF OperandEnds, Return, Quiet, IInv, Typed
  <2>2. /\ cur \in Nat /\ Within(cur + 0) /\ 0 \in Nat
        /\ ret \in {"simple", "complex"} => Inside(cur + 0)
    BY <1>2, TokensAt DEF Inside
  <2>3. QED
    BY ONLY <1>2, <2>1, <2>2, IInv, ReturnStep
<1>6. CASE NotBinary
  BY <1>1, <1>6, PlaceFails DEF NotBinary
<1>7. CASE Binary
  <2>1. peek # "eof" /\ bopPrecedence[peek] \in {5, 6, 8} /\ peek \in {"*", "+", "in"}
    BY <1>7 DEF Binary, bopPrecedence
  <2> DEFINE p == bopPrecedence[peek]
             again == OperatorLoop(p, top.prec)
  <2>2. again \in Waiting /\ parse(p - 1) \in Starting
    <3>1. p \in Nat /\ p - 1 \in Nat
      BY <2>1
    <3>2. QED
      BY <1>3, <3>1, SimplePlaces
  <2>3. CASE peek = "in" /\ Ahead(1) = "super"
    <3>1. GoWith(2, <<again>>, "node") /\ diags' \subseteq Diagnostics
      BY <1>7, <2>3 DEF Binary, Quiet, IInv, Typed
    <3> HIDE DEF again
    <3>2. cur + 2 \in Nat /\ Within(cur + 2) /\ 2 \in Int
      BY <1>2, <2>3, TokensAt
    <3>3. QED
      BY <1>2, <2>2, <3>1, <3>2, MoveStep
  <2>4. CASE ~(peek = "in" /\ Ahead(1) = "super")
    <3>1. Go(1, <<again, At("wrap"), parse(p - 1)>>)
      BY <1>7, <2>4 DEF Binary
    <3>2. At("wrap") \in Waiting
      BY SimplePlaces
    <3> HIDE DEF again, p
    <3>3. QED
      BY <1>1, <2>1, <2>2, <3>1, <3>2, PlaceCallsTwice
  <2>5. QED
    BY <2>3, <2>4
<1>8. CASE ApplyDot
  <2>1. peek = "." /\ ret # "err"
    BY <1>2, <1>8 DEF ApplyDot, Apply
  <2>2. peek \in LooksPast
    BY <1>2, <2>1 DEF LooksPast
  <2>3. cur + 2 \in Nat /\ Within(cur + 2) /\ 2 \in Int
    BY <1>2, <2>1, <2>2, TokensAt
  <2>4. CASE GoWith(2, <<AppliedTo>>, "node") /\ Quiet
    <3>1. diags' \subseteq Diagnostics
      BY <2>4 DEF Quiet, IInv, Typed
    <3>2. QED
      BY <1>2, <1>4, <2>3, <2>4, <3>1, MoveStep
  <2>5. CASE /\ GoWith(2, <<OperatorLoop(applyPrecedence + 1, top.prec)>>, "node")
             /\ Publish("field id")
    <3>1. diags' \subseteq Diagnostics
      BY <2>5 DEF Publish, Diagnostics, IInv, Typed
    <3>2. QED
      BY <1>2, <1>4, <2>3, <2>5, <3>1, MoveStep
  <2>6. QED
    BY <1>8, <2>4, <2>5 DEF ApplyDot
<1>9. CASE ApplyIndex
  BY <1>1, <1>4, <1>9, PlaceCalls, SimplePlaces DEF ApplyIndex, Apply
<1>10. CASE ApplyCall
  <2>1. peek = "(" /\ Go(1, <<AppliedTo, At("called"), Arguments>>)
    BY <1>10 DEF ApplyCall, Apply
  <2>2. At("called") \in Waiting /\ Arguments \in Starting
    BY SimplePlaces
  <2>3. QED
    BY <1>1, <1>4, <2>1, <2>2, PlaceCallsTwice
<1>11. CASE ApplyObject
  BY <1>1, <1>4, <1>11, PlaceCalls, SimplePlaces DEF ApplyObject, Apply
<1>12. QED
  BY <1>5, <1>6, <1>7, <1>8, <1>9, <1>10, <1>11

LEMMA CalledStep ==
  ASSUME IInv, Called
  PROVE  IInv'
<1> DEFINE n == IF peek = "tailstrict" THEN 1 ELSE 0
<1>1. On("called") /\ Return(n, "node") /\ "node" \in Nodes
  BY DEF Called, Nodes
<1>2. n \in {0, 1, 2} /\ Ends(n)
  <2>1. Ready /\ ret # "err"
    BY <1>1, AtPlace
  <2>2. peek = "tailstrict" => Inside(cur)
    BY <2>1, TokensAt
  <2>3. QED
    BY <2>2 DEF Ends
<1> HIDE DEF n
<1>3. Proceeds("called")
  BY DEF Proceeds
<1>4. QED
  BY ONLY <1>1, <1>2, <1>3, IInv, PlaceReturnsNode

LEMMA SliceIndexStep ==
  ASSUME IInv, SliceStep
  PROVE  IInv'
<1> USE DEF Proceeds, Reads, Ends
<1> DEFINE colons == top.colons + Colons(peek)
<1>1. On("slice")
  BY DEF SliceStep
<1>2. /\ top.colons \in Nat /\ top.ready \in BOOLEAN /\ ret # "err" /\ Ready
      /\ top.ready => Inside(cur)
  <2>1. /\ top.at = "slice" /\ ret # "err" /\ Ready
        /\ top \in Starting \cup Waiting /\ (ret # "-" => top \in Waiting)
        /\ (ret = "-" => Inside(cur) \/ Harmless(top))
    BY <1>1, AtPlace
  <2>2. top.colons \in Nat /\ top.ready \in BOOLEAN
    BY <2>1, PlacesOf
  <2>3. top.ready => ret = "-"
    BY <2>1, WaitingAt
  <2>4. ~Harmless(top)
    BY <2>1 DEF Harmless
  <2>5. QED
    BY <2>1, <2>2, <2>3, <2>4
<1>3. colons \in Nat /\ (Colons(peek) > 0 => peek \notin {"eof", "]"})
  BY <1>2 DEF Colons
<1>4. CASE peek = "]"
  <2>1. Inside(cur)
    BY <1>2, <1>4, TokensAt
  <2>2. Error(1) \/ Return(1, "node")
    BY <1>3, <1>4 DEF SliceStep
  <2>3. "node" \in Nodes
    BY DEF Nodes
  <2>4. QED
    BY <1>1, <2>1, <2>2, <2>3, PlaceFails, PlaceReturnsNode
<1>5. CASE peek # "]" /\ Colons(peek) > 0
  <2>1. Error(1) \/ Go(1, <<Slice(colons, TRUE)>>)
    BY <1>5 DEF SliceStep
  <2>2. Slice(colons, TRUE) \in Starting
    BY <1>3, SimplePlaces
  <2> HIDE DEF colons
  <2>3. CASE Error(1)
    BY <1>1, <2>3, PlaceFails
  <2>4. CASE Go(1, <<Slice(colons, TRUE)>>)
    BY <1>1, <1>3, <1>5, <2>2, <2>4, PlaceMoves
  <2>5. QED
    BY <2>1, <2>3, <2>4
<1>6. CASE peek # "]" /\ ~(Colons(peek) > 0)
  <2>1. IF top.ready THEN Go(0, <<Slice(colons, FALSE), Expression>>) ELSE Error(0)
    BY <1>6 DEF SliceStep
  <2>2. Slice(colons, FALSE) \in Waiting /\ Expression \in Starting
    BY <1>3, SimplePlaces
  <2> HIDE DEF colons
  <2>3. CASE top.ready
    BY <1>1, <1>2, <2>1, <2>2, <2>3, PlaceCalls
  <2>4. CASE ~top.ready
    BY <1>1, <2>1, <2>4, PlaceFails
  <2>5. QED
    BY <2>3, <2>4
<1>7. QED
  BY <1>4, <1>5, <1>6

LEMMA ArgumentPlaces ==
  ASSUME NEW f, NEW b \in BOOLEAN, NEW c \in BOOLEAN, NEW d \in BOOLEAN
  PROVE  /\ f \in ArgumentLists("arguments") =>
              [f EXCEPT !.at = "argument", !.naming = b] \in Waiting
         /\ f \in ArgumentLists("argument") =>
              LET g == [f EXCEPT !.at = "arguments", !.first = FALSE, !.comma = b,
                                 !.named = c, !.simple = d]
              IN  g \in Starting /\ (~b => Harmless(g))
<1>1. ASSUME f \in ArgumentLists("arguments")
      PROVE  [f EXCEPT !.at = "argument", !.naming = b] \in Waiting
  <2>1. [f EXCEPT !.at = "argument", !.naming = b] \in ArgumentLists("argument")
    BY <1>1 DEF ArgumentLists
  <2>2. QED
    BY ONLY <2>1 DEF Waiting
<1> DEFINE g == [f EXCEPT !.at = "arguments", !.first = FALSE, !.comma = b,
                          !.named = c, !.simple = d]
<1>2. ASSUME f \in ArgumentLists("argument")
      PROVE  g \in Starting /\ (~b => Harmless(g))
  <2>1. g \in ArgumentLists("arguments")
    BY <1>2 DEF ArgumentLists
  <2>2. g.at = "arguments" /\ g.first = FALSE /\ g.comma = b
    BY <1>2 DEF ArgumentLists
  <2> HIDE DEF g
  <2>3. g \in Starting
    BY ONLY <2>1 DEF Starting
  <2>4. QED
    BY ONLY <2>2, <2>3 DEF Harmless
<1>3. QED
  BY <1>1, <1>2

LEMMA ArgumentStep ==
  ASSUME IInv, NextArgument \/ Argument
  PROVE  IInv'
<1> USE DEF Proceeds, Reads, Ends
<1>1. CASE NextArgument
  <2> DEFINE naming == peek \in Names /\ Ahead(1) = "="
             f == [top EXCEPT !.at = "argument", !.naming = naming]
             n == IF naming THEN 2 ELSE 0
             value == IF top.simple THEN "simple" ELSE "complex"
  <2>1. On("arguments")
    BY <1>1 DEF NextArgument
  <2>2. /\ top \in ArgumentLists("arguments") /\ ret # "err" /\ Ready /\ ~stopped
        /\ Inside(cur) \/ (~top.first /\ ~top.comma)
    <3>1. /\ top.at = "arguments" /\ ret # "err" /\ Ready /\ ~stopped
          /\ top \in Starting \cup Waiting /\ (ret # "-" => top \in Waiting)
          /\ (ret = "-" => Inside(cur) \/ Harmless(top))
      BY <2>1, AtPlace
    <3>2. ret = "-"
      BY <3>1, WaitingAt
    <3>3. top \in ArgumentLists("arguments")
      BY <3>1, PlacesOf
    <3>4. QED
      BY <3>1, <3>2, <3>3 DEF Harmless
  <2>3. CASE peek = ")"
    <3>1. GoWith(1, <<>>, value) /\ diags' \subseteq Diagnostics
      BY <1>1, <2>3 DEF NextArgument, Return, Quiet, IInv, Typed
    <3>2. value \in Values \ {"err", "-"}
      BY DEF Values
    <3>3. Within(cur + 1) /\ Inside(cur + 1) /\ 1 \in Nat
      BY <2>2, <2>3, TokensAt
    <3>4. ~Unstarted
      BY <2>1, Started
    <3> HIDE DEF value
    <3>5. QED
      BY <2>2, <3>1, <3>2, <3>3, <3>4, ReturnStep
  <2>4. CASE peek # ")" /\ ~top.first /\ ~top.comma
    <3>1. Error(0)
      BY <1>1, <2>4 DEF NextArgument
    <3>2. QED
      BY <2>1, <3>1, PlaceFails
  <2>5. CASE peek # ")" /\ (top.first \/ top.comma)
    <3>1. Go(n, <<f, Expression>>)
      BY <1>1, <2>5 DEF NextArgument
    <3>2. f \in Waiting /\ Expression \in Starting
      BY <2>2, ArgumentPlaces, SimplePlaces
    <3>3. n \in {0, 1, 2} /\ Reads(n)
      BY <2>2, <2>5
    <3> HIDE DEF n, f
    <3>4. QED
      BY <2>1, <3>1, <3>2, <3>3, PlaceCalls
  <2>6. QED
    BY <2>2, <2>3, <2>4, <2>5 DEF ArgumentLists
<1>2. CASE Argument
  <2> DEFINE f == [top EXCEPT !.at = "arguments", !.first = FALSE, !.comma = (peek = ","),
                              !.named = top.named \/ top.naming,
                              !.simple = top.simple /\ (top.naming \/ ret = "var")]
             n == IF peek = "," THEN 1 ELSE 0
  <2>1. On("argument")
    BY <1>2 DEF Argument
  <2>2. top \in ArgumentLists("argument")
    BY <2>1, AtPlace, PlacesOf
  <2>3. CASE ~top.naming /\ top.named
    BY <1>2, <2>1, <2>3, PlaceFails DEF Argument
  <2>4. CASE ~(~top.naming /\ top.named)
    <3>1. Go(n, <<f>>)
      BY <1>2, <2>4 DEF Argument
    <3>2. f \in Starting /\ (peek # "," => Harmless(f))
      <4> DEFINE b == peek = ","
                 c == top.named \/ top.naming
                 d == top.simple /\ (top.naming \/ ret = "var")
      <4>1. b \in BOOLEAN /\ c \in BOOLEAN /\ d \in BOOLEAN
        BY <2>2 DEF ArgumentLists
      <4>2. f = [top EXCEPT !.at = "arguments", !.first = FALSE, !.comma = b,
                            !.named = c, !.simple = d]
        OBVIOUS
      <4>3. ~b <=> peek # ","
        OBVIOUS
      <4> HIDE DEF b, c, d, f
      <4>4. QED
        BY <2>2, <4>1, <4>2, <4>3, ArgumentPlaces
    <3>3. n \in {0, 1, 2} /\ (Reads(n) \/ (n = 0 /\ Harmless(f)))
      BY <3>2
    <3> HIDE DEF n, f
    <3>4. QED
      BY <2>1, <3>1, <3>2, <3>3, PlaceMoves
  <2>5. QED
    BY <2>3, <2>4
<1>3. QED
  BY <1>1, <1>2
-----------------------------------------------------------------------------
(* Arrays and comprehensions.                                              *)

\* A place that a call begins with has a token to read.
LEMMA BeginsAt ==
  ASSUME IInv, NEW k \in {"terminal", "array", "super", "for", "field"}, On(k)
  PROVE  Inside(cur) /\ ret = "-" /\ top.at = k
<1>1. /\ top.at = k /\ top \in Starting \cup Waiting /\ (ret # "-" => top \in Waiting)
      /\ (ret = "-" => Inside(cur) \/ Harmless(top))
  BY AtPlace
<1>2. ret = "-"
  BY <1>1, WaitingAt
<1>3. ~Harmless(top)
  BY <1>1 DEF Harmless
<1>4. QED
  BY <1>1, <1>2, <1>3

LEMMA KindsEnd == "eof" \notin Kinds
  BY DEF Kinds, Names, Strings, Operators, Keywords

\* The token at a comma or after it: what is read up to it can be passed.
LEMMA PastComma ==
  ASSUME IInv, NEW k, On(k), NEW n \in {0, 1}, Ahead(n) # "eof"
  PROVE  Reads(n + 1) /\ Ends(n + 1) /\ n + 1 \in {0, 1, 2}
<1>1. Ready /\ ret # "err"
  BY AtPlace
<1>2. CASE n = 0
  <2>1. peek # "eof"
    BY <1>2 DEF peek
  <2>2. Inside(cur)
    BY <1>1, <2>1, TokensAt
  <2>3. QED
    BY <1>2, <2>1, <2>2 DEF Reads, Ends
<1>3. CASE n = 1
  BY <1>3 DEF Reads, Ends
<1>4. QED
  BY <1>2, <1>3

LEMMA ArrayStep ==
  ASSUME IInv, ArrayStart \/ FirstElement \/ Element
  PROVE  IInv'
<1> USE DEF Proceeds, Reads, Ends
<1> DEFINE comma == IF peek = "," THEN 1 ELSE 0
<1>1. At("first element") \in Waiting /\ At("element") \in Waiting \cap Starting
      /\ Expression \in Starting /\ "node" \in Nodes
  BY SimplePlaces DEF Nodes
<1>2. comma \in {0, 1}
  OBVIOUS
<1>3. CASE ArrayStart
  <2>1. On("array") /\ Inside(cur)
    BY <1>3, BeginsAt DEF ArrayStart
  <2>2. CASE peek = "]"
    BY <1>1, <1>3, <2>1, <2>2, PlaceReturnsNode DEF ArrayStart
  <2>3. CASE peek # "]"
    BY <1>1, <1>3, <2>1, <2>3, PlaceCalls DEF ArrayStart
  <2>4. QED
    BY <2>2, <2>3
<1>4. CASE FirstElement
  <2>1. On("first element")
    BY <1>4 DEF FirstElement
  <2>2. CASE Ahead(comma) = "for"
    <3>1. Go(comma + 1, <<Specs("]")>>)
      BY <1>4, <2>2 DEF FirstElement
    <3>2. Reads(comma + 1) /\ comma + 1 \in {0, 1, 2}
      <4> HIDE DEF comma, Reads, Ends
      <4>1. QED
        BY <1>2, <2>1, <2>2, PastComma
    <3>3. Specs("]") \in Starting
      BY SimplePlaces DEF Kinds
    <3> HIDE DEF comma, Reads
    <3>4. QED
      BY <2>1, <3>1, <3>2, <3>3, PlaceMoves
  <2>3. CASE Ahead(comma) # "for"
    <3>1. Go(0, <<At("element")>>)
      BY <1>4, <2>3 DEF FirstElement
    <3>2. Harmless(At("element"))
      BY DEF Harmless, At
    <3>3. QED
      BY <1>1, <2>1, <3>1, <3>2, PlaceMoves
  <2>4. QED
    BY <2>2, <2>3
<1>5. CASE Element
  <2>1. On("element")
    BY <1>5 DEF Element
  <2>2. CASE Ahead(comma) = "]"
    <3>1. Return(comma + 1, "node")
      BY <1>5, <2>2 DEF Element
    <3>2. Ends(comma + 1) /\ comma + 1 \in {0, 1, 2}
      <4> HIDE DEF comma, Reads, Ends
      <4>1. QED
        BY <1>2, <2>1, <2>2, PastComma
    <3> HIDE DEF comma, Ends
    <3>3. QED
      BY <1>1, <2>1, <3>1, <3>2, PlaceReturnsNode
  <2>3. CASE Error(0)
    BY <2>1, <2>3, PlaceFails
  <2>4. CASE comma # 0 /\ Go(comma, <<At("element"), Expression>>)
    <3>1. peek = "," /\ comma = 1
      BY <2>4
    <3>2. Go(1, <<At("element"), Expression>>)
      BY ONLY <2>4, <3>1
    <3>3. QED
      BY <1>1, <2>1, <3>1, <3>2, PlaceCalls
  <2>5. QED
    <3> HIDE DEF comma
    <3>1. \/ Ahead(comma) = "]" \/ Error(0)
          \/ comma # 0 /\ Go(comma, <<At("element"), Expression>>)
      BY <1>5 DEF Element, comma
    <3>2. QED
      BY <2>2, <2>3, <2>4, <3>1
<1>6. QED
  BY <1>3, <1>4, <1>5

LEMMA ForStep ==
  ASSUME IInv, ForSpec \/ SpecEnd
  PROVE  IInv'
<1> USE DEF Proceeds, Reads, Ends
<1>1. "node" \in Nodes /\ Expression \in Starting /\ "eof" \notin Kinds
  BY SimplePlaces, KindsEnd DEF Nodes
<1>2. CASE ForSpec
  <2>1. On("for")
    BY <1>2 DEF ForSpec
  <2>2. top.at = "for" /\ top.end \in Kinds
    BY <2>1, AtPlace, PlacesOf
  <2>3. CASE peek \notin Names
    <3>1. Error(1)
      BY <1>2, <2>3 DEF ForSpec
    <3>2. QED
      BY <2>1, <3>1, PlaceFails
  <2>4. CASE peek \in Names /\ Ahead(1) # "in"
    <3>1. Error(2)
      BY <1>2, <2>4 DEF ForSpec
    <3>2. peek # "eof" /\ peek \in LooksPast
      BY <2>2, <2>4 DEF LooksPast, Names
    <3>3. QED
      BY <2>1, <3>1, <3>2, PlaceFailsFurther
  <2>5. CASE peek \in Names /\ Ahead(1) = "in"
    <3>1. Go(2, <<SpecTail(top.end), Expression>>)
      BY <1>2, <2>5 DEF ForSpec
    <3>2. SpecTail(top.end) \in Waiting
      BY <2>2, SimplePlaces
    <3>3. QED
      BY <1>1, <2>1, <2>5, <3>1, <3>2, PlaceCalls
  <2>6. QED
    BY <2>3, <2>4, <2>5
<1>3. CASE SpecEnd
  <2>1. On("spec")
    BY <1>3 DEF SpecEnd
  <2>2. top.at = "spec" /\ top.end \in Kinds /\ Ready /\ ret # "err"
    BY <2>1, AtPlace, PlacesOf
  <2>3. SpecTail(top.end) \in Waiting /\ Specs(top.end) \in Starting
    BY <2>2, SimplePlaces
  <2>4. CASE peek = "if" /\ Go(1, <<SpecTail(top.end), Expression>>)
    BY <1>1, <2>1, <2>3, <2>4, PlaceCalls
  <2>5. CASE peek = top.end /\ Return(1, "node")
    <3>1. Inside(cur)
      BY <1>1, <2>2, <2>5, TokensAt
    <3>2. QED
      BY <1>1, <2>1, <2>5, <3>1, PlaceReturnsNode
  <2>6. CASE peek = "for" /\ Go(1, <<Specs(top.end)>>)
    BY <2>1, <2>3, <2>6, PlaceMoves
  <2>7. CASE Error(1)
    BY <2>1, <2>7, PlaceFails
  <2>8. QED
    BY <1>3, <2>4, <2>5, <2>6, <2>7 DEF SpecEnd
<1>4. QED
  BY <1>2, <1>3
-----------------------------------------------------------------------------
(* Terminals.                                                              *)

LEMMA TerminalStep ==
  ASSUME IInv, Terminal
  PROVE  IInv'
<1> USE DEF Proceeds, Reads, Ends
<1>1. On("terminal") /\ Inside(cur) /\ diags \subseteq Diagnostics
  BY BeginsAt DEF Terminal, IInv, Typed
<1>2. /\ Object \in Starting /\ At("array") \in Starting /\ At("super") \in Starting
      /\ Closing(")") \in Waiting /\ Expression \in Starting
  BY SimplePlaces DEF Kinds
<1>3. CASE peek = "{" /\ Go(1, <<Object>>)
  BY <1>1, <1>2, <1>3, PlaceMoves
<1>4. CASE peek = "[" /\ Go(1, <<At("array")>>)
  BY <1>1, <1>2, <1>4, PlaceMoves
<1>5. CASE peek = "(" /\ Go(1, <<Closing(")"), Expression>>)
  BY <1>1, <1>2, <1>5, PlaceCalls
<1>6. CASE peek = "super" /\ Go(1, <<At("super")>>)
  BY <1>1, <1>2, <1>6, PlaceMoves
<1>7. ASSUME peek \notin {",", ";"}, NEW value \in Nodes, Return(1, value) PROVE IInv'
  BY <1>1, <1>7, PlaceReturnsNode
<1>8. CASE peek = "lit" /\ Return(1, "node")
  BY <1>7, <1>8 DEF Nodes
<1>9. CASE peek = "block" /\ Return(1, "block")
  BY <1>7, <1>9 DEF Nodes
<1>10. CASE peek \in Strings /\ Return(1, "string")
  BY <1>7, <1>10 DEF Nodes, Strings
<1>11. CASE peek \in Names /\ Return(1, "var")
  BY <1>7, <1>11 DEF Nodes, Names
<1>12. CASE peek = "eof" /\ GoWith(1, <<>>, "node") /\ Publish("end of file")
  <2>1. diags' \subseteq Diagnostics /\ "node" \in Nodes
    BY <1>1, <1>12 DEF Publish, Diagnostics, Nodes
  <2>2. QED
    BY <1>1, <1>12, <2>1, PlaceReturns
<1>13. CASE Error(1)
  BY <1>1, <1>13, PlaceFails
<1>14. QED
  BY <1>3, <1>4, <1>5, <1>6, <1>8, <1>9, <1>10, <1>11, <1>12, <1>13 DEF Terminal

LEMMA CloseStep ==
  ASSUME IInv, Close \/ Super
  PROVE  IInv'
<1> USE DEF Proceeds, Reads, Ends
<1>1. "node" \in Nodes /\ "eof" \notin Kinds /\ "eof" \notin Names
  BY KindsEnd DEF Nodes, Names
<1>2. CASE Close
  <2>1. On("closing")
    BY <1>2 DEF Close
  <2>2. top.end \in Kinds /\ Ready /\ ret # "err"
    BY <2>1, AtPlace, PlacesOf
  <2>3. CASE peek = top.end
    <3>1. Inside(cur)
      BY <1>1, <2>2, <2>3, TokensAt
    <3>2. QED
      BY <1>1, <1>2, <2>1, <2>3, <3>1, PlaceReturnsNode DEF Close
  <2>4. CASE peek # top.end
    BY <1>2, <2>1, <2>4, PlaceFails DEF Close
  <2>5. QED
    BY <2>3, <2>4
<1>3. CASE Super
  <2>1. On("super") /\ top.at = "super"
    BY <1>3, BeginsAt DEF Super
  <2>2. CASE peek = "." /\ Ahead(1) \in Names
    <3>1. Return(2, "node") /\ Ahead(1) # "eof"
      BY <1>1, <1>3, <2>2 DEF Super
    <3>2. QED
      BY <1>1, <2>1, <3>1, PlaceReturnsNode
  <2>3. CASE peek = "." /\ Ahead(1) \notin Names
    <3>1. Error(2)
      BY <1>3, <2>3 DEF Super
    <3>2. peek # "eof" /\ peek \in LooksPast
      BY <2>1, <2>3 DEF LooksPast
    <3>3. QED
      BY <2>1, <3>1, <3>2, PlaceFailsFurther
  <2>4. CASE peek = "["
    <3>1. Go(1, <<Closing("]"), Expression>>)
      BY <1>3, <2>4 DEF Super
    <3>2. Closing("]") \in Waiting /\ Expression \in Starting
      BY SimplePlaces DEF Kinds
    <3>3. QED
      BY <2>1, <2>4, <3>1, <3>2, PlaceCalls
  <2>5. CASE peek \notin {".", "["}
    <3>1. Error(1)
      BY <1>3, <2>5 DEF Super
    <3>2. QED
      BY <2>1, <3>1, PlaceFails
  <2>6. QED
    BY <2>2, <2>3, <2>4, <2>5
<1>4. QED
  BY <1>2, <1>3
-----------------------------------------------------------------------------
(* Objects.                                                                *)

LEMMA ObjectPlaces ==
  /\ \A o \in Opened : /\ o \in Waiting /\ o \in Starting /\ Harmless(o)
                       /\ [at |-> "field name", object |-> o] \in Waiting
                       /\ [at |-> "object assert", object |-> o] \in Waiting
                       /\ [o EXCEPT !.asserts = TRUE] \in Opened
  /\ \A o \in Opened, key \in SUBSET Kinds :
        /\ [at |-> "field", key |-> key, object |-> o] \in Starting
        /\ [at |-> "method", key |-> key, object |-> o] \in Waiting
  /\ \A o \in Objects : [o EXCEPT !.first = FALSE, !.inField = FALSE] \in Opened
<1>1. \A o \in Opened : o \in Waiting /\ o \in Starting /\ Harmless(o)
  BY DEF Waiting, Starting, Targets, Objects, Opened, Harmless
<1>2. \A o \in Opened : /\ [at |-> "field name", object |-> o] \in Waiting
                        /\ [at |-> "object assert", object |-> o] \in Waiting
  BY DEF Waiting
<1>3. \A o \in Opened : [o EXCEPT !.asserts = TRUE] \in Opened
  BY DEF Opened
<1>4. \A o \in Opened, key \in SUBSET Kinds :
         /\ [at |-> "field", key |-> key, object |-> o] \in Starting
         /\ [at |-> "method", key |-> key, object |-> o] \in Waiting
  BY DEF Starting, Waiting
<1>5. \A o \in Objects : [o EXCEPT !.first = FALSE, !.inField = FALSE] \in Opened
  BY DEF Objects, Opened
<1>6. QED
  BY ONLY <1>1, <1>2, <1>3, <1>4, <1>5

LEMMA NextFieldStep ==
  ASSUME IInv, NextField
  PROVE  IInv'
<1> DEFINE gotComma == ~top.first /\ peek = ","
           n == IF gotComma THEN 1 ELSE 0
           next == Ahead(n)
           object == [top EXCEPT !.first = FALSE, !.inField = FALSE]
           asserting == [object EXCEPT !.asserts = TRUE]
<1>1. On("object") /\ Proceeds("object")
  BY DEF NextField, Proceeds
<1>2. top \in Objects /\ top.at = "object"
  BY <1>1, AtPlace, PlacesOf
<1>3. /\ object \in Opened /\ asserting \in Opened /\ top.binds = object.binds
      /\ Expression \in Starting /\ "node" \in Nodes /\ Specs("}") \in Starting
  <2>1. object \in Opened /\ top.binds = object.binds
    BY <1>2, ObjectPlaces DEF Objects
  <2> HIDE DEF object
  <2>2. QED
    BY <2>1, ObjectPlaces, SimplePlaces DEF Kinds, Nodes
<1>4. n \in {0, 1} /\ (n = 1 => peek = ",")
  <2>1. CASE gotComma
    BY ONLY <2>1
  <2>2. CASE ~gotComma
    <3> HIDE DEF gotComma
    <3>1. QED
      BY ONLY <2>2
  <2>3. QED
    BY ONLY <2>1, <2>2
<1>5. next # "eof" => Reads(n + 1) /\ Ends(n + 1) /\ n + 1 \in {0, 1, 2}
  <2> HIDE DEF n
  <2>1. QED
    BY <1>1, <1>4, PastComma
\* What parseObjectRemainder does at the next token.
<1>6. \/ next = "}" /\ Return(n + 1, "node")
      \/ next = "for" /\ Go(n + 1, <<Specs("}")>>)
      \/ Error(n + 1)
      \/ /\ next \in Names \cup Strings \cup {"block"}
         /\ Go(n + 1, <<[at |-> "field", key |-> {next}, object |-> object]>>)
      \/ /\ next = "["
         /\ Go(n + 1, <<[at |-> "field name", object |-> object], Expression>>)
      \/ next = "local" /\ Go(n + 1, <<Bind(top.binds, object)>>)
      \/ /\ next = "assert"
         /\ Go(n + 1, <<[at |-> "object assert", object |-> asserting], Expression>>)
  <2> DEFINE Deeper ==
        CASE next \in Names \cup Strings \cup {"block"} ->
               Go(n + 1, <<[at |-> "field", key |-> {next}, object |-> object]>>)
          [] next = "[" ->
               Go(n + 1, <<[at |-> "field name", object |-> object], Expression>>)
          [] next = "local" -> Go(n + 1, <<Bind(top.binds, object)>>)
          [] next = "assert" ->
               Go(n + 1, <<[at |-> "object assert", object |-> asserting], Expression>>)
          [] OTHER -> Error(n + 1)
  <2>1. \/ next = "}" /\ Return(n + 1, "node")
        \/ next = "for" /\ Go(n + 1, <<Specs("}")>>)
        \/ Error(n + 1)
        \/ Deeper
    <3> DEFINE A == next = "}"
               B == next = "for"
               C == next \notin {"}", "for"} /\ ~gotComma /\ ~top.first
               D == ~top.asserts /\ top.fields = 1 /\ top.lone
    <3>1. (CASE A -> Return(n + 1, "node")
             [] B -> IF D THEN Go(n + 1, <<Specs("}")>>) ELSE Error(n + 1)
             [] C -> Error(n + 1)
             [] OTHER -> Deeper)
      BY DEF NextField
    <3> HIDE DEF n, next, object, asserting, gotComma, Deeper
    <3>2. QED
      BY ONLY <3>1
  <2> HIDE DEF n, object, asserting, gotComma
  <2>2. QED
    BY ONLY <2>1
<1> HIDE DEF gotComma, n, object, asserting
<1>7. CASE next = "}" /\ Return(n + 1, "node")
  BY <1>1, <1>3, <1>5, <1>7, PlaceReturnsNode
<1>8. CASE next = "for" /\ Go(n + 1, <<Specs("}")>>)
  BY <1>1, <1>3, <1>5, <1>8, PlaceMoves
<1>9. CASE Error(n + 1)
  <2>1. CASE n = 0
    BY <1>1, <1>9, <2>1, PlaceFails
  <2>2. CASE n = 1
    <3>1. Error(2)
      <4>1. n + 1 = 2
        BY <2>2
      <4>2. QED
        BY ONLY <1>9, <4>1
    <3>2. peek # "eof" /\ peek \in LooksPast
      BY <1>2, <1>4, <2>2 DEF LooksPast
    <3>3. QED
      BY <1>1, <3>1, <3>2, PlaceFailsFurther
  <2>3. QED
    BY <1>4, <2>1, <2>2
<1>10. CASE /\ next \in Names \cup Strings \cup {"block"}
            /\ Go(n + 1, <<[at |-> "field", key |-> {next}, object |-> object]>>)
  <2> DEFINE f == [at |-> "field", key |-> {next}, object |-> object]
  <2>1. next \in Kinds /\ next # "eof"
    BY <1>10, KindsEnd DEF Kinds
  <2>2. f \in Starting /\ Go(n + 1, <<f>>)
    BY <1>3, <1>10, <2>1, ObjectPlaces
  <2> HIDE DEF f
  <2>3. QED
    BY <1>1, <1>5, <2>1, <2>2, PlaceMoves
<1>11. CASE /\ next = "["
            /\ Go(n + 1, <<[at |-> "field name", object |-> object], Expression>>)
  <2> DEFINE f == [at |-> "field name", object |-> object]
  <2>1. f \in Waiting /\ Go(n + 1, <<f, Expression>>)
    BY <1>3, <1>11, ObjectPlaces
  <2> HIDE DEF f
  <2>2. QED
    BY <1>1, <1>3, <1>5, <1>11, <2>1, PlaceCalls
<1>12. CASE next = "local" /\ Go(n + 1, <<Bind(top.binds, object)>>)
  <2>1. Bind(top.binds, object) \in Starting
    BY <1>3, BindPlaces
  <2>2. QED
    BY <1>1, <1>5, <1>12, <2>1, PlaceMoves
<1>13. CASE /\ next = "assert"
            /\ Go(n + 1, <<[at |-> "object assert", object |-> asserting], Expression>>)
  <2> DEFINE f == [at |-> "object assert", object |-> asserting]
  <2>1. f \in Waiting /\ Go(n + 1, <<f, Expression>>)
    BY <1>3, <1>13, ObjectPlaces
  <2> HIDE DEF f
  <2>2. QED
    BY <1>1, <1>3, <1>5, <1>13, <2>1, PlaceCalls
<1>14. QED
  BY <1>6, <1>7, <1>8, <1>9, <1>10, <1>11, <1>12, <1>13

LEMMA FieldBodyStep ==
  ASSUME IInv, NEW k, On(k), k \notin {"parse", "terminal"}, NEW isMethod \in BOOLEAN,
         top.object \in Opened, top.key \in SUBSET Kinds, FieldBody(isMethod)
  PROVE  IInv'
<1> USE DEF Proceeds, Reads
<1> DEFINE o == [top.object EXCEPT !.inField = TRUE, !.lits = @ \cup top.key,
                                   !.fields = IF @ = 0 THEN 1 ELSE 2,
                                   !.lone = top.key = {} /\ peek # "::"]
<1>1. o \in Opened
  BY DEF Opened
<1>2. Error(1) \/ (peek \in {":", "::", "+:"} /\ Go(1, <<o, Expression>>))
  BY DEF FieldBody
<1> HIDE DEF o
<1>3. o \in Waiting /\ Expression \in Starting
  BY <1>1, ObjectPlaces, SimplePlaces
<1>4. CASE Error(1)
  BY <1>4, PlaceFails
<1>5. CASE peek \in {":", "::", "+:"} /\ Go(1, <<o, Expression>>)
  BY <1>3, <1>5, PlaceCalls
<1>6. QED
  BY <1>2, <1>4, <1>5

LEMMA FieldStep ==
  ASSUME IInv, FieldName \/ Field \/ Method \/ ObjectAssert
  PROVE  IInv'
<1> USE DEF Proceeds, Reads
<1>1. CASE FieldName
  <2> DEFINE f == [at |-> "field", key |-> {}, object |-> top.object]
  <2>1. On("field name") /\ top.object \in Opened
    BY <1>1, AtPlace, PlacesOf DEF FieldName
  <2>2. CASE peek = "]"
    <3>1. f \in Starting /\ Go(1, <<f>>)
      BY <1>1, <2>1, <2>2, ObjectPlaces DEF FieldName
    <3> HIDE DEF f
    <3>2. QED
      BY <2>1, <2>2, <3>1, PlaceMoves
  <2>3. CASE peek # "]"
    BY <1>1, <2>1, <2>3, PlaceFails DEF FieldName
  <2>4. QED
    BY <2>2, <2>3
<1>2. CASE Field
  <2> DEFINE f == [top EXCEPT !.at = "method"]
  <2>1. On("field")
    BY <1>2 DEF Field
  <2>2. /\ top \in [at : {"field"}, key : SUBSET Kinds, object : Opened]
        /\ top.object \in Opened /\ top.key \in SUBSET Kinds
    BY <2>1, AtPlace, PlacesOf
  <2>3. CASE peek = "("
    <3>1. Go(1, <<f, Arguments>>)
      BY <1>2, <2>3 DEF Field
    <3>2. f \in Waiting
      <4>1. f \in [at : {"method"}, key : SUBSET Kinds, object : Opened]
        BY <2>2
      <4> HIDE DEF f
      <4>2. QED
        BY ONLY <4>1 DEF Waiting
    <3>3. Arguments \in Starting
      BY SimplePlaces
    <3> HIDE DEF f
    <3>4. QED
      BY <2>1, <2>3, <3>1, <3>2, <3>3, PlaceCalls
  <2>4. CASE peek # "("
    <3>1. FieldBody(FALSE)
      BY <1>2, <2>4 DEF Field
    <3>2. QED
      BY <2>1, <2>2, <3>1, FieldBodyStep
  <2>5. QED
    BY <2>3, <2>4
<1>3. CASE Method
  <2>1. On("method") /\ top.object \in Opened /\ top.key \in SUBSET Kinds
    BY <1>3, AtPlace, PlacesOf DEF Method
  <2>2. CASE ret = "simple"
    <3>1. FieldBody(TRUE)
      BY <1>3, <2>2 DEF Method
    <3>2. QED
      BY <2>1, <3>1, FieldBodyStep
  <2>3. CASE ret # "simple"
    BY <1>3, <2>1, <2>3, PlaceFails DEF Method
  <2>4. QED
    BY <2>2, <2>3
<1>4. CASE ObjectAssert
  <2>1. On("object assert") /\ top.object \in Opened
    BY <1>4, AtPlace, PlacesOf DEF ObjectAssert
  <2>2. /\ top.object \in Waiting /\ top.object \in Starting /\ Harmless(top.object)
        /\ Expression \in Starting
    BY <2>1, ObjectPlaces, SimplePlaces
  <2>3. CASE peek = ":"
    BY <1>4, <2>1, <2>2, <2>3, PlaceCalls DEF ObjectAssert
  <2>4. CASE peek # ":"
    BY <1>4, <2>1, <2>2, <2>4, PlaceMoves DEF ObjectAssert
  <2>5. QED
    BY <2>3, <2>4
<1>5. QED
  BY <1>1, <1>2, <1>3, <1>4
-----------------------------------------------------------------------------
(* Errors on their way up, and more text.                                  *)

\* What becomes a Partial has the end of the text ahead of it at most.
LEMMA RecoverStep ==
  ASSUME IInv, CatchBody \/ CatchField \/ Propagate
  PROVE  IInv'
<1>1. ~stopped /\ ret = "err" /\ Ready /\ stack # <<>>
  BY DEF CatchBody, CatchField, Propagate, Failing, stopped
<1>2. /\ top \in Waiting /\ cur \in Nat /\ Len(tokens) \in Nat /\ Reachable(cur)
      /\ diags \subseteq Diagnostics
  BY <1>1 DEF IInv, CallersWait, Typed, CursorInv
<1>3. ASSUME top.at \notin {"parse", "terminal", "operators"} PROVE ~Unstarted
  <2>1. top = stack[Len(stack)] /\ Len(stack) \in DOMAIN stack
    BY <1>1, RestOf DEF IInv, CallersWait
  <2>2. QED
    BY <1>3, <2>1 DEF IInv, StartInv
<1>4. CASE CatchBody
  <2>1. top.at \in {"bind body", "local"} /\ ~Unstarted
    BY <1>3, <1>4 DEF CatchBody, Recovers
  <2>2. CASE BadPrev
    <3>1. /\ panicked' = TRUE /\ diags' \subseteq Diagnostics
          /\ UNCHANGED <<dialect, tokens, cur, stack, ret>>
      BY <1>2, <1>4, <2>2 DEF CatchBody, Publish, Quiet, Diagnostics
    <3>2. cur > Len(tokens)
      BY <2>2 DEF BadPrev
    <3>3. Typed' /\ PanicInv'
      BY <3>1, <3>2 DEF IInv, Typed, PanicInv
    <3>4. CallersWait'
      BY <3>1 DEF IInv, CallersWait, top
    <3>5. CursorInv'
      BY <1>1, <1>2, <3>1 DEF CursorInv, Reachable, ended
    <3>6. StartInv'
      BY <2>1, <3>1 DEF StartInv, Unstarted
    <3>7. QED
      BY <3>3, <3>4, <3>5, <3>6 DEF IInv
  <2>3. CASE ~BadPrev
    <3>1. GoWith(0, <<top>>, "node")
      BY <1>4, <2>3 DEF CatchBody
    <3>2. diags' \subseteq Diagnostics
      BY <1>2, <1>4, <2>3 DEF CatchBody, Publish, Diagnostics
    <3>3. 0 \in Int /\ cur + 0 \in Nat /\ Within(cur + 0)
      BY <1>2, <2>3 DEF BadPrev, Within
    <3>4. QED
      BY <1>1, <1>2, <2>1, <3>1, <3>2, <3>3, MoveStep
  <2>4. QED
    BY <2>2, <2>3
<1>5. CASE CatchField
  <2>1. top.at = "object" /\ peek \in {",", ";"} /\ GoWith(-1, <<top>>, "node")
    BY <1>5 DEF CatchField, FieldLeft
  <2>2. ~Unstarted
    BY <1>3, <2>1
  <2>3. diags' \subseteq Diagnostics
    BY <1>2, <1>5 DEF CatchField, Publish, Diagnostics
\* A comma at the very beginning would have been met by parseTerminal.
  <2>4. cur # 0
    <3> SUFFICES ASSUME cur = 0 PROVE FALSE
      OBVIOUS
    <3>1. peek = IF cur + 0 < Len(tokens) THEN tokens[cur + 0 + 1] ELSE "eof"
      BY DEF peek, Ahead
    <3>2. Len(tokens) # 0 /\ peek = tokens[1]
      <4>1. CASE cur + 0 < Len(tokens)
        BY <1>2, <3>1, <4>1
      <4>2. CASE ~(cur + 0 < Len(tokens))
        BY ONLY <2>1, <3>1, <4>2
      <4>3. QED
        BY ONLY <4>1, <4>2
    <3>3. QED
      <4>1. tokens # <<>>
        BY ONLY <3>2, EmptySeq
      <4>2. QED
        BY <2>1, <2>2, <3>2, <4>1 DEF Unstarted
  <2>5. -1 \in Int /\ cur + (-1) \in Nat /\ Within(cur + (-1))
    BY <1>2, <2>4 DEF Reachable, Within
  <2>6. QED
    BY ONLY <1>1, <1>2, <2>1, <2>2, <2>3, <2>5, IInv, MoveStep
<1>6. CASE Propagate
  <2>1. Error(0) /\ 0 \in Nat /\ Reachable(cur + 0)
    BY <1>2, <1>6 DEF Propagate
  <2>2. QED
    BY <1>1, <2>1, ErrorStep
<1>7. QED
  BY <1>4, <1>5, <1>6

LEMMA RevealStep ==
  ASSUME IInv, Reveal
  PROVE  IInv'
<1>1. /\ ~ended /\ UNCHANGED <<dialect, cur, stack, ret, diags, panicked>>
      /\ dialect \in Dialects
  BY DEF Reveal, IInv, Typed
<1>2. PICK k \in Tokens : tokens' = Append(tokens, k)
  <2>1. dialect.kinds \subseteq Kinds
    BY <1>1, DialectsAssumption
  <2>2. QED
    BY <2>1 DEF Reveal, Tokens
<1>3. /\ tokens \in Seq(Tokens) /\ Len(tokens) \in Nat /\ cur \in Nat
      /\ tokens' \in Seq(Tokens) /\ Len(tokens') = Len(tokens) + 1
      /\ \A i \in 1..Len(tokens) : tokens'[i] = tokens[i]
      /\ DOMAIN tokens' = 1..(Len(tokens) + 1) /\ DOMAIN tokens = 1..Len(tokens)
      /\ tokens' # <<>>
  BY <1>2 DEF IInv, Typed
<1>4. \A i \in DOMAIN tokens : tokens[i] # "eof"
  <2> SUFFICES ASSUME NEW i \in DOMAIN tokens, tokens[i] = "eof" PROVE FALSE
    OBVIOUS
  <2>1. i = Len(tokens) /\ tokens # <<>>
    BY <1>3 DEF IInv, Typed
  <2>2. QED
    BY <1>1, <2>1 DEF ended, Last
<1>5. Typed'
  <2>1. \A i \in DOMAIN tokens' : tokens'[i] = "eof" => i = Len(tokens')
    BY <1>3, <1>4
  <2>2. QED
    BY <1>1, <1>3, <2>1 DEF IInv, Typed
<1>6. cur <= Len(tokens) /\ ~panicked
  BY <1>1, <1>3 DEF IInv, CursorInv, Reachable, PanicInv
<1>7. CallersWait' /\ PanicInv'
  BY <1>1, <1>6 DEF IInv, CallersWait, PanicInv, top
<1>8. CursorInv'
  <2>1. Reachable(cur)' /\ Within(cur)' /\ Inside(cur)'
    BY <1>1, <1>3, <1>6 DEF Reachable, Within, Inside
  <2>2. QED
    BY <2>1 DEF CursorInv
<1>9. StartInv'
  <2>1. Unstarted' => Unstarted
    <3> SUFFICES ASSUME tokens # <<>>, tokens'[1] \in {",", ";"} PROVE tokens[1] \in {",", ";"}
      BY <1>3 DEF Unstarted
    <3>1. Len(tokens) \in Nat \ {0}
      BY ONLY <1>3, tokens # <<>>, EmptySeq
    <3>2. 1 \in 1..Len(tokens)
      BY ONLY <3>1
    <3>3. tokens'[1] = tokens[1]
      BY ONLY <1>3, <3>2
    <3>4. QED
      BY <3>3
  <2>2. QED
    BY <1>1, <2>1 DEF IInv, StartInv
<1>10. QED
  BY <1>5, <1>7, <1>8, <1>9 DEF IInv
-----------------------------------------------------------------------------
(* The inductive invariant.                                                *)

LEMMA InitInv == Init => IInv
<1> SUFFICES ASSUME Init PROVE IInv
  OBVIOUS
<1>1. /\ dialect \in Dialects /\ tokens = dialect.begins /\ cur = 0
      /\ stack = <<Expression>> /\ ret = "-" /\ diags = {} /\ panicked = FALSE
  BY DEF Init
<1>2. tokens \in Seq(Kinds) /\ Len(tokens) \in Nat /\ DOMAIN tokens = 1..Len(tokens)
  BY <1>1, DialectsAssumption
<1>3. \A i \in DOMAIN tokens : tokens[i] \in Kinds /\ tokens[i] # "eof"
  BY <1>2, KindsEnd
<1>4. ~ended
  <2> SUFFICES ASSUME tokens # <<>> PROVE tokens[Len(tokens)] # "eof"
    BY DEF ended, Last
  <2>1. Len(tokens) \in DOMAIN tokens
    BY <1>2, EmptySeq
  <2>2. QED
    BY <1>3, <2>1
<1>5. Typed
  <2>1. tokens \in Seq(Tokens)
    BY <1>2, <1>3 DEF Tokens
  <2>2. \A i \in DOMAIN tokens : tokens[i] = "eof" => i = Len(tokens)
    BY <1>3
  <2>3. QED
    BY <1>1, <2>1, <2>2 DEF Typed, Values
<1>6. /\ stack \in Seq(Starting \cup Waiting) /\ Len(stack) = 1 /\ stack # <<>>
      /\ top = Expression /\ top \in Starting /\ top.at = "parse"
      /\ DOMAIN stack = {1} /\ stack[1] = Expression
  <2>1. Expression \in Starting /\ Expression.at = "parse"
    BY SimplePlaces DEF Expression, parse
  <2>2. /\ stack \in Seq(Starting \cup Waiting) /\ Len(stack) = 1 /\ stack # <<>>
        /\ DOMAIN stack = {1} /\ stack[1] = Expression
    BY <1>1, <2>1
  <2>3. top = stack[1]
    BY <2>2 DEF top, Last
  <2>4. QED
    BY ONLY <2>1, <2>2, <2>3
<1>7. CallersWait
  BY <1>1, <1>6 DEF CallersWait
<1>8. CursorInv
  BY <1>1, <1>2, <1>4 DEF CursorInv, Reachable, Within, Inside
<1>9. StartInv
  BY <1>1, <1>6 DEF StartInv
<1>10. PanicInv
  BY <1>1 DEF PanicInv
<1>11. QED
  BY <1>5, <1>7, <1>8, <1>9, <1>10 DEF IInv

LEMMA NextInv == IInv /\ [Next]_vars => IInv'
<1> SUFFICES ASSUME IInv, [Next]_vars PROVE IInv'
  OBVIOUS
<1>1. CASE \/ ParseAssert \/ AssertCond \/ AssertMessage \/ ParseError \/ ParseIf \/ IfCond
           \/ IfBranch \/ Wrap \/ ParseFunction \/ FunctionBody \/ ParseImport \/ ImportBody
  BY <1>1, KeywordStep
<1>2. CASE BindName \/ BindParameters \/ BindFunction \/ BindBody
  BY <1>2, BindStep
<1>3. CASE ParseLocal \/ NextBind \/ LocalBody \/ LocalEnd
  BY <1>3, LocalStep
<1>4. CASE ParseUnary \/ ParseOperand
  BY <1>4, OperandStep
<1>5. CASE \/ OperandEnds \/ NotBinary \/ Binary \/ ApplyDot \/ ApplyIndex \/ ApplyCall
           \/ ApplyObject
  BY <1>5, OperatorStep
<1>6. CASE Called
  BY <1>6, CalledStep
<1>7. CASE SliceStep
  BY <1>7, SliceIndexStep
<1>8. CASE NextArgument \/ Argument
  BY <1>8, ArgumentStep
<1>9. CASE ArrayStart \/ FirstElement \/ Element
  BY <1>9, ArrayStep
<1>10. CASE ForSpec \/ SpecEnd
  BY <1>10, ForStep
<1>11. CASE NextField
  BY <1>11, NextFieldStep
<1>12. CASE FieldName \/ Field \/ Method \/ ObjectAssert
  BY <1>12, FieldStep
<1>13. CASE Terminal
  BY <1>13, TerminalStep
<1>14. CASE Close \/ Super
  BY <1>14, CloseStep
<1>15. CASE CatchBody \/ CatchField \/ Propagate
  BY <1>15, RecoverStep
<1>16. CASE Reveal
  BY <1>16, RevealStep
<1>17. CASE UNCHANGED vars
  BY <1>17 DEF vars, IInv, Typed, CallersWait, CursorInv, StartInv, PanicInv, top, ended,
               Reachable, Within, Inside, Unstarted
<1>18. QED
  BY <1>1, <1>2, <1>3, <1>4, <1>5, <1>6, <1>7, <1>8, <1>9, <1>10, <1>11, <1>12, <1>13,
     <1>14, <1>15, <1>16, <1>17 DEF Next, Parse

LEMMA InvHolds == Spec => []IInv
  BY InitInv, NextInv, PTL DEF Spec

LEMMA InvTypes == IInv => TypeOK
<1> SUFFICES ASSUME IInv PROVE TypeOK
  OBVIOUS
<1>1. Typed /\ stack \in Seq(Starting \cup Waiting)
  BY DEF IInv, CallersWait
<1>2. \A i \in DOMAIN stack : stack[i].at \in Places
  <2> TAKE i \in DOMAIN stack
  <2>1. stack[i] \in Starting \cup Waiting
    BY <1>1
  <2>2. QED
    BY <2>1, PlacesOf
<1>3. cur \in 0..(Len(tokens) + 1)
  BY <1>1 DEF Typed, IInv, CursorInv, Reachable
<1>4. QED
  BY <1>1, <1>2, <1>3 DEF Typed, TypeOK, Tokens

\* Whatever the text and wherever the parser recovers, it is at one of its
\* places, it knows the values and diagnostics it passes on, and its cursor
\* is in the text or at most one token past its end: neither the step back at
\* the body of a field nor the one at the body of a local leaves the text.
THEOREM TypeCorrect == Spec => []TypeOK
  BY InvHolds, InvTypes, PTL

\* The cursor is past the end of file only when an error has taken it there,
\* which includes every panic of peekPrev: a caller that is given a value
\* always goes on inside the text.
PastTheEnd == cur > Len(tokens)
THEOREM PassesTheEndFailing ==
  Spec => [](/\ PastTheEnd => ended /\ ret = "err"
             /\ panicked => PastTheEnd)
<1>1. IInv => /\ PastTheEnd => ended /\ ret = "err"
              /\ panicked => PastTheEnd
  BY DEF IInv, Typed, CursorInv, PanicInv, Reachable, Within, PastTheEnd
<1>2. QED
  BY <1>1, InvHolds, PTL
=============================================================================

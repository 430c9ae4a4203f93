------------------------------- MODULE Parser -------------------------------
(* token.Parse: the parser that keeps going when the text is unfinished.    *)
(*                                                                          *)
(* It descends recursively, so its state is the cursor `cur` into `tokens`, *)
(* the `stack` of the places that wait for a call (their local variables    *)
(* with them) and the value `ret` that the last call returned: "-" while a  *)
(* call is being made, "err" for an error on its way up.  A place is named  *)
(* for the construct it is in, and every action is the code from one such   *)
(* place to the next call, return or error.                                 *)
(*                                                                          *)
(* What Lex delivers is fixed before Parse looks at it.  `tokens` holds the *)
(* part looked at so far, and Reveal decides on the next token when it is   *)
(* first needed.  Locations, node contents and messages are left out: a     *)
(* node is "var" or "string" where a caller asks for that, "node"           *)
(* otherwise.                                                               *)
EXTENDS Integers, Sequences, FiniteSets, SequencesExt

CONSTANT
    \* The texts to parse.  A dialect has the tokens its texts begin with, the
    \* kinds of the others, their largest number, and the number up to which a
    \* text is revealed even after the parser has stopped.
    Dialects

\* Tokens with the same kind and, where the parser looks at it, the same
\* data.  "colonString" is a string literal that reads `:`.
Names == {"x", "y"}
Strings == {"str", "colonString"}
Operators == {"+", "*", "!", "=", ":", "::", "+:"}
UopMap == {"+", "!"}
bopPrecedence == [op \in {"*", "+", "in"} |->
                      CASE op = "*" -> 5 [] op = "+" -> 6 [] op = "in" -> 8]
Keywords == {"assert", "error", "function", "if", "import", "local"}
Kinds == Names \cup Strings \cup Operators \cup Keywords
            \cup {"lit", "block", "(", ")", "[", "]", "{", "}", ",", ".", ";",
                  "else", "for", "in", "super", "tailstrict", "then"}

applyPrecedence == 2
unaryPrecedence == 4
maxPrecedence == 16

ASSUME DialectsAssumption ==
    Dialects \subseteq [begins : Seq(Kinds), kinds : SUBSET Kinds, max : Nat, full : Nat]

Nodes == {"var", "string", "block", "node"}
Diagnostics == {"end of file", "field id", "bind body", "local body", "object body"}

VARIABLES dialect, tokens, cur, stack, ret, diags, panicked
vars == <<dialect, tokens, cur, stack, ret, diags, panicked>>
-----------------------------------------------------------------------------
(* The token list.  Lex ends it with an end of file; reading past that end  *)
(* yields it again.                                                         *)
ended == tokens # <<>> /\ Last(tokens) = "eof"
Ahead(n) == IF cur + n < Len(tokens) THEN tokens[cur + n + 1] ELSE "eof"
peek == Ahead(0)
Known(n) == ended \/ cur + n < Len(tokens)
atEnd == ended /\ cur = Len(tokens)

\* peekPrev reads tokens[cur - 1] unchecked.
BadPrev == cur > Len(tokens)

stopped == stack = <<>> \/ panicked
top == Last(stack)
rest == Front(stack)

\* The tokens that a place looks past.
LooksPast ==
    CASE top.at = "parse" -> {"function", "local"}
      [] top.at = "operators" -> {"in", "."}
      [] top.at \in {"arguments", "for"} -> Names
      [] top.at \in {"first element", "element", "object"} -> {","}
      [] top.at = "super" -> {"."}
      [] OTHER -> {}
Ready == Known(0) /\ (peek \in LooksPast => Known(1))

Reveal ==
    /\ ~ended
    /\ IF stopped THEN Len(tokens) <= dialect.full ELSE ~Ready
    /\ \E k \in {"eof"} \cup (IF Len(tokens) < dialect.max THEN dialect.kinds ELSE {}) :
          tokens' = Append(tokens, k)
    /\ UNCHANGED <<dialect, cur, stack, ret, diags, panicked>>
-----------------------------------------------------------------------------

At(k) == [at |-> k]
parse(prec) == [at |-> "parse", prec |-> prec]
Expression == parse(maxPrecedence)

\* The operator loops of the calls that descended to one operand: those from
\* precedence `level` up to the precedence the first of them was called with.
OperatorLoop(level, prec) == [at |-> "operators", level |-> level, prec |-> prec]

Arguments == [at |-> "arguments", first |-> TRUE, comma |-> FALSE,
              named |-> FALSE, naming |-> FALSE, simple |-> TRUE]
Bind(names, to) == [at |-> "bind", names |-> names, to |-> to]

Specs(end) == [at |-> "for", end |-> end]
SpecTail(end) == [at |-> "spec", end |-> end]
Closing(end) == [at |-> "closing", end |-> end]
Slice(colons, ready) == [at |-> "slice", colons |-> colons, ready |-> ready]

\* parseObjectRemainder: what it remembers of the fields it has seen.
\* `lone` says of the last one that a comprehension can have it.
Object == [at |-> "object", first |-> TRUE, inField |-> FALSE, lits |-> {},
           binds |-> {}, asserts |-> FALSE, fields |-> 0, lone |-> FALSE]

\* The code at k runs, no error on its way up.
On(k) == ~stopped /\ top.at = k /\ ret # "err" /\ Ready

\* n tokens are popped, and `calls` takes the place of the current one.
GoWith(n, calls, value) ==
    /\ cur' = cur + n /\ stack' = rest \o calls /\ ret' = value
    /\ UNCHANGED <<dialect, tokens, panicked>>

Publish(d) == diags' = diags \cup {d}
Quiet == UNCHANGED diags

Go(n, calls) == GoWith(n, calls, "-") /\ Quiet
Return(n, value) == GoWith(n, <<>>, value) /\ Quiet
Error(n) == Return(n, "err")
-----------------------------------------------------------------------------
(* parse: constructs that begin with a keyword.                             *)
ParseAssert == On("parse") /\ peek = "assert" /\ Go(1, <<At("assert cond"), Expression>>)

AssertRest == IF peek = ";" THEN Go(1, <<At("wrap"), Expression>>) ELSE Error(1)
AssertCond ==
    /\ On("assert cond")
    /\ IF peek = ":" THEN Go(1, <<At("assert message"), Expression>>) ELSE AssertRest
AssertMessage == On("assert message") /\ AssertRest

ParseError == On("parse") /\ peek = "error" /\ Go(1, <<At("wrap"), Expression>>)

ParseIf == On("parse") /\ peek = "if" /\ Go(1, <<At("if cond"), Expression>>)
IfCond ==
    /\ On("if cond")
    /\ IF peek = "then" THEN Go(1, <<At("if branch"), Expression>>) ELSE Error(1)
IfBranch ==
    /\ On("if branch")
    /\ IF peek = "else" THEN Go(1, <<At("wrap"), Expression>>) ELSE Return(0, "node")

\* The last part of a construct has been parsed: the construct is a node.
Wrap == On("wrap") /\ Return(0, "node")

ParseFunction ==
    /\ On("parse") /\ peek = "function"
    /\ IF Ahead(1) = "(" THEN Go(2, <<At("function"), Arguments>>) ELSE Error(2)

\* parseParameters turns the positional arguments into required parameters.
FunctionBody ==
    /\ On("function")
    /\ IF ret = "simple" THEN Go(0, <<At("wrap"), Expression>>) ELSE Error(0)

ParseImport == On("parse") /\ peek = "import" /\ Go(1, <<At("import"), Expression>>)
ImportBody == On("import") /\ IF ret = "string" THEN Return(0, "node") ELSE Error(0)
-----------------------------------------------------------------------------
(* parse: local and its binds.                                              *)
ParseLocal ==
    /\ On("parse") /\ peek = "local"
    /\ IF Ahead(1) = "eof" THEN Return(1, "node")
       ELSE Go(1, <<Bind({}, At("bind body"))>>)

\* parseBind, and the same steps of a local inside an object: a name not
\* bound before, parameters if it is a function, `=`.
BindName ==
    /\ On("bind")
    /\ IF peek \in Names \ top.names
       THEN LET names == top.names \cup {peek}
                to == IF top.to.at = "object" THEN [top.to EXCEPT !.binds = names]
                      ELSE [at |-> "bind body", names |-> names]
            IN Go(1, <<[at |-> "bind parameters", to |-> to]>>)
       ELSE Error(1)

BindAssign(to) == IF peek = "=" THEN Go(1, <<to, Expression>>) ELSE Error(1)

BindParameters ==
    /\ On("bind parameters")
    /\ IF peek = "("
       THEN Go(1, <<[at |-> "bind =", to |-> top.to], Arguments>>)
       ELSE BindAssign(top.to)
BindFunction ==
    /\ On("bind =")
    /\ IF ret = "simple" THEN BindAssign(top.to) ELSE Error(0)

BindBody == On("bind body") /\ Go(0, <<[at |-> "bound", names |-> top.names]>>)

\* The loop of local over its binds.
NextBind ==
    /\ On("bound")
    /\ \/ (atEnd \/ peek = ";") /\ Go(IF atEnd THEN 0 ELSE 1, <<At("local body")>>)
       \/ ~atEnd /\ peek = "," /\ Go(1, <<Bind(top.names, At("bind body"))>>)
       \/ ~atEnd /\ peek \notin {";", ","} /\ Error(1)

\* The cursor comes back to the end of file when it has passed it, so the
\* test for a missing body that follows (atEnd) is never true.
\* Mutant: the cursor stays where it is.
LocalBodyUnclamped == On("local body") /\ Go(0, <<At("local"), Expression>>)
LocalBody ==
    /\ On("local body")
    /\ LET max == Len(tokens) - 1
       IN Go((IF ended /\ cur > max THEN max ELSE cur) - cur, <<At("local"), Expression>>)
LocalEnd == On("local") /\ Return(0, "node")
-----------------------------------------------------------------------------
(* parse: operators.                                                        *)
ParseUnary ==
    /\ On("parse") /\ peek \in Operators
    /\ IF peek \in UopMap
       THEN Go(1, <<OperatorLoop(unaryPrecedence + 1, top.prec), At("wrap"),
                    parse(unaryPrecedence)>>)
       ELSE Error(0)

ParseOperand ==
    /\ On("parse") /\ peek \notin Operators \cup Keywords
    /\ Go(0, <<OperatorLoop(1, top.prec), At("terminal")>>)

\* Whether one of the loops still to run takes an operator of precedence p.
\* Mutant: a loop takes one operator of its precedence and no second one.
TakesOnce(p) == top.level < p /\ p <= top.prec
Takes(p) == top.level <= p /\ p <= top.prec
Applies == {"[", ".", "(", "{"}

\* No loop takes the next token: the operand goes back to the first caller.
OperandEnds ==
    /\ On("operators")
    /\ \/ top.level > top.prec
       \/ peek \in DOMAIN bopPrecedence /\ ~Takes(bopPrecedence[peek])
       \/ peek \in Applies /\ ~Takes(applyPrecedence)
       \/ peek \notin Applies \cup Operators \cup {"in"}
       \/ peek = ":"
    /\ Return(0, ret)

NotBinary ==
    /\ On("operators") /\ top.level <= top.prec
    /\ peek \in Operators \ (DOMAIN bopPrecedence \cup {":"})
    /\ Error(0)

Binary ==
    /\ On("operators")
    /\ peek \in DOMAIN bopPrecedence /\ Takes(bopPrecedence[peek])
    /\ LET p == bopPrecedence[peek]
           again == OperatorLoop(p, top.prec)
       IN IF peek = "in" /\ Ahead(1) = "super"
          THEN GoWith(2, <<again>>, "node") /\ Quiet
          ELSE Go(1, <<again, At("wrap"), parse(p - 1)>>)

Apply(k) == On("operators") /\ peek = k /\ Takes(applyPrecedence)
AppliedTo == OperatorLoop(applyPrecedence, top.prec)

\* A dot without a name makes a PartialIndex of the operand and swallows the
\* token that stands in the place of the name.
ApplyDot ==
    /\ Apply(".")
    /\ IF Ahead(1) \in Names
       THEN GoWith(2, <<AppliedTo>>, "node") /\ Quiet
       ELSE /\ GoWith(2, <<OperatorLoop(applyPrecedence + 1, top.prec)>>, "node")
            /\ Publish("field id")
ApplyIndex == Apply("[") /\ Go(1, <<AppliedTo, Slice(0, TRUE)>>)
ApplyCall == Apply("(") /\ Go(1, <<AppliedTo, At("called"), Arguments>>)
ApplyObject == Apply("{") /\ Go(1, <<AppliedTo, Object>>)
Called == On("called") /\ Return(IF peek = "tailstrict" THEN 1 ELSE 0, "node")

\* The colons of a slice are known by the data of a token alone.
Colons(k) == IF k = "::" THEN 2 ELSE IF k \in {":", "colonString"} THEN 1 ELSE 0
SliceStep ==
    /\ On("slice")
    /\ LET colons == top.colons + Colons(peek)
       IN CASE peek = "]" ->
                 IF top.colons = 0 /\ top.ready THEN Error(1) ELSE Return(1, "node")
            [] Colons(peek) > 0 ->
                 IF colons > 2 THEN Error(1) ELSE Go(1, <<Slice(colons, TRUE)>>)
            [] OTHER ->
                 IF top.ready THEN Go(0, <<Slice(colons, FALSE), Expression>>) ELSE Error(0)
-----------------------------------------------------------------------------
(* parseArguments and parseArgument.                                        *)
NextArgument ==
    /\ On("arguments")
    /\ LET naming == peek \in Names /\ Ahead(1) = "="
       IN CASE peek = ")" -> Return(1, IF top.simple THEN "simple" ELSE "complex")
            [] peek # ")" /\ ~top.first /\ ~top.comma -> Error(0)
            [] OTHER -> Go(IF naming THEN 2 ELSE 0,
                           <<[top EXCEPT !.at = "argument", !.naming = naming], Expression>>)

Argument ==
    /\ On("argument")
    /\ IF ~top.naming /\ top.named THEN Error(0)
       ELSE Go(IF peek = "," THEN 1 ELSE 0,
               <<[top EXCEPT !.at = "arguments", !.first = FALSE, !.comma = (peek = ","),
                             !.named = top.named \/ top.naming,
                             !.simple = top.simple /\ (top.naming \/ ret = "var")]>>)
-----------------------------------------------------------------------------
(* parseArray and parseComprehensionSpecs.                                  *)
ArrayStart ==
    /\ On("array")
    /\ IF peek = "]" THEN Return(1, "node") ELSE Go(0, <<At("first element"), Expression>>)

FirstElement ==
    /\ On("first element")
    /\ LET comma == IF peek = "," THEN 1 ELSE 0
       IN IF Ahead(comma) = "for" THEN Go(comma + 1, <<Specs("]")>>)
          ELSE Go(0, <<At("element")>>)

\* Mutant: the comma between two elements is optional.
ElementAnyhow ==
    /\ On("element")
    /\ LET comma == IF peek = "," THEN 1 ELSE 0
       IN IF Ahead(comma) = "]" THEN Return(comma + 1, "node")
          ELSE Go(comma, <<At("element"), Expression>>)
Element ==
    /\ On("element")
    /\ LET comma == IF peek = "," THEN 1 ELSE 0
       IN CASE Ahead(comma) = "]" -> Return(comma + 1, "node")
            [] Ahead(comma) # "]" /\ comma = 0 -> Error(0)
            [] OTHER -> Go(comma, <<At("element"), Expression>>)

ForSpec ==
    /\ On("for")
    /\ CASE peek \notin Names -> Error(1)
         [] peek \in Names /\ Ahead(1) # "in" -> Error(2)
         [] OTHER -> Go(2, <<SpecTail(top.end), Expression>>)

SpecEnd ==
    /\ On("spec")
    /\ CASE peek = "if" -> Go(1, <<SpecTail(top.end), Expression>>)
         [] peek = top.end -> Return(1, "node")
         [] peek = "for" -> Go(1, <<Specs(top.end)>>)
         [] OTHER -> Error(1)
-----------------------------------------------------------------------------
(* parseObjectRemainder.                                                    *)
NextField ==
    /\ On("object")
    /\ LET gotComma == ~top.first /\ peek = ","
           n == IF gotComma THEN 1 ELSE 0
           next == Ahead(n)
           object == [top EXCEPT !.first = FALSE, !.inField = FALSE]
       IN CASE next = "}" -> Return(n + 1, "node")
            [] next = "for" ->
                 IF ~top.asserts /\ top.fields = 1 /\ top.lone
                 THEN Go(n + 1, <<Specs("}")>>) ELSE Error(n + 1)
            [] next \notin {"}", "for"} /\ ~gotComma /\ ~top.first -> Error(n + 1)
            [] OTHER ->
                 CASE next \in Names \cup Strings \cup {"block"} ->
                        Go(n + 1, <<[at |-> "field", key |-> {next}, object |-> object]>>)
                   [] next = "[" ->
                        Go(n + 1, <<[at |-> "field name", object |-> object], Expression>>)
                   [] next = "local" -> Go(n + 1, <<Bind(top.binds, object)>>)
                   [] next = "assert" ->
                        Go(n + 1, <<[at |-> "object assert",
                                     object |-> [object EXCEPT !.asserts = TRUE]], Expression>>)
                   [] OTHER -> Error(n + 1)

FieldName ==
    /\ On("field name")
    /\ IF peek = "]" THEN Go(1, <<[at |-> "field", key |-> {}, object |-> top.object]>>)
       ELSE Error(1)

\* parseObjectAssignmentOp and what follows it up to the body.
FieldBody(isMethod) ==
    LET object == top.object
    IN IF \/ peek \notin {":", "::", "+:"}
          \/ peek = "+:" /\ isMethod
          \/ top.key \cap object.lits # {}
       THEN Error(1)
       ELSE Go(1, <<[object EXCEPT !.inField = TRUE,
                                   !.lits = @ \cup top.key,
                                   !.fields = IF @ = 0 THEN 1 ELSE 2,
                                   !.lone = top.key = {} /\ peek # "::"],
                    Expression>>)

Field ==
    /\ On("field")
    /\ IF peek = "(" THEN Go(1, <<[top EXCEPT !.at = "method"], Arguments>>)
       ELSE FieldBody(FALSE)
Method == On("method") /\ IF ret = "simple" THEN FieldBody(TRUE) ELSE Error(0)

ObjectAssert ==
    /\ On("object assert")
    /\ IF peek = ":" THEN Go(1, <<top.object, Expression>>) ELSE Go(0, <<top.object>>)
-----------------------------------------------------------------------------
(* parseTerminal.                                                           *)
Terminal ==
    /\ On("terminal")
    /\ CASE peek = "{" -> Go(1, <<Object>>)
         [] peek = "[" -> Go(1, <<At("array")>>)
         [] peek = "(" -> Go(1, <<Closing(")"), Expression>>)
         [] peek = "super" -> Go(1, <<At("super")>>)
         [] peek = "lit" -> Return(1, "node")
         [] peek = "block" -> Return(1, "block")
         [] peek \in Strings -> Return(1, "string")
         [] peek \in Names -> Return(1, "var")
         [] peek = "eof" -> GoWith(1, <<>>, "node") /\ Publish("end of file")
         [] OTHER -> Error(1)

Close == On("closing") /\ IF peek = top.end THEN Return(1, "node") ELSE Error(1)

Super ==
    /\ On("super")
    /\ CASE peek = "." /\ Ahead(1) \in Names -> Return(2, "node")
         [] peek = "." /\ Ahead(1) \notin Names -> Error(2)
         [] peek = "[" -> Go(1, <<Closing("]"), Expression>>)
         [] OTHER -> Error(1)
-----------------------------------------------------------------------------
(* An error on its way up.  It ends at the body of a bind or of a local,    *)
(* which becomes a Partial, and at the body of a field that the parser left *)
(* just before a comma or a semicolon.                                      *)
Failing == ~stopped /\ ret = "err" /\ Ready
Recovers == top.at \in {"bind body", "local"}

CatchBody ==
    /\ Failing /\ Recovers
    /\ IF BadPrev
       THEN /\ panicked' = TRUE
            /\ IF top.at = "local" THEN Publish("local body") ELSE Quiet
            /\ UNCHANGED <<dialect, tokens, cur, stack, ret>>
       ELSE /\ GoWith(0, <<top>>, "node")
            /\ Publish(IF top.at = "local" THEN "local body" ELSE "bind body")

FieldLeft == top.at = "object" /\ top.inField /\ peek \in {",", ";"}
\* Mutant: the parser tries the body of the field again.
CatchFieldAgain ==
    /\ Failing /\ FieldLeft
    /\ GoWith(-1, <<top, Expression>>, "-") /\ Publish("object body")
CatchField == Failing /\ FieldLeft /\ GoWith(-1, <<top>>, "node") /\ Publish("object body")

Propagate == Failing /\ ~Recovers /\ ~FieldLeft /\ Error(0)
-----------------------------------------------------------------------------
Init ==
    /\ dialect \in Dialects /\ tokens = dialect.begins
    /\ cur = 0 /\ stack = <<Expression>> /\ ret = "-" /\ diags = {} /\ panicked = FALSE

Parse ==
    \/ ParseAssert \/ AssertCond \/ AssertMessage \/ ParseError \/ ParseIf \/ IfCond
    \/ IfBranch \/ Wrap \/ ParseFunction \/ FunctionBody \/ ParseImport \/ ImportBody
    \/ ParseLocal \/ BindName \/ BindParameters \/ BindFunction \/ BindBody \/ NextBind
    \/ LocalBody \/ LocalEnd \/ ParseUnary \/ ParseOperand \/ OperandEnds \/ NotBinary
    \/ Binary \/ ApplyDot \/ ApplyIndex \/ ApplyCall \/ ApplyObject \/ Called \/ SliceStep
    \/ NextArgument \/ Argument \/ ArrayStart \/ FirstElement \/ Element \/ ForSpec \/ SpecEnd
    \/ NextField \/ FieldName \/ Field \/ Method \/ ObjectAssert
    \/ Terminal \/ Close \/ Super \/ CatchBody \/ CatchField \/ Propagate

Next == Reveal \/ Parse

Spec == Init /\ [][Next]_vars /\ WF_vars(Next)
-----------------------------------------------------------------------------
\* The type invariant.  Of the frames it says where they are in the code, and
\* of the cursor that nothing but an error takes it past the end of file.
Places ==
    {"parse", "operators", "assert cond", "assert message", "wrap", "if cond", "if branch",
     "function", "import", "local", "bind", "bind parameters", "bind =", "bind body", "bound",
     "local body", "slice", "called", "arguments", "argument", "array", "first element",
     "element", "for", "spec", "object", "field name", "field", "method", "object assert",
     "terminal", "closing", "super"}
Values == Nodes \cup {"simple", "complex", "-", "err"}
TypeOK ==
    /\ dialect \in Dialects
    /\ tokens \in Seq(Kinds \cup {"eof"})
    /\ \A i \in DOMAIN tokens : tokens[i] = "eof" => i = Len(tokens)
    /\ cur \in 0..(Len(tokens) + 1)
    /\ \A i \in DOMAIN stack : stack[i].at \in Places
    /\ ret \in Values
    /\ diags \subseteq Diagnostics
    /\ panicked \in BOOLEAN

\* The parser comes to an end on every text: no loop runs on at the end of
\* file, and the step back at the body of a field is made up for.
Terminates == <>stopped

\* A text that can be typed on never makes the parser panic (what parseBind
\* says of a body, that it "could be invalid in a completion event").
NoPanic == ~panicked
=============================================================================

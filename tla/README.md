# A TLA+ model of jsonnet-language-server

TLA+ modules, TLC configurations and TLAPS proofs for the language server in
`src/`. The code is the reference: every definition that models code is listed
under `map` in `PROJECT.json` with the lines it stands for.

Run a check with `tlc -config X.cfg M` and a proof with `tlapm M.tla`, in this
directory; `PROJECT.json` pairs each configuration with its module under `runs`.

## 1. The system

One process speaks JSON-RPC over stdin and stdout. `main.run` makes a `Handler`,
starts the connection (whose goroutine reads messages from that moment on) and
only then tells the handler its connection. Every message is handled to its end
before the next is read, but much of the work is started in other goroutines.

| component | state | operations | talks to |
|---|---|---|---|
| connection and request loop (`jsonrpc2.Conn`, `pkg/server/handler.go`) | pending calls, shutdown flag | `readMessages`, `Handle`, `Reply`, `Call`, `Notify` | client; every handler |
| configuration and documents (`pkg/config`) | texts by uri, lib paths, watchers | `StoreTextDocumentItem`, `Text`, `UpdateClientConfiguration`, `Watch`, `dispatch` | starts a goroutine per watcher and update |
| diagnostics pipeline (`document_processor.go`, `text_document_watcher.go`, `dispatcher.go`) | the connection, per edit a channel and a slice | `watch`, `Process`, its collector goroutine | parser, desugarer; notifies the client |
| node cache (`token/node_cache.go`, `updateNodeCache`) | entries by import name, a mutex | `UpdateNodeCache`, `Set`, `Get`, `Build` | file system, go-jsonnet, client notices |
| import collector (`token/import_collector.go`) | recursion over files | `Collect`, `ImportPath` | file system, lexer |
| locator (`token/locator.go`, `util/position`) | the node kept so far | `locateNode` | every query |
| evaluation scopes (`token/eval.go`, `token/scope.go`) | a map of variables per scope | `eval`, `LocationScope`, `GetInPath` | node cache; completion, hover, signatures |
| scope graph (`token/scope_graph.go`, `highlight.go`, `object.go`) | locations and references by identifier | `scanScope`, `refAt` | highlight, references |
| identify and hover (`token/identify.go`) | - | `Identify` | scopes, go-jsonnet |
| completion (`pkg/langserver`, `complete.go`, `match_handler.go`) | regular expressions with actions | `Match`, `handleIndex` | scopes, lib paths, texts |
| signature help, symbols | - | sequential walks over a tree | scopes |
| lexer, parser, desugarer, static analyzer | token cursor; the tree | `Lex`, `Parse`, `DesugarFile`, `Analyze` | diagnostics channel |
| protocol types, tracing, dumper, generated files | - | - | - |

What is hard, and what makes each component correct:

- *Diagnostics*: goroutines of different edits are not ordered; a goroutine reads
  a slice another one fills; lexer and parser errors leave by different paths; a
  panic in such a goroutine ends the process. Correct: what is published belongs
  to one edit, is complete, is published once, and a good edit is published.
- *Node cache*: files change between stat and build, runs overlap, a mutex is held
  through an evaluation. Correct: recorded times are never newer than what was
  built, entries never go backwards, an entry is fresh after an update, the client
  is told of completion only when all is cached, every update ends.
- *Import collector*: recursion over files that may be missing, unreadable or
  import each other. Correct: the result is the transitive closure.
- *Request loop*: handlers that panic, unknown methods, calls to the client that
  wait for responses only the loop can read. Correct: answers in order, none
  lost, no deadlock, lib paths announced.
- *Lexer*: operators are taken greedily and wound back, the cursor may step back
  once per rune and does not move at the end, text blocks and comments span lines.
  Correct: tokens and fodder are those of the lexical grammar, at their places.
- *Parser*: sixteen levels of operators, recovery in the middle of constructs.
  Correct: it takes the sentences of the grammar, and ends.
- *Desugarer, static analyzer, scope graph*: trees are rewritten in place, locals
  are cloned and moved, errors are dropped half way. Correct: what is rejected has
  a cause, no use of a variable changes its binding, every reference is found.
- *Locator and scopes*: boundaries of ranges, incomplete documents, two walks of
  one tree that visit different children, maps shared between scopes. Correct: the
  innermost node at a position; the lexical scope of that node.

The full list of hazards, with lines and the properties that cover each, is
`hazards` in `PROJECT.json`; those no property covers carry a note.

## 2. Modules

| module | models | checked by |
|---|---|---|
| `DiagnosticsService` | abstract: what an edit may lead to | property of `Diagnostics` |
| `Diagnostics` | from an edit to `publishDiagnostics` | `MCDiagnostics`, `DiagnosticsProofs` |
| `NodeCache` | `updateNodeCache`, `UpdateNodeCache`, `NodeCache.Set`, the file system | `MCNodeCache`, `NodeCacheProofs` |
| `ImportCollector` | `Collect` as a stack of calls | `MCImportCollector`, `ImportCollectorProofs` |
| `ServerLoop` | `readMessages`, `Handle`, `initialize`, `updateClientConfiguration`, `RegisterCapability` | `MCServerLoop`, `ServerLoopProofs` |
| `Positions` | comparisons of positions and ranges | through `Locator` |
| `Locator` | `locateNode` | `MCLocator`, `LocatorProofs` |
| `EvalScope` | `eval` and `LocationScope` | itself, `EvalScopeProofs` |
| `Parser` | `token.Parse` with its recovery, as a stack machine | `MCParser`, `ParserProofs` |
| `Grammar` | reference: the sentences the parser should take | through `MCParser` |
| `Lexer` | `token.Lex`, rune by rune | `MCLexer`, `LexerProofs` |
| `Pieces` | reference: what the tokens and the fodder of a text are | `MCLexer`, `LexerProofs` |
| `Ast`, `Documents` | nodes of a document; the trees the parser returns | through `ReadSource` |
| `Desugarer` | `token.DesugarFile` | through `ReadSource` |
| `StaticAnalyzer` | `static.Analyze` | through `ReadSource` |
| `ScopeGraph` | `scanScope`, the object mapper, `refAt` | through `ReadSource` |
| `ReadSource` | `ReadSource` and `Highlight`: the composition of the four | `MCReadSource` |

Definitions whose comment starts with "Mutant" are not part of a specification.
Each is a plausible mistake in the code, kept beside what it changes; put in its
place it must break a property (`mutants` in `PROJECT.json`), which shows that
the property says something about the code.

### Diagnostics

A job `j` is the goroutine of edit `j`; `pc[j]` is where it stands in `Process`,
`seen[j]` the connection it read. Its channel is `buffered[j]` (capacity 1) and
`closed[j]`, the collector goroutine is `collector[j]`, `collected[j]`.
`DidOpen` and `DidChange` are `StoreTextDocumentItem` with its dispatch; the
goroutine starts later. `SetConnBegin`/`SetConnEnd` split the racing write of the
interface in `SetConn`: a reader sees nil, a torn value (a call on it panics), or
the connection. How parsing a text ends is the constant `Outcome`; a panic
there makes `alive` false. A text that does not lex and one that does not parse end
differently: the lexer's error returns before the close of the channel is deferred.
`calm` remembers (for `ShownIsCurrent` only) which edits were made when no edit of
the same document was in process: for those the diagnostics shown are current, for
others an older goroutine may publish last.

`DiagnosticsService` has no goroutines: an edit is pending, told (completely, at
most once) or dropped for a listed excuse. `ImplementsService` maps `inbox`,
`edits` and, through `Standing`, the control state of the jobs to it.

### NodeCache

A run `w` is one `updateNodeCache`: `run[w]` holds the locals of the goroutine and
of `UpdateNodeCache`. One action is one read of the file system (a document, a
file of the deep collection, a stat, a file the evaluator reads), so writes
interleave with all of them. The mutex `mu` is held from `LockForBuild` to
`StoreEntry` or `BuildFail`. A run waits for it three times: in `Set`, and in the
`Keys` that `UpdateNodeCache` logs before the first and after the last import
(`KeysBefore`, `NoMoreImports`). `notice` is what the client has heard of the run. One
that fails after "is running" leaves it at that ("abandoned"): the error path
(handler.go:230) tells the client nothing. Nodes are abstracted to the modification times of
the files they were built from.

Assumptions: every write has its own modification time (the code compares
`time.Time`; equal times are a limit of file systems, not of this code); files are
written but not removed; imports are bare names without cycles (a cycle does not
get past `Collect`, see `ImportCollector`); the evaluator reads every import of
a file (a lazy import that is not evaluated is read later or never).

### ServerLoop

`loop`, `current` and `verdict` are the read loop and the message in `Handle`;
`calls` are the goroutines `Dispatch` starts for the watchers of the lib paths,
each in `RegisterCapability`. A method stands for all that end the same way:
"query" with a result, "failing" with an error, "lost" without an answer (it is
not in `operations`, or its handler panics). `initialize` comes first and once, as
the protocol demands. Its parameters may be absent (`Decode` panics, and no answer
comes), not decode (an error, before anything is watched), or decode, and then the
lib paths are watched whatever is wrong with the options.
`UpdateClientConfiguration` walks a map, so of two settings of which one is unknown,
either may come first, and an error may come with the lib paths applied: what is in
effect then is announced too. `LibPathsAnnounced` counts: two updates to the same
paths are two announcements. After an `initialize` that left no watcher nothing is
ever announced, which the property names. `Traffic` is what the client may send.

### ImportCollector

`stack` holds the calls of `Collect` in progress, with the imports handled and
the matches so far. The tokens of a file are abstracted to the names behind its
`import` keywords. Files do not change during a collection here (`NodeCache`
lets them). `MaxDepth` stands for the stack of the goroutine: when it is full Go
kills the process ("overflow").

### Positions, Locator

`Locator` chooses the nodes of a tree as they are visited, in preorder, with any
range of the instance or, as the desugarer leaves them, none. Of `analyzeVisit`
only the order matters. `Partial` nodes get the ranges the parser gives what is
missing.

### EvalScope

The tree is chosen node by node in preorder together with what `eval` does to it.
`scopes` are the Go maps by address: `Clone` makes a new one, `HandDown` shares.
"unread" nodes are those `eval` does not come to although the locator does.

### Parser, Grammar

`stack` holds the calls of the recursive descent that wait, each named for the place
in the code it is at; `ret` is what the last call returned, "err" while an error
climbs. Where `parse(16)` descends to `parse(0)` and then runs a loop of operators
at every level on the way back, `OperatorLoop(level, prec)` stands for the loops
still to run: an operator is taken by the one loop of its precedence, if it is among
them. `Bind` is shared by `parseBind` and the local of an object, which take the same
steps. Tokens are kinds; two names tell duplicates apart; `*`, `+` and `in` stand for
the operators of their precedences, `import` for `importstr` too. `Reveal` fixes the
next token when the parser first looks at it, which stands for every text at once. One
branch of the code is left out because nothing reaches it: the test for a
missing body (parse.go:265) follows a clamp that makes it false, so "local assignment is
missing" is never published.

`Grammar` says by recursion over spans what is a sentence, without a cursor, a stack or
precedences. `Sound` and `Complete` compare the two and name where they differ: `x["a"::]`
and everything else with an expression before `::` is rejected (the vendored parser has
a case for it that this one lacks), `import "a" + x` and `x in super.y` are cut short or
rejected, a string that reads `:` is taken for the colon of a slice, and a `local` with
nothing behind it is taken without a diagnostic. What follows a complete expression is
never looked at.

### Lexer

`cursor` is `pos` and `prev` of the lexer, `start` the position `TokenStart` and
`TokenStartLoc` are of, `fodder` what is kept for the next token. `at` is the place in
the code that asks for the next rune: the loop of `Lex`, a state of `lexNumber`, or
one of the inner loops. `Reveal` fixes the runes of the text when the lexer first
looks at them. A rune the lexer treats like another has a representative; `e'` is one
of two bytes. A position counts runes beside bytes, so that a token can be compared
with the text.

`Pieces` says what tokens are without a cursor (`RecognisesText`): tokens and fodder
follow each other without gaps, each is the longest piece of its kind that begins there
(an operator as the code winds it back),
its data are the runes the kind keeps, and Lex fails only where no piece of any kind
begins. It is all predicates on a text, no recursion, so that it can be proved. It names where the code differs from
what one may expect: an operator that would end in `+ - ~ !` is wound back to its
*first* rune, since the loop tests a rune it does not read again (lexer.go:671), so
`a==-1` is lexed with `=`, `=`, `-`; and a blank line that ends in a carriage return ends
a text block. `Located`, in `Lexer`, has lines and columns as numbers of runes, so that
it can be proved; columns count bytes, as the code does; the protocol counts
UTF-16 units.

### ReadSource: Ast, Documents, Desugarer, StaticAnalyzer, ScopeGraph

`Write` grows a document by constructs around a leaf, as the parser returns it;
`Desugar`, `AnalyzeTree` and `Scan` are the functions `ReadSource` and `Highlight` call,
each of which ends in a result, an error or a panic; `Highlight` is `refAt` at a
position in the reference `place`, or in none. A tree is a record: `kids` are the parts a walk goes through
in the order of the code, `ids` what a node binds, `at` its location (0 for what the
desugarer makes). Nodes all of whose readers only walk through their parts (arrays,
binary and unary operators, errors) are one kind. A function that a bind or a field
defines is its body from the start; the method of an object that was left as
parsed is visited once. `resolveIndex` gives up after a hundred steps, which no
document of the runs has. The locator in front of `refAt` is `Locator`: here the
position is in a node that was scanned.

The properties compare each stage with what is written in the document, by definitions
over the tree of the parser (`Uses`: lexical scoping; `Occurrences`: names and paths).
What they carve out is what the code leaves undone, and was found by them:

- the error of a call's target is ignored (desugar.go:339), the index of `super` and
  the target of an incomplete index are not desugared at all, so a `$` or a malformed
  string there goes unreported, and what stays as parsed panics the analyzer
  (static_analyzer.go:237) or the scan (scope_graph.go:437);
- `{b: 1, local a = x.,}` panics in `ast.Clone` (desugar.go:143), in a goroutine
  nobody recovers;
- the analyzer drops every error but the root's: a `self` outside of an object is never
  reported, and cuts the free variables of what is around it short;
- a `local` at the end of the text has no body and panics the analyzer;
- `{["a"]: 1}`, and a string key with an escape, panic the scan (scope_graph.go:278), as
  does an index of anything but a variable, a call or `self` (resolve_index.go:34);
  `self[0]` panics `lookup` (object.go:33);
- `refAt` answers with all references of a name, whatever they are bound to and
  whatever their paths, and not with the declaration; as the address of the loop
  variable is kept (Go before 1.22), the name need not be the one at the position when
  the document has several (scope_graph.go:120). `Highlights` says what is left:
  nothing where no reference lies, else the references of one name, the right one if
  there is no other. `HighlightsField` says what the one highlight test that is run
  expects, and is violated. A path from `self` is followed past its first step only
  where the field's body became a local.

## 3. Runs and bounds

| run | shows | bounds |
|---|---|---|
| `Diagnostics_all` | completeness, uniqueness, currency, leaks, progress, refinement | 2 overlapping edits, 7 texts (every outcome, 0 and 2 diagnostics), a rejected uri |
| `NodeCache_all` | times, freshness, order of builds, completion means cached, updates end | 2 runs, 1 write; 3 files, missing imports, garbled and failing files |
| `ServerLoop_all` | answers, order, calls, progress, announcements | 3 messages: an `initialize` of six outcomes, then updates of two lib paths and the other methods |
| `ImportCollector_all` | the closure; termination without cycles | 3 names, 2 directories, stack of 6 |
| `Locator_all` | innermost, within | 4 nodes, 2 lines of 2 columns |
| `EvalScope_all` | lexical scopes, causes of failure | 4 nodes, 1 variable, 1 import |
| `Parser_all` | parser against grammar, termination | 17 dialects of 5 to 9 kinds, 5 to 13 tokens |
| `Lexer_all` | lexer against the lexical grammar, locations, termination | 11 dialects of 3 to 5 runes, 5 to 12 runes |
| `ReadSource_all` | causes of rejection, bindings, free variables, references, highlights | 6 dialects of up to 43 constructs, 2 to 4 deep |

Why they are enough: jobs of `Diagnostics` touch each other only through `conn`,
`alive` and the inbox, so two show every interference, and two diagnostics exceed
the channel. Two runs of `NodeCache` are the least that contend for the mutex; the
interesting case is a write between a read and the next one of another run, which one
write gives; that recorded times, freshness and the order of builds hold for any number
of writes and runs is proved. Three messages of
`ServerLoop` hold an `initialize` whose call is out while two more are handled, which may
be updates to the same paths, to others, or one that fails half way.
Four nodes in two lines and columns give every way in which three ranges lie to
each other, with a Partial before, between or after. A scope that leaks needs a
binder, a sibling and a reader: three nodes. A dialect of `Parser` fixes how a text
begins and which tokens may follow, so that every construct is reached whole and every
pair that one call leaves to another (operators, arguments, elements, fields,
comprehensions, binds) is repeated at least once; `Complete` also reads on after an error
up to the bound `full`, since only the whole text can be a sentence. The dialects of `Lexer` have one
construct each with the runes that begin, continue and end it, and are long enough to
repeat it: a text block with two lines and a blank one, an operator that is wound
back and lexed again. In `ReadSource` every construct is put into every other (the
first dialect), and those that move bindings, paths or errors are nested three or four
deep; what one stage does to a node depends on its parents only through the level
of objects, what is bound and the object around it, which three levels vary.

Deadlock is not checked: a client may stop editing and a walk ends.

Runs that show a disagreement between the code and what it says of itself
(expected to be violated; details under `findings`):

| run | disagreement |
|---|---|
| `NodeCache_import` | an entry is not rebuilt when the imported file itself changes |
| `ReadSource_field` | at a step of a path into a local, the references of the local are highlighted, not the field |
| `Parser_panic` | an object left open in a local makes the parser panic |

Others were seen while modelling and have no run: those listed with `Lexer` and
`ReadSource` above; a deep collection of files that import each other recurses until the
stack is full (import_collector.go:57; `ReturnsWithoutCycle` says it ends otherwise);
a position in an argument of a call, an assert or the target of an incomplete index
gets the outermost scope, as `eval` does not come there (eval.go:175); `Handle` answers notifications
(handler.go:176); a Partial anywhere in a document captures every position
(locator.go:24); a text that does not lex, parse
or desugar leads to no notification, so the client keeps the diagnostics of an
older text (`Process`, document_processor.go:76, returns first); and with several
library directories `ImportPath` and the evaluator's importer search in opposite
orders, so the file that is dated need not be the file that is evaluated.

### Fairness

Weak fairness for each goroutine of `Diagnostics` and `NodeCache` and for the loop
and the callers of `ServerLoop`: the Go scheduler runs what is runnable. Strong
fairness for each wait for the mutex of the node cache, in `Keys` and in `Set`:
`sync.Mutex` hands over to a waiter that starved for a millisecond. In `ServerLoop` a client that stays answers the
calls it gets, as the protocol obliges it. Nothing is assumed of edits, writes,
hangups or the timer. `ImportCollector`, `Parser` and
`Lexer` are sequential computations that run to their end.

## 4. Proofs

All are theorems of the form `Spec => []P` or `Spec => [][A]_vars` or, for the
refinement, `Spec => ImplementsService`, for every value of the constants under the modules' named
assumptions.

- `DiagnosticsProofs`. `TypeCorrect`; `Completeness`, `AtMostOnce` and
  `LeaksAreLexErrors` rest on one inductive invariant that follows an edit
  through the channel: what the parser has sent is what the collector has taken
  plus what is buffered (when the goroutine saw a connection), a channel is
  closed exactly after the parser has returned, "done" means closed and empty,
  and a notification exists only for a job that has ended. `PublishedComplete`
  alone is not inductive: that nothing is left in the channel when `Notify` reads
  the slice is what must be carried along.
  `ShownAtRest` is about several edits of one document: it carries that the earlier
  edits of an edit made at rest have ended for good, that the server holds the text of
  the last edit, that a goroutine which ended with a connection has notified (while
  the client is there), and that after the notification for an edit made at rest only
  later edits of its document are notified. The greatest number in a set of
  edits exists because the numbers are bounded, by well-foundedness of `<`.
  `Implementation`, the refinement: the initial states correspond, and every step
  changes the standing of at most one edit, as `DiagnosticsService` allows, or of
  none. Besides the first invariant it needs that a goroutine which saw the
  whole connection saw it after `SetConn` was through: an edit dropped for want of
  a connection really had none.
- `NodeCacheProofs`. The inductive invariant says of every run what it may store: the
  times it has noted are not newer than the disk, what it has read of each file lies
  between the time noted and the disk, and is not older than any entry. The last
  part is kept because only the holder of the mutex builds. `TimesNotNewer` and
  `EntriesAdvance` are what remains of that when the run stores its node. Files,
  directories, writes and runs are arbitrary; imports need not be acyclic.
  `QuietUpdatesAreFresh` adds what a run knows while nothing is written: the times it
  has noted are those on the disk, and while it stands behind a stored entry any other
  run that builds has read the present files, so that an entry stored over it is as
  fresh. It has one hypothesis, `NoShadowing`: no two library directories hold a file of
  the same name. Without it the theorem is false, as TLC shows on three directories:
  with lib paths a, b, c, where b and c hold the same name, `ImportPath` dates the file
  in b and `Import` reads the one in c (`import_collector.go:82` searches forwards, the
  evaluator backwards), and a change of the latter is never noticed.
- `ServerLoopProofs`. The inductive invariant says what is in the wire: the requests
  the loop has not read are exactly those after the current one, in order. With it
  the next message read is the next one sent, which neither `AnswersInOrder` nor
  `NoAnswerLost` could carry by themselves. `ResponsesMatch` is inductive with the
  types: ids of calls are fresh, and no two of them lead to one goroutine.
- `ImportCollectorProofs`. `PartialCorrectness`: the matches of every call in
  progress contain what it has handled, are closed under imports except for
  what its callee is about to add, and lie in every closed set that contains
  the imports of its file. That gives the least fixed point without computing
  it, hence without recursion in the module. `NothingUnread` carries that each
  match was found and, in a deep collection, that its file lexes.
- `EvalScopeProofs`. `Lexically`: the scope that a node hands down is the lexical scope
  of a child of it, whatever siblings were visited before. `ScopeIsLexical` speaks of the
  nodes that have been visited, this of those to come; it is kept because `Clone` copies
  a scope before it is extended, so that no map is changed that another node holds. The
  nearest binder of an extended set of nodes is the new node or the old nearest one.
  `OnlyForACause` follows from it: what eval misses in its map nothing above binds.
- `LexerProofs`. `LocationsAreSound`: a position is in step with the text if its line
  and column are those of as many runes. `next` and `acceptN` keep it in step, the
  latter only over runes that are there, on one line and of one byte, so each of its
  uses needs what the code has looked at. The wind back of an operator keeps the line of
  its last rune, which is right only because the invariant has the operator on one
  line. That what follows is in the text, and in order, comes with it. `Reveal` changes
  no location, as those of the first n runes depend on these only.
  `TextRecognised`: at each place of the code, what has been read since the token or
  the fodder began is of a known shape (`Pending`): digits and then a point, a string
  whose last backslash has its rune, a comment that has not ended, an operator that has
  met no cut, lines that have the margin of the first. Each step of the code leads to
  another shape or to a piece, and what lies behind it stays filled (`Fills`; white
  space before the cursor may still grow, `Trails`). This invariant speaks of the
  rest of the text too: a number is a piece only if the rune after it does not go on
  with it. But the text of the model ends where the lexer has looked, and grows. So
  `ReadsEvery` says it of every text that continues the one looked at (`Continues`):
  `Reveal` only leaves fewer of them, and no other step changes which they are. That
  the pieces are unique, so that the code and the reference cannot mean different
  ones, is needed for text blocks (one header, one margin) and for runs of backslashes
  and quotes. An error is sound because each kind begins with runes of its own, and
  the one that fits has no end (`NumberStops`, `StringEnds` empty, `BlockMissing`).
  `LexMovesOn`: what `Returns` says without fairness. Every step lets the piece being
  read begin later, or moves the cursor on, or comes to a later place at the same rune;
  `Reveal` looks further into a bounded text. It needs `ReadsEvery`: a number or an
  identifier that is emitted has a rune, an operator wound back keeps its first, and
  the margin of a block is not empty.
- `ParserProofs`. `TypeCorrect`: that the cursor is at most one token past the end is
  not inductive, since most steps pop a token without asking whether one is left. The
  invariant carries that every call begins with a token to read, except at five places
  that only fail or go on at the end of file; that a value other than an error leaves
  the cursor in the text, and a list of arguments leaves a token behind it; and of the
  stack, which places wait for a value and which begin a call. For the step back at the
  body of a field it needs that the parser is not at the first token: a text that
  begins with a comma or a semicolon never gets as far as an object.
  `PassesTheEndFailing` says what the invariant means for `peekPrev`: past the end of
  file there is always an error on its way up. That the parser panics there is the
  finding of `Parser_panic`; the theorem says that it panics nowhere else.
- `LocatorProofs`. `InRangeIsBetween` and `SmallerKeepsPositions` are facts of
  ranges; `KeepsInnermost` and `KeepsWithin` carry how the kept node relates to
  the last Partial and to every node visited since.

Only model-checked: liveness, which is out of the prover's reach (of the lexer's
`Returns`, that Next is always taken while it can be), and what rests on
recursive definitions over texts and trees, where a proof would need induction over
data: `Sound` and `Complete` of the parser, and the properties of `ReadSource`.

## 5. Not modelled, and the plan

How lexing, parsing and desugaring end is a constant of `Diagnostics`, which `Lexer`,
`Parser` and `ReadSource` explain: every outcome is one they have.

Not modelled:

- completion (`complete.go`, the matcher, `Truncate`): what it proposes is data; the
  patterns are regular expressions, tried in the order of a map;
- identify and hover, which evaluate stubs with the vendored interpreter, and lookups
  along object paths (`GetInPath`, `findInPath`, `pathToLocation`);
- signature help and symbols: sequential walks over one tree; that a nil answer loses
  the request is a "lost" method of `ServerLoop`;
- what scopes of `scanScope` declare (`idMap`, `declMap`) and `refersTo`: no handler reads
  them; `static/desugar.go`, a copy of the desugarer that nothing calls;
- protocol types, tracing, the dumper and generated files, which have no behaviour of
  interest.

Order of work:

1. done: diagnostics, node cache, request loop, import collector, locator,
   evaluation scopes, parser, lexer, desugarer, static analyzer, scope graph;
2. object paths (`GetInPath`, `findInPath`, `identify`) at bounded depth, over the trees of
   `Documents`;
3. `Truncate` and the choice of completion between matched items and scope;
4. proofs: a measure that every step of `Parser` makes smaller, as `LexMovesOn` has for
   `Lexer`.

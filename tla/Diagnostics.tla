---------------------------- MODULE Diagnostics ----------------------------
(***************************************************************************)
(* From an edit of a text document to the diagnostics the client shows:    *)
(* config.StoreTextDocumentItem dispatches the document to the text        *)
(* document watcher in a goroutine of its own, the watcher reads its       *)
(* connection and runs PerformDiagnostics.Process, whose parser sends      *)
(* diagnostics over a channel of capacity 1 to a collector goroutine, and  *)
(* which publishes what was collected once the collector is done.          *)
(*                                                                         *)
(* Goroutines of different edits are not ordered in any way.  The write of *)
(* the connection in main races with their reads of it.                    *)
(***************************************************************************)
EXTENDS Naturals, Sequences

CONSTANTS
    Uris,        \* the documents the client edits
    Texts,       \* what a document may contain
    Outcome,     \* how parsing and desugaring a text ends
    NumDiags,    \* how many diagnostics the parser sends for a text
    BadUris,     \* the uris url.Parse rejects
    NoText,      \* a uri the server holds no text for
    MaxEdits     \* bound: edits the client makes

Outcomes == {"ok", "lexError", "parseError", "desugarError", "parsePanic", "desugarPanic"}

ASSUME OutcomeAssumption  == Outcome \in [Texts -> Outcomes]
ASSUME NumDiagsAssumption == NumDiags \in [Texts -> Nat]
ASSUME NoTextAssumption   == NoText \notin Texts
ASSUME BoundAssumption    == MaxEdits \in Nat

\* The parser is never reached, and nothing is sent, when the lexer fails.
ASSUME LexAssumption ==
    \A t \in Texts : Outcome[t] = "lexError" => NumDiags[t] = 0

VARIABLES
    \* the process
    alive,          \* FALSE once a goroutine panicked without recovering
    conn,           \* TextDocumentWatcher.conn, an interface of two words
    textDocuments,  \* Config.textDocuments: the text held for a uri
    \* the client
    online,         \* FALSE once it has disconnected
    open,           \* documents open in the editor
    edits,          \* every edit made, oldest first
    calm,           \* those made when no edit of the document was in process
    inbox,          \* publishDiagnostics notifications, in order of arrival
    \* the goroutine that processes edit j, and its locals
    pc, seen, emitted,
    \* the channel diagCh of edit j and the goroutine that drains it
    buffered, closed, collector, collected

procVars   == <<alive, conn>>
clientVars == <<online, open, edits, calm, textDocuments>>
chanVars   == <<buffered, closed, collector, collected>>
vars == <<procVars, clientVars, inbox, pc, seen, emitted, chanVars>>

Jobs == 1..MaxEdits
Edit == [uri : Uris, text : Texts]
Notice == [job : Jobs, count : Nat]

Finished == {"idle", "failed", "end"}
JobStates == Finished \cup {"queued", "lex", "parse", "desugar", "wait", "notify"}

TypeOK ==
    /\ alive \in BOOLEAN /\ online \in BOOLEAN
    /\ conn \in {"nil", "torn", "set"}
    /\ textDocuments \in [Uris -> Texts \cup {NoText}]
    /\ open \subseteq Uris
    /\ edits \in Seq(Edit) /\ Len(edits) <= MaxEdits
    /\ calm \subseteq Jobs
    /\ inbox \in Seq(Notice)
    /\ pc \in [Jobs -> JobStates]
    /\ seen \in [Jobs -> {"nil", "torn", "set"}]
    /\ emitted \in [Jobs -> Nat]
    /\ buffered \in [Jobs -> 0..1]
    /\ closed \in [Jobs -> BOOLEAN]
    /\ collector \in [Jobs -> {"none", "range", "done"}]
    /\ collected \in [Jobs -> Nat]

Init ==
    /\ alive = TRUE
    /\ online = TRUE
    /\ conn = "nil"
    /\ textDocuments = [u \in Uris |-> NoText]
    /\ open = {}
    /\ edits = <<>>
    /\ calm = {}
    /\ inbox = <<>>
    /\ pc = [j \in Jobs |-> "idle"]
    /\ seen = [j \in Jobs |-> "nil"]
    /\ emitted = [j \in Jobs |-> 0]
    /\ buffered = [j \in Jobs |-> 0]
    /\ closed = [j \in Jobs |-> FALSE]
    /\ collector = [j \in Jobs |-> "none"]
    /\ collected = [j \in Jobs |-> 0]

TextOf(j) == edits[j].text

\* Some goroutine is at work on an edit of the document.
InProcess(u) == \E j \in DOMAIN edits : edits[j].uri = u /\ pc[j] \notin Finished

----------------------------------------------------------------------------
(* main: NewConn starts reading messages before SetConn stores the         *)
(* connection, one word after the other and without synchronisation.       *)

SetConnBegin ==
    /\ alive /\ conn = "nil"
    /\ conn' = "torn"
    /\ UNCHANGED <<alive, clientVars, inbox, pc, seen, emitted, chanVars>>

SetConnEnd ==
    /\ alive /\ conn = "torn"
    /\ conn' = "set"
    /\ UNCHANGED <<alive, clientVars, inbox, pc, seen, emitted, chanVars>>

Disconnect ==
    /\ alive /\ online
    /\ online' = FALSE
    /\ UNCHANGED <<procVars, open, edits, calm, textDocuments, inbox, pc, seen, emitted, chanVars>>

----------------------------------------------------------------------------
(* The read loop: textDocument notifications.                              *)

\* Mutant: a text that is stored stays (StoreTextDocumentItem makes a copy of the
\* old document and changes the copy; storing the old one loses the new text).
StoreOldDocument(u, t) ==
    /\ alive /\ online
    /\ Len(edits) < MaxEdits
    /\ textDocuments' = [textDocuments EXCEPT ![u] = IF @ = NoText THEN t ELSE @]
    /\ edits' = Append(edits, [uri |-> u, text |-> t])
    /\ calm' = IF InProcess(u) THEN calm ELSE calm \cup {Len(edits) + 1}
    /\ pc' = [pc EXCEPT ![Len(edits) + 1] = "queued"]
    /\ UNCHANGED <<procVars, online, inbox, seen, emitted, chanVars>>

\* Config.StoreTextDocumentItem: replace the text and dispatch it; the
\* dispatcher starts one goroutine for its one watcher.
StoreTextDocumentItem(u, t) ==
    /\ alive /\ online
    /\ Len(edits) < MaxEdits
    /\ textDocuments' = [textDocuments EXCEPT ![u] = t]
    /\ edits' = Append(edits, [uri |-> u, text |-> t])
    /\ calm' = IF InProcess(u) THEN calm ELSE calm \cup {Len(edits) + 1}
    /\ pc' = [pc EXCEPT ![Len(edits) + 1] = "queued"]
    /\ UNCHANGED <<procVars, online, inbox, seen, emitted, chanVars>>

DidOpen(u, t) ==
    /\ u \notin open
    /\ open' = open \cup {u}
    /\ StoreTextDocumentItem(u, t)

DidChange(u, t) ==
    /\ u \in open
    /\ open' = open
    /\ StoreTextDocumentItem(u, t)

\* closeFile only calls NodeCache.Remove: the text stays.
DidClose(u) ==
    /\ alive /\ online /\ u \in open
    /\ open' = open \ {u}
    /\ UNCHANGED <<procVars, online, edits, calm, textDocuments, inbox, pc, seen, emitted, chanVars>>

----------------------------------------------------------------------------
(* The goroutine of edit j: TextDocumentWatcher.watch, then Process.       *)

At(j, label) == alive /\ pc[j] = label
Goto(j, label) == pc' = [pc EXCEPT ![j] = label]

\* The read of conn sees any of the words written so far.
ConnReads == CASE conn = "nil"  -> {"nil"}
               [] conn = "torn" -> {"nil", "torn"}
               [] conn = "set"  -> {"set"}

\* watch reads conn; Process returns at once for a uri it cannot parse, else
\* it makes the channels and starts the collector.
Watch(j) ==
    /\ At(j, "queued")
    /\ \E c \in ConnReads : seen' = [seen EXCEPT ![j] = c]
    /\ \/ /\ edits[j].uri \in BadUris
          /\ Goto(j, "failed")
          /\ collector' = collector
       \/ /\ edits[j].uri \notin BadUris
          /\ Goto(j, "lex")
          /\ collector' = [collector EXCEPT ![j] = "range"]
    /\ UNCHANGED <<procVars, clientVars, inbox, emitted, buffered, closed, collected>>

\* token.Parse returns a lexer error before it defers the close of diagCh.
Lex(j) ==
    /\ At(j, "lex")
    /\ Goto(j, IF Outcome[TextOf(j)] = "lexError" THEN "failed" ELSE "parse")
    /\ UNCHANGED <<procVars, clientVars, inbox, seen, emitted, chanVars>>

\* Mutant: a send does not wait for room in the channel.
PublishDiagNoWait(j) ==
    /\ At(j, "parse")
    /\ emitted[j] < NumDiags[TextOf(j)]
    /\ buffered' = [buffered EXCEPT ![j] = @ + 1]
    /\ emitted' = [emitted EXCEPT ![j] = @ + 1]
    /\ UNCHANGED <<procVars, clientVars, inbox, pc, seen, closed, collector, collected>>

\* mParser.publishDiag: a send that waits while the channel is full.
PublishDiag(j) ==
    /\ At(j, "parse")
    /\ emitted[j] < NumDiags[TextOf(j)]
    /\ buffered[j] = 0
    /\ buffered' = [buffered EXCEPT ![j] = 1]
    /\ emitted' = [emitted EXCEPT ![j] = @ + 1]
    /\ UNCHANGED <<procVars, clientVars, inbox, pc, seen, closed, collector, collected>>

\* Mutant: the channel is closed after a successful parse, not by defer.
ParseReturnNoDefer(j) ==
    /\ At(j, "parse")
    /\ emitted[j] = NumDiags[TextOf(j)]
    /\ \/ /\ Outcome[TextOf(j)] = "parsePanic"
          /\ alive' = FALSE
          /\ UNCHANGED <<pc, closed>>
       \/ /\ Outcome[TextOf(j)] = "parseError"
          /\ Goto(j, "failed")
          /\ UNCHANGED <<alive, closed>>
       \/ /\ Outcome[TextOf(j)] \in {"ok", "desugarError", "desugarPanic"}
          /\ Goto(j, "desugar")
          /\ closed' = [closed EXCEPT ![j] = TRUE]
          /\ alive' = alive
    /\ UNCHANGED <<conn, clientVars, inbox, seen, emitted, buffered, collector, collected>>

\* The parser returns or panics; its deferred close runs when it returns.
\* Nothing recovers a panic of this goroutine, so the process dies of it.
ParseReturn(j) ==
    /\ At(j, "parse")
    /\ emitted[j] = NumDiags[TextOf(j)]
    /\ closed' = [closed EXCEPT ![j] = TRUE]
    /\ \/ /\ Outcome[TextOf(j)] = "parsePanic"
          /\ alive' = FALSE
          /\ pc' = pc
       \/ /\ Outcome[TextOf(j)] = "parseError"
          /\ Goto(j, "failed")
          /\ alive' = alive
       \/ /\ Outcome[TextOf(j)] \in {"ok", "desugarError", "desugarPanic"}
          /\ Goto(j, "desugar")
          /\ alive' = alive
    /\ UNCHANGED <<conn, clientVars, inbox, seen, emitted, buffered, collector, collected>>

\* Mutant: the error of DesugarFile is ignored.
DesugarFileUnchecked(j) ==
    /\ At(j, "desugar")
    /\ \/ /\ Outcome[TextOf(j)] \in {"ok", "desugarError"}
          /\ Goto(j, "wait")
          /\ alive' = alive
       \/ /\ Outcome[TextOf(j)] = "desugarPanic"
          /\ alive' = FALSE
          /\ pc' = pc
    /\ UNCHANGED <<conn, clientVars, inbox, seen, emitted, chanVars>>

\* convertToNode desugars what was parsed.
DesugarFile(j) ==
    /\ At(j, "desugar")
    /\ \/ /\ Outcome[TextOf(j)] = "ok"
          /\ Goto(j, "wait")
          /\ alive' = alive
       \/ /\ Outcome[TextOf(j)] = "desugarError"
          /\ Goto(j, "failed")
          /\ alive' = alive
       \/ /\ Outcome[TextOf(j)] = "desugarPanic"
          /\ alive' = FALSE
          /\ pc' = pc
    /\ UNCHANGED <<conn, clientVars, inbox, seen, emitted, chanVars>>

\* Mutant: Process does not wait for done.
AwaitNothing(j) ==
    /\ At(j, "wait")
    /\ Goto(j, IF seen[j] = "nil" THEN "end" ELSE "notify")
    /\ UNCHANGED <<procVars, clientVars, inbox, seen, emitted, chanVars>>

\* <-done: closed by the collector when it has drained the channel.
AwaitDone(j) ==
    /\ At(j, "wait")
    /\ collector[j] = "done"
    /\ Goto(j, IF seen[j] = "nil" THEN "end" ELSE "notify")
    /\ UNCHANGED <<procVars, clientVars, inbox, seen, emitted, chanVars>>

\* Mutant: a notification is sent again although it went out.
NotifyAgain(j) ==
    /\ At(j, "notify")
    /\ \/ /\ seen[j] = "torn"
          /\ alive' = FALSE
          /\ UNCHANGED <<pc, inbox>>
       \/ /\ seen[j] = "set" /\ online
          /\ inbox' = Append(inbox, [job |-> j, count |-> collected[j]])
          /\ UNCHANGED <<alive, pc>>
       \/ /\ seen[j] = "set" /\ ~online
          /\ Goto(j, "end")
          /\ UNCHANGED <<alive, inbox>>
    /\ UNCHANGED <<conn, clientVars, seen, emitted, chanVars>>

\* conn.Notify: a torn interface has a nil receiver, which panics; once the
\* client is gone the error is logged and Process returns.
Notify(j) ==
    /\ At(j, "notify")
    /\ \/ /\ seen[j] = "torn"
          /\ alive' = FALSE
          /\ UNCHANGED <<pc, inbox>>
       \/ /\ seen[j] = "set" /\ online
          /\ inbox' = Append(inbox, [job |-> j, count |-> collected[j]])
          /\ Goto(j, "end")
          /\ alive' = alive
       \/ /\ seen[j] = "set" /\ ~online
          /\ Goto(j, "end")
          /\ UNCHANGED <<alive, inbox>>
    /\ UNCHANGED <<conn, clientVars, seen, emitted, chanVars>>

----------------------------------------------------------------------------
(* The collector goroutine of edit j.                                      *)

\* The body of the range over diagCh.
Collect(j) ==
    /\ alive
    /\ collector[j] = "range" /\ buffered[j] = 1
    /\ buffered' = [buffered EXCEPT ![j] = 0]
    /\ collected' = IF seen[j] = "nil"
                      THEN collected
                      ELSE [collected EXCEPT ![j] = @ + 1]
    /\ UNCHANGED <<procVars, clientVars, inbox, pc, seen, emitted, closed, collector>>

\* Mutant: done is closed only when there was something to collect.
CloseDoneIfAny(j) ==
    /\ alive
    /\ collector[j] = "range" /\ buffered[j] = 0 /\ closed[j]
    /\ collected[j] > 0
    /\ collector' = [collector EXCEPT ![j] = "done"]
    /\ UNCHANGED <<procVars, clientVars, inbox, pc, seen, emitted, buffered, closed, collected>>

\* The channel is closed and drained: close(done).
CloseDone(j) ==
    /\ alive
    /\ collector[j] = "range" /\ buffered[j] = 0 /\ closed[j]
    /\ collector' = [collector EXCEPT ![j] = "done"]
    /\ UNCHANGED <<procVars, clientVars, inbox, pc, seen, emitted, buffered, closed, collected>>

----------------------------------------------------------------------------
Main == SetConnBegin \/ SetConnEnd

Process(j) == \/ Watch(j) \/ Lex(j) \/ PublishDiag(j) \/ ParseReturn(j)
              \/ DesugarFile(j) \/ AwaitDone(j) \/ Notify(j)

Collector(j) == Collect(j) \/ CloseDone(j)

Client == \/ Disconnect
          \/ \E u \in Uris : DidClose(u)
          \/ \E u \in Uris, t \in Texts : DidOpen(u, t) \/ DidChange(u, t)

Next == Main \/ Client \/ \E j \in Jobs : Process(j) \/ Collector(j)

\* The Go scheduler runs every goroutine; what the client does is its choice.
Fairness == /\ WF_vars(Main)
            /\ \A j \in Jobs : WF_vars(Process(j)) /\ WF_vars(Collector(j))

Spec == Init /\ [][Next]_vars /\ Fairness
----------------------------------------------------------------------------
(* Properties.                                                             *)

\* The text of edit j parses and desugars.
Good(j) == Outcome[TextOf(j)] = "ok"

\* What is published for an edit is everything the parser found in that
\* edit's text, of a text that parses and desugars: waiting for done makes the
\* collector's slice complete before Process reads it.
PublishedComplete ==
    \A i \in DOMAIN inbox :
        LET j == inbox[i].job
        IN  /\ j \in DOMAIN edits
            /\ Good(j)
            /\ inbox[i].count = NumDiags[TextOf(j)]

\* No edit is published twice, however the goroutines interleave.
PublishedOnce ==
    \A i, k \in DOMAIN inbox : inbox[i].job = inbox[k].job => i = k

\* What the client sees of a document at rest are the diagnostics of the very
\* text the server holds, if the last edit was good, was processed with a
\* connection, and was made when no earlier edit of that document was in process.
\* (Otherwise an earlier edit's goroutine may publish last.)
ShownIsCurrent ==
    alive /\ online => \A u \in Uris :
        LET mine == {k \in DOMAIN edits : edits[k].uri = u}
            last == CHOOSE k \in mine : \A m \in mine : m <= k
            told == {i \in DOMAIN inbox : edits[inbox[i].job].uri = u}
            top  == CHOOSE i \in told : \A m \in told : m <= i
        IN  /\ mine # {} /\ ~InProcess(u)
            /\ last \in calm /\ pc[last] = "end" /\ seen[last] = "set"
            => /\ told # {}
               /\ inbox[top].job = last
               /\ textDocuments[u] = TextOf(last)

\* A collector that nobody will ever release is left behind by one kind of
\* text only: those the lexer rejects.
LeakOnlyOnLexError ==
    \A j \in Jobs :
        pc[j] \in {"failed", "end"} /\ collector[j] = "range" /\ ~closed[j]
            => Outcome[TextOf(j)] = "lexError"

Serving == alive /\ online

\* Every good edit of a well-formed uri that was seen with a connection reaches
\* the client, unless the client leaves or another goroutine kills the server.
GoodEditsPublished ==
    \A j \in Jobs :
        (pc[j] = "lex" /\ Good(j) /\ seen[j] = "set")
            ~> (~Serving \/ \E i \in DOMAIN inbox : inbox[i].job = j)

\* The collector of an edit the lexer accepts ends: no goroutine is leaked.
CollectorsEnd ==
    \A j \in Jobs :
        (pc[j] = "parse") ~> (~alive \/ collector[j] = "done")
----------------------------------------------------------------------------
(* The abstract service this pipeline implements.                          *)

\* Where an edit stands for the client: an edit whose goroutine saw no
\* connection is dropped from that moment on.
Standing(j) ==
    IF \E i \in DOMAIN inbox : inbox[i].job = j THEN "told"
    ELSE IF \/ pc[j] \in {"failed", "end"}
            \/ pc[j] # "queued" /\ seen[j] = "nil" THEN "dropped"
    ELSE "pending"

Service == INSTANCE DiagnosticsService
             WITH told <- inbox, linked <- (conn = "set"),
                  state <- [j \in DOMAIN edits |-> Standing(j)]

\* Process and its collector implement DiagnosticsService: an edit is told
\* once and completely, or dropped for one of the excuses listed there.
ImplementsService == Service!Safety

============================================================================

----------------------------- MODULE ServerLoop -----------------------------
(***************************************************************************)
(* The connection of the server: jsonrpc2.Conn reads one message at a time *)
(* and runs Handler.Handle to its end before the next; what Config         *)
(* dispatches to its watchers runs in goroutines of its own, which call    *)
(* the client (client/registerCapability) and wait for a response that     *)
(* only the read loop can deliver.                                         *)
(*                                                                         *)
(* A method stands for all methods that end the same way.  Messages sent   *)
(* by the server carry the position of what they answer, for the           *)
(* properties only.                                                        *)
(***************************************************************************)
EXTENDS Naturals, Sequences, FiniteSets

CONSTANTS
    LibPaths,     \* values of the jsonnet.libPaths setting
    NoPaths,      \* no value yet
    FirstId,      \* the id of the client's first request
    Traffic,      \* the requests and notifications the client chooses from
    MaxMessages   \* bound: how many of them it sends

ASSUME PathsAssumption == NoPaths \notin LibPaths
ASSUME BoundAssumption == FirstId \in Nat /\ MaxMessages \in Nat

\* initialize and updateClientConfiguration with options of which
\*   "paths": jsonnet.libPaths is the only setting,
\*   "mixed": it comes with an unknown setting,
\*   "wrong": no setting can be applied, or they are no settings at all,
\*   "empty": there is no setting.
Settings  == {"paths", "mixed", "wrong", "empty"}
\* The parameters of initialize may also not decode, or be absent.
Unread    == {"garbled", "absent"}
\* All other methods: with a result, with an error, or without any answer ("lost":
\* not in operations, or a handler that panics, as some do at a nil answer or at
\* a didChange without changes).  An updateClientConfiguration that does not
\* decode is one of "failing".
Others    == {"query", "failing", "lost"}
Setup     == [op : {"initialize"}, options : Settings \cup Unread, paths : LibPaths]
Configure == [op : {"configure"}, options : Settings, paths : LibPaths]
Plain     == [op : Others]
Methods   == Setup \cup Configure \cup Plain

ASSUME TrafficAssumption == Traffic \subseteq [notif : BOOLEAN, method : Methods]

\* The handler panics, or there is none.
Silent(m) == m.op = "lost" \/ (m.op = "initialize" /\ m.options = "absent")

VARIABLES
    \* the client
    sent,       \* requests and notifications, in order: [notif, method]
    hungup,     \* it closed its end
    answered,   \* positions in toClient of the calls it has responded to
    \* the wires
    toServer,   \* unread: positions of sent, and responses to calls
    toClient,   \* all the server sent
    \* the server: the read loop with the message it handles
    loop, current, verdict,
    \* jsonrpc2.Conn.pending and seq, the shutdown flag
    pending, seq, shutdown,
    \* Config
    libPaths, watchers,
    \* one goroutine per watcher and update of the lib paths
    calls

client == <<sent, hungup, answered>>
server == <<loop, current, verdict>>
conn   == <<pending, seq, shutdown>>
config == <<libPaths, watchers>>
vars == <<client, toServer, toClient, server, conn, config, calls>>

Request(p) == [kind |-> "request", pos |-> p]
Response(id) == [kind |-> "response", id |-> id]

IsRequest(p) == ~sent[p].notif
\* The ID of a notification is the zero value of jsonrpc2.ID.
IdOf(p) == IF IsRequest(p) THEN FirstId + p - 1 ELSE 0

TypeOK ==
    /\ sent \in Seq([notif : BOOLEAN, method : Methods]) /\ Len(sent) <= MaxMessages
    /\ hungup \in BOOLEAN /\ shutdown \in BOOLEAN
    /\ answered \subseteq DOMAIN toClient
    /\ loop \in {"read", "handle", "reply", "ended"}
    /\ current \in 0..Len(sent)
    /\ verdict \in {"none", "result", "error"}
    /\ seq \in Nat /\ DOMAIN pending \subseteq 0..seq-1
    /\ \A id \in DOMAIN pending : pending[id] \in DOMAIN calls
    /\ libPaths \in LibPaths \cup {NoPaths} /\ watchers \in Nat
    /\ \A i \in DOMAIN calls :
          /\ calls[i].state \in {"queued", "waiting", "done", "failed"}
          /\ calls[i].paths \in LibPaths

Init ==
    /\ sent = <<>> /\ hungup = FALSE /\ answered = {}
    /\ toServer = <<>> /\ toClient = <<>>
    /\ loop = "read" /\ current = 0 /\ verdict = "none"
    /\ pending = [x \in {} |-> 0] /\ seq = 0 /\ shutdown = FALSE
    /\ libPaths = NoPaths /\ watchers = 0
    /\ calls = <<>>

----------------------------------------------------------------------------
(* The client: initialize comes first and once.                            *)

Send(notif, m) ==
    /\ ~hungup
    /\ Len(sent) < MaxMessages
    /\ (m.op = "initialize") <=> (sent = <<>>)
    /\ m.op = "initialize" => ~notif
    /\ sent' = Append(sent, [notif |-> notif, method |-> m])
    /\ toServer' = Append(toServer, Request(Len(sent) + 1))
    /\ UNCHANGED <<hungup, answered, toClient, server, conn, config, calls>>

Answer(i) ==
    /\ ~hungup
    /\ i \in DOMAIN toClient \ answered
    /\ toClient[i].kind = "call"
    /\ answered' = answered \cup {i}
    /\ toServer' = Append(toServer, Response(toClient[i].id))
    /\ UNCHANGED <<sent, hungup, toClient, server, conn, config, calls>>

Hangup ==
    /\ ~hungup
    /\ hungup' = TRUE
    /\ UNCHANGED <<sent, answered, toServer, toClient, server, conn, config, calls>>

----------------------------------------------------------------------------
(* Conn.readMessages.                                                      *)

\* Mutant: handlers wait for the calls they cause (Dispatch without goroutines).
LoopFreeOfCalls ==
    loop = "read" /\ \A i \in DOMAIN calls : calls[i].state \in {"done", "failed"}

\* The loop reads when the handler of the previous message has returned.
LoopFree == loop = "read"

ReadRequest ==
    /\ LoopFree
    /\ toServer # <<>> /\ Head(toServer).kind = "request"
    /\ toServer' = Tail(toServer)
    /\ current' = Head(toServer).pos
    /\ loop' = "handle"
    /\ UNCHANGED <<client, toClient, verdict, conn, config, calls>>

\* The call that waits for a response is done; a response nobody waits for is
\* ignored.
Woken(id) == IF id \in DOMAIN pending
               THEN [calls EXCEPT ![pending[id]].state = "done"] ELSE calls

\* Mutant: the call stays pending.
ReadResponseKeepsCall ==
    /\ LoopFree
    /\ toServer # <<>> /\ Head(toServer).kind = "response"
    /\ toServer' = Tail(toServer)
    /\ calls' = Woken(Head(toServer).id)
    /\ UNCHANGED <<client, toClient, server, conn, config>>

ReadResponse ==
    /\ LoopFree
    /\ toServer # <<>> /\ Head(toServer).kind = "response"
    /\ toServer' = Tail(toServer)
    /\ calls' = Woken(Head(toServer).id)
    /\ pending' = [x \in DOMAIN pending \ {Head(toServer).id} |-> pending[x]]
    /\ UNCHANGED <<client, toClient, server, seq, shutdown, config>>

\* End of input: every pending call gets an error; main exits afterwards.
EndOfInput ==
    /\ LoopFree
    /\ hungup /\ toServer = <<>>
    /\ loop' = "ended" /\ shutdown' = TRUE
    /\ calls' = [i \in DOMAIN calls |->
                   IF \E id \in DOMAIN pending : pending[id] = i
                     THEN [calls[i] EXCEPT !.state = "failed"] ELSE calls[i]]
    /\ UNCHANGED <<client, toServer, toClient, current, verdict, pending, seq, config>>

----------------------------------------------------------------------------
(* Handler.Handle.                                                         *)

\* Config.UpdateClientConfiguration ranges over a map: with an unknown setting
\* beside the lib paths, either may come first.  An update of the lib paths is
\* dispatched to the watchers, a goroutine each.
Applied(p) ==
    /\ libPaths' = p
    /\ calls' = calls \o [i \in 1..watchers' |->
                            [state |-> "queued", paths |-> p, id |-> 0]]

UpdateClientConfiguration(options, p) ==
    \/ options = "paths" /\ Applied(p) /\ verdict' = "result"
    \/ options = "mixed" /\ Applied(p) /\ verdict' = "error"
    \/ options \in {"mixed", "wrong"} /\ UNCHANGED <<libPaths, calls>> /\ verdict' = "error"
    \/ options = "empty" /\ UNCHANGED <<libPaths, calls>> /\ verdict' = "result"

Method == sent[current].method

\* Mutant: initialize applies its options before it watches the lib paths.
HandleInitializeThenWatch ==
    /\ loop = "handle" /\ Method.op = "initialize" /\ ~Silent(Method)
    /\ IF Method.options = "garbled" THEN UNCHANGED watchers ELSE watchers' = watchers + 1
    /\ libPaths' = IF Method.options \in {"paths", "mixed"} THEN Method.paths ELSE libPaths
    /\ verdict' = IF Method.options \in {"paths", "empty"} THEN "result" ELSE "error"
    /\ loop' = "reply"
    /\ UNCHANGED <<client, toServer, toClient, current, conn, calls>>

\* initialize watches the lib paths before it applies its options, once it has
\* decoded its parameters.
HandleInitialize ==
    /\ loop = "handle" /\ Method.op = "initialize" /\ ~Silent(Method)
    /\ \/ /\ Method.options = "garbled"
          /\ verdict' = "error"
          /\ UNCHANGED <<config, calls>>
       \/ /\ Method.options \in Settings
          /\ watchers' = watchers + 1
          /\ UpdateClientConfiguration(Method.options, Method.paths)
    /\ loop' = "reply"
    /\ UNCHANGED <<client, toServer, toClient, current, conn>>

\* updateClientConfiguration shows an error before it returns it.
HandleConfigure ==
    /\ loop = "handle" /\ Method.op = "configure"
    /\ watchers' = watchers
    /\ UpdateClientConfiguration(Method.options, Method.paths)
    /\ toClient' = IF verdict' = "error"
                     THEN Append(toClient, [kind |-> "showMessage"]) ELSE toClient
    /\ loop' = "reply"
    /\ UNCHANGED <<client, toServer, current, conn>>

\* Mutant: no reply when the operation returns an error.
HandlePlainSwallowsErrors ==
    /\ loop = "handle" /\ Method.op \in {"query", "failing"}
    /\ verdict' = IF Method.op = "query" THEN "result" ELSE "none"
    /\ loop' = IF Method.op = "query" THEN "reply" ELSE "read"
    /\ UNCHANGED <<client, toServer, toClient, current, conn, config, calls>>

\* The operation returns a result or an error.
HandlePlain ==
    /\ loop = "handle" /\ Method.op \in {"query", "failing"}
    /\ verdict' = IF Method.op = "query" THEN "result" ELSE "error"
    /\ loop' = "reply"
    /\ UNCHANGED <<client, toServer, toClient, current, conn, config, calls>>

\* Handle returns without a reply: the method is not in operations, or its
\* handler panicked and Handle recovered (as Decode does at absent parameters).
HandleSilently ==
    /\ loop = "handle" /\ Silent(Method)
    /\ loop' = "read"
    /\ UNCHANGED <<client, toServer, toClient, current, verdict, conn, config, calls>>

\* Mutant: no return after ReplyWithError.
ReplyTwice ==
    /\ loop = "reply"
    /\ toClient' = toClient
         \o (IF verdict = "error"
               THEN <<[kind |-> "error", id |-> IdOf(current), pos |-> current]>> ELSE <<>>)
         \o <<[kind |-> "result", id |-> IdOf(current), pos |-> current]>>
    /\ loop' = "read" /\ verdict' = "none"
    /\ UNCHANGED <<client, toServer, current, conn, config, calls>>

\* ReplyWithError and return, or Reply: for a notification too.
Reply ==
    /\ loop = "reply"
    /\ toClient' = Append(toClient, [kind |-> verdict, id |-> IdOf(current), pos |-> current])
    /\ loop' = "read" /\ verdict' = "none"
    /\ UNCHANGED <<client, toServer, current, conn, config, calls>>

----------------------------------------------------------------------------
(* Goroutine i of Dispatcher.Dispatch: request.RegisterCapability.         *)

\* Mutant: seq is not incremented.
CallReusesId(i) ==
    /\ calls[i].state = "queued"
    /\ ~shutdown
    /\ calls' = [calls EXCEPT ![i].state = "waiting", ![i].id = seq]
    /\ pending' = [x \in DOMAIN pending \cup {seq} |-> IF x = seq THEN i ELSE pending[x]]
    /\ toClient' = Append(toClient, [kind |-> "call", id |-> seq, paths |-> calls[i].paths])
    /\ UNCHANGED <<client, toServer, server, seq, shutdown, config>>

\* Conn.send registers the call before it writes it; after shutdown it fails.
Call(i) ==
    /\ calls[i].state = "queued"
    /\ \/ /\ ~shutdown
          /\ calls' = [calls EXCEPT ![i].state = "waiting", ![i].id = seq]
          /\ pending' = [x \in DOMAIN pending \cup {seq} |->
                           IF x = seq THEN i ELSE pending[x]]
          /\ seq' = seq + 1
          /\ toClient' = Append(toClient, [kind |-> "call", id |-> seq, paths |-> calls[i].paths])
       \/ /\ shutdown
          /\ calls' = [calls EXCEPT ![i].state = "failed"]
          /\ UNCHANGED <<pending, seq, toClient>>
    /\ UNCHANGED <<client, toServer, server, shutdown, config>>

----------------------------------------------------------------------------
Loop == \/ ReadRequest \/ ReadResponse \/ EndOfInput
        \/ HandleInitialize \/ HandleConfigure \/ HandlePlain \/ HandleSilently
        \/ Reply

Next == \/ \E msg \in Traffic : Send(msg.notif, msg.method)
        \/ \E i \in DOMAIN toClient : Answer(i)
        \/ Hangup
        \/ Loop
        \/ \E i \in DOMAIN calls : Call(i)

\* The loop and the goroutines run; a client that stays answers the calls it
\* gets (LSP obliges it).  It owes neither requests nor a hangup.
Fairness == /\ WF_vars(Loop)
            /\ WF_vars(\E i \in DOMAIN calls : Call(i))
            /\ WF_vars(\E i \in DOMAIN toClient : Answer(i))

Spec == Init /\ [][Next]_vars /\ Fairness

----------------------------------------------------------------------------
(* Properties.                                                             *)

Replies == {i \in DOMAIN toClient : toClient[i].kind \in {"result", "error"}}
RepliedTo(p) == \E i \in Replies : toClient[i].pos = p

\* No message is answered twice, and answers come in the order in which the
\* client sent what they answer, also while calls of the server are out.
RepliesInOrder ==
    \A i, k \in Replies : i < k => toClient[i].pos < toClient[k].pos

\* Once the loop has moved on, a request without an answer is one whose
\* handler panicked or whose method is unknown: nothing else loses an answer.
SilenceIsExcused ==
    \A p \in DOMAIN sent :
        /\ p < current \/ (p = current /\ loop \in {"read", "ended"})
        /\ IsRequest(p)
        => RepliedTo(p) \/ Silent(sent[p].method)

\* A response goes to the call it belongs to: of the calls in the wire, the
\* waiting ones are exactly those in pending, under their own ids.
PendingMatches ==
    /\ \A id \in DOMAIN pending : calls[pending[id]].id = id
    /\ ~shutdown => {pending[id] : id \in DOMAIN pending}
                       = {i \in DOMAIN calls : calls[i].state = "waiting"}

\* Every call of the server ends: the loop is free to read the response, because
\* no handler waits for a call.  (With a bounded client the server comes to rest.)
CallsFinish == []<>(\A i \in DOMAIN calls : calls[i].state \in {"done", "failed"})

\* Whatever the client sends is handled, however many calls of the server are out.
Handled(p) == current > p \/ (current = p /\ loop \in {"read", "ended"})
RequestsHandled == []<>(\A p \in DOMAIN sent : Handled(p))

\* To a client that stays, the lib paths in effect are announced, also when they
\* came with a request that failed half way, and every update that succeeded has an
\* announcement of its own, that of initialize included: its watcher is there before
\* its options are applied.  An initialize that does not get as far leaves no watcher.
Announcements(p) == {i \in DOMAIN toClient : toClient[i].kind = "call" /\ toClient[i].paths = p}
Updates(p) == {k \in DOMAIN sent : /\ Handled(k)
                                   /\ sent[k].method.op \in {"initialize", "configure"}
                                   /\ sent[k].method.options = "paths"
                                   /\ sent[k].method.paths = p}
LibPathsAnnounced ==
    []<>(\/ shutdown \/ watchers = 0
         \/ \A p \in LibPaths :
               /\ libPaths = p => Announcements(p) # {}
               /\ Cardinality(Announcements(p)) >= Cardinality(Updates(p)))
============================================================================

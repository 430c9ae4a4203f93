-------------------------- MODULE ServerLoopProofs --------------------------
(***************************************************************************)
(* Theorems about ServerLoop, for any number of messages, watchers and     *)
(* calls and every set of lib paths.                                       *)
(***************************************************************************)
EXTENDS ServerLoop, SequenceTheorems, TLAPS

\* What travels on the wires, and the goroutines that call the client.
ToServer == [kind : {"request"}, pos : Nat] \cup [kind : {"response"}, id : Nat]
ToClient == [kind : {"result", "error"}, id : Int, pos : Nat]
              \cup [kind : {"call"}, id : Nat, paths : LibPaths]
              \cup [kind : {"showMessage"}]
Caller   == [state : {"queued", "waiting", "done", "failed"}, paths : LibPaths, id : Nat]
Message  == [notif : BOOLEAN, method : Methods]

Typed ==
    /\ TypeOK
    /\ toServer \in Seq(ToServer)
    /\ toClient \in Seq(ToClient)
    /\ calls \in Seq(Caller)

\* A message that is handled was sent, and has a verdict when it is answered.
LoopInv ==
    /\ loop \in {"handle", "reply"} => current \in DOMAIN sent
    /\ loop = "reply" => verdict # "none"

\* The requests in the wire are those sent since the current one, in order.
QueueInv ==
    /\ \A i \in DOMAIN toServer :
          toServer[i].kind = "request" => toServer[i].pos \in current + 1..Len(sent)
    /\ \A i, k \in DOMAIN toServer :
          toServer[i].kind = "request" /\ toServer[k].kind = "request" /\ i < k
             => toServer[i].pos < toServer[k].pos
    /\ \A p \in current + 1..Len(sent) :
          \E i \in DOMAIN toServer : toServer[i] = Request(p)

----------------------------------------------------------------------------
(* Sequences.                                                              *)

LEMMA Appended ==
  ASSUME NEW S, NEW s \in Seq(S), NEW e \in S
  PROVE  /\ Append(s, e) \in Seq(S)
         /\ Len(Append(s, e)) = Len(s) + 1
         /\ DOMAIN Append(s, e) = DOMAIN s \cup {Len(s) + 1}
         /\ \A i \in DOMAIN s : Append(s, e)[i] = s[i]
         /\ Append(s, e)[Len(s) + 1] = e
  BY AppendProperties

LEMMA Beheaded ==
  ASSUME NEW S, NEW s \in Seq(S), s # <<>>
  PROVE  /\ Head(s) \in S /\ Head(s) = s[1] /\ 1 \in DOMAIN s
         /\ Tail(s) \in Seq(S)
         /\ \A i \in DOMAIN Tail(s) : i + 1 \in DOMAIN s /\ Tail(s)[i] = s[i + 1]
         /\ \A i \in DOMAIN s : i # 1 => i - 1 \in DOMAIN Tail(s) /\ Tail(s)[i - 1] = s[i]
  BY HeadTailProperties

LEMMA Replaced ==
  ASSUME NEW S, NEW s \in Seq(S), NEW i \in DOMAIN s, NEW e \in S
  PROVE  /\ [s EXCEPT ![i] = e] \in Seq(S)
         /\ DOMAIN [s EXCEPT ![i] = e] = DOMAIN s
<1>1. s \in [1..Len(s) -> S] /\ DOMAIN s = 1..Len(s) /\ Len(s) \in Nat
  OBVIOUS
<1>2. [s EXCEPT ![i] = e] \in [1..Len(s) -> S]
  BY <1>1
<1>3. QED
  BY <1>1, <1>2

\* A goroutine changes its state, or its state and the id of its call.
LEMMA CallMoved ==
  ASSUME calls \in Seq(Caller), NEW i \in DOMAIN calls,
         NEW st \in {"queued", "waiting", "done", "failed"}, NEW id \in Nat
  PROVE  /\ [calls EXCEPT ![i].state = st] \in Seq(Caller)
         /\ DOMAIN [calls EXCEPT ![i].state = st] = DOMAIN calls
         /\ [calls EXCEPT ![i].state = st, ![i].id = id] \in Seq(Caller)
         /\ DOMAIN [calls EXCEPT ![i].state = st, ![i].id = id] = DOMAIN calls
<1>1. calls[i] \in Caller
  OBVIOUS
<1>2. [calls[i] EXCEPT !.state = st] \in Caller
  BY <1>1 DEF Caller
<1>3. [calls[i] EXCEPT !.state = st, !.id = id] \in Caller
  BY <1>1 DEF Caller
<1>4. [calls EXCEPT ![i].state = st] = [calls EXCEPT ![i] = [calls[i] EXCEPT !.state = st]]
  OBVIOUS
<1>5. [calls EXCEPT ![i].state = st, ![i].id = id]
        = [calls EXCEPT ![i] = [calls[i] EXCEPT !.state = st, !.id = id]]
  OBVIOUS
<1>6. QED
  BY <1>2, <1>3, <1>4, <1>5, Replaced

\* An update of the lib paths leaves the calls there were and adds queued ones.
LEMMA CallsAdded ==
  ASSUME calls \in Seq(Caller), NEW n \in Nat, NEW p \in LibPaths
  PROVE  LET new == calls \o [i \in 1..n |-> [state |-> "queued", paths |-> p, id |-> 0]]
         IN  /\ new \in Seq(Caller)
             /\ DOMAIN calls \subseteq DOMAIN new
             /\ \A i \in DOMAIN calls : new[i] = calls[i]
             /\ \A i \in DOMAIN new \ DOMAIN calls : new[i].state = "queued"
<1> DEFINE q == [state |-> "queued", paths |-> p, id |-> 0]
           add == [i \in 1..n |-> q]
<1>1. q \in Caller
  BY DEF Caller
<1>2. add \in Seq(Caller) /\ Len(add) = n
  BY <1>1
<1>3. /\ calls \o add \in Seq(Caller)
      /\ Len(calls \o add) = Len(calls) + Len(add)
      /\ \A i \in 1..Len(calls) + Len(add) :
            (calls \o add)[i] = IF i <= Len(calls) THEN calls[i] ELSE add[i - Len(calls)]
  BY <1>2, ConcatProperties
<1>4. QED
  BY <1>1, <1>2, <1>3

----------------------------------------------------------------------------
(* Type correctness.                                                       *)

\* What the client sends is a notification or a request of some method.
LEMMA Sending ==
  ASSUME NEW msg \in Traffic, Send(msg.notif, msg.method)
  PROVE  \E notif \in BOOLEAN, m \in Methods : Send(notif, m)
<1>1. msg.notif \in BOOLEAN /\ msg.method \in Methods
  BY TrafficAssumption
<1>2. QED
  BY <1>1

LEMMA TypeInit == Init => Typed /\ LoopInv /\ QueueInv
<1> SUFFICES ASSUME Init PROVE Typed /\ LoopInv /\ QueueInv
  OBVIOUS
<1>1. /\ toServer \in Seq(ToServer) /\ toClient \in Seq(ToClient) /\ calls \in Seq(Caller)
      /\ sent \in Seq(Message) /\ Len(sent) = 0 /\ DOMAIN calls = {} /\ DOMAIN pending = {}
      /\ DOMAIN toServer = {}
  BY DEF Init
<1>2. TypeOK
  <2>1. sent \in Seq([notif : BOOLEAN, method : Methods]) /\ Len(sent) <= MaxMessages
    BY <1>1, BoundAssumption DEF Message
  <2>2. /\ answered \subseteq DOMAIN toClient /\ seq \in Nat /\ current \in 0..Len(sent)
        /\ DOMAIN pending \subseteq 0..seq-1
    BY <1>1 DEF Init
  <2>3. /\ hungup \in BOOLEAN /\ shutdown \in BOOLEAN /\ loop = "read" /\ verdict = "none"
        /\ libPaths = NoPaths /\ watchers \in Nat
    BY DEF Init
  <2>4. QED
    BY <1>1, <2>1, <2>2, <2>3 DEF TypeOK
<1>3. LoopInv /\ QueueInv
  BY <1>1 DEF Init, LoopInv, QueueInv
<1>4. QED
  BY <1>1, <1>2, <1>3 DEF Typed

\* An update of the configuration adds calls; it leaves what it cannot change.
LEMMA Configured ==
  ASSUME Typed, NEW o \in Settings, NEW p \in LibPaths, watchers' \in Nat,
         UpdateClientConfiguration(o, p)
  PROVE  /\ verdict' \in {"result", "error"}
         /\ libPaths' \in LibPaths \cup {NoPaths}
         /\ calls' \in Seq(Caller)
         /\ DOMAIN calls \subseteq DOMAIN calls'
         /\ \A i \in DOMAIN calls : calls'[i] = calls[i]
         /\ \A i \in DOMAIN calls' \ DOMAIN calls : calls'[i].state = "queued"
<1>1. CASE Applied(p)
  <2>1. libPaths' = p
    BY <1>1 DEF Applied
  <2>2. calls' = calls \o [i \in 1..watchers' |-> [state |-> "queued", paths |-> p, id |-> 0]]
    BY <1>1 DEF Applied
  <2>3. calls \in Seq(Caller)
    BY DEF Typed
  <2>4. QED
    BY <2>1, <2>2, <2>3, CallsAdded DEF UpdateClientConfiguration
<1>2. CASE UNCHANGED <<libPaths, calls>>
  BY <1>2 DEF UpdateClientConfiguration, Typed, TypeOK
<1>3. QED
  BY <1>1, <1>2 DEF UpdateClientConfiguration

\* initialize and updateClientConfiguration.
LEMMA HandledSetup ==
  ASSUME Typed, LoopInv, HandleInitialize \/ HandleConfigure
  PROVE  /\ loop = "handle" /\ loop' = "reply"
         /\ verdict' \in {"result", "error"}
         /\ libPaths' \in LibPaths \cup {NoPaths} /\ watchers' \in Nat
         /\ calls' \in Seq(Caller)
         /\ DOMAIN calls \subseteq DOMAIN calls'
         /\ \A i \in DOMAIN calls : calls'[i] = calls[i]
         /\ \A i \in DOMAIN calls' \ DOMAIN calls : calls'[i].state = "queued"
         /\ toClient' = toClient \/ toClient' = Append(toClient, [kind |-> "showMessage"])
         /\ UNCHANGED <<client, toServer, current, conn>>
<1>1. sent[current] \in Message
  <2>1. sent \in Seq(Message) /\ current \in DOMAIN sent
    BY DEF HandleInitialize, HandleConfigure, LoopInv, Typed, TypeOK, Message
  <2>2. QED
    BY ONLY <2>1
<1>2. Method.options \in Settings \cup Unread /\ Method.paths \in LibPaths
  <2>1. Method \in Methods
    BY <1>1 DEF Method, Message
  <2>2. Method.op \notin Others
    BY DEF HandleInitialize, HandleConfigure, Others
  <2>3. Method \in Setup \cup Configure
    BY <2>1, <2>2 DEF Methods, Plain
  <2>4. QED
    BY <2>3 DEF Setup, Configure
<1>3. /\ loop = "handle" /\ loop' = "reply"
      /\ toClient' = toClient \/ toClient' = Append(toClient, [kind |-> "showMessage"])
      /\ UNCHANGED <<client, toServer, current, conn>>
  BY DEF HandleInitialize, HandleConfigure
<1>4. CASE Method.options \in Settings
  <2>1. watchers' \in Nat /\ UpdateClientConfiguration(Method.options, Method.paths)
    BY <1>4 DEF HandleInitialize, HandleConfigure, Typed, TypeOK, Settings
  <2>2. QED
    BY <1>2, <1>3, <1>4, <2>1, Configured
<1>5. CASE Method.options \notin Settings
  <2>1. ~HandleConfigure
    <3>1. ASSUME HandleConfigure PROVE Method \in Configure
      <4>1. Method \in Methods /\ Method.op = "configure"
        BY <1>1, <3>1 DEF Method, Message, HandleConfigure
      <4>2. QED
        BY <4>1 DEF Methods, Setup, Plain, Others
    <3>2. QED
      BY <1>5, <3>1 DEF Configure
  <2>2. verdict' = "error" /\ UNCHANGED <<config, calls>>
    BY <1>5, <2>1 DEF HandleInitialize
  <2>3. QED
    BY <1>3, <2>2 DEF config, Typed, TypeOK
<1>6. QED
  BY <1>4, <1>5

LEMMA TypeStep == Typed /\ LoopInv /\ QueueInv /\ [Next]_vars => Typed' /\ LoopInv'
<1> SUFFICES ASSUME Typed, LoopInv, QueueInv, [Next]_vars PROVE Typed' /\ LoopInv'
  OBVIOUS
<1> USE DEF Typed, TypeOK, LoopInv, client, server, conn, config
<1>1. ASSUME NEW notif \in BOOLEAN, NEW m \in Methods, Send(notif, m)
      PROVE  Typed' /\ LoopInv'
  <2>1. /\ Request(Len(sent) + 1) \in ToServer
        /\ [notif |-> notif, method |-> m] \in Message
        /\ sent \in Seq(Message)
    BY DEF Request, ToServer, Message
  <2>2. sent' = Append(sent, [notif |-> notif, method |-> m]) /\ toServer' \in Seq(ToServer)
    BY <1>1, <2>1 DEF Send
  <2>3. sent' \in Seq(Message) /\ Len(sent') = Len(sent) + 1 /\ DOMAIN sent \subseteq DOMAIN sent'
    BY <2>1, <2>2, Appended
  <2>4. QED
    BY <1>1, <2>2, <2>3, BoundAssumption DEF Send, Message
<1>2. ASSUME NEW i \in DOMAIN toClient, Answer(i) PROVE Typed' /\ LoopInv'
  <2>1. toClient[i] \in ToClient /\ toClient[i].kind = "call"
    BY <1>2 DEF Answer
  <2>2. toClient[i].id \in Nat
    BY <2>1 DEF ToClient
  <2>3. Response(toClient[i].id) \in ToServer
    BY <2>2 DEF Response, ToServer
  <2>4. toServer' \in Seq(ToServer)
    BY <1>2, <2>3 DEF Answer
  <2>5. QED
    BY <1>2, <2>4 DEF Answer
<1>3. CASE Hangup
  BY <1>3 DEF Hangup
<1>4. CASE ReadRequest
  <2>1. /\ toServer' \in Seq(ToServer) /\ Head(toServer) = toServer[1]
        /\ 1 \in DOMAIN toServer
    BY <1>4, Beheaded DEF ReadRequest
  <2>2. current' \in current + 1..Len(sent)
    BY <1>4, <2>1 DEF ReadRequest, QueueInv
  <2>3. current' \in DOMAIN sent
    BY <2>2
  <2>4. QED
    BY <1>4, <2>1, <2>3 DEF ReadRequest
<1>5. CASE ReadResponse
  <2>1. toServer' \in Seq(ToServer)
    BY <1>5, Beheaded DEF ReadResponse
  <2>2. calls' \in Seq(Caller) /\ DOMAIN calls' = DOMAIN calls
    <3> DEFINE id == Head(toServer).id
    <3>1. CASE id \in DOMAIN pending
      <4>1. calls' = [calls EXCEPT ![pending[id]].state = "done"] /\ pending[id] \in DOMAIN calls
        BY <1>5, <3>1 DEF ReadResponse, Woken
      <4> HIDE DEF id
      <4>2. QED
        BY ONLY <4>1, CallMoved, calls \in Seq(Caller), 0 \in Nat
    <3>2. QED
      BY <1>5, <3>1 DEF ReadResponse, Woken
  <2>3. DOMAIN pending' \subseteq DOMAIN pending /\ \A id \in DOMAIN pending' : pending'[id] = pending[id]
    BY <1>5 DEF ReadResponse
  <2>4. \A i \in DOMAIN calls' : calls'[i] \in Caller
    BY <2>2
  <2>5. QED
    BY <1>5, <2>1, <2>2, <2>3, <2>4 DEF ReadResponse, Caller
<1>6. CASE EndOfInput
  <2>1. DOMAIN calls' = DOMAIN calls /\ \A i \in DOMAIN calls : calls'[i] \in Caller
    <3>1. \A i \in DOMAIN calls : calls[i] \in Caller
      OBVIOUS
    <3>2. \A c \in Caller : [c EXCEPT !.state = "failed"] \in Caller
      BY ONLY DEF Caller
    <3>3. \A i \in DOMAIN calls :
             calls'[i] = [calls[i] EXCEPT !.state = "failed"] \/ calls'[i] = calls[i]
      BY <1>6 DEF EndOfInput
    <3>4. DOMAIN calls' = DOMAIN calls
      BY <1>6 DEF EndOfInput
    <3>5. QED
      BY ONLY <3>1, <3>2, <3>3, <3>4
  <2>2. calls' \in Seq(Caller)
    <3>1. calls' \in [1..Len(calls) -> Caller]
      BY <1>6, <2>1 DEF EndOfInput
    <3>2. QED
      BY <3>1
  <2>3. QED
    BY <1>6, <2>1, <2>2 DEF EndOfInput, Caller
<1>7. CASE HandleInitialize \/ HandleConfigure
  <2>1. toClient' \in Seq(ToClient) /\ DOMAIN toClient \subseteq DOMAIN toClient'
    <3> DEFINE notice == [kind |-> "showMessage"]
    <3>1. notice \in ToClient
      BY DEF ToClient
    <3>2. toClient' = toClient \/ toClient' = Append(toClient, notice)
      BY <1>7, HandledSetup
    <3> HIDE DEF notice
    <3>3. QED
      BY ONLY <3>1, <3>2, Appended, toClient \in Seq(ToClient)
  <2>2. \A i \in DOMAIN calls' : calls'[i] \in Caller
    BY <1>7, HandledSetup
  <2>3. QED
    BY <1>7, <2>1, <2>2, HandledSetup DEF Caller
<1>8. CASE HandlePlain \/ HandleSilently
  BY <1>8 DEF HandlePlain, HandleSilently
<1>9. CASE Reply
  <2> DEFINE answer == [kind |-> verdict, id |-> IdOf(current), pos |-> current]
  <2>1. answer \in ToClient
    BY <1>9, BoundAssumption DEF Reply, ToClient, IdOf
  <2>2. toClient' \in Seq(ToClient) /\ DOMAIN toClient \subseteq DOMAIN toClient'
    <3>1. toClient' = Append(toClient, answer)
      BY <1>9 DEF Reply
    <3> HIDE DEF answer
    <3>2. QED
      BY <2>1, <3>1, Appended
  <2>3. QED
    BY <1>9, <2>2 DEF Reply
<1>10. ASSUME NEW i \in DOMAIN calls, Call(i) PROVE Typed' /\ LoopInv'
  <2>1. CASE shutdown
    <3>1. calls' = [calls EXCEPT ![i].state = "failed"] /\ UNCHANGED <<pending, seq, toClient>>
      BY <1>10, <2>1 DEF Call
    <3>3. calls' \in Seq(Caller) /\ DOMAIN calls' = DOMAIN calls
      BY ONLY <3>1, CallMoved, calls \in Seq(Caller), i \in DOMAIN calls, 0 \in Nat
    <3>4. \A k \in DOMAIN calls' : calls'[k] \in Caller
      BY <3>3
    <3>5. QED
      BY <1>10, <3>1, <3>3, <3>4 DEF Call, Caller
  <2>2. CASE ~shutdown
    <3>1. /\ calls' = [calls EXCEPT ![i].state = "waiting", ![i].id = seq]
          /\ toClient' = Append(toClient, [kind |-> "call", id |-> seq, paths |-> calls[i].paths])
          /\ seq' = seq + 1
          /\ pending' = [x \in DOMAIN pending \cup {seq} |-> IF x = seq THEN i ELSE pending[x]]
      BY <1>10, <2>2 DEF Call
    <3>3. calls' \in Seq(Caller) /\ DOMAIN calls' = DOMAIN calls
      BY ONLY <3>1, CallMoved, calls \in Seq(Caller), i \in DOMAIN calls, seq \in Nat
    <3>4. \A k \in DOMAIN calls' : calls'[k] \in Caller
      BY <3>3
    <3>5. [kind |-> "call", id |-> seq, paths |-> calls[i].paths] \in ToClient
      BY DEF ToClient, Caller
    <3>6. toClient' \in Seq(ToClient) /\ DOMAIN toClient \subseteq DOMAIN toClient'
      BY <3>1, <3>5, Appended
    <3>7. DOMAIN pending' \subseteq 0..seq'-1 /\ seq' \in Nat
      BY <3>1
    <3>8. \A x \in DOMAIN pending' : pending'[x] \in DOMAIN calls'
      BY <3>1, <3>3
    <3>9. \A k \in DOMAIN calls' :
             calls'[k].state \in {"queued", "waiting", "done", "failed"}
             /\ calls'[k].paths \in LibPaths
      BY ONLY <3>4 DEF Caller
    <3>10. UNCHANGED <<sent, hungup, shutdown, answered, toServer, loop, current, verdict,
                       libPaths, watchers>>
      BY <1>10 DEF Call
    <3>11. TypeOK'
      BY <3>6, <3>7, <3>8, <3>9, <3>10
    <3>12. QED
      BY <3>3, <3>6, <3>10, <3>11
  <2>3. QED
    BY <2>1, <2>2
<1>11. CASE UNCHANGED vars
  BY <1>11 DEF vars
<1>12. QED
  BY <1>1, <1>2, <1>3, <1>4, <1>5, <1>6, <1>7, <1>8, <1>9, <1>10, <1>11, Sending DEF Next, Loop

----------------------------------------------------------------------------
(* The queue: what the loop reads next is the next request.                *)

LEMMA NextIsNext ==
  ASSUME Typed, QueueInv, ReadRequest
  PROVE  current' = current + 1 /\ current' \in 1..Len(sent) /\ toServer[1] = Request(current')
<1>1. toServer \in Seq(ToServer) /\ current \in 0..Len(sent) /\ Len(sent) \in Nat
  BY DEF Typed, TypeOK
<1>2. /\ 1 \in DOMAIN toServer /\ toServer[1] = Head(toServer) /\ toServer[1] \in ToServer
      /\ toServer[1].kind = "request" /\ current' = toServer[1].pos
  BY <1>1, Beheaded DEF ReadRequest
<1>3. current' \in current + 1..Len(sent)
  BY <1>2 DEF QueueInv
<1>4. PICK i \in DOMAIN toServer : toServer[i] = Request(current + 1)
  BY <1>1, <1>3 DEF QueueInv
<1>5. toServer[i].kind = "request" /\ toServer[i].pos = current + 1
  BY <1>4 DEF Request
<1>6. i # 1 => current' < current + 1
  BY <1>1, <1>2, <1>4, <1>5 DEF QueueInv
<1>7. i = 1
  BY <1>1, <1>3, <1>6
<1>8. QED
  BY <1>1, <1>2, <1>3, <1>4, <1>5, <1>7

LEMMA QueueStep == Typed /\ LoopInv /\ QueueInv /\ [Next]_vars => QueueInv'
<1> SUFFICES ASSUME Typed, LoopInv, QueueInv, [Next]_vars PROVE QueueInv'
  OBVIOUS
<1>a. /\ toServer \in Seq(ToServer) /\ current \in 0..Len(sent)
      /\ sent \in Seq(Message) /\ Len(sent) \in Nat
  BY DEF Typed, TypeOK, Message
<1>1. ASSUME NEW notif \in BOOLEAN, NEW m \in Methods, Send(notif, m) PROVE QueueInv'
  <2> DEFINE r == Request(Len(sent) + 1)
             message == [notif |-> notif, method |-> m]
  <2>1. r \in ToServer /\ r.kind = "request" /\ r.pos = Len(sent) + 1
    BY <1>a DEF Request, ToServer
  <2>2. message \in Message
    BY DEF Message
  <2>3. toServer' = Append(toServer, r) /\ sent' = Append(sent, message) /\ current' = current
    BY <1>1 DEF Send, server
  <2> HIDE DEF message
  <2>4. Len(sent') = Len(sent) + 1
    BY <1>a, <2>2, <2>3, Appended
  <2>5. r = Request(Len(sent'))
    BY <2>4
  <2> HIDE DEF r
  <2>6. /\ DOMAIN toServer' = DOMAIN toServer \cup {Len(toServer) + 1}
        /\ \A i \in DOMAIN toServer : toServer'[i] = toServer[i]
        /\ toServer'[Len(toServer) + 1] = r
    BY <1>a, <2>1, <2>3, Appended
  <2>7. \A i \in DOMAIN toServer : i \in Nat /\ i < Len(toServer) + 1
    BY <1>a
  <2>8. \A i \in DOMAIN toServer' : toServer'[i].kind = "request"
                                    => toServer'[i].pos \in current' + 1..Len(sent')
    BY <1>a, <2>1, <2>3, <2>4, <2>6 DEF QueueInv
  <2>9. \A i, k \in DOMAIN toServer' :
           toServer'[i].kind = "request" /\ toServer'[k].kind = "request" /\ i < k
             => toServer'[i].pos < toServer'[k].pos
    BY <1>a, <2>1, <2>6, <2>7 DEF QueueInv
  <2>10. \A p \in current' + 1..Len(sent') :
            \E i \in DOMAIN toServer' : toServer'[i] = Request(p)
    <3> TAKE p \in current' + 1..Len(sent')
    <3>1. CASE p = Len(sent')
      BY <2>5, <2>6, <3>1
    <3>2. CASE p # Len(sent')
      BY <1>a, <2>3, <2>4, <2>6, <3>2 DEF QueueInv
    <3>3. QED
      BY <3>1, <3>2
  <2>11. QED
    BY <2>8, <2>9, <2>10 DEF QueueInv
<1>2. ASSUME NEW j \in DOMAIN toClient, Answer(j) PROVE QueueInv'
  <2> DEFINE r == Response(toClient[j].id)
  <2>1. r \in ToServer /\ r.kind = "response"
    <3>1. toClient[j] \in ToClient /\ toClient[j].kind = "call"
      BY <1>2 DEF Answer, Typed
    <3>2. toClient[j].id \in Nat
      BY <3>1 DEF ToClient
    <3>3. QED
      BY <3>2 DEF Response, ToServer
  <2>2. toServer' = Append(toServer, r) /\ UNCHANGED <<sent, current>>
    BY <1>2 DEF Answer, server
  <2> HIDE DEF r
  <2>3. /\ DOMAIN toServer' = DOMAIN toServer \cup {Len(toServer) + 1}
        /\ \A i \in DOMAIN toServer : toServer'[i] = toServer[i]
        /\ toServer'[Len(toServer) + 1] = r
    BY <1>a, <2>1, <2>2, Appended
  <2>4. QED
    BY <2>1, <2>2, <2>3 DEF QueueInv
<1>3. CASE ReadRequest \/ ReadResponse
  <2>1. /\ toServer # <<>> /\ toServer' = Tail(toServer) /\ sent' = sent
        /\ ReadResponse => current' = current
    BY <1>3 DEF ReadRequest, ReadResponse, client, server
  <2>2. /\ 1 \in DOMAIN toServer /\ Head(toServer) = toServer[1]
        /\ \A i \in DOMAIN toServer' : i + 1 \in DOMAIN toServer /\ toServer'[i] = toServer[i + 1]
        /\ \A i \in DOMAIN toServer :
              i # 1 => i - 1 \in DOMAIN toServer' /\ toServer'[i - 1] = toServer[i]
    BY ONLY <1>a, <2>1, Beheaded
  <2>3. \A i \in DOMAIN toServer : i \in Nat
    BY <1>a
  <2>4. \A i \in DOMAIN toServer' : i \in Nat /\ 1 < i + 1
    <3>1. toServer' \in Seq(ToServer)
      BY ONLY <1>a, <2>1, Beheaded
    <3>2. QED
      BY <3>1
  <2>5. CASE ReadRequest
    <3>1. current' = current + 1 /\ toServer[1] = Request(current')
      BY <2>5, NextIsNext
    <3>2. toServer[1].kind = "request" /\ toServer[1].pos = current + 1
      BY <3>1 DEF Request
    <3>3. \A i \in DOMAIN toServer' : toServer'[i].kind = "request"
                                     => toServer'[i].pos \in current' + 1..Len(sent')
      <4> SUFFICES ASSUME NEW i \in DOMAIN toServer', toServer'[i].kind = "request"
                   PROVE  toServer'[i].pos \in current' + 1..Len(sent')
        OBVIOUS
      <4>1. toServer[i + 1].kind = "request" /\ i + 1 \in DOMAIN toServer
        BY <2>2
      <4>2. toServer[i + 1].pos \in current + 1..Len(sent) /\ current + 1 < toServer[i + 1].pos
        BY <2>2, <2>4, <3>2, <4>1 DEF QueueInv
      <4>3. QED
        BY <1>a, <2>1, <2>2, <3>1, <4>2
    <3>4. \A i, k \in DOMAIN toServer' :
             toServer'[i].kind = "request" /\ toServer'[k].kind = "request" /\ i < k
               => toServer'[i].pos < toServer'[k].pos
      BY <2>2, <2>4 DEF QueueInv
    <3>5. \A p \in current' + 1..Len(sent') :
             \E i \in DOMAIN toServer' : toServer'[i] = Request(p)
      <4> TAKE p \in current' + 1..Len(sent')
      <4>1. PICK i \in DOMAIN toServer : toServer[i] = Request(p)
        BY <1>a, <2>1, <3>1 DEF QueueInv
      <4>2. i # 1
        BY <1>a, <3>1, <3>2, <4>1 DEF Request
      <4>3. QED
        BY <2>2, <4>1, <4>2
    <3>6. QED
      BY <3>3, <3>4, <3>5 DEF QueueInv
  <2>6. CASE ReadResponse
    <3>1. toServer[1].kind = "response"
      BY <2>2, <2>6 DEF ReadResponse
    <3>2. \A p : toServer[1] # Request(p)
      BY <3>1 DEF Request
    <3>3. current' = current /\ sent' = sent
      BY <2>1, <2>6
    <3>4. \A i \in DOMAIN toServer' : toServer'[i].kind = "request"
                                     => toServer'[i].pos \in current' + 1..Len(sent')
      BY <2>2, <3>3 DEF QueueInv
    <3>5. \A i, k \in DOMAIN toServer' :
             toServer'[i].kind = "request" /\ toServer'[k].kind = "request" /\ i < k
               => toServer'[i].pos < toServer'[k].pos
      BY <2>2, <2>4 DEF QueueInv
    <3>6. \A p \in current' + 1..Len(sent') :
             \E i \in DOMAIN toServer' : toServer'[i] = Request(p)
      <4> TAKE p \in current' + 1..Len(sent')
      <4>1. PICK i \in DOMAIN toServer : toServer[i] = Request(p)
        BY <3>3 DEF QueueInv
      <4>2. i # 1
        BY <3>2, <4>1
      <4>3. QED
        BY <2>2, <4>1, <4>2
    <3>7. QED
      BY <3>4, <3>5, <3>6 DEF QueueInv
  <2>7. QED
    BY <1>3, <2>5, <2>6
<1>4. ASSUME UNCHANGED <<sent, toServer, current>> PROVE QueueInv'
  BY <1>4 DEF QueueInv
<1>5. CASE HandleInitialize \/ HandleConfigure
  BY <1>4, <1>5, HandledSetup DEF client
<1>6. CASE HandlePlain \/ HandleSilently \/ Reply \/ EndOfInput \/ Hangup
  BY <1>4, <1>6 DEF HandlePlain, HandleSilently, Reply, EndOfInput, Hangup, client, server
<1>7. ASSUME NEW i \in DOMAIN calls, Call(i) PROVE QueueInv'
  BY <1>4, <1>7 DEF Call, client, server
<1>8. CASE UNCHANGED vars
  BY <1>4, <1>8 DEF vars, client, server
<1>9. QED
  BY <1>1, <1>2, <1>3, <1>5, <1>6, <1>7, <1>8, Sending DEF Next, Loop

----------------------------------------------------------------------------
(* Calls of the server and the responses to them.                          *)

LEMMA PendingStep ==
  Typed /\ LoopInv /\ PendingMatches /\ [Next]_vars => PendingMatches'
<1> SUFFICES ASSUME Typed, LoopInv, PendingMatches, [Next]_vars PROVE PendingMatches'
  OBVIOUS
<1>a. /\ calls \in Seq(Caller) /\ seq \in Nat /\ DOMAIN pending \subseteq 0..seq-1
      /\ \A id \in DOMAIN pending : pending[id] \in DOMAIN calls
  BY DEF Typed, TypeOK
<1>1. ASSUME UNCHANGED <<calls, pending, shutdown>> PROVE PendingMatches'
  BY <1>1 DEF PendingMatches
<1>2. CASE HandleInitialize \/ HandleConfigure
  <2>1. /\ DOMAIN calls \subseteq DOMAIN calls'
        /\ \A i \in DOMAIN calls : calls'[i] = calls[i]
        /\ \A i \in DOMAIN calls' \ DOMAIN calls : calls'[i].state = "queued"
        /\ UNCHANGED <<pending, seq, shutdown>>
    BY <1>2, HandledSetup DEF conn
  <2>2. {i \in DOMAIN calls' : calls'[i].state = "waiting"}
          = {i \in DOMAIN calls : calls[i].state = "waiting"}
    BY <2>1
  <2>3. QED
    BY <1>a, <2>1, <2>2 DEF PendingMatches
<1>3. CASE ReadResponse
  <2> DEFINE id == Head(toServer).id
  <2>1. /\ calls' = Woken(id)
        /\ pending' = [x \in DOMAIN pending \ {id} |-> pending[x]]
        /\ shutdown' = shutdown
    BY <1>3 DEF ReadResponse
  <2> HIDE DEF id
  <2>2. CASE id \in DOMAIN pending
    <3>1. calls' = [calls EXCEPT ![pending[id]].state = "done"] /\ pending[id] \in DOMAIN calls
      BY <1>a, <2>1, <2>2 DEF Woken
    <3>2. DOMAIN calls' = DOMAIN calls
      BY <3>1
    <3>3. \A i \in DOMAIN calls : i # pending[id] => calls'[i] = calls[i]
      BY <3>1
    <3>4. calls[pending[id]] \in Caller
      BY <1>a, <3>1
    <3>5. calls'[pending[id]] = [calls[pending[id]] EXCEPT !.state = "done"]
      BY <3>1
    <3>6. calls'[pending[id]].state = "done"
      BY <3>4, <3>5 DEF Caller
    <3>7. \A x \in DOMAIN pending \ {id} : pending[x] # pending[id]
      BY <2>2 DEF PendingMatches
    <3>8. DOMAIN pending' = DOMAIN pending \ {id}
          /\ \A x \in DOMAIN pending' : pending'[x] = pending[x]
      BY <2>1
    <3>9. \A x \in DOMAIN pending' : calls'[pending'[x]].id = x
      BY <1>a, <3>3, <3>7, <3>8 DEF PendingMatches
    <3>10. ~shutdown => {pending'[x] : x \in DOMAIN pending'}
                          = {pending[x] : x \in DOMAIN pending} \ {pending[id]}
      BY <2>2, <3>7, <3>8
    <3>11. {i \in DOMAIN calls' : calls'[i].state = "waiting"}
             = {i \in DOMAIN calls : calls[i].state = "waiting"} \ {pending[id]}
      BY <3>2, <3>3, <3>6
    <3>12. QED
      BY <2>1, <3>9, <3>10, <3>11 DEF PendingMatches
  <2>3. CASE id \notin DOMAIN pending
    <3>1. calls' = calls /\ DOMAIN pending' = DOMAIN pending
          /\ \A x \in DOMAIN pending' : pending'[x] = pending[x]
      BY <2>1, <2>3 DEF Woken
    <3>2. QED
      BY <2>1, <3>1 DEF PendingMatches
  <2>4. QED
    BY <2>2, <2>3
<1>4. CASE EndOfInput
  <2>1. /\ shutdown' = TRUE /\ pending' = pending /\ DOMAIN calls' = DOMAIN calls
        /\ \A i \in DOMAIN calls :
              calls'[i] = [calls[i] EXCEPT !.state = "failed"] \/ calls'[i] = calls[i]
    BY <1>4 DEF EndOfInput
  <2>2. \A c \in Caller : [c EXCEPT !.state = "failed"].id = c.id
    BY DEF Caller
  <2>3. \A i \in DOMAIN calls : calls'[i].id = calls[i].id
    <3>1. \A i \in DOMAIN calls : calls[i] \in Caller
      BY <1>a
    <3>2. QED
      BY ONLY <2>1, <2>2, <3>1
  <2>4. QED
    BY <1>a, <2>1, <2>3 DEF PendingMatches
<1>5. ASSUME NEW i \in DOMAIN calls, Call(i) PROVE PendingMatches'
  <2>1. calls[i] \in Caller /\ calls[i].state = "queued" /\ shutdown' = shutdown
    BY <1>a, <1>5 DEF Call
  <2>2. CASE shutdown
    <3>1. calls' = [calls EXCEPT ![i].state = "failed"] /\ pending' = pending
      BY <1>5, <2>2 DEF Call
    <3>2. calls'[i] = [calls[i] EXCEPT !.state = "failed"]
          /\ \A k \in DOMAIN calls : k # i => calls'[k] = calls[k]
      BY <3>1
    <3>3. calls'[i].id = calls[i].id
      BY <2>1, <3>2 DEF Caller
    <3>4. QED
      BY <1>a, <2>1, <2>2, <3>1, <3>2, <3>3 DEF PendingMatches
  <2>3. CASE ~shutdown
    <3>1. /\ calls' = [calls EXCEPT ![i].state = "waiting", ![i].id = seq]
          /\ pending' = [x \in DOMAIN pending \cup {seq} |-> IF x = seq THEN i ELSE pending[x]]
      BY <1>5, <2>3 DEF Call
    <3>2. /\ calls'[i] = [calls[i] EXCEPT !.state = "waiting", !.id = seq]
          /\ DOMAIN calls' = DOMAIN calls
          /\ \A k \in DOMAIN calls : k # i => calls'[k] = calls[k]
      BY <3>1
    <3>3. calls'[i].id = seq /\ calls'[i].state = "waiting"
      BY <2>1, <3>2 DEF Caller
    <3>4. seq \notin DOMAIN pending
      BY <1>a
    <3>5. \A x \in DOMAIN pending : pending[x] # i
      BY <2>1, <2>3 DEF PendingMatches
    <3>6. /\ DOMAIN pending' = DOMAIN pending \cup {seq} /\ pending'[seq] = i
          /\ \A x \in DOMAIN pending : pending'[x] = pending[x]
      BY <3>1, <3>4
    <3>7. \A x \in DOMAIN pending' : calls'[pending'[x]].id = x
      <4> TAKE x \in DOMAIN pending'
      <4>1. CASE x = seq
        BY <3>3, <3>6, <4>1
      <4>2. CASE x \in DOMAIN pending
        <5>1. pending'[x] = pending[x] /\ pending[x] \in DOMAIN calls /\ pending[x] # i
          BY <1>a, <3>5, <3>6, <4>2
        <5>2. calls'[pending[x]] = calls[pending[x]]
          BY <3>2, <5>1
        <5>3. calls[pending[x]].id = x
          BY <4>2 DEF PendingMatches
        <5>4. QED
          BY <5>1, <5>2, <5>3
      <4>3. QED
        BY <3>6, <4>1, <4>2
    <3>8. {pending'[x] : x \in DOMAIN pending'} = {pending[x] : x \in DOMAIN pending} \cup {i}
      BY <3>6
    <3>9. {k \in DOMAIN calls' : calls'[k].state = "waiting"}
            = {k \in DOMAIN calls : calls[k].state = "waiting"} \cup {i}
      BY <3>2, <3>3
    <3>10. QED
      BY <2>1, <2>3, <3>7, <3>8, <3>9 DEF PendingMatches
  <2>4. QED
    BY <2>2, <2>3
<1>6. ASSUME NEW notif \in BOOLEAN, NEW m \in Methods, Send(notif, m) PROVE PendingMatches'
  BY <1>1, <1>6 DEF Send, conn
<1>7. ASSUME NEW i \in DOMAIN toClient, Answer(i) PROVE PendingMatches'
  BY <1>1, <1>7 DEF Answer, conn
<1>8. CASE Hangup \/ ReadRequest \/ HandlePlain \/ HandleSilently \/ Reply \/ UNCHANGED vars
  BY <1>1, <1>8 DEF Hangup, ReadRequest, HandlePlain, HandleSilently, Reply, vars, conn
<1>9. QED
  BY <1>2, <1>3, <1>4, <1>5, <1>6, <1>7, <1>8, Sending DEF Next, Loop

----------------------------------------------------------------------------
(* Replies.                                                                *)

\* What is answered has been read, and the current message is not yet answered.
ReplyInv ==
    \A i \in Replies :
        /\ toClient[i].pos \in 1..current
        /\ loop \in {"handle", "reply"} => toClient[i].pos # current

\* A notice or a call of the server is no reply.
LEMMA NoReply ==
  ASSUME Typed, NEW e \in ToClient, e.kind \notin {"result", "error"},
         toClient' = Append(toClient, e)
  PROVE  Replies' = Replies /\ \A i \in Replies : toClient'[i] = toClient[i]
<1>1. toClient \in Seq(ToClient)
  BY DEF Typed
<1>2. /\ DOMAIN toClient' = DOMAIN toClient \cup {Len(toClient) + 1}
      /\ \A i \in DOMAIN toClient : toClient'[i] = toClient[i]
      /\ toClient'[Len(toClient) + 1] = e
  BY <1>1, Appended
<1>3. QED
  BY <1>2 DEF Replies

\* Replies stay and the loop does not move backwards or to another message.
LEMMA RepliesKept ==
  ASSUME Typed, ReplyInv, RepliesInOrder, SilenceIsExcused,
         Replies' = Replies, \A i \in Replies : toClient'[i] = toClient[i],
         UNCHANGED <<sent, current>>,
         loop' \in {"handle", "reply"} => loop \in {"handle", "reply"},
         loop' \in {"read", "ended"} /\ loop \notin {"read", "ended"}
            => Silent(Method)
  PROVE  ReplyInv' /\ RepliesInOrder' /\ SilenceIsExcused'
<1>1. ReplyInv'
  BY DEF ReplyInv
<1>2. RepliesInOrder'
  BY DEF RepliesInOrder
<1>3. SilenceIsExcused'
  <2> SUFFICES ASSUME NEW p \in DOMAIN sent, IsRequest(p),
                      p < current \/ (p = current /\ loop' \in {"read", "ended"})
               PROVE  RepliedTo(p)' \/ Silent(sent[p].method)
    BY DEF SilenceIsExcused, IsRequest
  <2>1. RepliedTo(p) => RepliedTo(p)'
    BY DEF RepliedTo
  <2>2. CASE p < current \/ loop \in {"read", "ended"}
    BY <2>1, <2>2 DEF SilenceIsExcused
  <2>3. CASE p = current /\ loop \notin {"read", "ended"}
    <3>1. p < current \/ loop' \in {"read", "ended"}
      OBVIOUS
    <3>2. ~(p < current)
      <4>1. current \in Nat
        BY DEF Typed, TypeOK
      <4>2. QED
        BY <2>3, <4>1
    <3>3. Silent(Method)
      BY <2>3, <3>1, <3>2
    <3>4. QED
      BY <2>3, <3>3 DEF Method
  <2>4. QED
    BY <2>2, <2>3
<1>4. QED
  BY <1>1, <1>2, <1>3

LEMMA ReplyStep ==
  Typed /\ LoopInv /\ QueueInv /\ ReplyInv /\ RepliesInOrder /\ SilenceIsExcused /\ [Next]_vars
    => ReplyInv' /\ RepliesInOrder' /\ SilenceIsExcused'
<1> SUFFICES ASSUME Typed, LoopInv, QueueInv, ReplyInv, RepliesInOrder, SilenceIsExcused,
                    [Next]_vars
             PROVE  ReplyInv' /\ RepliesInOrder' /\ SilenceIsExcused'
  OBVIOUS
<1> DEFINE Goal == ReplyInv /\ RepliesInOrder /\ SilenceIsExcused
<1>a. /\ toClient \in Seq(ToClient) /\ sent \in Seq(Message)
      /\ current \in 0..Len(sent) /\ Len(sent) \in Nat
      /\ loop \in {"read", "handle", "reply", "ended"} /\ verdict \in {"none", "result", "error"}
  BY DEF Typed, TypeOK, Message
<1>1. ASSUME UNCHANGED <<toClient, sent, current, loop>> PROVE Goal'
  BY <1>1 DEF ReplyInv, RepliesInOrder, SilenceIsExcused, Replies, RepliedTo, IsRequest
<1>2. ASSUME NEW notif \in BOOLEAN, NEW m \in Methods, Send(notif, m) PROVE Goal'
  <2> DEFINE message == [notif |-> notif, method |-> m]
  <2>1. message \in Message
    BY DEF Message
  <2>2. sent' = Append(sent, message) /\ UNCHANGED <<toClient, current, loop>>
    BY <1>2 DEF Send, server
  <2> HIDE DEF message
  <2>3. /\ DOMAIN sent' = DOMAIN sent \cup {Len(sent) + 1}
        /\ \A i \in DOMAIN sent : sent'[i] = sent[i]
    BY <1>a, <2>1, <2>2, Appended
  <2>4. ReplyInv' /\ RepliesInOrder'
    BY <2>2 DEF ReplyInv, RepliesInOrder, Replies
  <2>5. \A p \in DOMAIN sent' : p <= current => p \in DOMAIN sent
    BY <1>a, <2>3
  <2>6. SilenceIsExcused'
    <3> SUFFICES ASSUME NEW p \in DOMAIN sent', IsRequest(p)',
                        p < current \/ (p = current /\ loop \in {"read", "ended"})
                 PROVE  RepliedTo(p)' \/ Silent(sent'[p].method)
      BY <2>2 DEF SilenceIsExcused
    <3>1. p \in DOMAIN sent
      <4>1. p \in Nat /\ current \in Nat
        BY <1>a, <2>3
      <4>2. p <= current
        BY <4>1
      <4>3. QED
        BY <2>5, <4>2
    <3>2. IsRequest(p)
      BY <2>3, <3>1 DEF IsRequest
    <3>3. RepliedTo(p) => RepliedTo(p)'
      BY <2>2 DEF RepliedTo, Replies
    <3>4. QED
      BY <2>3, <3>1, <3>2, <3>3 DEF SilenceIsExcused
  <2>7. QED
    BY <2>4, <2>6
<1>3. CASE ReadRequest
  <2>1. current' = current + 1 /\ UNCHANGED <<toClient, sent>> /\ loop = "read" /\ loop' = "handle"
    BY <1>3, NextIsNext DEF ReadRequest, LoopFree, client
  <2>2. ReplyInv'
    BY <1>a, <2>1 DEF ReplyInv, Replies
  <2>3. RepliesInOrder'
    BY <2>1 DEF RepliesInOrder, Replies
  <2>4. \A p \in DOMAIN sent : p < current + 1 => p < current \/ p = current
    BY <1>a
  <2>5. SilenceIsExcused'
    BY <2>1, <2>4 DEF SilenceIsExcused, RepliedTo, Replies, IsRequest
  <2>6. QED
    BY <2>2, <2>3, <2>5
<1>4. CASE ReadResponse \/ Hangup \/ UNCHANGED vars
  BY <1>1, <1>4 DEF ReadResponse, Hangup, vars, client, server
<1>5. ASSUME NEW i \in DOMAIN toClient, Answer(i) PROVE Goal'
  BY <1>1, <1>5 DEF Answer, server
<1>6. CASE EndOfInput
  <2>1. UNCHANGED <<toClient, sent, current>> /\ loop = "read" /\ loop' = "ended"
    BY <1>6 DEF EndOfInput, LoopFree, client
  <2>2. QED
    BY <2>1, RepliesKept DEF Replies
<1>7. CASE HandleInitialize \/ HandleConfigure
  <2> DEFINE notice == [kind |-> "showMessage"]
  <2>1. /\ toClient' = toClient \/ toClient' = Append(toClient, notice)
        /\ UNCHANGED <<sent, current>> /\ loop = "handle" /\ loop' = "reply"
    BY <1>7, HandledSetup DEF client
  <2>2. notice \in ToClient /\ notice.kind \notin {"result", "error"}
    BY DEF ToClient
  <2> HIDE DEF notice
  <2>3. Replies' = Replies /\ \A i \in Replies : toClient'[i] = toClient[i]
    BY <2>1, <2>2, NoReply DEF Replies
  <2>4. QED
    BY <2>1, <2>3, RepliesKept
<1>8. CASE HandlePlain \/ HandleSilently
  <2>1. /\ UNCHANGED <<toClient, sent, current>> /\ loop = "handle"
        /\ loop' = "reply" \/ (loop' = "read" /\ Silent(Method))
    BY <1>8 DEF HandlePlain, HandleSilently, client
  <2>2. QED
    BY <2>1, RepliesKept DEF Replies
<1>9. CASE Reply
  <2> DEFINE answer == [kind |-> verdict, id |-> IdOf(current), pos |-> current]
             n == Len(toClient) + 1
  <2>1. answer \in ToClient /\ answer.kind \in {"result", "error"} /\ answer.pos = current
    BY <1>9, <1>a, BoundAssumption DEF Reply, ToClient, IdOf, LoopInv
  <2>2. /\ toClient' = Append(toClient, answer) /\ UNCHANGED <<sent, current>>
        /\ loop = "reply" /\ loop' = "read"
    BY <1>9 DEF Reply, client
  <2> HIDE DEF answer
  <2>3. /\ DOMAIN toClient' = DOMAIN toClient \cup {n}
        /\ \A i \in DOMAIN toClient : toClient'[i] = toClient[i]
        /\ toClient'[n] = answer
    BY <1>a, <2>1, <2>2, Appended
  <2>4. /\ Replies' = Replies \cup {n} /\ toClient'[n].pos = current
        /\ \A i \in Replies : toClient'[i] = toClient[i] /\ i \in Nat /\ i < n
    BY <1>a, <2>1, <2>3 DEF Replies
  <2>5. current \in 1..Len(sent)
    BY <1>a, <2>2 DEF LoopInv
  <2>6. \A i \in Replies : toClient[i].pos \in Nat /\ toClient[i].pos < current
                           /\ toClient[i].pos \in 1..current
    BY <1>a, <2>2 DEF ReplyInv
  <2>7. ReplyInv'
    <3> SUFFICES ASSUME NEW i \in Replies' PROVE toClient'[i].pos \in 1..current
      BY <2>2 DEF ReplyInv
    <3>1. i = n => toClient'[i].pos = current
      BY <2>4
    <3>2. i \in Replies => toClient'[i].pos \in 1..current
      BY <2>4, <2>6
    <3>3. current \in 1..current
      BY <1>a, <2>5
    <3>4. QED
      BY <2>4, <3>1, <3>2, <3>3
  <2>8. RepliesInOrder'
    <3> SUFFICES ASSUME NEW i \in Replies', NEW k \in Replies', i < k
                 PROVE  toClient'[i].pos < toClient'[k].pos
      BY DEF RepliesInOrder
    <3>1. i # n
      BY <1>a, <2>4
    <3>2. QED
      BY <2>4, <2>6, <3>1 DEF RepliesInOrder
  <2>9. SilenceIsExcused'
    <3> SUFFICES ASSUME NEW p \in DOMAIN sent, IsRequest(p), p < current \/ p = current
                 PROVE  RepliedTo(p)' \/ Silent(sent[p].method)
      BY <2>2 DEF SilenceIsExcused, IsRequest
    <3>1. RepliedTo(p) => RepliedTo(p)'
      BY <2>4 DEF RepliedTo
    <3>2. p = current => RepliedTo(p)'
      BY <2>4 DEF RepliedTo
    <3>3. QED
      BY <3>1, <3>2 DEF SilenceIsExcused
  <2>10. QED
    BY <2>7, <2>8, <2>9
<1>10. ASSUME NEW i \in DOMAIN calls, Call(i) PROVE Goal'
  <2>1. UNCHANGED <<sent, current, loop>>
    BY <1>10 DEF Call, client, server
  <2>2. Replies' = Replies /\ \A k \in Replies : toClient'[k] = toClient[k]
    <3> DEFINE call == [kind |-> "call", id |-> seq, paths |-> calls[i].paths]
    <3>1. toClient' = toClient \/ toClient' = Append(toClient, call)
      BY <1>10 DEF Call
    <3>2. call \in ToClient /\ call.kind \notin {"result", "error"}
      <4>1. calls[i].paths \in LibPaths /\ seq \in Nat
        BY DEF Typed, TypeOK
      <4>2. QED
        BY <4>1 DEF ToClient
    <3> HIDE DEF call
    <3>3. QED
      BY <3>1, <3>2, NoReply DEF Replies
  <2>3. QED
    BY <2>1, <2>2, RepliesKept
<1>11. QED
  BY <1>2, <1>3, <1>4, <1>5, <1>6, <1>7, <1>8, <1>9, <1>10, Sending DEF Next, Loop

----------------------------------------------------------------------------
(* The theorems.                                                           *)

IInv == /\ Typed /\ LoopInv /\ QueueInv
        /\ PendingMatches
        /\ ReplyInv /\ RepliesInOrder /\ SilenceIsExcused

LEMMA InvInit == Init => IInv
  BY TypeInit DEF Init, IInv, PendingMatches, ReplyInv, RepliesInOrder, SilenceIsExcused, Replies

LEMMA InvStep == IInv /\ [Next]_vars => IInv'
  BY TypeStep, QueueStep, PendingStep, ReplyStep DEF IInv

LEMMA Invariance == Spec => []IInv
<1>1. Init => IInv
  BY InvInit
<1>2. IInv /\ [Next]_vars => IInv'
  BY InvStep
<1>3. QED
  BY <1>1, <1>2, PTL DEF Spec

\* Every value has its type: a response waited for belongs to a goroutine there is.
THEOREM TypeCorrect == Spec => []TypeOK
<1>1. IInv => TypeOK
  BY DEF IInv, Typed
<1>2. QED
  BY <1>1, Invariance, PTL

\* A response reaches the goroutine whose call it answers, and no call is forgotten,
\* however many updates of the lib paths are in flight.
THEOREM ResponsesMatch == Spec => []PendingMatches
<1>1. IInv => PendingMatches
  BY DEF IInv
<1>2. QED
  BY <1>1, Invariance, PTL

\* Answers come in the order of the requests, at most one each, although goroutines
\* write calls to the same wire.
THEOREM AnswersInOrder == Spec => []RepliesInOrder
<1>1. IInv => RepliesInOrder
  BY DEF IInv
<1>2. QED
  BY <1>1, Invariance, PTL

\* Only a panic or an unknown method leaves a request without an answer.  The panics
\* are those of "lost" and of an initialize without parameters.
THEOREM NoAnswerLost == Spec => []SilenceIsExcused
<1>1. IInv => SilenceIsExcused
  BY DEF IInv
<1>2. QED
  BY <1>1, Invariance, PTL

============================================================================

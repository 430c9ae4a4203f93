------------------------- MODULE DiagnosticsProofs -------------------------
(***************************************************************************)
(* Theorems about Diagnostics, for every set of documents and texts, every *)
(* way parsing may end and any number of edits.                            *)
(***************************************************************************)
EXTENDS Diagnostics, SequenceTheorems, WellFoundedInduction, TLAPS

\* Where the goroutine of edit j stands and what it has done so far.
PipelineInv(j) ==
    /\ pc[j] = "idle" <=> j \notin DOMAIN edits
    /\ pc[j] \in {"idle", "queued"} =>
          emitted[j] = 0 /\ ~closed[j] /\ collector[j] = "none"
    /\ collector[j] = "none" => pc[j] \in {"idle", "queued", "failed"}
    /\ collector[j] = "none" => buffered[j] = 0 /\ collected[j] = 0
    /\ pc[j] = "lex" => emitted[j] = 0 /\ ~closed[j]
    /\ pc[j] \in {"desugar", "wait", "notify", "end"} => closed[j]
    /\ pc[j] \in {"wait", "notify", "end"} => Good(j)
    /\ pc[j] = "notify" => seen[j] # "nil" /\ collector[j] = "done"
    /\ pc[j] = "failed" => \/ closed[j]
                           \/ collector[j] = "none"
                           \/ Outcome[TextOf(j)] = "lexError"

\* No diagnostic is lost between the parser and the collector's slice.
ChannelInv(j) ==
    /\ closed[j] => emitted[j] = NumDiags[TextOf(j)]
    /\ closed[j] => pc[j] \notin {"idle", "queued", "lex"}
    /\ collector[j] = "done" => closed[j] /\ buffered[j] = 0
    /\ seen[j] # "nil" => collected[j] + buffered[j] = emitted[j]

\* What is in the inbox was sent by a goroutine that has ended.
InboxInv ==
    \A i \in DOMAIN inbox : pc[inbox[i].job] = "end"

IInv ==
    /\ TypeOK
    /\ \A j \in Jobs : PipelineInv(j)
    /\ \A j \in Jobs : ChannelInv(j)
    /\ InboxInv
    /\ PublishedComplete
    /\ PublishedOnce

USE OutcomeAssumption, NumDiagsAssumption, BoundAssumption DEF Jobs

----------------------------------------------------------------------------
(* Type correctness.                                                       *)

LEMMA TypeInit == Init => TypeOK
  BY NoTextAssumption DEF Init, TypeOK, JobStates, Finished

LEMMA TypeStep == TypeOK /\ [Next]_vars => TypeOK'
<1> SUFFICES ASSUME TypeOK, [Next]_vars PROVE TypeOK'
  OBVIOUS
<1> USE DEF TypeOK, JobStates, Finished, Edit, Notice, procVars, clientVars,
            chanVars, At, Goto
<1>1. CASE Main
  BY <1>1 DEF Main, SetConnBegin, SetConnEnd
<1>2. CASE Disconnect
  BY <1>2 DEF Disconnect
<1>3. ASSUME NEW u \in Uris, DidClose(u) PROVE TypeOK'
  BY <1>3 DEF DidClose
<1>4. ASSUME NEW u \in Uris, NEW t \in Texts, DidOpen(u, t) \/ DidChange(u, t)
      PROVE  TypeOK'
  <2>1. open' \subseteq Uris
    BY <1>4 DEF DidOpen, DidChange
  <2>2. StoreTextDocumentItem(u, t)
    BY <1>4 DEF DidOpen, DidChange
  <2>3. edits' \in Seq(Edit) /\ Len(edits') <= MaxEdits
    BY <2>2 DEF StoreTextDocumentItem
  <2>4. calm' \subseteq Jobs
    <3>1. Len(edits) + 1 \in Jobs
      BY <2>2 DEF StoreTextDocumentItem
    <3>2. calm' = calm \/ calm' = calm \cup {Len(edits) + 1}
      BY <2>2 DEF StoreTextDocumentItem
    <3>3. QED
      BY <3>1, <3>2
  <2>5. textDocuments' \in [Uris -> Texts \cup {NoText}] /\ pc' \in [Jobs -> JobStates]
    BY <2>2 DEF StoreTextDocumentItem
  <2>6. UNCHANGED <<procVars, online, inbox, seen, emitted, chanVars>>
    BY <2>2 DEF StoreTextDocumentItem
  <2>7. QED
    BY <2>1, <2>3, <2>4, <2>5, <2>6
<1>5. ASSUME NEW j \in Jobs, Watch(j) PROVE TypeOK'
  <2>1. ConnReads \subseteq {"nil", "torn", "set"}
    BY DEF ConnReads
  <2>2. PICK c \in ConnReads : seen' = [seen EXCEPT ![j] = c]
    BY <1>5 DEF Watch
  <2>3. seen' \in [Jobs -> {"nil", "torn", "set"}]
    BY <2>1, <2>2
  <2>4. pc' \in [Jobs -> JobStates] /\ collector' \in [Jobs -> {"none", "range", "done"}]
    <3>1. /\ pc' = [pc EXCEPT ![j] = "failed"] \/ pc' = [pc EXCEPT ![j] = "lex"]
          /\ collector' = collector \/ collector' = [collector EXCEPT ![j] = "range"]
      BY <1>5 DEF Watch
    <3>2. pc \in [Jobs -> JobStates] /\ collector \in [Jobs -> {"none", "range", "done"}]
      OBVIOUS
    <3>3. pc' \in [Jobs -> JobStates]
      BY ONLY <3>1, <3>2 DEF JobStates, Finished
    <3>4. collector' \in [Jobs -> {"none", "range", "done"}]
      BY ONLY <3>1, <3>2
    <3>5. QED
      BY ONLY <3>3, <3>4
  <2>5. QED
    BY <1>5, <2>3, <2>4 DEF Watch
<1>6. ASSUME NEW j \in Jobs, Lex(j) PROVE TypeOK'
  BY <1>6 DEF Lex
<1>7. ASSUME NEW j \in Jobs, PublishDiag(j) PROVE TypeOK'
  BY <1>7 DEF PublishDiag
<1>8. ASSUME NEW j \in Jobs, ParseReturn(j) PROVE TypeOK'
  BY <1>8 DEF ParseReturn
<1>9. ASSUME NEW j \in Jobs, DesugarFile(j) PROVE TypeOK'
  BY <1>9 DEF DesugarFile
<1>10. ASSUME NEW j \in Jobs, AwaitDone(j) PROVE TypeOK'
  BY <1>10 DEF AwaitDone
<1>11. ASSUME NEW j \in Jobs, Notify(j) PROVE TypeOK'
  <2> DEFINE note == [job |-> j, count |-> collected[j]]
  <2>1. note \in Notice
    OBVIOUS
  <2>2. inbox' \in Seq(Notice)
    <3>1. inbox' = inbox \/ inbox' = Append(inbox, note)
      BY <1>11 DEF Notify
    <3> HIDE DEF note, Notice
    <3>2. inbox \in Seq(Notice)
      BY DEF TypeOK
    <3>3. Append(inbox, note) \in Seq(Notice)
      BY ONLY <2>1, <3>2, AppendProperties
    <3>4. QED
      BY ONLY <3>1, <3>2, <3>3
  <2>3. alive' \in BOOLEAN /\ pc' \in [Jobs -> JobStates]
    BY <1>11 DEF Notify
  <2>4. UNCHANGED <<conn, online, open, edits, calm, textDocuments, seen,
                    emitted, buffered, closed, collector, collected>>
    BY <1>11 DEF Notify
  <2>5. QED
    BY <2>2, <2>3, <2>4
<1>12. ASSUME NEW j \in Jobs, Collect(j) PROVE TypeOK'
  <2>1. collected' \in [Jobs -> Nat] /\ buffered' \in [Jobs -> 0..1]
    <3>1. /\ buffered' = [buffered EXCEPT ![j] = 0]
          /\ collected' = collected \/ collected' = [collected EXCEPT ![j] = @ + 1]
      BY <1>12 DEF Collect
    <3>2. collected \in [Jobs -> Nat] /\ buffered \in [Jobs -> 0..1]
      OBVIOUS
    <3>3. collected' \in [Jobs -> Nat]
      BY ONLY <3>1, <3>2
    <3>4. buffered' \in [Jobs -> 0..1]
      BY ONLY <3>1, <3>2
    <3>5. QED
      BY ONLY <3>3, <3>4
  <2>2. UNCHANGED <<procVars, clientVars, inbox, pc, seen, emitted, closed, collector>>
    BY <1>12 DEF Collect
  <2>3. QED
    BY <2>1, <2>2
<1>13. ASSUME NEW j \in Jobs, CloseDone(j) PROVE TypeOK'
  BY <1>13 DEF CloseDone
<1>14. CASE UNCHANGED vars
  BY <1>14 DEF vars
<1>15. QED
  BY <1>1, <1>2, <1>3, <1>4, <1>5, <1>6, <1>7, <1>8, <1>9, <1>10, <1>11,
     <1>12, <1>13, <1>14 DEF Next, Client, Process, Collector

\* Every variable of the pipeline keeps its type, for any number of edits.
THEOREM TypeCorrect == Spec => []TypeOK
  BY TypeInit, TypeStep, PTL DEF Spec

----------------------------------------------------------------------------
(* The inductive invariant, one lemma per action of edit j.                *)

\* Goroutines that have ended stay ended: the inbox keeps its origin.
LEMMA InboxKept ==
  ASSUME TypeOK, InboxInv, inbox' = inbox,
         \A k \in Jobs : pc[k] = "end" => pc'[k] = "end"
  PROVE  InboxInv'
<1>1. ASSUME NEW i \in DOMAIN inbox PROVE pc'[inbox[i].job] = "end"
  <2>1. inbox[i] \in Notice
    BY DEF TypeOK
  <2>2. inbox[i].job \in Jobs /\ pc[inbox[i].job] = "end"
    BY <2>1 DEF InboxInv, Notice
  <2>3. QED
    BY <2>2
<1>2. QED
  BY <1>1 DEF InboxInv

\* A step that leaves the locals of goroutine k alone keeps its invariants.
LEMMA OthersKept ==
  ASSUME NEW k \in Jobs, PipelineInv(k), ChannelInv(k), edits' = edits,
         pc'[k] = pc[k], seen'[k] = seen[k], emitted'[k] = emitted[k],
         buffered'[k] = buffered[k], closed'[k] = closed[k],
         collector'[k] = collector[k], collected'[k] = collected[k]
  PROVE  PipelineInv(k)' /\ ChannelInv(k)'
  BY DEF PipelineInv, ChannelInv, Good, TextOf

LEMMA WatchStep ==
  ASSUME IInv, NEW j \in Jobs, Watch(j)
  PROVE  IInv'
<1> USE DEF IInv, TypeOK, Watch, At, Goto, procVars, clientVars, chanVars
<1>0. TypeOK'
  BY TypeStep DEF Next, Process
<1>1. PipelineInv(j)'
  BY DEF PipelineInv, ChannelInv, TextOf, Good
<1>2. ChannelInv(j)'
  BY DEF PipelineInv, ChannelInv, TextOf, Good
<1>3. ASSUME NEW k \in Jobs, k # j PROVE PipelineInv(k)' /\ ChannelInv(k)'
  BY <1>3, OthersKept
<1>4. InboxInv'
  BY InboxKept
<1>5. PublishedComplete' /\ PublishedOnce'
  BY DEF PublishedComplete, PublishedOnce, TextOf, Good
<1>6. QED
  BY <1>0, <1>1, <1>2, <1>3, <1>4, <1>5

LEMMA LexStep ==
  ASSUME IInv, NEW j \in Jobs, Lex(j)
  PROVE  IInv'
<1> USE DEF IInv, TypeOK, Lex, At, Goto, procVars, clientVars, chanVars
<1>0. TypeOK'
  BY TypeStep DEF Next, Process
<1>1. PipelineInv(j)'
  BY DEF PipelineInv, ChannelInv, TextOf, Good
<1>2. ChannelInv(j)'
  BY DEF PipelineInv, ChannelInv, TextOf, Good
<1>3. ASSUME NEW k \in Jobs, k # j PROVE PipelineInv(k)' /\ ChannelInv(k)'
  BY <1>3, OthersKept
<1>4. InboxInv'
  BY InboxKept
<1>5. PublishedComplete' /\ PublishedOnce'
  BY DEF PublishedComplete, PublishedOnce, TextOf, Good
<1>6. QED
  BY <1>0, <1>1, <1>2, <1>3, <1>4, <1>5

LEMMA PublishDiagStep ==
  ASSUME IInv, NEW j \in Jobs, PublishDiag(j)
  PROVE  IInv'
<1> USE DEF IInv, TypeOK, PublishDiag, At, Goto, procVars, clientVars, chanVars
<1>0. TypeOK'
  BY TypeStep DEF Next, Process
<1>1. PipelineInv(j)'
  BY DEF PipelineInv, ChannelInv, TextOf, Good
<1>2. ChannelInv(j)'
  <2>1. /\ pc[j] = "parse" /\ buffered[j] = 0 /\ emitted[j] < NumDiags[TextOf(j)]
        /\ buffered'[j] = 1 /\ emitted'[j] = emitted[j] + 1
        /\ emitted[j] \in Nat /\ collected[j] \in Nat
        /\ UNCHANGED <<edits, pc, seen, closed, collector, collected>>
    OBVIOUS
  <2>2. NumDiags[TextOf(j)] \in Nat
    <3>1. edits[j] \in Edit
      BY <2>1 DEF PipelineInv
    <3>2. TextOf(j) \in Texts
      BY <3>1 DEF Edit, TextOf
    <3>3. QED
      BY ONLY <3>2, NumDiagsAssumption
  <2>3. ChannelInv(j)
    OBVIOUS
  <2>4. ~closed[j] /\ collector[j] # "done"
    BY ONLY <2>1, <2>2, <2>3 DEF ChannelInv
  <2>5. QED
    BY ONLY <2>1, <2>3, <2>4 DEF ChannelInv, TextOf
<1>3. ASSUME NEW k \in Jobs, k # j PROVE PipelineInv(k)' /\ ChannelInv(k)'
  BY <1>3, OthersKept
<1>4. InboxInv'
  BY InboxKept
<1>5. PublishedComplete' /\ PublishedOnce'
  BY DEF PublishedComplete, PublishedOnce, TextOf, Good
<1>6. QED
  BY <1>0, <1>1, <1>2, <1>3, <1>4, <1>5

LEMMA ParseReturnStep ==
  ASSUME IInv, NEW j \in Jobs, ParseReturn(j)
  PROVE  IInv'
<1> USE DEF IInv, TypeOK, ParseReturn, At, Goto, procVars, clientVars, chanVars
<1>0. TypeOK'
  BY TypeStep DEF Next, Process
<1>1. PipelineInv(j)'
  <2>1. CASE Outcome[TextOf(j)] = "parsePanic"
    BY <2>1 DEF PipelineInv, ChannelInv, TextOf, Good
  <2>2. CASE Outcome[TextOf(j)] = "parseError"
    BY <2>2 DEF PipelineInv, ChannelInv, TextOf, Good
  <2>3. CASE Outcome[TextOf(j)] \in {"ok", "desugarError", "desugarPanic"}
    <3>1. pc[j] = "parse" /\ pc'[j] = "desugar" /\ closed'[j]
      BY <2>3
    <3>2. /\ edits' = edits /\ seen' = seen /\ emitted' = emitted
          /\ buffered' = buffered /\ collector' = collector
          /\ collected' = collected
      OBVIOUS
    <3>3. emitted[j] = NumDiags[TextOf(j)]
      OBVIOUS
    <3> HIDE DEF ParseReturn, TypeOK
    <3>4. QED
      BY <3>1, <3>2, <3>3 DEF PipelineInv, ChannelInv, TextOf, Good
  <2>4. QED
    BY <2>1, <2>2, <2>3
<1>2. ChannelInv(j)'
  <2>1. CASE Outcome[TextOf(j)] = "parsePanic"
    BY <2>1 DEF PipelineInv, ChannelInv, TextOf, Good
  <2>2. CASE Outcome[TextOf(j)] = "parseError"
    BY <2>2 DEF PipelineInv, ChannelInv, TextOf, Good
  <2>3. CASE Outcome[TextOf(j)] \in {"ok", "desugarError", "desugarPanic"}
    <3>1. pc[j] = "parse" /\ pc'[j] = "desugar" /\ closed'[j]
      BY <2>3
    <3>2. /\ edits' = edits /\ seen' = seen /\ emitted' = emitted
          /\ buffered' = buffered /\ collector' = collector
          /\ collected' = collected
      OBVIOUS
    <3>3. emitted[j] = NumDiags[TextOf(j)]
      OBVIOUS
    <3> HIDE DEF ParseReturn, TypeOK
    <3>4. QED
      BY <3>1, <3>2, <3>3 DEF PipelineInv, ChannelInv, TextOf, Good
  <2>4. QED
    BY <2>1, <2>2, <2>3
<1>3. ASSUME NEW k \in Jobs, k # j PROVE PipelineInv(k)' /\ ChannelInv(k)'
  BY <1>3, OthersKept
<1>4. InboxInv'
  BY InboxKept
<1>5. PublishedComplete' /\ PublishedOnce'
  BY DEF PublishedComplete, PublishedOnce, TextOf, Good
<1>6. QED
  BY <1>0, <1>1, <1>2, <1>3, <1>4, <1>5

LEMMA DesugarFileStep ==
  ASSUME IInv, NEW j \in Jobs, DesugarFile(j)
  PROVE  IInv'
<1> USE DEF IInv, TypeOK, DesugarFile, At, Goto, procVars, clientVars, chanVars
<1>0. TypeOK'
  BY TypeStep DEF Next, Process
<1>1. PipelineInv(j)'
  <2>1. CASE Outcome[TextOf(j)] = "ok"
    BY <2>1 DEF PipelineInv, ChannelInv, TextOf, Good
  <2>2. CASE Outcome[TextOf(j)] = "desugarError"
    BY <2>2 DEF PipelineInv, ChannelInv, TextOf, Good
  <2>3. CASE Outcome[TextOf(j)] = "desugarPanic"
    BY <2>3 DEF PipelineInv, ChannelInv, TextOf, Good
  <2>4. QED
    BY <2>1, <2>2, <2>3
<1>2. ChannelInv(j)'
  <2>1. CASE Outcome[TextOf(j)] = "ok"
    BY <2>1 DEF PipelineInv, ChannelInv, TextOf, Good
  <2>2. CASE Outcome[TextOf(j)] = "desugarError"
    BY <2>2 DEF PipelineInv, ChannelInv, TextOf, Good
  <2>3. CASE Outcome[TextOf(j)] = "desugarPanic"
    BY <2>3 DEF PipelineInv, ChannelInv, TextOf, Good
  <2>4. QED
    BY <2>1, <2>2, <2>3
<1>3. ASSUME NEW k \in Jobs, k # j PROVE PipelineInv(k)' /\ ChannelInv(k)'
  BY <1>3, OthersKept
<1>4. InboxInv'
  BY InboxKept
<1>5. PublishedComplete' /\ PublishedOnce'
  BY DEF PublishedComplete, PublishedOnce, TextOf, Good
<1>6. QED
  BY <1>0, <1>1, <1>2, <1>3, <1>4, <1>5

LEMMA AwaitDoneStep ==
  ASSUME IInv, NEW j \in Jobs, AwaitDone(j)
  PROVE  IInv'
<1> USE DEF IInv, TypeOK, AwaitDone, At, Goto, procVars, clientVars, chanVars
<1>0. TypeOK'
  BY TypeStep DEF Next, Process
<1>1. PipelineInv(j)'
  BY DEF PipelineInv, ChannelInv, TextOf, Good
<1>2. ChannelInv(j)'
  BY DEF PipelineInv, ChannelInv, TextOf, Good
<1>3. ASSUME NEW k \in Jobs, k # j PROVE PipelineInv(k)' /\ ChannelInv(k)'
  BY <1>3, OthersKept
<1>4. InboxInv'
  BY InboxKept
<1>5. PublishedComplete' /\ PublishedOnce'
  BY DEF PublishedComplete, PublishedOnce, TextOf, Good
<1>6. QED
  BY <1>0, <1>1, <1>2, <1>3, <1>4, <1>5

LEMMA CollectStep ==
  ASSUME IInv, NEW j \in Jobs, Collect(j)
  PROVE  IInv'
<1> USE DEF IInv, TypeOK, Collect, At, Goto, procVars, clientVars, chanVars
<1>0. TypeOK'
  BY TypeStep DEF Next, Collector
<1>1. PipelineInv(j)'
  BY DEF PipelineInv, ChannelInv, TextOf, Good
<1>2. ChannelInv(j)'
  BY DEF PipelineInv, ChannelInv, TextOf, Good
<1>3. ASSUME NEW k \in Jobs, k # j PROVE PipelineInv(k)' /\ ChannelInv(k)'
  BY <1>3, OthersKept
<1>4. InboxInv'
  BY InboxKept
<1>5. PublishedComplete' /\ PublishedOnce'
  BY DEF PublishedComplete, PublishedOnce, TextOf, Good
<1>6. QED
  BY <1>0, <1>1, <1>2, <1>3, <1>4, <1>5

LEMMA CloseDoneStep ==
  ASSUME IInv, NEW j \in Jobs, CloseDone(j)
  PROVE  IInv'
<1> USE DEF IInv, TypeOK, CloseDone, At, Goto, procVars, clientVars, chanVars
<1>0. TypeOK'
  BY TypeStep DEF Next, Collector
<1>1. PipelineInv(j)'
  BY DEF PipelineInv, ChannelInv, TextOf, Good
<1>2. ChannelInv(j)'
  BY DEF PipelineInv, ChannelInv, TextOf, Good
<1>3. ASSUME NEW k \in Jobs, k # j PROVE PipelineInv(k)' /\ ChannelInv(k)'
  BY <1>3, OthersKept
<1>4. InboxInv'
  BY InboxKept
<1>5. PublishedComplete' /\ PublishedOnce'
  BY DEF PublishedComplete, PublishedOnce, TextOf, Good
<1>6. QED
  BY <1>0, <1>1, <1>2, <1>3, <1>4, <1>5

\* The only step that appends to the inbox: the goroutine was in "notify", so
\* nothing was sent for it before, and its collector has drained the channel.
LEMMA NotifyStep ==
  ASSUME IInv, NEW j \in Jobs, Notify(j)
  PROVE  IInv'
<1> USE DEF IInv, TypeOK, At, Goto, procVars, clientVars, chanVars
<1>0. TypeOK'
  BY TypeStep DEF Next, Process
<1>1. /\ pc[j] = "notify"
      /\ UNCHANGED <<edits, seen, emitted, buffered, closed, collector, collected>>
      /\ \/ pc' = pc /\ inbox' = inbox
         \/ pc' = [pc EXCEPT ![j] = "end"] /\ inbox' = inbox
         \/ /\ pc' = [pc EXCEPT ![j] = "end"]
            /\ seen[j] = "set"
            /\ inbox' = Append(inbox, [job |-> j, count |-> collected[j]])
  BY DEF Notify
<1>2. PipelineInv(j)' /\ ChannelInv(j)'
  <2>1. PipelineInv(j) /\ ChannelInv(j) /\ pc'[j] \in {"notify", "end"}
    BY <1>1
  <2>2. QED
    BY ONLY <1>1, <2>1 DEF PipelineInv, ChannelInv, TextOf, Good
<1>4. ASSUME NEW k \in Jobs, k # j PROVE PipelineInv(k)' /\ ChannelInv(k)'
  BY <1>1, <1>4, OthersKept
<1>5. CASE inbox' = inbox
  <2>1. InboxInv'
    BY <1>1, <1>5, InboxKept
  <2>2. PublishedComplete' /\ PublishedOnce'
    BY <1>1, <1>5 DEF PublishedComplete, PublishedOnce, TextOf, Good
  <2>3. QED
    BY <1>0, <1>2, <1>4, <2>1, <2>2
<1>6. CASE /\ pc' = [pc EXCEPT ![j] = "end"]
           /\ seen[j] = "set"
           /\ inbox' = Append(inbox, [job |-> j, count |-> collected[j]])
  <2>1. /\ j \in DOMAIN edits
        /\ Good(j)
        /\ collected[j] = NumDiags[TextOf(j)]
    BY <1>1, <1>6 DEF PipelineInv, ChannelInv
  <2>2. /\ Len(inbox') = Len(inbox) + 1
        /\ DOMAIN inbox = 1..Len(inbox)
        /\ DOMAIN inbox' = 1..Len(inbox) + 1
        /\ inbox'[Len(inbox) + 1] = [job |-> j, count |-> collected[j]]
        /\ \A i \in 1..Len(inbox) : inbox'[i] = inbox[i]
    BY <1>6
  <2>3. \A i \in 1..Len(inbox) : /\ inbox[i].job \in Jobs
                                 /\ pc[inbox[i].job] = "end"
                                 /\ inbox[i].job # j
    <3>1. ASSUME NEW i \in 1..Len(inbox)
          PROVE  /\ inbox[i].job \in Jobs
                 /\ pc[inbox[i].job] = "end"
      <4>1. inbox[i] \in Notice
        BY <3>1
      <4>2. QED
        BY <4>1, <2>2 DEF InboxInv, Notice
    <3>2. QED
      BY <1>1, <3>1
  <2>4. InboxInv'
    BY <1>6, <2>2, <2>3 DEF InboxInv
  <2>5. PublishedComplete'
    <3>1. ASSUME NEW i \in 1..Len(inbox)
          PROVE  /\ inbox'[i].job \in DOMAIN edits
                 /\ Good(inbox'[i].job)
                 /\ inbox'[i].count = NumDiags[TextOf(inbox'[i].job)]
      BY <2>2, <3>1 DEF PublishedComplete
    <3>2. /\ inbox'[Len(inbox) + 1].job = j
          /\ inbox'[Len(inbox) + 1].count = collected[j]
      BY <2>2
    <3>3. Len(inbox) \in Nat
      OBVIOUS
    <3> HIDE DEF IInv, TypeOK
    <3>4. ASSUME NEW i \in DOMAIN inbox'
          PROVE  /\ inbox'[i].job \in DOMAIN edits
                 /\ Good(inbox'[i].job)
                 /\ inbox'[i].count = NumDiags[TextOf(inbox'[i].job)]
      BY <2>1, <2>2, <3>1, <3>2, <3>3
    <3>5. QED
      BY <1>1, <3>4 DEF PublishedComplete, TextOf, Good
  <2>6. PublishedOnce'
    <3>1. /\ \A i \in 1..Len(inbox) : inbox'[i].job = inbox[i].job /\ inbox'[i].job # j
          /\ inbox'[Len(inbox) + 1].job = j
      BY <2>2, <2>3
    <3>2. \A i, k \in 1..Len(inbox) : inbox[i].job = inbox[k].job => i = k
      BY <2>2 DEF PublishedOnce
    <3>3. Len(inbox) \in Nat
      OBVIOUS
    <3> HIDE DEF IInv, TypeOK
    <3>4. QED
      BY <2>2, <3>1, <3>2, <3>3 DEF PublishedOnce
  <2>7. QED
    BY <1>0, <1>2, <1>4, <2>4, <2>5, <2>6
<1>7. QED
  BY <1>1, <1>5, <1>6

\* A new edit takes the next idle goroutine and leaves the others their text.
LEMMA StoreStep ==
  ASSUME IInv, NEW u \in Uris, NEW t \in Texts, StoreTextDocumentItem(u, t),
         TypeOK'
  PROVE  IInv'
<1> USE DEF IInv, procVars, clientVars, chanVars
<1>0. PICK n \in Jobs : n = Len(edits) + 1
  BY DEF StoreTextDocumentItem, TypeOK
<1>1. /\ n = Len(edits) + 1
      /\ pc' = [pc EXCEPT ![n] = "queued"]
      /\ edits' = Append(edits, [uri |-> u, text |-> t])
      /\ UNCHANGED <<inbox, seen, emitted, buffered, closed, collector, collected>>
  BY <1>0 DEF StoreTextDocumentItem, TypeOK
<1>2. /\ DOMAIN edits = 1..Len(edits) /\ DOMAIN edits' = 1..n
      /\ \A k \in 1..Len(edits) : edits'[k] = edits[k]
  BY <1>1 DEF TypeOK
<1>3. pc[n] = "idle" /\ pc'[n] = "queued"
  BY <1>1, <1>2 DEF PipelineInv, TypeOK
<1>4. PipelineInv(n)' /\ ChannelInv(n)'
  <2>1. /\ emitted[n] = 0 /\ ~closed[n] /\ collector[n] = "none"
        /\ buffered[n] = 0 /\ collected[n] = 0
    BY <1>1, <1>3 DEF PipelineInv
  <2>2. n \in DOMAIN edits'
    BY <1>1, <1>2
  <2>3. /\ emitted'[n] = 0 /\ ~closed'[n] /\ collector'[n] = "none"
        /\ buffered'[n] = 0 /\ collected'[n] = 0
    BY <1>1, <2>1
  <2> HIDE DEF IInv
  <2>4. QED
    BY ONLY <1>3, <2>2, <2>3 DEF PipelineInv, ChannelInv
<1>5. ASSUME NEW k \in Jobs, k # n PROVE PipelineInv(k)' /\ ChannelInv(k)'
  <2>1. pc'[k] = pc[k] /\ (k \in DOMAIN edits' <=> k \in DOMAIN edits)
    BY <1>1, <1>2, <1>5 DEF TypeOK
  <2>2. CASE k \in DOMAIN edits
    <3>1. edits'[k] = edits[k]
      BY <1>2, <2>2
    <3>2. PipelineInv(k) /\ ChannelInv(k)
      OBVIOUS
    <3> HIDE DEF IInv
    <3>3. QED
      BY <1>1, <2>1, <2>2, <3>1, <3>2 DEF PipelineInv, ChannelInv, TextOf, Good
  <2>3. CASE k \notin DOMAIN edits
    <3>1. pc[k] = "idle" /\ ~closed[k] /\ collector[k] = "none"
      BY <2>3 DEF PipelineInv
    <3>2. QED
      BY <1>1, <2>1, <2>3, <3>1 DEF PipelineInv, ChannelInv
  <2>4. QED
    BY <2>2, <2>3
<1>6. InboxInv'
  BY <1>1, <1>3, InboxKept DEF TypeOK
<1>7. PublishedComplete'
  BY <1>1, <1>2 DEF PublishedComplete, TextOf, Good
<1>8. PublishedOnce'
  BY <1>1 DEF PublishedOnce
<1>9. QED
  <2>1. \A k \in Jobs : PipelineInv(k)' /\ ChannelInv(k)'
    BY ONLY <1>4, <1>5
  <2>2. QED
    BY <2>1, <1>6, <1>7, <1>8

LEMMA InvInit == Init => IInv
  BY TypeInit DEF Init, IInv, PipelineInv, ChannelInv, InboxInv,
                  PublishedComplete, PublishedOnce

LEMMA InvStep == IInv /\ [Next]_vars => IInv'
<1> SUFFICES ASSUME IInv, [Next]_vars PROVE IInv'
  OBVIOUS
<1>0. TypeOK'
  BY TypeStep DEF IInv
<1>1. CASE UNCHANGED <<edits, inbox, pc, seen, emitted, chanVars>>
  <2>1. ASSUME NEW k \in Jobs PROVE PipelineInv(k)' /\ ChannelInv(k)'
    BY <1>1, OthersKept DEF IInv, chanVars
  <2>2. InboxInv' /\ PublishedComplete' /\ PublishedOnce'
    BY <1>1 DEF IInv, InboxInv, PublishedComplete, PublishedOnce, TextOf, Good
  <2>3. QED
    BY <1>0, <2>1, <2>2 DEF IInv
<1>2. CASE Main
  BY <1>1, <1>2 DEF Main, SetConnBegin, SetConnEnd, clientVars
<1>3. CASE Client
  <2>1. CASE Disconnect
    BY <1>1, <2>1 DEF Disconnect
  <2>2. ASSUME NEW u \in Uris, DidClose(u) PROVE IInv'
    BY <1>1, <2>2 DEF DidClose
  <2>3. ASSUME NEW u \in Uris, NEW t \in Texts, DidOpen(u, t) \/ DidChange(u, t)
        PROVE  IInv'
    BY <1>0, <2>3, StoreStep DEF DidOpen, DidChange
  <2>4. QED
    BY <1>3, <2>1, <2>2, <2>3 DEF Client
<1>4. ASSUME NEW j \in Jobs, Process(j) PROVE IInv'
  BY <1>4, WatchStep, LexStep, PublishDiagStep, ParseReturnStep,
     DesugarFileStep, AwaitDoneStep, NotifyStep DEF Process
<1>5. ASSUME NEW j \in Jobs, Collector(j) PROVE IInv'
  BY <1>5, CollectStep, CloseDoneStep DEF Collector
<1>6. CASE UNCHANGED vars
  BY <1>1, <1>6 DEF vars, clientVars
<1>7. QED
  BY <1>2, <1>3, <1>4, <1>5, <1>6 DEF Next

LEMMA Invariance == Spec => []IInv
  BY InvInit, InvStep, PTL DEF Spec

----------------------------------------------------------------------------
(* The results.                                                            *)

\* Whatever the interleaving, the client is told exactly what the parser found
\* in the text of the edit, and only about texts that parse and desugar.
THEOREM Completeness == Spec => []PublishedComplete
<1>1. IInv => PublishedComplete
  BY DEF IInv
<1>2. QED
  BY <1>1, Invariance, PTL

\* No edit is told twice.
THEOREM AtMostOnce == Spec => []PublishedOnce
<1>1. IInv => PublishedOnce
  BY DEF IInv
<1>2. QED
  BY <1>1, Invariance, PTL

\* Only a lexer error leaves a collector waiting on a channel nobody closes.
THEOREM LeaksAreLexErrors == Spec => []LeakOnlyOnLexError
<1>1. IInv => LeakOnlyOnLexError
  BY DEF IInv, PipelineInv, LeakOnlyOnLexError
<1>2. QED
  BY <1>1, Invariance, PTL

----------------------------------------------------------------------------
(* What the client shows.                                                  *)

\* Every earlier edit of the document of a calm edit has ended for good.
CalmInv ==
    \A k \in calm :
        /\ k \in DOMAIN edits
        /\ \A j \in 1..(k - 1) : edits[j].uri = edits[k].uri => pc[j] \in {"failed", "end"}

\* The server holds the text of the last edit.
HeldInv ==
    \A k \in DOMAIN edits :
        (\A m \in DOMAIN edits : edits[m].uri = edits[k].uri => m <= k)
            => textDocuments[edits[k].uri] = edits[k].text

\* While the client is there, an edit that ends with a connection was told.
ToldInv ==
    online => \A j \in Jobs :
        pc[j] = "end" /\ seen[j] = "set" => \E i \in DOMAIN inbox : inbox[i].job = j

\* After a calm edit only later edits of the document are told.
OverrideInv ==
    \A i, m \in DOMAIN inbox :
        /\ i < m /\ inbox[i].job \in calm
        /\ edits[inbox[i].job].uri = edits[inbox[m].job].uri
        => inbox[i].job < inbox[m].job

ShownInv == CalmInv /\ HeldInv /\ ToldInv /\ OverrideInv

\* Steps that neither edit nor tell: no goroutine ends with a connection but
\* when the client is gone, and none that has ended starts again.
Quiet ==
    /\ UNCHANGED <<edits, calm, textDocuments, inbox>>
    /\ online' => online
    /\ \A j \in Jobs : pc[j] \in {"failed", "end"} => pc'[j] = pc[j]
    /\ \A j \in Jobs : online' /\ pc'[j] = "end" /\ seen'[j] = "set"
                           => pc[j] = "end" /\ seen[j] = "set"

Tell(j) ==
    /\ pc[j] = "notify" /\ seen[j] = "set"
    /\ inbox' = Append(inbox, [job |-> j, count |-> collected[j]])
    /\ pc' = [pc EXCEPT ![j] = "end"]
    /\ UNCHANGED <<edits, calm, textDocuments, online, seen>>

LEMMA StepKinds ==
  ASSUME IInv, [Next]_vars
  PROVE  \/ Quiet
         \/ \E j \in Jobs : Tell(j)
         \/ \E u \in Uris, t \in Texts : StoreTextDocumentItem(u, t)
<1> USE DEF IInv, TypeOK, procVars, clientVars, chanVars, At, Goto
<1>1. CASE Main
  BY <1>1 DEF Main, SetConnBegin, SetConnEnd, Quiet
<1>2. CASE Disconnect
  BY <1>2 DEF Disconnect, Quiet
<1>3. ASSUME NEW u \in Uris, DidClose(u) PROVE Quiet
  BY <1>3 DEF DidClose, Quiet
<1>4. ASSUME NEW u \in Uris, NEW t \in Texts, DidOpen(u, t) \/ DidChange(u, t)
      PROVE  StoreTextDocumentItem(u, t)
  BY <1>4 DEF DidOpen, DidChange
<1>5. ASSUME NEW j \in Jobs, Watch(j) PROVE Quiet
  <2>1. /\ pc[j] = "queued" /\ pc' \in {[pc EXCEPT ![j] = "failed"], [pc EXCEPT ![j] = "lex"]}
        /\ UNCHANGED <<edits, calm, textDocuments, inbox, online>>
        /\ \E c \in ConnReads : seen' = [seen EXCEPT ![j] = c]
    BY <1>5 DEF Watch
  <2>2. QED
    BY <2>1 DEF Quiet
<1>6. ASSUME NEW j \in Jobs, Lex(j) PROVE Quiet
  BY <1>6 DEF Lex, Quiet
<1>7. ASSUME NEW j \in Jobs, PublishDiag(j) PROVE Quiet
  BY <1>7 DEF PublishDiag, Quiet
<1>8. ASSUME NEW j \in Jobs, ParseReturn(j) PROVE Quiet
  BY <1>8 DEF ParseReturn, Quiet
<1>9. ASSUME NEW j \in Jobs, DesugarFile(j) PROVE Quiet
  BY <1>9 DEF DesugarFile, Quiet
<1>10. ASSUME NEW j \in Jobs, AwaitDone(j) PROVE Quiet
  BY <1>10 DEF AwaitDone, Quiet
<1>11. ASSUME NEW j \in Jobs, Notify(j) PROVE Quiet \/ Tell(j)
  BY <1>11 DEF Notify, Quiet, Tell
<1>12. ASSUME NEW j \in Jobs, Collect(j) \/ CloseDone(j) PROVE Quiet
  BY <1>12 DEF Collect, CloseDone, Quiet
<1>13. CASE UNCHANGED vars
  BY <1>13 DEF vars, Quiet
<1>14. QED
  BY <1>1, <1>2, <1>3, <1>4, <1>5, <1>6, <1>7, <1>8, <1>9, <1>10, <1>11,
     <1>12, <1>13 DEF Next, Client, Process, Collector

LEMMA InboxTyped ==
  ASSUME IInv
  PROVE  /\ DOMAIN inbox = 1..Len(inbox) /\ Len(inbox) \in Nat
         /\ DOMAIN edits = 1..Len(edits) /\ Len(edits) \in Nat /\ Len(edits) <= MaxEdits
         /\ \A i \in DOMAIN inbox : /\ inbox[i].job \in Jobs
                                    /\ inbox[i].job \in DOMAIN edits
                                    /\ pc[inbox[i].job] = "end"
<1>1. inbox \in Seq(Notice) /\ edits \in Seq(Edit) /\ Len(edits) <= MaxEdits
  BY DEF IInv, TypeOK
<1>2. ASSUME NEW i \in DOMAIN inbox
      PROVE  /\ inbox[i].job \in Jobs
             /\ inbox[i].job \in DOMAIN edits
             /\ pc[inbox[i].job] = "end"
  <2>1. inbox[i] \in Notice
    BY <1>1
  <2>2. QED
    BY <2>1 DEF Notice, IInv, InboxInv, PublishedComplete
<1>3. QED
  BY <1>1, <1>2

LEMMA UntoldStep ==
  ASSUME IInv, ShownInv, Quiet
  PROVE  ShownInv'
<1>1. CalmInv'
  <2>1. ASSUME NEW k \in calm
        PROVE  /\ k \in DOMAIN edits
               /\ \A j \in 1..(k - 1) :
                     edits[j].uri = edits[k].uri => pc'[j] \in {"failed", "end"}
    <3>1. k \in DOMAIN edits /\ k \in Jobs
      BY InboxTyped DEF ShownInv, CalmInv
    <3>2. 1..(k - 1) \subseteq Jobs
      BY <3>1
    <3>3. QED
      BY <3>1, <3>2 DEF ShownInv, CalmInv, Quiet
  <2>2. QED
    BY <2>1 DEF CalmInv, Quiet
<1>2. HeldInv' /\ OverrideInv'
  BY DEF ShownInv, HeldInv, OverrideInv, Quiet
<1>3. ToldInv'
  BY DEF ShownInv, ToldInv, Quiet
<1>4. QED
  BY <1>1, <1>2, <1>3 DEF ShownInv

\* The goroutine that tells was at work, so no calm edit is younger than its own.
LEMMA TellStep ==
  ASSUME IInv, ShownInv, NEW j \in Jobs, Tell(j)
  PROVE  ShownInv'
<1> DEFINE note == [job |-> j, count |-> collected[j]]
           N == Len(inbox) + 1
<1>1. /\ DOMAIN inbox = 1..Len(inbox) /\ Len(inbox) \in Nat
      /\ \A i \in DOMAIN inbox : inbox[i].job \in Jobs /\ pc[inbox[i].job] = "end"
      /\ j \in DOMAIN edits
      /\ DOMAIN edits \subseteq Jobs
  <2>1. pc[j] = "notify"
    BY DEF Tell
  <2>2. j \in DOMAIN edits
    BY <2>1 DEF IInv, PipelineInv
  <2>3. DOMAIN edits \subseteq Jobs
    BY InboxTyped
  <2>4. QED
    BY <2>2, <2>3, InboxTyped
<1>2. /\ DOMAIN inbox' = 1..N
      /\ \A i \in DOMAIN inbox : i \in DOMAIN inbox' /\ inbox'[i] = inbox[i]
      /\ inbox'[N].job = j
  <2>1. inbox \in Seq(Notice) /\ inbox' = Append(inbox, note)
    BY DEF IInv, TypeOK, Tell
  <2>2. QED
    BY <1>1, <2>1
<1>3. pc' = [pc EXCEPT ![j] = "end"] /\ pc \in [Jobs -> JobStates] /\ pc[j] = "notify"
  BY DEF Tell, IInv, TypeOK
<1>4. UNCHANGED <<edits, calm, textDocuments, online, seen>>
  BY DEF Tell
<1>5. CalmInv'
  <2>1. ASSUME NEW k \in calm
        PROVE  /\ k \in DOMAIN edits
               /\ \A m \in 1..(k - 1) :
                     edits[m].uri = edits[k].uri => pc'[m] \in {"failed", "end"}
    <3>1. k \in DOMAIN edits /\ k \in Jobs
      BY <1>1 DEF ShownInv, CalmInv
    <3>2. 1..(k - 1) \subseteq Jobs
      BY <3>1
    <3>3. QED
      BY <1>3, <3>1, <3>2 DEF ShownInv, CalmInv
  <2>2. QED
    BY <1>4, <2>1 DEF CalmInv
<1>6. HeldInv'
  BY <1>4 DEF ShownInv, HeldInv
<1>7. ToldInv'
  <2>1. ASSUME online, NEW k \in Jobs, pc'[k] = "end", seen[k] = "set"
        PROVE  \E i \in DOMAIN inbox' : inbox'[i].job = k
    <3>1. CASE k = j
      <4>1. N \in DOMAIN inbox'
        BY <1>1, <1>2
      <4>2. QED
        BY <1>2, <3>1, <4>1
    <3>2. CASE k # j
      <4>1. pc[k] = "end"
        BY <1>3, <2>1, <3>2
      <4>2. PICK i \in DOMAIN inbox : inbox[i].job = k
        BY <2>1, <4>1 DEF ShownInv, ToldInv
      <4>3. QED
        BY <1>2, <4>2
    <3>3. QED
      BY <3>1, <3>2
  <2>2. QED
    BY <1>4, <2>1 DEF ToldInv
<1>8. OverrideInv'
  <2>1. ASSUME NEW i \in DOMAIN inbox', NEW m \in DOMAIN inbox', i < m,
               inbox'[i].job \in calm,
               edits[inbox'[i].job].uri = edits[inbox'[m].job].uri
        PROVE  inbox'[i].job < inbox'[m].job
    <3>1. i \in DOMAIN inbox /\ (m \in DOMAIN inbox \/ m = N)
      BY <1>1, <1>2, <2>1
    <3>2. CASE m \in DOMAIN inbox
      <4>1. inbox'[i] = inbox[i] /\ inbox'[m] = inbox[m]
        BY <1>2, <3>1, <3>2
      <4>2. QED
        BY <2>1, <3>1, <3>2, <4>1 DEF ShownInv, OverrideInv
    <3>3. CASE m = N
      <4> DEFINE k == inbox[i].job
      <4>1. inbox'[i].job = k /\ inbox'[m].job = j
        BY <1>2, <3>1, <3>3
      <4>2. k \in Jobs /\ pc[k] = "end" /\ k \in calm /\ edits[k].uri = edits[j].uri
        BY <1>1, <2>1, <3>1, <4>1
      <4>3. j \notin 1..(k - 1)
        BY <1>3, <4>2 DEF ShownInv, CalmInv
      <4>4. k # j
        BY <1>3, <4>2
      <4> HIDE DEF k
      <4>5. k < j
        BY ONLY <4>2, <4>3, <4>4, j \in Jobs, BoundAssumption
      <4>6. QED
        BY <4>1, <4>5
    <3>4. QED
      BY <3>1, <3>2, <3>3
  <2>2. QED
    BY <1>4, <2>1 DEF OverrideInv
<1>9. QED
  BY <1>5, <1>6, <1>7, <1>8 DEF ShownInv

\* A new edit is the last of its document, and it is calm only if every earlier
\* edit of the document has ended.
LEMMA EditStep ==
  ASSUME IInv, ShownInv, NEW u \in Uris, NEW t \in Texts, StoreTextDocumentItem(u, t)
  PROVE  ShownInv'
<1> DEFINE n == Len(edits) + 1
           edit == [uri |-> u, text |-> t]
<1>1. /\ DOMAIN edits = 1..Len(edits) /\ Len(edits) \in Nat /\ n \in Jobs
      /\ DOMAIN edits \subseteq Jobs /\ n \notin DOMAIN edits
      /\ \A i \in DOMAIN inbox : inbox[i].job \in DOMAIN edits
  BY InboxTyped DEF StoreTextDocumentItem
<1>2. /\ DOMAIN edits' = DOMAIN edits \cup {n}
      /\ \A k \in DOMAIN edits : edits'[k] = edits[k]
      /\ edits'[n].uri = u /\ edits'[n].text = t
  <2>1. edits \in Seq(Edit) /\ edits' = Append(edits, edit)
    BY DEF IInv, TypeOK, StoreTextDocumentItem
  <2>2. QED
    BY <1>1, <2>1
<1>3. /\ pc \in [Jobs -> JobStates] /\ pc' = [pc EXCEPT ![n] = "queued"]
      /\ \A k \in DOMAIN edits : pc'[k] = pc[k] /\ pc[k] # "idle"
  <2>1. \A k \in DOMAIN edits : pc[k] # "idle"
    BY <1>1 DEF IInv, PipelineInv
  <2>2. QED
    BY <1>1, <2>1 DEF IInv, TypeOK, StoreTextDocumentItem
<1>4. /\ UNCHANGED <<inbox, online, seen>>
      /\ textDocuments' = [textDocuments EXCEPT ![u] = t]
      /\ textDocuments \in [Uris -> Texts \cup {NoText}]
      /\ calm' = IF InProcess(u) THEN calm ELSE calm \cup {n}
  BY DEF StoreTextDocumentItem, IInv, TypeOK
<1>5. CalmInv'
  <2>1. ASSUME NEW k \in calm
        PROVE  /\ k \in DOMAIN edits'
               /\ \A j \in 1..(k - 1) :
                     edits'[j].uri = edits'[k].uri => pc'[j] \in {"failed", "end"}
    <3>1. k \in DOMAIN edits
      BY DEF ShownInv, CalmInv
    <3>2. 1..(k - 1) \subseteq DOMAIN edits
      BY <1>1, <3>1
    <3>3. QED
      BY <1>2, <1>3, <3>1, <3>2 DEF ShownInv, CalmInv
  <2>2. ASSUME n \in calm'
        PROVE  \A j \in 1..(n - 1) :
                  edits'[j].uri = edits'[n].uri => pc'[j] \in {"failed", "end"}
    <3>1. n \notin calm
      BY <1>1 DEF ShownInv, CalmInv
    <3>2. ~InProcess(u)
      BY <1>4, <2>2, <3>1
    <3>3. \A j \in DOMAIN edits : edits[j].uri = u => pc[j] \in {"failed", "end"}
      BY <1>3, <3>2 DEF InProcess, Finished
    <3>4. 1..(n - 1) = DOMAIN edits
      BY <1>1
    <3>5. QED
      BY <1>2, <1>3, <3>3, <3>4
  <2>3. calm' \subseteq calm \cup {n} /\ n \in DOMAIN edits'
    BY <1>2, <1>4
  <2>4. QED
    BY <2>1, <2>2, <2>3 DEF CalmInv
<1>6. HeldInv'
  <2>1. ASSUME NEW k \in DOMAIN edits',
               \A m \in DOMAIN edits' : edits'[m].uri = edits'[k].uri => m <= k
        PROVE  textDocuments'[edits'[k].uri] = edits'[k].text
    <3>1. CASE k = n
      BY <1>2, <1>4, <3>1
    <3>2. CASE k # n
      <4>1. k \in DOMAIN edits
        BY <1>2, <3>2
      <4>2. ~(n <= k) /\ n \in DOMAIN edits'
        BY <1>1, <1>2, <4>1
      <4>3. edits[k].uri # u
        BY <1>2, <2>1, <4>1, <4>2
      <4>4. \A m \in DOMAIN edits : edits[m].uri = edits[k].uri => m <= k
        BY <1>2, <2>1, <4>1
      <4>5. textDocuments[edits[k].uri] = edits[k].text
        BY <4>1, <4>4 DEF ShownInv, HeldInv
      <4>6. edits[k].uri \in Uris
        <5>1. edits \in Seq(Edit)
          BY DEF IInv, TypeOK
        <5>2. edits[k] \in Edit
          BY <4>1, <5>1
        <5>3. QED
          BY <5>2 DEF Edit
      <4>7. QED
        BY <1>2, <1>4, <4>1, <4>3, <4>5, <4>6
    <3>3. QED
      BY <3>1, <3>2
  <2>2. QED
    BY <2>1 DEF HeldInv
<1>7. ToldInv'
  <2>1. \A j \in Jobs : pc'[j] = "end" => pc[j] = "end"
    BY <1>1, <1>3
  <2>2. QED
    BY <1>4, <2>1 DEF ShownInv, ToldInv
<1>8. OverrideInv'
  <2>1. \A i \in DOMAIN inbox :
          /\ edits'[inbox[i].job] = edits[inbox[i].job]
          /\ inbox[i].job \in calm' => inbox[i].job \in calm
    BY <1>1, <1>2, <1>4
  <2>2. QED
    BY <1>4, <2>1 DEF ShownInv, OverrideInv
<1>9. QED
  BY <1>5, <1>6, <1>7, <1>8 DEF ShownInv

LEMMA ShownInit == Init => ShownInv
  BY DEF Init, ShownInv, CalmInv, HeldInv, ToldInv, OverrideInv

LEMMA ShownStep == IInv /\ ShownInv /\ [Next]_vars => ShownInv'
  BY StepKinds, UntoldStep, TellStep, EditStep

\* A set of numbers within bounds has a greatest element: the least of the
\* distances to the bound is its.
LEMMA GreatestOf ==
  ASSUME NEW N \in Nat, NEW S \in SUBSET (1..N), S # {}
  PROVE  \E x \in S : \A y \in S : y <= x
<1> DEFINE R == OpToRel(<, Nat)
           T == {N - s : s \in S}
<1>1. \A s \in S : s \in Int /\ N - s \in Nat
  OBVIOUS
<1>2. T \subseteq Nat /\ T # {}
  BY <1>1
<1>3. IsWellFoundedOn(R, Nat)
  BY NatLessThanWellFounded
<1> HIDE DEF R
<1>4. PICK t \in T : \A y \in T : <<y, t>> \notin R
  <2> HIDE DEF T
  <2>1. QED
    BY <1>2, <1>3, WFMin
<1>5. PICK x \in S : t = N - x
  BY <1>4
<1>6. ASSUME NEW y \in S PROVE y <= x
  <2>1. N - y \in T /\ N - y \in Nat /\ t \in Nat
    BY <1>1, <1>2
  <2>2. ~(N - y < t)
    BY <1>4, <2>1 DEF R, OpToRel
  <2>3. QED
    BY <1>1, <1>5, <2>2
<1>7. QED
  BY <1>6

\* The last notification about a document whose last edit is calm is about that
\* edit: an earlier edit's cannot come after it, and a later edit there is not.
LEMMA ShownFollows == IInv /\ ShownInv => ShownIsCurrent
<1> SUFFICES ASSUME IInv, ShownInv, alive, online, NEW u \in Uris
    PROVE LET mine == {k \in DOMAIN edits : edits[k].uri = u}
              last == CHOOSE k \in mine : \A m \in mine : m <= k
              told == {i \in DOMAIN inbox : edits[inbox[i].job].uri = u}
              top  == CHOOSE i \in told : \A m \in told : m <= i
          IN  /\ mine # {} /\ ~InProcess(u)
              /\ last \in calm /\ pc[last] = "end" /\ seen[last] = "set"
              => /\ told # {}
                 /\ inbox[top].job = last
                 /\ textDocuments[u] = TextOf(last)
  BY DEF ShownIsCurrent
<1> DEFINE mine == {k \in DOMAIN edits : edits[k].uri = u}
           last == CHOOSE k \in mine : \A m \in mine : m <= k
           told == {i \in DOMAIN inbox : edits[inbox[i].job].uri = u}
           top  == CHOOSE i \in told : \A m \in told : m <= i
<1> SUFFICES ASSUME mine # {}, last \in calm, pc[last] = "end", seen[last] = "set"
             PROVE  told # {} /\ inbox[top].job = last /\ textDocuments[u] = TextOf(last)
  OBVIOUS
<1>1. /\ DOMAIN inbox = 1..Len(inbox) /\ Len(inbox) \in Nat
      /\ DOMAIN edits = 1..Len(edits) /\ Len(edits) \in Nat /\ Len(edits) <= MaxEdits
      /\ \A i \in DOMAIN inbox : inbox[i].job \in DOMAIN edits
  BY InboxTyped
<1>2. last \in mine /\ \A m \in mine : m <= last
  <2>1. mine \in SUBSET (1..Len(edits))
    BY <1>1
  <2>2. \E k \in mine : \A m \in mine : m <= k
    <3> HIDE DEF mine
    <3>1. QED
      BY <1>1, <2>1, GreatestOf
  <2> HIDE DEF mine
  <2>3. QED
    BY <2>2
<1> HIDE DEF last
<1>3. textDocuments[u] = TextOf(last)
  BY <1>2 DEF ShownInv, HeldInv, TextOf
<1>4. PICK i \in DOMAIN inbox : inbox[i].job = last
  <2>1. last \in Jobs
    BY <1>1, <1>2
  <2>2. QED
    BY <2>1 DEF ShownInv, ToldInv
<1>5. i \in told
  BY <1>2, <1>4
<1>6. top \in told /\ \A m \in told : m <= top
  <2>1. told \in SUBSET (1..Len(inbox)) /\ told # {}
    BY <1>1, <1>5
  <2>2. \E x \in told : \A m \in told : m <= x
    <3> HIDE DEF told
    <3>1. QED
      BY <1>1, <2>1, GreatestOf
  <2> HIDE DEF told
  <2>3. QED
    BY <2>2
<1> HIDE DEF top
<1>7. inbox[top].job = last
  <2>1. inbox[top].job \in mine
    BY <1>1, <1>6
  <2>2. inbox[top].job <= last
    BY <1>2, <2>1
  <2>3. CASE i < top
    <3>1. last < inbox[top].job
      BY <1>2, <1>4, <1>6, <2>1, <2>3 DEF ShownInv, OverrideInv
    <3>2. last \in Int /\ inbox[top].job \in Int
      BY <1>1, <1>2, <2>1
    <3>3. QED
      BY ONLY <2>2, <3>1, <3>2
  <2>4. CASE ~(i < top)
    <3>1. i <= top /\ i \in Int /\ top \in Int
      BY <1>1, <1>5, <1>6
    <3>2. i = top
      BY ONLY <2>4, <3>1
    <3>3. QED
      BY <1>4, <3>2
  <2>5. QED
    BY <2>3, <2>4
<1>8. QED
  BY <1>3, <1>5, <1>7

\* Whatever the interleaving, what the client shows of a document at rest, whose
\* last edit was calm and was processed with a connection, is what the server
\* found in the text it holds.
THEOREM ShownAtRest == Spec => []ShownIsCurrent
<1>1. Spec => []ShownInv
  BY Invariance, ShownInit, ShownStep, PTL DEF Spec
<1>2. QED
  BY <1>1, Invariance, ShownFollows, PTL
-----------------------------------------------------------------------------
(* Diagnostics implements DiagnosticsService: what an edit stands for       *)
(* changes in one step, at the moment its goroutine sees no connection,     *)
(* gives up or notifies.                                                    *)

LEMMA EditsAreJobs == TypeOK => DOMAIN edits \subseteq Jobs
  BY BoundAssumption DEF TypeOK, Jobs

\* A goroutine that read a whole connection read it after main had stored it.
LinkInv == \A j \in Jobs : seen[j] = "set" => conn = "set"

\* What DiagnosticsService calls "state".
States == [j \in DOMAIN edits |-> Standing(j)]

LEMMA LinkInit == Init => LinkInv
  BY DEF Init, LinkInv

LEMMA LinkStep == TypeOK /\ LinkInv /\ [Next]_vars => LinkInv'
<1> SUFFICES ASSUME TypeOK, LinkInv, [Next]_vars PROVE LinkInv'
  OBVIOUS
<1> USE DEF LinkInv, TypeOK, procVars, clientVars, chanVars
<1>1. CASE Main
  BY <1>1 DEF Main, SetConnBegin, SetConnEnd
<1>2. CASE Client
  BY <1>2 DEF Client, Disconnect, DidClose, DidOpen, DidChange, StoreTextDocumentItem
<1>3. ASSUME NEW j \in Jobs, Watch(j) PROVE LinkInv'
  <2>1. PICK c \in ConnReads : seen' = [seen EXCEPT ![j] = c]
    BY <1>3 DEF Watch
  <2>2. c = "set" => conn = "set"
    BY DEF ConnReads
  <2>3. conn' = conn
    BY <1>3 DEF Watch
  <2>4. QED
    BY <2>1, <2>2, <2>3
<1>4. ASSUME NEW j \in Jobs, Process(j), ~Watch(j) PROVE LinkInv'
  BY <1>4 DEF Process, Lex, PublishDiag, ParseReturn, DesugarFile, AwaitDone, Notify
<1>5. ASSUME NEW j \in Jobs, Collector(j) PROVE LinkInv'
  BY <1>5 DEF Collector, Collect, CloseDone
<1>6. CASE UNCHANGED vars
  BY <1>6 DEF vars
<1>7. QED
  BY <1>1, <1>2, <1>3, <1>4, <1>5, <1>6 DEF Next

----------------------------------------------------------------------------
(* How the standing of an edit changes.                                    *)

\* An edit stands where it stood if its goroutine did not move and nothing was
\* sent.
LEMMA StandingKept ==
  ASSUME NEW k, inbox' = inbox, pc'[k] = pc[k], seen'[k] = seen[k]
  PROVE  Standing(k)' = Standing(k)
  BY DEF Standing

\* A goroutine that has not ended has told nothing.
LEMMA NotTold ==
  ASSUME IInv, NEW j \in Jobs, pc[j] # "end"
  PROVE  ~ \E i \in DOMAIN inbox : inbox[i].job = j
  BY DEF IInv, InboxInv

\* Standings that are all kept are the same function.
LEMMA StatesKept ==
  ASSUME edits' = edits, \A k \in DOMAIN edits : Standing(k)' = Standing(k)
  PROVE  States' = States
  BY DEF States

\* One standing that changes is an update of the function.
LEMMA StatesUpdated ==
  ASSUME edits' = edits, NEW j \in DOMAIN edits, NEW s, Standing(j)' = s,
         \A k \in DOMAIN edits : k # j => Standing(k)' = Standing(k)
  PROVE  States' = [States EXCEPT ![j] = s]
  BY DEF States

ServiceKept ==
    /\ UNCHANGED <<edits, inbox, online, alive>>
    /\ (conn = "set")' = (conn = "set")
    /\ States' = States

LEMMA Stutter ==
  ASSUME ServiceKept
  PROVE  UNCHANGED Service!vars
  BY DEF ServiceKept, Service!vars, States

Goal == Service!Next \/ UNCHANGED Service!vars

\* Goroutine j moves, sends nothing, and its edit stands where it stood.
LEMMA QuietStep ==
  ASSUME UNCHANGED <<edits, inbox, online, alive, conn>>,
         NEW j \in Jobs, Standing(j)' = Standing(j),
         \A k \in Jobs : k # j => pc'[k] = pc[k] /\ seen'[k] = seen[k],
         TypeOK
  PROVE  UNCHANGED Service!vars
<1>1. ASSUME NEW k \in DOMAIN edits PROVE Standing(k)' = Standing(k)
  <2>1. k \in Jobs
    BY EditsAreJobs
  <2>2. QED
    BY <2>1, StandingKept
<1>2. QED
  BY <1>1, StatesKept, Stutter DEF ServiceKept

\* Goroutine j gives its edit up, with an excuse.
LEMMA DropStep ==
  ASSUME UNCHANGED <<edits, inbox, online, alive, conn>>, alive,
         NEW j \in DOMAIN edits, Standing(j) = "pending", Standing(j)' = "dropped",
         \A k \in Jobs : k # j => pc'[k] = pc[k] /\ seen'[k] = seen[k],
         TypeOK,
         \/ Outcome[TextOf(j)] # "ok"
         \/ edits[j].uri \in BadUris
         \/ conn # "set"
         \/ ~online
  PROVE  Service!Next
<1>1. ASSUME NEW k \in DOMAIN edits, k # j PROVE Standing(k)' = Standing(k)
  <2>1. k \in Jobs
    BY EditsAreJobs
  <2>2. QED
    BY <1>1, <2>1, StandingKept
<1>2. States' = [States EXCEPT ![j] = "dropped"]
  BY <1>1, StatesUpdated
<1>3. States[j] = "pending"
  BY DEF States
<1>4. Service!Drop(j)
  BY <1>2, <1>3 DEF Service!Drop, Service!Pending, States, TextOf
<1>5. QED
  BY <1>4 DEF Service!Next, Service!Resolve

----------------------------------------------------------------------------
(* The steps of a goroutine.                                               *)

LEMMA WatchRefines ==
  ASSUME IInv, NEW j \in Jobs, Watch(j)
  PROVE  Goal
<1> USE DEF IInv, procVars, clientVars, chanVars
<1>1. /\ alive /\ pc[j] = "queued" /\ j \in DOMAIN edits
      /\ UNCHANGED <<edits, inbox, online, alive, conn>>
      /\ \A k \in Jobs : k # j => pc'[k] = pc[k] /\ seen'[k] = seen[k]
  BY DEF Watch, At, Goto, TypeOK, PipelineInv
<1>2. Standing(j) = "pending"
  BY <1>1, NotTold DEF Standing
<1>3. PICK c \in ConnReads : seen'[j] = c
  BY DEF Watch, TypeOK
<1>4. CASE edits[j].uri \in BadUris
  <2>1. pc'[j] = "failed"
    BY <1>4 DEF Watch, Goto, TypeOK
  <2>2. Standing(j)' = "dropped"
    BY <1>1, <2>1, NotTold DEF Standing
  <2>3. QED
    BY <1>1, <1>2, <1>4, <2>2, DropStep DEF Goal
<1>5. CASE edits[j].uri \notin BadUris
  <2>1. pc'[j] = "lex"
    BY <1>5 DEF Watch, Goto, TypeOK
  <2>2. CASE c = "nil"
    <3>1. conn # "set"
      BY <2>2 DEF ConnReads
    <3>2. Standing(j)' = "dropped"
      BY <1>1, <1>3, <2>1, <2>2, NotTold DEF Standing
    <3>3. QED
      BY <1>1, <1>2, <3>1, <3>2, DropStep DEF Goal
  <2>3. CASE c # "nil"
    <3>1. Standing(j)' = "pending"
      BY <1>1, <1>3, <2>1, <2>3, NotTold DEF Standing
    <3>2. QED
      BY <1>1, <1>2, <3>1, QuietStep DEF Goal
  <2>4. QED
    BY <2>2, <2>3
<1>6. QED
  BY <1>4, <1>5

\* Between watch and the end, a goroutine that keeps what it read stands where
\* it stood unless it fails.
LEMMA MoveRefines ==
  ASSUME IInv, NEW j \in Jobs,
         alive, pc[j] \in {"lex", "parse", "desugar", "wait"},
         UNCHANGED <<edits, inbox, online, conn, seen>>,
         \A k \in Jobs : k # j => pc'[k] = pc[k],
         \/ /\ pc'[j] \in {"lex", "parse", "desugar", "wait", "notify"}
            /\ alive' = alive
         \/ pc'[j] = "end" /\ seen[j] = "nil" /\ alive' = alive
         \/ /\ pc'[j] = "failed" /\ alive' = alive
            /\ Outcome[TextOf(j)] # "ok"
         \/ pc' = pc /\ alive' = FALSE
  PROVE  Goal
<1> USE DEF IInv
<1>1. j \in DOMAIN edits /\ ~ \E i \in DOMAIN inbox : inbox[i].job = j
  BY NotTold DEF PipelineInv
<1>2. CASE pc' = pc /\ alive' = FALSE
  <2>1. ASSUME NEW k \in DOMAIN edits PROVE Standing(k)' = Standing(k)
    BY <1>2, <2>1, StandingKept
  <2>2. States' = States
    BY <2>1, StatesKept
  <2>3. Service!Die
    BY <1>2, <2>2 DEF Service!Die, States
  <2>4. QED
    BY <2>3 DEF Goal, Service!Next
<1>3. CASE alive' = alive /\ seen[j] = "nil"
  <2>1. pc'[j] \notin {"queued", "idle"}
    BY <1>2, <1>3
  <2>2. Standing(j) = "dropped" /\ Standing(j)' = "dropped"
    BY <1>1, <1>3, <2>1 DEF Standing
  <2>3. QED
    BY <1>3, <2>2, QuietStep DEF Goal
<1>4. CASE alive' = alive /\ seen[j] # "nil" /\ pc'[j] \notin {"failed", "end"}
  <2>1. Standing(j) = "pending" /\ Standing(j)' = "pending"
    BY <1>1, <1>4 DEF Standing
  <2>2. QED
    BY <1>4, <2>1, QuietStep DEF Goal
<1>5. CASE alive' = alive /\ seen[j] # "nil" /\ pc'[j] = "failed"
  <2>1. Standing(j) = "pending" /\ Standing(j)' = "dropped"
    BY <1>1, <1>5 DEF Standing
  <2>2. Outcome[TextOf(j)] # "ok"
    BY <1>5
  <2>3. QED
    BY <1>1, <1>5, <2>1, <2>2, DropStep DEF Goal
<1>6. QED
  BY <1>2, <1>3, <1>4, <1>5

LEMMA ProcessRefines ==
  ASSUME IInv, NEW j \in Jobs, Process(j), ~Watch(j), ~Notify(j)
  PROVE  Goal
<1> USE DEF IInv, TypeOK, At, Goto, procVars, clientVars, chanVars
<1>1. CASE Lex(j)
  BY <1>1, MoveRefines DEF Lex
<1>2. CASE PublishDiag(j)
  BY <1>2, MoveRefines DEF PublishDiag
<1>3. CASE ParseReturn(j)
  BY <1>3, MoveRefines DEF ParseReturn
<1>4. CASE DesugarFile(j)
  BY <1>4, MoveRefines DEF DesugarFile
<1>5. CASE AwaitDone(j)
  BY <1>5, MoveRefines DEF AwaitDone
<1>6. QED
  BY <1>1, <1>2, <1>3, <1>4, <1>5 DEF Process

LEMMA CollectorRefines ==
  ASSUME IInv, NEW j \in Jobs, Collector(j)
  PROVE  Goal
<1>1. UNCHANGED <<edits, inbox, online, alive, conn, pc, seen>>
  BY DEF Collector, Collect, CloseDone, procVars, clientVars
<1>2. Standing(j)' = Standing(j)
  BY <1>1, StandingKept
<1>3. QED
  BY <1>1, <1>2, QuietStep DEF Goal, IInv

\* The notification is the one Tell makes: its count is complete because the
\* collector is done.
LEMMA NotifyRefines ==
  ASSUME IInv, LinkInv, NEW j \in Jobs, Notify(j)
  PROVE  Goal
<1> USE DEF IInv, procVars, clientVars, chanVars
<1>1. /\ alive /\ pc[j] = "notify" /\ j \in DOMAIN edits
      /\ UNCHANGED <<edits, online, conn, seen>>
      /\ Good(j) /\ seen[j] # "nil"
      /\ collected[j] = NumDiags[TextOf(j)]
      /\ ~ \E i \in DOMAIN inbox : inbox[i].job = j
  <2>1. alive /\ pc[j] = "notify" /\ UNCHANGED <<edits, online, conn, seen>>
    BY DEF Notify, At
  <2>2. /\ j \in DOMAIN edits /\ Good(j) /\ seen[j] # "nil"
        /\ collector[j] = "done" /\ closed[j]
    BY <2>1 DEF PipelineInv
  <2>3. collected[j] + buffered[j] = NumDiags[TextOf(j)] /\ buffered[j] = 0
    BY <2>2 DEF ChannelInv
  <2>4. collected[j] = NumDiags[TextOf(j)]
    BY <2>3 DEF TypeOK
  <2>5. QED
    BY <2>1, <2>2, <2>4, NotTold
<1>2. Standing(j) = "pending"
  BY <1>1 DEF Standing
<1>3. CASE seen[j] = "torn"
  <2>1. pc' = pc /\ alive' = FALSE /\ inbox' = inbox
    BY <1>3 DEF Notify
  <2>2. ASSUME NEW k \in DOMAIN edits PROVE Standing(k)' = Standing(k)
    BY <1>1, <2>1, StandingKept
  <2>3. States' = States
    BY <1>1, <2>2, StatesKept
  <2>4. Service!Die
    BY <1>1, <2>1, <2>3 DEF Service!Die, States
  <2>5. QED
    BY <2>4 DEF Goal, Service!Next
<1>4. CASE seen[j] = "set" /\ ~online
  <2>1. pc' = [pc EXCEPT ![j] = "end"] /\ alive' = alive /\ inbox' = inbox
    BY <1>4 DEF Notify, Goto
  <2>2. Standing(j)' = "dropped"
    BY <1>1, <2>1 DEF Standing, TypeOK
  <2>3. \A k \in Jobs : k # j => pc'[k] = pc[k] /\ seen'[k] = seen[k]
    BY <1>1, <2>1 DEF TypeOK
  <2>4. QED
    BY <1>1, <1>2, <1>4, <2>1, <2>2, <2>3, DropStep DEF Goal
<1>5. CASE seen[j] = "set" /\ online
  <2> DEFINE note == [job |-> j, count |-> collected[j]]
  <2>1. pc' = [pc EXCEPT ![j] = "end"] /\ alive' = alive /\ inbox' = Append(inbox, note)
    BY <1>5 DEF Notify, Goto
  <2>2. /\ DOMAIN inbox = 1..Len(inbox) /\ Len(inbox) \in Nat
        /\ DOMAIN inbox' = 1..Len(inbox) + 1
        /\ inbox'[Len(inbox) + 1] = note
        /\ \A i \in DOMAIN inbox : inbox'[i] = inbox[i]
    BY <2>1 DEF TypeOK
  <2>3. Standing(j)' = "told"
    <3>1. inbox'[Len(inbox) + 1].job = j /\ Len(inbox) + 1 \in DOMAIN inbox'
      BY <2>2
    <3>2. \E i \in DOMAIN inbox' : inbox'[i].job = j
      BY ONLY <3>1
    <3>3. QED
      BY ONLY <3>2 DEF Standing
  <2>4. ASSUME NEW k \in DOMAIN edits, k # j PROVE Standing(k)' = Standing(k)
    <3>1. pc'[k] = pc[k] /\ seen'[k] = seen[k]
      BY <1>1, <2>1, <2>4, EditsAreJobs DEF TypeOK
    <3>2. (\E i \in DOMAIN inbox' : inbox'[i].job = k)
             <=> (\E i \in DOMAIN inbox : inbox[i].job = k)
      BY <2>2, <2>4
    <3>3. QED
      BY <3>1, <3>2 DEF Standing
  <2>5. States' = [States EXCEPT ![j] = "told"]
    BY <1>1, <2>3, <2>4, StatesUpdated
  <2>6. States[j] = "pending" /\ conn = "set"
    BY <1>1, <1>2, <1>5 DEF States, LinkInv
  <2>7. Service!Tell(j)
    BY <1>1, <1>5, <2>1, <2>5, <2>6 DEF Service!Tell, Service!Pending, States, TextOf, Good
  <2>8. QED
    BY <1>1, <2>7 DEF Goal, Service!Next, Service!Resolve
<1>6. QED
  BY <1>1, <1>3, <1>4, <1>5 DEF Notify

----------------------------------------------------------------------------
(* The steps of main and of the client.                                    *)

LEMMA StoreRefines ==
  ASSUME IInv, NEW u \in Uris, NEW t \in Texts, StoreTextDocumentItem(u, t)
  PROVE  Goal
<1> USE DEF IInv, procVars, clientVars, chanVars
<1>0. PICK n \in Jobs : n = Len(edits) + 1
  BY BoundAssumption DEF StoreTextDocumentItem, TypeOK, Jobs
<1>1. /\ alive /\ online /\ n = Len(edits) + 1
      /\ edits' = Append(edits, [uri |-> u, text |-> t])
      /\ pc' = [pc EXCEPT ![n] = "queued"]
      /\ UNCHANGED <<alive, conn, online, inbox, seen>>
  BY <1>0 DEF StoreTextDocumentItem, TypeOK
<1>2. /\ DOMAIN edits = 1..Len(edits) /\ Len(edits) \in Nat
      /\ DOMAIN edits' = 1..n
  BY <1>1 DEF TypeOK
<1>3. pc[n] = "idle" /\ pc'[n] = "queued"
  BY <1>1, <1>2 DEF PipelineInv, TypeOK
<1>4. Standing(n)' = "pending"
  BY <1>1, <1>3, NotTold DEF Standing
<1>5. ASSUME NEW k \in DOMAIN edits PROVE Standing(k)' = Standing(k)
  <2>1. pc'[k] = pc[k] /\ seen'[k] = seen[k]
    BY <1>1, <1>2, <1>5, EditsAreJobs DEF TypeOK
  <2>2. QED
    BY <1>1, <2>1, StandingKept
<1>6. States' = Append(States, "pending")
  <2> DEFINE S == {"told", "dropped", "pending"}
  <2>1. States \in Seq(S) /\ Len(States) = Len(edits)
    <3>1. \A k \in DOMAIN edits : Standing(k) \in S
      BY DEF Standing
    <3>2. States \in [1..Len(edits) -> S]
      BY <1>2, <3>1 DEF States
    <3>3. QED
      BY <1>2, <3>2
  <2>2. States' = [k \in 1..n |-> Standing(k)']
    BY <1>2 DEF States
  <2>3. Append(States, "pending")
           = [k \in 1..n |-> IF k = n THEN "pending" ELSE States[k]]
    <3> HIDE DEF S
    <3>1. "pending" \in S
      BY DEF S
    <3> DEFINE A == Append(States, "pending")
    <3>2. /\ A \in Seq(S) /\ Len(A) = Len(States) + 1
          /\ \A k \in 1..Len(States) : A[k] = States[k]
          /\ A[Len(States) + 1] = "pending"
      BY ONLY <2>1, <3>1, AppendProperties
    <3>3. A = [k \in 1..n |-> A[k]]
      <4> HIDE DEF A
      <4>1. QED
        BY <1>1, <2>1, <3>2
    <3>4. \A k \in 1..n : A[k] = IF k = n THEN "pending" ELSE States[k]
      <4> HIDE DEF A
      <4>1. n = Len(States) + 1 /\ Len(States) \in Nat
        BY <1>1, <1>2, <2>1
      <4>2. A[n] = "pending"
        BY ONLY <3>2, <4>1
      <4>3. ASSUME NEW k \in 1..n, k # n PROVE A[k] = States[k]
        <5>1. k \in 1..Len(States)
          BY ONLY <4>1, <4>3
        <5>2. QED
          BY ONLY <3>2, <5>1
      <4>4. QED
        BY ONLY <4>2, <4>3
    <3>5. QED
      BY <3>3, <3>4
  <2>4. ASSUME NEW k \in 1..n
        PROVE  Standing(k)' = IF k = n THEN "pending" ELSE States[k]
    <3>1. k = n \/ k \in DOMAIN edits
      BY <1>1, <1>2
    <3>2. n \notin DOMAIN edits
      BY <1>1, <1>2
    <3>3. QED
      BY <1>4, <1>5, <3>1, <3>2 DEF States
  <2>5. QED
    BY <2>2, <2>3, <2>4
<1>7. Service!Submit(u, t)
  BY <1>1, <1>6 DEF Service!Submit, States
<1>8. QED
  BY <1>7 DEF Goal, Service!Next

LEMMA StepRefines ==
  ASSUME IInv, LinkInv, [Next]_vars
  PROVE  Goal
<1> USE DEF procVars, clientVars, chanVars
<1>1. ASSUME UNCHANGED <<edits, inbox, pc, seen>> PROVE States' = States
  BY <1>1, StandingKept, StatesKept
<1>2. CASE SetConnBegin
  BY <1>1, <1>2, Stutter DEF SetConnBegin, ServiceKept, Goal
<1>3. CASE SetConnEnd
  <2>1. Service!Link
    BY <1>1, <1>3 DEF SetConnEnd, Service!Link, States
  <2>2. QED
    BY <2>1 DEF Goal, Service!Next
<1>4. CASE Disconnect
  <2>1. Service!Leave
    BY <1>1, <1>4 DEF Disconnect, Service!Leave, States
  <2>2. QED
    BY <2>1 DEF Goal, Service!Next
<1>5. ASSUME NEW u \in Uris, DidClose(u) PROVE Goal
  BY <1>1, <1>5, Stutter DEF DidClose, ServiceKept, Goal
<1>6. ASSUME NEW u \in Uris, NEW t \in Texts, DidOpen(u, t) \/ DidChange(u, t)
      PROVE  Goal
  BY <1>6, StoreRefines DEF DidOpen, DidChange
<1>7. ASSUME NEW j \in Jobs, Process(j) PROVE Goal
  BY <1>7, WatchRefines, ProcessRefines, NotifyRefines
<1>8. ASSUME NEW j \in Jobs, Collector(j) PROVE Goal
  BY <1>8, CollectorRefines
<1>9. CASE UNCHANGED vars
  BY <1>1, <1>9, Stutter DEF vars, ServiceKept, Goal
<1>10. QED
  BY <1>2, <1>3, <1>4, <1>5, <1>6, <1>7, <1>8, <1>9 DEF Next, Main, Client

\* The pipeline implements the service: every edit is told at most once and
\* completely, or dropped for an excuse DiagnosticsService lists.
THEOREM Implementation == Spec => ImplementsService
<1>1. Init => Service!Init
  BY DEF Init, Service!Init
<1>2. IInv /\ LinkInv /\ [Next]_vars => [Service!Next]_(Service!vars)
  BY StepRefines DEF Goal
<1>3. IInv /\ LinkInv /\ [Next]_vars => LinkInv'
  BY LinkStep DEF IInv
<1>4. Spec => []LinkInv
  BY <1>3, LinkInit, Invariance, PTL DEF Spec
<1>5. QED
  BY <1>1, <1>2, <1>4, Invariance, PTL DEF Spec, ImplementsService, Service!Safety

============================================================================

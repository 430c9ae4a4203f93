------------------------- MODULE DiagnosticsService -------------------------
(***************************************************************************)
(* What the diagnostics part of the server promises, without goroutines or *)
(* channels: the client submits edits; each is told to the client at most  *)
(* once, with everything there is to say about its text, or is dropped for *)
(* one of a few reasons.  Nothing is promised about the order in which     *)
(* edits are told.                                                         *)
(***************************************************************************)
EXTENDS Naturals, Sequences

CONSTANTS Uris, Texts, Outcome, NumDiags, BadUris

VARIABLES
    edits,   \* every edit submitted
    state,   \* of each edit: "pending", "told" or "dropped"
    told,    \* what the client was told, in order
    linked,  \* the server knows its connection
    online,  \* the client is there
    alive    \* the server is

vars == <<edits, state, told, linked, online, alive>>

Init == /\ edits = <<>> /\ state = <<>> /\ told = <<>>
        /\ linked = FALSE /\ online = TRUE /\ alive = TRUE

Submit(u, t) ==
    /\ alive /\ online
    /\ edits' = Append(edits, [uri |-> u, text |-> t])
    /\ state' = Append(state, "pending")
    /\ UNCHANGED <<told, linked, online, alive>>

Pending(j) == alive /\ state[j] = "pending"

Tell(j) ==
    /\ Pending(j) /\ linked /\ online
    /\ Outcome[edits[j].text] = "ok"
    /\ state' = [state EXCEPT ![j] = "told"]
    /\ told' = Append(told, [job |-> j, count |-> NumDiags[edits[j].text]])
    /\ UNCHANGED <<edits, linked, online, alive>>

\* The only excuses for saying nothing about an edit.
Drop(j) ==
    /\ Pending(j)
    /\ \/ Outcome[edits[j].text] # "ok"
       \/ edits[j].uri \in BadUris
       \/ ~linked
       \/ ~online
    /\ state' = [state EXCEPT ![j] = "dropped"]
    /\ UNCHANGED <<edits, told, linked, online, alive>>

Link  == ~linked /\ linked' = TRUE /\ UNCHANGED <<edits, state, told, online, alive>>
Leave == online /\ online' = FALSE /\ UNCHANGED <<edits, state, told, linked, alive>>
Die   == alive /\ alive' = FALSE /\ UNCHANGED <<edits, state, told, linked, online>>

Resolve(j) == Tell(j) \/ Drop(j)

Next == \/ \E u \in Uris, t \in Texts : Submit(u, t)
        \/ \E j \in DOMAIN edits : Resolve(j)
        \/ Link \/ Leave \/ Die

Safety == Init /\ [][Next]_vars

============================================================================

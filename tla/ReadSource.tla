----------------------------- MODULE ReadSource -----------------------------
(* ReadSource and Highlight: a parsed document is desugared, analysed and   *)
(* scanned for references, and those of a position are returned.            *)
EXTENDS Documents, Desugarer, StaticAnalyzer, ScopeGraph

CONSTANT
    \* What documents are made of: leaves, the constructs around them and how
    \* many of these there are at most.
    Dialects

ASSUME DialectsAssumption ==
    Dialects \subseteq [leaves : SUBSET STRING, around : SUBSET STRING, max : Nat]

VARIABLES
    dialect, doc, size,  \* the document, and the constructs in it
    stage,               \* the function called last and how it ended: ok, error or panic
    node, refs,          \* what DesugarFile, Analyze and scanScope made
    place,               \* the reference the position lies in, 0 if in none
    answer               \* the locations highlighted; 0 is the one without a range
vars == <<dialect, doc, size, stage, node, refs, place, answer>>

Init ==
    /\ dialect \in Dialects /\ \E l \in dialect.leaves : doc = Leaf(l, 1)
    /\ size = 0 /\ stage = <<"Parse", "ok">>
    /\ node = Nil /\ refs = {} /\ place = 0 /\ answer = {}

Write ==
    /\ stage = <<"Parse", "ok">> /\ size < dialect.max
    /\ \E w \in dialect.around : doc' = Around(w, doc, 10 * (size + 1))
    /\ size' = size + 1
    /\ UNCHANGED <<dialect, stage, node, refs, place, answer>>

\* A stage ends the request by an error or a panic, or leaves its result.
Reached(this, result) ==
    /\ stage' = <<this, result.out>>
    /\ node' = IF result.out = "ok" THEN result.node ELSE Nil
    /\ UNCHANGED <<dialect, doc, size, refs, place, answer>>

Desugar == stage = <<"Parse", "ok">> /\ \E result \in {DesugarFile(doc)} : Reached("Desugar", result)
AnalyzeTree == stage = <<"Desugar", "ok">> /\ \E result \in {Analyze(node)} : Reached("Analyze", result)

Scan ==
    /\ stage = <<"Analyze", "ok">>
    /\ \E found \in {scanScope(node)} :
          IF Panic \in found THEN stage' = <<"Scan", "panic">> /\ refs' = {}
          ELSE stage' = <<"Scan", "ok">> /\ refs' = found
    /\ UNCHANGED <<dialect, doc, size, node, place, answer>>

\* A position that lies in a reference, or in none.
Highlight ==
    /\ stage = <<"Scan", "ok">>
    /\ place' \in {ref.at : ref \in refs} \cup {0}
    /\ \/ place' = 0 /\ stage' = <<"Highlight", "ok">> /\ answer' = {}
       \/ /\ place' # 0
          /\ \E id \in refNames(refs) :
                IF refPanics(refs, id) THEN stage' = <<"Highlight", "panic">> /\ answer' = {}
                ELSE stage' = <<"Highlight", "ok">> /\ answer' = refLocations(refs, id)
    /\ UNCHANGED <<dialect, doc, size, node, refs>>

Next == Write \/ Desugar \/ AnalyzeTree \/ Scan \/ Highlight

Spec == Init /\ [][Next]_vars
=============================================================================

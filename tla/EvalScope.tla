----------------------------- MODULE EvalScope -----------------------------
(***************************************************************************)
(* LocationScope: the variables in scope at a position, for completion and *)
(* hover.  eval walks the document's tree in preorder and hands each node  *)
(* a scope, a Go map that Clone copies where a construct binds variables;  *)
(* it stops at the first error.  The answer is the scope that was handed   *)
(* to the node the locator found, and the outermost scope when eval never  *)
(* came to that node.                                                      *)
(*                                                                         *)
(* The tree is chosen as it is walked.  "plain" stands for the nodes that  *)
(* hand their scope down unchanged, "var" for a variable and for an Index  *)
(* that starts with one, "unread" for a subtree eval does not visit.       *)
(* Literals are left out; std is in every scope and is left out too.  The  *)
(* node cache may gain entries while eval walks.                           *)
(***************************************************************************)
EXTENDS Naturals, Sequences

CONSTANTS
    Ids,       \* variables of the document
    Imports,   \* what it imports
    MaxNodes   \* bound: nodes of the tree

\* Bodies of binds: "expr" is any that is not an import; a parameter has "nil".
Bodies == {"expr", "nil"} \cup Imports

ASSUME MaxNodesAssumption == MaxNodes \in Nat \ {0}
ASSUME ImportsAssumption  == Imports \cap {"expr", "nil"} = {}
ASSUME IdsAssumption      == Ids \cap {"self", "other", "none"} = {}

VARIABLES
    cached,     \* imports the node cache has an entry for
    nodes,      \* the tree so far, in preorder: "up" are the nodes above a node,
                \* "binds" what it binds, and "id" what it refers to
    scopes,     \* evalScope.store of every scope made, by its address
    scopeOf,    \* node -> address of the scope handed to it, 0 if eval skips it
    inner,      \* node -> address of the scope it hands to its children
    references, \* evalScope.references, which all scopes share
    status      \* "walking", "error" or "panic"

vars == <<cached, nodes, scopes, scopeOf, inner, references, status>>

Parts == [local |-> {"bind", "body"}, function |-> {"default", "body"},
          object |-> {"field", "assert"}, apply |-> {"target", "argument"},
          plain |-> {"operand"}, partialIndex |-> {"target"},
          var |-> {}, index |-> {}, unread |-> {}]

\* Parts of which a node has no more once it has a child in the given part.
Before == [bind |-> {}, default |-> {}, field |-> {}, assert |-> {"field"}, operand |-> {}, root |-> {},
           target |-> {"target"}, argument |-> {"target"},
           body |-> {"bind", "default", "body"}]

Binds == UNION {[I -> Bodies] : I \in SUBSET Ids}
Empty == [id \in {} |-> id]

Init ==
    /\ cached \in SUBSET Imports
    /\ nodes = <<>>
    /\ scopes = <<Empty>>
    /\ scopeOf = <<>> /\ inner = <<>>
    /\ references = {}
    /\ status = "walking"

----------------------------------------------------------------------------
(* The next node of the preorder.                                          *)

Last == Len(nodes)

\* The next node may be a child of the last one or of a node above it, after
\* the children that node has.
Place(parent, part) ==
    IF Last = 0 THEN parent = 0 /\ part = "root"
    ELSE /\ parent \in {Last} \cup nodes[Last].up
         /\ part \in Parts[nodes[parent].kind]
         /\ \A c \in DOMAIN nodes :
              nodes[c].parent = parent => part \notin Before[nodes[c].part]

\* eval visits neither the arguments of an Apply, the asserts of an object nor
\* the target of a PartialIndex; the locator visits them all.
Handed(parent, part) ==
    IF parent = 0 THEN 1
    ELSE IF part \in {"argument", "assert"} \/ nodes[parent].kind = "partialIndex" THEN 0
    ELSE inner[parent]

AddNode(kind, parent, part, binds, id) ==
    /\ status = "walking" /\ Last < MaxNodes
    /\ Place(parent, part)
    /\ (kind = "unread") <=> (Handed(parent, part) = 0)
    /\ nodes' = Append(nodes,
         [kind |-> kind, parent |-> parent, part |-> part, binds |-> binds, id |-> id,
          up |-> IF parent = 0 THEN {} ELSE {parent} \cup nodes[parent].up])
    /\ scopeOf' = Append(scopeOf, Handed(parent, part))
    /\ cached' = cached

\* The node hands its own scope to its children.
HandDown(scope) ==
    /\ inner' = Append(inner, scope)
    /\ scopes' = scopes

\* Mutant: the scope is not copied.
ShareScope(scope, binds) ==
    /\ scopes' = [scopes EXCEPT ![scope] =
         [id \in DOMAIN @ \cup DOMAIN binds |->
            IF id \in DOMAIN binds THEN [by |-> Last + 1, body |-> binds[id]] ELSE @[id]]]
    /\ inner' = Append(inner, scope)

\* evalScope.Clone, then set for every variable bound.
Clone(scope, binds) ==
    /\ scopes' = Append(scopes,
         [id \in DOMAIN scopes[scope] \cup DOMAIN binds |->
            IF id \in DOMAIN binds THEN [by |-> Last + 1, body |-> binds[id]]
                                   ELSE scopes[scope][id]])
    /\ inner' = Append(inner, Len(scopes) + 1)

\* Array, Binary, Conditional, Error, Unary, the Partials and the like; Apply;
\* and the subtrees eval does not visit.
EvalPlain(kind, parent, part) ==
    /\ AddNode(kind, parent, part, Empty, "none")
    /\ HandDown(Handed(parent, part))
    /\ UNCHANGED <<references, status>>

EvalObject(parent, part) ==
    /\ AddNode("object", parent, part, Empty, "none")
    /\ Clone(Handed(parent, part), Empty)
    /\ UNCHANGED <<references, status>>

\* Mutant: the parameters are not set.
EvalFunctionUnbound(parent, part, params) ==
    /\ AddNode("function", parent, part, [id \in params |-> "nil"], "none")
    /\ Clone(Handed(parent, part), Empty)
    /\ UNCHANGED <<references, status>>

\* The parameters are set, to nil, before the defaults and the body.
EvalFunction(parent, part, params) ==
    LET binds == [id \in params |-> "nil"]
    IN  /\ AddNode("function", parent, part, binds, "none")
        /\ Clone(Handed(parent, part), binds)
        /\ UNCHANGED <<references, status>>

\* set fails for an import the node cache has no entry for.
EvalLocal(parent, part, binds) ==
    /\ AddNode("local", parent, part, binds, "none")
    /\ \/ /\ \A id \in DOMAIN binds : binds[id] \in Imports => binds[id] \in cached
          /\ Clone(Handed(parent, part), binds)
          /\ status' = status
       \/ /\ \E id \in DOMAIN binds : binds[id] \in Imports \ cached
          /\ HandDown(Handed(parent, part))
          /\ status' = "error"
    /\ references' = references

\* refersTo fails for what is not in the store, which self never is.
EvalVar(kind, parent, part, id) ==
    /\ AddNode(kind, parent, part, Empty, id)
    /\ HandDown(Handed(parent, part))
    /\ \/ /\ id \in DOMAIN scopes[Handed(parent, part)]
          /\ references' = references \cup {<<id, Last + 1>>}
          /\ status' = status
       \/ /\ id \notin DOMAIN scopes[Handed(parent, part)]
          /\ references' = references
          /\ status' = "error"

\* resolveIndex panics for an Index of anything but a variable, a call or self.
ResolvePanics(parent, part) ==
    /\ AddNode("index", parent, part, Empty, "other")
    /\ HandDown(Handed(parent, part))
    /\ status' = "panic"
    /\ references' = references

\* NodeCache.Set stores an entry in another goroutine.
CacheStores(import) ==
    /\ status = "walking"
    /\ import \notin cached
    /\ cached' = cached \cup {import}
    /\ UNCHANGED <<nodes, scopes, scopeOf, inner, references, status>>

LocalBinds == {b \in Binds : DOMAIN b # {} /\ \A id \in DOMAIN b : b[id] # "nil"}

Eval(parent, part) ==
    \/ \E kind \in {"plain", "apply", "partialIndex", "unread"} : EvalPlain(kind, parent, part)
    \/ EvalObject(parent, part)
    \/ \E params \in SUBSET Ids : EvalFunction(parent, part, params)
    \/ \E binds \in LocalBinds : EvalLocal(parent, part, binds)
    \/ \E id \in Ids : EvalVar("var", parent, part, id)
    \/ EvalVar("index", parent, part, "self")
    \/ ResolvePanics(parent, part)

Next ==
    \/ \E parent \in 0..Last, part \in DOMAIN Before : Eval(parent, part)
    \/ \E import \in Imports : CacheStores(import)

Spec == Init /\ [][Next]_vars

\* What LocationScope returns when the walk ends without an error and the
\* locator found node n.
LocationScope(n) == scopes[IF scopeOf[n] = 0 THEN 1 ELSE scopeOf[n]]
----------------------------------------------------------------------------
(* Properties.                                                             *)

\* What jsonnet's lexical scoping puts in scope at a node: of the nodes above
\* it that bind a variable, the nearest does.
Binders(n, id) == {a \in nodes[n].up : id \in DOMAIN nodes[a].binds}
Nearest(n, id) == CHOOSE a \in Binders(n, id) : \A b \in Binders(n, id) : b <= a
Lexical(n) ==
    [id \in {i \in Ids : Binders(n, i) # {}} |->
        [by |-> Nearest(n, id), body |-> nodes[Nearest(n, id)].binds[id]]]

\* Where LocationScope answers with the scope of a node, and not the outermost one,
\* it is the lexical scope of the node: what its siblings and their children bind
\* does not leak into it, and the nearest binding wins.
ScopeIsLexical ==
    \A n \in DOMAIN nodes : scopeOf[n] # 0 => LocationScope(n) = Lexical(n)

\* eval fails for a cause the document shows: the node it stopped at uses a
\* variable that nothing binds, indexes self or what has no name, or binds an
\* import that was not cached in time.
FailsForACause ==
    status \in {"error", "panic"} =>
        LET a == nodes[Last]
        IN  \/ a.kind = "var" /\ Binders(Last, a.id) = {}
            \/ a.kind = "index"
            \/ \E id \in DOMAIN a.binds : a.binds[id] \in Imports \ cached
=============================================================================

--------------------------- MODULE EvalScopeProofs ---------------------------
(***************************************************************************)
(* Theorems about EvalScope, for every set of variables and imports and    *)
(* every tree, however large.                                              *)
(*                                                                         *)
(* Lexical scope is defined by the nearest binder above a node; eval never *)
(* searches for it, it extends copies of maps on its way down.  The proof  *)
(* shows that both agree, one node of the preorder at a time.              *)
(***************************************************************************)
EXTENDS EvalScope, SequenceTheorems, WellFoundedInduction, TLAPS

\* Lexical, for any tree and any set of nodes above a place of it.
BindersIn(tree, up, id) == {a \in up : id \in DOMAIN tree[a].binds}
NearestIn(tree, up, id) ==
    CHOOSE a \in BindersIn(tree, up, id) : \A b \in BindersIn(tree, up, id) : b <= a
Visible(tree, up) ==
    [id \in {i \in Ids : BindersIn(tree, up, i) # {}} |->
        [by |-> NearestIn(tree, up, id), body |-> tree[NearestIn(tree, up, id)].binds[id]]]

\* What a scope becomes below node n.
Extended(scope, n, binds) ==
    [id \in DOMAIN scope \cup DOMAIN binds |->
        IF id \in DOMAIN binds THEN [by |-> n, body |-> binds[id]] ELSE scope[id]]

Kinds == {"local", "function", "object", "apply", "plain", "partialIndex",
          "var", "index", "unread"}
Node  == [kind : Kinds, parent : Nat, part : DOMAIN Before, binds : Binds,
          id : Ids \cup {"self", "other", "none"}, up : SUBSET Nat]
Scope == UNION {[I -> [by : Nat, body : Bodies]] : I \in SUBSET Ids}

\* The maps of the walk fit the tree.
Typed ==
    /\ nodes \in Seq(Node)
    /\ scopes \in Seq(Scope)
    /\ scopeOf \in Seq(Nat) /\ Len(scopeOf) = Len(nodes)
    /\ inner \in Seq(Nat) /\ Len(inner) = Len(nodes)
    /\ Len(scopes) >= 1
    /\ \A n \in 1..Len(nodes) :
         /\ nodes[n].up \subseteq 1..(n - 1)
         /\ scopeOf[n] <= Len(scopes) /\ inner[n] <= Len(scopes)

\* The scope a node hands down is lexical for a child of it; eval may have
\* failed before it made that scope, but then the node has no children.
HandsDownLexical ==
    status = "walking" =>
        \A n \in 1..Len(nodes) :
            inner[n] # 0 => scopes[inner[n]] = Visible(nodes, {n} \cup nodes[n].up)

IInv ==
    /\ Typed
    /\ scopes[1] = Empty
    /\ ScopeIsLexical
    /\ HandsDownLexical
    /\ FailsForACause

----------------------------------------------------------------------------
(* The nearest binder.                                                     *)

\* A set of numbers within bounds has a greatest element: the least of the
\* distances to the bound is its.
LEMMA GreatestOf ==
  ASSUME NEW N \in Nat, NEW S, S \subseteq 1..N, S # {}
  PROVE  \E x \in S : \A y \in S : y <= x
<1> DEFINE R == OpToRel(<, Nat)
<1> DEFINE T == {N - s : s \in S}
<1>1. \A s \in S : s \in Int /\ N - s \in Nat
  OBVIOUS
<1>2. T \subseteq Nat /\ T # {}
  BY <1>1
<1>3. IsWellFoundedOn(R, Nat)
  BY NatLessThanWellFounded
<1> HIDE DEF R
<1>4. PICK t \in T : \A y \in T : <<y, t>> \notin R
  <2> HIDE DEF T
  <2>1. QED
    BY <1>2, <1>3, WFMin
<1>5. PICK x \in S : t = N - x
  BY <1>4
<1>6. ASSUME NEW y \in S PROVE y <= x
  <2>1. N - y \in T /\ N - y \in Nat /\ t \in Nat
    BY <1>1, <1>2
  <2>2. ~(N - y < t)
    BY <1>4, <2>1 DEF R, OpToRel
  <2>3. QED
    BY <1>1, <1>5, <2>2
<1>7. QED
  BY <1>6

LEMMA NearestBinds ==
  ASSUME NEW N \in Nat, NEW up \in SUBSET (1..N), NEW tree, NEW id,
         BindersIn(tree, up, id) # {}
  PROVE  /\ NearestIn(tree, up, id) \in up
         /\ id \in DOMAIN tree[NearestIn(tree, up, id)].binds
<1> DEFINE B == BindersIn(tree, up, id)
<1>1. B \subseteq 1..N /\ \A a \in B : a \in up /\ id \in DOMAIN tree[a].binds
  BY DEF BindersIn
<1>2. \E a \in B : \A b \in B : b <= a
  <2> HIDE DEF B
  <2>1. B # {}
    BY DEF B
  <2>2. QED
    BY <1>1, <2>1, GreatestOf
<1>3. NearestIn(tree, up, id) \in B
  BY <1>2 DEF NearestIn
<1>4. QED
  BY <1>1, <1>3

\* What is visible below some nodes depends on those nodes only.
LEMMA VisibleKept ==
  ASSUME NEW N \in Nat, NEW up \in SUBSET (1..N), NEW tree, NEW other,
         \A a \in up : other[a] = tree[a]
  PROVE  Visible(other, up) = Visible(tree, up)
<1>1. \A id : BindersIn(other, up, id) = BindersIn(tree, up, id)
  BY DEF BindersIn
<1>2. \A id : NearestIn(other, up, id) = NearestIn(tree, up, id)
  BY <1>1 DEF NearestIn
<1>3. ASSUME NEW id, BindersIn(tree, up, id) # {}
      PROVE  other[NearestIn(tree, up, id)] = tree[NearestIn(tree, up, id)]
  BY <1>3, NearestBinds
<1>4. QED
  BY <1>1, <1>2, <1>3 DEF Visible

\* Below a new last node, its own binds hide those of the same name above it.
LEMMA VisibleBelow ==
  ASSUME NEW n \in Nat, n >= 1, NEW up \in SUBSET (1..(n - 1)), NEW tree,
         DOMAIN tree[n].binds \subseteq Ids
  PROVE  Visible(tree, {n} \cup up) = Extended(Visible(tree, up), n, tree[n].binds)
<1> DEFINE own == DOMAIN tree[n].binds
           all == {n} \cup up
<1>1. ASSUME NEW id \in own
      PROVE  BindersIn(tree, all, id) # {} /\ NearestIn(tree, all, id) = n
  <2>1. n \in BindersIn(tree, all, id)
    BY <1>1 DEF BindersIn
  <2>2. \A b \in BindersIn(tree, all, id) : b \in Int /\ b <= n
    BY DEF BindersIn
  <2>3. \A a \in BindersIn(tree, all, id) : n <= a => a = n
    BY <2>2
  <2> HIDE DEF all
  <2>4. QED
    BY <2>1, <2>2, <2>3 DEF NearestIn
<1>2. ASSUME NEW id, id \notin own
      PROVE  /\ BindersIn(tree, all, id) = BindersIn(tree, up, id)
             /\ NearestIn(tree, all, id) = NearestIn(tree, up, id)
  <2>1. BindersIn(tree, all, id) = BindersIn(tree, up, id)
    BY <1>2 DEF BindersIn
  <2>2. QED
    BY <2>1 DEF NearestIn
<1>3. {i \in Ids : BindersIn(tree, all, i) # {}}
        = {i \in Ids : BindersIn(tree, up, i) # {}} \cup own
  <2> HIDE DEF all
  <2>1. QED
    BY <1>1, <1>2
<1>4. QED
  <2> HIDE DEF all
  <2>1. ASSUME NEW id \in {i \in Ids : BindersIn(tree, up, i) # {}} \cup own
        PROVE  Visible(tree, all)[id] = Extended(Visible(tree, up), n, tree[n].binds)[id]
    BY <1>1, <1>2, <1>3 DEF Visible, Extended
  <2>2. DOMAIN Visible(tree, all) = {i \in Ids : BindersIn(tree, up, i) # {}} \cup own
    BY <1>3 DEF Visible
  <2>3. DOMAIN Extended(Visible(tree, up), n, tree[n].binds)
          = {i \in Ids : BindersIn(tree, up, i) # {}} \cup own
    BY DEF Visible, Extended
  <2>4. QED
    BY <2>1, <2>2, <2>3 DEF Visible, Extended, all

LEMMA NothingBound ==
  ASSUME NEW tree, NEW up, NEW n
  PROVE  Extended(Visible(tree, up), n, Empty) = Visible(tree, up)
  BY DEF Extended, Visible, Empty

LEMMA ExtendedTyped ==
  ASSUME NEW scope \in Scope, NEW n \in Nat, NEW binds \in Binds
  PROVE  Extended(scope, n, binds) \in Scope
<1>1. PICK I \in SUBSET Ids : scope \in [I -> [by : Nat, body : Bodies]]
  BY DEF Scope
<1>2. PICK J \in SUBSET Ids : binds \in [J -> Bodies]
  BY DEF Binds
<1>3. I \cup J \in SUBSET Ids
  OBVIOUS
<1>4. Extended(scope, n, binds) \in [I \cup J -> [by : Nat, body : Bodies]]
  BY <1>1, <1>2 DEF Extended
<1>5. QED
  BY <1>3, <1>4 DEF Scope

----------------------------------------------------------------------------
(* One node of the walk.                                                   *)

\* The scope handed to a new node is the lexical one, and the tree above the
\* nodes there were stays as it was.
LEMMA NewNode ==
  ASSUME IInv, NEW kind \in Kinds, NEW parent \in 0..Last, NEW part \in DOMAIN Before,
         NEW binds \in Binds, NEW id \in Ids \cup {"self", "other", "none"},
         AddNode(kind, parent, part, binds, id)
  PROVE  LET n == Len(nodes) + 1
             h == Handed(parent, part)
         IN  /\ n \in Nat
             /\ nodes' \in Seq(Node) /\ Len(nodes') = n
             /\ \A k \in 1..(n - 1) : nodes'[k] = nodes[k]
             /\ nodes'[n].up \subseteq 1..(n - 1)
             /\ nodes'[n].kind = kind /\ nodes'[n].binds = binds /\ nodes'[n].id = id
             /\ scopeOf' = Append(scopeOf, h)
             /\ h \in Nat /\ h <= Len(scopes)
             /\ kind = "unread" <=> h = 0
             /\ h # 0 => scopes[h] = Visible(nodes', nodes'[n].up)
             /\ status = "walking" /\ cached' = cached
<1> DEFINE n == Len(nodes) + 1
           h == Handed(parent, part)
           up == IF parent = 0 THEN {} ELSE {parent} \cup nodes[parent].up
           new == [kind |-> kind, parent |-> parent, part |-> part, binds |-> binds,
                   id |-> id, up |-> up]
<1>1. /\ status = "walking" /\ cached' = cached
      /\ Place(parent, part)
      /\ kind = "unread" <=> h = 0
      /\ nodes' = Append(nodes, new)
      /\ scopeOf' = Append(scopeOf, h)
  BY DEF AddNode
<1>2. nodes \in Seq(Node) /\ Len(nodes) \in Nat /\ parent \in Nat
  BY DEF IInv, Typed, Last
<1>3. parent = 0 \/ parent \in 1..Len(nodes)
  BY <1>2 DEF Last
<1>4. up \subseteq 1..(n - 1)
  <2>1. CASE parent = 0
    BY <2>1
  <2>2. CASE parent \in 1..Len(nodes)
    <3>1. nodes[parent].up \subseteq 1..(parent - 1)
      BY <2>2 DEF IInv, Typed
    <3>2. 1..(parent - 1) \subseteq 1..(n - 1)
      BY <1>2, <2>2
    <3>3. parent \in 1..(n - 1) /\ parent # 0
      BY <1>2, <2>2
    <3>4. QED
      BY <3>1, <3>2, <3>3
  <2>3. QED
    BY <1>3, <2>1, <2>2
<1>5. new \in Node
  <2>1. up \in SUBSET Nat
    BY <1>2, <1>4
  <2> HIDE DEF up
  <2>2. QED
    BY <1>2, <2>1 DEF Node
<1>6. /\ n \in Nat
      /\ nodes' \in Seq(Node) /\ Len(nodes') = n /\ nodes'[n] = new
      /\ \A k \in 1..(n - 1) : nodes'[k] = nodes[k]
  <2> HIDE DEF new
  <2>1. QED
    BY <1>1, <1>2, <1>5, AppendProperties
<1>7. nodes'[n].up = up /\ nodes'[n].kind = kind /\ nodes'[n].binds = binds /\ nodes'[n].id = id
  BY <1>6
<1>8. h \in Nat /\ h <= Len(scopes)
  <2>1. CASE parent = 0
    BY <2>1 DEF Handed, IInv, Typed
  <2>2. CASE parent \in 1..Len(nodes)
    <3>1. inner[parent] \in Nat /\ inner[parent] <= Len(scopes) /\ Len(scopes) \in Nat
      BY <2>2 DEF IInv, Typed
    <3>2. h = 0 \/ h = inner[parent]
      BY <1>2, <2>2 DEF Handed
    <3>3. QED
      BY <3>1, <3>2
  <2>3. QED
    BY <1>3, <2>1, <2>2
<1>9. ASSUME h # 0 PROVE scopes[h] = Visible(nodes', up)
  <2>1. CASE parent = 0
    <3>1. h = 1 /\ up = {}
      BY <2>1 DEF Handed
    <3>2. Visible(nodes', {}) = Empty
      BY DEF Visible, Empty, BindersIn
    <3>3. QED
      BY <3>1, <3>2 DEF IInv
  <2>2. CASE parent \in 1..Len(nodes)
    <3>1. h = inner[parent] /\ up = {parent} \cup nodes[parent].up
      BY <1>2, <1>9, <2>2 DEF Handed
    <3>2. scopes[h] = Visible(nodes, up)
      BY <1>1, <1>9, <2>2, <3>1 DEF IInv, HandsDownLexical
    <3>3. up \in SUBSET (1..Len(nodes)) /\ \A a \in up : nodes'[a] = nodes[a]
      BY <1>2, <1>4, <1>6
    <3>4. Visible(nodes', up) = Visible(nodes, up)
      <4> HIDE DEF up
      <4>1. QED
        BY ONLY <1>2, <3>3, VisibleKept
    <3>5. QED
      BY <3>2, <3>4
  <2>3. QED
    BY <1>3, <2>1, <2>2
<1>10. QED
  BY <1>1, <1>4, <1>6, <1>7, <1>8, <1>9

\* A step that adds a node, the scope handed to it and the one it hands down.
LEMMA WalkStep ==
  ASSUME IInv, status = "walking", NEW h \in Nat, NEW c \in Nat,
         nodes' \in Seq(Node), Len(nodes') = Len(nodes) + 1,
         \A k \in 1..Len(nodes) : nodes'[k] = nodes[k],
         nodes'[Len(nodes) + 1].up \in SUBSET (1..Len(nodes)),
         scopes' \in Seq(Scope), Len(scopes) <= Len(scopes'),
         \A a \in 1..Len(scopes) : scopes'[a] = scopes[a],
         scopeOf' = Append(scopeOf, h), h <= Len(scopes),
         inner' = Append(inner, c), c <= Len(scopes'),
         h # 0 => scopes[h] = Visible(nodes', nodes'[Len(nodes) + 1].up),
         status' = "walking" /\ c # 0 =>
            scopes'[c] = Visible(nodes', {Len(nodes) + 1} \cup nodes'[Len(nodes) + 1].up),
         FailsForACause'
  PROVE  IInv'
<1> DEFINE n == Len(nodes) + 1
<1>1. /\ nodes \in Seq(Node) /\ scopes \in Seq(Scope)
      /\ scopeOf \in Seq(Nat) /\ Len(scopeOf) = Len(nodes)
      /\ inner \in Seq(Nat) /\ Len(inner) = Len(nodes)
      /\ Len(scopes) >= 1 /\ Len(scopes) \in Nat /\ Len(scopes') \in Nat
      /\ Len(nodes) \in Nat /\ n \in Nat
  BY DEF IInv, Typed
<1>2. /\ scopeOf' \in Seq(Nat) /\ Len(scopeOf') = n /\ scopeOf'[n] = h
      /\ \A k \in 1..Len(nodes) : scopeOf'[k] = scopeOf[k]
  BY ONLY <1>1, scopeOf' = Append(scopeOf, h), h \in Nat, AppendProperties
<1>3. /\ inner' \in Seq(Nat) /\ Len(inner') = n /\ inner'[n] = c
      /\ \A k \in 1..Len(nodes) : inner'[k] = inner[k]
  BY ONLY <1>1, inner' = Append(inner, c), c \in Nat, AppendProperties
<1>4. 1..Len(nodes') = 1..Len(nodes) \cup {n} /\ 1..Len(nodes) = 1..(n - 1)
  BY <1>1
<1>5. \A k \in 1..Len(nodes) :
        /\ nodes[k].up \subseteq 1..(k - 1)
        /\ scopeOf[k] \in Nat /\ scopeOf[k] <= Len(scopes)
        /\ inner[k] \in Nat /\ inner[k] <= Len(scopes)
  <2> TAKE k \in 1..Len(nodes)
  <2>1. /\ nodes[k].up \subseteq 1..(k - 1)
        /\ scopeOf[k] <= Len(scopes) /\ inner[k] <= Len(scopes)
    BY DEF IInv, Typed
  <2>2. scopeOf[k] \in Nat /\ inner[k] \in Nat
    BY ONLY <1>1, k \in 1..Len(nodes)
  <2>3. QED
    BY ONLY <2>1, <2>2
<1>6. Typed'
  <2>1. ASSUME NEW k \in 1..Len(nodes')
        PROVE  /\ nodes'[k].up \subseteq 1..(k - 1)
               /\ scopeOf'[k] <= Len(scopes') /\ inner'[k] <= Len(scopes')
    <3>1. CASE k \in 1..Len(nodes)
      <4>1. scopeOf[k] <= Len(scopes') /\ inner[k] <= Len(scopes')
        BY ONLY <1>1, <1>5, <3>1, Len(scopes) <= Len(scopes')
      <4>2. QED
        BY <1>2, <1>3, <1>5, <3>1, <4>1
    <3>2. CASE k = n
      <4>1. h <= Len(scopes')
        BY <1>1
      <4>2. QED
        BY <1>2, <1>3, <1>4, <3>2, <4>1
    <3>3. QED
      BY <1>4, <3>1, <3>2
  <2>2. Len(scopes') >= 1
    BY <1>1
  <2>3. QED
    BY <1>2, <1>3, <2>1, <2>2 DEF Typed
<1>7. scopes'[1] = Empty
  BY <1>1 DEF IInv
<1>8. \A k \in 1..Len(nodes) :
        /\ Visible(nodes', nodes[k].up) = Visible(nodes, nodes[k].up)
        /\ Visible(nodes', {k} \cup nodes[k].up) = Visible(nodes, {k} \cup nodes[k].up)
  <2> TAKE k \in 1..Len(nodes)
  <2>1. 1..(k - 1) \subseteq 1..Len(nodes)
    BY <1>1
  <2>2. nodes[k].up \in SUBSET (1..Len(nodes)) /\ {k} \cup nodes[k].up \in SUBSET (1..Len(nodes))
    BY <1>5, <2>1
  <2>3. ASSUME NEW up \in SUBSET (1..Len(nodes))
        PROVE  Visible(nodes', up) = Visible(nodes, up)
    <3>1. \A a \in up : nodes'[a] = nodes[a]
      OBVIOUS
    <3>2. QED
      BY ONLY <1>1, <3>1, VisibleKept
  <2>4. QED
    BY <2>2, <2>3
<1>9. ScopeIsLexical'
  <2>1. ASSUME NEW k \in 1..Len(nodes'), scopeOf'[k] # 0
        PROVE  scopes'[scopeOf'[k]] = Visible(nodes', nodes'[k].up)
    <3>1. CASE k \in 1..Len(nodes)
      <4>0. scopeOf'[k] = scopeOf[k]
        BY <1>2, <3>1
      <4>1. scopeOf'[k] = scopeOf[k] /\ scopeOf[k] \in 1..Len(scopes)
        BY ONLY <1>1, <1>5, <2>1, <3>1, <4>0
      <4>2. scopes[scopeOf[k]] = Visible(nodes, nodes[k].up)
        <5>1. k \in DOMAIN nodes /\ scopeOf[k] # 0
          BY <1>1, <2>1, <3>1, <4>0
        <5>2. LocationScope(k) = Lexical(k)
          BY <5>1 DEF IInv, ScopeIsLexical
        <5>3. QED
          BY ONLY <5>1, <5>2
             DEF LocationScope, Lexical, Visible, Binders, BindersIn, Nearest, NearestIn
      <4>3. QED
        BY <1>8, <3>1, <4>1, <4>2
    <3>2. CASE k = n
      <4>1. h \in 1..Len(scopes)
        BY <1>1, <1>2, <2>1, <3>2
      <4>2. QED
        BY <1>2, <2>1, <3>2, <4>1
    <3>3. QED
      BY <1>4, <3>1, <3>2
  <2>2. DOMAIN nodes' = 1..Len(nodes')
    OBVIOUS
  <2>3. QED
    BY <2>1, <2>2
       DEF ScopeIsLexical, LocationScope, Lexical, Visible, Binders, BindersIn,
           Nearest, NearestIn
<1>10. HandsDownLexical'
  <2>1. ASSUME status' = "walking", NEW k \in 1..Len(nodes'), inner'[k] # 0
        PROVE  scopes'[inner'[k]] = Visible(nodes', {k} \cup nodes'[k].up)
    <3>1. CASE k \in 1..Len(nodes)
      <4>0. inner'[k] = inner[k]
        BY <1>3, <3>1
      <4>1. inner'[k] = inner[k] /\ inner[k] \in 1..Len(scopes)
        BY ONLY <1>1, <1>5, <2>1, <3>1, <4>0
      <4>2. scopes[inner[k]] = Visible(nodes, {k} \cup nodes[k].up)
        BY <2>1, <3>1, <4>1 DEF IInv, HandsDownLexical
      <4>3. QED
        BY <1>8, <3>1, <4>1, <4>2
    <3>2. CASE k = n
      BY <1>3, <2>1, <3>2
    <3>3. QED
      BY <1>4, <3>1, <3>2
  <2>2. QED
    BY <2>1 DEF HandsDownLexical
<1>11. QED
  BY <1>6, <1>7, <1>9, <1>10 DEF IInv

\* A node that binds nothing, or at which eval fails, hands its scope down.
LEMMA HandDownStep ==
  ASSUME IInv, NEW kind \in Kinds, NEW parent \in 0..Last, NEW part \in DOMAIN Before,
         NEW binds \in Binds, NEW id \in Ids \cup {"self", "other", "none"},
         AddNode(kind, parent, part, binds, id),
         HandDown(Handed(parent, part)),
         binds = Empty \/ status' # "walking",
         FailsForACause'
  PROVE  IInv'
<1> DEFINE n == Len(nodes) + 1
           h == Handed(parent, part)
           up == nodes'[n].up
<1>1. /\ n \in Nat
      /\ nodes' \in Seq(Node) /\ Len(nodes') = n
      /\ \A k \in 1..(n - 1) : nodes'[k] = nodes[k]
      /\ up \subseteq 1..(n - 1)
      /\ nodes'[n].binds = binds
      /\ scopeOf' = Append(scopeOf, h)
      /\ h \in Nat /\ h <= Len(scopes)
      /\ h # 0 => scopes[h] = Visible(nodes', up)
      /\ status = "walking"
  BY NewNode
<1>2. inner' = Append(inner, h) /\ scopes' = scopes
  BY DEF HandDown
<1>3. scopes \in Seq(Scope) /\ Len(scopes) \in Nat /\ Len(nodes) \in Nat
  BY DEF IInv, Typed
<1>4. ASSUME status' = "walking", h # 0
      PROVE  scopes'[h] = Visible(nodes', {n} \cup up)
  <2>1. binds = Empty /\ DOMAIN Empty = {}
    BY <1>4 DEF Empty
  <2>2. n >= 1 /\ up \in SUBSET (1..(n - 1)) /\ DOMAIN nodes'[n].binds \subseteq Ids
    BY <1>1, <1>3, <2>1
  <2>3. Visible(nodes', {n} \cup up) = Extended(Visible(nodes', up), n, Empty)
    <3> HIDE DEF up, n
    <3>1. Visible(nodes', {n} \cup up) = Extended(Visible(nodes', up), n, nodes'[n].binds)
      BY ONLY <1>1, <2>2, VisibleBelow
    <3>2. QED
      BY <1>1, <2>1, <3>1
  <2>4. QED
    BY <1>1, <1>2, <1>4, <2>3, NothingBound
<1>5. 1..(n - 1) = 1..Len(nodes)
  BY <1>3
<1>6. QED
  <2> HIDE DEF h
  <2>1. up \in SUBSET (1..Len(nodes)) /\ \A k \in 1..Len(nodes) : nodes'[k] = nodes[k]
    BY <1>1, <1>5
  <2>2. Len(scopes) <= Len(scopes') /\ h <= Len(scopes')
    BY <1>1, <1>2, <1>3
  <2>3. QED
    BY <1>1, <1>2, <1>3, <1>4, <2>1, <2>2, WalkStep

\* A node that binds variables hands down a scope of its own, the one it was
\* handed with its binds on top.
LEMMA CloneStep ==
  ASSUME IInv, NEW kind \in Kinds \ {"unread"}, NEW parent \in 0..Last,
         NEW part \in DOMAIN Before, NEW binds \in Binds,
         NEW id \in Ids \cup {"self", "other", "none"},
         AddNode(kind, parent, part, binds, id),
         Clone(Handed(parent, part), binds),
         FailsForACause'
  PROVE  IInv'
<1> DEFINE n == Len(nodes) + 1
           h == Handed(parent, part)
           up == nodes'[n].up
           below == Extended(scopes[h], n, binds)
<1>1. /\ n \in Nat
      /\ nodes' \in Seq(Node) /\ Len(nodes') = n
      /\ \A k \in 1..(n - 1) : nodes'[k] = nodes[k]
      /\ up \subseteq 1..(n - 1)
      /\ nodes'[n].binds = binds
      /\ scopeOf' = Append(scopeOf, h)
      /\ h \in Nat /\ h <= Len(scopes)
      /\ kind = "unread" <=> h = 0
      /\ h # 0 => scopes[h] = Visible(nodes', up)
      /\ status = "walking"
  BY NewNode
<1>2. scopes \in Seq(Scope) /\ Len(scopes) \in Nat /\ Len(nodes) \in Nat
  BY DEF IInv, Typed
<1>3. h # 0 /\ h \in 1..Len(scopes)
  <2>1. h # 0
    BY <1>1
  <2>2. QED
    BY <1>1, <1>2, <2>1
<1>4. inner' = Append(inner, Len(scopes) + 1) /\ scopes' = Append(scopes, below)
  BY DEF Clone, Extended, Last
<1>5. scopes[h] \in Scope
  BY <1>2, <1>3
<1>6. below \in Scope
  BY <1>1, <1>5, ExtendedTyped
<1>7. /\ scopes' \in Seq(Scope) /\ Len(scopes') = Len(scopes) + 1
      /\ scopes'[Len(scopes) + 1] = below
      /\ \A a \in 1..Len(scopes) : scopes'[a] = scopes[a]
  <2> HIDE DEF below
  <2>1. QED
    BY ONLY <1>2, <1>4, <1>6, AppendProperties
<1>8. scopes'[Len(scopes) + 1] = Visible(nodes', {n} \cup up)
  <2>1. PICK I \in SUBSET Ids : binds \in [I -> Bodies]
    BY DEF Binds
  <2>2. n >= 1 /\ up \in SUBSET (1..(n - 1)) /\ DOMAIN nodes'[n].binds \subseteq Ids
    BY <1>1, <1>2, <2>1
  <2>3. Visible(nodes', {n} \cup up) = Extended(Visible(nodes', up), n, nodes'[n].binds)
    <3> HIDE DEF up, n
    <3>1. QED
      BY ONLY <1>1, <2>2, VisibleBelow
  <2>4. QED
    BY <1>1, <1>3, <1>7, <2>3
<1>9. 1..(n - 1) = 1..Len(nodes)
  BY <1>2
<1>10. QED
  <2> HIDE DEF h, below
  <2>1. up \in SUBSET (1..Len(nodes)) /\ \A k \in 1..Len(nodes) : nodes'[k] = nodes[k]
    BY <1>1, <1>9
  <2>2. Len(scopes) <= Len(scopes') /\ Len(scopes) + 1 <= Len(scopes') /\ Len(scopes) + 1 \in Nat
    BY <1>2, <1>7
  <2>3. QED
    BY <1>1, <1>4, <1>7, <1>8, <2>1, <2>2, WalkStep

----------------------------------------------------------------------------
(* Every step of eval.                                                     *)

LEMMA BindsTyped ==
  /\ Empty \in Binds
  /\ \A params \in SUBSET Ids : [id \in params |-> "nil"] \in Binds
  /\ LocalBinds \subseteq Binds
<1>1. Empty \in [{} -> Bodies]
  BY DEF Empty
<1>2. ASSUME NEW params \in SUBSET Ids PROVE [id \in params |-> "nil"] \in [params -> Bodies]
  BY DEF Bodies
<1>3. QED
  BY <1>1, <1>2 DEF Binds, LocalBinds

\* While eval walks, there is nothing to explain.
LEMMA StillWalking ==
  ASSUME status' = "walking" PROVE FailsForACause'
  BY DEF FailsForACause

LEMMA EvalStep ==
  ASSUME IInv, NEW parent \in 0..Last, NEW part \in DOMAIN Before, Eval(parent, part)
  PROVE  IInv'
<1> DEFINE h == Handed(parent, part)
<1>1. ASSUME NEW kind \in {"plain", "apply", "partialIndex", "unread"},
             EvalPlain(kind, parent, part)
      PROVE  IInv'
  <2>1. kind \in Kinds /\ AddNode(kind, parent, part, Empty, "none") /\ HandDown(h)
    BY <1>1 DEF EvalPlain, Kinds
  <2>2. status' = "walking"
    BY <1>1 DEF EvalPlain, AddNode
  <2>3. QED
    BY <2>1, <2>2, BindsTyped, StillWalking, HandDownStep
<1>2. CASE EvalObject(parent, part)
  <2>1. AddNode("object", parent, part, Empty, "none") /\ Clone(h, Empty)
    BY <1>2 DEF EvalObject
  <2>2. status' = "walking" /\ "object" \in Kinds \ {"unread"}
    BY <1>2 DEF EvalObject, AddNode, Kinds
  <2>3. QED
    BY <2>1, <2>2, BindsTyped, StillWalking, CloneStep
<1>3. ASSUME NEW params \in SUBSET Ids, EvalFunction(parent, part, params)
      PROVE  IInv'
  <2> DEFINE binds == [id \in params |-> "nil"]
  <2>1. AddNode("function", parent, part, binds, "none") /\ Clone(h, binds)
    BY <1>3 DEF EvalFunction
  <2>2. status' = "walking" /\ "function" \in Kinds \ {"unread"} /\ binds \in Binds
    BY <1>3, BindsTyped DEF EvalFunction, AddNode, Kinds
  <2> HIDE DEF binds
  <2>3. QED
    BY <2>1, <2>2, StillWalking, CloneStep
<1>4. ASSUME NEW binds \in LocalBinds, EvalLocal(parent, part, binds)
      PROVE  IInv'
  <2>1. /\ AddNode("local", parent, part, binds, "none") /\ binds \in Binds
        /\ "local" \in Kinds \ {"unread"} /\ "none" \in Ids \cup {"self", "other", "none"}
    BY <1>4, BindsTyped DEF EvalLocal, Kinds
  <2>2. CASE Clone(h, binds) /\ status' = status
    <3>1. status' = "walking"
      BY <2>1, <2>2 DEF AddNode
    <3>2. QED
      BY <2>1, <2>2, <3>1, StillWalking, CloneStep
  <2>3. CASE /\ \E id \in DOMAIN binds : binds[id] \in Imports \ cached
             /\ HandDown(h)
             /\ status' = "error"
    <3>1. /\ Len(nodes') = Len(nodes) + 1 /\ cached' = cached
          /\ nodes'[Len(nodes) + 1].binds = binds
      BY <2>1, NewNode
    <3>2. FailsForACause'
      BY <2>3, <3>1 DEF FailsForACause, Last
    <3>3. "local" \in Kinds
      BY DEF Kinds
    <3>4. QED
      BY <2>1, <2>3, <3>2, <3>3, HandDownStep
  <2>4. QED
    BY <1>4, <2>2, <2>3 DEF EvalLocal
<1>5. ASSUME NEW id \in Ids, EvalVar("var", parent, part, id)
      PROVE  IInv'
  <2>1. AddNode("var", parent, part, Empty, id) /\ HandDown(h)
    BY <1>5 DEF EvalVar
  <2>2. "var" \in Kinds /\ id \in Ids \cup {"self", "other", "none"}
    BY DEF Kinds
  <2>3. CASE status' = status
    <3>1. status' = "walking"
      BY <2>1, <2>3 DEF AddNode
    <3>2. QED
      BY <2>1, <2>2, <3>1, BindsTyped, StillWalking, HandDownStep
  <2>4. CASE id \notin DOMAIN scopes[h] /\ status' = "error"
    <3> DEFINE n == Len(nodes) + 1
    <3>1. /\ Len(nodes') = n
          /\ nodes'[n].kind = "var" /\ nodes'[n].id = id
          /\ h # 0 => scopes[h] = Visible(nodes', nodes'[n].up)
          /\ "var" = "unread" <=> h = 0
      BY <2>1, <2>2, BindsTyped, NewNode
    <3>2. BindersIn(nodes', nodes'[n].up, id) = {}
      <4>1. id \notin DOMAIN Visible(nodes', nodes'[n].up)
        BY <2>4, <3>1
      <4>2. QED
        BY <4>1 DEF Visible
    <3>3. FailsForACause'
      <4>1. {a \in nodes'[n].up : id \in DOMAIN nodes'[a].binds} = {}
        BY ONLY <3>2 DEF BindersIn
      <4> HIDE DEF n
      <4>2. QED
        BY <3>1, <4>1 DEF FailsForACause, Binders, Last
    <3>4. QED
      BY <2>1, <2>2, <3>3, BindsTyped, HandDownStep
  <2>5. QED
    BY <1>5, <2>3, <2>4 DEF EvalVar
<1>6. ASSUME AddNode("index", parent, part, Empty, "self") \/ AddNode("index", parent, part, Empty, "other"),
             HandDown(h)
      PROVE  IInv'
  <2>1. PICK id \in {"self", "other"} : AddNode("index", parent, part, Empty, id)
    BY <1>6
  <2>2. "index" \in Kinds /\ id \in Ids \cup {"self", "other", "none"}
    BY DEF Kinds
  <2>3. Len(nodes') = Len(nodes) + 1 /\ nodes'[Len(nodes) + 1].kind = "index"
    BY <2>1, <2>2, BindsTyped, NewNode
  <2>4. FailsForACause'
    BY <2>3 DEF FailsForACause, Last
  <2>5. QED
    BY <1>6, <2>1, <2>2, <2>4, BindsTyped, HandDownStep
<1>7. CASE EvalVar("index", parent, part, "self")
  BY <1>6, <1>7 DEF EvalVar
<1>8. CASE ResolvePanics(parent, part)
  BY <1>6, <1>8 DEF ResolvePanics
<1>9. QED
  BY <1>1, <1>2, <1>3, <1>4, <1>5, <1>7, <1>8 DEF Eval

\* The walk starts with the outermost scope and no tree.
LEMMA InvInit == Init => IInv
<1> SUFFICES ASSUME Init PROVE IInv
  OBVIOUS
<1>1. Empty \in Scope
  <2>1. Empty \in [{} -> [by : Nat, body : Bodies]]
    BY DEF Empty
  <2>2. QED
    BY <2>1 DEF Scope
<1>2. scopes = <<Empty>> /\ nodes = <<>> /\ scopeOf = <<>> /\ inner = <<>> /\ status = "walking"
  BY DEF Init
<1>3. scopes \in Seq(Scope) /\ Len(scopes) = 1 /\ scopes[1] = Empty
  BY <1>1, <1>2
<1>4. Len(nodes) = 0 /\ 1..Len(nodes) = {} /\ DOMAIN nodes = {}
  BY <1>2
<1>5. Typed
  BY <1>2, <1>3, <1>4 DEF Typed
<1>6. QED
  BY <1>2, <1>3, <1>4, <1>5 DEF IInv, ScopeIsLexical, HandsDownLexical, FailsForACause

LEMMA InvStep == IInv /\ [Next]_vars => IInv'
<1> SUFFICES ASSUME IInv, [Next]_vars PROVE IInv'
  OBVIOUS
<1>1. ASSUME UNCHANGED <<nodes, scopes, scopeOf, inner, status>>, FailsForACause'
      PROVE  IInv'
  <2>1. Typed' /\ scopes'[1] = Empty /\ HandsDownLexical'
    BY <1>1 DEF IInv, Typed, HandsDownLexical
  <2>2. ScopeIsLexical'
    <3>1. \A n : (Lexical(n))' = Lexical(n) /\ (LocationScope(n))' = LocationScope(n)
      BY <1>1 DEF Lexical, Binders, Nearest, LocationScope
    <3>2. QED
      BY <1>1, <3>1 DEF IInv, ScopeIsLexical
  <2>3. QED
    BY <1>1, <2>1, <2>2 DEF IInv
<1>2. ASSUME NEW parent \in 0..Last, NEW part \in DOMAIN Before, Eval(parent, part)
      PROVE  IInv'
  BY <1>2, EvalStep
<1>3. ASSUME NEW import \in Imports, CacheStores(import) PROVE IInv'
  <2>1. status' = "walking" /\ UNCHANGED <<nodes, scopes, scopeOf, inner, status>>
    BY <1>3 DEF CacheStores
  <2>2. QED
    BY <1>1, <2>1, StillWalking
<1>4. CASE UNCHANGED vars
  <2>1. FailsForACause'
    BY <1>4 DEF IInv, FailsForACause, vars, Binders, Last
  <2>2. QED
    BY <1>1, <1>4, <2>1 DEF vars
<1>5. QED
  BY <1>2, <1>3, <1>4 DEF Next

LEMMA Invariance == Spec => []IInv
  BY InvInit, InvStep, PTL DEF Spec

----------------------------------------------------------------------------
(* The results.                                                            *)

\* The maps eval hands down implement lexical scoping: whatever the document
\* and however the node cache fills meanwhile, the scope LocationScope answers
\* with for a node eval came to has for each variable the nearest binding above
\* the node, and no other variable.
THEOREM Lexically == Spec => []ScopeIsLexical
<1>1. IInv => ScopeIsLexical
  BY DEF IInv
<1>2. QED
  BY <1>1, Invariance, PTL

\* eval never fails for a variable that some node above binds, nor for an
\* import that is cached.
THEOREM OnlyForACause == Spec => []FailsForACause
<1>1. IInv => FailsForACause
  BY DEF IInv
<1>2. QED
  BY <1>1, Invariance, PTL
=============================================================================

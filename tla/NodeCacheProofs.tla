-------------------------- MODULE NodeCacheProofs --------------------------
(***************************************************************************)
(* Theorems about NodeCache, for any number of runs, files, library        *)
(* directories and writes.                                                 *)
(***************************************************************************)
EXTENDS NodeCache, SequenceTheorems, WellFoundedInduction, TLAPS

\* Times by import and by file.
DepTimes  == UNION {[N -> Nat] : N \in SUBSET Names}
ReadTimes == UNION {[P -> Nat] : P \in SUBSET LibFiles}

Run == [pc : {"idle", "spawned", "keys", "next", "collect", "stat", "build", "stored", "done", "failed"},
        doc : Docs \cup {{}}, paths : Seq(Directories), imports : SUBSET Names,
        pending : SUBSET Names, key : Names \cup {0}, frontier : SUBSET LibFiles,
        deps : DepTimes, node : ReadTimes, since : Nat,
        notice : {"quiet", "running", "complete", "abandoned", "closed"}]
CacheEntry == [deps : DepTimes, node : ReadTimes, libPaths : Seq(Directories)]

Typed ==
    /\ TypeOK
    /\ DOMAIN disk = Paths
    /\ run \in [Workers -> Run]
    /\ \A k \in DOMAIN store : store[k] \in CacheEntry

\* Of a run r: its imports are in the lib paths it read ...
Findable(r) == \A n \in r.imports \cup DOMAIN r.deps : Found(n, r.paths)
\* ... it has a document and then works on one of its imports ...
Keyed(r) ==
    /\ r.pc = "spawned" => r.doc \in Docs
    /\ r.pc \in {"collect", "stat", "build", "stored"} => r.key \in r.imports
\* ... of which it has collected nothing yet or any more ...
Blank(r) == r.pc \in {"idle", "spawned", "keys", "next", "done"} => DOMAIN r.deps = {}
\* ... it stats what it collected, and no time it noted is newer than the disk ...
Statting(r) ==
    /\ r.pc = "stat" => r.frontier \subseteq {ImportPath(n, r.paths) : n \in DOMAIN r.deps}
    /\ \A n \in DOMAIN r.deps : r.deps[n] <= disk[ImportPath(n, r.paths)].mtime
\* ... what it builds lies between the times it noted and the disk ...
Building(r) ==
    /\ r.pc # "build" => DOMAIN r.node = {}
    /\ \A p \in DOMAIN r.node :
          /\ r.node[p] <= disk[p].mtime
          /\ \A n \in DOMAIN r.deps : ImportPath(n, r.paths) = p => r.deps[n] <= r.node[p]
\* ... and is not older than any entry ...
Ahead(r) ==
    \A k \in DOMAIN store : \A p \in DOMAIN store[k].node \cap DOMAIN r.node :
        store[k].node[p] <= r.node[p]
\* ... and the imports it is through with are in the cache.
Cached(r) ==
    /\ \A n \in r.imports \ r.pending :
          n \in DOMAIN store \/ (r.pc \in {"collect", "stat", "build"} /\ n = r.key)
    /\ r.pc = "done" => r.pending = {}
    /\ r.notice = "complete" => r.pc = "done"

Good(r) ==
    /\ r.pending \subseteq r.imports
    /\ Findable(r) /\ Keyed(r) /\ Blank(r) /\ Statting(r) /\ Building(r) /\ Ahead(r) /\ Cached(r)

Mutex == \A w \in Workers : run[w].pc = "build" => mu = w
NotFromFuture ==
    \A k \in DOMAIN store : \A p \in DOMAIN store[k].node : store[k].node[p] <= disk[p].mtime

IInv == /\ Typed /\ Mutex /\ NotFromFuture /\ RecordedNotNewer
        /\ \A w \in Workers : Good(run[w])

----------------------------------------------------------------------------
(* The least and the greatest of a set of numbers.                         *)

LEMMA LeastOf ==
  ASSUME NEW S, S \subseteq Nat, S # {}
  PROVE  \E x \in S : \A y \in S : x <= y
<1> DEFINE R == OpToRel(<, Nat)
<1>1. IsWellFoundedOn(R, Nat)
  BY NatLessThanWellFounded
<1> HIDE DEF R
<1>2. PICK x \in S : \A y \in S : <<y, x>> \notin R
  BY <1>1, WFMin
<1>3. \A y \in S : ~(y < x)
  BY <1>2 DEF R, OpToRel
<1>4. \A y \in S : y \in Nat /\ x \in Nat
  OBVIOUS
<1>5. QED
  BY <1>3, <1>4

LEMMA MinIn ==
  ASSUME NEW S, S \subseteq Nat, S # {}
  PROVE  Min(S) \in S /\ \A y \in S : Min(S) <= y
  BY LeastOf DEF Min

LEMMA MaxIn ==
  ASSUME NEW S, NEW N \in Nat, S \subseteq 0..N, S # {}
  PROVE  Max(S) \in S
<1> DEFINE T == {N - s : s \in S}
<1>1. \A s \in S : s \in 0..N
  OBVIOUS
<1>2. \A s \in S : N - s \in Nat
  BY <1>1
<1>3. T \subseteq Nat /\ T # {}
  BY <1>2
<1>4. PICK t \in T : \A y \in T : t <= y
  BY ONLY <1>3, LeastOf
<1>5. PICK x \in S : t = N - x
  OBVIOUS
<1>6. \A y \in S : x >= y
  <2> TAKE y \in S
  <2>1. N - y \in T
    OBVIOUS
  <2>2. N - x <= N - y
    BY <1>4, <1>5, <2>1
  <2>3. QED
    BY <1>1, <2>2
<1>7. QED
  BY <1>6 DEF Max

\* What is found is a file of a library.
LEMMA FoundInLibrary ==
  ASSUME NEW n, NEW lp \in Seq(Directories), Found(n, lp)
  PROVE  ImportPath(n, lp) \in LibFiles /\ <<lp[Max(Holding(n, lp))], n>> \in LibFiles
<1>1. Holding(n, lp) \subseteq 1..Len(lp) /\ Len(lp) \in Nat /\ Holding(n, lp) # {}
  BY DEF Holding, Found
<1>2. Min(Holding(n, lp)) \in Holding(n, lp)
  <2>1. Holding(n, lp) \subseteq Nat
    BY <1>1
  <2>2. QED
    BY ONLY <1>1, <2>1, MinIn
<1>3. Max(Holding(n, lp)) \in Holding(n, lp)
  <2>1. Holding(n, lp) \subseteq 0..Len(lp)
    BY <1>1
  <2>2. QED
    BY ONLY <1>1, <2>1, MaxIn
<1>4. QED
  BY <1>2, <1>3 DEF Holding, ImportPath

LEMMA ImportInLibrary ==
  ASSUME NEW n, NEW dir, NEW lp \in Seq(Directories), Resolves(dir, n, lp)
  PROVE  Import(dir, n, lp) \in LibFiles
  BY FoundInLibrary DEF Resolves, Import

\* Whatever a racing read of the lib paths sees is a sequence of directories.
LEMMA ReadsArePaths ==
  ASSUME TypeOK, NEW lp \in LibPathReads
  PROVE  lp \in Seq(Directories)
<1>1. libPaths \in Seq(Directories)
  BY ConfigAssumption DEF TypeOK
<1>2. CASE incoming = Nothing
  BY <1>1, <1>2 DEF LibPathReads
<1>3. CASE incoming # Nothing
  <2>1. incoming \in Seq(Directories)
    BY <1>3, ConfigAssumption DEF TypeOK
  <2> DEFINE lens == {Len(s) : s \in {libPaths, incoming}}
             len == Min(lens)
  <2>2. lens \subseteq Nat /\ lens # {}
    BY <1>1, <2>1
  <2>3. len \in lens
    BY ONLY <2>2, MinIn
  <2>4. len \in Nat
    BY <2>2, <2>3
  <2>5. \A x \in lens : len <= x
    BY ONLY <2>2, MinIn
  <2>6. \A s \in {libPaths, incoming} : SubSeq(s, 1, len) \in Seq(Directories)
    <3> TAKE s \in {libPaths, incoming}
    <3>1. s \in Seq(Directories) /\ len <= Len(s)
      BY <1>1, <2>1, <2>5
    <3>2. \A i \in 1..len : s[i] \in Directories
      BY <2>4, <3>1
    <3>3. SubSeq(s, 1, len) = [i \in 1..len |-> s[i]]
      BY <2>4, <3>1
    <3> HIDE DEF len
    <3>4. QED
      BY <2>4, <3>2, <3>3
  <2>7. QED
    BY <1>1, <1>3, <2>1, <2>6 DEF LibPathReads
<1>4. QED
  BY <1>2, <1>3

----------------------------------------------------------------------------
(* Steps of one run.                                                       *)

LEMMA Becomes ==
  ASSUME Typed, NEW w \in Workers, NEW r, Become(w, r)
  PROVE  /\ run'[w] = r
         /\ \A v \in Workers : v # w => run'[v] = run[v]
         /\ r \in Run => run' \in [Workers -> Run]
  BY DEF Typed, Become

\* A step of one run that leaves the entries and the disk alone.
LEMMA RunStep ==
  ASSUME IInv, NEW w \in Workers, NEW r \in Run, Become(w, r), Good(r),
         UNCHANGED <<alive, disk, clock, libPaths, incoming, store>>,
         mu' \in Workers \cup {Nobody}, r.pc = "build" => mu' = w,
         \A v \in Workers : v # w /\ mu = v => mu' = v
  PROVE  IInv'
<1>1. /\ run'[w] = r /\ run' \in [Workers -> Run]
      /\ \A v \in Workers : v # w => run'[v] = run[v]
  BY Becomes DEF IInv
<1>2. \A v \in Workers : Good(run'[v])
  BY <1>1 DEF IInv
<1>3. \A v \in Workers : Good(run[v])'
  <2> TAKE v \in Workers
  <2>1. Good(run'[v])
    BY <1>2
  <2>2. QED
    BY <2>1 DEF Good, Findable, Keyed, Blank, Statting, Building, Ahead, Cached
<1>4. \A v \in Workers : run'[v] \in Run /\ run'[v].pending \subseteq run'[v].imports
  BY <1>1, <1>2 DEF Good
<1>5. TypeOK'
  <2>1. \A v \in Workers :
          /\ run'[v].pc \in {"idle", "spawned", "keys", "next", "collect", "stat",
                            "build", "stored", "done", "failed"}
          /\ run'[v].imports \subseteq Names /\ run'[v].frontier \subseteq LibFiles
          /\ run'[v].notice \in {"quiet", "running", "complete", "abandoned", "closed"}
    BY <1>4 DEF Run
  <2>2. QED
    BY <1>4, <2>1 DEF TypeOK, IInv, Typed
<1>6. Typed'
  BY <1>1, <1>5 DEF IInv, Typed
<1>7. Mutex'
  BY <1>1 DEF IInv, Mutex
<1>8. NotFromFuture' /\ RecordedNotNewer'
  BY DEF IInv, NotFromFuture, RecordedNotNewer
<1>9. QED
  BY <1>3, <1>6, <1>7, <1>8 DEF IInv

\* What is known of run w before it takes a step.
LEMMA RunFacts ==
  ASSUME IInv, NEW w \in Workers
  PROVE  /\ Typed /\ run[w] \in Run /\ Good(run[w])
         /\ run[w].imports \subseteq Names /\ run[w].pending \subseteq run[w].imports
         /\ run[w].paths \in Seq(Directories) /\ run[w].frontier \subseteq LibFiles
         /\ clock \in Nat /\ mu \in Workers \cup {Nobody}
         /\ \A p \in Paths : disk[p].what \in Contents(p) /\ disk[p].mtime \in Nat
  BY ClockAssumption DEF IInv, Typed, TypeOK, Run, Good

\* The recorded times and the times read by run w are times of names and files.
LEMMA TimesTyped ==
  ASSUME IInv, NEW w \in Workers
  PROVE  /\ \E N \in SUBSET Names : run[w].deps \in [N -> Nat]
         /\ \E P \in SUBSET LibFiles : run[w].node \in [P -> Nat]
<1>1. run[w] \in Run
  BY RunFacts
<1>2. run[w].deps \in DepTimes /\ run[w].node \in ReadTimes
  BY ONLY <1>1 DEF Run
<1>3. QED
  BY ONLY <1>2 DEF DepTimes, ReadTimes

LEMMA EmptyTimes == Empty \in DepTimes /\ Empty \in ReadTimes /\ DOMAIN Empty = {}
<1>1. Empty \in [{} -> Nat] /\ DOMAIN Empty = {}
  BY DEF Empty
<1>2. QED
  BY <1>1 DEF DepTimes, ReadTimes

\* A run that has just started or has failed owes nothing.
LEMMA BlankGood ==
  ASSUME NEW r, r.pc \in {"idle", "spawned", "failed"}, r.pc = "spawned" => r.doc \in Docs,
         r.imports = {}, r.pending = {}, r.deps = Empty, r.node = Empty,
         r.notice # "complete"
  PROVE  Good(r)
  BY EmptyTimes DEF Good, Findable, Keyed, Blank, Statting, Building, Ahead, Cached

LEMMA NewRunTyped == NewRun \in Run
  BY EmptyTimes DEF NewRun, Run

LEMMA FailStep ==
  ASSUME IInv, NEW w \in Workers, Fail(w), ~At(w, "done"),
         UNCHANGED <<alive, disk, clock, libPaths, incoming, store>>,
         mu' \in Workers \cup {Nobody}, \A v \in Workers : v # w /\ mu = v => mu' = v
  PROVE  IInv'
<1> DEFINE notice == run[w].notice
           r == [NewRun EXCEPT !.pc = "failed", !.notice = notice]
<1>1. notice \in {"quiet", "running", "abandoned", "closed"}
  BY RunFacts DEF Run, At, Good, Cached
<1>2. Become(w, r)
  BY DEF Fail
<1> HIDE DEF notice
<1>3. /\ r \in Run /\ r.pc = "failed" /\ r.imports = {} /\ r.pending = {}
      /\ r.deps = Empty /\ r.node = Empty /\ r.notice = notice
  BY <1>1, NewRunTyped DEF NewRun, Run
<1> HIDE DEF r
<1>4. Good(r)
  BY <1>1, <1>3, BlankGood
<1>5. QED
  BY <1>2, <1>3, <1>4, RunStep

LEMMA StartStep ==
  ASSUME IInv, NEW w \in Workers, NEW d \in Docs, Start(w, d)
  PROVE  IInv'
<1> DEFINE r == [NewRun EXCEPT !.pc = "spawned", !.doc = d]
<1>1. Become(w, r)
  BY DEF Start
<1>2. /\ r \in Run /\ r.pc = "spawned" /\ r.imports = {} /\ r.pending = {}
      /\ r.deps = Empty /\ r.node = Empty /\ r.notice = "quiet" /\ r.doc \in Docs
  BY NewRunTyped DEF NewRun, Run
<1> HIDE DEF r
<1>3. Good(r)
  BY <1>2, BlankGood
<1>4. QED
  BY <1>1, <1>2, <1>3, RunStep, RunFacts DEF Start, Shared

LEMMA CollectShallowStep ==
  ASSUME IInv, NEW w \in Workers, CollectShallow(w)
  PROVE  IInv'
<1>1. PICK lp \in LibPathReads :
        LET file == disk[run[w].doc].what
        IN  IF Collectable(file, lp)
              THEN Become(w, [run[w] EXCEPT !.pc = "keys", !.paths = lp,
                                !.imports = file.imports, !.pending = file.imports])
              ELSE Fail(w)
  BY DEF CollectShallow
<1>2. UNCHANGED <<alive, disk, clock, libPaths, incoming, store, mu>> /\ At(w, "spawned")
  BY DEF CollectShallow, Shared
<1> DEFINE file == disk[run[w].doc].what
           r == [run[w] EXCEPT !.pc = "keys", !.paths = lp,
                   !.imports = file.imports, !.pending = file.imports]
<1>3. CASE ~Collectable(file, lp)
  BY <1>1, <1>2, <1>3, FailStep, RunFacts DEF At
<1>4. CASE Collectable(file, lp)
  <2>1. Become(w, r)
    BY <1>1, <1>4
  <2>2. lp \in Seq(Directories)
    BY ReadsArePaths DEF IInv, Typed
  <2>3. file.imports \subseteq Names /\ \A n \in file.imports : Found(n, lp)
    <3>1. run[w].doc \in Paths
      BY <1>2, RunFacts DEF At, Good, Keyed, Paths
    <3>2. file \in Contents(run[w].doc)
      BY <3>1, RunFacts
    <3>3. QED
      BY <1>4, <3>1, <3>2, ContentsAssumption DEF Collectable
  <2>4. /\ r \in Run /\ r.pc = "keys" /\ r.imports = file.imports /\ r.pending = file.imports
        /\ r.paths = lp /\ r.deps = run[w].deps /\ r.node = run[w].node
        /\ r.notice = run[w].notice
    <3> HIDE DEF file
    <3>1. run[w] \in Run /\ run[w].imports \subseteq Names /\ run[w].paths \in Seq(Directories)
      BY RunFacts
    <3>2. QED
      BY ONLY <3>1, <2>2, <2>3 DEF Run
  <2> HIDE DEF r, file
  <2>5. DOMAIN run[w].deps = {} /\ DOMAIN run[w].node = {} /\ run[w].notice # "complete"
    BY <1>2, RunFacts DEF At, Good, Building, Blank, Cached
  <2>6. Good(r)
    BY <2>3, <2>4, <2>5 DEF Good, Findable, Keyed, Blank, Statting, Building, Ahead, Cached
  <2>7. QED
    BY <1>2, <2>1, <2>4, <2>6, RunStep, RunFacts
<1>5. QED
  BY <1>3, <1>4

LEMMA KeysBeforeStep ==
  ASSUME IInv, NEW w \in Workers, KeysBefore(w)
  PROVE  IInv'
<1> DEFINE r == [run[w] EXCEPT !.pc = "next"]
<1>1. /\ UNCHANGED <<alive, disk, clock, libPaths, incoming, store, mu>>
      /\ run[w].pc = "keys" /\ Become(w, r)
  BY DEF KeysBefore, Shared, At
<1>2. /\ r \in Run /\ r.pc = "next" /\ r.imports = run[w].imports
      /\ r.pending = run[w].pending /\ r.notice = run[w].notice
      /\ r.paths = run[w].paths /\ r.deps = run[w].deps /\ r.node = run[w].node
  BY <1>1, RunFacts DEF Run
<1> HIDE DEF r
<1>3. Good(r)
  BY <1>1, <1>2, RunFacts
     DEF Good, Findable, Keyed, Blank, Statting, Building, Ahead, Cached
<1>4. QED
  BY <1>1, <1>2, <1>3, RunStep, RunFacts

LEMMA NextImportStep ==
  ASSUME IInv, NEW w \in Workers, NextImport(w)
  PROVE  IInv'
<1> DEFINE k == Min(run[w].pending)
           r == [run[w] EXCEPT !.pc = "collect", !.key = k, !.pending = @ \ {k},
                   !.frontier = {ImportPath(k, run[w].paths)}, !.since = clock]
<1>1. /\ UNCHANGED <<alive, disk, clock, libPaths, incoming, store, mu>>
      /\ run[w].pc = "next" /\ run[w].pending # {} /\ Become(w, r)
  BY DEF NextImport, Shared, At
<1>2. k \in run[w].pending /\ k \in Names /\ k \in run[w].imports
  <2>1. run[w].pending \subseteq Nat
    BY RunFacts, NamesAssumption
  <2>2. k \in run[w].pending
    BY ONLY <1>1, <2>1, MinIn
  <2>3. QED
    BY <2>2, RunFacts
<1>3. ImportPath(k, run[w].paths) \in LibFiles
  <2> HIDE DEF k
  <2>1. Found(k, run[w].paths)
    BY <1>2, RunFacts DEF Good, Findable
  <2>2. QED
    BY <2>1, RunFacts, FoundInLibrary
<1> HIDE DEF k
<1>4. /\ r \in Run /\ r.pc = "collect" /\ r.imports = run[w].imports
      /\ r.pending = run[w].pending \ {k} /\ r.key = k
      /\ r.paths = run[w].paths /\ r.deps = run[w].deps /\ r.node = run[w].node
      /\ r.notice = run[w].notice
  <2>1. run[w] \in Run /\ run[w].imports \subseteq Names /\ clock \in Nat
    BY RunFacts
  <2>2. QED
    BY ONLY <2>1, <1>2, <1>3 DEF Run
<1> HIDE DEF r
<1>5. Good(r)
  BY <1>1, <1>2, <1>4, RunFacts
     DEF Good, Findable, Keyed, Blank, Statting, Building, Ahead, Cached
<1>6. QED
  BY <1>1, <1>4, <1>5, RunStep, RunFacts

LEMMA NoMoreImportsStep ==
  ASSUME IInv, NEW w \in Workers, NoMoreImports(w)
  PROVE  IInv'
<1> DEFINE r == [run[w] EXCEPT !.pc = "done"]
<1>1. /\ UNCHANGED <<alive, disk, clock, libPaths, incoming, store, mu>>
      /\ run[w].pc = "next" /\ run[w].pending = {} /\ Become(w, r)
  BY DEF NoMoreImports, Shared, At
<1>2. /\ r \in Run /\ r.pc = "done" /\ r.imports = run[w].imports
      /\ r.pending = run[w].pending
      /\ r.paths = run[w].paths /\ r.deps = run[w].deps /\ r.node = run[w].node
  BY RunFacts DEF Run
<1> HIDE DEF r
<1>3. Good(r)
  BY <1>1, <1>2, RunFacts
     DEF Good, Findable, Keyed, Blank, Statting, Building, Ahead, Cached
<1>4. QED
  BY <1>1, <1>2, <1>3, RunStep, RunFacts

LEMMA CollectFileStep ==
  ASSUME IInv, NEW w \in Workers, CollectFile(w)
  PROVE  IInv'
<1>1. /\ UNCHANGED <<alive, disk, clock, libPaths, incoming, store, mu>>
      /\ run[w].pc = "collect"
  BY DEF CollectFile, Shared, At
<1>2. PICK p \in run[w].frontier :
        LET file  == disk[p].what
            below == {ImportPath(n, run[w].paths) : n \in file.imports}
            rest  == (run[w].frontier \ {p}) \cup below
            names == DOMAIN run[w].deps \cup file.imports
        IN  IF Collectable(file, run[w].paths)
              THEN Become(w, [run[w] EXCEPT
                     !.deps = [n \in names |-> 0],
                     !.frontier = IF rest # {} THEN rest
                                  ELSE {ImportPath(n, run[w].paths) : n \in names},
                     !.pc = IF rest = {} THEN "stat" ELSE "collect"])
              ELSE Fail(w)
  BY DEF CollectFile
<1> DEFINE file  == disk[p].what
           below == {ImportPath(n, run[w].paths) : n \in file.imports}
           rest  == (run[w].frontier \ {p}) \cup below
           names == DOMAIN run[w].deps \cup file.imports
           deps  == [n \in names |-> 0]
           next  == IF rest # {} THEN rest ELSE {ImportPath(n, run[w].paths) : n \in names}
           pc    == IF rest = {} THEN "stat" ELSE "collect"
           r     == [run[w] EXCEPT !.deps = deps, !.frontier = next, !.pc = pc]
<1>3. CASE ~Collectable(file, run[w].paths)
  BY <1>1, <1>2, <1>3, FailStep, RunFacts DEF At
<1>4. CASE Collectable(file, run[w].paths)
  <2>1. Become(w, r)
    BY <1>2, <1>4
  <2>2. names \subseteq Names /\ \A n \in names : Found(n, run[w].paths)
    <3>1. p \in Paths /\ file \in Contents(p)
      BY RunFacts DEF Paths
    <3>2. file.imports \subseteq Names
      BY <3>1, ContentsAssumption
    <3>3. DOMAIN run[w].deps \subseteq Names
      BY TimesTyped
    <3>4. \A n \in DOMAIN run[w].deps : Found(n, run[w].paths)
      BY RunFacts DEF Good, Findable
    <3>5. QED
      BY <1>4, <3>2, <3>3, <3>4 DEF Collectable
  <2>3. \A n \in names : ImportPath(n, run[w].paths) \in LibFiles
    BY <2>2, FoundInLibrary, RunFacts
  <2>4. next \subseteq LibFiles
    BY <2>3, RunFacts
  <2>5. deps \in DepTimes /\ DOMAIN deps = names /\ \A n \in names : deps[n] = 0
    <3>1. deps \in [names -> Nat]
      OBVIOUS
    <3>2. QED
      BY <2>2, <3>1 DEF DepTimes
  <2>6. pc \in {"stat", "collect"}
        /\ (pc = "stat" => next = {ImportPath(n, run[w].paths) : n \in names})
    OBVIOUS
  <2> HIDE DEF deps, next, pc, names
  <2>7. /\ r \in Run /\ r.pc = pc /\ r.imports = run[w].imports /\ r.key = run[w].key
        /\ r.pending = run[w].pending /\ r.paths = run[w].paths /\ r.deps = deps
        /\ r.frontier = next /\ r.node = run[w].node /\ r.notice = run[w].notice
    <3>1. run[w] \in Run /\ run[w].imports \subseteq Names /\ run[w].paths \in Seq(Directories)
      BY RunFacts
    <3>2. QED
      BY ONLY <3>1, <2>4, <2>5, <2>6 DEF Run
  <2> HIDE DEF r
  <2>8. Statting(r)
    BY <2>3, <2>5, <2>6, <2>7, RunFacts DEF Statting, Paths
  <2>9. Building(r) /\ Ahead(r)
    BY <1>1, <2>7, RunFacts DEF Good, Building, Ahead
  <2>10. Findable(r) /\ Keyed(r) /\ Blank(r) /\ Cached(r) /\ r.pending \subseteq r.imports
    BY <1>1, <2>2, <2>5, <2>6, <2>7, RunFacts DEF Good, Findable, Keyed, Blank, Cached
  <2>11. Good(r)
    BY <2>8, <2>9, <2>10 DEF Good
  <2>12. QED
    BY <1>1, <2>1, <2>6, <2>7, <2>11, RunStep, RunFacts
<1>5. QED
  BY <1>3, <1>4

LEMMA StatDependencyStep ==
  ASSUME IInv, NEW w \in Workers, StatDependency(w)
  PROVE  IInv'
<1>1. /\ UNCHANGED <<alive, disk, clock, libPaths, incoming, store, mu>>
      /\ run[w].pc = "stat"
  BY DEF StatDependency, Shared, At
<1>2. PICK p \in run[w].frontier :
        Become(w, [run[w] EXCEPT !.deps[p[2]] = disk[p].mtime, !.frontier = @ \ {p}])
  BY DEF StatDependency
<1>3. PICK n \in DOMAIN run[w].deps : p = ImportPath(n, run[w].paths)
  BY <1>1, RunFacts DEF Good, Statting
<1>4. p[2] = n
  BY <1>3 DEF ImportPath
<1> DEFINE deps == [run[w].deps EXCEPT ![n] = disk[p].mtime]
           r    == [run[w] EXCEPT !.deps = deps, !.frontier = @ \ {p}]
<1>5. Become(w, r)
  BY <1>2, <1>4
<1>6. /\ deps \in DepTimes /\ DOMAIN deps = DOMAIN run[w].deps /\ deps[n] = disk[p].mtime
      /\ \A m \in DOMAIN deps : m # n => deps[m] = run[w].deps[m]
  <2>1. PICK N \in SUBSET Names : run[w].deps \in [N -> Nat]
    BY TimesTyped
  <2>2. disk[p].mtime \in Nat
    BY RunFacts DEF Paths
  <2>3. deps \in [N -> Nat]
    BY <2>1, <2>2
  <2>4. QED
    BY <2>1, <2>3 DEF DepTimes
<1> HIDE DEF deps
<1>7. /\ r \in Run /\ r.pc = "stat" /\ r.imports = run[w].imports /\ r.key = run[w].key
      /\ r.pending = run[w].pending /\ r.paths = run[w].paths /\ r.deps = deps
      /\ r.frontier = run[w].frontier \ {p} /\ r.node = run[w].node
      /\ r.notice = run[w].notice
  <2>1. run[w] \in Run /\ run[w].imports \subseteq Names /\ run[w].paths \in Seq(Directories)
    BY RunFacts
  <2>2. QED
    BY ONLY <2>1, <1>1, <1>6 DEF Run
<1> HIDE DEF r
<1>8. Statting(r)
  <2>1. \A m \in DOMAIN deps : deps[m] <= disk[ImportPath(m, run[w].paths)].mtime
    <3> TAKE m \in DOMAIN deps
    <3>1. disk[p].mtime <= disk[p].mtime
      BY RunFacts DEF Paths
    <3>2. CASE m = n
      BY <1>3, <1>6, <3>1, <3>2
    <3>3. CASE m # n
      BY <1>6, <3>3, RunFacts DEF Good, Statting
    <3>4. QED
      BY <3>2, <3>3
  <2>2. QED
    BY <1>1, <1>6, <1>7, <2>1, RunFacts DEF Good, Statting
<1>9. Building(r) /\ Ahead(r)
  BY <1>1, <1>7, RunFacts DEF Good, Building, Ahead
<1>10. Findable(r) /\ Keyed(r) /\ Blank(r) /\ Cached(r) /\ r.pending \subseteq r.imports
  BY <1>1, <1>6, <1>7, RunFacts DEF Good, Findable, Keyed, Blank, Cached
<1>11. Good(r)
  BY <1>8, <1>9, <1>10 DEF Good
<1>12. QED
  BY <1>1, <1>5, <1>7, <1>11, RunStep, RunFacts

LEMMA LockForBuildStep ==
  ASSUME IInv, NEW w \in Workers, LockForBuild(w)
  PROVE  IInv'
<1> DEFINE p == ImportPath(run[w].key, run[w].paths)
           r == [run[w] EXCEPT !.pc = "build", !.frontier = {p}]
<1>1. /\ UNCHANGED <<alive, disk, clock, libPaths, incoming, store>>
      /\ run[w].pc = "stat" /\ mu = Nobody /\ mu' = w /\ Become(w, r)
  BY DEF LockForBuild, Statted, Shared, At
<1>2. p \in LibFiles
  <2>1. Found(run[w].key, run[w].paths)
    BY <1>1, RunFacts DEF Good, Keyed, Findable
  <2>2. QED
    BY <2>1, RunFacts, FoundInLibrary
<1> HIDE DEF p
<1>3. /\ r \in Run /\ r.pc = "build" /\ r.imports = run[w].imports /\ r.key = run[w].key
      /\ r.pending = run[w].pending /\ r.paths = run[w].paths /\ r.deps = run[w].deps
      /\ r.node = run[w].node /\ r.notice = run[w].notice
  BY <1>2, RunFacts DEF Run
<1> HIDE DEF r
<1>4. Good(r)
  BY <1>1, <1>3, RunFacts DEF Good, Findable, Keyed, Blank, Statting, Building, Ahead, Cached
<1>5. QED
  BY <1>1, <1>3, <1>4, RunStep, RunFacts, MutexAssumption

LEMMA UpToDateStep ==
  ASSUME IInv, NEW w \in Workers, UpToDate(w)
  PROVE  IInv'
<1> DEFINE r == [run[w] EXCEPT !.pc = "stored"]
<1>1. /\ UNCHANGED <<alive, disk, clock, libPaths, incoming, store, mu>>
      /\ run[w].pc = "stat" /\ run[w].key \in DOMAIN store /\ Become(w, r)
  BY DEF UpToDate, Statted, Shared, At
<1>2. /\ r \in Run /\ r.pc = "stored" /\ r.imports = run[w].imports /\ r.key = run[w].key
      /\ r.pending = run[w].pending /\ r.paths = run[w].paths /\ r.deps = run[w].deps
      /\ r.node = run[w].node /\ r.notice = run[w].notice
  BY RunFacts DEF Run
<1> HIDE DEF r
<1>3. Good(r)
  BY <1>1, <1>2, RunFacts DEF Good, Findable, Keyed, Blank, Statting, Building, Ahead, Cached
<1>4. QED
  BY <1>1, <1>2, <1>3, RunStep, RunFacts

LEMMA BuildReadStep ==
  ASSUME IInv, NEW w \in Workers, BuildRead(w)
  PROVE  IInv'
<1>1. /\ UNCHANGED <<alive, disk, clock, libPaths, incoming, store, mu>>
      /\ run[w].pc = "build"
  BY DEF BuildRead, Shared, At
<1>2. PICK p \in run[w].frontier :
        LET lp    == run[w].paths
            read  == [q \in DOMAIN run[w].node \cup {p} |->
                        IF q = p THEN disk[p].mtime ELSE run[w].node[q]]
            below == {Import(p[1], n, lp) : n \in disk[p].what.imports}
        IN  /\ Buildable(p, lp)
            /\ Become(w, [run[w] EXCEPT !.node = read,
                            !.frontier = (@ \cup below) \ DOMAIN read])
  BY DEF BuildRead
<1> DEFINE read  == [q \in DOMAIN run[w].node \cup {p} |->
                       IF q = p THEN disk[p].mtime ELSE run[w].node[q]]
           below == {Import(p[1], n, run[w].paths) : n \in disk[p].what.imports}
           next  == (run[w].frontier \cup below) \ DOMAIN read
           r     == [run[w] EXCEPT !.node = read, !.frontier = next]
<1>3. Become(w, r)
  BY <1>2
<1>4. p \in LibFiles /\ disk[p].mtime \in Nat
  BY RunFacts DEF Paths
<1>5. next \subseteq LibFiles
  <2>1. \A n \in disk[p].what.imports : Resolves(p[1], n, run[w].paths)
    BY <1>2 DEF Buildable
  <2>2. below \subseteq LibFiles
    BY <2>1, ImportInLibrary, RunFacts
  <2>3. QED
    BY <2>2, RunFacts
<1>6. /\ read \in ReadTimes /\ DOMAIN read = DOMAIN run[w].node \cup {p}
      /\ read[p] = disk[p].mtime
      /\ \A q \in DOMAIN run[w].node : q # p => read[q] = run[w].node[q]
  <2>1. PICK P \in SUBSET LibFiles : run[w].node \in [P -> Nat]
    BY TimesTyped
  <2>2. read \in [P \cup {p} -> Nat]
    BY <1>4, <2>1
  <2>3. P \cup {p} \in SUBSET LibFiles
    BY <1>4, <2>1
  <2>4. read \in ReadTimes
    BY ONLY <2>2, <2>3 DEF ReadTimes
  <2>5. QED
    BY <2>4
<1> HIDE DEF read, next
<1>7. /\ r \in Run /\ r.pc = "build" /\ r.imports = run[w].imports /\ r.key = run[w].key
      /\ r.pending = run[w].pending /\ r.paths = run[w].paths /\ r.deps = run[w].deps
      /\ r.node = read /\ r.notice = run[w].notice
  <2>1. run[w] \in Run /\ run[w].imports \subseteq Names /\ run[w].paths \in Seq(Directories)
    BY RunFacts
  <2>2. QED
    BY ONLY <2>1, <1>1, <1>5, <1>6 DEF Run
<1> HIDE DEF r
<1>8. Building(r)
  <2>1. disk[p].mtime <= disk[p].mtime
    BY <1>4
  <2>2. \A n \in DOMAIN run[w].deps :
           ImportPath(n, run[w].paths) = p => run[w].deps[n] <= disk[p].mtime
    BY RunFacts DEF Good, Statting
  <2>3. QED
    BY <1>6, <1>7, <2>1, <2>2, RunFacts DEF Good, Building
<1>9. Ahead(r)
  <2>1. \A k \in DOMAIN store : p \in DOMAIN store[k].node => store[k].node[p] <= disk[p].mtime
    BY DEF IInv, NotFromFuture
  <2>2. QED
    BY <1>6, <1>7, <2>1, RunFacts DEF Good, Ahead
<1>10. /\ Findable(r) /\ Keyed(r) /\ Blank(r) /\ Statting(r) /\ Cached(r)
       /\ r.pending \subseteq r.imports
  BY <1>1, <1>7, RunFacts DEF Good, Findable, Keyed, Blank, Statting, Cached
<1>11. Good(r)
  BY <1>8, <1>9, <1>10 DEF Good
<1>12. mu = w
  BY <1>1 DEF IInv, Mutex
<1>13. QED
  BY <1>1, <1>3, <1>7, <1>11, <1>12, RunStep, RunFacts

LEMMA BuildFailStep ==
  ASSUME IInv, NEW w \in Workers, BuildFail(w)
  PROVE  IInv'
<1>1. /\ UNCHANGED <<alive, disk, clock, libPaths, incoming, store>> /\ mu' = Nobody
      /\ run[w].pc = "build" /\ Fail(w)
  BY DEF BuildFail, Shared, At
<1>2. mu = w
  BY <1>1 DEF IInv, Mutex
<1>3. QED
  BY <1>1, <1>2, FailStep DEF At

\* The entry takes over what the build has read; nobody else was building.
LEMMA StoreEntryStep ==
  ASSUME IInv, NEW w \in Workers, StoreEntry(w)
  PROVE  IInv' /\ \A k \in DOMAIN store :
                    /\ k \in DOMAIN store'
                    /\ \A p \in DOMAIN store[k].node \cap DOMAIN store'[k].node :
                          store[k].node[p] <= store'[k].node[p]
<1> DEFINE key == run[w].key
           e   == Entry(w)
           r   == [run[w] EXCEPT !.pc = "stored", !.node = Empty]
<1>1. /\ UNCHANGED <<alive, disk, clock, libPaths, incoming>> /\ mu' = Nobody
      /\ run[w].pc = "build" /\ Become(w, r)
      /\ store' = [k \in DOMAIN store \cup {key} |-> IF k = key THEN e ELSE store[k]]
  BY DEF StoreEntry, Shared, At
<1>2. mu = w
  BY <1>1 DEF IInv, Mutex
<1>3. /\ e \in CacheEntry /\ e.node = run[w].node /\ e.deps = run[w].deps
      /\ e.libPaths = run[w].paths
  BY RunFacts DEF Entry, Run, CacheEntry
<1>4. key \in run[w].imports /\ key \in Names
  BY <1>1, RunFacts DEF Good, Keyed
<1> HIDE DEF e, key
<1>5. /\ DOMAIN store' = DOMAIN store \cup {key} /\ store'[key] = e
      /\ \A k \in DOMAIN store : k # key => store'[k] = store[k]
  BY <1>1
<1>6. /\ r \in Run /\ r.pc = "stored" /\ r.imports = run[w].imports /\ r.key = run[w].key
      /\ r.pending = run[w].pending /\ r.paths = run[w].paths /\ r.deps = run[w].deps
      /\ r.node = Empty /\ r.notice = run[w].notice
  <2>1. run[w] \in Run /\ run[w].imports \subseteq Names /\ run[w].paths \in Seq(Directories)
    BY RunFacts
  <2>2. QED
    BY ONLY <2>1, EmptyTimes DEF Run
<1> HIDE DEF r
<1>7. /\ run'[w] = r /\ run' \in [Workers -> Run]
      /\ \A v \in Workers : v # w => run'[v] = run[v]
  BY <1>1, <1>6, Becomes DEF IInv
<1>8. \A v \in Workers : v # w => run[v].pc # "build"
  BY <1>2 DEF IInv, Mutex
<1>9. \A v \in Workers : run'[v].pc # "build" /\ DOMAIN run'[v].node = {}
  BY <1>6, <1>7, <1>8, EmptyTimes DEF IInv, Good, Building
<1>10. \A v \in Workers : Good(run[v])'
  <2> TAKE v \in Workers
  <2>1. CASE v = w
    <3>1. /\ Findable(run[w])' /\ Keyed(run[w])' /\ Blank(run[w])' /\ Statting(run[w])'
          /\ run'[w].pending \subseteq run'[w].imports
      BY <1>1, <1>6, <1>7, RunFacts DEF Good, Findable, Keyed, Blank, Statting
    <3>2. Building(run[w])' /\ Ahead(run[w])'
      BY <1>9 DEF Building, Ahead
    <3>3. Cached(run[w])'
      BY <1>1, <1>5, <1>6, <1>7, RunFacts DEF Good, Cached, key
    <3>4. QED
      BY <2>1, <3>1, <3>2, <3>3 DEF Good
  <2>2. CASE v # w
    <3>1. run'[v] = run[v] /\ Good(run[v])
      BY <1>7, <2>2, RunFacts
    <3>2. /\ Findable(run[v])' /\ Keyed(run[v])' /\ Blank(run[v])' /\ Statting(run[v])'
          /\ run'[v].pending \subseteq run'[v].imports
      BY <1>1, <3>1 DEF Good, Findable, Keyed, Blank, Statting
    <3>3. Building(run[v])' /\ Ahead(run[v])'
      BY <1>9 DEF Building, Ahead
    <3>4. Cached(run[v])'
      BY <1>5, <3>1 DEF Good, Cached
    <3>5. QED
      BY <3>2, <3>3, <3>4 DEF Good
  <2>3. QED
    BY <2>1, <2>2
<1>11. \A k \in DOMAIN store' : store'[k] \in CacheEntry
  BY <1>3, <1>5 DEF IInv, Typed
<1>12. Typed'
  <2>1. TypeOK'
    <3>1. \A v \in Workers : run'[v] \in Run /\ run'[v].pending \subseteq run'[v].imports
      BY <1>7, <1>10 DEF Good
    <3>2. \A v \in Workers :
            /\ run'[v].pc \in {"idle", "spawned", "keys", "next", "collect", "stat",
                              "build", "stored", "done", "failed"}
            /\ run'[v].imports \subseteq Names /\ run'[v].frontier \subseteq LibFiles
            /\ run'[v].notice \in {"quiet", "running", "complete", "abandoned", "closed"}
      BY <3>1 DEF Run
    <3>3. DOMAIN store' \subseteq Names
      BY <1>4, <1>5 DEF IInv, Typed, TypeOK
    <3>4. \A k \in DOMAIN store' :
            DOMAIN store'[k].deps \subseteq Names /\ DOMAIN store'[k].node \subseteq LibFiles
      BY <1>11 DEF CacheEntry, DepTimes, ReadTimes
    <3>5. QED
      BY <1>1, <3>1, <3>2, <3>3, <3>4 DEF IInv, Typed, TypeOK
  <2>2. QED
    BY <1>1, <1>7, <1>11, <2>1 DEF IInv, Typed
<1>13. Mutex'
  BY <1>9 DEF Mutex
<1>14. NotFromFuture'
  <2>1. \A p \in DOMAIN e.node : e.node[p] <= disk[p].mtime
    BY <1>3, RunFacts DEF Good, Building
  <2>2. QED
    BY <1>1, <1>5, <2>1 DEF IInv, NotFromFuture
<1>15. RecordedNotNewer'
  <2>1. \A n \in DOMAIN e.deps : ImportPath(n, e.libPaths) \in DOMAIN e.node
                                 => e.deps[n] <= e.node[ImportPath(n, e.libPaths)]
    BY <1>3, RunFacts DEF Good, Building
  <2>2. QED
    BY <1>5, <2>1 DEF IInv, RecordedNotNewer
<1>16. \A k \in DOMAIN store :
          /\ k \in DOMAIN store'
          /\ \A p \in DOMAIN store[k].node \cap DOMAIN store'[k].node :
                store[k].node[p] <= store'[k].node[p]
  <2> TAKE k \in DOMAIN store
  <2>1. CASE k = key
    BY <1>3, <1>5, <2>1, RunFacts DEF Good, Ahead
  <2>2. CASE k # key
    <3>1. store'[k] = store[k] /\ k \in DOMAIN store'
      BY <1>5, <2>2
    <3>2. \A p \in DOMAIN store[k].node : store[k].node[p] \in Nat
      <4>1. store[k].node \in ReadTimes
        BY DEF IInv, Typed, CacheEntry
      <4>2. QED
        BY <4>1 DEF ReadTimes
    <3>3. QED
      BY <3>1, <3>2
  <2>3. QED
    BY <2>1, <2>2
<1>17. QED
  BY <1>10, <1>12, <1>13, <1>14, <1>15, <1>16 DEF IInv

LEMMA SetReturnsStep ==
  ASSUME IInv, NEW w \in Workers, SetReturns(w)
  PROVE  IInv'
<1> DEFINE r == [run[w] EXCEPT !.pc = "next", !.key = 0, !.deps = Empty, !.since = 0]
<1>1. /\ UNCHANGED <<alive, disk, clock, libPaths, incoming, store, mu>>
      /\ run[w].pc = "stored" /\ Become(w, r)
  BY DEF SetReturns, Shared, At
<1>2. /\ r \in Run /\ r.pc = "next" /\ r.imports = run[w].imports
      /\ r.pending = run[w].pending /\ r.paths = run[w].paths /\ r.deps = Empty
      /\ r.node = run[w].node /\ r.notice = run[w].notice
  <2>1. run[w] \in Run /\ run[w].imports \subseteq Names /\ run[w].paths \in Seq(Directories)
    BY RunFacts
  <2>2. QED
    BY ONLY <2>1, EmptyTimes DEF Run
<1> HIDE DEF r
<1>3. Good(r)
  BY <1>1, <1>2, EmptyTimes, RunFacts
     DEF Good, Findable, Keyed, Blank, Statting, Building, Ahead, Cached
<1>4. QED
  BY <1>1, <1>2, <1>3, RunStep, RunFacts

LEMMA NoticeStep ==
  ASSUME IInv, NEW w \in Workers, Timer(w) \/ Result(w)
  PROVE  IInv'
<1>1. UNCHANGED <<alive, disk, clock, libPaths, incoming, store, mu>>
  BY DEF Timer, Result, Shared
<1>2. PICK notice \in {"running", "complete", "abandoned", "closed"} :
        /\ Become(w, [run[w] EXCEPT !.notice = notice])
        /\ notice = "complete" => run[w].pc = "done"
  BY DEF Timer, Result, At
<1> DEFINE r == [run[w] EXCEPT !.notice = notice]
<1>3. /\ r \in Run /\ r.pc = run[w].pc /\ r.doc = run[w].doc /\ r.imports = run[w].imports
      /\ r.pending = run[w].pending /\ r.paths = run[w].paths /\ r.deps = run[w].deps
      /\ r.node = run[w].node /\ r.notice = notice /\ r.key = run[w].key
      /\ r.frontier = run[w].frontier
  BY RunFacts DEF Run
<1>4. Become(w, r)
  BY <1>2
<1> HIDE DEF r
<1>5. Good(r)
  BY <1>2, <1>3, RunFacts
     DEF Good, Findable, Keyed, Blank, Statting, Building, Ahead, Cached
<1>6. r.pc = "build" => mu = w
  BY <1>3 DEF IInv, Mutex
<1>7. QED
  BY <1>1, <1>3, <1>4, <1>5, <1>6, RunStep, RunFacts

----------------------------------------------------------------------------
(* Steps of the file system and the configuration.                         *)

LEMMA WriteStep ==
  ASSUME IInv, NEW p \in Paths, NEW c \in Contents(p), Write(p, c)
  PROVE  IInv'
<1>1. /\ UNCHANGED <<alive, libPaths, incoming, store, mu, run>>
      /\ clock' = clock + 1 /\ clock < MaxClock
      /\ disk' = [disk EXCEPT ![p] = [what |-> c, mtime |-> clock + 1]]
  BY DEF Write
<1>2. clock \in 0..MaxClock /\ clock' \in 0..MaxClock /\ DOMAIN disk = Paths
  BY <1>1, ClockAssumption DEF IInv, Typed, TypeOK
<1>3. /\ DOMAIN disk' = Paths
      /\ \A q \in Paths : disk'[q].what \in Contents(q) /\ disk'[q].mtime \in 0..clock'
  BY <1>1, <1>2, ClockAssumption DEF IInv, Typed, TypeOK
<1>4. \A q \in Paths : disk[q].mtime \in Nat /\ disk'[q].mtime \in Nat
                       /\ disk[q].mtime <= disk'[q].mtime
  BY <1>1, <1>2, ClockAssumption DEF IInv, Typed, TypeOK
<1>5. Typed'
  BY <1>1, <1>2, <1>3 DEF IInv, Typed, TypeOK
<1>6. \A v \in Workers : Good(run[v])'
  <2> TAKE v \in Workers
  <2>1. run'[v] = run[v] /\ Good(run[v]) /\ run[v] \in Run
    BY <1>1, RunFacts
  <2>2. \A n \in DOMAIN run[v].deps : run[v].deps[n] \in Nat
                                     /\ ImportPath(n, run[v].paths) \in Paths
    <3>1. run[v].deps \in DepTimes
      BY <2>1 DEF Run
    <3>2. \A n \in DOMAIN run[v].deps : run[v].deps[n] \in Nat
      BY <3>1 DEF DepTimes
    <3>3. \A n \in DOMAIN run[v].deps : ImportPath(n, run[v].paths) \in LibFiles
      BY <2>1, RunFacts, FoundInLibrary DEF Good, Findable
    <3>4. QED
      BY <3>2, <3>3 DEF Paths
  <2>3. \A q \in DOMAIN run[v].node : run[v].node[q] \in Nat /\ q \in Paths
    <3>1. run[v].node \in ReadTimes
      BY <2>1 DEF Run
    <3>2. QED
      BY <3>1 DEF ReadTimes, Paths
  <2>4. Statting(run[v])'
    BY <1>4, <2>1, <2>2 DEF Good, Statting
  <2>5. Building(run[v])'
    BY <1>4, <2>1, <2>3 DEF Good, Building
  <2>6. /\ Findable(run[v])' /\ Keyed(run[v])' /\ Blank(run[v])' /\ Ahead(run[v])'
        /\ Cached(run[v])' /\ run'[v].pending \subseteq run'[v].imports
    BY <1>1, <2>1 DEF Good, Findable, Keyed, Blank, Ahead, Cached
  <2>7. QED
    BY <2>4, <2>5, <2>6 DEF Good
<1>7. NotFromFuture'
  <2> SUFFICES ASSUME NEW k \in DOMAIN store, NEW q \in DOMAIN store[k].node
               PROVE  store[k].node[q] <= disk'[q].mtime
    BY <1>1 DEF NotFromFuture
  <2>1. store[k].node \in ReadTimes
    BY DEF IInv, Typed, CacheEntry
  <2>2. store[k].node[q] \in Nat /\ q \in Paths
    BY <2>1 DEF ReadTimes, Paths
  <2>3. store[k].node[q] <= disk[q].mtime
    BY DEF IInv, NotFromFuture
  <2>4. QED
    BY <1>4, <2>2, <2>3
<1>8. Mutex' /\ RecordedNotNewer'
  BY <1>1 DEF IInv, Mutex, RecordedNotNewer
<1>9. QED
  BY <1>5, <1>6, <1>7, <1>8 DEF IInv

LEMMA ConfigStep ==
  ASSUME IInv, UNCHANGED <<disk, clock, store, mu, run>>, alive' \in BOOLEAN,
         libPaths' \in LibPathChoices, incoming' \in LibPathChoices \cup {Nothing}
  PROVE  IInv'
<1>1. Typed'
  BY DEF IInv, Typed, TypeOK
<1>2. \A v \in Workers : Good(run[v])'
  BY DEF IInv, Good, Findable, Keyed, Blank, Statting, Building, Ahead, Cached
<1>3. Mutex' /\ NotFromFuture' /\ RecordedNotNewer'
  BY DEF IInv, Mutex, NotFromFuture, RecordedNotNewer
<1>4. QED
  BY <1>1, <1>2, <1>3 DEF IInv

----------------------------------------------------------------------------
(* The theorems.                                                           *)

LEMMA InvInit == Init => IInv
<1> SUFFICES ASSUME Init PROVE IInv
  OBVIOUS
<1>1. /\ NewRun \in Run /\ Good(NewRun) /\ NewRun.pc = "idle"
  <2>1. /\ NewRun.pc = "idle" /\ NewRun.imports = {} /\ NewRun.pending = {}
        /\ NewRun.deps = Empty /\ NewRun.node = Empty /\ NewRun.notice = "quiet"
    BY DEF NewRun
  <2>2. QED
    BY <2>1, NewRunTyped, BlankGood
<1>2. \A w \in Workers : run[w] = NewRun
  BY DEF Init
<1>3. run \in [Workers -> Run]
  BY <1>1 DEF Init
<1>4. DOMAIN store = {}
  BY EmptyTimes DEF Init
<1>5. DOMAIN disk = Paths /\ \A p \in Paths : disk[p].what \in Contents(p) /\ disk[p].mtime = 0
  BY DEF Init
<1>6. TypeOK
  <2>1. \A w \in Workers :
          /\ run[w].pc \in {"idle", "spawned", "keys", "next", "collect", "stat",
                            "build", "stored", "done", "failed"}
          /\ run[w].pending \subseteq run[w].imports /\ run[w].imports \subseteq Names
          /\ run[w].frontier \subseteq LibFiles
          /\ run[w].notice \in {"quiet", "running", "complete", "abandoned", "closed"}
    BY <1>1, <1>2 DEF Run, Good
  <2>2. clock = 0 /\ clock \in 0..MaxClock /\ 0 \in 0..clock
    BY ClockAssumption DEF Init
  <2>3. QED
    BY <1>4, <1>5, <2>1, <2>2, ConfigAssumption DEF Init, TypeOK
<1>7. Typed
  BY <1>3, <1>4, <1>5, <1>6 DEF Typed
<1>8. Mutex /\ NotFromFuture /\ RecordedNotNewer
  BY <1>1, <1>2, <1>4 DEF Mutex, NotFromFuture, RecordedNotNewer
<1>9. QED
  BY <1>1, <1>2, <1>7, <1>8 DEF IInv

LEMMA UnchangedStep == IInv /\ UNCHANGED vars => IInv'
<1> SUFFICES ASSUME IInv, UNCHANGED vars PROVE IInv'
  OBVIOUS
<1>1. UNCHANGED <<alive, disk, clock, libPaths, incoming, store, mu, run>>
  BY DEF vars
<1>2. QED
  BY <1>1, ConfigStep DEF IInv, Typed, TypeOK

\* Every step keeps the invariant, and only StoreEntry changes the entries.
LEMMA InvStep ==
  ASSUME IInv, [Next]_vars
  PROVE  IInv' /\ (store' = store \/ \E w \in Workers : StoreEntry(w))
<1>1. ASSUME NEW p \in Paths, NEW c \in Contents(p), Write(p, c)
      PROVE  IInv' /\ store' = store
  BY <1>1, WriteStep DEF Write
<1>2. ASSUME NEW lp \in LibPathChoices, WriteLibPaths(lp) PROVE IInv' /\ store' = store
  BY <1>2, ConfigStep DEF WriteLibPaths, IInv, Typed, TypeOK
<1>3. CASE LibPathsWritten
  <2>1. libPaths' \in LibPathChoices /\ incoming' = Nothing /\ alive' \in BOOLEAN
        /\ UNCHANGED <<disk, clock, store, mu, run>>
    BY <1>3 DEF LibPathsWritten, IInv, Typed, TypeOK
  <2>2. QED
    BY <2>1, ConfigStep
<1>4. ASSUME NEW w \in Workers, TornRead(w) PROVE IInv' /\ store' = store
  BY <1>4, ConfigStep DEF TornRead, IInv, Typed, TypeOK
<1>5. ASSUME NEW w \in Workers, NEW d \in Docs, Start(w, d) PROVE IInv' /\ store' = store
  BY <1>5, StartStep DEF Start
<1>6. ASSUME NEW w \in Workers, Timer(w) \/ Result(w) PROVE IInv' /\ store' = store
  BY <1>6, NoticeStep DEF Timer, Result
<1>7. ASSUME NEW w \in Workers, Update(w), ~StoreEntry(w) PROVE IInv' /\ store' = store
  <2>1. CASE CollectShallow(w)
    BY <2>1, CollectShallowStep DEF CollectShallow
  <2>2. CASE KeysBefore(w) \/ NextImport(w) \/ NoMoreImports(w)
    BY <2>2, KeysBeforeStep, NextImportStep, NoMoreImportsStep
       DEF KeysBefore, NextImport, NoMoreImports
  <2>3. CASE CollectFile(w)
    BY <2>3, CollectFileStep DEF CollectFile
  <2>4. CASE StatDependency(w)
    BY <2>4, StatDependencyStep DEF StatDependency
  <2>5. CASE LockForBuild(w)
    BY <2>5, LockForBuildStep DEF LockForBuild
  <2>6. CASE UpToDate(w)
    BY <2>6, UpToDateStep DEF UpToDate
  <2>7. CASE BuildRead(w)
    BY <2>7, BuildReadStep DEF BuildRead
  <2>8. CASE BuildFail(w)
    BY <2>8, BuildFailStep DEF BuildFail
  <2>9. CASE SetReturns(w)
    BY <2>9, SetReturnsStep DEF SetReturns
  <2>10. QED
    BY <1>7, <2>1, <2>2, <2>3, <2>4, <2>5, <2>6, <2>7, <2>8, <2>9
       DEF Update, Lock, EnterSet
<1>8. ASSUME NEW w \in Workers, StoreEntry(w) PROVE IInv'
  BY <1>8, StoreEntryStep
<1>9. CASE UNCHANGED vars
  BY <1>9, UnchangedStep DEF vars
<1>10. QED
  BY <1>1, <1>2, <1>3, <1>4, <1>5, <1>6, <1>7, <1>8, <1>9 DEF Next

LEMMA Invariance == Spec => []IInv
<1>1. Init => IInv
  BY InvInit
<1>2. IInv /\ [Next]_vars => IInv'
  BY InvStep
<1>3. QED
  BY <1>1, <1>2, PTL DEF Spec

\* Every value has its type: what is in the cache or being built is a file of a
\* library, found by a name some file imports.
THEOREM TypeCorrect == Spec => []TypeOK
<1>1. IInv => TypeOK
  BY DEF IInv, Typed
<1>2. QED
  BY <1>1, Invariance, PTL

\* Stat first, build afterwards: whatever is written in between and whoever else
\* builds, no recorded time is newer than what was built.
THEOREM TimesNotNewer == Spec => []RecordedNotNewer
<1>1. IInv => RecordedNotNewer
  BY DEF IInv
<1>2. QED
  BY <1>1, Invariance, PTL

\* The client is told of completion only when every import is in the cache.
THEOREM CompletionMeansCached == Spec => []CompleteMeansCached
<1>1. IInv => CompleteMeansCached
  BY DEF IInv, Good, Cached, CompleteMeansCached
<1>2. QED
  BY <1>1, Invariance, PTL

\* An entry is never lost nor replaced by a node built from older contents.
THEOREM EntriesAdvance == Spec => NeverBackwards
<1> DEFINE Forward == \A k \in DOMAIN store :
                        /\ k \in DOMAIN store'
                        /\ \A p \in DOMAIN store[k].node \cap DOMAIN store'[k].node :
                              store[k].node[p] <= store'[k].node[p]
<1>1. IInv /\ [Next]_vars => [Forward]_vars
  <2> SUFFICES ASSUME IInv, [Next]_vars PROVE Forward
    OBVIOUS
  <2>1. CASE store' = store
    <3>1. \A k \in DOMAIN store : \A p \in DOMAIN store[k].node : store[k].node[p] \in Nat
      <4> TAKE k \in DOMAIN store
      <4>1. store[k].node \in ReadTimes
        BY DEF IInv, Typed, CacheEntry
      <4>2. QED
        BY <4>1 DEF ReadTimes
    <3>2. QED
      BY <2>1, <3>1
  <2>2. CASE \E w \in Workers : StoreEntry(w)
    BY <2>2, StoreEntryStep
  <2>3. QED
    BY <2>1, <2>2, InvStep
<1>2. QED
  BY <1>1, Invariance, PTL DEF Spec, NeverBackwards

----------------------------------------------------------------------------
(* Fresh dependencies, where no two library directories hold a file of the *)
(* same name: then the file that is dated is the file that is read.        *)

NoShadowing == \A p, q \in LibFiles : p[2] = q[2] => p = q

\* Of a run r: work on its import began in the past ...
Begun(r) == r.since <= clock
\* ... if nothing was written since, the times it noted are those on the disk ...
Dated(r) ==
    r.pc \in {"stat", "build", "stored"} /\ r.since = clock =>
        \A n \in DOMAIN r.deps :
            \/ r.pc = "stat" /\ ImportPath(n, r.paths) \in r.frontier
            \/ r.deps[n] = disk[ImportPath(n, r.paths)].mtime
\* ... another run b that builds when r is through with its import read later ...
ReadLater(r, b) ==
    r.pc = "stored" /\ r.since = clock /\ b.pc = "build" =>
        \A p \in DOMAIN b.node : b.node[p] = disk[p].mtime
\* ... and the entry is there and is fresh, whoever stored it.
Present(r) == r.pc = "stored" => r.key \in DOMAIN store
Fresh(r) ==
    r.pc = "stored" /\ r.since = clock /\ store[r.key].libPaths = r.paths =>
        \A p \in DOMAIN store[r.key].node :
            p[2] \in DOMAIN store[r.key].deps \cap DOMAIN r.deps
                => store[r.key].node[p] = disk[p].mtime

FreshInv ==
    /\ \A w \in Workers : /\ Begun(run[w]) /\ Dated(run[w])
                          /\ Present(run[w]) /\ Fresh(run[w])
    /\ \A v, w \in Workers : ReadLater(run[v], run[w])

\* A step of one run that leaves the disk and the entries alone.
LEMMA FreshRunStep ==
  ASSUME IInv, FreshInv, NEW w \in Workers, NEW r, Become(w, r),
         UNCHANGED <<disk, clock, store>>,
         Begun(r), Dated(r), Present(r), Fresh(r),
         \A v \in Workers : v # w => ReadLater(run[v], r) /\ ReadLater(r, run[v])
  PROVE  FreshInv'
<1>1. run'[w] = r /\ \A v \in Workers : v # w => run'[v] = run[v]
  BY Becomes DEF IInv
<1>2. \A v \in Workers : Begun(run'[v]) /\ Dated(run'[v]) /\ Present(run'[v]) /\ Fresh(run'[v])
  BY <1>1 DEF FreshInv
<1>3. ReadLater(r, r)
  BY DEF ReadLater
<1>4. \A u, v \in Workers : ReadLater(run'[u], run'[v])
  BY <1>1, <1>3 DEF FreshInv
<1>5. \A v \in Workers : Begun(run[v])' /\ Dated(run[v])' /\ Present(run[v])' /\ Fresh(run[v])'
  <2> TAKE v \in Workers
  <2>1. Begun(run'[v]) /\ Dated(run'[v]) /\ Present(run'[v]) /\ Fresh(run'[v])
    BY <1>2
  <2>2. QED
    BY ONLY <2>1, UNCHANGED <<disk, clock, store>> DEF Begun, Dated, Present, Fresh
<1>6. \A u, v \in Workers : ReadLater(run[u], run[v])'
  <2> TAKE u, v \in Workers
  <2>1. ReadLater(run'[u], run'[v])
    BY <1>4
  <2>2. QED
    BY ONLY <2>1, UNCHANGED <<disk, clock, store>> DEF ReadLater
<1>7. QED
  BY <1>5, <1>6 DEF FreshInv

\* A run that is not between stat and stored owes nothing.
LEMMA ElsewhereStep ==
  ASSUME IInv, FreshInv, NEW w \in Workers, NEW r, Become(w, r),
         UNCHANGED <<disk, clock, store>>,
         r.since <= clock, r.pc \notin {"stat", "build", "stored"}
  PROVE  FreshInv'
<1>1. Begun(r) /\ Dated(r) /\ Present(r) /\ Fresh(r)
  BY DEF Begun, Dated, Present, Fresh
<1>2. \A v \in Workers : v # w => ReadLater(run[v], r) /\ ReadLater(r, run[v])
  BY DEF ReadLater
<1>3. QED
  BY <1>1, <1>2, FreshRunStep

\* A step that leaves alone all but the notice of a run.
LEMMA AlikeStep ==
  ASSUME IInv, FreshInv, NEW w \in Workers, NEW r, Become(w, r),
         UNCHANGED <<disk, clock, store>>,
         r.pc = run[w].pc, r.since = run[w].since, r.deps = run[w].deps,
         r.paths = run[w].paths, r.frontier = run[w].frontier, r.node = run[w].node,
         r.key = run[w].key
  PROVE  FreshInv'
<1>1. Begun(r) /\ Dated(r) /\ Present(r) /\ Fresh(r)
  <2>1. Begun(run[w]) /\ Dated(run[w]) /\ Present(run[w]) /\ Fresh(run[w])
    BY DEF FreshInv
  <2>2. QED
    BY <2>1 DEF Begun, Dated, Present, Fresh
<1>2. \A v \in Workers : v # w => ReadLater(run[v], r) /\ ReadLater(r, run[v])
  <2> TAKE v \in Workers
  <2>1. ReadLater(run[v], run[w]) /\ ReadLater(run[w], run[v])
    BY DEF FreshInv
  <2>2. QED
    BY <2>1 DEF ReadLater
<1>3. QED
  BY <1>1, <1>2, FreshRunStep

\* A write makes every run that is at work a run that began before it.
LEMMA FreshWriteStep ==
  ASSUME IInv, FreshInv, NEW p \in Paths, NEW c \in Contents(p), Write(p, c)
  PROVE  FreshInv'
<1>1. clock' = clock + 1 /\ run' = run /\ store' = store /\ clock \in Nat
  BY ClockAssumption DEF Write, IInv, Typed, TypeOK
<1>2. \A v \in Workers : run[v].since <= clock' /\ run[v].since # clock'
  <2> TAKE v \in Workers
  <2>1. run[v].since \in Nat /\ run[v].since <= clock
    BY RunFacts DEF Run, FreshInv, Begun
  <2>2. QED
    BY ONLY <1>1, <2>1
<1>3. \A v \in Workers : Present(run[v])
  BY DEF FreshInv
<1>4. QED
  BY <1>1, <1>2, <1>3 DEF FreshInv, Begun, Dated, Present, Fresh, ReadLater

\* The last file collected leaves everything to be looked up.
LEMMA FreshCollectStep ==
  ASSUME IInv, FreshInv, NEW w \in Workers, CollectFile(w)
  PROVE  FreshInv'
<1>1. UNCHANGED <<disk, clock, store>> /\ run[w].since <= clock /\ 0 <= clock
  BY RunFacts DEF CollectFile, Shared, FreshInv, Begun
<1>2. CASE Fail(w)
  <2> DEFINE r == [NewRun EXCEPT !.pc = "failed", !.notice = run[w].notice]
  <2>1. Become(w, r) /\ r.pc = "failed" /\ r.since = 0
    BY <1>2 DEF Fail, NewRun
  <2> HIDE DEF r
  <2>2. QED
    BY <1>1, <2>1, ElsewhereStep
<1>3. CASE ~Fail(w)
  <2>1. PICK p \in run[w].frontier :
          LET file  == disk[p].what
              below == {ImportPath(n, run[w].paths) : n \in file.imports}
              rest  == (run[w].frontier \ {p}) \cup below
              names == DOMAIN run[w].deps \cup file.imports
          IN  Become(w, [run[w] EXCEPT
                !.deps = [n \in names |-> 0],
                !.frontier = IF rest # {} THEN rest
                             ELSE {ImportPath(n, run[w].paths) : n \in names},
                !.pc = IF rest = {} THEN "stat" ELSE "collect"])
    BY <1>3 DEF CollectFile
  <2> DEFINE file  == disk[p].what
             below == {ImportPath(n, run[w].paths) : n \in file.imports}
             rest  == (run[w].frontier \ {p}) \cup below
             names == DOMAIN run[w].deps \cup file.imports
             deps  == [n \in names |-> 0]
             next  == IF rest # {} THEN rest ELSE {ImportPath(n, run[w].paths) : n \in names}
             pc    == IF rest = {} THEN "stat" ELSE "collect"
             r     == [run[w] EXCEPT !.deps = deps, !.frontier = next, !.pc = pc]
  <2>2. Become(w, r)
    BY <2>1
  <2>3. /\ pc \in {"stat", "collect"} /\ DOMAIN deps = names
        /\ pc = "stat" => \A n \in names : ImportPath(n, run[w].paths) \in next
    OBVIOUS
  <2> HIDE DEF deps, next, pc, names
  <2>4. /\ r.pc = pc /\ r.deps = deps /\ r.frontier = next
        /\ r.since = run[w].since /\ r.paths = run[w].paths
    BY RunFacts DEF Run
  <2> HIDE DEF r
  <2>5. Begun(r) /\ Dated(r) /\ Present(r) /\ Fresh(r)
    BY <1>1, <2>3, <2>4 DEF Begun, Dated, Present, Fresh
  <2>6. \A v \in Workers : v # w => ReadLater(run[v], r) /\ ReadLater(r, run[v])
    BY <2>3, <2>4 DEF ReadLater
  <2>7. QED
    BY <1>1, <2>2, <2>5, <2>6, FreshRunStep
<1>4. QED
  BY <1>2, <1>3

LEMMA FreshStatStep ==
  ASSUME IInv, FreshInv, NEW w \in Workers, StatDependency(w)
  PROVE  FreshInv'
<1>1. UNCHANGED <<disk, clock, store>> /\ run[w].pc = "stat"
  BY DEF StatDependency, Shared, At
<1>2. PICK p \in run[w].frontier :
        Become(w, [run[w] EXCEPT !.deps[p[2]] = disk[p].mtime, !.frontier = @ \ {p}])
  BY DEF StatDependency
<1>3. PICK n \in DOMAIN run[w].deps : p = ImportPath(n, run[w].paths)
  BY <1>1, RunFacts DEF Good, Statting
<1>4. p[2] = n
  BY <1>3 DEF ImportPath
<1> DEFINE deps == [run[w].deps EXCEPT ![n] = disk[p].mtime]
           r    == [run[w] EXCEPT !.deps = deps, !.frontier = @ \ {p}]
<1>5. Become(w, r)
  BY <1>2, <1>4
<1>6. /\ DOMAIN deps = DOMAIN run[w].deps /\ deps[n] = disk[p].mtime
      /\ \A m \in DOMAIN deps : m # n => deps[m] = run[w].deps[m]
  <2>1. PICK N \in SUBSET Names : run[w].deps \in [N -> Nat]
    BY TimesTyped
  <2>2. QED
    BY <2>1
<1> HIDE DEF deps
<1>7. /\ r.pc = "stat" /\ r.paths = run[w].paths /\ r.deps = deps
      /\ r.frontier = run[w].frontier \ {p} /\ r.since = run[w].since
  BY <1>1, RunFacts DEF Run
<1> HIDE DEF r
<1>8. \A m : m # n => ImportPath(m, run[w].paths) # p
  BY <1>3 DEF ImportPath
<1>9. Dated(r)
  <2>1. ASSUME run[w].since = clock, NEW m \in DOMAIN deps
        PROVE  \/ ImportPath(m, run[w].paths) \in run[w].frontier \ {p}
               \/ deps[m] = disk[ImportPath(m, run[w].paths)].mtime
    <3>1. CASE m = n
      BY <1>3, <1>6, <3>1
    <3>2. CASE m # n
      BY <1>1, <1>6, <1>8, <2>1, <3>2 DEF FreshInv, Dated
    <3>3. QED
      BY <3>1, <3>2
  <2>2. QED
    BY <1>7, <2>1 DEF Dated
<1>10. Begun(r) /\ Present(r) /\ Fresh(r)
  BY <1>7 DEF FreshInv, Begun, Present, Fresh
<1>11. \A v \in Workers : v # w => ReadLater(run[v], r) /\ ReadLater(r, run[v])
  BY <1>7 DEF ReadLater
<1>12. QED
  BY <1>1, <1>5, <1>9, <1>10, <1>11, FreshRunStep

\* A build that begins has read nothing yet.
LEMMA FreshLockStep ==
  ASSUME IInv, FreshInv, NEW w \in Workers, LockForBuild(w)
  PROVE  FreshInv'
<1> DEFINE p == ImportPath(run[w].key, run[w].paths)
           r == [run[w] EXCEPT !.pc = "build", !.frontier = {p}]
<1>1. /\ UNCHANGED <<disk, clock, store>>
      /\ run[w].pc = "stat" /\ run[w].frontier = {} /\ Become(w, r)
  BY DEF LockForBuild, Statted, Shared, At
<1> HIDE DEF p
<1>2. /\ r.pc = "build" /\ r.paths = run[w].paths /\ r.deps = run[w].deps
      /\ r.node = run[w].node /\ r.since = run[w].since
  BY RunFacts DEF Run
<1> HIDE DEF r
<1>3. DOMAIN r.node = {}
  BY <1>1, <1>2, RunFacts DEF Good, Building
<1>4. Begun(r) /\ Dated(r) /\ Present(r) /\ Fresh(r)
  BY <1>1, <1>2 DEF FreshInv, Begun, Dated, Present, Fresh
<1>5. \A v \in Workers : v # w => ReadLater(run[v], r) /\ ReadLater(r, run[v])
  BY <1>2, <1>3 DEF ReadLater
<1>6. QED
  BY <1>1, <1>4, <1>5, FreshRunStep

\* The entry is up to date: what it records is at least what was noted, which is
\* what is on the disk, and what it was built from lies in between.
LEMMA FreshUpToDateStep ==
  ASSUME NoShadowing, IInv, FreshInv, NEW w \in Workers, UpToDate(w)
  PROVE  FreshInv'
<1> DEFINE r == [run[w] EXCEPT !.pc = "stored"]
           e == store[run[w].key]
<1>1. /\ UNCHANGED <<disk, clock, store>> /\ mu = Nobody
      /\ run[w].pc = "stat" /\ run[w].frontier = {} /\ Become(w, r)
      /\ run[w].key \in DOMAIN store /\ ~IsUpdate(run[w].deps, e.deps)
  BY DEF UpToDate, Statted, Shared, At
<1>2. /\ r.pc = "stored" /\ r.paths = run[w].paths /\ r.deps = run[w].deps
      /\ r.key = run[w].key /\ r.since = run[w].since
  BY RunFacts DEF Run
<1> HIDE DEF r
<1>3. Begun(r) /\ Dated(r) /\ Present(r)
  BY <1>1, <1>2 DEF FreshInv, Begun, Dated, Present
<1>4. ASSUME run[w].since = clock, e.libPaths = run[w].paths, NEW p \in DOMAIN e.node,
             p[2] \in DOMAIN e.deps \cap DOMAIN run[w].deps
      PROVE  e.node[p] = disk[p].mtime
  <2> DEFINE n == p[2]
  <2>1. e \in CacheEntry
    BY <1>1 DEF IInv, Typed
  <2>2. p \in LibFiles /\ e.node[p] \in Nat /\ e.deps[n] \in Nat /\ run[w].deps[n] \in Nat
    <3>1. e.node \in ReadTimes /\ e.deps \in DepTimes /\ run[w].deps \in DepTimes
      BY <2>1, RunFacts DEF CacheEntry, Run
    <3>2. QED
      BY <1>4, <3>1 DEF ReadTimes, DepTimes
  <2>3. p = ImportPath(n, run[w].paths)
    <3>1. Found(n, run[w].paths)
      BY <1>4, RunFacts DEF Good, Findable
    <3>2. ImportPath(n, run[w].paths) \in LibFiles
      BY <3>1, FoundInLibrary, RunFacts
    <3>3. ImportPath(n, run[w].paths)[2] = n
      BY DEF ImportPath
    <3>4. QED
      BY <2>2, <3>2, <3>3 DEF NoShadowing
  <2>4. run[w].deps[n] = disk[p].mtime
    BY <1>1, <1>4, <2>3 DEF FreshInv, Dated
  <2>5. ~(run[w].deps[n] > e.deps[n])
    BY <1>1, <1>4 DEF IsUpdate
  <2>6. e.deps[n] <= e.node[p]
    BY <1>1, <1>4, <2>3 DEF IInv, RecordedNotNewer
  <2>7. e.node[p] <= disk[p].mtime
    BY <1>1, <1>4 DEF IInv, NotFromFuture
  <2> HIDE DEF n, e
  <2>8. QED
    BY ONLY <2>2, <2>4, <2>5, <2>6, <2>7
<1>5. Fresh(r)
  BY <1>2, <1>4 DEF Fresh
<1>6. \A v \in Workers : v # w => ReadLater(run[v], r) /\ ReadLater(r, run[v])
  <2>1. \A v \in Workers : run[v].pc # "build"
    BY <1>1, MutexAssumption DEF IInv, Mutex
  <2>2. QED
    BY <1>2, <2>1 DEF ReadLater
<1>7. QED
  BY <1>1, <1>3, <1>5, <1>6, FreshRunStep

LEMMA FreshBuildReadStep ==
  ASSUME IInv, FreshInv, NEW w \in Workers, BuildRead(w)
  PROVE  FreshInv'
<1>1. UNCHANGED <<disk, clock, store>> /\ run[w].pc = "build"
  BY DEF BuildRead, Shared, At
<1>2. PICK p \in run[w].frontier :
        LET read  == [q \in DOMAIN run[w].node \cup {p} |->
                        IF q = p THEN disk[p].mtime ELSE run[w].node[q]]
            below == {Import(p[1], n, run[w].paths) : n \in disk[p].what.imports}
        IN  Become(w, [run[w] EXCEPT !.node = read,
                         !.frontier = (@ \cup below) \ DOMAIN read])
  BY DEF BuildRead
<1> DEFINE read  == [q \in DOMAIN run[w].node \cup {p} |->
                       IF q = p THEN disk[p].mtime ELSE run[w].node[q]]
           below == {Import(p[1], n, run[w].paths) : n \in disk[p].what.imports}
           next  == (run[w].frontier \cup below) \ DOMAIN read
           r     == [run[w] EXCEPT !.node = read, !.frontier = next]
<1>3. Become(w, r)
  BY <1>2
<1>4. \A q \in DOMAIN read :
        \/ read[q] = disk[q].mtime
        \/ q \in DOMAIN run[w].node /\ read[q] = run[w].node[q]
  OBVIOUS
<1> HIDE DEF read, next
<1>5. /\ r.pc = "build" /\ r.paths = run[w].paths /\ r.deps = run[w].deps
      /\ r.node = read /\ r.since = run[w].since
  BY <1>1, RunFacts DEF Run
<1> HIDE DEF r
<1>6. Begun(r) /\ Dated(r) /\ Present(r) /\ Fresh(r)
  BY <1>1, <1>5 DEF FreshInv, Begun, Dated, Present, Fresh
<1>7. \A v \in Workers : v # w => ReadLater(run[v], r) /\ ReadLater(r, run[v])
  <2> TAKE v \in Workers
  <2>1. ReadLater(run[v], run[w])
    BY DEF FreshInv
  <2>2. ReadLater(run[v], r)
    BY <1>1, <1>4, <1>5, <2>1 DEF ReadLater
  <2>3. ReadLater(r, run[v])
    BY <1>5 DEF ReadLater
  <2>4. QED
    BY <2>2, <2>3
<1>8. QED
  BY <1>1, <1>3, <1>6, <1>7, FreshRunStep

\* The entry stored lies between the times noted and the disk; and what another
\* run was through with is replaced by what was read later.
LEMMA FreshStoreStep ==
  ASSUME NoShadowing, IInv, FreshInv, NEW w \in Workers, StoreEntry(w)
  PROVE  FreshInv'
<1> DEFINE key == run[w].key
           e   == Entry(w)
           r   == [run[w] EXCEPT !.pc = "stored", !.node = Empty]
<1>1. /\ UNCHANGED <<disk, clock>>
      /\ run[w].pc = "build" /\ Become(w, r)
      /\ store' = [k \in DOMAIN store \cup {key} |-> IF k = key THEN e ELSE store[k]]
  BY DEF StoreEntry, Shared, At
<1>2. /\ e.node = run[w].node /\ e.deps = run[w].deps /\ e.libPaths = run[w].paths
  BY DEF Entry
<1> HIDE DEF e, key
<1>3. /\ DOMAIN store' = DOMAIN store \cup {key} /\ store'[key] = e
      /\ \A k \in DOMAIN store : k # key => store'[k] = store[k]
  BY <1>1
<1>4. /\ r.pc = "stored" /\ r.key = key /\ r.paths = run[w].paths /\ r.deps = run[w].deps
      /\ r.since = run[w].since
  BY RunFacts DEF Run, key
<1> HIDE DEF r
<1>5. run'[w] = r /\ \A v \in Workers : v # w => run'[v] = run[v]
  BY <1>1, Becomes DEF IInv
<1>6. \A v \in Workers : run'[v].pc # "build"
  <2>1. mu = w
    BY <1>1 DEF IInv, Mutex
  <2>2. QED
    BY <1>4, <1>5, <2>1 DEF IInv, Mutex
<1>7. \A v \in Workers : Begun(run[v])' /\ Dated(run[v])' /\ Present(run[v])'
  <2> TAKE v \in Workers
  <2>1. CASE v = w
    BY <1>1, <1>3, <1>4, <1>5, <2>1 DEF FreshInv, Begun, Dated, Present
  <2>2. CASE v # w
    BY <1>1, <1>3, <1>5, <2>2 DEF FreshInv, Begun, Dated, Present
  <2>3. QED
    BY <2>1, <2>2
<1>8. Fresh(run[w])'
  <2>1. ASSUME run[w].since = clock, NEW p \in DOMAIN e.node,
               p[2] \in DOMAIN e.deps \cap DOMAIN run[w].deps
        PROVE  e.node[p] = disk[p].mtime
    <3> DEFINE n == p[2]
    <3>1. p \in LibFiles /\ e.node[p] \in Nat
      <4>1. run[w].node \in ReadTimes
        BY RunFacts DEF Run
      <4>2. QED
        BY <1>2, <2>1, <4>1 DEF ReadTimes
    <3>2. p = ImportPath(n, run[w].paths)
      <4>1. Found(n, run[w].paths)
        BY <2>1, RunFacts DEF Good, Findable
      <4>2. ImportPath(n, run[w].paths) \in LibFiles
        BY <4>1, FoundInLibrary, RunFacts
      <4>3. ImportPath(n, run[w].paths)[2] = n
        BY DEF ImportPath
      <4>4. QED
        BY <3>1, <4>2, <4>3 DEF NoShadowing
    <3>3. run[w].deps[n] = disk[p].mtime
      BY <1>1, <2>1, <3>2 DEF FreshInv, Dated
    <3>4. run[w].deps[n] <= e.node[p] /\ e.node[p] <= disk[p].mtime
      BY <1>2, <2>1, <3>2, RunFacts DEF Good, Building
    <3>5. disk[p].mtime \in Nat
      BY <3>1, RunFacts DEF Paths
    <3> HIDE DEF n
    <3>6. QED
      BY ONLY <3>1, <3>3, <3>4, <3>5
  <2>2. QED
    BY <1>1, <1>3, <1>4, <1>5, <2>1 DEF Fresh
<1>9. ASSUME NEW v \in Workers, v # w PROVE Fresh(run[v])'
  <2>1. run'[v] = run[v] /\ Fresh(run[v]) /\ Present(run[v]) /\ ReadLater(run[v], run[w])
    BY <1>5, <1>9 DEF FreshInv
  <2>2. CASE run[v].key = key
    BY <1>1, <1>2, <1>3, <2>1, <2>2 DEF Fresh, ReadLater
  <2>3. CASE run[v].key # key
    BY <1>1, <1>3, <2>1, <2>3 DEF Fresh, Present
  <2>4. QED
    BY <2>2, <2>3
<1>10. \A u, v \in Workers : ReadLater(run[u], run[v])'
  BY <1>6 DEF ReadLater
<1>11. QED
  BY <1>7, <1>8, <1>9, <1>10 DEF FreshInv

LEMMA FreshInit == Init => FreshInv
  BY ClockAssumption, EmptyTimes
     DEF Init, NewRun, FreshInv, Begun, Dated, Present, Fresh, ReadLater

LEMMA FreshStep ==
  ASSUME NoShadowing, IInv, FreshInv, [Next]_vars
  PROVE  FreshInv'
<1>1. ASSUME NEW p \in Paths, NEW c \in Contents(p), Write(p, c) PROVE FreshInv'
  BY <1>1, FreshWriteStep
<1>2. CASE UNCHANGED <<disk, clock, store, run>>
  BY <1>2 DEF FreshInv, Begun, Dated, Present, Fresh, ReadLater
<1>3. ASSUME NEW lp \in LibPathChoices, WriteLibPaths(lp) PROVE FreshInv'
  BY <1>2, <1>3 DEF WriteLibPaths
<1>4. CASE LibPathsWritten
  BY <1>2, <1>4 DEF LibPathsWritten
<1>5. ASSUME NEW w \in Workers, TornRead(w) PROVE FreshInv'
  BY <1>2, <1>5 DEF TornRead
<1>6. ASSUME NEW w \in Workers, Fail(w), UNCHANGED <<disk, clock, store>> PROVE FreshInv'
  <2> DEFINE r == [NewRun EXCEPT !.pc = "failed", !.notice = run[w].notice]
  <2>1. Become(w, r) /\ r.pc = "failed" /\ r.since = 0
    BY <1>6 DEF Fail, NewRun
  <2>2. 0 <= clock
    BY RunFacts
  <2> HIDE DEF r
  <2>3. QED
    BY <1>6, <2>1, <2>2, ElsewhereStep
<1>7. ASSUME NEW w \in Workers, NEW d \in Docs, Start(w, d) PROVE FreshInv'
  <2> DEFINE r == [NewRun EXCEPT !.pc = "spawned", !.doc = d]
  <2>1. /\ Become(w, r) /\ r.pc = "spawned" /\ r.since = 0
        /\ UNCHANGED <<disk, clock, store>>
    BY <1>7 DEF Start, Shared, NewRun
  <2>2. 0 <= clock
    BY RunFacts
  <2> HIDE DEF r
  <2>3. QED
    BY <2>1, <2>2, ElsewhereStep
<1>8. ASSUME NEW w \in Workers, Timer(w) \/ Result(w) PROVE FreshInv'
  <2>1. UNCHANGED <<disk, clock, store>>
    BY <1>8 DEF Timer, Result, Shared
  <2>2. \E notice : Become(w, [run[w] EXCEPT !.notice = notice])
    BY <1>8 DEF Timer, Result
  <2>3. PICK notice : Become(w, [run[w] EXCEPT !.notice = notice])
    BY <2>2
  <2> DEFINE r == [run[w] EXCEPT !.notice = notice]
  <2>4. /\ r.pc = run[w].pc /\ r.since = run[w].since /\ r.deps = run[w].deps
        /\ r.paths = run[w].paths /\ r.frontier = run[w].frontier
        /\ r.node = run[w].node /\ r.key = run[w].key
    BY RunFacts DEF Run
  <2> HIDE DEF r
  <2>5. Become(w, r)
    BY <2>3 DEF r
  <2>6. QED
    BY <2>1, <2>4, <2>5, AlikeStep
<1>9. ASSUME NEW w \in Workers, CollectShallow(w) PROVE FreshInv'
  <2>1. UNCHANGED <<disk, clock, store>> /\ run[w].since <= clock
    BY <1>9 DEF CollectShallow, Shared, FreshInv, Begun
  <2>2. CASE Fail(w)
    BY <1>6, <2>1, <2>2
  <2>3. CASE ~Fail(w)
    <3>1. PICK lp, imports :
            Become(w, [run[w] EXCEPT !.pc = "keys", !.paths = lp,
                         !.imports = imports, !.pending = imports])
      BY <1>9, <2>3 DEF CollectShallow
    <3> DEFINE r == [run[w] EXCEPT !.pc = "keys", !.paths = lp,
                       !.imports = imports, !.pending = imports]
    <3>2. r.pc = "keys" /\ r.since = run[w].since
      BY RunFacts DEF Run
    <3> HIDE DEF r
    <3>3. Become(w, r)
      BY <3>1 DEF r
    <3>4. QED
      BY <2>1, <3>2, <3>3, ElsewhereStep
  <2>4. QED
    BY <2>2, <2>3
<1>10. ASSUME NEW w \in Workers, NextImport(w) PROVE FreshInv'
  <2> DEFINE k == Min(run[w].pending)
             r == [run[w] EXCEPT !.pc = "collect", !.key = k, !.pending = @ \ {k},
                     !.frontier = {ImportPath(k, run[w].paths)}, !.since = clock]
  <2>1. UNCHANGED <<disk, clock, store>> /\ Become(w, r)
    BY <1>10 DEF NextImport, Shared
  <2> HIDE DEF k
  <2>2. r.pc = "collect" /\ r.since = clock /\ clock <= clock
    BY RunFacts DEF Run
  <2> HIDE DEF r
  <2>3. QED
    BY <2>1, <2>2, ElsewhereStep
<1>11. ASSUME NEW w \in Workers, NoMoreImports(w) PROVE FreshInv'
  <2> DEFINE r == [run[w] EXCEPT !.pc = "done"]
  <2>1. UNCHANGED <<disk, clock, store>> /\ Become(w, r)
    BY <1>11 DEF NoMoreImports, Shared
  <2>2. r.pc = "done" /\ r.since <= clock
    BY RunFacts DEF Run, FreshInv, Begun
  <2> HIDE DEF r
  <2>3. QED
    BY <2>1, <2>2, ElsewhereStep
<1>12. ASSUME NEW w \in Workers, KeysBefore(w) PROVE FreshInv'
  <2> DEFINE r == [run[w] EXCEPT !.pc = "next"]
  <2>1. UNCHANGED <<disk, clock, store>> /\ Become(w, r)
    BY <1>12 DEF KeysBefore, Shared
  <2>2. r.pc = "next" /\ r.since <= clock
    BY RunFacts DEF Run, FreshInv, Begun
  <2> HIDE DEF r
  <2>3. QED
    BY <2>1, <2>2, ElsewhereStep
<1>13. ASSUME NEW w \in Workers, SetReturns(w) PROVE FreshInv'
  <2> DEFINE r == [run[w] EXCEPT !.pc = "next", !.key = 0, !.deps = Empty, !.since = 0]
  <2>1. UNCHANGED <<disk, clock, store>> /\ Become(w, r)
    BY <1>13 DEF SetReturns, Shared
  <2>2. r.pc = "next" /\ r.since = 0 /\ 0 <= clock
    BY RunFacts DEF Run
  <2> HIDE DEF r
  <2>3. QED
    BY <2>1, <2>2, ElsewhereStep
<1>14. ASSUME NEW w \in Workers, BuildFail(w) PROVE FreshInv'
  BY <1>6, <1>14 DEF BuildFail, Shared
<1>15. ASSUME NEW w \in Workers, Update(w) PROVE FreshInv'
  BY <1>9, <1>10, <1>11, <1>13, <1>14, <1>15, <1>12, FreshCollectStep, FreshStatStep,
     FreshLockStep, FreshUpToDateStep, FreshBuildReadStep, FreshStoreStep
     DEF Update, Lock, EnterSet
<1>16. CASE UNCHANGED vars
  BY <1>2, <1>16 DEF vars
<1>17. QED
  BY <1>1, <1>3, <1>4, <1>5, <1>7, <1>8, <1>15, <1>16 DEF Next

\* Where no two library directories hold a file of the same name, an update that
\* no write overlaps leaves the entry built from what is on the disk, however the
\* runs overlap and whichever of them stored it.
THEOREM QuietUpdatesAreFresh == NoShadowing => (Spec => []FreshDependencies)
<1> SUFFICES ASSUME NoShadowing PROVE Spec => []FreshDependencies
  OBVIOUS
<1>1. Init => FreshInv
  BY FreshInit
<1>2. IInv /\ FreshInv /\ [Next]_vars => FreshInv'
  BY FreshStep
<1>3. FreshInv => FreshDependencies
  BY DEF FreshInv, Fresh, FreshDependencies, Settled, At
<1>4. QED
  BY <1>1, <1>2, <1>3, Invariance, PTL DEF Spec
=============================================================================

----------------------------- MODULE NodeCache -----------------------------
(***************************************************************************)
(* The cache of evaluated imports and the goroutines that update it.  Each *)
(* didOpen and didSave starts one: it collects the imports of the document *)
(* on disk and, import by import, the files that import reaches in turn,   *)
(* stats those, and calls NodeCache.Set, which rebuilds an entry when it   *)
(* is missing or a file it depends on has become newer.                    *)
(*                                                                         *)
(* Files change on disk between any two reads.  A path is a directory and  *)
(* a name; the time a file was modified identifies its contents.  Nodes    *)
(* are abstracted to the modification times of the files they were built   *)
(* from.  Every import is a bare name looked up in the lib paths.          *)
(***************************************************************************)
EXTENDS Naturals, Sequences, FiniteSetsExt

CONSTANTS
    Names,         \* imports, numbered in the order sort.Strings gives them
    Docs,          \* paths of the documents the client opens
    LibFiles,      \* paths of the files in library directories
    Contents(_),   \* what a path may contain: [imports, status]
    LibPathChoices,\* values of jsonnet.libPaths: sequences of directories
    Workers,       \* runs of updateNodeCache
    Nobody,        \* the holder of a free mutex
    Nothing,       \* no configuration is being written
    MaxClock       \* bound: writes of files

Paths == Docs \cup LibFiles
Directories == UNION {{lp[i] : i \in DOMAIN lp} : lp \in LibPathChoices}

ASSUME NamesAssumption  == Names \subseteq Nat /\ IsFiniteSet(Names)
ASSUME PathsAssumption  == Docs \cap LibFiles = {}
ASSUME MutexAssumption  == Nobody \notin Workers
ASSUME ConfigAssumption ==
    /\ LibPathChoices \subseteq Seq(Directories)
    /\ Nothing \notin LibPathChoices /\ <<>> \in LibPathChoices
ASSUME ClockAssumption  == MaxClock \in Nat
\* "garbled" does not lex, "failing" does not evaluate.
ASSUME ContentsAssumption ==
    \A p \in Paths : \A c \in Contents(p) :
        /\ c.imports \subseteq Names
        /\ c.status \in {"ok", "failing", "garbled"}
\* No import cycles: Collect would not return (see ImportCollector).  Files import
\* what has a greater number, which for TLC is simpler to say, and no proof uses it.
ASSUME AcyclicAssumption ==
    \A p \in LibFiles : \A c \in Contents(p) : \A n \in c.imports : p[2] < n

VARIABLES
    alive,     \* FALSE once the process read outside a slice
    disk,      \* path -> [what, mtime]
    clock,     \* the latest modification time
    libPaths,  \* Config.jsonnetLibPaths ...
    incoming,  \* ... and the value being written over it, word by word
    store,     \* NodeCache.store: name -> [deps, node, libPaths]
    mu,        \* NodeCache.mu
    run        \* the locals of each run of updateNodeCache and UpdateNodeCache

vars == <<alive, disk, clock, libPaths, incoming, store, mu, run>>

Empty == [x \in {} |-> 0]

\* "since" is the clock when work on the import "key" began (history).
NewRun == [pc |-> "idle", doc |-> {}, paths |-> <<>>, imports |-> {}, pending |-> {},
           key |-> 0, frontier |-> {}, deps |-> Empty, node |-> Empty,
           since |-> 0, notice |-> "quiet"]

TypeOK ==
    /\ alive \in BOOLEAN
    /\ clock \in 0..MaxClock
    /\ \A p \in Paths : disk[p].what \in Contents(p) /\ disk[p].mtime \in 0..clock
    /\ libPaths \in LibPathChoices /\ incoming \in LibPathChoices \cup {Nothing}
    /\ mu \in Workers \cup {Nobody}
    /\ DOMAIN store \subseteq Names
    /\ \A k \in DOMAIN store :
          DOMAIN store[k].deps \subseteq Names /\ DOMAIN store[k].node \subseteq LibFiles
    /\ \A w \in Workers :
          /\ run[w].pc \in {"idle", "spawned", "keys", "next", "collect", "stat",
                            "build", "stored", "done", "failed"}
          /\ run[w].pending \subseteq run[w].imports /\ run[w].imports \subseteq Names
          /\ run[w].frontier \subseteq LibFiles
          /\ run[w].notice \in {"quiet", "running", "complete", "abandoned", "closed"}

Init ==
    /\ alive = TRUE
    /\ \E what \in [Paths -> UNION {Contents(p) : p \in Paths}] :
          /\ \A p \in Paths : what[p] \in Contents(p)
          /\ disk = [p \in Paths |-> [what |-> what[p], mtime |-> 0]]
    /\ clock = 0
    /\ libPaths = <<>> /\ incoming = Nothing
    /\ store = Empty
    /\ mu = Nobody
    /\ run = [w \in Workers |-> NewRun]

----------------------------------------------------------------------------
(* Finding files.                                                          *)

Holding(n, lp) == {i \in DOMAIN lp : <<lp[i], n>> \in LibFiles}
Found(n, lp) == Holding(n, lp) # {}

\* ImportPath: the first lib path that holds the name.
ImportPath(n, lp) == <<lp[Min(Holding(n, lp))], n>>

\* FileImporter.Import, which the evaluator uses: the directory of the
\* importing file, then the lib paths from the last to the first.
Resolves(dir, n, lp) == <<dir, n>> \in LibFiles \/ Found(n, lp)
Import(dir, n, lp) ==
    IF <<dir, n>> \in LibFiles THEN <<dir, n>> ELSE <<lp[Max(Holding(n, lp))], n>>

----------------------------------------------------------------------------
(* The file system and the configuration.                                  *)

Write(p, c) ==
    /\ clock < MaxClock
    /\ clock' = clock + 1
    /\ disk' = [disk EXCEPT ![p] = [what |-> c, mtime |-> clock + 1]]
    /\ UNCHANGED <<alive, libPaths, incoming, store, mu, run>>

\* Config.UpdateClientConfiguration stores a slice of three words without
\* synchronisation while other goroutines read it.
WriteLibPaths(lp) ==
    /\ incoming = Nothing /\ lp # libPaths
    /\ incoming' = lp
    /\ UNCHANGED <<alive, disk, clock, libPaths, store, mu, run>>

LibPathsWritten ==
    /\ incoming # Nothing
    /\ libPaths' = incoming /\ incoming' = Nothing
    /\ UNCHANGED <<alive, disk, clock, store, mu, run>>

\* What a racing read can see: one slice, the other, or the elements of one
\* with the smaller length of the other.
LibPathReads ==
    IF incoming = Nothing THEN {libPaths}
    ELSE LET both == {libPaths, incoming}
             len  == Min({Len(s) : s \in both})
         IN  both \cup {SubSeq(s, 1, len) : s \in both}

\* The shorter slice read with the greater length kills the process.
TornRead(w) ==
    /\ run[w].pc = "spawned"
    /\ incoming # Nothing /\ Len(incoming) # Len(libPaths)
    /\ alive' = FALSE
    /\ UNCHANGED <<disk, clock, libPaths, incoming, store, mu, run>>

----------------------------------------------------------------------------
(* Run w of updateNodeCache.                                               *)

At(w, label) == run[w].pc = label
Become(w, r) == run' = [run EXCEPT ![w] = r]
Shared == <<alive, disk, clock, libPaths, incoming>>

\* A failing run returns its error; its locals are gone.
Fail(w) == Become(w, [NewRun EXCEPT !.pc = "failed", !.notice = run[w].notice])

\* textDocumentDidOpen or textDocumentDidSave: go updateNodeCache(...).
Start(w, d) ==
    /\ At(w, "idle")
    /\ Become(w, [NewRun EXCEPT !.pc = "spawned", !.doc = d])
    /\ UNCHANGED <<Shared, store, mu>>

\* Can a file be collected from: does it lex, is each import in a lib path?
Collectable(file, lp) ==
    file.status # "garbled" /\ \A n \in file.imports : Found(n, lp)

\* The goroutine reads the lib paths, then the imports of the document as it
\* is on disk.
CollectShallow(w) ==
    /\ At(w, "spawned")
    /\ \E lp \in LibPathReads :
         LET file == disk[run[w].doc].what
         IN  IF Collectable(file, lp)
               THEN Become(w, [run[w] EXCEPT !.pc = "keys", !.paths = lp,
                                 !.imports = file.imports, !.pending = file.imports])
               ELSE Fail(w)
    /\ UNCHANGED <<Shared, store, mu>>

\* NodeCache.Keys, for the log, waits for the mutex before the first import ...
KeysBefore(w) ==
    /\ At(w, "keys")
    /\ mu = Nobody
    /\ Become(w, [run[w] EXCEPT !.pc = "next"])
    /\ UNCHANGED <<Shared, store, mu>>

\* The head of the loop over the sorted imports of the document.
NextImport(w) ==
    /\ At(w, "next")
    /\ run[w].pending # {}
    /\ LET k == Min(run[w].pending)
       IN  Become(w, [run[w] EXCEPT !.pc = "collect", !.key = k, !.pending = @ \ {k},
                        !.frontier = {ImportPath(k, run[w].paths)}, !.since = clock])
    /\ UNCHANGED <<Shared, store, mu>>

\* ... and after the last one.
NoMoreImports(w) ==
    /\ At(w, "next")
    /\ run[w].pending = {}
    /\ mu = Nobody
    /\ Become(w, [run[w] EXCEPT !.pc = "done"])
    /\ UNCHANGED <<Shared, store, mu>>

\* ImportCollector.Collect(path, false): read one file and descend into what
\* it imports.  The order of the descent is left open.  What was collected is
\* then to be looked up.
CollectFile(w) ==
    /\ At(w, "collect")
    /\ \E p \in run[w].frontier :
         LET file  == disk[p].what
             below == {ImportPath(n, run[w].paths) : n \in file.imports}
             rest  == (run[w].frontier \ {p}) \cup below
             names == DOMAIN run[w].deps \cup file.imports
         IN  IF Collectable(file, run[w].paths)
               THEN Become(w, [run[w] EXCEPT
                      !.deps = [n \in names |-> 0],
                      !.frontier = IF rest # {} THEN rest
                                   ELSE {ImportPath(n, run[w].paths) : n \in names},
                      !.pc = IF rest = {} THEN "stat" ELSE "collect"])
               ELSE Fail(w)
    /\ UNCHANGED <<Shared, store, mu>>

\* collectNodeDependencies: stat, file by file, everything the import reaches.
StatDependency(w) ==
    /\ At(w, "stat")
    /\ \E p \in run[w].frontier :
         Become(w, [run[w] EXCEPT !.deps[p[2]] = disk[p].mtime, !.frontier = @ \ {p}])
    /\ UNCHANGED <<Shared, store, mu>>

Statted(w) == At(w, "stat") /\ run[w].frontier = {}

\* Mutant: the times are compared the other way round.
IsUpdateBackwards(new, old) == \E n \in DOMAIN new \cap DOMAIN old : new[n] < old[n]

\* Some dependency named in both lists became newer.
IsUpdate(new, old) == \E n \in DOMAIN new \cap DOMAIN old : new[n] > old[n]

\* Mutant: the mutex is not taken.
LockNothing(w) ==
    /\ Statted(w)
    /\ run[w].key \in DOMAIN store => IsUpdate(run[w].deps, store[run[w].key].deps)
    /\ Become(w, [run[w] EXCEPT !.pc = "build",
                    !.frontier = {ImportPath(run[w].key, run[w].paths)}])
    /\ UNCHANGED <<Shared, store, mu>>

\* NodeCache.Set takes the mutex; an entry to build keeps it to the end.
LockForBuild(w) ==
    /\ Statted(w)
    /\ mu = Nobody
    /\ run[w].key \in DOMAIN store => IsUpdate(run[w].deps, store[run[w].key].deps)
    /\ mu' = w
    /\ Become(w, [run[w] EXCEPT !.pc = "build",
                    !.frontier = {ImportPath(run[w].key, run[w].paths)}])
    /\ UNCHANGED <<Shared, store>>

\* "cache entry is up to date"
UpToDate(w) ==
    /\ Statted(w)
    /\ mu = Nobody
    /\ run[w].key \in DOMAIN store
    /\ ~IsUpdate(run[w].deps, store[run[w].key].deps)
    /\ Become(w, [run[w] EXCEPT !.pc = "stored"])
    /\ UNCHANGED <<Shared, store, mu>>

\* Can the evaluator read this file and find what it imports?
Buildable(p, lp) ==
    disk[p].what.status = "ok" /\ \A n \in disk[p].what.imports : Resolves(p[1], n, lp)

\* nodeBuilder.Build reads the file, then what it imports, each path once.
BuildRead(w) ==
    /\ At(w, "build")
    /\ \E p \in run[w].frontier :
         LET lp    == run[w].paths
             read  == [q \in DOMAIN run[w].node \cup {p} |->
                         IF q = p THEN disk[p].mtime ELSE run[w].node[q]]
             below == {Import(p[1], n, lp) : n \in disk[p].what.imports}
         IN  /\ Buildable(p, lp)
             /\ Become(w, [run[w] EXCEPT !.node = read,
                             !.frontier = (@ \cup below) \ DOMAIN read])
    /\ UNCHANGED <<Shared, store, mu>>

\* Mutant: the mutex is released on success only.
BuildFailLocked(w) ==
    /\ At(w, "build")
    /\ \E p \in run[w].frontier : ~Buildable(p, run[w].paths)
    /\ Fail(w)
    /\ UNCHANGED <<Shared, store, mu>>

\* Mutant: an error of Set is ignored.
BuildFailIgnored(w) ==
    /\ At(w, "build")
    /\ \E p \in run[w].frontier : ~Buildable(p, run[w].paths)
    /\ mu' = Nobody
    /\ Become(w, [run[w] EXCEPT !.pc = "next", !.frontier = {}, !.deps = Empty,
                    !.node = Empty, !.key = 0, !.since = 0])
    /\ UNCHANGED <<Shared, store>>

\* The build fails: the entry that was there stays, the run ends.
BuildFail(w) ==
    /\ At(w, "build")
    /\ \E p \in run[w].frontier : ~Buildable(p, run[w].paths)
    /\ mu' = Nobody
    /\ Fail(w)
    /\ UNCHANGED <<Shared, store>>

\* Mutant: the dependencies are looked up after the build.
EntryStattedLate(w) ==
    [deps |-> [n \in DOMAIN run[w].deps |-> disk[ImportPath(n, run[w].paths)].mtime],
     node |-> run[w].node, libPaths |-> run[w].paths]

\* The node is complete: c.store[key] = *e, and the mutex is released.
Entry(w) == [deps |-> run[w].deps, node |-> run[w].node, libPaths |-> run[w].paths]

StoreEntry(w) ==
    /\ At(w, "build")
    /\ run[w].frontier = {}
    /\ store' = [k \in DOMAIN store \cup {run[w].key} |->
                   IF k = run[w].key THEN Entry(w) ELSE store[k]]
    /\ mu' = Nobody
    /\ Become(w, [run[w] EXCEPT !.pc = "stored", !.node = Empty])
    /\ UNCHANGED Shared

SetReturns(w) ==
    /\ At(w, "stored")
    /\ Become(w, [run[w] EXCEPT !.pc = "next", !.key = 0, !.deps = Empty, !.since = 0])
    /\ UNCHANGED <<Shared, store, mu>>

----------------------------------------------------------------------------
(* The select of updateNodeCache, in the goroutine that started the run.   *)

\* The timer of one second; it may win against a result that is there too.
Timer(w) ==
    /\ ~At(w, "idle") /\ run[w].notice = "quiet"
    /\ Become(w, [run[w] EXCEPT !.notice = "running"])
    /\ UNCHANGED <<Shared, store, mu>>

\* "is complete" follows only "is running", and only when no error came.
Result(w) ==
    /\ At(w, "done") \/ At(w, "failed")
    /\ run[w].notice \in {"quiet", "running"}
    /\ Become(w, [run[w] EXCEPT !.notice =
                    IF @ = "quiet" THEN "closed"
                    ELSE IF At(w, "done") THEN "complete" ELSE "abandoned"])
    /\ UNCHANGED <<Shared, store, mu>>

----------------------------------------------------------------------------
EnterSet(w) == LockForBuild(w) \/ UpToDate(w)

\* The steps that wait for the mutex.
Lock(w) == KeysBefore(w) \/ EnterSet(w) \/ NoMoreImports(w)

Update(w) == \/ CollectShallow(w) \/ NextImport(w) \/ Lock(w)
             \/ CollectFile(w) \/ StatDependency(w)
             \/ BuildRead(w) \/ BuildFail(w) \/ StoreEntry(w) \/ SetReturns(w)

Next == /\ alive
        /\ \/ \E p \in Paths : \E c \in Contents(p) : Write(p, c)
           \/ \E lp \in LibPathChoices : WriteLibPaths(lp)
           \/ LibPathsWritten
           \/ \E w \in Workers :
                \/ \E d \in Docs : Start(w, d)
                \/ Update(w) \/ TornRead(w) \/ Timer(w) \/ Result(w)

\* Goroutines run, and sync.Mutex does not starve a waiter.  The timer, the
\* client and the file system owe nothing.
Fairness == \A w \in Workers : /\ WF_vars(alive /\ (Update(w) \/ Result(w)))
                               /\ SF_vars(alive /\ Lock(w))

Spec == Init /\ [][Next]_vars /\ Fairness

----------------------------------------------------------------------------
(* Properties.                                                             *)

\* The modification time recorded for a dependency is never newer than the
\* contents the node was built from: a later change is always seen as newer.
\* It rests on the order in the code: stat first, build afterwards.
RecordedNotNewer ==
    \A k \in DOMAIN store : \A n \in DOMAIN store[k].deps :
        LET p == ImportPath(n, store[k].libPaths)
        IN  p \in DOMAIN store[k].node => store[k].deps[n] <= store[k].node[p]

\* Set has just returned for an import, nothing was written since work on it
\* began, and the entry was made for the same lib paths.
Settled(w) ==
    /\ At(w, "stored") /\ run[w].since = clock
    /\ store[run[w].key].libPaths = run[w].paths

\* A quiet update leaves the entry of an import built from the present
\* contents of every dependency that was and is one of its dependencies,
\* whoever built the entry and whichever runs overlapped.  (Where no two library
\* directories hold a file of the same name; otherwise ImportPath and Import may
\* differ, and the file that is dated need not be the one that is read.)
FreshDependencies ==
    \A w \in Workers : Settled(w) =>
        LET e == store[run[w].key]
        IN  \A p \in DOMAIN e.node :
               p[2] \in DOMAIN e.deps \cap DOMAIN run[w].deps
                   => e.node[p] = disk[p].mtime

\* "UpdateNodeCache updates the node cache using a file" (node_cache.go:171):
\* a quiet update leaves the entry built from the present contents of the
\* imported file itself.
FreshImport ==
    \A w \in Workers : Settled(w) =>
        LET e == store[run[w].key]
        IN  \A p \in DOMAIN e.node : p[2] = run[w].key => e.node[p] = disk[p].mtime

\* The client is told that import processing is complete only when every
\* import the document had is in the cache.
CompleteMeansCached ==
    \A w \in Workers :
        run[w].notice = "complete" => run[w].imports \subseteq DOMAIN store

\* Builds hold the mutex, so an entry is never replaced by a node built from
\* older contents of a file than the node it had, and is never lost.
NeverBackwards ==
    [][\A k \in DOMAIN store :
          /\ k \in DOMAIN store'
          /\ \A p \in DOMAIN store[k].node \cap DOMAIN store'[k].node :
                store[k].node[p] <= store'[k].node[p]]_vars

\* Every update ends, and so does the goroutine that waits for its result:
\* whatever the other runs do and however they fail, none waits for ever for the
\* mutex, before the first import, in Set or after the last one.  (Of a run that
\* fails after "is running" was shown, the client is told nothing more.)
UpdatesEnd ==
    \A w \in Workers :
        (~At(w, "idle"))
            ~> (~alive \/ run[w].notice \in {"complete", "abandoned", "closed"})
============================================================================

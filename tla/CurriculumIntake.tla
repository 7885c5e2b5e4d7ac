-------------------------- MODULE CurriculumIntake --------------------------
(***************************************************************************)
(* A curriculum framework is imported version by version and published.    *)
(* An import writes the framework, its own row and its artifacts, one      *)
(* commit each; a publication writes each artifact into the runtime        *)
(* tables, then the snapshot that lists them, then the framework's and the *)
(* import's row.  Requests run at once and may die between two commits.    *)
(* A version stands for its fingerprint, from which the import's id is     *)
(* made.  The four runtime tables are one, keyed by kind and id.           *)
(***************************************************************************)
EXTENDS Integers, Sequences, Functions, IntakePromises

CONSTANTS
    Bundles,     \* by version: its keys in order, and what each refers and is prerequisite to
    Threads,
    MaxRequests  \* bound: imports and publications asked for

Versions == DOMAIN Bundles
Keys(v) == Range(Bundles[v].keys)

\* What the constants must be.
CurriculumIntakeAssumption ==
    /\ MaxRequests \in Nat
    /\ None \notin Versions
    /\ \A v \in Versions :
        /\ Bundles[v].keys \in Seq(Keys(v)) /\ IsInjective(Bundles[v].keys)
        /\ DOMAIN Bundles[v].refers = Keys(v) /\ DOMAIN Bundles[v].prerequisites = Keys(v)

VARIABLES
    artifacts, \* by version: the keys stored for its import
    thread,    \* what each request is doing
    asked      \* requests so far

vars == <<framework, imports, artifacts, runtime, snapshots, thread, asked>>

AllKeys == UNION {Keys(v) : v \in Versions}

Idle == [pc |-> "idle", version |-> None, todo |-> {}, read |-> {}]

Init ==
    /\ framework = [import |-> None, snapshot |-> None]
    /\ imports = [v \in Versions |-> None]
    /\ artifacts = [v \in Versions |-> {}]
    /\ runtime = [k \in AllKeys |-> None]
    /\ snapshots = [v \in Versions |-> {}]
    /\ thread = [t \in Threads |-> Idle]
    /\ asked = 0

At(t, pc) == thread[t].pc = pc
Version(t) == thread[t].version

\* The artifact a loop over a bundle's keys comes to next.
IsNext(t, k) ==
    /\ k \in thread[t].todo
    /\ \A i, j \in DOMAIN Bundles[Version(t)].keys :
        Bundles[Version(t)].keys[i] = k /\ Bundles[Version(t)].keys[j] \in thread[t].todo => i <= j

Goto(t, pc) == thread' = [thread EXCEPT ![t].pc = pc]
Done(t) == thread' = [thread EXCEPT ![t] = Idle]
Ask(t) == At(t, "idle") /\ asked < MaxRequests /\ asked' = asked + 1

-----------------------------------------------------------------------------
\* _find_prerequisite_cycle: some KCs each of which has a prerequisite among them.
Cyclic(v) ==
    \E loop \in SUBSET Keys(v) \ {{}} :
        \A k \in loop : Bundles[v].prerequisites[k] \cap loop # {}

\* _verify_bundle; no issue it raises is a warning.
Failed(v) ==
    \/ \E k \in Keys(v) :
        ~(Bundles[v].refers[k] \cup Bundles[v].prerequisites[k] \subseteq Keys(v))
    \/ Cyclic(v)

\* import_framework: an import of the same fingerprint is the answer already.
Import(t, v) ==
    /\ Ask(t)
    /\ thread' = IF imports[v] # None THEN thread
                  ELSE [thread EXCEPT ![t] = [pc |-> "framework", version |-> v,
                                              todo |-> Keys(v), read |-> {}]]
    /\ UNCHANGED <<framework, imports, artifacts, runtime, snapshots>>

\* The framework's row is the bundle's, which knows of no publication.
StoreFramework(t) ==
    /\ At(t, "framework")
    /\ framework' = [import |-> Version(t), snapshot |-> None]
    /\ Goto(t, "import")
    /\ UNCHANGED <<imports, artifacts, runtime, snapshots, asked>>

StoreImport(t) ==
    /\ At(t, "import")
    /\ imports' = [imports EXCEPT ![Version(t)] = IF Failed(Version(t)) THEN "failed" ELSE "imported"]
    /\ Goto(t, "artifacts")
    /\ UNCHANGED <<framework, artifacts, runtime, snapshots, asked>>

StoreArtifact(t) ==
    /\ At(t, "artifacts")
    /\ \E k \in Keys(Version(t)) :
        /\ IsNext(t, k)
        /\ artifacts' = [artifacts EXCEPT ![Version(t)] = @ \cup {k}]
        /\ thread' = [thread EXCEPT ![t].todo = @ \ {k}]
    /\ UNCHANGED <<framework, imports, runtime, snapshots, asked>>

EndImport(t) ==
    /\ At(t, "artifacts") /\ thread[t].todo = {}
    /\ Done(t)
    /\ UNCHANGED <<framework, imports, artifacts, runtime, snapshots, asked>>

-----------------------------------------------------------------------------
\* publish_import reads the import and looks for a snapshot; one that failed
\* needs force.  The artifacts are read by their kind and key.
Publish(t, v, force) ==
    /\ Ask(t)
    /\ IF \/ imports[v] = None
          \/ imports[v] = "failed" /\ ~force
          \/ snapshots[v] # {}
       THEN UNCHANGED thread
       ELSE thread' = [thread EXCEPT ![t] = [Idle EXCEPT !.pc = "read", !.version = v]]
    /\ UNCHANGED <<framework, imports, artifacts, runtime, snapshots>>

ReadArtifacts(t) ==
    LET found == artifacts[Version(t)]
    IN  /\ At(t, "read")
        /\ IF found = {} THEN Done(t)
           ELSE thread' = [thread EXCEPT ![t].pc = "rows", ![t].todo = found, ![t].read = found]
        /\ UNCHANGED <<framework, imports, artifacts, runtime, snapshots, asked>>

\* Mutant: the snapshot is stored before the rows it lists.
StoreSnapshotFirst(t) ==
    /\ At(t, "rows") /\ thread[t].todo # {}
    /\ snapshots' = [snapshots EXCEPT ![Version(t)] = thread[t].read]
    /\ Goto(t, "frameworkPublished")
    /\ UNCHANGED <<framework, imports, artifacts, runtime, asked>>

StoreRow(t) ==
    /\ At(t, "rows")
    /\ \E k \in Keys(Version(t)) :
        /\ IsNext(t, k)
        /\ runtime' = [runtime EXCEPT ![k] = Version(t)]
        /\ thread' = [thread EXCEPT ![t].todo = @ \ {k}]
    /\ UNCHANGED <<framework, imports, artifacts, snapshots, asked>>

StoreSnapshot(t) ==
    /\ At(t, "rows") /\ thread[t].todo = {}
    /\ snapshots' = [snapshots EXCEPT ![Version(t)] = thread[t].read]
    /\ Goto(t, "frameworkPublished")
    /\ UNCHANGED <<framework, imports, artifacts, runtime, asked>>

PublishFramework(t) ==
    /\ At(t, "frameworkPublished")
    /\ framework' = [import |-> Version(t), snapshot |-> Version(t)]
    /\ Goto(t, "importPublished")
    /\ UNCHANGED <<imports, artifacts, runtime, snapshots, asked>>

PublishImport(t) ==
    /\ At(t, "importPublished")
    /\ imports' = [imports EXCEPT ![Version(t)] = "published"]
    /\ Done(t)
    /\ UNCHANGED <<framework, artifacts, runtime, snapshots, asked>>

\* The request fails or the process dies.
Fail(t) ==
    /\ ~At(t, "idle")
    /\ Done(t)
    /\ UNCHANGED <<framework, imports, artifacts, runtime, snapshots, asked>>

Step(t) ==
    \/ StoreFramework(t) \/ StoreImport(t) \/ StoreArtifact(t) \/ EndImport(t)
    \/ ReadArtifacts(t) \/ StoreRow(t) \/ StoreSnapshot(t)
    \/ PublishFramework(t) \/ PublishImport(t) \/ Fail(t)

Next == \E t \in Threads : Step(t) \/ \E v \in Versions :
    Import(t, v) \/ \E force \in BOOLEAN : Publish(t, v, force)

Spec == Init /\ [][Next]_vars
=============================================================================

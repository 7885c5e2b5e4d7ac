--------------------------- MODULE IntakePromises ---------------------------
(***************************************************************************)
(* What CurriculumIntake promises whoever reads a published curriculum,    *)
(* over the tables that say so.                                            *)
(***************************************************************************)
EXTENDS Naturals

VARIABLES
    framework, \* the framework's row: latest import, latest published snapshot
    imports,   \* by version: the status of its import
    runtime,   \* by key: the version whose snapshot the runtime row names
    snapshots  \* by version: the keys its snapshot lists

None == "none"

\* What is said to be published can be read: whatever requests ran at once or
\* died, each artifact a snapshot lists has its runtime row, and an import or a
\* framework that names a snapshot names one that is stored.
PublishedCanBeRead ==
    /\ \A v \in DOMAIN snapshots : \A k \in snapshots[v] : runtime[k] # None
    /\ \A v \in DOMAIN imports : imports[v] = "published" => snapshots[v] # {}
    /\ framework.snapshot # None => snapshots[framework.snapshot] # {}
=============================================================================

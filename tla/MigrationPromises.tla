-------------------------- MODULE MigrationPromises --------------------------
(***************************************************************************)
(* What CurriculumMigration promises, over the part of its state that says *)
(* so: what refers to components, and what is remembered of who approved   *)
(* what and of who wrote what.                                             *)
(***************************************************************************)
EXTENDS Functions

CONSTANTS
    Source, \* the components of the snapshot that is migrated from
    Target, \* and of the one that is migrated to
    Refs    \* what each entity refers to at first

VARIABLES
    entity,   \* what refers to components
    ratified, \* actions an administrator approved (history)
    aligned,  \* alignments a reviewer approved (history)
    migrated, \* entities a migration wrote (history)
    revised   \* and entities somebody else wrote (history)

RefersTo(e) == Range(entity[e].refs) \cup Range(entity[e].copy.refs)

\* What some components lead to, from one to the next through pairs.
Lineage(components, pairs) ==
    LET known == components \cup {pair[2] : pair \in pairs}
    IN  {c \in known : \A S \in SUBSET known :
            components \subseteq S /\ (\A pair \in pairs : pair[1] \in S => pair[2] \in S) => c \in S}

\* Nothing is migrated that was not approved twice, whatever requests raced,
\* died or were made again: an administrator approved the action, and each
\* component an entity has gained was approved as the equivalent of one it had
\* before.  That is one it had at first, but for an assignment that is migrated
\* again: its first plan can be replaced by one that was asked for before it.
NothingUnapproved ==
    /\ migrated \subseteq ratified
    /\ \A e \in migrated \ revised : \A c \in RefersTo(e) \ Range(Refs[e]) :
            c \in Lineage(Range(Refs[e]), aligned)

\* What a migration moved to the new snapshot refers to components of the new
\* snapshot only, the copies of library artifacts included, unless the learner's
\* goal was revised behind the plan's back.  Two things slip through, and nothing
\* else does: what the old snapshot never had, so that no diff speaks of it; and
\* what a reviewer approved as the equivalent of one the entity had though the new
\* snapshot lacks it, for neither the review nor the diff looks for an alignment's
\* target in the snapshot it names (curriculum_intake_harness.py:259-304,
\* curriculum_evolution.py:1364 and 1474-1493).
MigratedIsWhole ==
    \A e \in DOMAIN entity \ revised :
        LET moved == Range(entity[e].copy.refs)
                        \cup (IF entity[e].at = "target" THEN Range(entity[e].refs) ELSE {})
        IN  \A c \in moved \ Target :
                \/ c \in Range(Refs[e]) \ Source
                \/ \E had \in Lineage(Range(Refs[e]), aligned) : <<had, c>> \in aligned
=============================================================================

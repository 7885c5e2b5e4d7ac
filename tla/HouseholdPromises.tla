-------------------------- MODULE HouseholdPromises --------------------------
(***************************************************************************)
(* What Household promises a learner's parents, over the part of its state *)
(* that says so: the relationship row, what an overview last showed, and   *)
(* what is remembered of the parents' decisions.                           *)
(***************************************************************************)
EXTENDS Naturals

VARIABLES
    row,              \* the learner's relationship state
    suggested,        \* the session suggestion shown last
    shown,            \* the notifications shown last, until something changes them
    approved, lapsed, \* modalities a parent approved, whose request expired (history)
    dismissed,        \* notifications a parent dismissed (history)
    overlap           \* two requests were at work at once (history)

\* The counts the cadence is decided by stay consistent, whichever requests
\* write the row over each other: a suggestion is completed at most once for
\* each time it was accepted, and the learner has recovered from every stall
\* except one that lasts.
CountsAddUp ==
    /\ row.completed + (IF row.status = "accepted" THEN 1 ELSE 0) <= row.accepted
    /\ row.accepted <= row.given
    /\ row.episodes = row.recoveries + (IF row.stalls > 0 THEN 1 ELSE 0)

\* With approvals required, no session is suggested in a modality that no parent
\* approved (pilot-readiness.md stops a pilot when "Parent approval enforcement
\* fails to block a gated autonomy action").  It does not hold: a request that
\* expired is not asked for again, and blocks no longer.
GateBlocks == suggested.gated => suggested.modality \in approved \cup {"text"}

\* What is left of it: only an expiry opens the gate.  What a parent turned down,
\* or has not answered yet, does not slip through, whichever requests write the
\* row over each other.
ApprovalOrExpiry ==
    suggested.gated =>
        \/ suggested.modality \in approved \cup {"text"}
        \/ <<"modality", suggested.modality>> \in lapsed

\* What a parent dismissed stays away, however often it is emitted again, while
\* requests come one at a time.
DismissedStays == ~overlap => dismissed \cap shown = {}
=============================================================================

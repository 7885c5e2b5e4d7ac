------------------------- MODULE RemediationPromises -------------------------
(***************************************************************************)
(* What Remediation promises, over the part of its state that says so: the *)
(* session's row, and what is remembered of how it came to be.             *)
(***************************************************************************)
EXTENDS Naturals, Sequences

VARIABLES
    row,    \* the session's row
    basis,  \* on what each completed step was passed (history)
    overlap \* two requests were at work at once (history)

\* What the learner is told to do next: advance_remediation or, at the end,
\* the practice problem that follows (_continue_action_for_summary).
ContinueAction(doc) ==
    IF doc.index = 0 /\ doc.decision = "advance" THEN "generate_follow_up"
    ELSE "advance_remediation"

\* A session's row adds up, whichever requests wrote over each other: the
\* steps before the current one are complete and have content, the current one
\* is active, the rest wait, and one generation is listed for each complete one.
SessionAddsUp ==
    LET done == IF row.index = 0 THEN Len(row.steps) ELSE row.index - 1
    IN  /\ \A i \in DOMAIN row.steps :
             /\ row.steps[i].status = IF i <= done THEN "completed"
                                      ELSE IF i = done + 1 THEN "active" ELSE "pending"
             /\ i <= done => row.steps[i].content # 0
        /\ Len(row.completed) = done

\* "stronger repair-versus-bridge return gates": while requests come one at a
\* time, a step behind a gate is passed when no work on the step before was
\* seen, or work of the learner's own and none that leaned on full support.
TransferRests ==
    ~overlap => \A i \in DOMAIN basis : basis[i] \notin {"unrested", "skipped"}

\* While requests come one at a time, what the learner is told to do next can
\* be done: a session they are to advance has a step to advance to, after
\* whatever holds, failures and restarts.
ContinueCanBeDone ==
    ~overlap => (ContinueAction(row) = "advance_remediation" => row.index # 0)
=============================================================================

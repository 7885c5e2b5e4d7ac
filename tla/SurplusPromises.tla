-------------------------- MODULE SurplusPromises ---------------------------
(***************************************************************************)
(* What SurplusPractice promises the learner of the questions they are     *)
(* shown, over the part of its state that says so.                         *)
(***************************************************************************)
EXTENDS Naturals

VARIABLES
    served, \* the questions shown to the learner
    grounds \* for each batch, the evidence its request started with

\* No question is shown twice (test_pop_consumes_entry).
ServedOnce ==
    \A i, j \in DOMAIN served : served[i].item = served[j].item => i = j

\* A request that starts after evidence has expired the slots is not answered
\* with a question generated from what was known before (CHANGELOG: predictive
\* entries "are expired when new learner observations ... change the same
\* learner/session target context").
EvidenceHeeded ==
    \A i \in DOMAIN served : grounds[served[i].item.batch] >= served[i].since
=============================================================================

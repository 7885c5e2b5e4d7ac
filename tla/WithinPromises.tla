--------------------------- MODULE WithinPromises ---------------------------
(***************************************************************************)
(* What WithinSession promises, over the part of its state that says so:   *)
(* the controller's row, and what is remembered of how it came to be.      *)
(***************************************************************************)
EXTENDS Naturals

VARIABLES
    controller, \* the controller's row
    risen,      \* positive summaries since the last negative one (history)
    arc         \* contents generated since the phase began or recovery was seen (history)

\* The phases in which a step of support is used up by each content.
TracksBudget(phase) == phase \in {"stabilize", "repair", "consolidate", "bridge"}

\* A learner who struggled is not sent to transfer on one good sign: whatever
\* events come, drop out of the log and mix with generated content, the
\* controller attempts transfer only after two positive summaries since the
\* last negative one.
TransferIsEarned == controller.action = "attempt_transfer" => risen >= 2

\* A support loop is noticed: when three contents were generated in one phase
\* of support with no recovery seen in between, whatever other events came,
\* the controller asks for a probe from a new angle.
LoopIsNoticed ==
    TracksBudget(controller.phase) /\ arc >= 3 => controller.arcAction = "reprobe_new_angle"
=============================================================================

--------------------------- MODULE EnginePromises ---------------------------
(***************************************************************************)
(* What GenerationEngine promises of the content it answers with, over the *)
(* part of its state that says so: the requests and the recorded contents. *)
(***************************************************************************)
EXTENDS Naturals, Sequences

VARIABLES
    history, \* generated_content: the rows "generated:<generation_id>"
    thread   \* what each request thread is doing

\* What replaces a draft that fails verification or moderation.
Fallbacks == {"review", "reset"}

Recorded == {history[i] : i \in DOMAIN history}

Answered(t, sources) == thread[t].pc = "answered" /\ thread[t].from \in sources

\* What comes from the model or out of the library has passed verification and
\* moderation or is a fallback, whatever the drafts were ("unsafe generated
\* drafts can be replaced before delivery", CHANGELOG).
CheckedBeforeServed ==
    \A t \in DOMAIN thread : Answered(t, {"generation", "library"}) =>
        thread[t].answer.what \in {"good"} \cup Fallbacks

\* What was answered is on record as this learner's, so that the observation
\* that will name its generation id finds it.
AnswerIsRecorded ==
    \A t \in DOMAIN thread : Answered(t, {"generation", "library"}) =>
        /\ thread[t].answer \in Recorded
        /\ thread[t].answer.learner = thread[t].learner
=============================================================================

--------------------------- MODULE WarmStarvation ---------------------------
(***************************************************************************)
(* Ranking under load: rounds of new arrivals, each followed by one claim, *)
(* competing with one explanation follow-up that waits from the start.  It *)
(* asks what the aging bonus and the class heads of a batch are there for: *)
(* does the low-priority task get its turn before it expires?              *)
(***************************************************************************)
EXTENDS WarmPriority

CONSTANTS
    Limits,       \* the limits a claim may have: the capacity its pass has left
    Burst,        \* how many requests arrive at most before each claim
    ArrivalTypes, \* their content types and warm reasons
    ArrivalReasons,
    Expiry        \* stale_after_minutes, in clock ticks

\* What the constants must be.
WarmStarvationAssumption ==
    /\ Limits \subseteq Nat \ {0} /\ Burst \in Nat /\ Expiry \in Nat
    /\ ArrivalTypes \subseteq ContentTypes
    /\ ArrivalReasons \subseteq WarmReasons

VARIABLES
    clock,
    backlog \* the eligible tasks, as the ranking sees them

starvationVars == <<clock, backlog>>

\* A request as the next-step planner queues it: it carries no mode calibration.
Planned(type, reason) ==
    [type |-> type, phase |-> "monitor", action |-> "monitor",
     remediation |-> type = "remedial_micro_module", reason |-> reason]

TaskFor(request, id, at) ==
    [id |-> id, class |-> PriorityClassOf(request), score |-> PriorityOf(request),
     created |-> at, attempts |-> 0]

Waiting == TaskFor(Planned("micro_explanation", "none"), 0, 0)

Init ==
    /\ clock = 0
    /\ backlog = {Waiting}

\* The sets of n new tasks, with their ids in order of arrival.
Arrivals(n) ==
    LET requests == [1 .. n -> {Planned(t, r) : t \in ArrivalTypes, r \in ArrivalReasons}]
    IN  {{TaskFor(seq[i], clock * Burst + i, clock) : i \in 1 .. n} : seq \in requests}

Round ==
    /\ clock < Expiry
    /\ clock' = clock + 1
    /\ \E limit \in Limits, n \in 0 .. Burst : \E arrived \in Arrivals(n) :
         LET tasks == {t \in backlog \cup arrived : clock < t.created + Expiry}
         IN  backlog' = tasks \ SelectTaskBatch(tasks, limit, clock)

Spec == Init /\ [][Round]_starvationVars

-----------------------------------------------------------------------------
\* The waiting task is claimed before it expires: aging must carry it past
\* everything that keeps arriving.
WaitingIsServed == clock = Expiry => Waiting \notin backlog
=============================================================================

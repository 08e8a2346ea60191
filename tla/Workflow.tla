------------------------------ MODULE Workflow ------------------------------
(***************************************************************************)
(* What SemanticOrchestrator::Orchestrate promises its caller, whatever    *)
(* devices, transports and the network do: the steps of a plan are begun   *)
(* in order and once each, the answer tells how far it came, and a         *)
(* cancelled request begins one more step at the most.                     *)
(***************************************************************************)
EXTENDS Naturals

VARIABLES
    length,     \* how many steps the plan of the request has
    cancelled,  \* somebody has asked to stop
    begun,      \* how many steps were begun
    late,       \* how many of them after cancelled was set
    outcome     \* Running, or the answer

workflowVars == <<length, cancelled, begun, late, outcome>>

Running == "running"

\* Answers that say that nothing was done.
Refusal ==
    {"DeviceNotFound", "AmbiguousTarget", "DeviceUnreachable",
     "MissingCapability", "WorkflowGenerationFailed"}

AbstractInit ==
    /\ length \in Nat \ {0}
    /\ cancelled = FALSE
    /\ begun = 0
    /\ late = 0
    /\ outcome = Running

RequestStop ==
    /\ cancelled' = TRUE
    /\ UNCHANGED <<length, begun, late, outcome>>

BeginStep ==
    /\ outcome = Running
    /\ begun < length
    /\ late = 0
    /\ begun' = begun + 1
    /\ late' = IF cancelled THEN 1 ELSE 0
    /\ outcome' \in {Running, "None", "ExecutionFailed"}
    /\ outcome' = "None" => begun' = length
    /\ UNCHANGED <<length, cancelled>>

Answer(o) ==
    /\ outcome = Running
    /\ outcome' = o
    /\ UNCHANGED <<length, cancelled, begun, late>>

Refuse == begun = 0 /\ \E o \in Refusal : Answer(o)

Fail == begun > 0 /\ Answer("ExecutionFailed")

Succeed == begun = length /\ Answer("None")

StopEarly == cancelled /\ begun < length /\ Answer("Cancelled")

AbstractNext == RequestStop \/ BeginStep \/ Refuse \/ Fail \/ Succeed \/ StopEarly

AbstractSpec == AbstractInit /\ [][AbstractNext]_workflowVars
=============================================================================

------------------------------- MODULE Service -------------------------------
(***************************************************************************)
(* The service's worker and its background work: the entry point with the  *)
(* scheduled trigger, the usage accounting that the trigger's pass settles *)
(* and the cut-over of the Root ledger.  A workload says which of them a   *)
(* behaviour exercises.                                                    *)
(***************************************************************************)
EXTENDS Usage, Cutover, WorkerEntry

CONSTANT Workloads

VARIABLE workload

vars == <<usageVars, cutoverVars, entryVars, workload>>

Init ==
    /\ workload \in Workloads
    /\ UsageInit /\ CutoverInit /\ EntryInit
    /\ workload # "cutover" => roots = 0 /\ old.events = {}
    /\ workload # "entry" => tables = 0

Next ==
    /\ \/ workload = "usage" /\ UsageNext /\ UNCHANGED <<cutoverVars, entryVars>>
       \/ workload = "cutover" /\ CutoverNext /\ UNCHANGED <<usageVars, entryVars>>
       \/ workload = "entry" /\ EntryNext /\ UNCHANGED <<usageVars, cutoverVars>>
    /\ UNCHANGED workload

\* The scheduled trigger fires again and again, and a pass that it started
\* goes on: its statements and R2 calls answer.
Spec == Init /\ [][Next]_vars /\ WF_vars(workload = "usage" /\ PassWork /\ UNCHANGED <<cutoverVars, entryVars, workload>>)

\* UsageSettles is about the workload that stores nodes.
UsageSettled == workload = "usage" => UsageSettles

=============================================================================

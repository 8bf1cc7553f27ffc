------------------------------ MODULE TaskLife ------------------------------
(***************************************************************************)
(* What a client of the task store may rely on: the statuses it reads only *)
(* ever move forward.  A task is created Working and gets one terminal     *)
(* status, for good; a batch completes only over settled items, is failed  *)
(* or canceled at most once, and a canceled batch never reads Completed.   *)
(* Crashes and restarts are not visible at this level.                     *)
(***************************************************************************)
CONSTANTS Solo, Batch, Items

VARIABLES task, plan

Task == Solo \cup UNION {Items[b] : b \in Batch}
Terminal == {"Completed", "Failed", "Canceled", "Interrupted"}

Init ==
    /\ task = [t \in Task |-> "none"]
    /\ plan = [b \in Batch |-> "none"]

\* A task starts; an item only once its batch exists.
StartTask(t) ==
    /\ task[t] = "none"
    /\ \A b \in Batch : t \in Items[b] => plan[b] # "none"
    /\ task' = [task EXCEPT ![t] = "Working"]
    /\ UNCHANGED plan

\* A Working task gets its terminal status.
EndTask(t) ==
    /\ task[t] = "Working"
    /\ \E s \in Terminal : task' = [task EXCEPT ![t] = s]
    /\ UNCHANGED plan

StartBatch(b) ==
    /\ plan[b] = "none"
    /\ plan' = [plan EXCEPT ![b] = "Working"]
    /\ UNCHANGED task

CancelBatch(b) ==
    /\ plan[b] = "Working"
    /\ plan' = [plan EXCEPT ![b] = "Canceling"]
    /\ UNCHANGED task

CompleteBatch(b) ==
    /\ plan[b] = "Working"
    /\ \A t \in Items[b] : task[t] \in Terminal
    /\ plan' = [plan EXCEPT ![b] = "Completed"]
    /\ UNCHANGED task

\* Admission failed while the batch was Working, or boot could not read its plan.
FailBatch(b) ==
    /\ plan[b] \in {"Working", "Canceling"}
    /\ plan' = [plan EXCEPT ![b] = "Failed"]
    /\ UNCHANGED task

EndCancel(b) ==
    /\ plan[b] = "Canceling"
    /\ plan' = [plan EXCEPT ![b] = "Canceled"]
    /\ UNCHANGED task

Next ==
    \/ \E t \in Task : StartTask(t) \/ EndTask(t)
    \/ \E b \in Batch : \/ StartBatch(b) \/ CancelBatch(b) \/ CompleteBatch(b)
                        \/ FailBatch(b) \/ EndCancel(b)

Spec == Init /\ [][Next]_<<task, plan>>
=============================================================================

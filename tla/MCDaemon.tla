------------------------------ MODULE MCDaemon ------------------------------
(***************************************************************************)
(* The daemon's requests and its workflow engine side by side: a behaviour *)
(* picks one part and stays with it, so the state counts add.              *)
(***************************************************************************)
EXTENDS DaemonRequests, WorkflowEngine

VARIABLE part

daemonVars == <<part, requestVars, wfVars>>

OneProc == CHOOSE p \in WProcs : TRUE
FirstFlows == CHOOSE f \in [Flows -> FlowRows] : TRUE
FirstDrawing == CHOOSE d \in Drawings : TRUE

(* The parts that do not move start in one state, and the row that names   *)
(* no tenant is in the database switched to.                               *)
Init ==
    /\ part \in {"requests", "runs", "triggers", "order"}
    /\ InitRequests
    /\ \A d \in Databases : rows[d][1].tenant = NullTenant <=> d # config
    /\ InitWorkflow
    /\ part # "order" => sample = [keys |-> <<>>, edges |-> <<>>]
    /\ part \notin {"runs", "triggers"} => flows = FirstFlows
    /\ part # "runs" => drawing = FirstDrawing
    /\ part = "triggers" => \A f \in Flows : flows[f].trigger = "other" /\ flows[f].form = ""

(* One poster and no clock when runs are drawn, no drawing when triggers   *)
(* are looked up.                                                          *)
WorkflowPart ==
    /\ part \in {"runs", "triggers"}
    /\ NextWorkflow
    /\ part = "runs" => \A p \in WProcs \ {OneProc} : posts'[p] = NoPost
    /\ part = "runs" => wclock' = wclock
    /\ part = "triggers" =>
          drawing' = drawing /\ \A p \in WProcs : posts'[p].named = "" /\ posts'[p].form = ""

Next ==
    \/ part = "requests" /\ NextRequests /\ UNCHANGED <<part, wfVars>>
    \/ WorkflowPart /\ UNCHANGED <<part, requestVars>>

(* Initially no handler runs, so the other parts' behaviours satisfy both. *)
Spec == Init /\ [][Next]_daemonVars /\ FairRequests /\ FairWorkflow

(* Every request is answered, and every post and the run it triggers come  *)
(* to an end, through failing calls, a switched client and cyclic          *)
(* drawings.                                                               *)
RequestsAndRunsEnd ==
    /\ RequestsEnd
    /\ PostsAndRunsEnd
=============================================================================

----------------------------- MODULE Lifecycle -----------------------------
(***************************************************************************)
(* What the workflow of a resource promises to the user who looks at       *)
(* status.phase: the order of the phases, that the destroy phases follow a *)
(* deletion, and that a resource with the finalizer only goes away when    *)
(* its phase is deleted or the user asked to ignore the deletion           *)
(* (pkg/apis/infrakube/v1/tf_types.go, StatusPhase and spec.ignoreDelete). *)
(***************************************************************************)
VARIABLES exists,        \* the resource exists
          deleting,      \* a user has deleted it
          ignoreDelete,  \* spec.ignoreDelete
          finalizer,     \* the controller holds it
          phase,         \* status.phase
          unsure         \* the controller may be behind the phase it reported

vars == <<exists, deleting, ignoreDelete, finalizer, phase, unsure>>

DeletePhase == {"initializing-delete", "deleting", "deleted"}

Init == /\ exists = TRUE
        /\ deleting = FALSE
        /\ ignoreDelete \in BOOLEAN
        /\ finalizer = FALSE
        /\ phase = ""
        /\ unsure = FALSE

\* The user's side.
AskDelete == /\ exists /\ ~deleting
             /\ deleting' = finalizer
             /\ exists' = finalizer
             /\ UNCHANGED <<ignoreDelete, finalizer, phase, unsure>>

EditSpec == /\ exists
            /\ ignoreDelete' \in BOOLEAN
            /\ UNCHANGED <<exists, deleting, finalizer, phase, unsure>>

\* The controller's side: it takes hold of the resource, and lets go of it.
Hold == /\ exists /\ ~deleting /\ ~finalizer /\ ~ignoreDelete
        /\ finalizer' = TRUE
        /\ UNCHANGED <<exists, deleting, ignoreDelete, phase, unsure>>

Release == /\ exists /\ finalizer
           /\ phase = "deleted" \/ ignoreDelete
           /\ finalizer' = FALSE
           /\ exists' = ~deleting
           /\ UNCHANGED <<deleting, ignoreDelete, phase, unsure>>

\* The phases a workflow goes through; a new generation or a retry starts one
\* over from any phase but deleted.
Follows(old, new) ==
    \/ old # "deleted" /\ new = "initializing"
    \/ old = "initializing" /\ new = "running"
    \/ old = "running" /\ new = "completed"
    \/ /\ deleting
       /\ \/ old \notin DeletePhase \union {""} /\ new = "initializing-delete"
          \/ old \in {"initializing", "initializing-delete"} /\ new = "deleting"
          \/ old = "deleting" /\ new = "deleted"

Proceed == /\ exists
           /\ Follows(phase, phase')
           /\ UNCHANGED <<exists, deleting, ignoreDelete, finalizer, unsure>>

\* A controller that is behind may report an older phase again, but no phase
\* before the first and no delete phase of a resource that is not deleted.
Repeat == /\ exists /\ unsure
          /\ phase' \in {"initializing", "running", "completed"} \union
                       (IF deleting THEN DeletePhase ELSE {})
          /\ UNCHANGED <<exists, deleting, ignoreDelete, finalizer, unsure>>

FallBehind == /\ unsure' = TRUE
              /\ UNCHANGED <<exists, deleting, ignoreDelete, finalizer, phase>>

CatchUp == /\ unsure' = FALSE
           /\ UNCHANGED <<exists, deleting, ignoreDelete, finalizer, phase>>

Next == \/ AskDelete \/ EditSpec \/ Hold \/ Release \/ Proceed
        \/ Repeat \/ FallBehind \/ CatchUp

Spec == Init /\ [][Next]_vars
=============================================================================

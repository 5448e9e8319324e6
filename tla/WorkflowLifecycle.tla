------------------------- MODULE WorkflowLifecycle -------------------------
(***************************************************************************)
(* The workflow implements the lifecycle that its status reports.          *)
(***************************************************************************)
EXTENDS Workflow

Lifecycle == INSTANCE Lifecycle
    WITH exists       <- tf.exists,
         deleting     <- tf.deleting,
         ignoreDelete <- IgnoresDelete(tf),
         finalizer    <- tf.finalizer,
         phase        <- tf.status.phase,
         unsure       <- gaveUp

\* Every step of the reconcile loop, of the users and of the cluster is a step
\* of the lifecycle or leaves the reported status as it is.
ImplementsLifecycle == Lifecycle!Spec
=============================================================================

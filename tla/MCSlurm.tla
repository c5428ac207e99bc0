------------------------------ MODULE MCSlurm ------------------------------
(* Small instances of Slurm.                                                  *)
EXTENDS SlurmInvariant, TLC

TheOpSets ==
    {{"preempt", "pull", "progress", "crash"}, {"preempt", "errors", "crash"},
     {"preempt", "cancel", "errors"}, {"preempt", "start", "unfit", "requeue"},
     {"cancel", "start", "recover", "unfit"}}
=============================================================================

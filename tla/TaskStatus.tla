------------------------------ MODULE TaskStatus ------------------------------
(* TW_TASK_STAT_* of include/tw_task.h: the values are ordered, and every one *)
(* is a bit of a mask.                                                        *)
INVAL     == 0
IDLE      == 1
DEPHOLD   == 2
READY     == 4
QUEUE     == 8
RUNNING   == 16
FINAL     == 32
COMPLETED == 64
ABORTED   == 128
FAILED    == 256

Status == {INVAL, IDLE, DEPHOLD, READY, QUEUE, RUNNING, FINAL, COMPLETED,
           ABORTED, FAILED}

\* The statuses of a task that has been released from DEPHOLD to run.
Released == {READY, QUEUE, RUNNING, FINAL, COMPLETED, FAILED}
=============================================================================

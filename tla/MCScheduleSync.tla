----------------------------- MODULE MCScheduleSync -----------------------------
(***************************************************************************)
(* Instances of ScheduleSync for TLC: a switch whose own schedules are     *)
(* either none or one table, and one or two Odoo workers.                  *)
(***************************************************************************)
EXTENDS ScheduleSync

CONSTANTS none, evening, w1, w2, nothing

OneWorker  == {w1}
TwoWorkers == {w1, w2}

Contents == {none, evening}

AnyFault == AllFaults
NoFaults == {}

CronAndButton == {"cron", "bind", "resync"}
================================================================================

-------------------------- MODULE MCCronSchedule --------------------------
(***************************************************************************)
(* A small instance of CronSchedule for TLC: one tick is half an hour.     *)
(***************************************************************************)
EXTENDS CronSchedule

\* Every hour, and one that does not parse.
HourlyOrInvalid == {{0}, {}}

\* Every hour, on the hour or at half past.
TwoHourly == {{0}, {1}}

=============================================================================

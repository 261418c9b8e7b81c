--------------------------- MODULE MCCronTrigger ---------------------------
\* The cron trigger on a schedule, and on a parameter that is none.
EXTENDS CronTrigger

MCParams == {"each", "bad"}
MCTimes == [each |-> 1..8, bad |-> {}]
=============================================================================

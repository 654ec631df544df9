----------------------------- MODULE MCCronLock -----------------------------
(* Two instances that keep Redis and one that loses it, the last with two    *)
(* calls in progress, as a cron may fire while a call waits or tries again.  *)
EXTENDS CronLock

CONSTANTS a, b, c, a1, b1, c1, c2

HomeOf == [r \in Runs |-> IF r = a1 THEN a ELSE IF r = b1 THEN b ELSE c]
=============================================================================

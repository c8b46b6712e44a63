-------------------------- MODULE MCCronScheduler --------------------------
(* A small instance of CronScheduler.                                       *)
EXTENDS CronScheduler, TLC

At(t, off) == [kind |-> "at", val |-> t, off |-> off]
Every(n)   == [kind |-> "every", val |-> n, off |-> 0]
Slots(n)   == [kind |-> "cron", val |-> n, off |-> 0]

\* One job of each kind; the time of the first is written in a zone behind UTC.
MCSchedules == {At(2, 0-1), Every(1), Slots(2)}

IdSymmetry == Permutations(Jobs) \cup Permutations(Runs)
============================================================================

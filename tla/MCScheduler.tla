---------------------------- MODULE MCScheduler ----------------------------
(* Instances of Scheduler: init's thread and two more, either the threads of *)
(* one process or the main threads of two.                                   *)
EXTENDS Scheduler

CONSTANTS ti, ta, tb

MCThreads == {ti, ta, tb}
OneProcOf == [t \in MCThreads |-> IF t = ti THEN "init" ELSE "A"]
OneMainOf == [p \in {"init", "A"} |-> IF p = "init" THEN ti ELSE ta]
PairThreads == {ti, ta}
PairProcOf == [t \in PairThreads |-> IF t = ti THEN "init" ELSE "A"]
TwoProcOf == [t \in MCThreads |-> IF t = ti THEN "init" ELSE IF t = ta THEN "A" ELSE "B"]
TwoMainOf == [p \in {"init", "A", "B"} |-> IF p = "init" THEN ti ELSE IF p = "A" THEN ta ELSE tb]
MCSigNum == [s \in AllSigs |-> CASE s = "USR" -> 10 [] s = "SEGV" -> 11
                                 [] s = "TERM" -> 15 [] s = "CHLD" -> 17
                                 [] s = "CONT" -> 18 [] s = "STOP" -> 19]
=============================================================================

---------------------------- MODULE MCEventList ----------------------------
(* Two threads that wait on two events, or twice on one.                          *)
EXTENDS EventList

CONSTANTS e1, e2

MCWaitSets == {<<e1, e2>>, <<e2, e2>>}
=============================================================================

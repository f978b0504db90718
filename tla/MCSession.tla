----------------------------- MODULE MCSession -----------------------------
(* Two masters, a slave, and every configuration.  What failover does      *)
(* matters only to lazy connections, the number of retries only to a loop, *)
(* report_error only to GTIDs; it is off with few ways of failover.        *)
EXTENDS Session

CONSTANTS m1, m2, s1

MastersValue == <<m1, m2>>
SlavesValue == <<s1>>

SettingsValue ==
  {s \in [stickiness : {"master", "on"}, failover : {"disabled", "master", "loop"},
          retries : {0, 1}, remember : BOOLEAN, filter : {"random", "once", "roundrobin"},
          onWrite : BOOLEAN, gtid : BOOLEAN, report : BOOLEAN, lazy : BOOLEAN] :
     /\ ~s.lazy => s.failover = "disabled" /\ ~s.remember
     /\ s.failover # "loop" => s.retries = 0
     /\ ~s.report => s.gtid /\ s.failover # "loop" /\ ~s.remember}
=============================================================================

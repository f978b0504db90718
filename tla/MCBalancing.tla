----------------------------- MODULE MCBalancing -----------------------------
(* Two masters and three slaves; an earlier filter may leave some of them.  *)
EXTENDS Balancing

CONSTANTS m1, m2, s1, s2, s3

WeightValue == [s \in Servers |-> CASE s = m1 -> 1 [] s = m2 -> 0 [] s = s1 -> 2
                                    [] s = s2 -> 1 [] s = s3 -> 0]

All == [master |-> <<m1, m2>>, slave |-> <<s1, s2, s3>>]

Partition == [master |-> <<m2>>, slave |-> <<s3, s1>>]

NoMaster == [master |-> <<>>, slave |-> <<s1, s2, s3>>]

NoSlave == [master |-> <<m1, m2>>, slave |-> <<>>]

SettingsValue ==
  {s \in [filter : {"roundrobin", "random"}, weighted : BOOLEAN, sticky : BOOLEAN,
          strategy : {"disabled", "master", "loop_before_master"}, maxRetries : {0, 1},
          remember : BOOLEAN, lists : {{All}, {All, Partition}, {NoMaster, NoSlave}}] :
     /\ s.sticky => s.filter = "random"
     /\ s.maxRetries = 1 => s.strategy = "loop_before_master"}
=============================================================================

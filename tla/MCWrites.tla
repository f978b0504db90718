------------------------------ MODULE MCWrites ------------------------------
(* Three configurations: two clients that may fail or die, three that       *)
(* announce themselves before the next one takes a token, with old tokens   *)
(* that are deleted, and tokens modulo three.                               *)
EXTENDS WriteConsistency

CONSTANTS c1, c2, c3

TwoClients ==
  [clients |-> {c1, c2}, depth |-> 2, module |-> 0, useGet |-> FALSE, autoClean |-> FALSE,
   orderly |-> {"depth"}, faults |-> {"failed", "crash"}, maxWrites |-> 4]

ThreeInTurn ==
  [clients |-> {c1, c2, c3}, depth |-> 1, module |-> 0, useGet |-> TRUE, autoClean |-> TRUE,
   orderly |-> {"depth", "announced"}, faults |-> {}, maxWrites |-> 5]

TokensWrap ==
  [clients |-> {c1, c2}, depth |-> 1, module |-> 3, useGet |-> FALSE, autoClean |-> FALSE,
   orderly |-> {"depth"}, faults |-> {"unreachable", "lost_answer", "failed"}, maxWrites |-> 1]

SettingsValue == {TwoClients, ThreeInTurn, TokensWrap}

ThreeWriters ==
  {[clients |-> {c1, c2, c3}, depth |-> 2, module |-> 0, useGet |-> FALSE, autoClean |-> TRUE,
    orderly |-> {"depth"}, faults |-> {}, maxWrites |-> 3]}
=============================================================================

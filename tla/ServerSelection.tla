-------------------------- MODULE ServerSelection --------------------------
(***************************************************************************)
(* What the filters of mysqlnd_ms make of a statement: each takes the      *)
(* masters and slaves the filter before it has left over and answers with  *)
(* fewer.  The filters that end the chain and the walk along it are in     *)
(* Statements.  The lists of the code are sets here: where their order     *)
(* decides, in the round robin of the last filter, Balancing looks at it.  *)
(*                                                                         *)
(* A statement is what the tokenizer and the parser tell of it: is it a    *)
(* SELECT, which hints are in its comments, which of them names a group,   *)
(* and its tables up to the first that has no database.  The key words a   *)
(* user can set with mysqlnd_ms.master_on and inject_on are left out.      *)
(***************************************************************************)
EXTENDS Integers, FiniteSets, Sequences, SequencesExt

CONSTANTS Master, Slave  \* the active lists of the pool

Server == Master \union Slave

AllServers == [masters |-> Master, slaves |-> Slave]
NoServers == [masters |-> {}, slaves |-> {}]

-----------------------------------------------------------------------------
(* mysqlnd_ms_query_is_select.  Of several hints the first in this order   *)
(* counts.                                                                 *)

FirstOf(order, hints, default) ==
  LET given == {i \in DOMAIN order : order[i] \in hints}
  IN  IF given = {} THEN default ELSE order[Min(given)]

\* Without read-write splitting the hint to use a slave is not one.
NodeHints(stmt, split) ==
  stmt.hints \intersect ({"master", "last_used"} \union (IF split THEN {"slave"} ELSE {}))

Guess(stmt, split) == IF split /\ stmt.kind = "select" THEN "slave" ELSE "master"

Which(stmt, split) ==
  FirstOf(<<"slave", "master", "last_used">>, NodeHints(stmt, split), Guess(stmt, split))

\* May the statement be one that writes?
Injectable(stmt, split) == Guess(stmt, split) = "master" \/ "master" \in stmt.hints

Consistency(stmt, current) == FirstOf(<<"strong", "session", "eventual">>, stmt.hints, current)

-----------------------------------------------------------------------------
(* mysqlnd_ms_choose_connection_groups                                     *)

InGroup(groups, stmt, in) ==
  IF stmt.group \notin DOMAIN groups THEN in
  ELSE [masters |-> in.masters \intersect groups[stmt.group].masters,
        slaves |-> in.slaves \intersect groups[stmt.group].slaves]

-----------------------------------------------------------------------------
(* mysqlnd_ms_choose_connection_table_filter.  Masters and slaves have     *)
(* rules of their own: the first whose mask matches the table decides.  A  *)
(* rule finds its servers by a prefix of their names; here no name is a    *)
(* prefix of another.                                                      *)

Listed(rules, role, table) ==
  LET matching == {i \in DOMAIN rules : table \in rules[i].mask /\ rules[i][role] # {}}
  IN  IF matching = {} THEN {} ELSE rules[Min(matching)][role]

\* Mutant: a server that one of the tables is assigned to is enough.
ForSomeTable(rules, stmt, role, in) ==
  {c \in in : \E table \in stmt.tables : c \in Listed(rules, role, table)}

\* Every table narrows what the tables before it have left.
ForEveryTable(rules, stmt, role, in) ==
  {c \in in : \A table \in stmt.tables : c \in Listed(rules, role, table)}

\* Of a statement without tables, or one that cannot be parsed, nothing is
\* known: no server is selected.
ForTables(rules, stmt, in) ==
  IF stmt.tables = {} THEN NoServers
  ELSE [masters |-> ForEveryTable(rules, stmt, "masters", in.masters),
        slaves |-> IF stmt.kind = "select"
                   THEN ForEveryTable(rules, stmt, "slaves", in.slaves) ELSE {}]

-----------------------------------------------------------------------------
(* mysqlnd_ms_user_pick_multiple_server: the callback answers with two     *)
(* arrays of positions.  A position that does not exist ends its array, a  *)
(* smaller one after a larger one yields the server of the larger one: the *)
(* servers that come out are some of those that went in, one of them       *)
(* perhaps several times.                                                  *)

UserMulti(answer, in) ==
  [masters |-> in.masters \intersect answer.masters,
   slaves |-> in.slaves \intersect answer.slaves]

-----------------------------------------------------------------------------
(* mysqlnd_ms_aux_gtid_filter.  caught: the servers that are known, or now *)
(* turn out, to have the GTID; up: those that answer a query.              *)

NoGtid == 0

\* mysqlnd_ms_aux_gtid_choose_connection
WithGtid(list, gtid, caught, up, race) ==
  IF gtid # NoGtid THEN list \intersect caught
  ELSE IF Cardinality(list) > 1 /\ "only_active" \in race THEN list \intersect up
  ELSE list

GtidFilter(in, gtid, caught, up, race, isWrite) ==
  [masters |-> IF Cardinality(in.masters) > 1
               THEN WithGtid(in.masters, gtid, caught, up, race) ELSE in.masters,
   slaves |-> IF isWrite THEN {} ELSE WithGtid(in.slaves, gtid, caught, up, race)]

\* mysqlnd_ms_aux_gtid_add_active, when nothing has been selected.
RaceAvoided(out, in, which, up, race) ==
  IF out # NoServers \/ "add_active" \notin race THEN out
  ELSE [masters |-> in.masters \intersect up,
        slaves |-> IF which = "slave" THEN in.slaves \intersect up ELSE {}]
=============================================================================

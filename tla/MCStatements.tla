--------------------------- MODULE MCStatements ---------------------------
(* A master and two slaves.  The configurations are chosen so that every   *)
(* filter stands in a chain in which it has something to decide.           *)
EXTENDS Statements

CONSTANTS m1, s1, s2

MasterValue == {m1}
SlaveValue == {s1, s2}

Read(hints) == [kind |-> "select", hints |-> hints, group |-> "", tables |-> {"t"}]

Write == [Read({}) EXCEPT !.kind = "write"]

Basic == {Read({}), Write}
Hints == {Read({"master"}), Read({"last_used"}), Read({"session", "slave"})}
TwoTables == [Read({}) EXCEPT !.tables = {"u", "t"}]
NoTable == [Read({}) EXCEPT !.tables = {}]
OfGroup == [Read({}) EXCEPT !.group = "g"]
Both == [TwoTables EXCEPT !.group = "g"]

TextsValue == Basic \union Hints \union {Read({"eventual"}), TwoTables, NoTable, OfGroup, Both}

AnswersValue == [masters : SUBSET MasterValue, slaves : {{}, {s2}, SlaveValue}, once : BOOLEAN]

Levels == {"strong", "session", "eventual"}

Plain == [filters |-> <<"qos", "balance">>, qos |-> "session", groups |-> <<>>, rules |-> <<>>,
          stickiness |-> "on", failover |-> FALSE, split |-> TRUE, onWrite |-> FALSE,
          gtid |-> TRUE, report |-> TRUE, race |-> {}, retries |-> 1,
          texts |-> Basic, prepared |-> {}, levels |-> {"session"}, maxLog |-> 4]

Grouped == [Plain EXCEPT !.filters = <<"groups", "balance">>, !.gtid = FALSE, !.retries = 0,
                         !.texts = @ \union {OfGroup, Read({"last_used"})},
                         !.prepared = {OfGroup}, !.levels = Levels,
                         !.groups = [g \in {"g"} |-> [masters |-> {m1}, slaves |-> {s1}]]]

\* Mask "*" stands for both tables.
Tabled == [Plain EXCEPT !.filters = <<"table", "balance">>, !.gtid = FALSE, !.retries = 0,
             !.texts = @ \union {TwoTables, NoTable, Read({"master"})},
             !.prepared = {TwoTables}, !.levels = Levels,
             !.rules = <<[mask |-> {"u"}, masters |-> {}, slaves |-> {s2}],
                         [mask |-> {"t", "u"}, masters |-> {m1}, slaves |-> {s1, s2}]>>]

Direct == [Plain EXCEPT !.gtid = FALSE, !.retries = 0]

Prepared == [Plain EXCEPT !.prepared = Basic, !.maxLog = 3]

\* Groups and tables together with GTIDs.
Narrow == [Plain EXCEPT !.filters = <<"groups", "qos", "balance">>, !.groups = Grouped.groups,
                        !.rules = Tabled.rules, !.texts = {OfGroup, Write, Read({"last_used"})},
                        !.prepared = {OfGroup, Write}, !.retries = 0, !.maxLog = 2]

SettingsValue ==
  {[Plain EXCEPT !.texts = @ \union Hints],
   [Plain EXCEPT !.levels = Levels, !.maxLog = 2],
   [Plain EXCEPT !.onWrite = TRUE, !.texts = @ \union {Read({"eventual"})}, !.maxLog = 3],
   [Plain EXCEPT !.report = FALSE], [Plain EXCEPT !.race = {"add_active", "only_active"}, !.maxLog = 3],
   Prepared, [Prepared EXCEPT !.stickiness = "master", !.maxLog = 2],
   Grouped, [Grouped EXCEPT !.failover = TRUE, !.groups = [g \in {"g"} |-> [masters |-> {}, slaves |-> {s1}]]],
   Tabled, [Tabled EXCEPT !.failover = TRUE], [Tabled EXCEPT !.split = FALSE],
   [Tabled EXCEPT !.filters = <<"groups", "table", "balance">>, !.groups = Grouped.groups,
                  !.texts = {OfGroup, Both, Write}],
   Narrow, [Narrow EXCEPT !.filters = <<"qos", "table", "balance">>, !.failover = TRUE],
   [Direct EXCEPT !.filters = <<"user">>, !.prepared = Basic], [Direct EXCEPT !.filters = <<"user_multi", "balance">>]}

============================================================================

----------------------------- MODULE Statements -----------------------------
(***************************************************************************)
(* The life of a statement on a handle of mysqlnd_ms: the chain of filters *)
(* picks a server, the statement is sent and, after a transient error,     *)
(* sent again, and with the plugin's own global transaction IDs (GTIDs) a  *)
(* write on the master is counted in a table there.  The count is what     *)
(* session consistency asks the slaves for: a slave that has replicated it *)
(* has replicated the write before it.                                     *)
(*                                                                         *)
(* Session looks at the last filter, at failing connections and failing    *)
(* BEGINs; here all connections are open, and the other filters,           *)
(* consistency, prepared statements and retries are looked at.  There is   *)
(* one master; with several the counts need the memcached protocol that    *)
(* WriteConsistency models.                                                *)
(***************************************************************************)
EXTENDS ServerSelection

CONSTANTS
  Proxy,       \* the connection that is the application's handle
  None,        \* no connection
  Settings,    \* the configurations and applications to look at
  Group,       \* the names of groups
  Texts,       \* the statements of the application
  Answers,     \* what a callback for user_multi may answer
  Faults,      \* what may go wrong: a subset of {"error", "transient", "inject"}
  Discipline   \* what is assumed; what each of these means stands where it
               \* is used

Hint == {"master", "slave", "last_used", "strong", "session", "eventual"}

Filter == {"user", "user_multi", "groups", "table", "qos", "balance"}

\* Every filter is configured once, and only the last one picks the server (those
\* behind one that picks are never asked).
Chain == {f \in Seq(Filter) :
            /\ f # <<>>
            /\ \A i \in DOMAIN f : f[i] \in {"user", "balance"} <=> i = Len(f)
            /\ \A i, j \in DOMAIN f : f[i] = f[j] => i = j}

Setting == [filters : Chain,
            qos : {"strong", "session", "eventual"}, \* of the configured filter
            groups : UNION {[G -> [masters : SUBSET Master, slaves : SUBSET Slave]] :
                              G \in SUBSET Group},
            rules : Seq([mask : SUBSET STRING, masters : SUBSET Master, slaves : SUBSET Slave]),
            stickiness : {"master", "on"}, failover : BOOLEAN,
            split : BOOLEAN,           \* not disable_rw_split
            onWrite : BOOLEAN,         \* master_on_write
            gtid : BOOLEAN,            \* are GTIDs injected?
            report : BOOLEAN,          \* report_error
            race : SUBSET {"add_active", "only_active"},
            retries : Nat,             \* transient_error max_retries
            \* The application: what it sends, what it prepares, what it asks for
            \* with mysqlnd_ms_set_qos; and a bound: how much is written.
            texts : SUBSET Texts, prepared : SUBSET Texts,
            levels : SUBSET {"strong", "session", "eventual"}, maxLog : Nat]

ASSUME ConstantsAssumption ==
  /\ Settings \subseteq Setting
  /\ Texts \subseteq [kind : {"select", "write"}, hints : SUBSET Hint, group : Group \union {""},
                      tables : SUBSET STRING]
  /\ Answers \subseteq [masters : SUBSET Master, slaves : SUBSET Slave, once : BOOLEAN]
  /\ Master = {Proxy} /\ Proxy \notin Slave /\ None \notin Server
  /\ Faults \subseteq {"error", "transient", "inject"}
  /\ Discipline \subseteq {"keep", "prepare", "prepared_write", "last_used", "rollback", "flat"}

VARIABLES
  conf,     \* the configuration of the handle
  stgy,     \* the handle's mysqlnd_ms_lb_strategies and global_trx
  qos,      \* the data of its quality_of_service filter
  log,      \* what the master has committed: own writes and counts
  applied,  \* how much of it each slave has replicated
  open,     \* the servers that have a transaction open
  pc, call, \* where a call is, and what it has found so far
  walk,     \* how far along the chain of filters it is, and what they have left
  prep,     \* the prepared statement
  app       \* what the application has been told

vars == <<conf, stgy, qos, log, applied, open, pc, call, walk, prep, app>>

Strategies == [filters : Chain, in_transaction : BOOLEAN, trx_stop_switching : BOOLEAN,
               trx_read_only : BOOLEAN, trx_begin_required : BOOLEAN,
               last_used_conn : Server \union {None}, master_used : BOOLEAN,
               injectable_query : BOOLEAN]

Freed == -1  \* memory that has been given back: any GTID may stand there

QosData == [consistency : {"strong", "session", "eventual"}, aged : BOOLEAN,
            gtid : {Freed} \union 0 .. conf.maxLog]

NoText == [kind |-> "none", hints |-> {}, group |-> "", tables |-> {}]
NoCall == [mode |-> "none", stmt |-> NoText, conn |-> None, old |-> None, ro |-> FALSE,
           tries |-> 0, transient |-> FALSE, good |-> FALSE, ran |-> 0, pinned |-> FALSE]
NoWalk == [at |-> 0, in |-> NoServers, allow |-> FALSE]
NothingPrepared == [conn |-> None, stmt |-> NoText]

Calling == [mode : {"none", "query", "prepare", "execute", "commit", "rollback", "begin"},
            stmt : Texts \union {NoText}, conn : Server \union {None},
            old : Server \union {None}, ro : BOOLEAN, tries : Nat, transient : BOOLEAN,
            good : BOOLEAN, ran : Nat, pinned : BOOLEAN]

TypeOK ==
  /\ conf \in Settings
  /\ stgy \in Strategies
  /\ qos \in QosData
  /\ log \in Seq({"own", "count"}) /\ Len(log) <= conf.maxLog
  /\ applied \in [Slave -> 0 .. Len(log)]
  /\ open \in [Server -> {"none", "rw", "ro", "wrote"}]
  /\ pc \in {"user", "pick", "switch", "send", "inject", "fetch", "return"}
  /\ call \in Calling /\ call.tries <= conf.retries + 1
  /\ walk \in [at : 0 .. Len(stgy.filters), allow : BOOLEAN,
              in : [masters : SUBSET Master, slaves : SUBSET Slave]]
  /\ prep \in [conn : Server \union {None}, stmt : Texts \union {NoText}]
  /\ app \in [mine : 0 .. Len(log), failed : BOOLEAN]

Init ==
  /\ conf \in Settings
  /\ stgy = [filters |-> conf.filters, in_transaction |-> FALSE, trx_stop_switching |-> FALSE,
             trx_read_only |-> FALSE, trx_begin_required |-> FALSE, last_used_conn |-> None,
             master_used |-> FALSE, injectable_query |-> FALSE]
  /\ qos = [consistency |-> conf.qos, aged |-> FALSE, gtid |-> NoGtid]
  /\ log = <<>> /\ applied = [c \in Slave |-> 0]
  /\ open = [c \in Server |-> "none"]
  /\ pc = "user" /\ call = NoCall /\ walk = NoWalk
  /\ prep = NothingPrepared
  /\ app = [mine |-> 0, failed |-> FALSE]

-----------------------------------------------------------------------------
(* The servers.                                                            *)

\* Without GTIDs nothing is asked of the log, and it is not kept.
Logged(entry) == IF conf.gtid THEN Append(log, entry) ELSE log

Counts(n) == Cardinality({i \in 1 .. n : log[i] = "count"})

Has(c, gtid) == gtid = Freed \/ c \in Master \/ Counts(applied[c]) >= gtid

\* Room for what a call writes, a write and a count.
Room == Len(log) + 2 <= conf.maxLog

Replicate(c) ==
  /\ applied[c] < Len(log)
  /\ applied' = [applied EXCEPT ![c] = @ + 1]
  /\ UNCHANGED <<conf, stgy, qos, log, open, pc, call, walk, prep, app>>

\* Another client has written something.
OtherCounts ==
  /\ Room /\ conf.gtid
  /\ log' = Append(log, "count")
  /\ UNCHANGED <<conf, stgy, qos, applied, open, pc, call, walk, prep, app>>

-----------------------------------------------------------------------------
(* The application's calls.                                                *)

(* rollback: after a begin or a commit that has failed the application     *)
(* rolls back.                                                             *)
Calls(mode) ==
  /\ pc = "user"
  /\ "rollback" \in Discipline /\ app.failed => mode = "rollback"

Start(mode, stmt, old) ==
  /\ pc' = "pick"
  /\ call' = [NoCall EXCEPT !.mode = mode, !.stmt = stmt, !.old = old]
  /\ walk' = [at |-> 1, in |-> AllServers, allow |-> FALSE]
  /\ UNCHANGED <<conf, stgy, qos, log, applied, open, prep, app>>

OpensReadOnly == stgy.in_transaction /\ ~stgy.trx_stop_switching /\ stgy.trx_read_only

(* last_used: the hint is not given on the first statement of a            *)
(* transaction.                                                            *)
HintGiven(stmt) ==
  "last_used" \in Discipline /\ "last_used" \in stmt.hints /\ stgy.in_transaction =>
    stgy.trx_stop_switching

Query(stmt) ==
  /\ Calls("query") /\ Room
  /\ HintGiven(stmt)
  /\ Start("query", stmt, None)

(* prepare: a read only transaction does not begin with a prepare.         *)
(* prepared_write: a write is neither prepared in one nor, prepared        *)
(* before, executed.                                                       *)
WriteAllowed(stmt) ==
  "prepared_write" \in Discipline /\ stmt.kind = "write" =>
    ~(stgy.in_transaction /\ stgy.trx_read_only)

Prepare(stmt) ==
  /\ Calls("prepare")
  /\ "prepare" \in Discipline => ~OpensReadOnly
  /\ WriteAllowed(stmt)
  /\ Start("prepare", stmt, None)

Execute ==
  /\ Calls("execute") /\ Room
  /\ prep.conn # None
  /\ HintGiven(prep.stmt) /\ WriteAllowed(prep.stmt)
  /\ Start("execute", prep.stmt, prep.conn)

-----------------------------------------------------------------------------
(* mysqlnd_ms_choose_connection_qos                                        *)

IsTransaction(s) == s.in_transaction /\ (conf.stickiness = "master" \/ ~s.trx_read_only)

Hinted(stmt) == NodeHints(stmt, conf.split) # {}

\* master_on_write: after a write the master is used for reading, too.
AfterWrite(s, stmt, which) ==
  IF conf.onWrite /\ which = "slave" /\ s.master_used /\ ~Hinted(stmt) THEN "master" ELSE which

StuckToMaster(s, stmt) == conf.stickiness = "master" /\ s.in_transaction /\ ~Hinted(stmt)

\* mysqlnd_ms_qos_which_server
QosWhich(s, stmt) ==
  IF StuckToMaster(s, stmt) THEN "master" ELSE AfterWrite(s, stmt, Which(stmt, conf.split))

QosUsesMaster(s, stmt) ==
  conf.onWrite /\ ~StuckToMaster(s, stmt) /\ Which(stmt, conf.split) = "master"

\* When a statement is only prepared the GTID does not matter yet.
AsksForGtid(s, mode) == conf.gtid /\ (mode # "prepare" \/ IsTransaction(s))

(* caught, up: as in GtidFilter; fresh: the slaves whose lag is below the  *)
(* limit.  (The lag is read from a string as if it were a number: it can   *)
(* be anything.)                                                           *)
QosSelects(q, stmt, mode, in, caught, up, fresh) ==
  LET which == QosWhich(stgy, stmt)
      asks == AsksForGtid(stgy, mode) /\ which # "last_used"
  IN  CASE q.consistency = "session" /\ asks ->
             RaceAvoided(GtidFilter(in, q.gtid, caught, up, conf.race,
                                    which = "master" \/ IsTransaction(stgy)),
                         in, which, up, conf.race)
        [] q.consistency = "session" /\ ~asks /\ which # "master" -> in
        [] q.consistency = "eventual" /\ q.aged /\ which # "master" ->
             [in EXCEPT !.slaves = @ \intersect fresh]
        [] q.consistency = "eventual" /\ ~(q.aged /\ which # "master") -> in
        [] OTHER -> [in EXCEPT !.slaves = {}]

\* The flags of the handle that the filter sets.
QosFlags(q, stmt, mode) ==
  LET asks == q.consistency = "session" \/ (q.consistency = "eventual" /\ q.aged)
  IN  [stgy EXCEPT
         !.master_used = @ \/ (asks /\ QosUsesMaster(stgy, stmt)),
         !.injectable_query =
            IF q.consistency = "session" /\ AsksForGtid(stgy, mode)
            THEN Injectable(stmt, conf.split) \/ IsTransaction(stgy) ELSE @]

-----------------------------------------------------------------------------
(* mysqlnd_ms_pick_server_ex: the walk along the chain, one filter after   *)
(* the other.                                                              *)

At(filter) == pc = "pick" /\ stgy.filters[walk.at] = filter

GoesOn(out, allow) ==
  /\ walk' = [at |-> walk.at + 1, in |-> out, allow |-> allow]
  /\ UNCHANGED <<open, pc, call>>

\* The random and the round robin filter send the delayed BEGIN.
BeginDelayed(s, c, balanced) ==
  balanced /\ c # None /\ s.in_transaction /\ s.trx_begin_required

PickedUnpinned(s, c, balanced) ==  \* Mutant: the transaction's server is not remembered.
  [s EXCEPT !.last_used_conn = IF c = None THEN Proxy ELSE c,
            !.trx_begin_required = @ /\ ~BeginDelayed(s, c, balanced)]

Picked(s, c, balanced) ==
  [s EXCEPT !.last_used_conn = IF c = None THEN Proxy ELSE c,
            !.trx_stop_switching = @ \/ (balanced /\ s.in_transaction),
            !.trx_begin_required = @ /\ ~BeginDelayed(s, c, balanced)]

EndsWith(s, c, balanced) ==
  /\ stgy' = Picked(s, c, balanced)
  /\ open' = IF BeginDelayed(s, c, balanced)
             THEN [open EXCEPT ![c] = IF s.trx_read_only THEN "ro" ELSE "rw"]
             ELSE open
  /\ call' = [call EXCEPT !.conn = c, !.pinned = s.trx_stop_switching]
  /\ pc' = IF c = None THEN "return"
           ELSE IF call.mode = "execute" /\ c # call.old THEN "switch" ELSE "send"
  /\ walk' = NoWalk

\* `Filtered everything out.'
Narrowed(s, out, allow) ==
  \/ out # NoServers /\ GoesOn(out, allow) /\ stgy' = s
  \/ out = NoServers /\ EndsWith(s, IF conf.failover THEN Proxy ELSE None, FALSE)

\* Once a transaction has its server the qos and the table filter are passed
\* over; the groups filter selects nothing and ends the walk.
PassOver ==
  /\ At("qos") \/ At("table")
  /\ stgy.trx_stop_switching
  /\ GoesOn(walk.in, walk.allow)
  /\ UNCHANGED <<conf, stgy, qos, log, applied, prep, app>>

Caught == SUBSET {c \in Slave : Has(c, qos.gtid)}
Up == IF conf.race = {} THEN {Server} ELSE SUBSET Server
Fresh == IF qos.aged THEN SUBSET Slave ELSE {Slave}

\* A hint changes the filter's consistency for good.
ChooseQos ==
  /\ At("qos") /\ ~stgy.trx_stop_switching
  /\ qos' = [qos EXCEPT !.consistency = Consistency(call.stmt, @)]
  /\ \E caught \in Caught, up \in Up, fresh \in Fresh :
       Narrowed(QosFlags(qos', call.stmt, call.mode),
                QosSelects(qos', call.stmt, call.mode, walk.in, caught, up, fresh), TRUE)
  /\ UNCHANGED <<conf, log, applied, prep, app>>

ChooseTable ==
  /\ At("table") /\ ~stgy.trx_stop_switching
  /\ Narrowed(stgy, ForTables(conf.rules, call.stmt, walk.in), walk.allow)
  /\ UNCHANGED <<conf, qos, log, applied, prep, app>>

ChooseGroups ==
  /\ At("groups")
  /\ IF stgy.trx_stop_switching THEN EndsWith(stgy, None, FALSE)
     ELSE Narrowed(stgy, InGroup(conf.groups, call.stmt, walk.in), walk.allow)
  /\ UNCHANGED <<conf, qos, log, applied, prep, app>>

\* A single server left by the callback is used at once.
PickMultiple ==
  /\ At("user_multi")
  /\ \E answer \in Answers :
       LET out == UserMulti(answer, walk.in)
           left == out.masters \union out.slaves
       IN  IF answer.once /\ Cardinality(left) = 1
           THEN \E c \in left : EndsWith(stgy, c, FALSE)
           ELSE Narrowed(stgy, out, walk.allow)
  /\ UNCHANGED <<conf, qos, log, applied, prep, app>>

\* The callback answers with one of the servers it has been given, or not.
PickUser ==
  /\ At("user")
  /\ \E c \in walk.in.masters \union walk.in.slaves \union {None} : EndsWith(stgy, c, FALSE)
  /\ UNCHANGED <<conf, qos, log, applied, prep, app>>

\* What a transaction makes of the choice.
Pinned(which) ==
  IF ~stgy.in_transaction THEN which
  ELSE IF stgy.trx_stop_switching THEN "last_used"
  ELSE IF conf.stickiness = "on" /\ stgy.trx_read_only /\ walk.in.slaves # {} THEN "slave"
  ELSE "master"

FirstChoice(stmt) ==
  IF walk.allow /\ walk.in.slaves = {} /\ Which(stmt, conf.split) = "slave"
  THEN "master" ELSE Which(stmt, conf.split)

OrNone(servers) == IF servers = {} THEN {None} ELSE servers

BalanceAmong(which) ==
  CASE which = "last_used" -> {stgy.last_used_conn}
    [] which = "slave" /\ walk.in.slaves # {} -> walk.in.slaves
    [] which = "slave" /\ walk.in.slaves = {} /\ ~walk.allow /\ ~conf.failover -> {None}
    [] OTHER -> OrNone(walk.in.masters)

\* The random and the round robin filter.
PickBalanced ==
  /\ At("balance")
  /\ LET pinned == Pinned(FirstChoice(call.stmt))
     IN  \E c \in BalanceAmong(AfterWrite(stgy, call.stmt, pinned)) :
           EndsWith([stgy EXCEPT !.master_used = @ \/ (conf.onWrite /\ pinned = "master")],
                    c, TRUE)
  /\ UNCHANGED <<conf, qos, log, applied, prep, app>>

Filtering ==
  \/ PassOver \/ ChooseQos \/ ChooseTable \/ ChooseGroups
  \/ PickMultiple \/ PickUser \/ PickBalanced

-----------------------------------------------------------------------------
(* mysqlnd_ms::query, mysqlnd_ms_stmt::prepare and ::execute: the statement*)
(* is sent to the server that has been picked.                             *)

\* A statement prepared on another connection is prepared again.
Switch ==
  /\ pc = "switch"
  /\ \/ prep' = [prep EXCEPT !.conn = call.conn] /\ pc' = "send"
     \/ "error" \in Faults /\ pc' = "return" /\ UNCHANGED prep
  /\ UNCHANGED <<conf, stgy, qos, log, applied, open, call, walk, app>>

Writes == call.mode # "prepare" /\ call.stmt.kind = "write"

Outcomes == IF Writes /\ open[call.conn] = "ro" THEN {"error"}
            ELSE {"ok"} \union (Faults \intersect {"error", "transient"})

\* The list of transient errors is there on the handle's own connection only;
\* query looks at the picked connection, execute at the one prepared on.
MayRetry == conf.retries > 0 /\
  \/ call.mode = "query" /\ call.conn = Proxy
  \/ call.mode = "prepare"
  \/ call.mode = "execute" /\ call.old = Proxy

\* In query, transient_error_no is not set back by a success.
Transient(o) == \/ o = "transient" /\ MayRetry
                \/ o = "ok" /\ call.mode = "query" /\ call.transient

TriesLeftOneMore == call.tries <= conf.retries  \* Mutant: one retry too many.

TriesLeft == call.tries < conf.retries

\* The GTID is counted for a write on the master outside of transactions;
\* execute looks at the connection the statement was prepared on.
Injects ==
  /\ conf.gtid /\ stgy.injectable_query
  /\ \/ call.mode = "query" /\ call.conn \in Master /\ ~stgy.in_transaction
     \/ call.mode = "execute" /\ call.old \in Master
        /\ (call.old = Proxy => ~stgy.in_transaction)

ExecutedOnServer(c) ==
  IF ~Writes \/ c \notin Master THEN UNCHANGED <<log, open>>
  ELSE IF open[c] = "none" THEN log' = Logged("own") /\ UNCHANGED open
  ELSE open' = [open EXCEPT ![c] = "wrote"] /\ UNCHANGED log

Send ==
  /\ pc = "send"
  /\ \E o \in Outcomes :
       /\ IF o = "ok" THEN ExecutedOnServer(call.conn) ELSE UNCHANGED <<log, open>>
       /\ call' = [call EXCEPT
             !.transient = Transient(o), !.good = o = "ok",
             !.tries = IF Transient(o) THEN @ + 1 ELSE @,
             !.ran = IF o = "ok" /\ call.mode # "prepare" THEN @ + 1 ELSE @]
       /\ prep' = IF o = "ok" /\ call.mode = "prepare"
                  THEN [conn |-> call.conn, stmt |-> call.stmt] ELSE prep
       /\ pc' = IF Transient(o) /\ TriesLeft THEN "send"
                ELSE IF o = "ok" /\ Injects THEN "inject" ELSE "return"
  /\ Len(log') <= conf.maxLog
  /\ UNCHANGED <<conf, stgy, qos, applied, walk, app>>

-----------------------------------------------------------------------------
(* mysqlnd_ms_cs_gtid_inject_after: count the write, then ask for the      *)
(* count.                                                                  *)

\* report_error turns a failure into one of the statement, executed or not.
Uncounted == /\ pc' = "return"
             /\ call' = [call EXCEPT !.good = @ /\ ~conf.report]

Inject ==
  /\ pc = "inject"
  /\ \/ /\ call.conn \in Master /\ Len(log) < conf.maxLog
        /\ log' = Append(log, "count")
        /\ pc' = "fetch" /\ UNCHANGED call
     \/ /\ "inject" \in Faults \/ call.conn \notin Master
        /\ Uncounted /\ UNCHANGED log
  /\ UNCHANGED <<conf, stgy, qos, applied, open, walk, prep, app>>

HasSession == "qos" \in ToSet(stgy.filters) /\ qos.consistency = "session"

LastGtidButOne == Max({Counts(Len(log)) - 1, 0})  \* Mutant: the counter's value before.

LastGtid == Counts(Len(log))

\* mysqlnd_ms_section_filters_set_gtid_qos works for session consistency only.
Fetch ==
  /\ pc = "fetch"
  /\ \/ /\ HasSession
        /\ qos' = [qos EXCEPT !.gtid = LastGtid]
        /\ pc' = "return" /\ UNCHANGED call
     \/ /\ "inject" \in Faults \/ ~HasSession
        /\ Uncounted /\ UNCHANGED qos
  /\ UNCHANGED <<conf, stgy, log, applied, open, walk, prep, app>>

-----------------------------------------------------------------------------
(* Transactions: mysqlnd_ms_tx_commit_or_rollback, mysqlnd_ms::tx_begin.   *)
(* That COMMIT itself may fail is looked at in Session.                    *)

Target == IF stgy.last_used_conn = None THEN Proxy ELSE stgy.last_used_conn

End(mode, ro) ==
  /\ log' = IF mode # "rollback" /\ open[Target] = "wrote" THEN Logged("own") ELSE log
  /\ open' = [open EXCEPT ![Target] = "none"]
  /\ call' = [NoCall EXCEPT !.mode = mode, !.conn = Target, !.ro = ro, !.good = TRUE]
  /\ pc' = IF conf.gtid /\ mode # "rollback" /\ stgy.in_transaction /\ Target \in Master
           THEN "inject" ELSE "return"
  /\ UNCHANGED <<conf, stgy, qos, applied, walk, prep, app>>

CommitOrRollback(mode) ==
  /\ Calls(mode)
  /\ mode = "commit" => Room
  /\ End(mode, FALSE)

Ended(s) ==
  [s EXCEPT !.in_transaction = FALSE, !.trx_stop_switching = FALSE, !.trx_read_only = FALSE]

Begun(s, ro) ==
  [s EXCEPT !.in_transaction = TRUE, !.trx_stop_switching = FALSE,
            !.trx_begin_required = TRUE, !.trx_read_only = ro]

(* flat: no begin in a transaction unless GTIDs make the plugin commit.    *)
TxBegin(ro) ==
  /\ Calls("begin")
  /\ \/ /\ ~(conf.gtid /\ stgy.in_transaction)
        /\ "flat" \in Discipline => ~stgy.in_transaction
        /\ stgy' = Begun(stgy, ro)
        /\ UNCHANGED <<conf, qos, log, applied, open, pc, call, walk, prep, app>>
     \/ /\ conf.gtid /\ stgy.in_transaction /\ Room
        /\ End("begin", ro)

-----------------------------------------------------------------------------
(* The call returns.  app.mine: the end of what the application has        *)
(* written under session consistency and been told to be written.          *)

LastOwn == Max({0} \union {i \in 1 .. Len(log) : log[i] = "own"})

Promised ==
  /\ call.good /\ conf.gtid /\ HasSession /\ call.conn \in Master
  /\ \/ Writes /\ ~stgy.in_transaction
     \/ call.mode \in {"commit", "begin"} /\ stgy.in_transaction

Return ==
  /\ pc = "return"
  /\ pc' = "user" /\ call' = NoCall
  /\ stgy' = CASE call.mode = "begin" /\ (call.good \/ ~conf.report) -> Begun(stgy, call.ro)
               [] call.mode \in {"commit", "rollback"} /\ call.good -> Ended(stgy)
               [] OTHER -> stgy
  /\ app' = [mine |-> IF Promised THEN LastOwn ELSE app.mine,
             failed |-> (app.failed /\ call.mode # "rollback")
                          \/ (call.mode \in {"commit", "begin"} /\ ~call.good)]
  /\ UNCHANGED <<conf, qos, log, applied, open, walk, prep>>

-----------------------------------------------------------------------------
(* mysqlnd_ms_set_qos.  The new filter comes first and replaces the old    *)
(* one.  It takes over the old one's pointer to the GTID, which is then    *)
(* freed with the old one.                                                 *)

EntryOf(gtid) == CHOOSE i \in 1 .. Len(log) : log[i] = "count" /\ Counts(i) = gtid

(* keep: once a GTID is known, set_qos is only called with one.            *)
SetQos(level, option) ==
  /\ Calls("set_qos")
  /\ ~(stgy.in_transaction /\ stgy.trx_stop_switching)
  /\ option = "age" => level = "eventual"
  /\ option = "gtid" => level = "session"
  /\ "keep" \in Discipline => option = "gtid" \/ qos.gtid = NoGtid
  /\ \E gtid \in IF option = "gtid" THEN 1 .. LastGtid
                  ELSE IF qos.gtid = NoGtid THEN {NoGtid} ELSE {Freed} :
       /\ qos' = [consistency |-> level, aged |-> option = "age", gtid |-> gtid]
       /\ app' = [app EXCEPT !.mine = IF option = "gtid" THEN EntryOf(gtid) ELSE @]
  /\ stgy' = [stgy EXCEPT !.filters = <<"qos">> \o RemoveFirst(@, "qos")]
  /\ UNCHANGED <<conf, log, applied, open, pc, call, walk, prep>>

-----------------------------------------------------------------------------
Next ==
  \/ \E c \in Slave : Replicate(c)
  \/ OtherCounts
  \/ \E stmt \in conf.texts : Query(stmt)
  \/ \E stmt \in conf.prepared : Prepare(stmt)
  \/ Execute
  \/ Filtering \/ Switch \/ Send \/ Inject \/ Fetch
  \/ \E mode \in {"commit", "rollback"} : CommitOrRollback(mode)
  \/ \E ro \in BOOLEAN : TxBegin(ro)
  \/ Return
  \/ \E level \in conf.levels, option \in {"none", "age", "gtid"} : SetQos(level, option)

Spec == Init /\ [][Next]_vars

-----------------------------------------------------------------------------
(* Properties.  TypeOK, above: no statement is sent again more often than  *)
(* max_retries allows, and no slave is ahead of the master.                *)

Sends == pc = "send" /\ call.mode \in {"query", "execute"}

(* Session consistency is `read your writes' (GLOBAL-TRANSACTION-IDS.md):  *)
(* a SELECT goes to a server that has every write the application was told *)
(* of, whatever was prepared, begun, retried or not counted in between.    *)
(* Asking for the last connection, or for servers that may lag behind, is  *)
(* the application's own choice.                                           *)
ReadYourWrites ==
  Sends /\ HasSession /\ conf.report /\ "add_active" \notin conf.race
    /\ call.stmt.kind = "select" /\ "last_used" \notin call.stmt.hints
    /\ call.conn \in Slave =>
      applied[call.conn] >= app.mine

(* A statement goes to a server of its group and to one that every one of  *)
(* its tables has been assigned to, wherever mysqlnd_ms_set_qos has put    *)
(* the qos filter, and although the last filter turns to the masters when  *)
(* no slave is left.  In a transaction the first statement decides; and    *)
(* failover uses the handle's own connection.                              *)
PartitionKept ==
  Sends /\ ~call.pinned /\ "last_used" \notin call.stmt.hints
    /\ ~(conf.failover /\ call.conn = Proxy) =>
      /\ "groups" \in ToSet(stgy.filters) /\ call.stmt.group \in DOMAIN conf.groups =>
           call.conn \in conf.groups[call.stmt.group].masters
                         \union conf.groups[call.stmt.group].slaves
      /\ "table" \in ToSet(stgy.filters) => \A table \in call.stmt.tables :
           call.conn \in Listed(conf.rules, "masters", table)
                         \union Listed(conf.rules, "slaves", table)

(* The plugin and the server agree on whether a statement runs in a        *)
(* transaction, though BEGIN waits for a filter at the end of the chain    *)
(* and a commit may be reported as failed after it was done.  The filters  *)
(* of users and groups, and failover of the table filter, do not pass on   *)
(* to that filter.                                                         *)
InTransaction ==
  Sends /\ ToSet(stgy.filters) \subseteq {"qos", "table", "balance"}
    /\ ~(conf.failover /\ "table" \in ToSet(stgy.filters)) =>
      (stgy.in_transaction <=> open[call.conn] # "none")

(* A statement is executed at most once, however often it is sent.         *)
ExecutedOnce == call.ran <= 1

-----------------------------------------------------------------------------
(* Inductive invariants.                                                   *)

(* In query a success that comes after a transient error is taken for one  *)
(* more; with one retry there is none left to send it again.               *)
SuccessMayBeRetried == call.mode = "query" /\ conf.retries > 1

(* What the loops of query and execute have tried: behind ExecutedOnce.    *)
LoopInv ==
  /\ conf.retries \in Nat
  /\ DOMAIN call = DOMAIN NoCall
  /\ call.tries \in Nat /\ call.ran \in Nat /\ call.transient \in BOOLEAN
  /\ call.tries <= conf.retries + 1
  /\ call.transient => call.tries > 0
  /\ pc \in {"pick", "switch"} => call.tries = 0 /\ call.ran = 0
  /\ pc = "send" => call.tries <= conf.retries
  /\ ~SuccessMayBeRetried => call.ran <= 1 /\ (pc = "send" => call.ran = 0)

(* Every GTID is counted by an entry of the log, and there is a last write *)
(* of one's own.                                                           *)
LogInv ==
  /\ \A gtid \in 1 .. LastGtid : \E i \in 1 .. Len(log) : log[i] = "count" /\ Counts(i) = gtid
  /\ \E last \in 0 .. Len(log) : /\ last # 0 => log[last] = "own"
                                 /\ \A i \in 1 .. Len(log) : log[i] = "own" => i <= last
  /\ ~conf.gtid => log = <<>>

(* A call that picks is at a filter, and one that sends has its server.    *)
(* A transaction stays with a server from the moment its BEGIN is sent.    *)
ControlInv ==
  /\ IF pc = "pick" THEN walk.at # 0 ELSE walk = NoWalk
  /\ pc \in {"pick", "switch", "send"} => call.mode \in {"query", "prepare", "execute"}
  /\ pc \in {"pick", "switch"} => ~call.good
  /\ pc \in {"switch", "send"} => call.conn \in Server
  /\ pc = "inject" => conf.gtid
  /\ pc = "user" => call = NoCall
  /\ stgy.trx_stop_switching => stgy.in_transaction /\ stgy.last_used_conn \in Server
  /\ stgy.in_transaction /\ ~stgy.trx_begin_required => stgy.trx_stop_switching

TypeInv == TypeOK /\ LoopInv /\ LogInv /\ ControlInv

(* Behind InTransaction.                                                   *)

EndsTransaction == call.mode \in {"commit", "rollback", "begin"}

\* No BEGIN gets lost in this chain.
Transactional ==
  /\ ToSet(stgy.filters) \subseteq {"qos", "table", "balance"}
  /\ ~(conf.failover /\ "table" \in ToSet(stgy.filters))

HasBegun == stgy.in_transaction /\ ~stgy.trx_begin_required

TransactionInv ==
  /\ app.failed => pc = "user" \/ call.mode = "rollback"
  /\ call.mode = "rollback" => pc = "return" /\ call.good
  /\ Transactional =>
       /\ pc = "pick" /\ "table" \notin ToSet(stgy.filters) => walk.in.masters = Master
       /\ pc \in {"switch", "send"} => /\ call.conn = stgy.last_used_conn
                                       /\ stgy.in_transaction => HasBegun
       /\ \A c \in Server : open[c] # "none" <=>
            HasBegun /\ c = stgy.last_used_conn /\ ~EndsTransaction /\ ~app.failed

(* Behind PartitionKept.                                                   *)

Passed(filter) == \E i \in 1 .. walk.at - 1 : stgy.filters[i] = filter

\* Once the user's callback has chosen, there is no more partitioning.
PartitionedBefore(filters) ==
  \A i, j \in DOMAIN filters :
    i < j /\ filters[i] = "user_multi" => filters[j] \notin {"groups", "table"}

InsideGroup(role, servers) ==
  call.stmt.group \in DOMAIN conf.groups => servers \subseteq conf.groups[call.stmt.group][role]

InsideTables(role, servers) ==
  \A table \in call.stmt.tables : servers \subseteq Listed(conf.rules, role, table)

StaysInGroup(c) == InsideGroup("masters", {c}) \/ InsideGroup("slaves", {c})
StaysInTables(c) == InsideTables("masters", {c}) \/ InsideTables("slaves", {c})

PartitionInv ==
  PartitionedBefore(conf.filters) =>
    /\ PartitionedBefore(stgy.filters)
    /\ pc = "pick" /\ ~stgy.trx_stop_switching =>
         /\ Passed("groups") => /\ InsideGroup("masters", walk.in.masters)
                                /\ InsideGroup("slaves", walk.in.slaves)
         /\ Passed("table") => /\ InsideTables("masters", walk.in.masters)
                               /\ InsideTables("slaves", walk.in.slaves)
    /\ pc \in {"switch", "send"} /\ ~call.pinned /\ "last_used" \notin call.stmt.hints
         /\ ~(conf.failover /\ call.conn = Proxy) =>
           /\ "groups" \in ToSet(stgy.filters) => StaysInGroup(call.conn)
           /\ "table" \in ToSet(stgy.filters) => StaysInTables(call.conn)

(* Behind ReadYourWrites.                                                  *)

QosLeads(filters) == "qos" \in ToSet(filters) => filters[1] = "qos"

(* No callback of the user picks a server, failover does not skip the qos  *)
(* filter, and a prepared write is not sent to a slave by a hint.          *)
Countable ==
  /\ conf.report /\ "add_active" \notin conf.race
  /\ ToSet(conf.filters) \subseteq {"groups", "table", "qos", "balance"}
  /\ conf.failover => QosLeads(conf.filters)
  /\ \A stmt \in conf.prepared :
       stmt.kind = "write" => stmt.hints \intersect {"slave", "last_used"} = {}

\* Who has the GTID has the first n entries of the log.
Covers(gtid, n) == \A k \in 0 .. Len(log) : Counts(k) >= gtid => k >= n

UpToDate(c) == c \in Slave => applied[c] >= app.mine

\* The call depends on what the qos filter says of GTIDs.
Asking == HasSession /\ call.mode # "prepare" /\ "last_used" \notin call.stmt.hints

WritesPrepared == call.mode \in {"prepare", "execute"} /\ call.stmt.kind = "write"

CoverInv ==
  /\ qos.gtid # Freed /\ qos.gtid <= LastGtid /\ Covers(qos.gtid, app.mine)
  /\ pc = "fetch" => Covers(LastGtid, LastOwn)
  /\ pc = "return" /\ Promised => Covers(qos.gtid, LastOwn)

PreparedInv ==
  /\ ToSet(stgy.filters) \subseteq {"groups", "table", "qos", "balance"}
  /\ conf.failover => QosLeads(stgy.filters)
  /\ call.mode \in {"prepare", "execute"} => call.stmt \in conf.prepared
  /\ call.mode = "execute" => call.stmt = prep.stmt /\ prep.conn # None
  /\ pc = "switch" => call.mode = "execute"
  /\ prep.conn # None => prep.stmt \in conf.prepared
  /\ prep.stmt.kind = "write" => prep.conn \in Master
  /\ pc \in {"pick", "switch", "send"} /\ WritesPrepared =>
       /\ pc # "pick" => call.conn \in Master
       /\ call.mode = "execute" => call.old \in Master
       /\ pc = "pick" => ~(stgy.in_transaction /\ stgy.trx_read_only)
  /\ stgy.trx_stop_switching /\ ~stgy.trx_read_only => stgy.last_used_conn \in Master

ReadInv ==
  /\ /\ (pc = "pick" /\ Passed("qos")) \/ pc \in {"switch", "send"}
     /\ HasSession /\ conf.gtid /\ Writes /\ ~stgy.in_transaction
     => stgy.injectable_query
  /\ pc = "pick" /\ stgy.in_transaction /\ ~stgy.trx_stop_switching =>
       IF call.mode = "prepare" THEN ~stgy.trx_read_only ELSE "last_used" \notin call.stmt.hints
  /\ pc = "pick" /\ Passed("qos") /\ ~stgy.trx_stop_switching /\ Asking =>
       \A c \in walk.in.slaves : UpToDate(c)
  /\ stgy.trx_stop_switching /\ HasSession => UpToDate(stgy.last_used_conn)
  /\ pc \in {"switch", "send"} /\ Asking => UpToDate(call.conn)

SessionInv == Countable => CoverInv /\ PreparedInv /\ ReadInv
=============================================================================

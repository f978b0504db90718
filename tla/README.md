# Verification of mysqlnd_ms

mysqlnd_ms is a PHP extension: a replication and load balancing plugin of the
mysqlnd client library. An application opens one connection handle; behind it
the plugin keeps connections to the masters and slaves of a MySQL cluster and
picks one for every statement. It is a library: every PHP process runs its own
copy, single-threaded, and the copies meet only in MySQL servers, in the *state
store* of the XA coordinator (tables in a MySQL database) and in memcached.
What is hard to test is therefore the interleaving of processes at these three
places, the failure of one of several servers in the middle of an operation,
and state in the process that survives an operation that failed half-way.

Contents: [inventory](#inventory) · [modules](#modules) · [runs](#runs) ·
[proofs](#proofs) · [where the code disagrees](#where-the-code-and-its-documentation-disagree) ·
[limits](#what-is-assumed-and-what-is-not-modelled) · [plan](#plan)

## Inventory

All paths are under `src/`. `PROJECT.json` lists each component with the modules
that model it, every hazard at its line, and the source lines of every
definition.

| component | source | state it keeps | operations | what makes it correct | modules |
|---|---|---|---|---|---|
| XA coordinator | `mysqlnd_ms_xa.c` | `proxy_conn_data->xa_trx`: on, state, intend, list of participants with their states | `mysqlnd_ms_xa_begin`, inject_query, add_participant, commit, rollback, conn_close | all servers do the same; answers are true; the store never says more than a server did; calls return | `XaCoordinator`, `AtomicCommit`, proofs |
| XA state store, garbage collection | `mysqlnd_ms_xa_store_mysql.c` | tables `mysqlnd_ms_xa_trx`, `_participants`, `_gc` | begin, monitor_change_state, add_participant, monitor_participant_change_state / failure, monitor_finish, do_gc_one, gc_all | branches in doubt are decided as the client decided, a run ends | `XaCoordinator`, `XaRecovery` |
| Server side GTIDs, memcached tokens | `mysqlnd_ms.c` (`mysqlnd_ms_aux_ss_gtid_*`) | in memcached: a counter and one item per token; in the process: the token, last_ckgtid | increment, mget, filter, madd, set_last_write, reset | concurrent writes of a context partition use one master; a write finds the ones before it | `WriteConsistency`, `SerialWrites` |
| Client side GTIDs | `mysqlnd_ms.c` (`mysqlnd_ms_cs_ss_gtid_*`), `mysqlnd_ms_filter_qos.c` | the table of counts on the servers, last_gtid, the GTID of the filter | inject before commit or autocommit, read the count | a slave that has the count has the write; the count and the write stand or fall together | `Statements` |
| Quality of service filter | `mysqlnd_ms_filter_qos.c`, `mysqlnd_ms_set_qos` | service level, option, value | choose candidates, set the level | a candidate meets the level asked for | `Statements`, `ServerSelection` |
| Server selection, stickiness, failover | `mysqlnd_ms_switch.c`, `mysqlnd_ms_filter_random.c`, `_round_robin.c`, `mysqlnd_ms.c` (tx_begin, set_autocommit, ...) | in_transaction, trx_stop_switching, trx_read_only, trx_autocommit_off, last_used_conn, failed hosts | pick_server, tx_begin, tx_commit, tx_rollback, set_autocommit, use_slave, use_master | a transaction stays on one server; BEGIN is sent once; a write never goes to a slave by failover | `Session`, `Statements` |
| Round robin, random, weights | the same filters, `mysqlnd_ms_lb_weights.c` | positions, current weights, sticky choices, failed hosts | choose, sort, next, connect, remember | every alternative is tried, attempts are bounded, every server gets its share | `Balancing` |
| User, groups and table partition filters | `mysqlnd_ms_filter_*.c` | rules, or a PHP callback | choose candidates | a statement of a partition stays in it | `ServerSelection`, `Statements` |
| Connection pool | `mysqlnd_ms_conn_pool.c` | all and active connections, references, removed ones, buffered commands | add, flush_active, connection_exists / reactivate / remove, add_ / free_reference, replay_cmds | no connection in use is closed; a reactivated one has the settings of the others | `ConnectionPool`, `Connections` |
| Lazy connections, session commands | `mysqlnd_ms.c` (connect, select_db, set_charset, change_user, ...) | connections not open yet with the data to open them, the charset of the handle | connect, lazy_connect, dispatch to all | all connections of a handle have the same settings | `Connections`; autocommit in `Session` |
| Transient error retry | `mysqlnd_ms_enum_n_def.h`, `mysqlnd_ms.c` (query, execute, session commands) | a counter per call, the error of the connection | the loops around a command | bounded; nothing is executed twice | `Statements`, `Connections` |
| Prepared statements | `mysqlnd_ms.c` (prepare, execute) | the connection of a statement | prepare, execute | its writes are counted; inside a global transaction as far as that goes | `Statements`, `XaCoordinator` |
| Configuration | `mysqlnd_ms_config_json.c`, the readers in `mysqlnd_ms.c`, `_switch.c` and the filters | the tree, the position of each of its arrays, its lock | load, reload, get_sub_section, next_sub_section, get_string / int, reset, connect | a connect gets what its section says, whoever has read the tree before | `Configuration` |
| PHP functions | `php_mysqlnd_ms.c` | module globals | begin, commit, rollback, gc of global transactions, set_qos, fabric_select_* | with the component each calls | as these |
| MySQL Fabric | `fabric/` | shard cache | lookup over HTTP | the pool takes the answer without losing a connection in use | its effect in `Connections`, its section in `Configuration` |
| Query classification | `mysqlnd_query_lexer.c`, `_parser.c` | none | read / write / hints | generated code, not modelled | - |
| Packet readers, statistics | `mysqlnd_ms.c`, `mysqlnd_ms.h`, ... | none that is read back | - | not modelled | - |

**How they interact.** A query enters `mysqlnd_ms::query`. The switch classifies
it and runs the chain of filters (QoS, partitioning, random or round robin, user)
over the lists of masters and slaves until one connection is left; for a write
under server side GTIDs the QoS filter calls the memcached protocol to narrow
the masters. If a global transaction is open, the coordinator's inject_query
sends `XA BEGIN` to a connection that is new to it. The statement is then sent; its
OK packet carries the GTID, which the memcached protocol publishes. The
coordinator writes every change of a participant's state to the state store
after the server has acknowledged it; the garbage collection of any other
process reads these tables. All calls are synchronous; the only callbacks are
PHP functions of the user filters.

**What is hard.** (1) Two-phase commit in which every statement of every server
and every statement of the store can fail, or be executed and its answer be lost;
(2) a client that dies between two statements, and a collector that finds what
it left while another client may still be working; (3) several clients in the
window between an atomic counter and the announcements that follow it, with
processes that die, and a counter that wraps; (4) flags of the handle after a
failure in the middle of a transaction, a session command or a retry; (5) what
one filter leaves to the next: lists, flags, connections picked too early; (6) a
configuration tree that is read by moving its cursors, in several threads, with
errors that leave by a long jump.

## Modules

**`AtomicCommit`** is what a global transaction promises: every server's share is
open, then prepared, then committed or aborted; a share is prepared only by
itself, no share commits while a share on which work was done is not prepared or
committed, none of these aborts after a first commit.

**`XaCoordinator`** models `mysqlnd_ms_xa.c` statement by statement, with the
writes it makes to the state store. The server and the store are never changed
in one step.

| model | code |
|---|---|
| `pc`, `step`, `cur`, `ret` | the place in `monitor_direct_commit`, `monitor_direct_rollback` and `participants_change_state`; the walks `END`, `PREPARE`, `COMMIT`, `RELEASE`, `ROLLBACK`, `ROLLBACK_AGAIN` are the calls of these loops, `MON_*` the calls of `monitor_change_state`, `FINISH_*` those of `monitor_finish` |
| `flags`, `state`, `intend`, `participants`, `pstate` | the fields of `MYSQLND_MS_XA_TRX` |
| `branch`, `worked`, `links` | environment: the XA branch on each server, where a statement had effect, which connections are alive |
| `trxState`, `trxFinished`, `partState`, `partHealth` | columns of the state store |
| `Outcome` | a statement is acknowledged, refused, or executed although the connection breaks before the answer |
| `Begin` ... `Close` | one action per API call; `QueryParticipant` (the SQL) and `RecordParticipant` / `ParticipantFailure` (the store) per participant of a walk |
| `LoseConnection`, `LoseStore`, `Crash` | faults, between any two steps; MySQL rolls back a branch that is not prepared when its connection goes, and keeps a prepared one |

**`XaRecovery`** extends `XaCoordinator` with the garbage collection
(`mysqlnd_ms_xa_store_mysql_do_gc_one` and `..._gc_participants`) in a second
process: `gc`, `todo`, `row`, `mustCommit` are where a run is and the result of
its snapshot; `done` are the rows it has changed and locked, as its changes show
only when its store transaction commits. What it does to participants stands at
once. `GcErase` is the deletion of a transaction marked SUCCESS; `GcForgotten`,
`GcRecover`, `GcStart`, `GcResolve` are the cases of a participant; `GcGiveUp`
is every `goto gc_one_exit`; `GcCrash` a collector that dies at any step.

**`WriteConsistency`** models the write path of the server side GTID mode with
`memcached_wkey` and `running_wdepth` > 0: `Start` / `Wrap` take a token
(`mtoken`), `Read` reads one slot before it (`mget`), `Choose` picks the master
(`filter`), `Add` / `Get` / `Switch` are `validate` and `madd` - the announcement
into every empty slot up to the client's own - `Commit` / `Fail` the query, and
`SetLastWrite` / `Clean` / `Delete` what follows it. Each is one memcached request.
`slot` holds what is known of a token, `my` what a client remembers, `log` and
`applied` what the servers have executed and replicated.

**`SerialWrites`** is what it promises: a master takes a write only when it has
applied all the writes before it.

**`Session`** models a transaction on one connection handle: `TxBegin`,
`CommitOrRollback`, `SetAutocommit` are the API calls, `Query` ... `Run` the steps
of a statement: `Query` is the head of `mysqlnd_ms_choose_connection_rr` /
`_random` (which kind of server), `UseOnce`, `SkipFailed`, `Use`, `ConnectFails`
and `Exhausted` the loops of `use_slave` and `use_master` over the candidates,
`ReturnConnection` and `SendBegin` their end with the delayed BEGIN, `Run` the
statement. `stgy` holds the fields of the handle's `mysqlnd_ms_lb_strategies`,
`off` the `trx_autocommit_off` of each connection, `link` its state, `conf` the
settings, drawn once in `Init`. `session` is the server's side of each connection and `app`
what the application has been told; the properties relate these two. Any order
of the candidates is possible here; which one it is, is the subject of `Balancing`.

**`Balancing`** models the last filter, one list of masters and one of slaves per
call (`Begin`), one candidate per step (`Try`: `Use` it, `Skip` one that is
remembered as failed, or find that it `CannotUse` it). `pos` and `current` are
the positions and current weights of round robin, `sticky` and `failed` what is
kept from call to call. `Turn` is `mysqlnd_ms_choose_connection_rr`'s choice of
the next server with its reset of the weights, `Drawn` the dice of random.
Servers go down and come back between any two steps (`Toggle`). `turns` and
`resets` are history variables, the reference of "fair".

**`ServerSelection`** holds what the filters before the last one do, as operators on the
masters and slaves that are left: the hints of a statement (`Which`), `InGroup`, `ForTables`,
`UserMulti` for an arbitrary callback, `GtidFilter` and `RaceAvoided`. The lists of the
code are sets here: no filter but round robin looks at their order, and that one is the
subject of `Balancing`.
**`Statements`** is the life of a statement: `Query`, `Prepare`, `Execute`,
`CommitOrRollback`, `TxBegin` and `SetQos` are the calls; `Filtering` is one turn of the loop of
`mysqlnd_ms_pick_server_ex`, with an action per kind of filter (`PassOver`, `ChooseQos`, `ChooseTable`,
`ChooseGroups`, `PickMultiple`, `PickUser`, `PickBalanced`): `walk` is the position in the chain
and what the filters before have left, `GoesOn` hands it to the next filter,
`EndsWith` ends the walk with a server, or none, and the delayed BEGIN;
`Switch`, `Send`, `Inject`, `Fetch`,
`Return` are what `mysqlnd_ms::query` and its relatives do with the connection:
count a write, send it, send it again after a transient error, read the count.
`log` is what the master has committed - the application's writes and the counts -
`applied` how far each slave has replicated it, `open` the transaction of each
server, `app` what the application knows. `conf` also says which statements
the application uses, so that seventeen small applications are explored instead of
one with everything. `Discipline` names what the application has to keep to,
because the code does not survive its absence: `keep`, once a GTID is known
`mysqlnd_ms_set_qos` is only called with one; `prepare`, a read only transaction
does not begin with a prepare; `prepared_write`, a write is neither prepared nor
executed in one; `last_used`, the hint is not on the first statement of a
transaction; `rollback`, a failed begin or commit is followed by a rollback;
`flat`, as in `Session`.

**`ConnectionPool`** holds the functions of `mysqlnd_ms_conn_pool.c` as operators on a pool
record: `list` and `active` by role, an `entry` per connection with its reference
count, its `key` and `buffered_cmds`. Two of them do not do what their names say
and are modelled as they are: `Removed` fails for a connection with one
reference (the key is looked up one byte too long), `FreeReferences` takes the
references from the pool's first connection.
**`Connections`** uses the pool: `ConnectToHost` adds a server after the other,
`LazyConnect` opens a connection on its first use, `SessionCommand` passes a
command on - each active connection `Keep`s it (or not, `KeepFails`), `Executes` it or
`Refuses` it, with retries, until `Return`. A server is connected with the user and
the database of its own section, or, where that says nothing, with those of the call
(`FromConnect`). `FabricSelect` asks for the servers of a shard and
takes all others from the filters, `Visit` looks for one server of the answer in
the pool, `Selected` begins to `Replay` the buffered commands; `lookup` and `replay`
hold what is left of both. `Enlist` and `XaDone` are a global transaction that holds
references. `own` is what a connection will be opened with, `session` what the
server knows of an open one, `wanted` what the application expects there: what it
set last, and before that what its sections and its call of connect say.

**`Configuration`** models the configuration file as it is read: a tree that maps
paths to nodes, one internal position (`cursor`) for each array of it, and the
functions that read a value through these positions (`Value`,
`Advance`, `Moved`, `Rewound`). `Job` is a connect, which sees its own section and the
one `hosts_group` names (`Within`): `Open` finds them and takes the
lock, `Load` reads - options, servers, filters, one `Step` each on the job's own
record - `Return` rewinds and unlocks, `Abort` is the long jump of a fatal error,
which does neither. `ChangeFile` and `NewRequest` are a file that is replaced and
the reload at the start of a request. The options are given as tables (`IntOption`, `EnumOption`,
...: path, range, default), read by one operator, `Read`.
`Discipline` = `quiet`: the file is not changed while requests connect.
The reference of `AsConfigured` is a ghost in the thread's record, `ref` and `fresh`: the
same connect on a tree of its own that nobody has read before, taking each step
when the connect takes it. No guard and no other variable looks at it.

**The proof modules** (`...Proofs`) hold the theorems about the module whose name they
bear; the invariants they use are at the end of that module, those of
`Configuration` in `ConfigurationProofs`.

**The MC modules** (`MCWrites`, `MCSession`, `MCConnections`, `MCStatements`,
`MCConfiguration`, `MCBalancing`) give the constants that a cfg cannot write: lists of
servers, sets of settings, configuration trees. `Discipline` of `Session`: `flat`,
no begin within a transaction that the plugin would not commit first, and none
with autocommit off; `nonempty`, no commit before the first statement; `reopen`,
a handle is not used after one of its connections broke; `revealed`, no failure
of autocommit is hidden by a connection that is not open yet, and no failure of the
implicit COMMIT of a begin by `report_error` = false (`Hidden`).

**How the modules compose.** `XaRecovery` extends `XaCoordinator` (two processes,
one store). `Connections` extends `ConnectionPool`, `Statements` extends
`ServerSelection`. `Session`, `Statements` and `Balancing` are three cuts through
the same path, `pick_server` to the answer: `Session` has failing connections
and any order of candidates, `Statements` the chain of filters and open
connections, `Balancing` the order of candidates; each leaves out what another one has.
`WriteConsistency` stands for several processes whose writes the
other modules see one at a time.

## Runs

`expect: pass` unless marked. The times are those of two workers.

| run | question and bounds | states, time | shows |
|---|---|---|---|
| `coordinator` | 2 participants + store, rollback_on_close both ways, all faults, fairness | 486k, 1:30 | `TypeOK`, `AllOrNothing`, `AnswerIsTrue`, `StoreNeverAhead`, `DecisionStands`, the inductive invariant `Inv`, refinement `ImplementsAtomicCommit`, `CallReturns` |
| `recovery_commits` | 2 participants, client and 1 run of the garbage collection interleaved | 1.0M, 1:20 | `CommitsFollow`: it commits only what was decided |
| `recovery_timeout` | 1 participant, a transaction that times out under a working client, 2 runs, fairness | 262k, 0:55 | `GcTypeOK`, `SuccessIsSettled`, `CollectionEnds` |
| `writes` | three settings, see below; 2 masters | 3.7M, 2:00 | `TypeOK`, `SameMaster`, `AnnouncedWhileRunning`, `TokensDiffer`, refinement `ImplementsSerialWrites` |
| `session` | 2 masters, 1 slave, all configurations; `report_error` on and off; every call and statement may fail or lose its connection; no bound on the calls | 1.3M, 1:30 | `TypeOK`, `OneServer`, `CanBeUndone`, `NothingLeftOpen`, `WritesOnMaster`, `EndedByApplication` |
| `balancing` | 2 masters, 3 slaves, weights 0 to 2, lists that an earlier filter shortens; 3 calls, 1 server that fails or returns | 4.1M, 2:15 | `TypeOK`, `AllAlternativesTested`, `AttemptsBounded`, `FairTurns` |
| `statements` | 1 master, 2 slaves, 17 settings; at most 2 to 4 entries in the log | 1.6M, 1:20 | `TypeOK`, `ReadYourWrites`, `PartitionKept`, `InTransaction`, `ExecutedOnce` |
| `connections` | 1 master with a database, 1 slave with a user of its own, lazy or not, Fabric or not; 2 calls, 1 retry, 2 values | 796k, 2:00 | `TypeOK`, `Agree`, `ParticipantsReferenced`, `RetryBounded`, `CallReturns` |
| `configuration` | 2 threads, 3 connects, 1 change of the file, 11 sections, 15 environments, symmetry of threads | 126k, 1:45 | `TypeOK`, `AsConfigured`, `AsListed` |
| `failure_rolls_back` (violation) | 2 participants, no store | - | a failed commit may leave a branch open |
| `recorded_commit` (violation) | 2 runs of the garbage collection | - | a later run rolls back after a recorded commit |
| `three_writers` (violation) | 3 clients, 3 writes | - | three stalled clients may write on two masters |

**Why the bounds are enough.** *Global transactions.* Agreement between servers is
a relation between two of them, and every property of the coordinator speaks of
one or two connections: two participants contain the case that one has passed a
phase and the other has not, in both orders of the list. More participants are
covered by the proofs. One global transaction is modelled, as a second one has a
branch and rows of its own. For the garbage collection the second run is what
reads what the first one left (`MaxRuns`).
*Writes.* Two clients interleaved in every possible way and four writes with
depth 2 let a client's slots be read and filled by others, and each client write
again after that (setting `TwoClients`, with writes that fail and clients that
die anywhere); a third client shows the window between a token and its
announcement, so that it waits in `ThreeInTurn`, which has single gets and deletes
old tokens, and does not wait in `three_writers`. `TokensWrap` counts modulo 3
with depth 1 and wraps several times, with failed writes, unreachable masters and
lost answers. `SameMaster` and `AnnouncedWhileRunning` are stated where every
client reaches every master and no answer is lost (`Undisturbed`); in every
setting no more writes are in progress than the depth (`orderly`), and
`TokensWrap` is about the tokens alone, as it executes only one write. With four
tokens and depth 2 the window of a client in `TwoClients` reaches back to the first
token: the run shows there that the promise of `SerialWrites` survives failures
within a window, and the theorem shows it for any number of writes when nothing
fails. Beyond the window it does not survive them (see "behaviour met").
*Session* is finite without any bound: a transaction may have any number of
statements and a handle any number of transactions. Two masters are needed for a
switch between masters and for failover to another one, one slave for a switch
of role; failover_max_retries 0 and 1 are both sides of the test with two
candidates. *Balancing.* Three slaves with weights 2, 1 and 0 have a round of
three turns, a tie and a server without weight, so that three calls, each of
which may try several servers, reach the reset and what follows it; an earlier
filter's list shares servers with the whole one or none. *Statements.* Two slaves are one that has the write and one
that has not; two to four log entries a write with its count and the next one. The settings put every filter
into a chain where it has something to decide. *Connections.* A master and a
slave are the handle's own connection and another one, each with a section that names
another setting; two commands overwrite each other or follow a change of the pool. *Configuration.* Three connects in two
threads are one before, one beside and one after; a section for each way of
reading one, a file that is broken, and a host with a file of its own.

**Deadlock** is not checked: an application may stop calling, its process may
end, and the bounds on calls, writes, connects and changes are used up.

**Fairness.** `FairSpec` assumes weak fairness of `Plugin`, the plugin's own
steps: a PHP thread inside a call runs on, and each statement it waits for is
answered or its connection reported broken. Nothing makes the application call,
no fault is forced to happen or not to happen. `GcFairSpec` assumes the same of
`Collection`, the steps of a run of the garbage collection, but not of `GcBegin`
alone, nor that its process survives. `Connections` assumes it of `PassOn`, the
steps of a session command that is under way: the calls are synchronous.

**Every property can fail.** `PROJECT.json` names for each property of a
passing run a plausible bug (a result of a loop that is ignored, a counter reset
instead of decremented, a slot that is not filled, a position that is not
rewound) under which the same run finds it violated. The mutated operators stand
in the modules, marked as such.

## Proofs

Every theorem is about the specification the runs check, from the assumptions on
the constants alone; what more a theorem assumes is in its statement. TLC has
checked each inductive invariant first: `XaCoordinator!Inv` in the run
`coordinator`, the others with the constants of the runs of their module. The invariants
stand at the end of the module they are about, under "why it works", but for `IInv` of
`ConfigurationProofs`, most of which speaks of what the readers do to a tree.

| module | theorem | statement |
|---|---|---|
| `XaCoordinatorProofs` | `Agreement` | `Spec => []AgreementInv`, whatever statements the application runs |
| | `TypeCorrect`, `StoreLags`, `NothingUnrecorded` | its corollaries `[]TypeOK`, `[]StoreNeverAhead`, `[]InDoubtIsRecorded` |
| | `Invariance` | with `~PreparedStatements`: `[]Inv` |
| | `AtomicOutcome`, `TrueAnswers`, `SafeToDelete` | with the same: `[]AllOrNothing`, `[]AnswerIsTrue`, `[]SuccessIsSettled` |
| | `DecisionIsFinal` | with the same: the action property `DecisionStands` |
| | `Refinement` | with the same: the coordinator implements `AtomicCommit` |
| `XaRecoveryProofs` | `GcTypeCorrect`, `StoreLagsInRecovery` | `GcSpec => []GcTypeOK`, `[]StoreNeverAhead` |
| | `RecoveryInvariance` | with `~PreparedStatements`: `[]RecoveryInv` |
| | `SafeToErase`, `AnswersStand`, `CommitsAreDecided` | with the same: `[]SuccessIsSettled`, `[]AnswerIsTrue`, `CommitsFollow` |
| `WriteConsistencyProofs` | `WritesTypeCorrect` | `[]TypeOK` |
| | `TokensAreDistinct` | `[](Spaced => TokensDiffer)` |
| | `WritersAreAnnounced` | `[](conf.module = 0 => AnnouncedWhileRunning)` |
| | `OneMasterAtATime` | `[](conf.module = 0 /\ Waiting => SameMaster)` |
| | `WritesAreSerial` | `Spec /\ Reliable => ImplementsSerialWrites` |
| `SessionProofs` | `SessionTypeCorrect` | `[]TypeOK` |
| | `SessionInvariance` | with `Disciplined`: `[]Inv` |
| | `OneServerPerTransaction`, `TransactionsCanBeUndone`, `NoWorkLeftOpen`, `WritersUseMasters`, `OnlyTheApplicationEnds` | with the same: `[]OneServer`, `[]CanBeUndone`, `[]NothingLeftOpen`, `[]WritesOnMaster`, `EndedByApplication` |
| `BalancingProofs` | `BalancingInvariance`, `PositionsAndWeights` | `[]Inv`, `[]TypeOK` |
| | `EveryServerTried`, `AttemptsLimited`, `RoundRobinIsFair` | `[]AllAlternativesTested`, `[]AttemptsBounded`, `[]FairTurns` |
| `ConnectionsProofs` | `ConnectionsInvariance`, `ConnectionsTypeCorrect` | `[]Inv`, `[]TypeOK` |
| | `ServersAgree`, `ParticipantsKept`, `RetriesBounded` | `[]Agree`, `[]ParticipantsReferenced`, `[]RetryBounded` |
| | `SelectionAddsNothing` | with Fabric no connection can ever be picked |
| `StatementsProofs` | `TriesAreBounded` | `[]LoopInv`: how often the loops send |
| | `StatementsRunOnce` | `[](~SuccessMayBeRetried => ExecutedOnce)` |
| | `StatementsTypeCorrect` | `[]TypeOK` |
| | `TransactionsAgree` | with `rollback`, `flat`: `[]InTransaction` |
| | `StaysInPartition` | `[](PartitionedBefore(conf.filters) => PartitionKept)` |
| | `SessionsReadTheirWrites` | with `keep`, `prepare`, `prepared_write`, `last_used`: `[](Countable => ReadYourWrites)` |
| `ConfigurationProofs` | `InvariantHolds` | with `quiet`: `[]IInv` |
| | `ConfigurationTypeCorrect` | with the same: `[]TypeOK` |
| | `HandlesAreAsConfigured` | with the same: `[]AsConfigured` |
| | `HandlesAreAsListed` | with the same: `[]AsListed` |

**Global transactions.** None of the safety properties is inductive.
`AllOrNothing` says nothing of a moment before the first commit, and
`StoreNeverAhead` nothing of a client that is between the acknowledgement of the
server and the write to the store. `AgreementInv` adds what makes them so:

* `ControlInv` ties the phase of a call to the flags and the intention
  (commit walks only with the intention to commit);
* `ListInv`: the list names no connection twice, so that a walk that has
  passed a position does not meet its connection again;
* `PhaseInv` is the loop invariant of every walk: those ahead are in the state
  the phase before left, those behind, if nothing failed, in the next one;
* `ParticipantInv` says what the client's opinion of a participant, and the
  result of the statement it has just sent, imply for the branch on the server
  (`prepared` survives a lost connection, `active` and `idle` do not);
* `RecordInv` that a prepared branch is listed and has a row.

`Inv` adds `DecisionInv`, the argument of two-phase commit: before `COMMIT`
begins nobody has committed; from then on every listed participant is prepared or
committed, and all work is on listed participants. That work is on listed
participants fails for prepared statements, which the coordinator does not see;
hence the two groups of theorems. `Refinement` maps `none`, `active`, `idle` to
`open`; all steps but those that change a branch or `worked` stutter.

The same parts, for the participants on servers other than that of the store
(the only one the garbage collection can decide on, as its statements go over
the connection to the store), are preserved by the steps of a run, which make
`RecoveryInv`: what a run has snapshot as a reason to commit is a decision
(`RunInv`), because the store is never ahead of the servers. This is where
`CommitsFollow` needs `~PreparedStatements`: with them a branch may be prepared
after the decision without being part of it.

**Write consistency.** `WindowInv` bounds what is read and filled,
`AnnounceInv` says what the slots and a client that is announcing itself know of
each other: a slot that is taken names a master, and its client follows it. From
this alone a writer is announced, for any number of clients that may die
(`Certain`). That all use one master takes more: two stalled clients may miss each other
(`three_writers`), and `Waiting` is the assumption that excludes it - the
application does not start a write while another is between token and
announcement. `FollowInv` is then the argument: there are no gaps between the
announced slots of a window (`NoGaps`), so whoever announces itself has seen the
last one, and every later slot follows each writer (`Followed`). For the
refinement, `SerialInv` follows the last write: as long as nobody writes, a slot
of the window or a client about to mark its own says its GTID (`LastSaid`),
slots whose GTIDs are not in the order of their tokens are on one master
(`InOrder`), and a client that has read a part of its window knows the highest
GTID of it and a master that has it (`HasRead`). This needs `Reliable`: nothing fails,
and replication is causal. With failures the promise is false beyond the window.
With tokens modulo a number `TokensDiffer` is proved for a round longer than the
window and no more writes in progress than the depth (`Spaced`): the configuration
demands the first (a module of 65535 or more, `mysqlnd_ms.c:3072`, a depth of 255 or
less, `:3085`), the second is up to the applications.

**Sessions.** `FlagInv` relates the flags of the handle to what the application has been
told, `OpenInv` the transactions open on the servers to the connection the plugin
sticks to, `PickInv` is the loop invariant of the search for a server, `WorkInv`
says where the statements of a transaction were executed. All are for an application that
keeps the whole `Discipline`: each of its four points names a behaviour of the
code without which TLC finds a property violated. With `report_error` on, or no
implicit COMMIT of a begin that fails, `revealed` is about autocommit alone; without it
`NothingLeftOpen`, and with it `WorkInv`, are false: see (b) of the behaviour met.

**Balancing.** The unweighted `FairTurns` follows from an equation between the turns of two
servers and the position that lies between them or not; the weighted one from a
sum, turns plus what is left of the weight, that lies between two multiples of the
weight (`TurnsInv`). `SearchInv` says which part of the list a call has not looked at,
with `Behind` as the arithmetic of a cyclic position, so that no candidate is tried
twice and none is left out; `TestedInv` turns this into `AllAlternativesTested`.

**Connections.** `Agree` speaks of a handle at rest; what carries it there is
`PassInv`. While a command is passed on nothing is `wanted` of what it sets, and
every connection that is behind the loop and did not refuse has it already
(`Effective` is what its server has or, if it is not open, what it will be
opened with: the charset of the handle is read when it is opened, so that a
`set_charset` on the handle's own connection changes what others will get).
`ConnectInv` says the same of connect: what a server gets is what its section and the
application asked for, lazily or not (`AskedFor`). `PoolInv` explains why
giving references back to the wrong connection is harmless: what is counted is
one reference per participant and one for the pool, all participants give
theirs back at once, and no entry falls below the pool's own. `FabricInv` is a
result in itself (`SelectionAddsNothing`): what `connection_exists` answers is
overwritten by a test of two flags that it sets only when it finds something, so
that a server of the answer counts as known, is not found in the lists and is not
added; the pool of a handle with Fabric stays as empty as connect left it. The comment
at `php_mysqlnd_ms.c:869` suspects as much.

**Statements.** `LoopInv` ties what the loops around query, prepare and execute have
counted to the place they are at. A success ends execute's loop at any
max_retries; in query it may be counted as the error before it
(`SuccessMayBeRetried`), and with one retry that count is the last one. Above
one, `ExecutedOnce` is false.

The other theorems are about any chain of filters, any rules and groups, any statements,
any number of slaves and a log of any length. What they share is `TypeInv`: with the
types, `LogInv` (every GTID up to the last one is counted by an entry of the log) and
`ControlInv` (a walk is at a filter of its chain, a call that sends has its server, a
transaction whose BEGIN has been sent has stopped switching).

* `TransactionInv`: a server has a transaction open exactly when `begin` has been
  answered, BEGIN has been sent and it is the server used last; a call that is about to
  send in a transaction has sent BEGIN. It needs that no filter before the last one ends
  the walk with a server (`Transactional`): the user filters do so without BEGIN, and the
  groups filter, once switching has stopped, selects nothing and forgets which server
  the transaction is on. The qos filter never does: it leaves the master whenever it was given it.
* `PartitionInv` is the loop invariant of the walk: what is left after the groups filter
  (`Passed`) is inside the group, after the table filter inside the rules of every table.
  Masters and slaves are separate, as load balancing may fall back to the masters.
  `PartitionedBefore` excludes chains with `user_multi` before a filter that
  partitions: when its callback leaves one server, that server is used and the
  filters behind it are not asked.
* `SessionInv` is the argument of session consistency, in three parts. `CoverInv`: who has
  as many counts as the GTID of the qos filter has every write the application was
  told of (`Covers`), from the moment the count is read and not only when the call
  returns. `ReadInv`: a write outside of transactions is one that will be counted, and
  what is left behind the qos filter, or has been picked, or holds the transaction,
  is up to date if the call asks for it (`Asking`). `PreparedInv`: a prepared write is
  bound to the master, and so is a transaction that may write. The last two need each
  other: what is counted for an execution depends on the connection it was prepared on.

`SessionsReadTheirWrites` assumes `Countable`, and four points of `Discipline`; each names a
behaviour of the code under which a write is not counted or a read not checked (see below).
`Countable` says that failed counts are reported, that race_avoid does not add servers whatever
they have, that no PHP callback picks the server, that the qos filter is the first one if
there is failover (a filter before it that leaves nothing would send a write to the
handle's own connection uncounted), and that no prepared write carries the hint `slave`
or `last_used`.

TLC checked `TypeInv`, `TransactionInv`, `PartitionInv` and `SessionInv` as invariants in
the settings of the run and in seven chains more. The proofs then asked for what no run
could miss: that a call that is to switch to another connection is an execution, and that
its statement is the prepared one.

**Configuration.** The theorems hold for any files, sections, hosts, options and builds, and
any number of threads. The two parts of the proof:

* What one step of a connect does to its job. `Reads` says that a reader looks only at
  positions within the job's section and hosts and moves only those, never past the end
  of an array, and leaves the identity of the job alone; it is
  proved reader by reader, from `Advance` up to `Step`. Because a step is a function
  of what the job sees, two jobs that see the same take the same step. `Progress` is the loop invariant of
  the lists: as long as nothing stopped the connect it has one server, and one filter, for each
  entry its cursor has passed, with the entry's name, and only the last of its filters picks one server.
* What the threads do to each other. `Locking`: whoever reads anything of the shared
  tree holds the lock, or is the only thread. `Accounted`: a position that is not at its start
  belongs to a connect that is reading, or to a section that a fatal error left.
  With both, whoever begins to read a section that was not left finds it at its start,
  and nobody moves it until it is rewound. Hence `Alike`: the connect is where its reference
  is, and sees the same positions.

None of the three properties is inductive: they speak of connects that have returned and
trees nobody reads. `Accounted` needs both rewinds of `Return`, and `Locking` needs the lock for
the hosts of a section that is a private file (`NeedsLock`). `quiet` is used in one
place: a reload replaces the tree only when no other connect is under way. The assumptions on the
files are what the parser yields - entries have names, what has entries is an array - and
that a file of `config_dir` has a name no section has; and they exclude the option
`memcached` and weights that are not a list (see below).

The proof asked for what the runs had not needed: that a job sees its own
section and hosts only, so that another thread may move the rest.

**Only model-checked.** Liveness under fairness (`CallReturns` of both modules,
`CollectionEnds`) is out of the prover's reach; every invariant and every other action
property of the runs has a theorem. `SameMaster` without `Waiting`, and the promise of `SerialWrites` with
failures, are checked for two clients only, as they do not hold for more.

## Where the code and its documentation disagree

Each is a run that expects a violation, quoted in `PROJECT.json`.

1. *`failure_rolls_back`*: `docs/.../XA-DISTRIBUTED-TRANSACTIONS.md` says any failure
   during the end causes an implicit rollback. After a refused `XA END` the
   participant is still ACTIVE, which the rollback skips, and the list is emptied.
2. *`recorded_commit`*: a single participant in XA_COMMIT must make the garbage
   collection commit; a participant already set to GC_DONE is not counted.
3. *`three_writers`*: a client that finds nothing announced fills its
   predecessor's slot and its own; two predecessors that are both stalled
   are not bound.

Behaviour met while modelling that no document speaks about. It is part of the
models; where a property does not hold because of it, the property or a
`Discipline` names the exception, and the hazards say so.

*Global transactions.* Prepared statements bypass `XA BEGIN`; a
participant marked CLIENT_ERROR in a state below XA_PREPARED may be prepared all
the same when an answer was lost; the garbage collection sends `XA COMMIT` and
`XA ROLLBACK` over the connection to the store, which only the store's own server
can obey; when it dies between that and its store transaction the decision is
lost (`AllOrNothing` does not hold in `XaRecovery`); a transaction's rows are
deleted when the last participant looked at is done, not when all are.

*Write consistency.* When tokens wrap, slot 0 may stay unannounced
(`AnnouncedWhileRunning` is checked without a module). With `auto_clean` a client
that is so late that the others have deleted the slots it is about to read, and
that then meets the token of a dead client, writes without an announcement, with
four clients and depth 2: `Kept` excludes it. The GTID of the last write has to be
in the window: two concurrent writes may finish in the other order than their
tokens, and if the next write fails it only records what it *checked*, which a
later client does not look at once a slot of its window has a GTID
(`mysqlnd_ms.c:1479`); it may then go to a master that lacks a write. So may one
whose window holds only tokens of clients that died or are stalled. A lost answer to a write
marks its token executed without a GTID; when replication is not causal only the
last GTID is checked; an announced master that cannot be reached is replaced by
the client's own choice; `wait_for_wgtid_timeout` is parsed and not used.

*Sessions.* (a) `autocommit` fails on an open connection and its failure is
overwritten by a later one that is not open; the flags are set although a
comment says they are not touched (without `revealed` the run violates
`NothingLeftOpen` and `CanBeUndone`). (b) With GTIDs `begin` within a transaction commits
that first. With `report_error` false a refused COMMIT is passed over
(`mysqlnd_ms.c:5160`), its error is emptied and `begin` succeeds; the work stays open on
its server, and the next statement may go to another one (without `revealed` the run
violates `NothingLeftOpen` when COMMIT alone can fail). With `report_error` false `autocommit(true)` goes on
after a failed implicit COMMIT as `begin` does; as it then commits on every open
connection, nothing stays open, but a COMMIT that was lost with its connection
is reported as a success. (c) `commit` right after `begin` leaves the
request for BEGIN, and its mode, behind; on a connection that is not open it
also leaves `in_transaction` set (`nonempty`). (d) `begin` within a transaction
picks another server and leaves the first one's work open, unless GTIDs are
injected (`flat`). (e) Once the handle's own connection has been closed
`autocommit(false)` succeeds without any effect on the flags (`reopen`). (f) After
a failed delayed BEGIN the handle is out of the transaction that `begin` reported.
(g) The tests `MS_WARN_AND_RETURN_IF_TRX_FORBIDS_FAILOVER` are never reached with
switching stopped: what keeps a transaction on its server is
`USE_LAST_USED` alone.

*Statements.* A write prepared on a slave in a read only transaction and executed
later on the master is not counted (`prepared_write`); a prepare, or the hint to
use the last connection, as the first statement of a read only transaction
bypasses the check of the GTID (`prepare`, `last_used`); outside session
consistency a commit that counts is done and reported as failed; the groups, user
and user_multi filters, and the failover of the table filter, end the chain
without the delayed BEGIN (`InTransaction` excludes them); a success does not reset
the error number of the try before it, so that with max_retries above 1 a
successful write is sent again (`ExecutedOnce` is proved for 0 and 1);
`mysqlnd_ms_set_qos` without a GTID after one takes over a pointer that is then
freed (`keep`). A write prepared on a slave by a hint is not counted even when
it is executed on the master, because the GTID has left no slave; a callback for `user` or `user_multi` may pick a server the
qos filter has not seen or that the groups and table filters behind it would exclude; and
failover of a filter before the qos filter sends a write that is not counted
(`Countable`, `PartitionedBefore`).

*Connections.* A selection by Fabric never adds a server (`SelectionAddsNothing`); a
connection would never be removed while it has the pool's own reference only;
until a session command is given, servers whose sections name a user or a database
are used with these, so that a statement may run as another user or in another
database because of the server it is sent to (`Agree` says which);
references are given back to the first connection of the pool
(`ParticipantsReferenced` holds because a global transaction gives back all of
them at once).

*Configuration.* A fatal error in a connect leaves the positions, and with threads the
lock, as they are: the next connect to that section misses what was read
(`AsConfigured` excludes such sections). An error that a user's error handler swallows
while options are read ends the connect with success, with masters only and no
filters (`AsListed` excludes it). A reload frees tree and mutex under threads that
wait for them (`quiet`). The option `memcached` ends the process;
weights that are not a list are read as one.

*Balancing.* Weighted round robin offers the same server again when it fails, so that the alternatives are
not tested; `CHANGES.orig` speaks of n attempts where the code makes n retries;
lists that share servers use up each other's weights (`FairTurns` with weights is
stated for lists that share none).

## What is assumed, and what is not modelled

*Assumed of the environment.* MySQL: an XA branch goes through active, idle,
prepared and committed or aborted; a prepared branch survives its connection
(since 5.7.7); the store's tables are transactional; the garbage collection
reads in one snapshot and locks the transaction's row. memcached: one server that
answers each request atomically and evicts nothing. Replication: with `Causal` a
master applies a write after those its origin had; membership of a GTID is
answered exactly; a slave applies what the master has committed in its order.

*Left out of the modelled components.* The column `intend` and
`monitor_failure`, which no code reads; the column `attempts` with its table, credentials and
schemes of the garbage collection; `running_ttl`; read consistency
(`memcached_key`), `running_wdepth` 0 and the write key of the client side GTIDs
(`mysqlnd_ms.c:1045`), whose check and deletion are two requests; the parsing of
GTID sets; the functions `mysqlnd_ms_set_trx` and `unset_trx`; the cache of eventual
consistency; persistent connections and failures of allocation; session commands
that only read (ping, stat); bound parameters and results; the masks of table
rules as patterns (a rule names the tables it stands for). Of what a server's section
says `Connections` has user and db: the password goes with the user, port and socket
say which server it is, `connect_flags` is not told apart. The random filter with
weights, failover and no slaves cleans a list it has not set up
(`mysqlnd_ms_filter_random.c`); `Balancing` does not show it, and no property
depends on it. An age limit of the qos filter lets any set of
slaves through (`Fresh` of `Statements`), whatever the lag of each. Several masters with
client side GTIDs. `mysqlnd_ms_xa_gc` is `gc_all` at a time chosen by the application.

*Components not modelled.* The query lexer and parser are generated from a
grammar (13 684 of the implementation's 38 002 lines) and keep nothing between calls: the models take what they say of
a statement as its description. The packet readers parse bytes and keep no
state. The Fabric lookups are XML-RPC over HTTP, whose answer is any list
of servers here. Statistics are counters that nothing reads back. The JSON
parser yields the tree `Configuration` starts from.

## Plan

The models cover what the plan set out to model, and the proofs every invariant of it; what is
left is in order of importance:

1. **Read consistency**: `memcached_key` and `running_depth` on the state of
   `WriteConsistency`; the client side write key with its race.
2. **Several masters with client side GTIDs**: the counts of `Statements` on the servers of
   `WriteConsistency`.

------------------------------- MODULE Session -------------------------------
(***************************************************************************)
(* Transactions on a connection handle of mysqlnd_ms.  The application     *)
(* sees one connection; behind it every statement goes to the server that  *)
(* the random or the round robin filter picks.  With trx_stickiness the    *)
(* plugin watches begin, commit, rollback and autocommit, sends BEGIN only *)
(* when the first statement has picked a server, and from then on uses     *)
(* that server until the transaction ends.                                 *)
(*                                                                         *)
(* Left out are the filters before these two, the hint to use the last     *)
(* connection outside a transaction, and the order in which a filter tries *)
(* its candidates: dice, weights and positions.                            *)
(***************************************************************************)
EXTENDS Integers, FiniteSets, Sequences, SequencesExt

CONSTANTS
  Masters, Slaves,  \* the lists of connections, in their order
  None,             \* no connection
  Settings,         \* the configurations to look at
  Faults,           \* what may go wrong: a subset of {"connect", "begin",
                    \* "commit", "autocommit", "lost"}
  Discipline        \* what is assumed; what each of these means stands where
                    \* it is used

Master == ToSet(Masters)
Slave == ToSet(Slaves)
Server == Master \union Slave
Order == Masters \o Slaves
Proxy == Masters[1]  \* the connection that is the application's handle

Setting == [stickiness : {"master", "on"},
            failover : {"disabled", "master", "loop"},
            retries : Nat,             \* failover_max_retries, 0 for no limit
            remember : BOOLEAN,        \* failover_remember_failed
            filter : {"random", "once", "roundrobin"},
            onWrite : BOOLEAN,         \* master_on_write
            gtid : BOOLEAN,            \* are GTIDs injected?
            report : BOOLEAN,          \* report_error of the GTIDs
            lazy : BOOLEAN]            \* lazy_connections

ASSUME ConstantsAssumption ==
  /\ Masters \in Seq(Master) /\ Slaves \in Seq(Slave)
  /\ Masters # <<>> /\ IsInjective(Order) /\ None \notin Server
  /\ Settings \subseteq Setting
  /\ Faults \subseteq {"connect", "begin", "commit", "autocommit", "lost"}
  /\ Discipline \subseteq {"flat", "nonempty", "reopen", "revealed"}

VARIABLES
  conf,     \* the configuration of the handle
  stgy,     \* the handle's mysqlnd_ms_lb_strategies
  off,      \* trx_autocommit_off of every connection
  link,     \* the state of every connection
  once,     \* sticky.master_context and slave_context of the random filter
  pc, call, \* where a statement is, and what the filter has found so far
  session,  \* the server's side of every connection
  app       \* what the application has been told

vars == <<conf, stgy, off, link, once, pc, call, session, app>>

Strategies == [in_transaction : BOOLEAN, trx_stop_switching : BOOLEAN,
               trx_read_only : BOOLEAN, trx_begin_required : BOOLEAN,
               trx_begin_mode : {"rw", "ro"}, last_used_conn : Server \union {None},
               failed_hosts : SUBSET Server, master_used : BOOLEAN]

Call == [left : SUBSET Server, tries : Nat, conn : Server \union {None}, good : BOOLEAN]
NoCall == [left |-> {}, tries |-> 0, conn |-> None, good |-> FALSE]

(* A session that is not open yet holds the autocommit mode it will get.   *)
SessionState == [autocommit : BOOLEAN, trx : {"none", "rw", "ro"}, dirty : BOOLEAN]

(* mode: of the transaction it has begun; auto: the autocommit mode; ran:  *)
(* where the statements of the current transaction were executed; sound:   *)
(* has every call since its beginning succeeded?                           *)
Application == [mode : {"none", "rw", "ro"}, auto : {"on", "off", "unknown"},
                ran : SUBSET Server, sound : BOOLEAN]

TypeOK ==
  /\ conf \in Settings
  /\ stgy \in Strategies
  /\ off \in [Server -> BOOLEAN]
  /\ link \in [Server -> {"alloced", "ready", "quit"}]
  /\ once \in [{"master", "slave"} -> Server \union {None}]
  /\ pc \in {"user", "slave", "master", "return", "run"}
  /\ call \in Call
  /\ pc = "run" => call.conn # None
  /\ session \in [Server -> SessionState]
  /\ app \in Application

Init ==
  /\ conf \in Settings
  /\ stgy = [in_transaction |-> FALSE, trx_stop_switching |-> FALSE,
             trx_read_only |-> FALSE, trx_begin_required |-> FALSE,
             trx_begin_mode |-> "rw", last_used_conn |-> None,
             failed_hosts |-> {}, master_used |-> FALSE]
  /\ off = [c \in Server |-> FALSE]
  /\ link = [c \in Server |-> IF conf.lazy THEN "alloced" ELSE "ready"]
  /\ once = [role \in {"master", "slave"} |-> None]
  /\ pc = "user" /\ call = NoCall
  /\ session = [c \in Server |-> [autocommit |-> TRUE, trx |-> "none", dirty |-> FALSE]]
  /\ app = [mode |-> "none", auto |-> "on", ran |-> {}, sound |-> TRUE]

InTrx == app.mode # "none" \/ app.auto = "off"

(* reopen: when a connection breaks the application opens a new handle.    *)
Calls == /\ pc = "user"
         /\ "reopen" \in Discipline => \A c \in Server : link[c] # "quit"

-----------------------------------------------------------------------------
(* What a server makes of a statement: it executes it, refuses it, or the  *)
(* connection breaks, which undoes what is not committed.                  *)

Outcome(fault) == {"ok"} \union (IF fault \in Faults THEN {"refused"} ELSE {})
                         \union (IF "lost" \in Faults THEN {"lost"} ELSE {})

Closed(s) == [s EXCEPT !.trx = "none", !.dirty = FALSE]

Send(c, o, effect) ==
  \/ /\ o = "ok" /\ link[c] = "ready"
     /\ session' = [session EXCEPT ![c] = effect]
     /\ UNCHANGED link
  \/ /\ o = "lost" /\ link[c] = "ready"
     /\ session' = [session EXCEPT ![c] = Closed(@)]
     /\ link' = [link EXCEPT ![c] = "quit"]
  \/ /\ o = "refused"
     /\ UNCHANGED <<session, link>>

(* On a connection that is not open every statement fails.                 *)
Answers(c, fault) == IF link[c] = "ready" THEN Outcome(fault) ELSE {"refused"}

-----------------------------------------------------------------------------
(* mysqlnd_ms_choose_connection_rr and _random: which kind of server?      *)

Pinned(which) ==
  IF ~stgy.in_transaction THEN which
  ELSE IF stgy.trx_stop_switching THEN "last_used"
  ELSE IF conf.stickiness = "on" /\ stgy.trx_read_only /\ Slave # {} THEN "slave"
  ELSE "master"

Which(which, forced) ==
  IF conf.onWrite /\ stgy.master_used /\ ~forced /\ Pinned(which) = "slave"
  THEN "master" ELSE Pinned(which)

Candidates(list) == [NoCall EXCEPT !.left = list]

Query(which, forced) ==
  /\ Calls
  /\ stgy' = [stgy EXCEPT !.master_used =
                 @ \/ (conf.onWrite /\ Pinned(which) = "master")]
  /\ \/ /\ Which(which, forced) = "slave"
        /\ pc' = "slave" /\ call' = Candidates(Slave)
     \/ /\ Which(which, forced) = "master"
        /\ pc' = "master" /\ call' = Candidates(Master)
     \/ /\ Which(which, forced) = "last_used"
        /\ pc' = "return"
        /\ call' = [NoCall EXCEPT !.conn = stgy.last_used_conn, !.good = TRUE]
  /\ UNCHANGED <<conf, off, link, once, session, app>>

-----------------------------------------------------------------------------
(* ..._use_slave and ..._use_master: try the candidates.                   *)

Return(c, good) == pc' = "return" /\ call' = [call EXCEPT !.conn = c, !.good = good]

(* The random filter stays with its first choice if it is told to.         *)
UseOnce(role) ==
  /\ pc = role /\ conf.filter = "once" /\ once[role] # None
  /\ Return(once[role], TRUE)
  /\ UNCHANGED <<conf, stgy, off, link, once, session, app>>

Trying(role, c) ==
  /\ pc = role /\ c \in call.left
  /\ conf.filter # "once" \/ once[role] = None

Remembered(c) == conf.remember /\ c \in stgy.failed_hosts

AnotherDown(c) ==  \* Mutant: the tries are counted down.
  call' = [call EXCEPT !.left = @ \ {c}, !.tries = @ - 1, !.conn = c]

Another(c) == call' = [call EXCEPT !.left = @ \ {c}, !.tries = @ + 1, !.conn = c]

SkipFailed(role, c) ==
  /\ Trying(role, c) /\ Remembered(c)
  /\ Another(c)
  /\ UNCHANGED <<conf, stgy, off, link, once, pc, session, app>>

(* An open connection will do, and a lazy one that can be opened.          *)
Use(role, c) ==
  /\ Trying(role, c) /\ ~Remembered(c)
  /\ link' = [link EXCEPT ![c] = IF @ = "alloced" THEN "ready" ELSE @]
  /\ once' = IF conf.filter = "once" THEN [once EXCEPT ![role] = c] ELSE once
  /\ Return(c, TRUE)
  /\ UNCHANGED <<conf, stgy, off, session, app>>

(* The random filter returns its last master even if it has failed.        *)
MayRetry(role, c) ==
  /\ conf.failover = "loop"
  /\ conf.retries = 0 \/ call.tries < conf.retries
  /\ role = "master" /\ call.left = {c} => conf.filter = "roundrobin"

ToMaster == pc' = "master" /\ call' = Candidates(Master)

ConnectFails(role, c) ==
  /\ Trying(role, c) /\ ~Remembered(c)
  /\ "connect" \in Faults /\ link[c] = "alloced"
  /\ stgy' = [stgy EXCEPT !.failed_hosts = IF conf.remember THEN @ \union {c} ELSE @]
  /\ \/ MayRetry(role, c) /\ Another(c) /\ UNCHANGED pc
     \/ /\ ~MayRetry(role, c)
        /\ IF role = "slave" /\ conf.failover # "disabled" THEN ToMaster
           ELSE Return(c, FALSE)
  /\ UNCHANGED <<conf, off, link, once, session, app>>

(* No candidate is left.  The round robin filter returns the last one it   *)
(* has looked at, the random filter none.                                  *)
Exhausted(role) ==
  /\ pc = role /\ call.left = {}
  /\ conf.filter # "once" \/ once[role] = None
  /\ IF role = "slave" /\ conf.failover # "disabled" THEN ToMaster
     ELSE Return(IF conf.filter = "roundrobin" THEN call.conn ELSE None, FALSE)
  /\ UNCHANGED <<conf, stgy, off, link, once, session, app>>

-----------------------------------------------------------------------------
(* return_connection, the end of mysqlnd_ms_pick_server_ex, and the        *)
(* statement itself in mysqlnd_ms::query.                                  *)

Fails == /\ pc' = "user" /\ call' = NoCall
         /\ app' = [app EXCEPT !.sound = @ /\ ~InTrx]

Proceeds(good) == IF good THEN pc' = "run" /\ UNCHANGED <<call, app>> ELSE Fails

PickedUnpinned ==  \* Mutant: switching goes on within a transaction.
  [stgy EXCEPT !.last_used_conn = IF call.conn = None THEN Proxy ELSE call.conn]

(* Whether or not a connection was found, there is no switching any more   *)
(* until the transaction has ended.                                        *)
Picked == [stgy EXCEPT !.trx_stop_switching = @ \/ stgy.in_transaction,
                       !.last_used_conn = IF call.conn = None THEN Proxy ELSE call.conn]

BeginDelayed == call.conn # None /\ stgy.in_transaction /\ stgy.trx_begin_required

NoTransaction(s) ==
  [s EXCEPT !.in_transaction = FALSE, !.trx_stop_switching = FALSE, !.trx_read_only = FALSE]

ReturnConnection ==
  /\ pc = "return" /\ ~BeginDelayed
  /\ stgy' = Picked
  /\ Proceeds(call.conn # None /\ call.good)
  /\ UNCHANGED <<conf, off, link, once, session>>

(* Mutant: the message to the filter is not taken back.                    *)
SendBeginAgain ==
  /\ pc = "return" /\ BeginDelayed
  /\ \E o \in Answers(call.conn, "begin") :
       /\ Send(call.conn, o, [session[call.conn] EXCEPT !.trx = stgy.trx_begin_mode, !.dirty = FALSE])
       /\ stgy' = IF o = "ok" THEN Picked ELSE NoTransaction(Picked)
       /\ Proceeds(call.good /\ o = "ok")
  /\ UNCHANGED <<conf, off, once>>

(* BEGIN is sent now that a server has been picked; it commits what that   *)
(* server has open.                                                        *)
SendBegin ==
  /\ pc = "return" /\ BeginDelayed
  /\ LET begun == [Picked EXCEPT !.trx_begin_required = FALSE, !.trx_begin_mode = "rw"]
     IN  \E o \in Answers(call.conn, "begin") :
           /\ Send(call.conn, o, [session[call.conn] EXCEPT !.trx = stgy.trx_begin_mode,
                                                           !.dirty = FALSE])
           /\ stgy' = IF o = "ok" THEN begun ELSE NoTransaction(begun)
           /\ Proceeds(call.good /\ o = "ok")
  /\ UNCHANGED <<conf, off, once>>

Executed(s) ==
  IF s.trx = "none" /\ s.autocommit THEN s
  ELSE [s EXCEPT !.trx = IF @ = "none" THEN "rw" ELSE @, !.dirty = s.trx # "ro"]

Run ==
  /\ pc = "run"
  /\ \E o \in Answers(call.conn, "run") :
       /\ Send(call.conn, o, Executed(session[call.conn]))
       /\ IF o = "ok"
          THEN /\ pc' = "user" /\ call' = NoCall
               /\ app' = [app EXCEPT !.ran = IF InTrx THEN @ \union {call.conn} ELSE @]
          ELSE Fails
  /\ UNCHANGED <<conf, stgy, off, once>>

-----------------------------------------------------------------------------
(* mysqlnd_ms_tx_commit_or_rollback                                        *)

TargetProxy == Proxy  \* Mutant: the handle's own connection.

Target == IF stgy.last_used_conn = None THEN Proxy ELSE stgy.last_used_conn

(* The statement is sent to the connection used last, unless that has not  *)
(* been opened.  When GTIDs are injected and that fails the call fails,    *)
(* though the transaction has ended on the server, unless such an error is *)
(* not to be reported.                                                     *)
EndOutcome ==
  IF link[Target] = "alloced" THEN {"skipped"}
  ELSE Answers(Target, "commit")
         \union (IF /\ conf.gtid /\ conf.report /\ stgy.in_transaction /\ Target \in Master
                    /\ "commit" \in Faults /\ link[Target] = "ready"
                 THEN {"not_injected"} ELSE {})

EndOnServer(o) ==
  Send(Target, IF o = "not_injected" THEN "ok" ELSE IF o = "skipped" THEN "refused" ELSE o,
       Closed(session[Target]))

Succeeds(o) == o \in {"ok", "skipped"}

(* With report_error off begin and autocommit go on after an implicit      *)
(* commit that has failed, as if it had not.                               *)
Hidden(o) == ~Succeeds(o) /\ ~conf.report

ReleasedInAutocommit == NoTransaction(stgy)  \* Mutant: with autocommit off, too.

(* With autocommit off the next statement begins another transaction.      *)
Released == IF ~off[Target] THEN NoTransaction(stgy)
            ELSE [stgy EXCEPT !.trx_stop_switching = @ /\ ~stgy.in_transaction]

AfterEnd(o) == IF o = "ok" THEN Released ELSE stgy

(* nonempty: a transaction is not ended before a statement has made the    *)
(* plugin send its BEGIN.                                                  *)
CommitOrRollback ==
  /\ Calls
  /\ "nonempty" \in Discipline =>
       InTrx /\ ~stgy.trx_begin_required /\ (app.ran # {} \/ ~app.sound)
  /\ \E o \in EndOutcome :
       /\ EndOnServer(o)
       /\ stgy' = AfterEnd(o)
       /\ app' = IF Succeeds(o)
                 THEN [app EXCEPT !.mode = "none", !.ran = {}, !.sound = TRUE]
                 ELSE [app EXCEPT !.sound = FALSE]
  /\ UNCHANGED <<conf, off, once, pc, call>>

-----------------------------------------------------------------------------
(* mysqlnd_ms::tx_begin                                                    *)

BegunOnly(s, mode) ==  \* Mutant: the mode is not passed on.
  [s EXCEPT !.in_transaction = TRUE, !.trx_stop_switching = FALSE,
            !.trx_begin_required = TRUE, !.trx_read_only = mode = "ro"]

Begun(s, mode) ==
  [s EXCEPT !.in_transaction = TRUE, !.trx_stop_switching = FALSE,
            !.trx_begin_required = TRUE, !.trx_begin_mode = mode,
            !.trx_read_only = mode = "ro"]

(* flat: no begin with autocommit off or, unless GTIDs make the plugin     *)
(* commit first, within a transaction; and autocommit is not set there.    *)
(* revealed: the application is told of a failure, unless a COMMIT was     *)
(* refused that autocommit(true) makes up for.                             *)
TxBegin(mode) ==
  /\ Calls
  /\ "flat" \in Discipline => app.auto = "on" /\ (app.mode = "none" \/ conf.gtid)
  /\ LET begin(s) == /\ stgy' = Begun(s, mode)
                     /\ app' = [app EXCEPT !.mode = mode, !.ran = {}, !.sound = TRUE]
     IN  \/ /\ ~(conf.gtid /\ stgy.in_transaction)
            /\ begin(stgy)
            /\ UNCHANGED <<link, session>>
         \/ /\ conf.gtid /\ stgy.in_transaction  \* an implicit commit
            /\ \E o \in EndOutcome :
                 /\ "revealed" \in Discipline => ~Hidden(o)
                 /\ EndOnServer(o)
                 /\ IF Succeeds(o) \/ Hidden(o) THEN begin(AfterEnd(o))
                    ELSE stgy' = stgy /\ app' = [app EXCEPT !.sound = FALSE]
  /\ UNCHANGED <<conf, off, once, pc, call>>

-----------------------------------------------------------------------------
(* mysqlnd_ms::set_autocommit                                              *)

(* Turned on after it was off, autocommit commits what is open.            *)
WithAutocommit(s, mode) ==
  IF mode /\ ~s.autocommit THEN [Closed(s) EXCEPT !.autocommit = TRUE]
  ELSE [s EXCEPT !.autocommit = mode]

(* A later connection that is not open yet hides the failures before it.   *)
Result(failed) ==
  \A i \in 1 .. Len(Order) : Order[i] \in failed =>
     \E j \in i + 1 .. Len(Order) : link[Order[j]] = "alloced"

(* Autocommit is set on all connections; the plugin's flags follow if that *)
(* has worked, on every connection that is still alive.                    *)
Flags(s, mode) == IF mode THEN NoTransaction(s) ELSE [s EXCEPT !.in_transaction = TRUE]

(* ended: where the implicit commit has ended a transaction; gone: which   *)
(* connection has broken then.                                             *)
SetOnAll(s, ended, gone, mode) ==
  \E refused \in SUBSET (IF "autocommit" \in Faults THEN Server \ gone ELSE {}),
     lost \in SUBSET (IF "lost" \in Faults THEN Server \ gone ELSE {}) :
    /\ refused \intersect lost = {}
    /\ "revealed" \in Discipline =>
         gone = {} /\ (Result(refused \union lost) <=> refused \union lost = {})
    /\ \A c \in refused \union lost : link[c] = "ready"
    /\ link' = [c \in Server |-> IF c \in lost \union gone THEN "quit" ELSE link[c]]
    /\ session' = [c \in Server |->
          LET was == IF c \in ended \union lost \union gone THEN Closed(session[c]) ELSE session[c]
          IN  IF c \in refused \/ link'[c] = "quit" THEN was ELSE WithAutocommit(was, mode)]
    /\ IF Result(refused \union lost)
       THEN /\ off' = [c \in Server |-> IF link'[c] = "quit" THEN off[c] ELSE ~mode]
            /\ stgy' = IF link'[Proxy] = "quit" THEN s ELSE Flags(s, mode)
            /\ app' = IF mode THEN [mode |-> "none", auto |-> "on", ran |-> {}, sound |-> TRUE]
                      ELSE IF app.auto = "on"
                      THEN [mode |-> "none", auto |-> "off", ran |-> {}, sound |-> TRUE]
                      ELSE app
       ELSE /\ stgy' = s
            /\ app' = [app EXCEPT !.auto = "unknown", !.sound = FALSE]
            /\ UNCHANGED off

SetAutocommit(mode) ==
  /\ Calls
  /\ "flat" \in Discipline => app.mode = "none"
  /\ IF conf.gtid /\ mode /\ off[Proxy] /\ stgy.in_transaction
     THEN \E o \in EndOutcome :                       \* an implicit commit
            \/ /\ Succeeds(o) \/ Hidden(o)
               /\ SetOnAll(AfterEnd(o), IF o = "ok" THEN {Target} ELSE {},
                           IF o = "lost" THEN {Target} ELSE {}, mode)
            \/ /\ ~Succeeds(o) /\ ~Hidden(o)
               /\ EndOnServer(o)
               /\ app' = [app EXCEPT !.auto = "unknown", !.sound = FALSE]
               /\ UNCHANGED <<stgy, off>>
     ELSE SetOnAll(stgy, {}, {}, mode)
  /\ UNCHANGED <<conf, once, pc, call>>

-----------------------------------------------------------------------------
Next ==
  \/ \E which \in {"slave", "master"}, forced \in BOOLEAN : Query(which, forced)
  \/ \E role \in {"slave", "master"} : UseOnce(role) \/ Exhausted(role)
  \/ \E role \in {"slave", "master"}, c \in Server :
        SkipFailed(role, c) \/ Use(role, c) \/ ConnectFails(role, c)
  \/ ReturnConnection \/ SendBegin \/ Run
  \/ CommitOrRollback
  \/ \E mode \in {"rw", "ro"} : TxBegin(mode)
  \/ \E mode \in BOOLEAN : SetAutocommit(mode)

Spec == Init /\ [][Next]_vars

-----------------------------------------------------------------------------
(* Properties.                                                             *)

(* What the application may rely on: no call of the current transaction    *)
(* has failed.                                                             *)
Trusted == app.sound /\ app.auto # "unknown"

(* All the statements of a transaction are executed by one server, though  *)
(* it is picked late, connections are opened late, and failover may pick   *)
(* another one (`prevents connection switches in the middle of a           *)
(* transaction', LOCAL-TRANSACTIONS.md).                                   *)
OneServer == Trusted /\ InTrx => Cardinality(app.ran) <= 1

(* A statement executed in a transaction can be undone: the server has the *)
(* transaction open, in the mode the application has asked for, though     *)
(* BEGIN was answered before any server knew of it.                        *)
CanBeUndone == Trusted /\ InTrx => \A c \in app.ran :
  session[c].trx = IF app.mode = "none" THEN "rw" ELSE app.mode

(* Only servers that executed a statement of the current transaction have  *)
(* work that is not committed: commit, rollback and a begin that commits   *)
(* first reach all of it, and a statement outside a transaction leaves     *)
(* nothing behind.                                                         *)
NothingLeftOpen == Trusted => \A c \in Server : session[c].dirty => c \in app.ran

(* A transaction that may write is executed by a master, whatever its      *)
(* statements look like and whatever has failed.                           *)
WritesOnMaster == Trusted /\ InTrx /\ app.mode # "ro" => app.ran \subseteq Master

(* Nothing but the application ends a transaction: no late or repeated     *)
(* BEGIN and no autocommit commits what has been executed half way.        *)
EndedByApplication ==
  [][Trusted /\ Trusted' => \A c \in Server :
       session[c].dirty /\ ~session'[c].dirty => app'.ran = {}]_vars

-----------------------------------------------------------------------------
(* Why it works: the inductive invariant behind these properties.          *)

(* What the plugin's flags, the autocommit mode of the servers and what    *)
(* the application knows of its transaction have to do with each other.    *)
FlagInv ==
  /\ app.mode # "none" => app.auto = "on"
  /\ app.auto = "on" => \A c \in Server : session[c].autocommit /\ ~off[c]
  /\ app.auto = "off" => \A c \in Server : ~session[c].autocommit /\ off[c]
  /\ app.auto = "off" => stgy.in_transaction
  /\ app.auto = "on" /\ app.mode = "none" => ~stgy.in_transaction
  /\ app.mode # "none" /\ ~stgy.in_transaction => ~app.sound
  /\ stgy.trx_stop_switching => stgy.in_transaction /\ stgy.last_used_conn # None
  /\ stgy.trx_read_only => stgy.in_transaction /\ (app.auto # "unknown" => app.mode = "ro")
  /\ stgy.trx_begin_required =>
       /\ stgy.in_transaction /\ app.mode # "none" /\ app.ran = {}
       /\ stgy.trx_begin_mode = app.mode

(* The server that has a transaction open is the one the plugin sticks to, *)
(* unless autocommit was turned off on some servers only.                  *)
OpenInv ==
  /\ \A c \in Server :
       /\ link[c] = "alloced" => session[c].trx = "none"
       /\ session[c].dirty => session[c].trx = "rw"
       /\ ~session[c].autocommit => session[c].trx # "ro"
       /\ session[c].trx # "none" /\ (session[c].autocommit \/ app.auto = "off") =>
            /\ c = stgy.last_used_conn /\ stgy.trx_stop_switching
            /\ ~stgy.trx_begin_required
            /\ session[c].autocommit => app.mode # "none"
  /\ app.mode # "none" /\ stgy.in_transaction /\ ~stgy.trx_begin_required =>
       stgy.trx_stop_switching /\ link[stgy.last_used_conn] # "alloced"

(* What the filter has found so far, and what it may still find.           *)
PickInv ==
  /\ once["master"] \in Master \union {None}
  /\ pc \in {"slave", "master"} => ~stgy.trx_stop_switching
  /\ pc = "slave" /\ stgy.in_transaction => stgy.trx_read_only
  /\ pc = "master" => call.left \subseteq Master /\ call.conn \in Master \union {None}
  /\ pc = "return" /\ stgy.trx_stop_switching => call.conn = stgy.last_used_conn
  /\ pc = "return" /\ stgy.in_transaction /\ ~stgy.trx_read_only =>
       call.conn \in Master \union {None}
  /\ pc = "run" => /\ call.conn = stgy.last_used_conn
                   /\ stgy.in_transaction =>
                        stgy.trx_stop_switching /\ ~stgy.trx_begin_required
  /\ stgy.trx_stop_switching /\ ~stgy.trx_read_only => stgy.last_used_conn \in Master

(* Where the statements of a transaction were executed.                    *)
WorkInv == Trusted =>
  /\ \A c \in Server : session[c].dirty => c \in app.ran
  /\ app.ran # {} => InTrx /\ stgy.trx_stop_switching /\ app.ran = {stgy.last_used_conn}
  /\ app.mode # "none" /\ ~stgy.trx_begin_required =>
       session[stgy.last_used_conn].trx = app.mode
  /\ app.auto = "off" => \A c \in app.ran : session[c].trx = "rw"

Inv == TypeOK /\ FlagInv /\ OpenInv /\ PickInv /\ WorkInv
=============================================================================

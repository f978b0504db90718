---------------------------- MODULE Connections ----------------------------
(***************************************************************************)
(* The connections of a handle: connecting to the configured servers, now  *)
(* or when a statement needs them, and the session commands (select_db,    *)
(* change_user, set_charset, options), which the application gives once    *)
(* and the plugin passes to every connection, one after the other, with    *)
(* the retry of transient errors.  A connection that is not open yet is    *)
(* told nothing: the command changes what it will be opened with.          *)
(*                                                                         *)
(* autocommit, the other command that goes everywhere, is in Session.      *)
(***************************************************************************)
EXTENDS ConnectionPool

CONSTANTS
  Masters, Slaves,   \* the configured servers, in their order
  Initial,           \* the value connect is called with, one of Value
  Section,           \* the user and the db in the section of a server, or None
  None,
  FabricAnswers,     \* the lists of servers that lookups of MySQL Fabric return
  MaxRetries,        \* transient_error_max_retries
  Given,             \* the session commands the application may give: <<cmd, value>>
  MaxCalls           \* bound: session commands, selections and global transactions
ASSUME ConnectionsAssumption ==
  /\ Masters # <<>> /\ IsInjective(Masters \o Slaves)
  /\ Element = ToSet(Masters \o Slaves)
  /\ Masters \in Seq(Element) /\ Slaves \in Seq(Element)
  /\ Initial \in Value /\ None \notin Element \union Value \union Command \union {"servers"}
  /\ Section \in [Element -> [{"user", "db"} -> Value \union {None}]]
  /\ Given \subseteq Command \X Value
  /\ FabricAnswers \subseteq Seq([host : Element, rw : BOOLEAN])
  /\ MaxRetries \in Nat /\ MaxCalls \in Nat

Proxy == Masters[1]  \* the first master's connection is the handle itself

\* What the properties tell apart of what commands set.
Setting == {"user", "db", "charset"}

VARIABLES
  conf,     \* the configuration, and the charset set before connect
  phase,    \* how far connect has come, and that the handle is closed
  pool,
  conn,     \* the state of every connection
  own,      \* what a connection is opened with: its element and its options
  session,  \* the server's side of every open connection
  server_charset,  \* the one in the plugin data of the handle
  call,     \* the session command that is being passed on
  lookup,   \* the answer of Fabric that is being worked through
  replay,   \* commands still to be replayed
  participants,  \* connections a global transaction refers to
  wanted,   \* what the application knows to be set, by connection and setting
  calls     \* how many of what MaxCalls bounds there have been

vars == <<conf, phase, pool, conn, own, session, server_charset, call, lookup, replay,
          participants, wanted, calls>>

NoCall == [cmd |-> None, value |-> None, todo |-> <<>>, ret |-> "PASS",
           retries |-> 0, transient |-> FALSE, executed |-> 0, replayed |-> FALSE]

NoLookup == [at |-> None, servers |-> <<>>, key |-> <<>>, role |-> "slave",
             active |-> FALSE, removed |-> FALSE]

Unset == [s \in Setting |-> None]

\* The settings a command gives a value to.  Options are not told apart.
SettingsOf(cmd) ==
  CASE cmd = "select_db" -> {"db"}
    [] cmd = "change_user" -> {"user", "db"}
    [] cmd = "set_charset" -> {"charset"}
    [] OTHER -> {}

With(settings, cmd, value) ==
  [s \in Setting |-> IF s \in SettingsOf(cmd) THEN value ELSE settings[s]]

-----------------------------------------------------------------------------
(* Connecting.                                                             *)

Configured(c) == IF c.fabric THEN <<>>
                 ELSE IF c.multi_master THEN Masters ELSE <<Proxy>>

\* The user and the db a server is connected with: those of its own section go
\* before what connect is called with.  Servers from Fabric have no section.
FromConnect(e) ==
  [s \in Setting |-> IF s = "charset" THEN None
                      ELSE IF conf.fabric \/ Section[e][s] = None THEN Initial
                      ELSE Section[e][s]]

\* What the application gets on a connection if connect succeeds.
AskedFor(e) ==
  [FromConnect(e) EXCEPT !["charset"] =
     IF conf.charset = None \/ (conf.lazy /\ conf.preset # None) THEN conf.preset ELSE conf.charset]

Config == [lazy : BOOLEAN, multi_master : BOOLEAN, fabric : BOOLEAN,
           charset : {None, Initial}, preset : {None} \union Value, credInKey : BOOLEAN]

Init ==
  /\ conf \in Config
  /\ conf.fabric => conf.lazy /\ conf.charset = None /\ conf.preset = None
  /\ conf.credInKey => conf.fabric
  /\ phase = [at |-> IF conf.fabric THEN "ready" ELSE "master",
              todo |-> Configured(conf), failures |-> 0]
  /\ pool = EmptyPool
  /\ conn = [e \in Element |-> "CONN_ALLOCED"]
  /\ own = [e \in Element |-> IF e = Proxy THEN [FromConnect(e) EXCEPT !["charset"] = conf.preset]
                                            ELSE FromConnect(e)]
  /\ session = [e \in Element |-> Unset]
  /\ server_charset = conf.charset
  /\ call = NoCall /\ lookup = NoLookup /\ replay = <<>> /\ participants = {}
  /\ wanted = [e \in Element |-> AskedFor(e)]
  /\ calls = 0

\* The charset of the configuration is forced on a connection; on one that is
\* opened late only if no other has been set for it since.
Forced(settings, late) ==
  IF server_charset # None /\ ~(late /\ settings["charset"] # None)
    THEN [settings EXCEPT !["charset"] = server_charset] ELSE settings

\* mysqlnd_ms_clone_client_options: what was set on the handle before connect.
Cloned(e) == [own[e] EXCEPT !["charset"] = own[Proxy]["charset"]]

\* mysqlnd_ms_connect_to_host_aux: the next server of the section.  With lazy
\* connections it joins the pool as it is; else it has to be connected first.
Join(e) ==
  /\ pool' = Add(pool, phase.at, e, <<<<e, conf.credInKey>>>>)
  /\ phase' = [phase EXCEPT !.todo = Tail(@)]

ConnectToHost ==
  /\ phase.at \in Role /\ phase.todo # <<>>
  /\ LET e == Head(phase.todo)
     IN /\ own' = [own EXCEPT ![e] = IF conf.lazy THEN Cloned(e) ELSE Forced(Cloned(e), FALSE)]
        /\ \/ conf.lazy /\ Join(e) /\ UNCHANGED <<conn, session>>
           \/ /\ ~conf.lazy /\ Join(e)
              /\ conn' = [conn EXCEPT ![e] = "CONN_READY"]
              /\ session' = [session EXCEPT ![e] = own'[e]]
           \/ /\ ~conf.lazy
              /\ phase' = [phase EXCEPT !.todo = Tail(@), !.failures = @ + 1]
              /\ UNCHANGED <<pool, conn, session>>
  /\ UNCHANGED <<conf, server_charset, call, lookup, replay, participants, wanted, calls>>

\* A server that fails does not keep the others of its section from being
\* connected, but connect fails, after the masters or after the slaves.
SectionDone ==
  /\ phase.at \in Role /\ phase.todo = <<>>
  /\ phase' = IF phase.failures > 0 THEN [phase EXCEPT !.at = "failed"]
              ELSE IF phase.at = "master" THEN [phase EXCEPT !.at = "slave", !.todo = Slaves]
              ELSE [phase EXCEPT !.at = "ready"]
  /\ UNCHANGED <<conf, pool, conn, own, session, server_charset, call, lookup, replay,
                 participants, wanted, calls>>

AtRest == phase.at = "ready" /\ call = NoCall /\ lookup = NoLookup /\ replay = <<>>

\* A filter has picked a connection: mysqlnd_ms_lazy_connect.  If it fails
\* the connection stays as it was.
LazyConnect(e) ==
  /\ AtRest /\ e \in ActiveElements(pool) /\ conn[e] = "CONN_ALLOCED"
  /\ own' = [own EXCEPT ![e] = Forced(@, TRUE)]
  /\ \/ /\ conn' = [conn EXCEPT ![e] = "CONN_READY"]
        /\ session' = [session EXCEPT ![e] = own'[e]]
     \/ UNCHANGED <<conn, session>>
  /\ UNCHANGED <<conf, phase, pool, server_charset, call, lookup, replay, participants, wanted, calls>>

\* A statement finds its connection gone.  Nothing opens it again.
Lose(e) ==
  /\ AtRest /\ conn[e] = "CONN_READY"
  /\ conn' = [conn EXCEPT ![e] = "CONN_QUIT_SENT"]
  /\ UNCHANGED <<conf, phase, pool, own, session, server_charset, call, lookup, replay,
                 participants, wanted, calls>>

\* The handle is closed: the pool goes, and every connection in it.  What that
\* means for a global transaction is in XaCoordinator.
Close ==
  /\ AtRest \/ phase.at = "failed"
  /\ phase' = [phase EXCEPT !.at = "closed"]
  /\ pool' = EmptyPool
  /\ conn' = [e \in Element |-> IF pool.entry[e].known /\ conn[e] = "CONN_READY"
                                 THEN "CONN_QUIT_SENT" ELSE conn[e]]
  /\ participants' = {}
  /\ UNCHANGED <<conf, own, session, server_charset, call, lookup, replay, wanted, calls>>

-----------------------------------------------------------------------------
(* Session commands.                                                       *)

Start(cmd, value, replayed) ==
  call' = [NoCall EXCEPT !.cmd = cmd, !.value = value, !.todo = ServerLists(pool),
                         !.replayed = replayed]

SessionCommand(cmd, value) ==
  /\ AtRest /\ calls < MaxCalls
  /\ calls' = calls + 1
  /\ pool' = Dispatch(pool, cmd, value)
  /\ Start(cmd, value, FALSE)
  /\ wanted' = [e \in Element |-> With(wanted[e], cmd, None)]
  /\ UNCHANGED <<conf, phase, conn, own, session, server_charset, lookup, replay, participants>>

\* pool_replay_cmds: the commands in the order they came, without keeping
\* them again; what one answers is forgotten when the next one answers.
Replay ==
  /\ call = NoCall /\ lookup = NoLookup /\ replay # <<>>
  /\ Start(Head(replay).cmd, Head(replay).value, TRUE)
  /\ replay' = Tail(replay)
  /\ UNCHANGED <<conf, phase, pool, conn, own, session, server_charset, lookup,
                 participants, wanted, calls>>

PassedOnTheSpot == [call EXCEPT !.retries = 0, !.executed = 0]

Passed == [call EXCEPT !.todo = Tail(@), !.retries = 0, !.executed = 0]
Refused == [Passed EXCEPT !.ret = "FAIL"]

AfterFailureOneMore(transient) ==
  IF transient /\ call.retries <= MaxRetries
    THEN [call EXCEPT !.retries = @ + 1, !.transient = TRUE]
    ELSE [Refused EXCEPT !.transient = transient]

AfterFailureUncounted(transient) ==
  IF transient THEN [call EXCEPT !.transient = TRUE] ELSE [Refused EXCEPT !.transient = FALSE]

\* The error is one of transient_error_codes, or, if the call failed without
\* an error, the last that was looked at is one: the macro leaves its result
\* as it was.
AfterFailure(transient) ==
  IF transient /\ call.retries + 1 <= MaxRetries
    THEN [call EXCEPT !.retries = @ + 1, !.transient = TRUE]
    ELSE [Refused EXCEPT !.transient = transient]

\* What goes to the server of a connection that has been opened, and the state
\* the connection must be in.
Sent(cmd, state) ==
  CASE cmd \in {"set_client_option", "ssl_set"} -> FALSE
    [] cmd = "change_user" -> state # "CONN_ALLOCED"
    [] OTHER -> state = "CONN_READY"

KeptUnlessDb(cmd, state) ==
  CASE cmd \in {"set_client_option", "ssl_set"} -> TRUE
    [] cmd \in {"set_server_option", "select_db"} -> FALSE
    [] OTHER -> state = "CONN_ALLOCED"

\* What only changes what the connection will be opened with.  A server option
\* is not kept for a connection that is not open.
Kept(cmd, state) ==
  CASE cmd \in {"set_client_option", "ssl_set"} -> TRUE
    [] cmd = "set_server_option" -> FALSE
    [] OTHER -> state = "CONN_ALLOCED"

\* The next connection of the lists, if the command is not sent to it.
Keep ==
  /\ call.todo # <<>>
  /\ LET e == Head(call.todo)
         kept == Kept(call.cmd, conn[e])
     IN /\ ~Sent(call.cmd, conn[e])
        /\ own' = IF kept THEN [own EXCEPT ![e] = With(@, call.cmd, call.value)] ELSE own
        /\ server_charset' = IF kept /\ call.cmd = "set_charset" /\ e = Proxy
                               THEN call.value ELSE server_charset
  /\ call' = Passed
  /\ UNCHANGED <<conf, phase, pool, conn, session, lookup, replay, participants, wanted, calls>>

\* Options and the charset are kept by the library, which may refuse them;
\* only set_charset is tried again.
KeepFails ==
  /\ call.todo # <<>>
  /\ call.cmd \in {"set_client_option", "ssl_set", "set_charset"}
  /\ LET e == Head(call.todo)
     IN Kept(call.cmd, conn[e]) /\ ~Sent(call.cmd, conn[e])
  /\ IF call.cmd = "set_charset" THEN \E transient \in BOOLEAN : call' = AfterFailure(transient)
                                 ELSE call' = Refused
  /\ UNCHANGED <<conf, phase, pool, conn, own, session, server_charset, lookup, replay,
                 participants, wanted, calls>>

\* The command is sent to the server of an open connection, which executes it;
\* if the connection breaks before the answer is there, it is broken for good
\* and the error may be one that is retried.
Executes ==
  /\ call.todo # <<>>
  /\ LET e == Head(call.todo)
     IN /\ Sent(call.cmd, conn[e]) /\ conn[e] = "CONN_READY"
        /\ session' = [session EXCEPT ![e] = With(@, call.cmd, call.value)]
        /\ \/ call' = Passed /\ UNCHANGED conn
           \/ /\ conn' = [conn EXCEPT ![e] = "CONN_QUIT_SENT"]
              /\ \E transient \in BOOLEAN :
                   LET after == AfterFailure(transient)
                   IN call' = IF after.todo = call.todo THEN [after EXCEPT !.executed = @ + 1]
                                                        ELSE after
  /\ UNCHANGED <<conf, phase, pool, own, server_charset, lookup, replay, participants,
                 wanted, calls>>

\* The server refuses it, or it does not get there.  A connection that is
\* closed refuses everything.
Refuses ==
  /\ call.todo # <<>>
  /\ LET e == Head(call.todo)
     IN /\ Sent(call.cmd, conn[e])
        /\ \/ UNCHANGED conn
           \/ conn' = [conn EXCEPT ![e] = "CONN_QUIT_SENT"]
  /\ \E transient \in BOOLEAN : call' = AfterFailure(transient)
  /\ UNCHANGED <<conf, phase, pool, own, session, server_charset, lookup, replay,
                 participants, wanted, calls>>

Return ==
  /\ call # NoCall /\ call.todo = <<>>
  /\ wanted' = IF call.ret = "PASS" /\ ~call.replayed
                 THEN [e \in Element |-> With(wanted[e], call.cmd, call.value)]
                 ELSE wanted
  /\ call' = NoCall
  /\ UNCHANGED <<conf, phase, pool, conn, own, session, server_charset, lookup, replay,
                 participants, calls>>

-----------------------------------------------------------------------------
(* Global transactions refer to connections, so that the pool keeps them.  *)

\* A connection becomes a participant.
Enlist(e) ==
  /\ AtRest /\ conn[e] = "CONN_READY" /\ e \in ActiveElements(pool) \ participants
  /\ participants' = participants \union {e}
  /\ pool' = AddReference(pool, e)
  /\ UNCHANGED <<conf, phase, conn, own, session, server_charset, call, lookup, replay,
                 wanted, calls>>

\* The global transaction is over: one reference less for every participant.
XaDone ==
  /\ AtRest /\ participants # {} /\ calls < MaxCalls
  /\ calls' = calls + 1
  /\ pool' = FreeReferences(pool, Cardinality(participants))
  /\ participants' = {}
  /\ UNCHANGED <<conf, phase, conn, own, session, server_charset, call, lookup, replay,
                 wanted>>

-----------------------------------------------------------------------------
(* MySQL Fabric: the active servers are exchanged for those of a shard.    *)

\* mysqlnd_ms_fabric_select_servers.  If the lookup fails nothing is active
\* any more and nobody is told.
FabricSelect(servers) ==
  /\ AtRest /\ conf.fabric /\ calls < MaxCalls
  /\ calls' = calls + 1
  /\ pool' = FlushActive(pool)
  /\ \/ UNCHANGED lookup
     \/ lookup' = [NoLookup EXCEPT !.at = "servers", !.servers = servers]
  /\ UNCHANGED <<conf, phase, conn, own, session, server_charset, call, replay,
                 participants, wanted>>

\* One server of the answer.  The key is appended to that of the server
\* before, and what connection_exists answers is replaced by a test of two
\* flags that it only sets when it finds something.
Visit ==
  /\ lookup.servers # <<>>
  /\ LET server == Head(lookup.servers)
         key == Append(lookup.key, <<server.host, FALSE>>)
         found == Found(pool, key)
         known == CHOOSE e \in found : TRUE
         next == [lookup EXCEPT !.servers = Tail(@), !.key = key]
         seen == IF found = {} THEN next
                 ELSE [next EXCEPT !.role = RoleOf(pool, known),
                                   !.active = pool.entry[known].active,
                                   !.removed = pool.entry[known].removed]
         exists == ~seen.active /\ ~seen.removed
         mode == IF server.rw THEN "master" ELSE "slave"
         lazily == Add(pool, mode, server.host, <<<<server.host, conf.credInKey>>>>)
     IN /\ lookup' = seen
        /\ pool' = IF ~exists THEN lazily
                   ELSE IF found = {} THEN pool
                   ELSE IF seen.role = "master" /\ server.rw
                     THEN Reactivated(pool, "master", known)
                   ELSE IF Removed(pool, known).status = "PASS" THEN lazily
                   ELSE pool
  /\ UNCHANGED <<conf, phase, conn, own, session, server_charset, call, replay,
                 participants, wanted, calls>>

\* All servers are there: the commands that were kept are replayed.
Selected ==
  /\ lookup.at = "servers" /\ lookup.servers = <<>>
  /\ lookup' = NoLookup /\ replay' = pool.buffered_cmds
  /\ UNCHANGED <<conf, phase, pool, conn, own, session, server_charset, call,
                 participants, wanted, calls>>

-----------------------------------------------------------------------------

PassOn == Keep \/ KeepFails \/ Executes \/ Refuses \/ Return \/ Visit \/ Selected \/ Replay

Next ==
  \/ ConnectToHost \/ SectionDone \/ PassOn \/ XaDone \/ Close
  \/ \E e \in Element : LazyConnect(e) \/ Lose(e) \/ Enlist(e)
  \/ \E given \in Given : SessionCommand(given[1], given[2])
  \/ \E servers \in FabricAnswers : FabricSelect(servers)

\* The loop over the connections runs without anything in between.
Spec == Init /\ [][Next]_vars /\ WF_vars(PassOn)

-----------------------------------------------------------------------------
\* The phases, the states of the connections and what is set on them.
TypeOK ==
  /\ conf \in Config
  /\ phase \in [at : Role \union {"ready", "failed", "closed"}, todo : Seq(Element), failures : Nat]
  /\ pool \in Pool
  /\ conn \in [Element -> {"CONN_ALLOCED", "CONN_READY", "CONN_QUIT_SENT"}]
  /\ own \in [Element -> [Setting -> Value \union {None}]]
  /\ session \in [Element -> [Setting -> Value \union {None}]]
  /\ server_charset \in Value \union {None}
  /\ wanted \in [Element -> [Setting -> Value \union {None}]]
  /\ call \in [cmd : Command \union {None}, value : Value \union {None}, todo : Seq(Element),
               ret : {"PASS", "FAIL"}, retries : 0 .. MaxRetries, transient : BOOLEAN,
               executed : Nat, replayed : BOOLEAN]
  /\ lookup \in [at : {None, "servers"}, servers : Seq([host : Element, rw : BOOLEAN]),
                 key : Seq(Element \X BOOLEAN), role : Role, active : BOOLEAN, removed : BOOLEAN]
  /\ replay \in Seq(Buffer)
  /\ participants \subseteq Element

\* What a statement will meet on a connection: the state of its server, or
\* what the connection will be opened with.
Effective(e) ==
  IF conn[e] = "CONN_ALLOCED" THEN Forced(own[e], TRUE) ELSE session[e]

\* Whatever has been given once and has been confirmed holds on every
\* connection a filter may pick, whether it was open then, is open now or will
\* be opened, and so does, for as long as nothing has been given, what the
\* section of its server says, or else what connect was called with: after a
\* session command no statement runs as another user, in another database or
\* with another charset because of the server it is sent to.  The connections
\* that broke cannot be picked any more.
Agree ==
  AtRest => \A e \in ActiveElements(pool), s \in {"user", "db", "charset"} :
    wanted[e][s] # None /\ conn[e] # "CONN_QUIT_SENT" => Effective(e)[s] = wanted[e][s]

\* A connection that a running global transaction needs has one reference
\* more than the pool's own, although references are given back to the first
\* connection of the pool whoever held them.
ParticipantsReferenced ==
  \A e \in participants : pool.entry[e].ref >= 2

\* A retry is for a command that failed: a server whose answer was seen is not
\* told again, however the failures of the servers before it were classified,
\* and none is told more often than transient_error_max_retries allows.
RetryBounded ==
  /\ call.retries <= MaxRetries
  /\ call.executed <= call.retries

\* The application gets an answer, however many servers refuse.
CallReturns == (call # NoCall) ~> (call = NoCall)
-----------------------------------------------------------------------------
(* Why it works: the inductive invariant behind Agree and the others.      *)

Holds(e, s, value) == conn[e] # "CONN_QUIT_SENT" => Effective(e)[s] = value

\* A participant has one reference, and the pool has one.
PoolInv ==
  /\ participants \subseteq ActiveElements(pool)
  /\ phase.at \in Role => participants = {}
  /\ ~conf.fabric => pool.active = pool.list
  /\ \A e \in ActiveElements(pool) : pool.entry[e].ref >= 1

\* With Fabric the pool stays empty: a selection can only bring back servers
\* that were in it.
FabricInv ==
  /\ conf.fabric => /\ pool.list = EmptyPool.list /\ pool.active = EmptyPool.active
                    /\ phase.at \notin Role
  /\ lookup # NoLookup \/ replay # <<>> \/ call.replayed => conf.fabric
  /\ ~lookup.active /\ ~lookup.removed

\* While connect is under way.
ConnectInv == phase.at \in Role =>
  /\ call = NoCall /\ server_charset = conf.charset
  /\ wanted = [e \in Element |-> AskedFor(e)]
  /\ \A e \in Element :
       /\ \A s \in {"user", "db"} : own[e][s] = FromConnect(e)[s]
       /\ conn[e] = IF ~conf.lazy /\ e \in ActiveElements(pool) THEN "CONN_READY" ELSE "CONN_ALLOCED"
  /\ own[Proxy]["charset"] = conf.preset \/ (~conf.lazy /\ own[Proxy]["charset"] = conf.charset
                                                       /\ conf.charset # None)

\* While a command is passed on, nothing is known of what it sets, except on the
\* connections that have got it.
PassInv ==
  /\ call # NoCall => call.cmd \in Command /\ call.value \in Value
  /\ ~call.replayed => \A e \in Element, s \in SettingsOf(call.cmd) : wanted[e][s] = None
  /\ \A s \in Setting, e \in ActiveElements(pool) :
       /\ wanted[e][s] # None => Holds(e, s, wanted[e][s])
       /\ s \in SettingsOf(call.cmd) /\ call.ret = "PASS" /\ e \notin ToSet(call.todo)
            => Holds(e, s, call.value)

Inv == TypeOK /\ PoolInv /\ FabricInv /\ ConnectInv /\ PassInv
       /\ ParticipantsReferenced /\ RetryBounded
=============================================================================

---------------------------- MODULE Configuration ----------------------------
(* How a connection handle gets its servers, filters and options from the  *)
(* configuration.  The configuration file is parsed once into a tree that  *)
(* all threads share, and the tree is read THROUGH ITS CURSORS: every      *)
(* array has one internal position; reading a value that is a list returns *)
(* the element at the position and moves it, next_sub_section walks the    *)
(* servers, the filters and their settings by moving it.  A connect holds  *)
(* the lock of the tree while it reads and rewinds what it has read before *)
(* it releases the lock; a fatal PHP error leaves it by a long jump, with  *)
(* the lock held and the positions wherever they are.                      *)
(*                                                                         *)
(* A tree maps paths to nodes: [keys |-> sequence of keys] is an array,    *)
(* [str |-> what the string reader returns, num |-> what the integer       *)
(* reader returns] a scalar.  The file mysqlnd_ms.config_file has its      *)
(* sections at the paths <<section>>; a file of mysqlnd_ms.config_dir is a *)
(* section of its own, parsed by the thread that connects and private to   *)
(* it.  The reading of one array element, one option, one server or one    *)
(* filter is deterministic, so a connect is a sequence of Step's on a job. *)
EXTENDS Integers, FiniteSets, SequencesExt, TLC

CONSTANTS
  Null,          \* a NULL pointer, "nobody"
  Threads,
  Files,         \* version of the configuration file -> its tree
  HostTree,      \* the tree of the files in config_dir
  HostFile,      \* host -> path of its file's section, for hosts that have one
  Hosts,         \* the hosts applications connect to
  Envs,          \* [zts, handler, force, multiMaster, outage]
  Credentials,   \* what the application passes to connect, by server option
  Placeholders,  \* #DB, #USER, #SID, ... -> the value that replaces it
  Charsets,      \* the character sets mysqlnd knows
  MaxConnects, MaxChanges,
  Discipline

\* What is in one of two functions.
Beside(f, g) == [x \in DOMAIN f \cup DOMAIN g |-> IF x \in DOMAIN f THEN f[x] ELSE g[x]]

IsArray(node) == "keys" \in DOMAIN node

IsTree(tree) ==
  \A p \in DOMAIN tree :
    p \in Seq(STRING) \ {<<>>} /\ (IsArray(tree[p]) => tree[p].keys \in Seq(STRING))

\* JSON: entries have names, and what has entries is an array; the sections of the
\* file and those of config_dir have different names.
ASSUME ConfigurationAssumption ==
  /\ Null \notin Threads \cup {"dead", "FAIL", "plain"}
  /\ IsTree(HostTree) /\ \A f \in DOMAIN Files : IsTree(Files[f])
  /\ \A f \in DOMAIN Files : \A p \in DOMAIN Files[f] :
       /\ \A h \in DOMAIN HostFile : ~IsPrefix(HostFile[h], p)
       /\ Len(p) > 1 => <<p[1]>> \in DOMAIN Files[f] /\ IsArray(Files[f][<<p[1]>>])
  /\ \A p \in DOMAIN HostTree : \E h \in DOMAIN HostFile : IsPrefix(HostFile[h], p)
  /\ \A h \in DOMAIN HostFile : Len(HostFile[h]) = 1 /\ HostFile[h] \in DOMAIN HostTree
  /\ \A e \in Envs : /\ {e.zts, e.handler, e.force, e.multiMaster} \subseteq BOOLEAN
                      /\ IsFiniteSet(e.outage)  \* hosts, "gtid"
  \* with the option "memcached" the process dies (mysqlnd_ms.c:3066: strlen(NULL)), and
  \* weights that are no list are read as one (mysqlnd_ms_lb_weights.c:103)
  /\ \A f \in DOMAIN Files : \A p \in DOMAIN Files[f] \cup DOMAIN HostTree :
       /\ Last(p) # "memcached"
       /\ Last(p) = "weights" => IsArray(Beside(Files[f], HostTree)[p])

VARIABLES
  env,       \* how PHP is built and configured, and what cannot be reached
  disk,      \* the version of the configuration file on disk
  loaded,    \* the version the shared tree was parsed from
  cursor,    \* array of the shared tree -> its internal position
  left,      \* the sections an aborted connect has left unrewound
  lock,      \* the thread that holds LOCK_access, or Null
  thr,       \* thread -> [pc, host, ret, job, own, startup, ref, fresh]: ref is not in the
             \* code, it is the same connect with a tree, fresh, that nobody has read before
  connects, changes

counters == <<connects, changes>>

vars == <<env, disk, loaded, cursor, left, lock, thr, counters>>

----------------------------------------------------------------------------
(* Reading the tree *)

Trees == [f \in DOMAIN Files |-> Beside(Files[f], HostTree)]

Start(tree) == [p \in {q \in DOMAIN tree : IsArray(tree[q])} |-> 0]

Index == <<"0", "1", "2", "3", "4", "5", "6", "7">>

Exists(j, p) == p \in DOMAIN j.tree

Node(j, p) == j.tree[p]

IsSection(j, p) == Exists(j, p) /\ IsArray(Node(j, p))

Keys(j, p) == Node(j, p).keys

IsObjectList(j, p) ==
  IsSection(j, p) /\ \A k \in ToSet(Keys(j, p)) : IsSection(j, Append(p, k))

AtEnd(j, p) == j.cur[p] = Len(Keys(j, p))

CurrentKey(j, p) == Keys(j, p)[j.cur[p] + 1]

\* Moves the positions of the arrays at paths on, unless they are at the end.
Advance(j, paths) ==
  [j EXCEPT !.cur = [p \in DOMAIN @ |-> IF p \in paths /\ ~AtEnd(j, p) THEN @[p] + 1 ELSE @[p]]]

Moved(j, p, n) == [j EXCEPT !.cur[p] = @ + n]

Remaining(j, p) ==
  IF IsSection(j, p) THEN SubSeq(Keys(j, p), j.cur[p] + 1, Len(Keys(j, p))) ELSE <<>>

\* Reading the entry at p returns Value(j, p), and if it is a list moves its position:
\* Advance(j, {p}).
Readable(j, p) == Exists(j, p) /\ ~IsArray(Node(j, p)) /\ Node(j, p).str # Null

Missing == [exists |-> FALSE, list |-> FALSE, str |-> Null, num |-> 0]

Scalar(node, list) == [exists |-> TRUE, list |-> list, str |-> node.str, num |-> node.num]

Value(j, p) ==
  IF ~Exists(j, p) THEN Missing
  ELSE IF ~IsArray(Node(j, p)) THEN Scalar(Node(j, p), FALSE)
  ELSE IF AtEnd(j, p) \/ ~Readable(j, Append(p, CurrentKey(j, p)))
    THEN [Missing EXCEPT !.list = TRUE]
    ELSE Scalar(Node(j, Append(p, CurrentKey(j, p))), TRUE)

IsBoolFalse(str) == str \in {Null, "0", "false", "off", "aus"}

\* A plausible slip: the section is rewound, not the arrays in it.
RewoundShallow(cur, p) == [q \in DOMAIN cur |-> IF q = p THEN 0 ELSE cur[q]]

Rewound(cur, p) == [q \in DOMAIN cur |-> IF IsPrefix(p, q) THEN 0 ELSE cur[q]]

Parsed(str) == IF str \in DOMAIN Placeholders THEN Placeholders[str] ELSE str

----------------------------------------------------------------------------
(* Errors.  E_ERROR always leaves connect; E_RECOVERABLE_ERROR does unless *)
(* the application has installed an error handler, and then only the error *)
(* of the handle is set.                                                   *)

Fatal(j) == [j EXCEPT !.stop = "fatal"]

Recoverable(j) == IF j.env.handler THEN [j EXCEPT !.err = TRUE] ELSE Fatal(j)

Ends(j, ret) == [j EXCEPT !.stop = ret]

Require(j, ok) == IF ok \/ j.stop # "no" THEN j ELSE Recoverable(j)

\* Of n entries, those at wrong in error, the ones that are read: up to the first
\* error, or all of them if the application handles errors.
Reached(j, wrong, n) == {i \in 1 .. n : j.env.handler \/ \A w \in wrong : i <= w}

----------------------------------------------------------------------------
(* Options: key in the options of the handle, path below the section that  *)
(* is read, range, default; single: a list is refused; required: so is     *)
(* leaving it out.                                                         *)

Unbounded == 2147483647

Option(kind, path, range, default, single) ==
  [kind |-> kind, key |-> path, path |-> path, range |-> range, default |-> default,
   single |-> single, required |-> FALSE]

IntOption(path, lo, hi, default) == Option("int", path, <<lo, hi>>, default, FALSE)
BoolOption(path, default) == Option("bool", path, <<>>, default, FALSE)
TextOption(path) == Option("text", path, <<>>, Null, TRUE)
RawOption(path) == Option("raw", path, <<>>, Null, TRUE)
EnumOption(path, values, default) == Option("enum", path, values, default, FALSE)
Single(o) == [o EXCEPT !.single = TRUE]

Trx(name) == <<"global_transaction_id_injection", name>>

GtidQueries ==
  <<TextOption(Trx("on_commit")), TextOption(Trx("fetch_last_gtid")), TextOption(Trx("check_for_gtid"))>>

RunningOptions ==
  <<IntOption(Trx("module"), 65535, Unbounded, 0), IntOption(Trx("running_depth"), 0, 255, 0),
    IntOption(Trx("running_wdepth"), 0, 255, 20), IntOption(Trx("qc_ttl"), 0, 255, 0),
    BoolOption(Trx("use_get"), FALSE)>>

GtidTypeOptions ==
  <<IntOption(Trx("type"), 0, 3, 0), BoolOption(Trx("on_connect"), FALSE), BoolOption(Trx("auto_clean"), TRUE)>>

MemcachedOptions ==
  <<RawOption(Trx("memcached_host")), TextOption(Trx("memcached_key")), TextOption(Trx("memcached_wkey")),
    TextOption(Trx("wc_uuid")), IntOption(Trx("memcached_port"), 1, 65535, 0),
    IntOption(Trx("memcached_port_add_hack"), 1, 65535, 0)>>

WaitOptions ==
  <<IntOption(Trx("wait_for_wgtid_timeout"), 0, 65535, 6),
    IntOption(Trx("throttle_wgtid_timeout"), 0, 65535, 0), IntOption(Trx("race_avoid"), 0, 7, 0),
    IntOption(Trx("gtid_block_size"), 0, Unbounded, 0), IntOption(Trx("running_ttl"), 0, 2592000, 600),
    IntOption(Trx("memcached_debug_ttl"), 0, 2592000, 0), BoolOption(Trx("report_error"), TRUE),
    IntOption(Trx("wait_for_gtid_timeout"), 0, 65535, 0)>>

TrxOptions == GtidQueries \o RunningOptions \o GtidTypeOptions \o MemcachedOptions \o WaitOptions

LazyOption == BoolOption(<<"lazy_connections">>, TRUE)

CharsetOption == Option("raw", <<"server_charset">>, <<>>, Null, FALSE)

FailoverStrategy ==
  EnumOption(<<"failover", "strategy">>, {"disabled", "master", "loop_before_master"}, "disabled")

FailoverOptions ==
  <<IntOption(<<"failover", "max_retries">>, 0, 65535, 1), BoolOption(<<"failover", "remember_failed">>, FALSE)>>

WriteOptions ==
  <<BoolOption(<<"master_on_write">>, FALSE),
    EnumOption(<<"trx_stickiness">>, {"master", "on"}, "disabled")>>

TransientOptions ==
  <<IntOption(<<"transient_error", "max_retries">>, 0, 65535, 1),
    IntOption(<<"transient_error", "usleep_retry">>, 0, 30000000, 100)>>

StateStore == <<"xa", "state_store">>

InStore(name) == <<"xa", "state_store", "mysql", name>>

StoreConnection ==
  <<Single(IntOption(InStore("port"), 0, 65535, 0)), RawOption(InStore("socket")),
    RawOption(InStore("host")), RawOption(InStore("user")), RawOption(InStore("password")),
    RawOption(InStore("db")), Single(IntOption(InStore("connect_flags"), 0, Unbounded, 0))>>

TableOption(name, default) == Option("table", InStore(name), <<>>, default, TRUE)

StoreTables ==
  <<TableOption("global_trx_table", "mysqlnd_ms_xa_trx"),
    TableOption("participant_table", "mysqlnd_ms_xa_participants"),
    TableOption("garbage_collection_table", "mysqlnd_ms_xa_gc")>>

ParticipantOptions ==
  <<[RawOption(<<"xa", "state_store", "participant_localhost_ip">>) EXCEPT !.required = TRUE],
    Single(BoolOption(<<"xa", "state_store", "record_participant_credentials">>, FALSE))>>

RollbackOption == Single(BoolOption(<<"xa", "rollback_on_close">>, FALSE))

GcOptions ==
  LET at(name) == <<"xa", "garbage_collection", name>> IN
  <<Single(IntOption(at("max_retries"), 0, 100, 5)),
    Single(IntOption(at("max_transactions_per_run"), 1, 32768, 100)),
    Single(IntOption(at("probability"), 0, 1000, 5))>>

FabricOptions ==
  <<IntOption(<<"fabric", "timeout">>, -Unbounded, Unbounded, 5),
    BoolOption(<<"fabric", "trx_warn_serverlist_changes">>, FALSE),
    EnumOption(<<"fabric", "strategy">>, {"dump", "direct"}, "dump")>>

ServerOptions ==
  <<Single(IntOption(<<"connect_flags">>, 0, Unbounded, 0)), Single(IntOption(<<"port">>, 0, 65535, 0)),
    RawOption(<<"socket">>), RawOption(<<"user">>), RawOption(<<"password">>), RawOption(<<"db">>),
    [Option("host", <<"host">>, <<>>, Null, TRUE) EXCEPT !.required = TRUE]>>

AllOptions ==
  TrxOptions \o <<LazyOption, CharsetOption, FailoverStrategy>> \o FailoverOptions
    \o WriteOptions \o TransientOptions \o StoreConnection \o StoreTables
    \o ParticipantOptions \o <<RollbackOption>> \o GcOptions \o FabricOptions

Defaults ==
  [k \in {o.key : o \in ToSet(AllOptions)} \cup {<<"transient_error">>, StateStore}
   |-> IF k = <<"transient_error">> THEN {} ELSE IF k = StateStore THEN FALSE
       ELSE (CHOOSE o \in ToSet(AllOptions) : o.key = k).default]

Given(o, v) == v.exists /\ (o.kind \in {"int", "host"} \/ v.str # Null)

Refused(o, v) ==
  \/ o.kind = "int" /\ (v.num < o.range[1] \/ v.num > o.range[2])
  \/ o.kind = "table" /\ v.str = ""

Taken(o, v, old) ==
  CASE o.kind = "int" -> v.num
    [] o.kind = "bool" -> ~IsBoolFalse(v.str)
    [] o.kind = "text" -> Parsed(v.str)
    [] o.kind = "enum" -> IF v.str \in o.range THEN v.str ELSE old
    [] OTHER -> v.str

Invalid(o, v, into) ==
  \/ o.required /\ ~Given(o, v)
  \/ o.single /\ v.list /\ (Given(o, v) \/ into = "server")
  \/ Given(o, v) /\ Refused(o, v)

\* Options read below base; into is "opts", or "server" for those of a server.
Read(j, base, into, options) ==
  LET v == [i \in DOMAIN options |-> Value(j, base \o options[i].path)]
      wrong == {i \in DOMAIN options : Invalid(options[i], v[i], into)}
      reached == Reached(j, wrong, Len(options))
      taken == {i \in reached \ wrong : Given(options[i], v[i])}
      new == [key \in {options[i].key : i \in taken} |->
                LET i == CHOOSE i \in taken : options[i].key = key
                IN Taken(options[i], v[i], j[into][key])]
  IN IF j.stop # "no" THEN j
     ELSE Require([Advance(j, {base \o options[i].path : i \in reached}) EXCEPT
                     ![into] = new @@ @, !.bad = @ \/ (into = "server" /\ wrong # {})],
                  wrong = {})

ReadSection(j, sub, options) ==
  IF IsSection(j, j.section \o sub) THEN Read(j, j.section, "opts", options) ELSE j

ReadCharset(j) ==
  LET k == Read(j, j.section, "opts", <<CharsetOption>>)
  IN IF k.stop # "no" \/ k.opts[CharsetOption.key] \in Charsets \cup {Null} THEN k ELSE Fatal(k)

----------------------------------------------------------------------------
(* Servers: master_connections, then slave_connections *)

OptionsRead(j) ==
  IF j.stop # "no" THEN j
  ELSE IF \A list \in {"master", "slave"} : Exists(j, Append(j.hosts, list))
    THEN [j EXCEPT !.step = "master"]
    ELSE Fatal(j)

LoadOptions(j) ==
  OptionsRead(ReadCharset(Read(ReadSection(j, <<"global_transaction_id_injection">>, TrxOptions),
                               j.section, "opts", <<LazyOption>>)))

\* Only a connection that is opened now, or a GTID store that is asked now, can fail now.
CannotConnect(j) ==
  /\ ~j.opts[<<"lazy_connections">>] \/ j.opts[Trx("type")] # 0
  /\ j.server[<<"host">>] \in j.env.outage

Connected(j, list, name, host) ==
  LET first == list = "master" /\ j.master = <<>>
  IN IF j.stop # "no" \/ host.list \/ ~host.exists THEN j
     ELSE IF CannotConnect(j) THEN [j EXCEPT !.bad = TRUE, !.err = TRUE]
     ELSE [j EXCEPT ![list] = Append(@, [name |-> name, cred |-> j.server]),
                    !.err = @ /\ ~(first /\ ~j.opts[<<"lazy_connections">>])]

AddServer(j, list, sub, name) ==
  Connected(Read([j EXCEPT !.server = Credentials], sub, "server", ServerOptions),
            list, name, Value(j, Append(sub, "host")))

\* mysqlnd_ms_connect_to_host is left with ret; an error that nobody counted as a
\* failure ends the connect just as a failure does, but with PASS.
EndOfList(j, list) ==
  IF j.stop # "no" THEN j
  ELSE IF j.bad THEN Ends(j, "FAIL")
  ELSE IF j.err THEN Ends(j, "PASS")
  ELSE [j EXCEPT !.step = IF list = "master" THEN "slave" ELSE "filters"]

\* Without multi_master the first master is the last.
AfterServer(j, list) ==
  IF list = "master" /\ ~j.env.multiMaster THEN EndOfList(j, list) ELSE j

NextServer(j, list) ==
  LET p == Append(j.hosts, list) IN
  IF ~IsSection(j, p) THEN EndOfList(j, list)
  ELSE IF ~IsObjectList(j, p) THEN EndOfList(AddServer(j, list, p, ""), list)
  ELSE IF AtEnd(j, p) THEN EndOfList(j, list)
  ELSE AfterServer(AddServer(Advance(j, {p}), list, Append(p, CurrentKey(j, p)), CurrentKey(j, p)),
                   list)

----------------------------------------------------------------------------
(* Filters *)

ServerNames(j) == {s.name : s \in ToSet(j.master \o j.slave)}

NamesDiffer(j) == Cardinality(ServerNames(j)) = Len(j.master) + Len(j.slave)

AllOrNoneWeighed(j) == Require(j, j.made = <<>> \/ DOMAIN j.made = ServerNames(j))

\* j.made becomes the weights by name of the server.
Weights(j, p) ==
  LET unread == Remaining(j, p)
      v == [i \in DOMAIN unread |-> Value(j, Append(p, unread[i]))]
      wrong == {i \in DOMAIN unread :
                  unread[i] \notin ServerNames(j) \/ (v[i].exists /\ v[i].num \notin 0 .. 65535)}
      reached == Reached(j, wrong, Len(unread))
      known == {i \in reached : unread[i] \in ServerNames(j)}
      weighed == {i \in reached \ wrong : v[i].exists}
      k == Require([j EXCEPT !.made = <<>>], NamesDiffer(j))
  IN IF k.stop # "no" THEN k
     ELSE AllOrNoneWeighed(Require(
            [Moved(Advance(k, {Append(p, unread[i]) : i \in known}), p, Cardinality(reached)) EXCEPT
               !.made = [name \in {unread[i] : i \in weighed} |->
                           v[CHOOSE i \in weighed : unread[i] = name].num]],
            wrong = {}))

RoundRobinFilter(j, p) ==
  LET unread == Remaining(j, p)
      at == {i \in DOMAIN unread : unread[i] = "weights"}
      k == [Moved(j, p, IF at = {} THEN Len(unread) ELSE CHOOSE i \in at : TRUE) EXCEPT !.made = <<>>]
      weighed == IF at = {} THEN k ELSE Weights(k, Append(p, "weights"))
  IN IF IsObjectList(j, p) THEN [weighed EXCEPT !.made = [weights |-> @]]
     ELSE [j EXCEPT !.made = [weights |-> <<>>]]

Sticky(v, old) == IF v.exists /\ v.str # Null THEN ~IsBoolFalse(v.str) ELSE old

\* The settings up to the first without a name, or to weights that are fatal; when
\* all have been passed "sticky" is looked for once more.
RandomSettings(j, p) ==
  LET keys == Remaining(j, p)
      named == {i \in DOMAIN keys : \A m \in 1 .. i - 1 : keys[m] \notin ToSet(Index)}
      given(key) == {i \in named : keys[i] = key}
      k == IF given("weights") = {} THEN [j EXCEPT !.made = <<>>]
           ELSE Weights(j, Append(p, "weights"))
      passed == {i \in named : k.stop = "no" \/ \A m \in given("weights") : i <= m}
      sticky == Append(p, "sticky")
      early == given("sticky") \cap passed # {}
      once == IF early THEN Advance(k, {sticky}) ELSE k
      first == early /\ Sticky(Value(k, sticky), FALSE)
  IN [Moved(IF k.stop # "no" THEN once ELSE Advance(once, {sticky}), p, Cardinality(passed)) EXCEPT
        !.made = [weights |-> @, sticky |-> Sticky(Value(once, sticky), first)]]

\* The filter without a section, which is the default, is sticky.
RandomFilter(j, p) ==
  IF p = Null THEN [j EXCEPT !.made = [weights |-> <<>>, sticky |-> TRUE]]
  ELSE IF IsSection(j, p) THEN RandomSettings(j, p)
  ELSE [j EXCEPT !.made = [weights |-> <<>>, sticky |-> FALSE]]

UserFilter(j, p) ==
  LET v == Value(j, Append(p, "callback"))
      k == Advance(j, {Append(p, "callback")})
  IN IF v.exists THEN [k EXCEPT !.made = [callback |-> v.str]] ELSE Fatal(k)

\* The strings under keys, up to the first that is missing.
Strings(j, p, keys) ==
  LET read == {i \in DOMAIN keys : \A m \in 1 .. i : Readable(j, Append(p, keys[m]))}
  IN [i \in 1 .. Cardinality(read) |-> Node(j, Append(p, keys[i])).str]

\* The servers of a group are read by their index.
Listed(j, p) == IF IsSection(j, p) THEN Strings(j, p, Index) ELSE <<>>

Group(j, p) ==
  LET masters == Listed(j, Append(p, "master"))
      slaves == Listed(j, Append(p, "slave"))
      known == ServerNames(j)
  IN [masters |-> ToSet(masters) \cap known, slaves |-> ToSet(slaves) \cap known,
      valid |-> /\ ToSet(masters \o slaves) \subseteq known
                /\ IsInjective(masters) /\ IsInjective(slaves)]

\* A group needs a master, unless there is none.
GroupsFilter(j, p) ==
  LET new == [j EXCEPT !.made = <<>>]
      k == Require(new, NamesDiffer(j))
      unread == Remaining(j, p)
      group == [i \in DOMAIN unread |-> Group(j, Append(p, unread[i]))]
      wrong == {i \in DOMAIN unread :
                  ~(group[i].valid /\ (group[i].masters # {} \/ j.master = <<>>))}
      reached == Reached(j, wrong, Len(unread))
      named(name) == group[CHOOSE i \in reached : unread[i] = name]
  IN IF ~IsObjectList(j, p) THEN new
     ELSE IF k.stop # "no" THEN k
     ELSE Require([Moved(k, p, Cardinality(reached)) EXCEPT
                     !.made = [name \in {unread[i] : i \in reached} |->
                                 [masters |-> named(name).masters, slaves |-> named(name).slaves]]],
                  wrong = {})

\* The servers of a rule are read through the cursor of the list, not by index.
IsRule(j, p) == IsSection(j, p) /\ ~IsObjectList(j, p)

RuleServers(j, p) == IF IsRule(j, p) THEN Strings(j, p, Remaining(j, p)) ELSE <<>>

\* After the last one is read, one more is tried.
RuleEnd(j, p) ==
  LET read == j.cur[p] + Len(RuleServers(j, p))
  IN IF read < Len(Keys(j, p)) THEN read + 1 ELSE read

TableFilter(j, p) ==
  LET rules == Append(p, "rules")
      masks == ToSet(Remaining(j, rules))
      lists == {q \in {rules \o <<mask, role>> : mask \in masks, role \in {"master", "slave"}} :
                  IsRule(j, q)}
  IN IF ~IsObjectList(j, rules) THEN [j EXCEPT !.made = <<>>]
     ELSE [j EXCEPT
             !.cur = [q \in DOMAIN @ |-> IF q \in lists THEN RuleEnd(j, q)
                                         ELSE IF q = rules THEN Len(Keys(j, q)) ELSE @[q]],
             !.made = [mask \in masks |->
                         [masters |-> RuleServers(j, rules \o <<mask, "master">>),
                          slaves |-> RuleServers(j, rules \o <<mask, "slave">>)]]]

Levels == {"strong_consistency", "session_consistency", "eventual_consistency"}

QosFilter(j, p) ==
  LET level == {l \in Levels : Value(j, Append(p, l)).exists}
      eventual == Append(p, "eventual_consistency")
      option == {o \in {"age", "cache"} :
                   /\ level = {"eventual_consistency"}
                   /\ Readable(j, Append(eventual, o))}
      k == Advance(j, {Append(p, l) : l \in Levels})
  IN IF Cardinality(level) # 1 \/ Cardinality(option) = 2 THEN Fatal(k)
     ELSE [k EXCEPT !.made = [consistency |-> level,
                              option |-> [o \in option |-> Node(j, Append(eventual, o)).num]]]

Multi ==
  [roundrobin |-> FALSE, random |-> FALSE, user |-> FALSE, user_multi |-> TRUE,
   table |-> TRUE, quality_of_service |-> TRUE, node_groups |-> TRUE]

Construct(j, name, p) ==
  CASE name = "roundrobin" -> RoundRobinFilter(j, p)
    [] name = "random" -> RandomFilter(j, p)
    [] name \in {"user", "user_multi"} -> UserFilter(j, p)
    [] name = "table" -> TableFilter(j, p)
    [] name = "quality_of_service" -> QosFilter(j, p)
    [] name = "node_groups" -> GroupsFilter(j, p)

Constructed(j, name) ==
  IF j.stop # "no" THEN j
  ELSE [j EXCEPT !.filters = Append(@, [name |-> name, data |-> j.made]), !.made = Null]

\* A plausible slip: a filter is appended whatever comes before it.
AddFilterAnywhere(j, name, p) ==
  IF name \notin DOMAIN Multi THEN Ends(j, "FAIL") ELSE Constructed(Construct(j, name, p), name)

\* A filter that picks one server must be the last.
AddFilter(j, name, p) ==
  IF name \notin DOMAIN Multi THEN Ends(j, "FAIL")
  ELSE IF j.filters # <<>> /\ ~Multi[Last(j.filters).name] THEN Ends(j, "FAIL")
  ELSE Constructed(Construct(j, name, p), name)

FiltersDone(j) == IF j.stop # "no" THEN j ELSE [j EXCEPT !.step = "strategy"]

\* An entry of the filters is name: settings, or just a name.
NextFilter(j) ==
  LET p == Append(j.section, "filters") IN
  IF ~IsSection(j, p) \/ (AtEnd(j, p) /\ j.filters = <<>>)
    THEN FiltersDone(AddFilter(j, "random", Null))
  ELSE IF AtEnd(j, p)
    THEN IF Multi[Last(j.filters).name] THEN Ends(j, "FAIL") ELSE FiltersDone(j)
  ELSE LET key == CurrentKey(j, p)
           entry == Append(p, key)
           listed == key \in ToSet(Index)
       IN IF listed /\ IsSection(j, entry) THEN Ends(Advance(j, {p}), "FAIL")
          ELSE AddFilter(Advance(j, {p}), IF listed THEN Node(j, entry).str ELSE key, entry)

----------------------------------------------------------------------------
(* Load balancing strategy, XA, GTIDs *)

\* failover: {"strategy": ...}, or the older failover: [...].
LoadFailover(j) ==
  LET f == Append(j.section, "failover")
      strategy == IF Value(j, Append(f, "strategy")).exists THEN FailoverStrategy
                  ELSE [FailoverStrategy EXCEPT !.path = <<"failover">>]
  IN ReadSection(j, <<"failover">>, <<strategy>> \o FailoverOptions)

\* The codes count up to the first that is no number.
TransientCodes(j, codes) ==
  LET read == {i \in DOMAIN codes : \A k \in 1 .. i : codes[k] # 0}
  IN IF j.stop # "no" THEN j
     ELSE Require([j EXCEPT !.opts[<<"transient_error">>] = {codes[i] : i \in read} \cap 1 .. 9999],
                  \A i \in read : codes[i] \in 1 .. 9999)

LoadTransient(j) ==
  LET codes == j.section \o <<"transient_error", "mysql_error_codes">>
      k == ReadSection(j, <<"transient_error">>, TransientOptions)
  IN IF ~IsSection(j, codes) THEN k
     ELSE TransientCodes(k, [i \in DOMAIN Listed(j, codes) |-> Node(j, Append(codes, Index[i])).num])

LoadStrategy(j) == LoadTransient(Read(LoadFailover(j), j.section, "opts", WriteOptions))

\* A host that is refused takes the socket with it.
StoreAddress(j, host) ==
  [j EXCEPT !.opts[StateStore] = TRUE,
            !.opts[InStore("socket")] = IF host.list /\ host.exists THEN Null ELSE @]

StoreServer(j) ==
  LET mysql == j.section \o StateStore \o <<"mysql">>
  IN IF ~IsSection(j, mysql) THEN Require(j, FALSE)
     ELSE Read(StoreAddress(Read(j, j.section, "opts", StoreConnection),
                            Value(j, Append(mysql, "host"))),
               j.section, "opts", StoreTables)

LoadStore(j) ==
  IF IsSection(j, j.section \o StateStore)
  THEN Read(StoreServer(j), j.section, "opts", ParticipantOptions) ELSE j

LoadGc(j) ==
  IF ~IsSection(j, j.section \o <<"xa", "garbage_collection">>) THEN j
  ELSE IF j.opts[StateStore] THEN Read(j, j.section, "opts", GcOptions)
  ELSE Require(j, FALSE)

LoadXa(j) ==
  IF j.stop # "no" \/ ~IsSection(j, Append(j.section, "xa")) THEN j
  ELSE LoadGc(Read(LoadStore(j), j.section, "opts", <<RollbackOption>>))

\* With on_connect the GTID of the servers is read now, if some filter wants it.
GtidFails(j) ==
  /\ j.opts[Trx("on_connect")] /\ j.opts[Trx("type")] # 0 /\ "gtid" \in j.env.outage
  /\ \E f \in ToSet(j.filters) :
       /\ f.name = "quality_of_service"
       /\ f.data.consistency = {"session_consistency"}
  /\ j.opts[Trx("report_error")]

Finished(j) ==
  IF j.stop # "no" THEN j ELSE Ends(j, IF ~j.fabric /\ GtidFails(j) THEN "FAIL" ELSE "PASS")

Finish(j) ==
  Finished(IF j.fabric THEN LoadStrategy(j) ELSE LoadXa(LoadStrategy(j)))

----------------------------------------------------------------------------
(* MySQL Fabric: the servers come from Fabric hosts, whose urls are listed *)

FabricUrl(j, p) ==
  IF Readable(j, Append(p, "url")) THEN <<Node(j, Append(p, "url")).str>>
  ELSE IF Readable(j, Append(p, "host"))
    THEN <<Node(j, Append(p, "host")).str, Value(j, Append(p, "port")).num>>
    ELSE Null

FabricRead(j, hosts, urls) ==
  LET k == [j EXCEPT !.cur[hosts] = Len(Keys(j, hosts))]
  IN IF j.stop # "no" THEN j
     ELSE IF urls = <<>> \/ Null \in ToSet(urls) THEN Fatal(k)
     ELSE [k EXCEPT !.urls = urls, !.step = "filters"]

LoadFabric(j) ==
  LET f == Append(j.section, "fabric")
      hosts == Append(f, "hosts")
      k == IF IsSection(j, f) THEN [j EXCEPT !.cur[f] = Len(Keys(j, f))] ELSE j
      unread == Remaining(j, hosts)
  IN IF ~IsSection(j, f) \/ ~IsSection(j, hosts) THEN Fatal(k)
     ELSE FabricRead(ReadCharset(Read(k, j.section, "opts", FabricOptions)), hosts,
                     [i \in DOMAIN unread |-> FabricUrl(j, Append(hosts, unread[i]))])

----------------------------------------------------------------------------
(* A connect, step by step *)

\* Between its steps a job has no tree: see With.
Job(e, file, section) ==
  LET fabric == Append(section, "fabric") \in DOMAIN Trees[file] IN
  [env |-> e, file |-> file, tree |-> <<>>, cur |-> <<>>, section |-> section, hosts |-> section,
   fabric |-> fabric, clean |-> TRUE, step |-> IF fabric THEN "fabric" ELSE "options",
   opts |-> Defaults, server |-> Credentials, master |-> <<>>, slave |-> <<>>,
   filters |-> <<>>, made |-> Null, urls |-> <<>>, err |-> FALSE, bad |-> FALSE, stop |-> "no"]

\* The job with the tree as it is now, of which it sees its section and its servers.
Within(j, p) == \E s \in {j.section, j.hosts} : IsPrefix(s, p)

With(j, positions) ==
  [j EXCEPT !.tree = Trees[j.file], !.cur = Restrict(positions, {p \in DOMAIN positions : Within(j, p)})]

Step(j) ==
  IF j.stop # "no" THEN j
  ELSE CASE j.step = "options" -> LoadOptions(j)
         [] j.step = "fabric" -> LoadFabric(j)
         [] j.step \in {"master", "slave"} -> NextServer(j, j.step)
         [] j.step = "filters" -> NextFilter(j)
         [] j.step = "strategy" -> Finish(j)

----------------------------------------------------------------------------
(* Threads *)

Idle == [pc |-> "idle", host |-> Null, ret |-> Null, job |-> Null, own |-> Start(HostTree),
         startup |-> FALSE, ref |-> Null, fresh |-> <<>>]

Init ==
  /\ env \in Envs
  /\ disk \in DOMAIN Files
  /\ loaded = disk
  /\ cursor = Start(Files[disk])
  /\ left = {} /\ lock = Null /\ connects = 0 /\ changes = 0
  /\ thr = [t \in Threads |-> [Idle EXCEPT !.startup = DOMAIN Files[disk] = {}]]

\* The mutex exists only in thread-safe builds; the others have one thread.
MayLock == lock = Null \/ ~env.zts

HoldBy(t) == lock' = IF env.zts THEN t ELSE Null

Runs(t) == env.zts \/ \A u \in Threads \ {t} : thr[u].pc = "idle"

\* The section the host has, in its own file or in the shared configuration.
SectionOf(file, h) ==
  IF h \in DOMAIN HostFile THEN HostFile[h]
  ELSE IF <<h>> \in DOMAIN Files[file] THEN <<h>>
  ELSE Null

Shared(p) == p \in DOMAIN cursor

\* hosts_group names the section of the servers; it is looked up in the shared
\* configuration even when the section is a file of its own.
HostsOf(j) ==
  LET v == Value(j, Append(j.section, "hosts_group"))
  IN IF v.str = Null THEN j.section ELSE <<Parsed(v.str)>>

Opened(j) ==
  IF j.fabric THEN j
  ELSE [Advance(j, {Append(j.section, "hosts_group")}) EXCEPT !.hosts = HostsOf(j)]

ChangeFile ==
  /\ changes < MaxChanges
  /\ disk' \in DOMAIN Files \ {disk}
  /\ changes' = changes + 1
  /\ UNCHANGED <<env, loaded, cursor, left, lock, thr, connects>>

\* RINIT: a configuration file that has changed is parsed anew; the tree and its
\* mutex are freed whoever uses them ("quiet" is the habit of changing the file
\* only when no other request is connecting).
NewRequest(t) ==
  /\ Runs(t) /\ thr[t].pc \in {"idle", "returned", "dead"}
  /\ disk # loaded \/ thr[t].pc = "dead"
  /\ MayLock
  /\ "quiet" \in Discipline /\ disk # loaded =>
       \A u \in Threads \ {t} : thr[u].pc \notin {"lock", "load"}
  /\ loaded' = disk
  /\ cursor' = IF disk = loaded THEN cursor ELSE Start(Files[disk])
  /\ left' = IF disk = loaded THEN left ELSE {}
  /\ thr' = [thr EXCEPT ![t] =
               [Idle EXCEPT !.startup = IF disk = loaded THEN thr[t].startup
                                        ELSE DOMAIN Files[disk] = {}]]
  /\ UNCHANGED <<env, disk, lock, counters>>

\* What connect does before it reads the section: Null if it goes on to read it.
Outcome(t, h) ==
  IF env.force /\ thr[t].startup /\ ~env.handler THEN "dead"
  ELSE IF SectionOf(loaded, h) # Null THEN Null
  ELSE IF env.force THEN "FAIL"
  ELSE "plain"

Connect(t, h) ==
  LET ret == Outcome(t, h)
      job == IF ret # Null THEN Null ELSE Job(env, loaded, SectionOf(loaded, h))
  IN
  /\ Runs(t) /\ thr[t].pc \in {"idle", "returned"} /\ connects < MaxConnects
  /\ h \in DOMAIN HostFile \/ MayLock
  /\ connects' = connects + 1
  /\ thr' = [thr EXCEPT
       ![t].pc = IF ret = Null THEN "lock" ELSE IF ret = "dead" THEN "dead" ELSE "returned",
       ![t].host = h, ![t].ret = ret,
       ![t].job = job, ![t].ref = job,
       ![t].fresh = IF ret # Null THEN <<>> ELSE Start(Trees[loaded])]
  /\ UNCHANGED <<env, disk, loaded, cursor, left, lock, changes>>

\* The positions of the shared tree and of the thread's own one, together.
Current(t) == With(thr[t].job, Beside(cursor, thr[t].own))

Reference(t) == With(thr[t].ref, thr[t].fresh)

Kept(positions, j) == [p \in DOMAIN positions |-> IF p \in DOMAIN j.cur THEN j.cur[p] ELSE positions[p]]

Parted(j) == [j EXCEPT !.cur = <<>>, !.tree = <<>>]

\* Thread t has gone on with its job to j; r is where the reference has got to.
Keep(t, j, r) ==
  /\ cursor' = Kept(cursor, j)
  /\ thr' = [thr EXCEPT ![t].pc = "load", ![t].own = Kept(@, j), ![t].job = Parted(j),
                        ![t].ref = Parted(r), ![t].fresh = Kept(@, r)]

\* A plausible slip: a section in a file of its own is read without the lock.
NeedsLockForSection(j) == Shared(j.section)

\* The lock protects whatever of the shared tree is read.
NeedsLock(j) == Shared(j.section) \/ Shared(j.hosts)

Open(t) ==
  LET j == Opened(Current(t))
      clean == {j.section, j.hosts} \cap left = {}
  IN
  /\ thr[t].pc = "lock"
  /\ NeedsLock(j) => MayLock
  /\ IF NeedsLock(j) THEN HoldBy(t) ELSE UNCHANGED lock
  /\ Keep(t, [j EXCEPT !.clean = clean], [Opened(Reference(t)) EXCEPT !.clean = clean])
  /\ UNCHANGED <<env, disk, loaded, left, counters>>

Load(t) ==
  /\ thr[t].pc = "load" /\ thr[t].job.stop = "no"
  /\ Keep(t, Step(Current(t)), Step(Reference(t)))
  /\ UNCHANGED <<env, disk, loaded, left, lock, counters>>

Return(t) ==
  LET j == thr[t].job IN
  /\ thr[t].pc = "load" /\ j.stop \in {"PASS", "FAIL"}
  /\ cursor' = Rewound(Rewound(cursor, j.hosts), j.section)
  /\ lock' = IF lock = t THEN Null ELSE lock
  /\ thr' = [thr EXCEPT ![t].pc = "returned", ![t].ret = j.stop,
                        ![t].own = Start(HostTree), ![t].fresh = <<>>]
  /\ UNCHANGED <<env, disk, loaded, left, counters>>

\* The long jump of a fatal error.
Abort(t) ==
  LET j == thr[t].job IN
  /\ thr[t].pc = "load" /\ j.stop = "fatal"
  /\ left' = left \cup {p \in {j.section, j.hosts} : Shared(p)}
  /\ thr' = [thr EXCEPT ![t].pc = "dead", ![t].ret = "fatal",
                        ![t].own = Start(HostTree), ![t].fresh = <<>>]
  /\ UNCHANGED <<env, disk, loaded, cursor, lock, counters>>

Next ==
  \/ ChangeFile
  \/ \E t \in Threads :
       \/ NewRequest(t)
       \/ \E h \in Hosts : Connect(t, h)
       \/ Open(t)
       \/ Load(t)
       \/ Return(t)
       \/ Abort(t)

Spec == Init /\ [][Next]_vars

----------------------------------------------------------------------------
(* Properties *)

\* Every position is inside its array, the holder of the lock is in a connect or
\* was killed in one, and a tree nobody reads is rewound except where a fatal
\* error left it.
TypeOK ==
  /\ disk \in DOMAIN Files /\ loaded \in DOMAIN Files
  /\ DOMAIN cursor = DOMAIN Start(Files[loaded])
  /\ \A p \in DOMAIN cursor : cursor[p] \in 0 .. Len(Files[loaded][p].keys)
  /\ \A t \in Threads : thr[t].pc \in {"idle", "lock", "load", "returned", "dead"}
  /\ lock \in Threads => env.zts /\ thr[lock].pc \in {"load", "dead"}
  /\ (\A t \in Threads : thr[t].pc # "load") =>
       \A p \in DOMAIN cursor : cursor[p] # 0 => \E s \in left : IsPrefix(s, p)

Handle(j) ==
  [ret |-> j.stop, masters |-> j.master, slaves |-> j.slave, filters |-> j.filters,
   opts |-> j.opts, urls |-> j.urls]

\* What a connect gets from the configuration does not depend on the connects
\* before it or beside it: the shared positions are rewound and locked
\* (mysqlnd_ms.c:3718-3778), unless a fatal error left the section as it was.
AsConfigured ==
  \A t \in Threads :
    thr[t].pc = "returned" /\ thr[t].job # Null /\ thr[t].job.clean =>
      Handle(thr[t].job) = Handle(thr[t].ref)

Names(entries) == [i \in DOMAIN entries |-> entries[i].name]

ListedNames(j, p) ==
  IF ~IsSection(j, p) THEN <<>> ELSE IF IsObjectList(j, p) THEN Keys(j, p) ELSE <<"">>

ListedFilters(j) ==
  LET p == Append(j.section, "filters")
      name(key) == IF key \in ToSet(Index) THEN Node(j, Append(p, key)).str ELSE key
  IN IF ~IsSection(j, p) \/ Keys(j, p) = <<>> THEN <<"random">>
     ELSE [i \in 1 .. Len(Keys(j, p)) |-> name(Keys(j, p)[i])]

\* A connect that succeeds and in which no error was swallowed has every server
\* and every filter of its section in the order of the file - of the masters the
\* first, without multi_master - and exactly its last filter picks one server
\* (mysqlnd_ms_switch.c:371-380, 493-503).
AsListed ==
  \A t \in Threads :
    LET j == With(thr[t].job, <<>>) IN
    thr[t].pc = "returned" /\ thr[t].ret = "PASS" /\ j.clean /\ ~j.err =>
      /\ Names(j.filters) = ListedFilters(j)
      /\ \A i \in DOMAIN j.filters : Multi[j.filters[i].name] = (i < Len(j.filters))
      /\ ~j.fabric =>
           LET masters == ListedNames(j, Append(j.hosts, "master")) IN
           /\ Names(j.slave) = ListedNames(j, Append(j.hosts, "slave"))
           /\ Names(j.master) = IF env.multiMaster \/ masters = <<>> THEN masters
                                ELSE <<masters[1]>>

=============================================================================

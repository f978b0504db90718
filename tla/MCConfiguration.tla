--------------------------- MODULE MCConfiguration ---------------------------
(* A configuration file with one section for every way of reading one, a   *)
(* file an administrator broke, and a host with a file of its own whose    *)
(* servers are in the shared configuration.                                *)
EXTENDS Configuration

CONSTANTS t1, t2

At(p, tree) ==
  [q \in {p \o r : r \in DOMAIN tree} |-> tree[SubSeq(q, Len(p) + 1, Len(q))]]

Object(keys, values) ==
  FoldLeft(LAMBDA tree, i : tree @@ At(<<keys[i]>>, values[i]),
           <<>> :> [keys |-> keys], [i \in DOMAIN keys |-> i])

List(values) == Object(SubSeq(Index, 1, Len(values)), values)

String(s) == <<>> :> [str |-> s, num |-> 0]

Number(n) == <<>> :> [str |-> ToString(n), num |-> n]

Server(host) == Object(<<"host">>, <<String(host)>>)

\* Everything a section can say: lists of names, servers with settings, weights,
\* a consistency level that is a list, the older failover syntax, XA, retries.
App ==
  Object(<<"lazy_connections", "master", "slave", "filters", "failover", "transient_error",
           "xa", "global_transaction_id_injection">>,
    <<String("off"),
      Object(<<"m1">>, <<Object(<<"host", "port", "user">>,
                                <<String("h1"), Number(3307), String("#U")>>)>>),
      Object(<<"s1", "s2">>, <<Server("h2"), Server("h3")>>),
      Object(<<"quality_of_service", "random">>,
        <<Object(<<"session_consistency">>, <<Number(1)>>),
          Object(<<"weights", "sticky">>,
            <<Object(<<"m1", "s1", "s2">>, <<Number(1), Number(2), Number(3)>>), Number(1)>>)>>),
      List(<<String("loop_before_master")>>),
      Object(<<"max_retries", "mysql_error_codes">>,
             <<Number(3), List(<<Number(1213), Number(1297)>>)>>),
      Object(<<"state_store", "garbage_collection">>,
        <<Object(<<"mysql", "participant_localhost_ip">>,
            <<Object(<<"host", "global_trx_table">>, <<String("h9"), String("x")>>), String("ip")>>),
          Object(<<"probability">>, <<Number(0)>>)>>),
      Object(<<"type", "on_connect", "memcached_key">>,
             <<Number(1), List(<<Number(1)>>), String("#U")>>)>>)

\* The servers of another section, and every filter that reads names of servers.
Grouped ==
  Object(<<"hosts_group", "filters">>,
    <<String("app"),
      Object(<<"node_groups", "table", "quality_of_service", "roundrobin">>,
        <<Object(<<"a">>, <<Object(<<"master", "slave">>,
                                   <<List(<<String("m1")>>), List(<<String("s1")>>)>>)>>),
          Object(<<"rules">>,
            <<Object(<<"d.t">>, <<Object(<<"master", "slave">>,
                      <<List(<<String("m1")>>), List(<<String("s1"), String("s2")>>)>>)>>)>>),
          Object(<<"eventual_consistency">>, <<Object(<<"age">>, <<Number(7)>>)>>),
          Object(<<"weights">>,
            <<Object(<<"m1", "s1", "s2">>, <<Number(1), Number(0), Number(2)>>)>>)>>)>>)

\* Two masters and no filters; one option is out of range, or a server's port is.
Wrong(option, port) ==
  Object(<<"master", "slave", "failover", "global_transaction_id_injection">>,
    <<Object(<<"m1", "m2">>, <<Server("h1"), Object(<<"host", "port">>,
                                                    <<String("h2"), Number(port)>>)>>),
      Object(<<"s1">>, <<Server("h3")>>),
      Object(<<"strategy">>, <<String("master")>>),
      Object(<<"running_ttl">>, <<Number(option)>>)>>)

\* One server in each list, written without a name, and some list of filters.
Simple(filters) ==
  Object(<<"master", "slave", "filters">>, <<Server("h1"), Server("h2"), filters>>)

Fabric ==
  Object(<<"fabric", "filters">>,
    <<Object(<<"timeout", "hosts">>,
             <<Number(9), List(<<Object(<<"url">>, <<String("u1")>>),
                                 Object(<<"host", "port">>, <<String("h5"), Number(80)>>)>>)>>),
      List(<<String("roundrobin")>>)>>)

Callback == Object(<<"callback">>, <<String("pick")>>)

Whole ==
  Object(<<"app", "group", "ttl", "port", "user", "lost", "last", "what", "fabric">>,
    <<App, Grouped, Wrong(-1, 1), Wrong(1, 70000),
      Simple(Object(<<"user_multi", "user">>, <<Callback, Callback>>)),
      Simple(Object(<<"user">>, <<Number(1)>>)),
      Simple(Object(<<"table">>, <<Object(<<"rules">>, <<List(<<>>)>>)>>)),
      Simple(List(<<String("random"), String("roundrobin")>>)), Fabric>>)

Without(tree, p) == [q \in DOMAIN tree \ {p} |-> tree[q]]

FilesValue == "good" :> Without(Whole, <<>>) @@ "broken" :> <<>>

HostTreeValue ==
  At(<<"/own">>, Object(<<"hosts_group", "filters">>,
                        <<String("app"), List(<<String("roundrobin")>>)>>))

HostFileValue == "own" :> <<"/own">>

HostsValue ==
  {"app", "group", "ttl", "port", "user", "lost", "last", "what", "fabric", "own", "none"}

EnvsValue ==
  {e \in [zts : BOOLEAN, handler : BOOLEAN, force : BOOLEAN, multiMaster : BOOLEAN,
          outage : {{}, {"h3"}, {"gtid"}}] :
     /\ e.force => ~e.zts /\ e.outage = {}
     /\ "gtid" \in e.outage => ~e.handler
     /\ e.multiMaster => e.handler /\ e.outage = {}}

Symmetry == Permutations(Threads)

CredentialsValue ==
  [k \in {o.key : o \in ToSet(ServerOptions)} |->
     IF k \in {<<"port">>, <<"connect_flags">>} THEN 0 ELSE "app"]

PlaceholdersValue == "#U" :> "someone"
=============================================================================

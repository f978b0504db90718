--------------------------- MODULE ConnectionsProofs ---------------------------
(***************************************************************************)
(* What the connections of a handle have in common, for any number of      *)
(* servers, session commands and retries: the proofs of the safety         *)
(* properties of Connections from its invariant Inv.                       *)
(***************************************************************************)
EXTENDS Connections, FiniteSetTheorems, TLAPS

-----------------------------------------------------------------------------
(* Lists of connections.                                                   *)

(* One more at the end.                                                    *)
LEMMA ToSetAppend ==
  ASSUME NEW S, NEW s \in Seq(S), NEW e \in S
  PROVE  ToSet(Append(s, e)) = ToSet(s) \union {e}
<1>1. DOMAIN Append(s, e) = 1 .. Len(s) + 1 /\ DOMAIN s = 1 .. Len(s) /\ Len(s) \in Nat
  OBVIOUS
<1>2. /\ \A i \in 1 .. Len(s) : Append(s, e)[i] = s[i]
      /\ Append(s, e)[Len(s) + 1] = e
  OBVIOUS
<1> QED
  BY <1>1, <1>2 DEF ToSet

(* A list and what is left of it.                                          *)
LEMMA ToSetTail ==
  ASSUME NEW S, NEW s \in Seq(S), s # <<>>
  PROVE  /\ Head(s) \in S /\ Tail(s) \in Seq(S) /\ Tail(s) # s
         /\ ToSet(s) = {Head(s)} \union ToSet(Tail(s))
<1>1. /\ Len(s) \in Nat \ {0} /\ Tail(s) \in Seq(S) /\ Len(Tail(s)) = Len(s) - 1
      /\ Head(s) = s[1] /\ \A i \in 1 .. Len(s) - 1 : Tail(s)[i] = s[i + 1]
      /\ DOMAIN s = 1 .. Len(s) /\ DOMAIN Tail(s) = 1 .. Len(s) - 1
  OBVIOUS
<1>2. ToSet(s) \subseteq {Head(s)} \union ToSet(Tail(s))
  <2> SUFFICES ASSUME NEW i \in 1 .. Len(s), i # 1 PROVE s[i] \in ToSet(Tail(s))
    BY <1>1 DEF ToSet
  <2>1. i - 1 \in 1 .. Len(s) - 1 /\ Tail(s)[i - 1] = s[i]
    BY <1>1
  <2> QED
    BY <1>1, <2>1 DEF ToSet
<1>3. {Head(s)} \union ToSet(Tail(s)) \subseteq ToSet(s)
  <2>1. \A i \in 1 .. Len(s) - 1 : i + 1 \in 1 .. Len(s) /\ Tail(s)[i] = s[i + 1]
    BY <1>1
  <2>2. 1 \in 1 .. Len(s)
    BY <1>1
  <2> QED
    BY <1>1, <2>1, <2>2 DEF ToSet
<1>4. Tail(s) # s
  <2> DEFINE t == Tail(s)
             n == Len(s)
  <2>1. Len(t) = n - 1 /\ n \in Nat
    BY <1>1
  <2> HIDE DEF t, n
  <2>2. Len(t) # n
    BY <2>1
  <2> QED
    BY <2>2, Zenon DEF t, n
<1>5. ToSet(s) = {Head(s)} \union ToSet(Tail(s))
  BY <1>2, <1>3
<1>6. Head(s) \in S
  BY <1>1
<1> QED
  BY <1>1, <1>4, <1>5, <1>6

(* One list after the other.                                               *)
LEMMA ToSetConcat ==
  ASSUME NEW S, NEW s \in Seq(S), NEW t \in Seq(S)
  PROVE  s \o t \in Seq(S) /\ ToSet(s \o t) = ToSet(s) \union ToSet(t)
<1>1. /\ s \o t \in Seq(S) /\ DOMAIN (s \o t) = 1 .. Len(s) + Len(t)
      /\ Len(s) \in Nat /\ Len(t) \in Nat
      /\ DOMAIN s = 1 .. Len(s) /\ DOMAIN t = 1 .. Len(t)
      /\ \A i \in 1 .. Len(s) + Len(t) :
           (s \o t)[i] = IF i <= Len(s) THEN s[i] ELSE t[i - Len(s)]
  OBVIOUS
<1>2. ToSet(s \o t) \subseteq ToSet(s) \union ToSet(t)
  <2> SUFFICES ASSUME NEW i \in 1 .. Len(s) + Len(t)
               PROVE  (s \o t)[i] \in ToSet(s) \union ToSet(t)
    BY <1>1 DEF ToSet
  <2>1. CASE i <= Len(s)
    <3>1. i \in 1 .. Len(s) /\ (s \o t)[i] = s[i]
      BY <1>1, <2>1
    <3> QED
      BY <1>1, <3>1 DEF ToSet
  <2>2. CASE i > Len(s)
    <3>1. i - Len(s) \in 1 .. Len(t) /\ (s \o t)[i] = t[i - Len(s)]
      BY <1>1, <2>2
    <3> QED
      BY <1>1, <3>1 DEF ToSet
  <2> QED
    BY <1>1, <2>1, <2>2
<1>3. ToSet(s) \subseteq ToSet(s \o t)
  <2> SUFFICES ASSUME NEW i \in 1 .. Len(s) PROVE s[i] \in ToSet(s \o t)
    BY <1>1 DEF ToSet
  <2>1. i \in 1 .. Len(s) + Len(t) /\ (s \o t)[i] = s[i]
    BY <1>1
  <2> QED
    BY <1>1, <2>1 DEF ToSet
<1>4. ToSet(t) \subseteq ToSet(s \o t)
  <2> SUFFICES ASSUME NEW i \in 1 .. Len(t) PROVE t[i] \in ToSet(s \o t)
    BY <1>1 DEF ToSet
  <2>1. Len(s) + i \in 1 .. Len(s) + Len(t) /\ (s \o t)[Len(s) + i] = t[i]
    BY <1>1
  <2> QED
    BY <1>1, <2>1 DEF ToSet
<1> QED
  BY <1>1, <1>2, <1>3, <1>4

(* Nothing.                                                                *)
LEMMA ToSetEmpty == \A s : s = <<>> => ToSet(s) = {}
  BY DEF ToSet

(* The handle's own connection is one of them, and there are finitely many. *)
LEMMA ElementFacts == Proxy \in Element /\ IsFiniteSet(Element)
<1>1. Masters[1] \in Element
  BY ConnectionsAssumption
<1> DEFINE all == Masters \o Slaves
<1>2. all \in Seq(Element) /\ Element = ToSet(all)
  BY ConnectionsAssumption, ToSetConcat
<1> HIDE DEF all
<1>3. DOMAIN all = 1 .. Len(all) /\ Len(all) \in Nat /\ all \in [1 .. Len(all) -> Element]
  BY <1>2
<1>4. IsFiniteSet(1 .. Len(all))
  BY <1>3, FS_Interval
<1>5. all \in Surjection(1 .. Len(all), Element)
  BY <1>2, <1>3 DEF ToSet, Surjection
<1>6. IsFiniteSet(Element)
  BY <1>4, <1>5, FS_Surjection
<1> QED
  BY <1>1, <1>6 DEF Proxy

(* What the filters may pick from.                                         *)
LEMMA ServerListsFacts ==
  ASSUME NEW p \in Pool
  PROVE  ServerLists(p) \in Seq(Element) /\ ToSet(ServerLists(p)) = ActiveElements(p)
BY ToSetConcat DEF ServerLists, ActiveElements, Pool, Role
-----------------------------------------------------------------------------
(* The operators on settings.                                              *)

Settings == [Setting -> Value \union {None}]

(* A command changes the settings it is about.                             *)
LEMMA WithFacts ==
  ASSUME NEW o \in Settings, NEW cmd, NEW v \in Value \union {None}
  PROVE  /\ With(o, cmd, v) \in Settings
         /\ \A s \in Setting :
              With(o, cmd, v)[s] = IF s \in SettingsOf(cmd) THEN v ELSE o[s]
BY DEF With, Settings

(* What a server is connected with and what the application asks of it.    *)
LEMMA AskedForFacts ==
  ASSUME conf.charset \in Value \union {None}, conf.preset \in Value \union {None},
         NEW e \in Element
  PROVE  /\ FromConnect(e) \in Settings /\ AskedFor(e) \in Settings
         /\ \A s \in {"user", "db"} : AskedFor(e)[s] = FromConnect(e)[s]
         /\ AskedFor(e)["charset"] = IF conf.charset = None \/ (conf.lazy /\ conf.preset # None)
                                       THEN conf.preset ELSE conf.charset
<1>1. /\ Initial \in Value
      /\ \A s \in {"user", "db"} : Section[e][s] \in Value \union {None}
  BY ConnectionsAssumption
<1>2. FromConnect(e) \in Settings
  BY <1>1 DEF FromConnect, Settings, Setting
<1> QED
  BY <1>2 DEF AskedFor, Settings, Setting

(* Both are as they were for as long as the configuration is.              *)
LEMMA AskedForStays ==
  ASSUME conf' = conf
  PROVE  \A e \in Element : FromConnect(e)' = FromConnect(e) /\ AskedFor(e)' = AskedFor(e)
BY DEF FromConnect, AskedFor

(* The charset of the configuration is the only one that is forced.        *)
LEMMA ForcedFacts ==
  ASSUME NEW o \in Settings, NEW late \in BOOLEAN, server_charset \in Value \union {None}
  PROVE  /\ Forced(o, late) \in Settings
         /\ \A s \in Setting \ {"charset"} : Forced(o, late)[s] = o[s]
         /\ Forced(o, late)["charset"] =
              IF server_charset # None /\ ~(late /\ o["charset"] # None)
                THEN server_charset ELSE o["charset"]
BY DEF Forced, Settings, Setting

(* Forcing it a second time changes nothing.                               *)
LEMMA ForcedTwice ==
  ASSUME NEW o \in Settings, server_charset \in Value \union {None}
  PROVE  Forced(Forced(o, TRUE), TRUE) = Forced(o, TRUE)
<1>1. CASE server_charset # None /\ o["charset"] = None
  <2>1. Forced(o, TRUE) = [o EXCEPT !["charset"] = server_charset]
    BY <1>1 DEF Forced
  <2>2. [o EXCEPT !["charset"] = server_charset]["charset"] = server_charset
    BY DEF Settings, Setting
  <2> QED
    BY <1>1, <2>1, <2>2 DEF Forced
<1>2. CASE ~(server_charset # None /\ o["charset"] = None)
  BY <1>2 DEF Forced
<1> QED
  BY <1>1, <1>2

-----------------------------------------------------------------------------
(* The operators on pools.                                                 *)

(* A server joins the lists of its role.                                   *)
LEMMA AddFacts ==
  ASSUME NEW p \in Pool, NEW r \in Role, NEW e \in Element,
         NEW key \in Seq(Element \X BOOLEAN)
  PROVE  LET q == Add(p, r, e, key) IN
         /\ q \in Pool
         /\ ActiveElements(q) = ActiveElements(p) \union {e}
         /\ p.active = p.list => q.active = q.list
         /\ \A x \in Element : q.entry[x].ref = IF x = e THEN 1 ELSE p.entry[x].ref
<1> DEFINE list == [p.list EXCEPT ![r] = Append(@, e)]
           active == [p.active EXCEPT ![r] = Append(@, e)]
           entry == [p.entry EXCEPT ![e] = [known |-> TRUE, active |-> TRUE,
                                            removed |-> FALSE, ref |-> 1]]
           keys == [p.key EXCEPT ![e] = key]
           q == Add(p, r, e, key)
<1>1. q = [list |-> list, active |-> active, entry |-> entry, key |-> keys,
           buffered_cmds |-> p.buffered_cmds]
  <2>1. p = [list |-> p.list, active |-> p.active, entry |-> p.entry, key |-> p.key,
             buffered_cmds |-> p.buffered_cmds]
    BY DEF Pool
  <2> DEFINE one == [p EXCEPT !.list = list]
             two == [one EXCEPT !.active = active]
             three == [two EXCEPT !.entry = entry]
  <2>2. DOMAIN p = {"list", "active", "entry", "key", "buffered_cmds"}
    BY <2>1
  <2>3. q = [three EXCEPT !.key = keys]
    BY <2>2 DEF Add
  <2> HIDE DEF list, active, entry, keys, q
  <2>4. one = [list |-> list, active |-> p.active, entry |-> p.entry, key |-> p.key,
               buffered_cmds |-> p.buffered_cmds]
    BY <2>1
  <2> HIDE DEF one
  <2>5. two = [list |-> list, active |-> active, entry |-> p.entry, key |-> p.key,
               buffered_cmds |-> p.buffered_cmds]
    BY <2>4
  <2> HIDE DEF two
  <2>6. three = [list |-> list, active |-> active, entry |-> entry, key |-> p.key,
                 buffered_cmds |-> p.buffered_cmds]
    BY <2>5
  <2> HIDE DEF three
  <2> QED
    BY <2>3, <2>6
<1>2. list \in [Role -> Seq(Element)] /\ active \in [Role -> Seq(Element)]
  BY DEF Pool
<1>3. /\ entry \in [Element -> [known : BOOLEAN, active : BOOLEAN, removed : BOOLEAN, ref : Nat]]
      /\ \A x \in Element : entry[x].ref = IF x = e THEN 1 ELSE p.entry[x].ref
  BY DEF Pool
<1>4. keys \in [Element -> Seq(Element \X BOOLEAN)]
  BY DEF Pool
<1>5. q \in Pool
  <2> HIDE DEF list, active, entry, keys, q
  <2>1. p.buffered_cmds \in Seq(Buffer)
    BY DEF Pool
  <2> QED
    BY <1>1, <1>2, <1>3, <1>4, <2>1 DEF Pool
<1>6. ActiveElements(q) = ActiveElements(p) \union {e}
  <2>1. /\ p.active["master"] \in Seq(Element) /\ p.active["slave"] \in Seq(Element)
        /\ q.active[r] = Append(p.active[r], e)
        /\ \A x \in Role \ {r} : q.active[x] = p.active[x]
    BY <1>1, <1>2, SMTT(30) DEF Pool, Role
  <2>2. CASE r = "master"
    <3>1. q.active["master"] = Append(p.active["master"], e) /\ q.active["slave"] = p.active["slave"]
      BY <2>1, <2>2 DEF Role
    <3>2. ToSet(q.active["master"]) = ToSet(p.active["master"]) \union {e}
      BY <2>1, <3>1, ToSetAppend
    <3> QED
      BY <3>1, <3>2 DEF ActiveElements
  <2>3. CASE r = "slave"
    <3>1. q.active["slave"] = Append(p.active["slave"], e) /\ q.active["master"] = p.active["master"]
      BY <2>1, <2>3 DEF Role
    <3>2. ToSet(q.active["slave"]) = ToSet(p.active["slave"]) \union {e}
      BY <2>1, <3>1, ToSetAppend
    <3> QED
      BY <3>1, <3>2 DEF ActiveElements
  <2> QED
    BY <2>2, <2>3 DEF Role
<1>7. p.active = p.list => q.active = q.list
  BY <1>1
<1>8. \A x \in Element : q.entry[x].ref = IF x = e THEN 1 ELSE p.entry[x].ref
  BY <1>1, <1>3
<1> HIDE DEF q
<1> QED
  BY <1>5, <1>6, <1>7, <1>8 DEF q

(* A pool with nothing in it.                                              *)
LEMMA EmptyFacts ==
  /\ EmptyPool \in Pool /\ ActiveElements(EmptyPool) = {}
  /\ EmptyPool.active = EmptyPool.list
  /\ \A p \in Pool : p.active = EmptyPool.active => ActiveElements(p) = {}
<1>1. EmptyPool \in Pool
  BY DEF EmptyPool, Pool, NoEntry, Role, Buffer
<1>2. EmptyPool.active = [r \in Role |-> <<>>] /\ EmptyPool.list = [r \in Role |-> <<>>]
  BY DEF EmptyPool
<1>3. \A p \in Pool : p.active = EmptyPool.active => ActiveElements(p) = {}
  BY <1>2, ToSetEmpty DEF ActiveElements, Role
<1> QED
  BY <1>1, <1>2, <1>3
(* Nothing is active any more, and nobody loses a reference.               *)
LEMMA FlushFacts ==
  ASSUME NEW p \in Pool
  PROVE  LET q == FlushActive(p) IN
         q \in Pool /\ q.list = p.list /\ q.active = EmptyPool.active
<1> DEFINE nobody == [r \in Role |-> <<>>]
           entry == [e \in Element |-> IF e \in ActiveElements(p)
                                       THEN [p.entry[e] EXCEPT !.active = FALSE] ELSE p.entry[e]]
           q == FlushActive(p)
<1>1. q = [p EXCEPT !.active = nobody, !.entry = entry]
  BY DEF FlushActive
<1>2. nobody \in [Role -> Seq(Element)]
  OBVIOUS
<1>3. entry \in [Element -> [known : BOOLEAN, active : BOOLEAN, removed : BOOLEAN, ref : Nat]]
  BY DEF Pool
<1>4. EmptyPool.active = nobody
  BY DEF EmptyPool
<1> HIDE DEF nobody, entry, q
<1>5. q \in Pool /\ q.list = p.list /\ q.active = nobody
  BY <1>1, <1>2, <1>3 DEF Pool
<1> QED
  BY <1>4, <1>5 DEF q

(* A command is kept, or was kept before.                                  *)
LEMMA DispatchFacts ==
  ASSUME NEW p \in Pool, NEW cmd \in Command, NEW v \in Value
  PROVE  LET q == Dispatch(p, cmd, v) IN
         q \in Pool /\ q.list = p.list /\ q.active = p.active /\ q.entry = p.entry
<1> DEFINE b == [key |-> BufferKey(cmd, v), cmd |-> cmd, value |-> v]
           q == Dispatch(p, cmd, v)
<1>1. b \in Buffer
  <2>1. BufferKey(cmd, v) \in Seq(Command \union Value)
    <3>1. <<"select_db">> \in Seq(Command \union Value)
      BY DEF Command
    <3>2. <<cmd, v>> \in Seq(Command \union Value)
      OBVIOUS
    <3>3. <<cmd>> \in Seq(Command \union Value)
      OBVIOUS
    <3> QED
      BY <3>1, <3>2, <3>3, Zenon DEF BufferKey
  <2> QED
    BY <2>1 DEF Buffer
<1>2. q = p \/ q = [p EXCEPT !.buffered_cmds = Append(@, b)]
  BY DEF Dispatch
<1> HIDE DEF b, q
<1>3. Append(p.buffered_cmds, b) \in Seq(Buffer)
  BY <1>1 DEF Pool
<1>4. q \in Pool /\ q.list = p.list /\ q.active = p.active /\ q.entry = p.entry
  BY <1>2, <1>3 DEF Pool
<1> QED
  BY <1>4 DEF q

(* The pool with other references.                                         *)
LEMMA ReferenceFacts ==
  ASSUME NEW p \in Pool, NEW e \in Element, NEW n \in Nat
  PROVE  LET q == [p EXCEPT !.entry[e].ref = n] IN
         /\ q \in Pool /\ q.list = p.list /\ q.active = p.active
         /\ \A x \in Element : q.entry[x].ref = IF x = e THEN n ELSE p.entry[x].ref
<1> DEFINE entry == [p.entry EXCEPT ![e] = [p.entry[e] EXCEPT !.ref = n]]
           q == [p EXCEPT !.entry = entry]
<1>1. /\ entry \in [Element -> [known : BOOLEAN, active : BOOLEAN, removed : BOOLEAN, ref : Nat]]
      /\ \A x \in Element : entry[x].ref = IF x = e THEN n ELSE p.entry[x].ref
  BY DEF Pool
<1>2. [p EXCEPT !.entry[e].ref = n] = q
  OBVIOUS
<1> HIDE DEF entry
<1>3. q \in Pool /\ q.list = p.list /\ q.active = p.active /\ q.entry = entry
  BY <1>1 DEF Pool
<1> HIDE DEF q
<1> QED
  BY <1>1, <1>2, <1>3

(* Whoever gives references back, the pool's own are kept.                 *)
LEMMA FreeFacts ==
  ASSUME NEW p \in Pool, NEW n \in Nat,
         \A e \in ActiveElements(p) : p.entry[e].ref >= 1
  PROVE  LET q == FreeReferences(p, n) IN
         /\ q \in Pool /\ q.list = p.list /\ q.active = p.active
         /\ \A e \in ActiveElements(p) : q.entry[e].ref >= 1
<1> DEFINE all == p.list["master"] \o p.list["slave"]
           ref == IF p.entry[all[1]].ref > n THEN p.entry[all[1]].ref - n ELSE 1
           q == FreeReferences(p, n)
<1>0. ActiveElements(p) \subseteq Element
  BY DEF ActiveElements, Pool, Role, ToSet
<1>1. CASE all = <<>>
  BY <1>1 DEF FreeReferences
<1>2. CASE all # <<>>
  <2>1. all \in Seq(Element)
    BY DEF Pool, Role
  <2>2. all[1] \in Element
    <3> HIDE DEF all
    <3> QED
      BY <1>2, <2>1
  <2>3. ref \in Nat /\ ref >= 1
    <3>1. p.entry[all[1]].ref \in Nat
      BY <2>2 DEF Pool
    <3> HIDE DEF all
    <3> QED
      BY <3>1
  <2>4. q = [p EXCEPT !.entry[all[1]].ref = ref]
    BY <1>2 DEF FreeReferences
  <2> HIDE DEF all, ref, q
  <2>5. /\ q \in Pool /\ q.list = p.list /\ q.active = p.active
        /\ \A x \in Element : q.entry[x].ref = IF x = all[1] THEN ref ELSE p.entry[x].ref
    BY <2>2, <2>3, <2>4, ReferenceFacts
  <2>6. \A e \in ActiveElements(p) : q.entry[e].ref >= 1
    BY <1>0, <2>3, <2>5
  <2> QED
    BY <2>5, <2>6 DEF q
<1> QED
  BY <1>1, <1>2

-----------------------------------------------------------------------------
(* The first state.                                                        *)

(* Nothing is connected yet.                                               *)
LEMMA InitInv == Init => Inv
<1> SUFFICES ASSUME Init PROVE Inv
  OBVIOUS
<1> USE DEF Init
<1>1. /\ Initial \in Value /\ None \notin Value /\ None \notin Command /\ MaxRetries \in Nat
      /\ Masters \in Seq(Element) /\ Proxy \in Element
  BY ConnectionsAssumption, ElementFacts
<1>3. conf.charset \in Value \union {None} /\ conf.preset \in Value \union {None} /\ conf \in Config
  BY <1>1 DEF Config
<1>2. \A e \in Element : FromConnect(e) \in Settings /\ AskedFor(e) \in Settings
  BY <1>3, AskedForFacts
<1>4. TypeOK
  <2>1. phase \in [at : Role \union {"ready", "failed", "closed"}, todo : Seq(Element), failures : Nat]
    <3>1. Configured(conf) \in Seq(Element)
      BY <1>1 DEF Configured
    <3> QED
      BY <3>1 DEF Role
  <2>2. pool \in Pool
    BY EmptyFacts
  <2>3. /\ conn \in [Element -> {"CONN_ALLOCED", "CONN_READY", "CONN_QUIT_SENT"}]
        /\ own \in [Element -> [Setting -> Value \union {None}]]
        /\ session \in [Element -> [Setting -> Value \union {None}]]
    BY <1>2, <1>3 DEF Setting, Unset, Settings
  <2>4. wanted \in [Element -> [Setting -> Value \union {None}]]
    BY <1>2 DEF Settings
  <2>5. call \in [cmd : Command \union {None}, value : Value \union {None}, todo : Seq(Element),
               ret : {"PASS", "FAIL"}, retries : 0 .. MaxRetries, transient : BOOLEAN,
               executed : Nat, replayed : BOOLEAN]
    BY <1>1 DEF NoCall
  <2>6. lookup \in [at : {None, "servers"}, servers : Seq([host : Element, rw : BOOLEAN]),
                 key : Seq(Element \X BOOLEAN), role : Role, active : BOOLEAN, removed : BOOLEAN]
    BY DEF NoLookup, Role
  <2> QED
    BY <1>3, <2>1, <2>2, <2>3, <2>4, <2>5, <2>6 DEF TypeOK
<1>5. PoolInv
  BY EmptyFacts DEF PoolInv
<1>6. FabricInv
  BY DEF FabricInv, NoLookup, NoCall, Role
<1>7. ConnectInv
  <2>1. \A e \in Element : \A s \in {"user", "db"} : own[e][s] = FromConnect(e)[s]
    BY <1>2 DEF Settings, Setting
  <2>2. own[Proxy]["charset"] = conf.preset
    BY <1>1, <1>2 DEF Settings, Setting
  <2> QED
    BY <2>1, <2>2, EmptyFacts DEF ConnectInv
<1>8. PassInv
  BY EmptyFacts, <1>1 DEF PassInv, NoCall, SettingsOf, Command
<1>9. ParticipantsReferenced /\ RetryBounded
  BY <1>1 DEF ParticipantsReferenced, RetryBounded, NoCall
<1> QED
  BY <1>4, <1>5, <1>6, <1>7, <1>8, <1>9 DEF Inv
-----------------------------------------------------------------------------
(* What every step starts from.                                            *)

(* The elements, the lists and the settings.                               *)
LEMMA Basics ==
  ASSUME TypeOK
  PROVE  /\ Proxy \in Element /\ None \notin Command /\ None \notin Value /\ Initial \in Value
         /\ MaxRetries \in Nat /\ pool \in Pool /\ ActiveElements(pool) \subseteq Element
         /\ own \in [Element -> Settings] /\ session \in [Element -> Settings]
         /\ server_charset \in Value \union {None} /\ wanted \in [Element -> Settings]
         /\ phase.todo \in Seq(Element) /\ call.todo \in Seq(Element)
         /\ conf.charset \in Value \union {None} /\ conf.preset \in Value \union {None}
         /\ conf.lazy \in BOOLEAN /\ conf.fabric \in BOOLEAN /\ conf.credInKey \in BOOLEAN
<1>1. pool \in Pool
  BY DEF TypeOK
<1>2. ActiveElements(pool) \subseteq Element
  BY <1>1 DEF ActiveElements, Pool, Role, ToSet
<1>3. conf.charset \in Value \union {None} /\ conf.preset \in Value \union {None}
  BY ConnectionsAssumption DEF TypeOK, Config
<1>4. conf.lazy \in BOOLEAN /\ conf.fabric \in BOOLEAN /\ conf.credInKey \in BOOLEAN
  BY DEF TypeOK, Config
<1> QED
  BY <1>1, <1>2, <1>3, <1>4, ConnectionsAssumption, ElementFacts DEF TypeOK, Settings

(* What a connection does not touch stays.                                 *)
LEMMA SameEffect ==
  ASSUME NEW e \in Element, conn'[e] = conn[e], own'[e] = own[e], session'[e] = session[e],
         server_charset' = server_charset
  PROVE  Effective(e)' = Effective(e)
BY DEF Effective, Forced

-----------------------------------------------------------------------------
(* Connecting.                                                             *)

(* What a server is opened with while connect is under way.                *)
LEMMA CloneFacts ==
  ASSUME TypeOK, NEW e \in Element
  PROVE  /\ Cloned(e) \in Settings
         /\ Cloned(e)["user"] = own[e]["user"] /\ Cloned(e)["db"] = own[e]["db"]
         /\ Cloned(e)["charset"] = own[Proxy]["charset"]
BY Basics DEF Cloned, Settings, Setting

(* What it has then is what the application has asked for.                 *)
LEMMA ConnectedAsAsked ==
  ASSUME Inv, phase.at \in Role, NEW e \in Element
  PROVE  /\ conf.lazy => Forced(Cloned(e), TRUE) = AskedFor(e)
         /\ ~conf.lazy => Forced(Cloned(e), FALSE) = AskedFor(e)
<1> USE DEF Inv
<1>1. TypeOK /\ ConnectInv
  OBVIOUS
<1>2. /\ Cloned(e) \in Settings
      /\ \A s \in {"user", "db"} : Cloned(e)[s] = FromConnect(e)[s]
      /\ Cloned(e)["charset"] = own[Proxy]["charset"]
  BY <1>1, CloneFacts DEF ConnectInv
<1>3. server_charset = conf.charset /\ server_charset \in Value \union {None}
  BY <1>1, Basics DEF ConnectInv
<1>4. /\ AskedFor(e) \in Settings
      /\ \A s \in {"user", "db"} : AskedFor(e)[s] = FromConnect(e)[s]
      /\ AskedFor(e)["charset"] = IF conf.charset = None \/ (conf.lazy /\ conf.preset # None)
                                    THEN conf.preset ELSE conf.charset
  BY <1>1, Basics, AskedForFacts
<1>5. \A a, b \in Settings :
        a["user"] = b["user"] /\ a["db"] = b["db"] /\ a["charset"] = b["charset"] => a = b
  BY DEF Settings, Setting
<1>6. \A late \in BOOLEAN :
        LET f == Forced(Cloned(e), late) IN
        /\ f \in Settings /\ \A s \in {"user", "db"} : f[s] = FromConnect(e)[s]
        /\ f["charset"] = IF server_charset # None /\ ~(late /\ own[Proxy]["charset"] # None)
                            THEN server_charset ELSE own[Proxy]["charset"]
  BY <1>2, <1>3, ForcedFacts DEF Setting
<1>7. CASE conf.lazy
  <2>1. own[Proxy]["charset"] = conf.preset
    BY <1>1, <1>7 DEF ConnectInv
  <2>2. Forced(Cloned(e), TRUE)["charset"] = AskedFor(e)["charset"]
    BY <1>3, <1>4, <1>6, <1>7, <2>1
  <2> QED
    BY <1>4, <1>5, <1>6, <1>7, <2>2
<1>8. CASE ~conf.lazy
  <2>1. Forced(Cloned(e), FALSE)["charset"] = AskedFor(e)["charset"]
    BY <1>1, <1>3, <1>4, <1>6, <1>8 DEF ConnectInv
  <2> QED
    BY <1>4, <1>5, <1>6, <1>8, <2>1
<1> QED
  BY <1>7, <1>8, Basics
(* The next server of the section.                                         *)
LEMMA ConnectStep == ASSUME Inv, ConnectToHost PROVE Inv'
<1> DEFINE e == Head(phase.todo)
           joined == pool' = Add(pool, phase.at, e, <<<<e, conf.credInKey>>>>)
<1> USE DEF Inv
<1>1. /\ TypeOK /\ PoolInv /\ FabricInv /\ ConnectInv /\ PassInv
      /\ phase.at \in Role /\ phase.todo # <<>>
      /\ own' = [own EXCEPT ![e] = IF conf.lazy THEN Cloned(e) ELSE Forced(Cloned(e), FALSE)]
      /\ UNCHANGED <<conf, server_charset, call, lookup, replay, participants, wanted, calls>>
  BY DEF ConnectToHost
<1>2. /\ \/ conf.lazy /\ joined /\ UNCHANGED <<conn, session>>
         \/ /\ ~conf.lazy /\ joined
            /\ conn' = [conn EXCEPT ![e] = "CONN_READY"]
            /\ session' = [session EXCEPT ![e] = own'[e]]
         \/ ~conf.lazy /\ UNCHANGED <<pool, conn, session>>
      /\ \/ phase' = [phase EXCEPT !.todo = Tail(@)]
         \/ phase' = [phase EXCEPT !.todo = Tail(@), !.failures = @ + 1]
  BY DEF ConnectToHost, Join
<1>3. e \in Element /\ Tail(phase.todo) \in Seq(Element)
  BY <1>1, Basics, ToSetTail
<1> HIDE DEF e
<1>4. /\ Cloned(e) \in Settings /\ Forced(Cloned(e), FALSE) \in Settings
      /\ \A s \in {"user", "db"} : Cloned(e)[s] = FromConnect(e)[s]
      /\ Cloned(e)["charset"] = own[Proxy]["charset"]
  <2>1. /\ Cloned(e) \in Settings
        /\ Cloned(e)["user"] = own[e]["user"] /\ Cloned(e)["db"] = own[e]["db"]
        /\ Cloned(e)["charset"] = own[Proxy]["charset"]
    BY <1>1, <1>3, CloneFacts
  <2>2. Forced(Cloned(e), FALSE) \in Settings
    BY <1>1, <2>1, Basics, ForcedFacts
  <2>3. \A s \in {"user", "db"} : own[e][s] = FromConnect(e)[s]
    BY <1>1, <1>3 DEF ConnectInv
  <2> QED
    BY <2>1, <2>2, <2>3
<1>5. /\ conf.lazy => Forced(Cloned(e), TRUE) = AskedFor(e)
      /\ ~conf.lazy => Forced(Cloned(e), FALSE) = AskedFor(e)
  BY <1>1, <1>3, ConnectedAsAsked
<1>6. phase' \in [at : Role \union {"ready", "failed", "closed"}, todo : Seq(Element), failures : Nat]
      /\ phase'.at = phase.at
  <2> DEFINE rest == Tail(phase.todo)
             more == phase.failures + 1
  <2>1. phase' = [phase EXCEPT !.todo = rest] \/ phase' = [phase EXCEPT !.todo = rest, !.failures = more]
    BY <1>2
  <2>2. rest \in Seq(Element) /\ more \in Nat
    BY <1>1, <1>3 DEF TypeOK
  <2>3. phase \in [at : Role \union {"ready", "failed", "closed"}, todo : Seq(Element), failures : Nat]
    BY <1>1 DEF TypeOK
  <2> HIDE DEF rest, more, Inv
  <2> QED
    BY <2>1, <2>2, <2>3
<1>7. own' \in [Element -> Settings] /\ own'[e] = IF conf.lazy THEN Cloned(e) ELSE AskedFor(e)
  BY <1>1, <1>3, <1>4, <1>5, Basics
<1>8. /\ \A x \in Element : x # e => own'[x] = own[x]
      /\ \A x \in Element : x # e => conn'[x] = conn[x] /\ session'[x] = session[x]
  <2>1. /\ own \in [Element -> Settings] /\ session \in [Element -> Settings]
        /\ conn \in [Element -> {"CONN_ALLOCED", "CONN_READY", "CONN_QUIT_SENT"}]
    BY <1>1, Basics DEF TypeOK
  <2> HIDE DEF Inv, joined
  <2> QED
    BY <1>1, <1>2, <2>1
<1>9. joined => /\ pool' \in Pool /\ ActiveElements(pool)' = ActiveElements(pool) \union {e}
                /\ pool.active = pool.list => pool'.active = pool'.list
                /\ \A x \in Element : pool'.entry[x].ref = IF x = e THEN 1 ELSE pool.entry[x].ref
  <2>1. <<<<e, conf.credInKey>>>> \in Seq(Element \X BOOLEAN)
    BY <1>1, <1>3, Basics
  <2> HIDE DEF Inv
  <2>2. pool \in Pool
    BY <1>1, Basics
  <2> QED
    <3> DEFINE q == Add(pool, phase.at, e, <<<<e, conf.credInKey>>>>)
    <3>1. /\ q \in Pool
          /\ ActiveElements(q) = ActiveElements(pool) \union {e}
          /\ pool.active = pool.list => q.active = q.list
          /\ \A x \in Element : q.entry[x].ref = IF x = e THEN 1 ELSE pool.entry[x].ref
      BY <1>1, <1>3, <2>1, <2>2, AddFacts
    <3> HIDE DEF q
    <3>2. joined => pool' = q
      BY DEF q
    <3> HIDE DEF joined
    <3> QED
      BY <3>1, <3>2 DEF ActiveElements
<1>10. ~conf.fabric /\ call = NoCall
  BY <1>1 DEF FabricInv, ConnectInv
<1>11. /\ pool' \in Pool /\ pool'.active = pool'.list
       /\ ActiveElements(pool) \subseteq ActiveElements(pool)'
       /\ ActiveElements(pool)' \subseteq ActiveElements(pool) \union {e}
       /\ \A x \in ActiveElements(pool)' : pool'.entry[x].ref >= 1
  <2>1. CASE joined
    <3>1. pool.active = pool.list /\ \A x \in ActiveElements(pool) : pool.entry[x].ref >= 1
      BY <1>1, <1>10 DEF PoolInv
    <3>2. ActiveElements(pool) \subseteq Element
      BY <1>1, Basics
    <3> HIDE DEF joined, Inv
    <3>3. \A x \in ActiveElements(pool)' : pool'.entry[x].ref >= 1
      BY <1>3, <1>9, <2>1, <3>1, <3>2
    <3> QED
      BY <1>9, <2>1, <3>1, <3>3
  <2>2. CASE pool' = pool
    BY <1>1, <1>10, <2>2, Basics DEF PoolInv, ActiveElements
  <2> QED
    BY <1>2, <2>1, <2>2
<1>12. TypeOK'
  <2>1. conn' \in [Element -> {"CONN_ALLOCED", "CONN_READY", "CONN_QUIT_SENT"}]
    BY <1>1, <1>2, <1>3 DEF TypeOK
  <2>2. session' \in [Element -> Settings]
    BY <1>1, <1>2, <1>3, <1>7, Basics
  <2> QED
    BY <1>1, <1>6, <1>7, <1>11, <2>1, <2>2 DEF TypeOK, Settings
<1>13. PoolInv'
  BY <1>1, <1>6, <1>10, <1>11 DEF PoolInv
<1>14. FabricInv'
  BY <1>1, <1>10 DEF FabricInv
<1>15. ConnectInv'
  <2>1. \A x \in Element : \A s \in {"user", "db"} : own'[x][s] = FromConnect(x)'[s]
    <3>1. \A s \in {"user", "db"} : AskedFor(e)[s] = FromConnect(e)[s]
      BY <1>1, <1>3, Basics, AskedForFacts
    <3>2. \A x \in Element : FromConnect(x)' = FromConnect(x)
      BY <1>1, AskedForStays
    <3>3. \A s \in {"user", "db"} : own'[e][s] = FromConnect(e)[s]
      BY <1>4, <1>7, <3>1
    <3>4. \A x \in Element : \A s \in {"user", "db"} : own[x][s] = FromConnect(x)[s]
      BY <1>1 DEF ConnectInv
    <3> HIDE DEF Inv
    <3> QED
      BY <1>8, <3>2, <3>3, <3>4
  <2>2. \A x \in Element :
          conn'[x] = IF ~conf.lazy /\ x \in ActiveElements(pool)' THEN "CONN_READY" ELSE "CONN_ALLOCED"
    <3>1. \A x \in Element :
            conn[x] = IF ~conf.lazy /\ x \in ActiveElements(pool) THEN "CONN_READY" ELSE "CONN_ALLOCED"
      BY <1>1 DEF ConnectInv
    <3>2. CASE conf.lazy
      BY <1>2, <3>1, <3>2
    <3>3. CASE ~conf.lazy /\ joined /\ conn' = [conn EXCEPT ![e] = "CONN_READY"]
      BY <1>1, <1>3, <1>8, <1>9, <3>1, <3>3 DEF TypeOK
    <3>4. CASE pool' = pool /\ conn' = conn
      BY <3>1, <3>4, <1>1 DEF ActiveElements
    <3> QED
      BY <1>2, <3>2, <3>3, <3>4
  <2>3. \/ own'[Proxy]["charset"] = conf.preset
        \/ ~conf.lazy /\ own'[Proxy]["charset"] = conf.charset /\ conf.charset # None
    <3>1. CASE e # Proxy
      BY <1>1, <1>8, <3>1, Basics DEF ConnectInv
    <3>2. CASE e = Proxy /\ conf.lazy
      BY <1>1, <1>4, <1>7, <3>2 DEF ConnectInv
    <3>3. CASE e = Proxy /\ ~conf.lazy
      BY <1>1, <1>7, <3>3, Basics, AskedForFacts
    <3> QED
      BY <3>1, <3>2, <3>3
  <2>4. wanted' = [x \in Element |-> AskedFor(x)']
    BY <1>1, AskedForStays DEF ConnectInv
  <2> QED
    BY <1>1, <1>10, <2>1, <2>2, <2>3, <2>4 DEF ConnectInv
<1>16. PassInv'
  <2>1. call.cmd = None /\ SettingsOf(None) = {}
    BY <1>1, <1>10, Basics DEF NoCall, SettingsOf, Command
  <2> SUFFICES ASSUME NEW s \in Setting, NEW x \in ActiveElements(pool)', wanted[x][s] # None,
                      conn'[x] # "CONN_QUIT_SENT"
               PROVE  Effective(x)'[s] = wanted[x][s]
    BY <1>1, <2>1 DEF PassInv, Holds
  <2>2. x \in Element
    BY <1>1, <1>3, <1>11, Basics
  <2>3. CASE x # e
    <3>1. x \in ActiveElements(pool)
      BY <1>11, <2>3
    <3>2. Effective(x)' = Effective(x) /\ conn'[x] = conn[x]
      BY <1>1, <1>8, <2>2, <2>3, SameEffect
    <3> QED
      BY <1>1, <3>1, <3>2 DEF PassInv, Holds
  <2>4. CASE x = e /\ conf.lazy
    <3>1. own'[x] = Cloned(x) /\ conn'[x] = "CONN_ALLOCED"
      BY <1>1, <1>2, <1>3, <1>7, <2>4 DEF ConnectInv
    <3>2. Effective(x)' = Forced(Cloned(x), TRUE)
      BY <1>1, <3>1 DEF Effective, Forced
    <3>3. wanted[x] = AskedFor(x)
      BY <1>1, <2>2 DEF ConnectInv
    <3> QED
      BY <1>5, <2>4, <3>2, <3>3
  <2>5. CASE x = e /\ ~conf.lazy /\ session' = [session EXCEPT ![e] = own'[e]]
                   /\ conn' = [conn EXCEPT ![e] = "CONN_READY"]
    <3>1. conn'[x] = "CONN_READY"
      BY <1>1, <1>3, <2>5 DEF TypeOK
    <3>2. session'[x] = AskedFor(x)
      BY <1>1, <1>3, <1>7, <2>5, Basics
    <3>3. wanted[x] = AskedFor(x)
      BY <1>1, <2>2 DEF ConnectInv
    <3> QED
      BY <2>5, <3>1, <3>2, <3>3 DEF Effective
  <2>6. CASE x = e /\ ~conf.lazy /\ UNCHANGED <<pool, conn, session>>
    <3>1. x \in ActiveElements(pool)
      BY <2>6 DEF ActiveElements
    <3>2. conn[x] = "CONN_READY" /\ conn'[x] = conn[x]
      BY <1>1, <1>3, <2>6, <3>1 DEF ConnectInv
    <3>3. Effective(x)' = Effective(x)
      BY <2>6, <3>2 DEF Effective
    <3> QED
      BY <1>1, <3>1, <3>2, <3>3 DEF PassInv, Holds
  <2> QED
    BY <1>2, <2>3, <2>4, <2>5, <2>6
<1>17. (ParticipantsReferenced /\ RetryBounded)'
  BY <1>1, <1>6 DEF ParticipantsReferenced, RetryBounded, PoolInv
<1> QED
  BY <1>12, <1>13, <1>14, <1>15, <1>16, <1>17
(* The section is done: connect goes on, is done or has failed.            *)
LEMMA SectionDoneStep == ASSUME Inv, SectionDone PROVE Inv'
<1> USE DEF Inv
<1>1. /\ TypeOK /\ PoolInv /\ FabricInv /\ ConnectInv /\ PassInv /\ phase.at \in Role
      /\ UNCHANGED <<conf, pool, conn, own, session, server_charset, call, lookup, replay,
                     participants, wanted, calls>>
      /\ \/ phase' = [phase EXCEPT !.at = "failed"]
         \/ phase' = [phase EXCEPT !.at = "slave", !.todo = Slaves]
         \/ phase' = [phase EXCEPT !.at = "ready"]
  BY DEF SectionDone
<1>2. phase' \in [at : Role \union {"ready", "failed", "closed"}, todo : Seq(Element), failures : Nat]
  <2>1. Slaves \in Seq(Element)
    BY ConnectionsAssumption
  <2> QED
    BY <1>1, <2>1 DEF TypeOK, Role
<1>3. TypeOK'
  BY <1>1, <1>2 DEF TypeOK
<1>4. PoolInv'
  BY <1>1 DEF PoolInv, ActiveElements
<1>5. FabricInv'
  BY <1>1 DEF FabricInv
<1>6. ConnectInv'
  <2>1. /\ wanted' = [x \in Element |-> AskedFor(x)']
        /\ \A x \in Element : \A s \in {"user", "db"} : own'[x][s] = FromConnect(x)'[s]
    BY <1>1, AskedForStays DEF ConnectInv
  <2> QED
    BY <1>1, <2>1 DEF ConnectInv, ActiveElements
<1>7. PassInv'
  BY <1>1 DEF PassInv, Holds, Effective, Forced, ActiveElements
<1>8. (ParticipantsReferenced /\ RetryBounded)'
  BY <1>1 DEF ParticipantsReferenced, RetryBounded
<1> QED
  BY <1>3, <1>4, <1>5, <1>6, <1>7, <1>8

-----------------------------------------------------------------------------
(* A handle at rest.                                                       *)

(* What was said of the settings while nothing is passed on.               *)
LEMMA RestFacts ==
  ASSUME Inv, AtRest
  PROVE  /\ phase.at = "ready" /\ phase.at \notin Role
         /\ call = NoCall /\ call.cmd = None /\ SettingsOf(call.cmd) = {} /\ ~call.replayed
         /\ lookup = NoLookup /\ replay = <<>>
         /\ \A s \in Setting, e \in ActiveElements(pool) :
              wanted[e][s] # None => Holds(e, s, wanted[e][s])
<1>1. None \notin Command
  BY Basics DEF Inv
<1>2. call.cmd = None /\ SettingsOf(None) = {} /\ ~call.replayed /\ phase.at \notin Role
  BY <1>1 DEF AtRest, NoCall, SettingsOf, Command, Role
<1> QED
  BY <1>2 DEF AtRest, Inv, PassInv

(* A connection is opened when it is needed.                               *)
LEMMA LazyConnectStep == ASSUME Inv, NEW e \in Element, LazyConnect(e) PROVE Inv'
<1> USE DEF Inv
<1>1. /\ TypeOK /\ PoolInv /\ FabricInv /\ ConnectInv /\ PassInv
      /\ ParticipantsReferenced /\ RetryBounded
      /\ AtRest /\ conn[e] = "CONN_ALLOCED"
      /\ own' = [own EXCEPT ![e] = Forced(own[e], TRUE)]
      /\ \/ /\ conn' = [conn EXCEPT ![e] = "CONN_READY"]
            /\ session' = [session EXCEPT ![e] = own'[e]]
         \/ UNCHANGED <<conn, session>>
      /\ UNCHANGED <<conf, phase, pool, server_charset, call, lookup, replay, participants,
                     wanted, calls>>
  BY DEF LazyConnect
<1> HIDE DEF Inv
<1>2. Forced(own[e], TRUE) \in Settings
  BY <1>1, Basics, ForcedFacts
<1>3. own' \in [Element -> Settings] /\ own'[e] = Forced(own[e], TRUE)
      /\ \A x \in Element \ {e} : own'[x] = own[x]
  BY <1>1, <1>2, Basics
<1>4. TypeOK'
  <2>1. conn' \in [Element -> {"CONN_ALLOCED", "CONN_READY", "CONN_QUIT_SENT"}]
    BY <1>1 DEF TypeOK
  <2>2. session \in [Element -> Settings] /\ own'[e] \in Settings
    BY <1>1, <1>3, Basics
  <2>3. session' \in [Element -> Settings]
    BY <1>1, <2>2
  <2> QED
    <3>1. TypeOK /\ UNCHANGED <<conf, phase, pool, server_charset, call, lookup, replay,
                                participants, wanted>>
      BY <1>1
    <3>2. own' \in [Element -> [Setting -> Value \union {None}]]
          /\ session' \in [Element -> [Setting -> Value \union {None}]]
      BY <1>3, <2>3 DEF Settings
    <3> QED
      BY <2>1, <3>1, <3>2 DEF TypeOK
<1>5. PoolInv' /\ FabricInv' /\ ParticipantsReferenced' /\ RetryBounded'
  BY <1>1 DEF PoolInv, FabricInv, ParticipantsReferenced, RetryBounded, ActiveElements
<1>6. ConnectInv'
  BY <1>1, RestFacts DEF ConnectInv
<1>7. \A x \in Element : x # e =>
        Effective(x)' = Effective(x) /\ conn'[x] = conn[x]
  <2> SUFFICES ASSUME NEW x \in Element, x # e
               PROVE  Effective(x)' = Effective(x) /\ conn'[x] = conn[x]
    OBVIOUS
  <2>1. session \in [Element -> Settings]
        /\ conn \in [Element -> {"CONN_ALLOCED", "CONN_READY", "CONN_QUIT_SENT"}]
    BY <1>1, Basics DEF TypeOK
  <2>2. conn'[x] = conn[x] /\ session'[x] = session[x]
    BY <1>1, <2>1
  <2> QED
    BY <1>1, <1>3, <2>2, SameEffect
<1>8. Effective(e)' = Effective(e)
  <2>1. Effective(e) = Forced(own[e], TRUE)
    BY <1>1 DEF Effective
  <2>2. CASE conn'[e] = "CONN_ALLOCED"
    <3>1. Effective(e)' = Forced(Forced(own[e], TRUE), TRUE)
      BY <1>1, <1>3, <2>2 DEF Effective, Forced
    <3>2. own[e] \in Settings /\ server_charset \in Value \union {None}
      BY <1>1, Basics
    <3> QED
      BY <2>1, <3>1, <3>2, ForcedTwice
  <2>3. CASE conn'[e] # "CONN_ALLOCED" /\ session' = [session EXCEPT ![e] = own'[e]]
    <3>1. session'[e] = own'[e]
      BY <1>1, <2>3, Basics
    <3> QED
      BY <1>3, <2>1, <2>3, <3>1 DEF Effective
  <2> QED
    BY <1>1, <2>2, <2>3
<1>9. PassInv'
  <2>1. ActiveElements(pool)' = ActiveElements(pool) /\ ActiveElements(pool) \subseteq Element
    BY <1>1, Basics DEF ActiveElements
  <2>2. \A x \in Element : Effective(x)' = Effective(x)
    BY <1>7, <1>8
  <2> SUFFICES ASSUME NEW s \in Setting, NEW x \in ActiveElements(pool), wanted[x][s] # None
               PROVE  Holds(x, s, wanted[x][s])'
    BY <1>1, <2>1, RestFacts DEF PassInv
  <2>3. Holds(x, s, wanted[x][s])
    BY <1>1, RestFacts
  <2>4. conn[x] # "CONN_QUIT_SENT" \/ conn'[x] = conn[x]
    BY <1>1, <1>7, <2>1
  <2> QED
    BY <1>1, <2>1, <2>2, <2>3, <2>4 DEF Holds
<1> QED
  BY <1>4, <1>5, <1>6, <1>9 DEF Inv

(* A connection breaks.                                                    *)
LEMMA LoseStep == ASSUME Inv, NEW e \in Element, Lose(e) PROVE Inv'
<1> USE DEF Inv
<1>1. /\ TypeOK /\ PoolInv /\ FabricInv /\ ConnectInv /\ PassInv /\ AtRest
      /\ conn' = [conn EXCEPT ![e] = "CONN_QUIT_SENT"]
      /\ UNCHANGED <<conf, phase, pool, own, session, server_charset, call, lookup, replay,
                     participants, wanted, calls>>
  BY DEF Lose
<1>2. TypeOK'
  BY <1>1 DEF TypeOK
<1>3. PoolInv' /\ FabricInv' /\ ParticipantsReferenced' /\ RetryBounded'
  BY <1>1 DEF PoolInv, FabricInv, ParticipantsReferenced, RetryBounded, ActiveElements
<1>4. ConnectInv'
  BY <1>1, RestFacts DEF ConnectInv
<1>5. PassInv'
  <2>1. ActiveElements(pool)' = ActiveElements(pool) /\ ActiveElements(pool) \subseteq Element
    BY <1>1, Basics DEF ActiveElements
  <2> SUFFICES ASSUME NEW s \in Setting, NEW x \in ActiveElements(pool), wanted[x][s] # None,
                      conn'[x] # "CONN_QUIT_SENT"
               PROVE  Effective(x)'[s] = wanted[x][s]
    BY <1>1, <2>1, RestFacts DEF PassInv, Holds
  <2>2. conn'[x] = conn[x]
    BY <1>1, <2>1 DEF TypeOK
  <2>3. Effective(x)' = Effective(x)
    BY <1>1, <2>1, <2>2, SameEffect
  <2>4. Holds(x, s, wanted[x][s])
    BY <1>1, RestFacts
  <2> QED
    BY <2>2, <2>3, <2>4 DEF Holds
<1> QED
  BY <1>2, <1>3, <1>4, <1>5

(* The handle is closed.                                                   *)
LEMMA CloseStep == ASSUME Inv, Close PROVE Inv'
<1> USE DEF Inv
<1>1. /\ TypeOK /\ PoolInv /\ FabricInv /\ ConnectInv /\ PassInv /\ RetryBounded
      /\ phase' = [phase EXCEPT !.at = "closed"] /\ pool' = EmptyPool /\ participants' = {}
      /\ conn' = [e \in Element |-> IF pool.entry[e].known /\ conn[e] = "CONN_READY"
                                     THEN "CONN_QUIT_SENT" ELSE conn[e]]
      /\ UNCHANGED <<conf, own, session, server_charset, call, lookup, replay, wanted, calls>>
  BY DEF Close
<1>2. pool' \in Pool /\ ActiveElements(pool)' = {} /\ pool'.active = pool'.list
  BY <1>1, EmptyFacts DEF ActiveElements
<1>3. phase' \in [at : Role \union {"ready", "failed", "closed"}, todo : Seq(Element), failures : Nat]
      /\ phase'.at \notin Role
  BY <1>1 DEF TypeOK, Role
<1>4. TypeOK'
  BY <1>1, <1>2, <1>3 DEF TypeOK
<1>5. PoolInv' /\ FabricInv' /\ ParticipantsReferenced' /\ RetryBounded'
  BY <1>1, <1>2, <1>3 DEF PoolInv, FabricInv, ParticipantsReferenced, RetryBounded
<1>6. ConnectInv' /\ PassInv'
  BY <1>1, <1>2, <1>3 DEF ConnectInv, PassInv
<1> QED
  BY <1>4, <1>5, <1>6
-----------------------------------------------------------------------------
(* Session commands.                                                       *)

CallType == [cmd : Command \union {None}, value : Value \union {None}, todo : Seq(Element),
             ret : {"PASS", "FAIL"}, retries : 0 .. MaxRetries, transient : BOOLEAN,
             executed : Nat, replayed : BOOLEAN]

(* A command starts with everything that is active.                        *)
LEMMA StartFacts ==
  ASSUME TypeOK, NEW cmd \in Command, NEW value \in Value, NEW replayed \in BOOLEAN,
         Start(cmd, value, replayed)
  PROVE  /\ call' \in CallType /\ call'.cmd = cmd /\ call'.value = value
         /\ call'.replayed = replayed /\ call'.retries = 0 /\ call'.executed = 0
         /\ ToSet(call'.todo) = ActiveElements(pool)
<1>1. ServerLists(pool) \in Seq(Element) /\ ToSet(ServerLists(pool)) = ActiveElements(pool)
  BY Basics, ServerListsFacts
<1>2. MaxRetries \in Nat
  BY Basics
<1> DEFINE todo == ServerLists(pool)
<1>3. call' = [cmd |-> cmd, value |-> value, todo |-> todo, ret |-> "PASS",
               retries |-> 0, transient |-> FALSE, executed |-> 0, replayed |-> replayed]
  BY DEF Start, NoCall
<1> HIDE DEF todo
<1>4. todo \in Seq(Element) /\ ToSet(todo) = ActiveElements(pool)
  BY <1>1 DEF todo
<1> QED
  BY <1>2, <1>3, <1>4 DEF CallType

(* With Fabric there is nothing to pick from.                              *)
LEMMA FabricEmpty == ASSUME Inv, conf.fabric PROVE ActiveElements(pool) = {} /\ phase.at \notin Role
BY Basics, EmptyFacts DEF Inv, FabricInv

(* The application gives a command.                                        *)
LEMMA SessionCommandStep ==
  ASSUME Inv, NEW cmd \in Command, NEW value \in Value, SessionCommand(cmd, value) PROVE Inv'
<1> USE DEF Inv
<1>1. /\ TypeOK /\ PoolInv /\ FabricInv /\ ParticipantsReferenced
      /\ AtRest /\ pool' = Dispatch(pool, cmd, value) /\ Start(cmd, value, FALSE)
      /\ wanted' = [e \in Element |-> With(wanted[e], cmd, None)]
      /\ UNCHANGED <<conf, phase, conn, own, session, server_charset, lookup, replay, participants>>
  BY DEF SessionCommand
<1>2. /\ pool' \in Pool /\ pool'.list = pool.list /\ pool'.active = pool.active
      /\ pool'.entry = pool.entry /\ ActiveElements(pool)' = ActiveElements(pool)
  BY <1>1, Basics, DispatchFacts DEF ActiveElements
<1>3. /\ call' \in CallType /\ call'.cmd = cmd /\ call'.value = value /\ ~call'.replayed
      /\ call'.retries = 0 /\ call'.executed = 0 /\ ToSet(call'.todo) = ActiveElements(pool)
  BY <1>1, StartFacts
<1>4. /\ wanted' \in [Element -> Settings]
      /\ \A e \in Element, s \in Setting :
           wanted'[e][s] = IF s \in SettingsOf(cmd) THEN None ELSE wanted[e][s]
  <2>1. wanted \in [Element -> Settings]
    BY <1>1, Basics
  <2>2. \A e \in Element :
          /\ With(wanted[e], cmd, None) \in Settings
          /\ \A s \in Setting : With(wanted[e], cmd, None)[s] =
               IF s \in SettingsOf(cmd) THEN None ELSE wanted[e][s]
    BY <2>1, WithFacts
  <2> QED
    BY <1>1, <2>2
<1> HIDE DEF Inv
<1>5. TypeOK'
  BY <1>1, <1>2, <1>3, <1>4 DEF TypeOK, CallType, Settings
<1>6. PoolInv' /\ FabricInv' /\ ParticipantsReferenced'
  BY <1>1, <1>2, <1>3 DEF PoolInv, FabricInv, ParticipantsReferenced
<1>7. RetryBounded'
  BY <1>3, Basics, <1>1 DEF RetryBounded
<1>8. ConnectInv'
  BY <1>1, RestFacts DEF ConnectInv
<1>9. PassInv'
  <2>1. \A s \in SettingsOf(cmd) : s \in Setting
    BY DEF SettingsOf, Setting
  <2>3. \A e \in Element, s \in SettingsOf(cmd) : wanted'[e][s] = None
    BY <1>4, <2>1
  <2>2. ASSUME NEW s \in Setting, NEW x \in ActiveElements(pool), wanted'[x][s] # None,
               conn'[x] # "CONN_QUIT_SENT"
        PROVE  Effective(x)'[s] = wanted'[x][s]
    <3>2. x \in Element
      BY <1>1, Basics
    <3>1. wanted'[x][s] = wanted[x][s] /\ Holds(x, s, wanted[x][s])
      BY <1>1, <1>4, <2>2, <3>2, RestFacts
    <3>3. Effective(x)' = Effective(x)
      BY <1>1, <3>2, SameEffect
    <3> QED
      BY <1>1, <2>2, <3>1, <3>3 DEF Holds
  <2> QED
    BY <1>2, <1>3, <2>1, <2>3, <2>2 DEF PassInv, Holds
<1> QED
  BY <1>5, <1>6, <1>7, <1>8, <1>9 DEF Inv

(* A command is replayed.                                                  *)
LEMMA ReplayStep == ASSUME Inv, Replay PROVE Inv'
<1>1. /\ TypeOK /\ PoolInv /\ FabricInv /\ ParticipantsReferenced
      /\ call = NoCall /\ replay # <<>>
      /\ Start(Head(replay).cmd, Head(replay).value, TRUE) /\ replay' = Tail(replay)
      /\ UNCHANGED <<conf, phase, pool, conn, own, session, server_charset, lookup,
                     participants, wanted, calls>>
  BY DEF Replay, Inv
<1>2. Head(replay) \in Buffer /\ Tail(replay) \in Seq(Buffer)
  BY <1>1 DEF TypeOK
<1>3. Head(replay).cmd \in Command /\ Head(replay).value \in Value
  BY <1>2 DEF Buffer
<1>4. /\ call' \in CallType /\ call'.cmd \in Command /\ call'.value \in Value /\ call'.replayed
      /\ call'.retries = 0 /\ call'.executed = 0
  BY <1>1, <1>3, StartFacts
<1>5. conf.fabric /\ phase.at \notin Role /\ ActiveElements(pool) = {} /\ ActiveElements(pool)' = {}
  BY <1>1, FabricEmpty DEF FabricInv, ActiveElements
<1>6. TypeOK'
  BY <1>1, <1>2, <1>4 DEF TypeOK, CallType
<1>7. PoolInv' /\ FabricInv' /\ ParticipantsReferenced'
  BY <1>1, <1>5 DEF PoolInv, FabricInv, ParticipantsReferenced
<1>8. RetryBounded'
  BY <1>4, <1>1, Basics DEF RetryBounded
<1>9. ConnectInv' /\ PassInv'
  BY <1>1, <1>4, <1>5 DEF ConnectInv, PassInv
<1> QED
  BY <1>6, <1>7, <1>8, <1>9 DEF Inv

(* While a command is passed on connect is done.                           *)
LEMMA PassFacts ==
  ASSUME Inv, call.todo # <<>>
  PROVE  /\ call # NoCall /\ call \in CallType /\ call.cmd \in Command /\ call.value \in Value
         /\ phase.at \notin Role /\ Head(call.todo) \in Element
         /\ Tail(call.todo) \in Seq(Element) /\ Tail(call.todo) # call.todo
         /\ ToSet(call.todo) = {Head(call.todo)} \union ToSet(Tail(call.todo))
         /\ \A s \in SettingsOf(call.cmd), e \in ActiveElements(pool) : wanted[e][s] = None
<1>1. call # NoCall
  BY DEF NoCall
<1>2. TypeOK /\ PassInv /\ ConnectInv /\ FabricInv
  BY DEF Inv
<1>3. call \in CallType /\ call.cmd \in Command /\ call.value \in Value /\ phase.at \notin Role
  BY <1>1, <1>2 DEF TypeOK, CallType, PassInv, ConnectInv
<1>4. call.todo \in Seq(Element)
  BY <1>2, Basics
<1>5. /\ Head(call.todo) \in Element
      /\ Tail(call.todo) \in Seq(Element) /\ Tail(call.todo) # call.todo
      /\ ToSet(call.todo) = {Head(call.todo)} \union ToSet(Tail(call.todo))
  BY <1>4, ToSetTail
<1>6. (call.replayed => ActiveElements(pool) = {}) /\ ActiveElements(pool) \subseteq Element
  BY <1>2, FabricEmpty, Basics DEF FabricInv
<1> QED
  BY <1>1, <1>2, <1>3, <1>5, <1>6 DEF PassInv

(* The next connection has the command.                                    *)
LEMMA PassedFacts ==
  ASSUME Inv, call.todo # <<>>, call' = Passed
  PROVE  /\ call' \in CallType /\ call'.cmd = call.cmd /\ call'.value = call.value
         /\ call'.todo = Tail(call.todo) /\ call'.ret = call.ret /\ call'.replayed = call.replayed
         /\ call'.retries = 0 /\ call'.executed = 0
<1>1. call \in CallType /\ Tail(call.todo) \in Seq(Element) /\ MaxRetries \in Nat
  BY PassFacts, Basics DEF Inv
<1> DEFINE rest == Tail(call.todo)
<1>2. call' = [call EXCEPT !.todo = rest, !.retries = 0, !.executed = 0]
  BY DEF Passed
<1>3. rest \in Seq(Element)
  BY <1>1
<1> HIDE DEF rest
<1>4. /\ call' \in CallType /\ call'.cmd = call.cmd /\ call'.value = call.value
      /\ call'.todo = rest /\ call'.ret = call.ret /\ call'.replayed = call.replayed
      /\ call'.retries = 0 /\ call'.executed = 0
  <2>1. \A f \in {"cmd", "value", "ret", "replayed", "transient"} : call'[f] = call[f]
    BY <1>1, <1>2 DEF CallType
  <2>2. call'.todo = rest /\ call'.retries = 0 /\ call'.executed = 0
    BY <1>1, <1>2 DEF CallType
  <2>3. call' = [cmd |-> call'.cmd, value |-> call'.value, todo |-> call'.todo, ret |-> call'.ret,
                 retries |-> call'.retries, transient |-> call'.transient,
                 executed |-> call'.executed, replayed |-> call'.replayed]
    BY <1>1, <1>2 DEF CallType
  <2>4. call' \in CallType
    BY <1>1, <1>3, <2>1, <2>2, <2>3 DEF CallType
  <2> QED
    BY <2>1, <2>2, <2>4
<1> QED
  BY <1>4 DEF rest

(* It is refused: the call goes on and will fail.                          *)
LEMMA RefusedFacts ==
  ASSUME Inv, call.todo # <<>>
  PROVE  /\ Refused \in CallType /\ Refused.cmd = call.cmd /\ Refused.value = call.value
         /\ Refused.replayed = call.replayed /\ Refused.todo = Tail(call.todo)
         /\ Refused.ret = "FAIL" /\ Refused.retries = 0 /\ Refused.executed = 0
         /\ Refused.executed <= Refused.retries /\ Refused.retries <= MaxRetries
<1>1. call \in CallType /\ Tail(call.todo) \in Seq(Element) /\ MaxRetries \in Nat
  BY PassFacts, Basics DEF Inv
<1> DEFINE rest == Tail(call.todo)
           a == Refused
<1>2. a = [call EXCEPT !.todo = rest, !.retries = 0, !.executed = 0, !.ret = "FAIL"]
  BY DEF Refused, Passed
<1>3. rest \in Seq(Element)
  BY <1>1
<1> HIDE DEF rest, a
<1>4. \A f \in {"cmd", "value", "replayed", "transient"} : a[f] = call[f]
  BY <1>1, <1>2 DEF CallType
<1>5. a.todo = rest /\ a.retries = 0 /\ a.executed = 0 /\ a.ret = "FAIL"
  BY <1>1, <1>2 DEF CallType
<1>6. a = [cmd |-> a.cmd, value |-> a.value, todo |-> a.todo, ret |-> a.ret,
           retries |-> a.retries, transient |-> a.transient,
           executed |-> a.executed, replayed |-> a.replayed]
  BY <1>1, <1>2 DEF CallType
<1>7. a \in CallType
  BY <1>1, <1>3, <1>4, <1>5, <1>6 DEF CallType
<1>8. a.executed <= a.retries /\ a.retries <= MaxRetries
  BY <1>1, <1>5
<1> QED
  BY <1>4, <1>5, <1>7, <1>8 DEF rest, a

(* It has failed: it is tried again, or the call goes on and will fail.    *)
LEMMA AfterFailureFacts ==
  ASSUME Inv, call.todo # <<>>, NEW transient \in BOOLEAN
  PROVE  LET a == AfterFailure(transient) IN
         /\ a \in CallType /\ a.cmd = call.cmd /\ a.value = call.value
         /\ a.replayed = call.replayed
         /\ \/ /\ a.todo = call.todo /\ a.ret = call.ret
               /\ a.retries = call.retries + 1 /\ a.executed = call.executed
            \/ /\ a.todo = Tail(call.todo) /\ a.ret = "FAIL"
               /\ a.retries = 0 /\ a.executed = 0
<1>1. call \in CallType /\ Tail(call.todo) \in Seq(Element) /\ MaxRetries \in Nat
  BY PassFacts, Basics DEF Inv
<1> DEFINE rest == Tail(call.todo)
           a == AfterFailure(transient)
<1>2. CASE transient /\ call.retries + 1 <= MaxRetries
  <2> DEFINE n == call.retries + 1
  <2>1. a = [call EXCEPT !.retries = n, !.transient = TRUE]
    BY <1>2 DEF AfterFailure
  <2>2. n \in 0 .. MaxRetries
    BY <1>1, <1>2 DEF CallType
  <2> HIDE DEF n, a
  <2>3. /\ a \in CallType /\ a.cmd = call.cmd /\ a.value = call.value
        /\ a.replayed = call.replayed /\ a.todo = call.todo /\ a.ret = call.ret
        /\ a.retries = n /\ a.executed = call.executed
    BY <1>1, <2>1, <2>2 DEF CallType
  <2> QED
    BY <2>3 DEF n, a
<1>3. CASE ~(transient /\ call.retries + 1 <= MaxRetries)
  <2>1. a = [call EXCEPT !.todo = rest, !.retries = 0, !.executed = 0, !.ret = "FAIL",
                         !.transient = transient]
    BY <1>3 DEF AfterFailure, Refused, Passed
  <2>2. rest \in Seq(Element)
    BY <1>1
  <2> HIDE DEF rest, a
  <2>3. /\ a \in CallType /\ a.cmd = call.cmd /\ a.value = call.value
        /\ a.replayed = call.replayed /\ a.todo = rest /\ a.ret = "FAIL"
        /\ a.retries = 0 /\ a.executed = 0
    <3>1. \A f \in {"cmd", "value", "replayed"} : a[f] = call[f]
      BY <1>1, <2>1 DEF CallType
    <3>2. /\ a.todo = rest /\ a.retries = 0 /\ a.executed = 0 /\ a.ret = "FAIL"
          /\ a.transient = transient
      BY <1>1, <2>1 DEF CallType
    <3>3. a = [cmd |-> a.cmd, value |-> a.value, todo |-> a.todo, ret |-> a.ret,
               retries |-> a.retries, transient |-> a.transient,
               executed |-> a.executed, replayed |-> a.replayed]
      BY <1>1, <2>1 DEF CallType
    <3>4. a \in CallType
      BY <1>1, <2>2, <3>1, <3>2, <3>3 DEF CallType
    <3> QED
      BY <3>1, <3>2, <3>4
  <2> QED
    BY <2>3 DEF rest, a
<1> QED
  BY <1>2, <1>3

-----------------------------------------------------------------------------
(* One connection after the other.                                         *)

(* What a connection that is not open will be opened with.                 *)
LEMMA Opening ==
  ASSUME NEW x \in Element, conn[x] = "CONN_ALLOCED", own[x] \in Settings
  PROVE  /\ \A s \in Setting \ {"charset"} : Effective(x)[s] = own[x][s]
         /\ Effective(x)["charset"] = IF server_charset # None /\ own[x]["charset"] = None
                                        THEN server_charset ELSE own[x]["charset"]
BY DEF Effective, Forced, Settings, Setting

(* The same, after a step.                                                 *)
LEMMA OpeningThen ==
  ASSUME NEW x \in Element, conn'[x] = "CONN_ALLOCED", own'[x] \in Settings
  PROVE  /\ \A s \in Setting \ {"charset"} : Effective(x)'[s] = own'[x][s]
         /\ Effective(x)'["charset"] = IF server_charset' # None /\ own'[x]["charset"] = None
                                         THEN server_charset' ELSE own'[x]["charset"]
BY DEF Effective, Forced, Settings, Setting

(* A command that is kept changes what it sets, where it is kept, and what *)
(* it has set elsewhere stays set.                                         *)
LEMMA KeepEffect ==
  ASSUME Inv, Keep, NEW x \in Element
  PROVE  /\ \A s \in Setting \ SettingsOf(call.cmd) : Effective(x)'[s] = Effective(x)[s]
         /\ \A s \in SettingsOf(call.cmd) :
              Effective(x)[s] = call.value => Effective(x)'[s] = call.value
         /\ x = Head(call.todo) /\ conn[x] # "CONN_QUIT_SENT" =>
              \A s \in SettingsOf(call.cmd) : Effective(x)'[s] = call.value
<1> DEFINE e == Head(call.todo)
           kept == Kept(call.cmd, conn[e])
<1>1. /\ ~Sent(call.cmd, conn[e])
      /\ own' = IF kept THEN [own EXCEPT ![e] = With(own[e], call.cmd, call.value)] ELSE own
      /\ server_charset' = IF kept /\ call.cmd = "set_charset" /\ e = Proxy
                             THEN call.value ELSE server_charset
      /\ UNCHANGED <<conn, session>>
  BY DEF Keep
<1>2. /\ e \in Element /\ call.cmd \in Command /\ call.value \in Value /\ call.value # None
      /\ own \in [Element -> Settings] /\ SettingsOf(call.cmd) \subseteq Setting
  BY PassFacts, Basics DEF Keep, Inv, SettingsOf, Setting
<1>3. conn[x] \in {"CONN_ALLOCED", "CONN_READY", "CONN_QUIT_SENT"}
  BY DEF Inv, TypeOK
<1>4. x = e /\ kept =>
        own'[x] \in Settings /\ \A s \in Setting :
          own'[x][s] = IF s \in SettingsOf(call.cmd) THEN call.value ELSE own[x][s]
  BY <1>1, <1>2, WithFacts
<1>5. ~(x = e /\ kept) => own'[x] = own[x]
  BY <1>1, <1>2
<1>6. server_charset' = server_charset \/ (call.cmd = "set_charset" /\ server_charset' = call.value)
  BY <1>1
<1> HIDE DEF e, kept
<1>7. CASE conn[x] # "CONN_ALLOCED"
  <2>1. Effective(x)' = Effective(x)
    BY <1>1, <1>7 DEF Effective
  <2>2. x = e /\ conn[x] # "CONN_QUIT_SENT" => SettingsOf(call.cmd) = {}
    BY <1>1, <1>3, <1>7 DEF Sent, SettingsOf
  <2> QED
    BY <2>1, <2>2, Zenon DEF e
<1>8. CASE conn[x] = "CONN_ALLOCED"
  <2>1. own[x] \in Settings /\ own'[x] \in Settings /\ conn'[x] = "CONN_ALLOCED"
    BY <1>1, <1>2, <1>4, <1>5, <1>8
  <2>2. /\ \A s \in Setting \ {"charset"} : Effective(x)[s] = own[x][s]
        /\ Effective(x)["charset"] = IF server_charset # None /\ own[x]["charset"] = None
                                       THEN server_charset ELSE own[x]["charset"]
    BY <1>8, <2>1, Opening
  <2>3. /\ \A s \in Setting \ {"charset"} : Effective(x)'[s] = own'[x][s]
        /\ Effective(x)'["charset"] = IF server_charset' # None /\ own'[x]["charset"] = None
                                        THEN server_charset' ELSE own'[x]["charset"]
    BY <2>1, OpeningThen
  <2>4. call.cmd = "set_charset" <=> "charset" \in SettingsOf(call.cmd)
    BY <1>2 DEF SettingsOf, Command
  <2>5. x = e => kept \/ SettingsOf(call.cmd) = {}
    BY <1>2, <1>8 DEF kept, Kept, SettingsOf, Command
  <2> HIDE DEF Setting
  <2>6. \A s \in Setting \ SettingsOf(call.cmd) : own'[x][s] = own[x][s]
    BY <1>4, <1>5, Zenon
  <2>7. \A s \in SettingsOf(call.cmd) : own'[x][s] = own[x][s] \/ own'[x][s] = call.value
    BY <1>2, <1>4, <1>5
  <2>8. x = e => \A s \in SettingsOf(call.cmd) : own'[x][s] = call.value
    BY <1>2, <1>4, <2>5
  <2>9. "charset" \in Setting
    BY DEF Setting
  <2>10. \A s \in Setting \ SettingsOf(call.cmd) : Effective(x)'[s] = Effective(x)[s]
    <3>1. "charset" \notin SettingsOf(call.cmd) => Effective(x)'["charset"] = Effective(x)["charset"]
      BY <1>6, <2>2, <2>3, <2>4, <2>6, <2>9
    <3> QED
      BY <2>2, <2>3, <2>6, <3>1
  <2>11. \A s \in SettingsOf(call.cmd) :
           Effective(x)[s] = call.value => Effective(x)'[s] = call.value
    <3>1. "charset" \in SettingsOf(call.cmd) /\ Effective(x)["charset"] = call.value
            => Effective(x)'["charset"] = call.value
      BY <1>2, <1>6, <2>2, <2>3, <2>7
    <3> QED
      BY <1>2, <2>2, <2>3, <2>7, <3>1
  <2>12. x = e => \A s \in SettingsOf(call.cmd) : Effective(x)'[s] = call.value
    BY <1>2, <2>3, <2>8
  <2> QED
    BY <2>10, <2>11, <2>12 DEF e
<1> QED
  BY <1>7, <1>8

(* A step that passes the command on, or tries again, with what it does to *)
(* the connections said apart.                                             *)
LEMMA PassingOn ==
  ASSUME Inv, call.todo # <<>>, call' \in CallType, call'.cmd = call.cmd, call'.value = call.value,
         call'.replayed = call.replayed,
         call'.retries <= MaxRetries, call'.executed <= call'.retries,
         own' \in [Element -> Settings], session' \in [Element -> Settings],
         conn' \in [Element -> {"CONN_ALLOCED", "CONN_READY", "CONN_QUIT_SENT"}],
         server_charset' \in Value \union {None},
         UNCHANGED <<conf, phase, pool, lookup, replay, participants, wanted>>,
         \A x \in ActiveElements(pool) :
           /\ conn[x] = "CONN_QUIT_SENT" => conn'[x] = "CONN_QUIT_SENT"
           /\ conn'[x] # "CONN_QUIT_SENT" =>
                /\ \A s \in Setting \ SettingsOf(call.cmd) : Effective(x)'[s] = Effective(x)[s]
                /\ call'.ret = "PASS" /\ x \notin ToSet(call'.todo) =>
                     \/ \A s \in SettingsOf(call.cmd) : Effective(x)'[s] = call.value
                     \/ /\ call.ret = "PASS" /\ x \notin ToSet(call.todo)
                        /\ \A s \in SettingsOf(call.cmd) :
                             Effective(x)[s] = call.value => Effective(x)'[s] = call.value
  PROVE  Inv'
<1>1. /\ TypeOK /\ PoolInv /\ FabricInv /\ ParticipantsReferenced /\ PassInv
      /\ call # NoCall /\ call.cmd \in Command /\ call.value \in Value /\ phase.at \notin Role
      /\ \A s \in SettingsOf(call.cmd), e \in ActiveElements(pool) : wanted[e][s] = None
  BY PassFacts DEF Inv
<1>2. ActiveElements(pool)' = ActiveElements(pool)
  BY DEF ActiveElements
<1>3. TypeOK'
  BY <1>1 DEF TypeOK, CallType, Settings
<1>4. PoolInv' /\ FabricInv' /\ ParticipantsReferenced' /\ ConnectInv'
  BY <1>1, <1>2 DEF PoolInv, FabricInv, ParticipantsReferenced, ConnectInv
<1>5. RetryBounded'
  BY <1>1 DEF RetryBounded
<1>6. ASSUME NEW s \in Setting, NEW x \in ActiveElements(pool), wanted[x][s] # None,
             conn'[x] # "CONN_QUIT_SENT"
      PROVE  Effective(x)'[s] = wanted[x][s]
  <2>1. s \notin SettingsOf(call.cmd)
    BY <1>1, <1>6
  <2>2. Holds(x, s, wanted[x][s])
    BY <1>1, <1>6 DEF PassInv
  <2> QED
    BY <1>6, <2>1, <2>2 DEF Holds
<1>7. ASSUME NEW s \in Setting, NEW x \in ActiveElements(pool), s \in SettingsOf(call.cmd),
             call'.ret = "PASS", x \notin ToSet(call'.todo), conn'[x] # "CONN_QUIT_SENT"
      PROVE  Effective(x)'[s] = call.value
  <2>1. CASE \A t \in SettingsOf(call.cmd) : Effective(x)'[t] = call.value
    BY <1>7, <2>1
  <2>2. CASE /\ call.ret = "PASS" /\ x \notin ToSet(call.todo)
             /\ \A t \in SettingsOf(call.cmd) :
                  Effective(x)[t] = call.value => Effective(x)'[t] = call.value
    <3>1. Holds(x, s, call.value)
      BY <1>1, <1>7, <2>2 DEF PassInv
    <3>2. Effective(x)[s] = call.value
      BY <1>7, <3>1 DEF Holds
    <3> QED
      BY <1>7, <2>2, <3>2
  <2> QED
    BY <1>7, <2>1, <2>2
<1>8. PassInv'
  BY <1>1, <1>2, <1>6, <1>7 DEF PassInv, Holds
<1> QED
  BY <1>3, <1>4, <1>5, <1>8 DEF Inv

(* The command is not sent to the next connection.                         *)
LEMMA KeepStep == ASSUME Inv, Keep PROVE Inv'
<1> DEFINE e == Head(call.todo)
<1>1. /\ call.todo # <<>> /\ call' = Passed
      /\ UNCHANGED <<conf, phase, pool, conn, session, lookup, replay, participants, wanted>>
      /\ \/ own' = own \/ own' = [own EXCEPT ![e] = With(own[e], call.cmd, call.value)]
      /\ server_charset' = server_charset \/ server_charset' = call.value
  BY DEF Keep
<1>2. /\ call' \in CallType /\ call'.cmd = call.cmd /\ call'.value = call.value
      /\ call'.todo = Tail(call.todo) /\ call'.ret = call.ret /\ call'.replayed = call.replayed
      /\ call'.retries = 0 /\ call'.executed = 0
  BY <1>1, PassedFacts
<1>3. /\ e \in Element /\ call.value \in Value /\ ToSet(call.todo) = {e} \union ToSet(Tail(call.todo))
  BY <1>1, PassFacts
<1>4. /\ own \in [Element -> Settings] /\ session \in [Element -> Settings] /\ MaxRetries \in Nat
      /\ server_charset \in Value \union {None} /\ ActiveElements(pool) \subseteq Element
      /\ conn \in [Element -> {"CONN_ALLOCED", "CONN_READY", "CONN_QUIT_SENT"}]
  BY Basics DEF Inv, TypeOK
<1>5. With(own[e], call.cmd, call.value) \in Settings
  BY <1>3, <1>4, WithFacts
<1> HIDE DEF e
<1>6. own' \in [Element -> Settings] /\ server_charset' \in Value \union {None}
  BY <1>1, <1>3, <1>4, <1>5
<1>7. ASSUME NEW x \in ActiveElements(pool)
      PROVE  /\ conn[x] = "CONN_QUIT_SENT" => conn'[x] = "CONN_QUIT_SENT"
             /\ conn'[x] # "CONN_QUIT_SENT" =>
                  /\ \A s \in Setting \ SettingsOf(call.cmd) : Effective(x)'[s] = Effective(x)[s]
                  /\ call'.ret = "PASS" /\ x \notin ToSet(call'.todo) =>
                       \/ \A s \in SettingsOf(call.cmd) : Effective(x)'[s] = call.value
                       \/ /\ call.ret = "PASS" /\ x \notin ToSet(call.todo)
                          /\ \A s \in SettingsOf(call.cmd) :
                               Effective(x)[s] = call.value => Effective(x)'[s] = call.value
  <2>1. x \in Element
    BY <1>4
  <2>2. /\ \A s \in Setting \ SettingsOf(call.cmd) : Effective(x)'[s] = Effective(x)[s]
        /\ \A s \in SettingsOf(call.cmd) :
             Effective(x)[s] = call.value => Effective(x)'[s] = call.value
        /\ x = e /\ conn[x] # "CONN_QUIT_SENT" =>
             \A s \in SettingsOf(call.cmd) : Effective(x)'[s] = call.value
    BY <2>1, KeepEffect DEF e
  <2>3. x \notin ToSet(call'.todo) => x = e \/ x \notin ToSet(call.todo)
    BY <1>2, <1>3
  <2> QED
    BY <1>1, <1>2, <2>2, <2>3, Zenon
<1>8. call'.retries <= MaxRetries /\ call'.executed <= call'.retries
  BY <1>2, <1>4
<1> QED
  BY <1>1, <1>2, <1>4, <1>6, <1>7, <1>8, PassingOn

(* A connection that failed, whether or not its server had executed it.     *)
LEMMA FailedFacts ==
  ASSUME Inv, call.todo # <<>>, NEW transient \in BOOLEAN, NEW a, a = AfterFailure(transient),
         NEW c, c = a \/ (a.todo = call.todo /\ c = [a EXCEPT !.executed = @ + 1])
  PROVE  /\ c \in CallType /\ c.cmd = call.cmd /\ c.value = call.value
         /\ c.replayed = call.replayed /\ c.retries <= MaxRetries /\ c.executed <= c.retries
         /\ \/ c.todo = call.todo /\ c.ret = call.ret
            \/ c.todo = Tail(call.todo) /\ c.ret = "FAIL"
<1>1. /\ a \in CallType /\ a.cmd = call.cmd /\ a.value = call.value /\ a.replayed = call.replayed
      /\ \/ /\ a.todo = call.todo /\ a.ret = call.ret
            /\ a.retries = call.retries + 1 /\ a.executed = call.executed
         \/ /\ a.todo = Tail(call.todo) /\ a.ret = "FAIL"
            /\ a.retries = 0 /\ a.executed = 0
  BY AfterFailureFacts
<1>2. /\ call.executed <= call.retries /\ call \in CallType /\ MaxRetries \in Nat
      /\ Tail(call.todo) # call.todo
  BY PassFacts, Basics DEF Inv, RetryBounded
<1>3. a.retries \in 0 .. MaxRetries /\ a.executed \in Nat /\ call.retries \in Nat /\ call.executed \in Nat
  BY <1>1, <1>2 DEF CallType
<1>4. CASE c = a
  BY <1>1, <1>2, <1>3, <1>4
<1>5. CASE a.todo = call.todo /\ c = [a EXCEPT !.executed = @ + 1]
  <2> DEFINE n == a.executed + 1
  <2>1. c = [a EXCEPT !.executed = n] /\ n \in Nat
    BY <1>3, <1>5
  <2> HIDE DEF n
  <2>2. /\ c \in CallType /\ c.cmd = a.cmd /\ c.value = a.value /\ c.todo = a.todo /\ c.ret = a.ret
        /\ c.replayed = a.replayed /\ c.retries = a.retries /\ c.executed = n
    BY <1>1, <2>1 DEF CallType
  <2>3. n <= a.retries
    BY <1>1, <1>2, <1>3, <1>5 DEF n
  <2> QED
    BY <1>1, <1>2, <1>3, <1>5, <2>2, <2>3
<1> QED
  BY <1>4, <1>5

(* The library refuses to keep it for the next connection.                 *)
LEMMA KeepFailsStep == ASSUME Inv, KeepFails PROVE Inv'
<1>1. /\ call.todo # <<>>
      /\ UNCHANGED <<conf, phase, pool, conn, own, session, server_charset, lookup, replay,
                     participants, wanted>>
      /\ (\E transient \in BOOLEAN : call' = AfterFailure(transient)) \/ call' = Refused
  BY DEF KeepFails
<1>2. /\ own \in [Element -> Settings] /\ session \in [Element -> Settings]
      /\ server_charset \in Value \union {None} /\ ActiveElements(pool) \subseteq Element
      /\ conn \in [Element -> {"CONN_ALLOCED", "CONN_READY", "CONN_QUIT_SENT"}]
  BY Basics DEF Inv, TypeOK
<1>3. /\ call' \in CallType /\ call'.cmd = call.cmd /\ call'.value = call.value
      /\ call'.replayed = call.replayed
      /\ call'.retries <= MaxRetries /\ call'.executed <= call'.retries
      /\ \/ call'.todo = call.todo /\ call'.ret = call.ret
         \/ call'.todo = Tail(call.todo) /\ call'.ret = "FAIL"
  <2>1. CASE \E transient \in BOOLEAN : call' = AfterFailure(transient)
    BY <1>1, <2>1, FailedFacts
  <2>2. CASE call' = Refused
    BY <1>1, <2>2, RefusedFacts
  <2> QED
    BY <1>1, <2>1, <2>2
<1>4. ASSUME NEW x \in ActiveElements(pool)
      PROVE  /\ conn[x] = "CONN_QUIT_SENT" => conn'[x] = "CONN_QUIT_SENT"
             /\ conn'[x] # "CONN_QUIT_SENT" =>
                  /\ \A s \in Setting \ SettingsOf(call.cmd) : Effective(x)'[s] = Effective(x)[s]
                  /\ call'.ret = "PASS" /\ x \notin ToSet(call'.todo) =>
                       \/ \A s \in SettingsOf(call.cmd) : Effective(x)'[s] = call.value
                       \/ /\ call.ret = "PASS" /\ x \notin ToSet(call.todo)
                          /\ \A s \in SettingsOf(call.cmd) :
                               Effective(x)[s] = call.value => Effective(x)'[s] = call.value
  <2>1. Effective(x)' = Effective(x) /\ conn'[x] = conn[x]
    BY <1>1, <1>2, SameEffect
  <2>2. call'.ret = "PASS" /\ x \notin ToSet(call'.todo) =>
          call.ret = "PASS" /\ x \notin ToSet(call.todo)
    BY <1>3
  <2> QED
    BY <2>1, <2>2, Zenon
<1> QED
  BY <1>1, <1>2, <1>3, <1>4, PassingOn

(* The server of the next connection executes the command.                 *)
LEMMA ExecutesStep == ASSUME Inv, Executes PROVE Inv'
<1> DEFINE e == Head(call.todo)
<1>1. /\ call.todo # <<>> /\ conn[e] = "CONN_READY"
      /\ session' = [session EXCEPT ![e] = With(session[e], call.cmd, call.value)]
      /\ \/ call' = Passed /\ conn' = conn
         \/ /\ conn' = [conn EXCEPT ![e] = "CONN_QUIT_SENT"]
            /\ \E transient \in BOOLEAN :
                 LET after == AfterFailure(transient)
                 IN call' = IF after.todo = call.todo THEN [after EXCEPT !.executed = @ + 1]
                                                      ELSE after
      /\ UNCHANGED <<conf, phase, pool, own, server_charset, lookup, replay, participants, wanted>>
  BY DEF Executes
<1>2. /\ e \in Element /\ call \in CallType /\ call.value \in Value
      /\ ToSet(call.todo) = {e} \union ToSet(Tail(call.todo)) /\ Tail(call.todo) # call.todo
  BY <1>1, PassFacts
<1>3. /\ own \in [Element -> Settings] /\ session \in [Element -> Settings] /\ MaxRetries \in Nat
      /\ server_charset \in Value \union {None} /\ ActiveElements(pool) \subseteq Element
      /\ conn \in [Element -> {"CONN_ALLOCED", "CONN_READY", "CONN_QUIT_SENT"}]
      /\ RetryBounded
  BY Basics DEF Inv, TypeOK
<1>4. /\ With(session[e], call.cmd, call.value) \in Settings
      /\ \A s \in Setting : With(session[e], call.cmd, call.value)[s] =
           IF s \in SettingsOf(call.cmd) THEN call.value ELSE session[e][s]
  BY <1>2, <1>3, WithFacts
<1>5. /\ call' \in CallType /\ call'.cmd = call.cmd /\ call'.value = call.value
      /\ call'.replayed = call.replayed
      /\ call'.retries <= MaxRetries /\ call'.executed <= call'.retries
      /\ \/ call'.todo = Tail(call.todo) /\ (call'.ret = call.ret \/ call'.ret = "FAIL")
         \/ call'.todo = call.todo /\ call'.ret = call.ret
  <2>1. CASE call' = Passed
    BY <1>1, <1>3, <2>1, PassedFacts
  <2>2. CASE \E transient \in BOOLEAN :
               LET after == AfterFailure(transient)
               IN call' = IF after.todo = call.todo THEN [after EXCEPT !.executed = @ + 1]
                                                    ELSE after
    <3>1. PICK transient \in BOOLEAN :
            LET after == AfterFailure(transient)
            IN call' = IF after.todo = call.todo THEN [after EXCEPT !.executed = @ + 1]
                                                 ELSE after
      BY <2>2
    <3> DEFINE a == AfterFailure(transient)
    <3>2. call' = a \/ (a.todo = call.todo /\ call' = [a EXCEPT !.executed = @ + 1])
      BY <3>1
    <3> HIDE DEF a
    <3>3. a = AfterFailure(transient)
      BY DEF a
    <3> QED
      BY <1>1, <3>2, <3>3, FailedFacts
  <2> QED
    BY <1>1, <2>1, <2>2
<1>6. conn' \in [Element -> {"CONN_ALLOCED", "CONN_READY", "CONN_QUIT_SENT"}]
      /\ session' \in [Element -> Settings]
  BY <1>1, <1>2, <1>3, <1>4
<1>7. /\ \A x \in Element : x # e => session'[x] = session[x] /\ conn'[x] = conn[x]
      /\ conn'[e] # "CONN_QUIT_SENT" => conn'[e] = conn[e]
      /\ session'[e] = With(session[e], call.cmd, call.value)
  BY <1>1, <1>2, <1>3
<1> HIDE DEF e
<1>8. ASSUME NEW x \in ActiveElements(pool)
      PROVE  /\ conn[x] = "CONN_QUIT_SENT" => conn'[x] = "CONN_QUIT_SENT"
             /\ conn'[x] # "CONN_QUIT_SENT" =>
                  /\ \A s \in Setting \ SettingsOf(call.cmd) : Effective(x)'[s] = Effective(x)[s]
                  /\ call'.ret = "PASS" /\ x \notin ToSet(call'.todo) =>
                       \/ \A s \in SettingsOf(call.cmd) : Effective(x)'[s] = call.value
                       \/ /\ call.ret = "PASS" /\ x \notin ToSet(call.todo)
                          /\ \A s \in SettingsOf(call.cmd) :
                               Effective(x)[s] = call.value => Effective(x)'[s] = call.value
  <2>1. x \in Element
    BY <1>3
  <2>2. CASE x # e
    <3>1. conn'[x] = conn[x] /\ session'[x] = session[x] /\ own'[x] = own[x]
      BY <1>1, <1>7, <2>1, <2>2
    <3>2. Effective(x)' = Effective(x)
      BY <1>1, <2>1, <3>1, SameEffect
    <3>3. call'.ret = "PASS" /\ x \notin ToSet(call'.todo) =>
            call.ret = "PASS" /\ x \notin ToSet(call.todo)
      BY <1>2, <1>5, <2>2
    <3> QED
      BY <3>1, <3>2, <3>3, Zenon
  <2>3. CASE x = e
    <3>1. conn[x] = "CONN_READY" /\ (conn'[x] # "CONN_QUIT_SENT" => conn'[x] = "CONN_READY")
      BY <1>1, <1>7, <2>3
    <3>2. Effective(x) = session[x]
      BY <3>1 DEF Effective
    <3>3. conn'[x] # "CONN_QUIT_SENT" => Effective(x)' = session'[x]
      BY <3>1 DEF Effective
    <3>4. \A s \in Setting : session'[x][s] = IF s \in SettingsOf(call.cmd) THEN call.value
                                                                          ELSE session[x][s]
      BY <1>4, <1>7, <2>3
    <3>5. SettingsOf(call.cmd) \subseteq Setting
      BY DEF SettingsOf, Setting
    <3> QED
      BY <3>1, <3>2, <3>3, <3>4, <3>5
  <2> QED
    BY <2>2, <2>3
<1> QED
  BY <1>1, <1>3, <1>5, <1>6, <1>8, PassingOn

(* It is refused, or does not get there.                                   *)
LEMMA RefusesStep == ASSUME Inv, Refuses PROVE Inv'
<1> DEFINE e == Head(call.todo)
<1>1. /\ call.todo # <<>>
      /\ \/ conn' = conn
         \/ conn' = [conn EXCEPT ![e] = "CONN_QUIT_SENT"]
      /\ UNCHANGED <<conf, phase, pool, own, session, server_charset, lookup, replay,
                     participants, wanted>>
  BY DEF Refuses
<1>2. PICK transient \in BOOLEAN : call' = AfterFailure(transient)
  BY DEF Refuses
<1>3. /\ e \in Element /\ ToSet(call.todo) = {e} \union ToSet(Tail(call.todo))
  BY <1>1, PassFacts
<1>4. /\ own \in [Element -> Settings] /\ session \in [Element -> Settings]
      /\ server_charset \in Value \union {None} /\ ActiveElements(pool) \subseteq Element
      /\ conn \in [Element -> {"CONN_ALLOCED", "CONN_READY", "CONN_QUIT_SENT"}]
  BY Basics DEF Inv, TypeOK
<1>5. /\ call' \in CallType /\ call'.cmd = call.cmd /\ call'.value = call.value
      /\ call'.replayed = call.replayed
      /\ call'.retries <= MaxRetries /\ call'.executed <= call'.retries
      /\ \/ call'.todo = call.todo /\ call'.ret = call.ret
         \/ call'.todo = Tail(call.todo) /\ call'.ret = "FAIL"
  BY <1>1, <1>2, FailedFacts
<1> HIDE DEF e
<1>6. /\ conn' \in [Element -> {"CONN_ALLOCED", "CONN_READY", "CONN_QUIT_SENT"}]
      /\ \A x \in Element : conn'[x] = "CONN_QUIT_SENT" \/ conn'[x] = conn[x]
  BY <1>1, <1>3, <1>4
<1>7. ASSUME NEW x \in ActiveElements(pool)
      PROVE  /\ conn[x] = "CONN_QUIT_SENT" => conn'[x] = "CONN_QUIT_SENT"
             /\ conn'[x] # "CONN_QUIT_SENT" =>
                  /\ \A s \in Setting \ SettingsOf(call.cmd) : Effective(x)'[s] = Effective(x)[s]
                  /\ call'.ret = "PASS" /\ x \notin ToSet(call'.todo) =>
                       \/ \A s \in SettingsOf(call.cmd) : Effective(x)'[s] = call.value
                       \/ /\ call.ret = "PASS" /\ x \notin ToSet(call.todo)
                          /\ \A s \in SettingsOf(call.cmd) :
                               Effective(x)[s] = call.value => Effective(x)'[s] = call.value
  <2>1. x \in Element /\ own'[x] = own[x] /\ session'[x] = session[x]
    BY <1>1, <1>4
  <2>2. conn'[x] # "CONN_QUIT_SENT" => conn'[x] = conn[x]
    BY <1>6, <2>1
  <2>3. conn'[x] # "CONN_QUIT_SENT" => Effective(x)' = Effective(x)
    BY <1>1, <2>1, <2>2, SameEffect
  <2>4. call'.ret = "PASS" /\ x \notin ToSet(call'.todo) =>
          call.ret = "PASS" /\ x \notin ToSet(call.todo)
    BY <1>5
  <2> QED
    BY <2>2, <2>3, <2>4, Zenon
<1> QED
  BY <1>1, <1>4, <1>5, <1>6, <1>7, PassingOn

(* The command has gone everywhere.                                        *)
LEMMA ReturnStep == ASSUME Inv, Return PROVE Inv'
<1>1. /\ TypeOK /\ PoolInv /\ FabricInv /\ ParticipantsReferenced /\ PassInv /\ ConnectInv
      /\ call # NoCall /\ call.todo = <<>> /\ call' = NoCall
      /\ wanted' = IF call.ret = "PASS" /\ ~call.replayed
                     THEN [e \in Element |-> With(wanted[e], call.cmd, call.value)] ELSE wanted
      /\ UNCHANGED <<conf, phase, pool, conn, own, session, server_charset, lookup, replay,
                     participants>>
  BY DEF Return, Inv
<1>2. call.value \in Value /\ phase.at \notin Role /\ wanted \in [Element -> Settings] /\ MaxRetries \in Nat
      /\ None \notin Command /\ ActiveElements(pool) \subseteq Element
  BY <1>1, Basics DEF PassInv, ConnectInv
<1>3. /\ wanted' \in [Element -> Settings]
      /\ \A e \in Element, s \in Setting : wanted'[e][s] =
           IF s \in SettingsOf(call.cmd) /\ call.ret = "PASS" /\ ~call.replayed
             THEN call.value ELSE wanted[e][s]
  <2>1. \A e \in Element :
          /\ With(wanted[e], call.cmd, call.value) \in Settings
          /\ \A s \in Setting : With(wanted[e], call.cmd, call.value)[s] =
               IF s \in SettingsOf(call.cmd) THEN call.value ELSE wanted[e][s]
    BY <1>2, WithFacts
  <2>2. CASE call.ret = "PASS" /\ ~call.replayed
    BY <1>1, <2>1, <2>2
  <2>3. CASE ~(call.ret = "PASS" /\ ~call.replayed)
    BY <1>1, <1>2, <2>3
  <2> QED
    BY <2>2, <2>3
<1>10. call' \in CallType /\ ~call'.replayed
  BY <1>1, <1>2 DEF CallType, NoCall
<1>4. TypeOK'
  BY <1>1, <1>3, <1>10 DEF TypeOK, CallType, Settings
<1>5. PoolInv' /\ FabricInv' /\ ParticipantsReferenced' /\ ConnectInv'
  BY <1>1, <1>2, <1>10 DEF PoolInv, FabricInv, ParticipantsReferenced, ConnectInv, ActiveElements
<1>6. RetryBounded'
  BY <1>1, <1>2 DEF RetryBounded, NoCall
<1>7. ASSUME NEW s \in Setting, NEW x \in ActiveElements(pool), wanted'[x][s] # None,
             conn'[x] # "CONN_QUIT_SENT"
      PROVE  Effective(x)'[s] = wanted'[x][s]
  <2>1. Effective(x)' = Effective(x)
    BY <1>1, <1>2, SameEffect
  <2>2. CASE s \in SettingsOf(call.cmd) /\ call.ret = "PASS" /\ ~call.replayed
    <3>1. x \notin ToSet(call.todo) /\ wanted'[x][s] = call.value
      BY <1>1, <1>2, <1>3, <2>2, ToSetEmpty
    <3>2. Holds(x, s, call.value)
      BY <1>1, <2>2, <3>1 DEF PassInv
    <3> QED
      BY <1>1, <1>7, <2>1, <3>1, <3>2 DEF Holds
  <2>3. CASE ~(s \in SettingsOf(call.cmd) /\ call.ret = "PASS" /\ ~call.replayed)
    <3>1. wanted'[x][s] = wanted[x][s]
      BY <1>2, <1>3, <2>3
    <3>2. Holds(x, s, wanted[x][s])
      BY <1>1, <1>7, <3>1 DEF PassInv
    <3> QED
      BY <1>1, <1>7, <2>1, <3>1, <3>2 DEF Holds
  <2> QED
    BY <2>2, <2>3
<1>8. SettingsOf(call'.cmd) = {}
  BY <1>1, <1>2 DEF NoCall, SettingsOf, Command
<1>9. PassInv'
  <2>1. ActiveElements(pool)' = ActiveElements(pool)
    BY <1>1 DEF ActiveElements
  <2> QED
    BY <1>1, <1>7, <1>8, <2>1 DEF PassInv, Holds
<1> QED
  BY <1>4, <1>5, <1>6, <1>9 DEF Inv

-----------------------------------------------------------------------------
(* Global transactions and selections.                                     *)

(* What only takes connections from the filters tells no connection        *)
(* anything.                                                               *)
LEMMA NothingTold ==
  ASSUME Inv, UNCHANGED <<conf, phase, conn, own, session, server_charset, call, wanted>>,
         ActiveElements(pool)' \subseteq ActiveElements(pool)
  PROVE  PassInv' /\ RetryBounded' /\ (phase.at \notin Role => ConnectInv')
<1>1. PassInv /\ RetryBounded /\ ActiveElements(pool) \subseteq Element
  BY Basics DEF Inv
<1>2. \A x \in Element : Effective(x)' = Effective(x)
  BY SameEffect
<1>3. PassInv'
  BY <1>1, <1>2 DEF PassInv, Holds
<1> QED
  BY <1>1, <1>3 DEF RetryBounded, ConnectInv

(* A connection becomes a participant.                                     *)
LEMMA EnlistStep == ASSUME Inv, NEW e \in Element, Enlist(e) PROVE Inv'
<1>1. /\ TypeOK /\ PoolInv /\ FabricInv /\ ParticipantsReferenced /\ AtRest
      /\ e \in ActiveElements(pool) /\ participants' = participants \union {e}
      /\ pool' = [pool EXCEPT !.entry[e].ref = @ + 1]
      /\ UNCHANGED <<conf, phase, conn, own, session, server_charset, call, lookup, replay, wanted>>
  BY DEF Enlist, AddReference, Inv
<1>2. /\ pool \in Pool /\ ActiveElements(pool) \subseteq Element /\ phase.at \notin Role
      /\ pool.entry[e].ref >= 1
  BY <1>1, Basics, RestFacts DEF PoolInv
<1> DEFINE n == pool.entry[e].ref + 1
<1>3. pool' = [pool EXCEPT !.entry[e].ref = n] /\ n \in Nat /\ n >= 2
  BY <1>1, <1>2 DEF Pool
<1> HIDE DEF n
<1>4. /\ pool' \in Pool /\ pool'.list = pool.list /\ pool'.active = pool.active
      /\ \A x \in Element : pool'.entry[x].ref = IF x = e THEN n ELSE pool.entry[x].ref
  BY <1>2, <1>3, ReferenceFacts
<1>5. ActiveElements(pool)' = ActiveElements(pool)
  BY <1>4 DEF ActiveElements
<1>6. TypeOK'
  BY <1>1, <1>4 DEF TypeOK
<1>7. PoolInv'
  <2>1. \A x \in ActiveElements(pool) : pool'.entry[x].ref >= 1
    BY <1>1, <1>2, <1>3, <1>4 DEF PoolInv
  <2> QED
    BY <1>1, <1>2, <1>4, <1>5, <2>1 DEF PoolInv
<1>8. FabricInv'
  BY <1>1, <1>4 DEF FabricInv
<1>9. ParticipantsReferenced'
  BY <1>1, <1>2, <1>3, <1>4 DEF ParticipantsReferenced, PoolInv
<1> QED
  BY <1>1, <1>2, <1>5, <1>6, <1>7, <1>8, <1>9, NothingTold DEF Inv

(* The global transaction is over.                                         *)
LEMMA XaDoneStep == ASSUME Inv, XaDone PROVE Inv'
<1>1. /\ TypeOK /\ PoolInv /\ FabricInv /\ AtRest /\ participants' = {}
      /\ pool' = FreeReferences(pool, Cardinality(participants))
      /\ UNCHANGED <<conf, phase, conn, own, session, server_charset, call, lookup, replay, wanted>>
  BY DEF XaDone, Inv
<1>2. pool \in Pool /\ phase.at \notin Role
  BY <1>1, Basics, RestFacts
<1>3. Cardinality(participants) \in Nat
  <2>1. participants \subseteq Element
    BY <1>1 DEF TypeOK
  <2>2. IsFiniteSet(participants)
    BY <2>1, ElementFacts, FS_Subset
  <2> QED
    BY <2>2, FS_CardinalityType
<1>4. /\ pool' \in Pool /\ pool'.list = pool.list /\ pool'.active = pool.active
      /\ \A x \in ActiveElements(pool) : pool'.entry[x].ref >= 1
  <2>1. \A x \in ActiveElements(pool) : pool.entry[x].ref >= 1
    BY <1>1 DEF PoolInv
  <2> DEFINE n == Cardinality(participants)
             q == FreeReferences(pool, n)
  <2>2. n \in Nat
    BY <1>3
  <2> HIDE DEF n
  <2>3. /\ q \in Pool /\ q.list = pool.list /\ q.active = pool.active
        /\ \A x \in ActiveElements(pool) : q.entry[x].ref >= 1
    BY <1>2, <2>1, <2>2, FreeFacts
  <2>4. pool' = q
    BY <1>1 DEF n
  <2> HIDE DEF q
  <2> QED
    BY <2>3, <2>4
<1>5. ActiveElements(pool)' = ActiveElements(pool)
  BY <1>4 DEF ActiveElements
<1>6. TypeOK'
  BY <1>1, <1>4 DEF TypeOK
<1>7. PoolInv' /\ FabricInv' /\ ParticipantsReferenced'
  BY <1>1, <1>2, <1>4, <1>5 DEF PoolInv, FabricInv, ParticipantsReferenced
<1> QED
  BY <1>1, <1>2, <1>5, <1>6, <1>7, NothingTold DEF Inv

(* Fabric is asked for the servers of a shard.                             *)
LEMMA FabricSelectStep ==
  ASSUME Inv, NEW servers \in FabricAnswers, FabricSelect(servers) PROVE Inv'
<1>1. /\ TypeOK /\ PoolInv /\ FabricInv /\ ParticipantsReferenced /\ AtRest /\ conf.fabric
      /\ pool' = FlushActive(pool)
      /\ lookup' = lookup \/ lookup' = [NoLookup EXCEPT !.at = "servers", !.servers = servers]
      /\ UNCHANGED <<conf, phase, conn, own, session, server_charset, call, replay,
                     participants, wanted>>
  BY DEF FabricSelect, Inv
<1>2. /\ pool \in Pool /\ phase.at \notin Role /\ ActiveElements(pool) = {}
      /\ pool.list = EmptyPool.list
  BY <1>1, Basics, FabricEmpty DEF FabricInv
<1>3. pool' \in Pool /\ pool'.list = EmptyPool.list /\ pool'.active = EmptyPool.active
  BY <1>1, <1>2, FlushFacts
<1>4. ActiveElements(pool)' = {}
  BY <1>3, EmptyFacts DEF ActiveElements
<1>5. participants = {}
  BY <1>1, <1>2 DEF PoolInv
<1>6. /\ lookup' \in [at : {None, "servers"}, servers : Seq([host : Element, rw : BOOLEAN]),
                      key : Seq(Element \X BOOLEAN), role : Role, active : BOOLEAN, removed : BOOLEAN]
      /\ ~lookup'.active /\ ~lookup'.removed
  <2>1. servers \in Seq([host : Element, rw : BOOLEAN])
    BY ConnectionsAssumption
  <2>2. /\ NoLookup \in [at : {None, "servers"}, servers : Seq([host : Element, rw : BOOLEAN]),
                         key : Seq(Element \X BOOLEAN), role : Role, active : BOOLEAN,
                         removed : BOOLEAN]
        /\ ~NoLookup.active /\ ~NoLookup.removed
    BY DEF NoLookup, Role
  <2>3. CASE lookup' = lookup
    BY <1>1, <2>3 DEF TypeOK, FabricInv
  <2>4. CASE lookup' = [NoLookup EXCEPT !.at = "servers", !.servers = servers]
    BY <2>1, <2>2, <2>4
  <2> QED
    BY <1>1, <2>3, <2>4
<1>7. TypeOK'
  BY <1>1, <1>3, <1>6 DEF TypeOK
<1>8. PoolInv' /\ FabricInv' /\ ParticipantsReferenced'
  BY <1>1, <1>2, <1>3, <1>4, <1>5, <1>6 DEF PoolInv, FabricInv, ParticipantsReferenced
<1> QED
  BY <1>1, <1>2, <1>4, <1>7, <1>8, NothingTold DEF Inv

(* A server of the answer is looked for in the pool, where nothing is.     *)
LEMMA VisitStep == ASSUME Inv, Visit PROVE Inv'
<1>1. /\ TypeOK /\ PoolInv /\ FabricInv /\ ParticipantsReferenced /\ lookup.servers # <<>>
      /\ UNCHANGED <<conf, phase, conn, own, session, server_charset, call, replay,
                     participants, wanted>>
  BY DEF Visit, Inv
<1>2. conf.fabric /\ ~lookup.active /\ ~lookup.removed
  BY <1>1 DEF FabricInv, NoLookup
<1>3. \A key : Found(pool, key) = {}
  BY <1>1, <1>2, ToSetEmpty DEF FabricInv, EmptyPool, Found, Role
<1> DEFINE server == Head(lookup.servers)
           rest == Tail(lookup.servers)
           key == Append(lookup.key, <<server.host, FALSE>>)
           next == [lookup EXCEPT !.servers = rest, !.key = key]
<1>4. server \in [host : Element, rw : BOOLEAN] /\ rest \in Seq([host : Element, rw : BOOLEAN])
  <2>1. lookup.servers \in Seq([host : Element, rw : BOOLEAN])
    BY <1>1 DEF TypeOK
  <2> QED
    BY <1>1, <2>1, ToSetTail, Zenon
<1>5. key \in Seq(Element \X BOOLEAN)
  <2>1. <<server.host, FALSE>> \in Element \X BOOLEAN
    BY <1>4
  <2>2. lookup.key \in Seq(Element \X BOOLEAN)
    BY <1>1 DEF TypeOK
  <2> HIDE DEF server
  <2> QED
    BY <2>1, <2>2
<1>6. lookup \in [at : {None, "servers"}, servers : Seq([host : Element, rw : BOOLEAN]),
                  key : Seq(Element \X BOOLEAN), role : Role, active : BOOLEAN, removed : BOOLEAN]
  BY <1>1 DEF TypeOK
<1>7. ~next.active /\ ~next.removed
  BY <1>2, <1>6
<1>8. lookup' = next /\ pool' = pool
  <2>1. Found(pool, key) = {}
    BY <1>3
  <2> QED
    BY <1>7, <2>1 DEF Visit
<1> HIDE DEF rest, key, server
<1>9. /\ lookup' \in [at : {None, "servers"}, servers : Seq([host : Element, rw : BOOLEAN]),
                      key : Seq(Element \X BOOLEAN), role : Role, active : BOOLEAN, removed : BOOLEAN]
      /\ ~lookup'.active /\ ~lookup'.removed
  BY <1>4, <1>5, <1>6, <1>7, <1>8
<1>10. ActiveElements(pool)' = ActiveElements(pool) /\ phase.at \notin Role
  BY <1>2, <1>8, FabricEmpty DEF ActiveElements
<1>11. TypeOK'
  BY <1>1, <1>8, <1>9 DEF TypeOK
<1>12. PoolInv' /\ FabricInv' /\ ParticipantsReferenced'
  BY <1>1, <1>2, <1>8, <1>9, <1>10 DEF PoolInv, FabricInv, ParticipantsReferenced
<1> QED
  BY <1>1, <1>10, <1>11, <1>12, NothingTold DEF Inv

(* All servers have been looked for.                                       *)
LEMMA SelectedStep == ASSUME Inv, Selected PROVE Inv'
<1>1. /\ TypeOK /\ PoolInv /\ FabricInv /\ ParticipantsReferenced /\ lookup.at = "servers"
      /\ lookup' = NoLookup /\ replay' = pool.buffered_cmds
      /\ UNCHANGED <<conf, phase, pool, conn, own, session, server_charset, call,
                     participants, wanted>>
  BY DEF Selected, Inv
<1>2. conf.fabric
  <2>1. NoLookup.at # "servers"
    BY ConnectionsAssumption DEF NoLookup
  <2> QED
    BY <1>1, <2>1 DEF FabricInv
<1>3. replay' \in Seq(Buffer)
  BY <1>1 DEF TypeOK, Pool
<1>4. lookup' \in [at : {None, "servers"}, servers : Seq([host : Element, rw : BOOLEAN]),
                   key : Seq(Element \X BOOLEAN), role : Role, active : BOOLEAN, removed : BOOLEAN]
      /\ ~lookup'.active /\ ~lookup'.removed
  BY <1>1 DEF NoLookup, Role
<1>5. ActiveElements(pool)' = ActiveElements(pool) /\ phase.at \notin Role
  BY <1>1, <1>2, FabricEmpty DEF ActiveElements
<1>6. TypeOK'
  BY <1>1, <1>3, <1>4 DEF TypeOK
<1>7. PoolInv' /\ FabricInv' /\ ParticipantsReferenced'
  BY <1>1, <1>2, <1>4, <1>5 DEF PoolInv, FabricInv, ParticipantsReferenced
<1> QED
  BY <1>1, <1>5, <1>6, <1>7, NothingTold DEF Inv

-----------------------------------------------------------------------------
(* The theorems.                                                           *)

(* Inv holds always: what the pool keeps, what it is with Fabric, what the *)
(* connections are told while connect is under way and while a command is  *)
(* passed on.                                                              *)
THEOREM ConnectionsInvariance == Spec => []Inv
<1>1. Init => Inv
  BY InitInv
<1>2. Inv /\ [Next]_vars => Inv'
  <2> SUFFICES ASSUME Inv, [Next]_vars PROVE Inv'
    OBVIOUS
  <2>1. CASE ConnectToHost
    BY <2>1, ConnectStep
  <2>2. CASE SectionDone
    BY <2>2, SectionDoneStep
  <2>3. CASE PassOn
    BY <2>3, KeepStep, KeepFailsStep, ExecutesStep, RefusesStep, ReturnStep, VisitStep, SelectedStep, ReplayStep
       DEF PassOn
  <2>4. CASE XaDone
    BY <2>4, XaDoneStep
  <2>5. CASE Close
    BY <2>5, CloseStep
  <2>6. CASE \E e \in Element : LazyConnect(e) \/ Lose(e) \/ Enlist(e)
    BY <2>6, LazyConnectStep, LoseStep, EnlistStep
  <2>7. CASE \E given \in Given : SessionCommand(given[1], given[2])
    <3>1. PICK given \in Given : SessionCommand(given[1], given[2])
      BY <2>7
    <3>2. given[1] \in Command /\ given[2] \in Value
      BY ConnectionsAssumption
    <3> QED
      BY <3>1, <3>2, SessionCommandStep
  <2>8. CASE \E servers \in FabricAnswers : FabricSelect(servers)
    BY <2>8, FabricSelectStep
  <2>9. CASE UNCHANGED vars
    <3>1. /\ UNCHANGED <<conf, phase, conn, own, session, server_charset, call, lookup, replay,
                         participants, wanted, pool>>
          /\ TypeOK /\ PoolInv /\ FabricInv /\ ConnectInv /\ ParticipantsReferenced
      BY <2>9 DEF vars, Inv
    <3>2. ActiveElements(pool)' = ActiveElements(pool)
      BY <3>1 DEF ActiveElements
    <3>3. TypeOK' /\ PoolInv' /\ FabricInv' /\ ParticipantsReferenced'
      BY <3>1, <3>2 DEF TypeOK, PoolInv, FabricInv, ParticipantsReferenced
    <3>4. ConnectInv'
      <4>1. /\ wanted' = wanted /\ conf' = conf /\ own' = own
            /\ \A x \in Element : FromConnect(x)' = FromConnect(x) /\ AskedFor(x)' = AskedFor(x)
        BY <3>1, AskedForStays
      <4> QED
        BY <3>1, <3>2, <4>1 DEF ConnectInv
    <3>5. PassInv' /\ RetryBounded'
      BY <3>1, <3>2, NothingTold
    <3> QED
      BY <3>3, <3>4, <3>5 DEF Inv
  <2> QED
    BY <2>1, <2>2, <2>3, <2>4, <2>5, <2>6, <2>7, <2>8, <2>9 DEF Next
<1> QED
  BY <1>1, <1>2, PTL DEF Spec

(* Connect, the pool, the commands and the selections keep to their types. *)
THEOREM ConnectionsTypeCorrect == Spec => []TypeOK
<1>1. Inv => TypeOK
  BY DEF Inv
<1> QED
  BY <1>1, ConnectionsInvariance, PTL

(* Whatever the application has set and was told is set holds on every     *)
(* connection a filter may pick, open or not, and before that what the     *)
(* server's section or the call of connect says.                           *)
THEOREM ServersAgree == Spec => []Agree
<1>1. Inv => Agree
  BY RestFacts DEF Agree, Holds, Setting
<1> QED
  BY <1>1, ConnectionsInvariance, PTL

(* The references given back to the wrong connection never take one that a *)
(* running global transaction needs.                                       *)
THEOREM ParticipantsKept == Spec => []ParticipantsReferenced
<1>1. Inv => ParticipantsReferenced
  BY DEF Inv
<1> QED
  BY <1>1, ConnectionsInvariance, PTL

(* No server is told a session command more often than the retries allow,  *)
(* whatever the servers before it were told.                               *)
THEOREM RetriesBounded == Spec => []RetryBounded
<1>1. Inv => RetryBounded
  BY DEF Inv
<1> QED
  BY <1>1, ConnectionsInvariance, PTL

(* With Fabric there is never a connection to pick, whatever a lookup      *)
(* answers: a server of the answer counts as known before it is looked for,*)
(* so that none is ever added.                                             *)
THEOREM SelectionAddsNothing == Spec => [](conf.fabric => ActiveElements(pool) = {})
<1>1. Inv => (conf.fabric => ActiveElements(pool) = {})
  BY FabricEmpty
<1> QED
  BY <1>1, ConnectionsInvariance, PTL
=============================================================================

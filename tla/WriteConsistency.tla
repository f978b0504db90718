--------------------------- MODULE WriteConsistency ---------------------------
(***************************************************************************)
(* Server side write consistency: the clients of one context partition     *)
(* agree in memcached on the master they write to.  A write takes a token  *)
(* from a counter, reads what the tokens before it say, picks a master,    *)
(* marks its own token as running, and marks it as executed, with the GTID *)
(* the server has assigned, when the write is done.                        *)
(*                                                                         *)
(* Every request to memcached and to a server is a step of its own, so     *)
(* that the clients are interleaved between any two of them.  Modelled is  *)
(* a partition with memcached_wkey and running_wdepth > 0 in autocommit    *)
(* mode (a transaction is one long write), without running_ttl and with    *)
(* race_avoid disabled.                                                    *)
(***************************************************************************)
EXTENDS Integers, FiniteSets, Sequences

CONSTANTS
  Client,       \* connections of PHP processes, all of one context partition
  Master,       \* the masters of the cluster
  NoHost,       \* no master
  Proxy,        \* the master whose connection is also the application's handle
  Causal,       \* a master applies a write after all that its origin had applied
  Settings      \* the configurations to look at

Setting == [clients : SUBSET Client,  \* the clients that write
            depth : Nat \ {0},   \* running_wdepth
            module : Nat,        \* module: tokens are counted modulo this, 0 for never
            useGet : BOOLEAN,    \* use_get: slots are read one by one
            autoClean : BOOLEAN, \* auto_clean: old tokens are deleted
            orderly : SUBSET {"depth", "announced"},  \* what clients wait for
            faults : SUBSET {"unreachable", "lost_answer", "failed", "crash"},
            maxWrites : Nat \ {0}] \* bound on the number of tokens and of writes

ASSUME ConstantsAssumption ==
  /\ NoHost \notin Master /\ Proxy \in Master /\ Cardinality(Master) > 1
  /\ Causal \in BOOLEAN
  /\ Settings \subseteq Setting

VARIABLES
  conf,     \* the configuration, the same for every client
  counter,  \* memcached: the token counter, at the key of the partition
  slot,     \* memcached: what is known of a token
  log,      \* the writes so far: the master that executed each, what it had then
  applied,  \* the writes a master has executed or replicated
  pc,       \* what a client is about to do
  my,       \* what a client remembers of its current write
  checked   \* last_ckgtid of a client's connection to a master

vars == <<conf, counter, slot, log, applied, pc, my, checked>>

Write == 0 .. conf.maxWrites  \* a write stands for its GTID, 0 for no GTID
Slot == 0 .. (IF conf.module = 0 THEN conf.maxWrites ELSE conf.module) - 1

Value == [marker : {"absent", "empty", "running", "executed"},
          host : Master \union {NoHost}, gtid : Write, checked : Write]

Plain(marker, host) == [marker |-> marker, host |-> host, gtid |-> 0, checked |-> 0]
Absent == Plain("absent", NoHost)

umodule(a) == IF conf.module = 0 THEN a ELSE a % conf.module

Local == [token : Slot, at : Int, lastChk : Nat, found : BOOLEAN,
          running : Master \union {NoHost}, last : Master \union {NoHost},
          gtid : Write, max : Write, conn : Master \union {NoHost},
          value : Master \union {NoHost}, wrote : Write]

Fresh == [token |-> 0, at |-> 0, lastChk |-> 0, found |-> FALSE,
          running |-> NoHost, last |-> NoHost, gtid |-> 0, max |-> 0,
          conn |-> NoHost, value |-> NoHost, wrote |-> 0]

TypeOK ==
  /\ conf \in Settings
  /\ counter \in Nat
  /\ slot \in [Slot -> Value]
  /\ log \in Seq([host : Master, seen : SUBSET (1 .. conf.maxWrites)])
  /\ applied \in [Master -> SUBSET (1 .. Len(log))]
  /\ pc \in [Client -> {"idle", "wrap", "read", "add", "get", "run",
                        "mark", "clean", "delete", "gone"}]
  /\ my \in [Client -> Local]
  /\ checked \in [Client -> [Master -> Write]]

Init ==
  /\ conf \in Settings
  /\ counter = 0
  /\ slot = [k \in Slot |-> Absent]
  /\ log = <<>>
  /\ applied = [m \in Master |-> {}]
  /\ pc = [c \in Client |-> IF c \in conf.clients THEN "idle" ELSE "gone"]
  /\ my = [c \in Client |-> Fresh]
  /\ checked = [c \in Client |-> [m \in Master |-> 0]]

Goto(c, where) == pc' = [pc EXCEPT ![c] = where]
Reach == IF "unreachable" \in conf.faults THEN SUBSET Master ELSE {Master}

-----------------------------------------------------------------------------
(* mysqlnd_ms_aux_ss_gtid_mtoken: take a token.                            *)

(* Mutant: the incremented counter is the token.                           *)
StartUnadjusted(c) ==
  /\ pc[c] = "idle"
  /\ conf.module = 0 => counter < conf.maxWrites
  /\ counter' = counter + 1
  /\ LET token == umodule(counter')
     IN  my' = [my EXCEPT ![c] = [Fresh EXCEPT !.token = token, !.at = token]]
  /\ Goto(c, "read")
  /\ UNCHANGED <<conf, slot, log, applied, checked>>

Start(c) ==
  /\ pc[c] = "idle"
  /\ conf.module = 0 => counter < conf.maxWrites
  /\ \A d \in Client : pc[d] \notin {"idle", "gone"} =>
       /\ "depth" \in conf.orderly => umodule(counter - my[d].token) <= conf.depth
       /\ "announced" \in conf.orderly => pc[d] \notin {"wrap", "read", "add", "get"}
  /\ counter' = counter + 1
  /\ LET token == umodule(counter)
         limit == IF conf.module = 0 /\ token < conf.depth THEN token ELSE conf.depth + 1
     IN  my' = [my EXCEPT ![c] = [Fresh EXCEPT !.token = token, !.at = token - limit]]
  /\ Goto(c, IF conf.module # 0 /\ counter' = conf.module + 1 THEN "wrap" ELSE "read")
  /\ UNCHANGED <<conf, slot, log, applied, checked>>

(* Mutant: the counter is set back, not decremented.                       *)
WrapReset(c) ==
  /\ pc[c] = "wrap"
  /\ counter' = 1
  /\ Goto(c, "read")
  /\ UNCHANGED <<conf, slot, log, applied, my, checked>>

Wrap(c) ==
  /\ pc[c] = "wrap"
  /\ counter' = counter - conf.module
  /\ Goto(c, "read")
  /\ UNCHANGED <<conf, slot, log, applied, my, checked>>

-----------------------------------------------------------------------------
(* mysqlnd_ms_aux_ss_gtid_mget: what the tokens before this one say.       *)

(* The last running write wins; of the executed ones the last, but on the  *)
(* same master the one with the highest GTID.  A write without a GTID only *)
(* counts for what it was checked against.                                 *)
Seen(l, k, v) ==
  LET r == [l EXCEPT !.at = @ + 1, !.found = TRUE, !.lastChk = k]
      executed == v.marker = "executed"
  IN
  CASE v.marker = "running" -> [r EXCEPT !.running = v.host]
    [] executed /\ v.gtid # 0 /\ (v.gtid > l.max \/ l.last \notin {NoHost, v.host}) ->
         [r EXCEPT !.last = v.host, !.gtid = v.gtid, !.max = v.gtid]
    [] executed /\ v.gtid = 0 /\ v.checked # 0 /\ l.gtid = 0 ->
         [r EXCEPT !.last = v.host, !.gtid = v.checked]
    [] OTHER -> r

Readable(k) == k \in Slot /\ slot[k].marker \in {"running", "executed"}

Read(c) ==
  LET k == umodule(my[c].at)
      stop == conf.useGet /\ my[c].found
  IN
  /\ pc[c] = "read" /\ my[c].at < my[c].token
  /\ my' = [my EXCEPT ![c] =
              IF Readable(k) THEN Seen(my[c], k, slot[k])
              ELSE [my[c] EXCEPT !.at = IF stop THEN my[c].token ELSE @ + 1]]
  /\ UNCHANGED <<conf, counter, slot, log, applied, pc, checked>>

-----------------------------------------------------------------------------
(* mysqlnd_ms_aux_ss_gtid_filter: pick a master.                           *)

(* Mutant: any master will do when nothing is running.                     *)
CandidatesUnchecked(l) == IF l.running # NoHost THEN {l.running} ELSE Master

(* A running write binds the others to its master.  The master of the last *)
(* write is taken unseen, another one if it has applied that write.        *)
Candidates(l) ==
  IF l.running # NoHost THEN {l.running}
  ELSE IF l.last # NoHost
  THEN {l.last} \union {m \in Master : l.gtid \in applied[m]}
  ELSE Master

(* A master is asked, unless there is nothing to ask for.                  *)
Selected(l, up) ==
  IF l.running = NoHost /\ l.last = NoHost THEN Master ELSE Candidates(l) \intersect up

(* The masters a GTID is checked on remember it, whatever the result.      *)
Checks(l, up) ==
  IF l.gtid = 0 THEN {}
  ELSE IF l.running # NoHost THEN {l.running} \intersect up
  ELSE (Master \ {l.last}) \union ({l.last} \intersect up)

(* Where mysqlnd_ms_aux_ss_gtid_madd begins to fill slots, and the end.    *)
FirstSlot(l) == IF ~l.found /\ l.token > 0 THEN l.token - 1
                ELSE IF l.found THEN umodule(l.lastChk + 1) ELSE 0
EndSlotBefore(l) == l.token  \* Mutant: without the client's own slot
EndSlot(l) == umodule(l.token + 1)

Pick(c, m) ==
  LET first == FirstSlot(my[c])  end == EndSlot(my[c]) IN
  /\ my' = [my EXCEPT ![c].conn = m, ![c].value = m,
                      ![c].at = IF first < end THEN first ELSE end]
  /\ Goto(c, "add")

Choose(c) ==
  /\ pc[c] = "read" /\ my[c].at = my[c].token
  /\ \E up \in Reach :
       /\ checked' = [checked EXCEPT ![c] =
                        [m \in Master |-> IF m \in Checks(my[c], up) THEN my[c].gtid ELSE @[m]]]
       /\ \/ \E m \in Selected(my[c], up) \intersect up : Pick(c, m)
          \/ /\ Selected(my[c], up) = {} \/ ~(Selected(my[c], up) \subseteq up)
             /\ my' = [my EXCEPT ![c].conn = Proxy]
             /\ Goto(c, "clean")
  /\ UNCHANGED <<conf, counter, slot, log, applied>>

-----------------------------------------------------------------------------
(* mysqlnd_ms_aux_ss_gtid_validate and madd: announce the master, and      *)
(* follow those who were faster.                                           *)

Add(c) ==
  /\ pc[c] = "add" /\ my[c].at # EndSlot(my[c])
  /\ \/ /\ slot[my[c].at] # Absent
        /\ Goto(c, "get")
        /\ UNCHANGED <<conf, slot, my>>
     \/ /\ slot[my[c].at] = Absent
        /\ slot' = [slot EXCEPT ![my[c].at] =
                      Plain(IF my[c].value = NoHost THEN "empty" ELSE "running", my[c].value)]
        /\ my' = [my EXCEPT ![c].at = umodule(@ + 1), ![c].found = TRUE]
        /\ Goto(c, IF my[c].value = NoHost /\ ~my[c].found /\ my[c].token > 0
                   THEN "gone" ELSE "add")
  /\ UNCHANGED <<conf, counter, log, applied, checked>>

(* Mutant: the client keeps its own choice.                                *)
GetIgnored(c) ==
  /\ pc[c] = "get"
  /\ my' = [my EXCEPT ![c].at = umodule(@ + 1)]
  /\ Goto(c, "add")
  /\ UNCHANGED <<conf, counter, slot, log, applied, checked>>

Get(c) ==
  /\ pc[c] = "get"
  /\ my' = [my EXCEPT ![c].at = umodule(@ + 1),
                      ![c].value = IF Readable(my[c].at) THEN slot[my[c].at].host ELSE NoHost]
  /\ Goto(c, "add")
  /\ UNCHANGED <<conf, counter, slot, log, applied, checked>>

Switch(c) ==
  /\ pc[c] = "add" /\ my[c].at = EndSlot(my[c])
  /\ \E up \in Reach :
       my' = [my EXCEPT ![c].conn = IF my[c].value \in up THEN my[c].value ELSE @]
  /\ Goto(c, "run")
  /\ UNCHANGED <<conf, counter, slot, log, applied, checked>>

-----------------------------------------------------------------------------
(* mysqlnd_ms::query: send the write to the master.                        *)

(* The server executes it and reports the GTID in its answer; the answer   *)
(* may be lost.                                                            *)
Commit(c) ==
  LET w == Len(log) + 1  m == my[c].conn IN
  /\ pc[c] = "run" /\ Len(log) < conf.maxWrites
  /\ log' = Append(log, [host |-> m, seen |-> applied[m]])
  /\ applied' = [applied EXCEPT ![m] = @ \union {w}]
  /\ \/ my' = [my EXCEPT ![c].wrote = w] /\ Goto(c, "mark")
     \/ "lost_answer" \in conf.faults /\ UNCHANGED my /\ Goto(c, "clean")
  /\ UNCHANGED <<conf, counter, slot, checked>>

(* It fails, or changes nothing: there is no GTID.                         *)
Fail(c) ==
  /\ "failed" \in conf.faults /\ pc[c] = "run"
  /\ Goto(c, "clean")
  /\ UNCHANGED <<conf, counter, slot, log, applied, my, checked>>

(* Mark the token as executed.  memcached_prepend needs an item to be there. *)
Executed(c) ==
  /\ slot' = [slot EXCEPT ![my[c].token] =
                IF conf.autoClean \/ @ # Absent
                THEN [marker |-> "executed", host |-> my[c].conn, gtid |-> my[c].wrote,
                      checked |-> checked[c][my[c].conn]]
                ELSE @]
  /\ Goto(c, IF conf.autoClean THEN "delete" ELSE "idle")
  /\ UNCHANGED <<conf, counter, log, applied, my, checked>>

SetLastWrite(c) == pc[c] = "mark" /\ Executed(c)
Clean(c) == pc[c] = "clean" /\ Executed(c)

Delete(c) ==
  LET k == umodule(my[c].token - 2 * conf.depth) IN
  /\ pc[c] = "delete"
  /\ slot' = IF k \in Slot THEN [slot EXCEPT ![k] = Absent] ELSE slot
  /\ Goto(c, "idle")
  /\ UNCHANGED <<conf, counter, log, applied, my, checked>>

-----------------------------------------------------------------------------
(* The cluster, and the death of a PHP process.                            *)

Replicate(m, w) ==
  /\ w \notin applied[m]
  /\ \A v \in log[w].seen : Causal \/ log[v].host = log[w].host => v \in applied[m]
  /\ applied' = [applied EXCEPT ![m] = @ \union {w}]
  /\ UNCHANGED <<conf, counter, slot, log, pc, my, checked>>

Crash(c) ==
  /\ "crash" \in conf.faults /\ pc[c] \notin {"idle", "gone"}
  /\ Goto(c, "gone")
  /\ UNCHANGED <<conf, counter, slot, log, applied, my, checked>>

Step(c) == \/ Start(c) \/ Wrap(c) \/ Read(c) \/ Choose(c)
           \/ Add(c) \/ Get(c) \/ Switch(c)
           \/ Commit(c) \/ Fail(c) \/ SetLastWrite(c) \/ Clean(c) \/ Delete(c)

Next == \/ \E c \in Client : Step(c) \/ Crash(c)
        \/ \E m \in Master, w \in 1 .. Len(log) : Replicate(m, w)

Spec == Init /\ [][Next]_vars

-----------------------------------------------------------------------------
(* Properties.                                                             *)

(* No master is unreachable for one client only, and no answer is lost:    *)
(* a client that is told nothing goes to the handle's own connection.      *)
Undisturbed == conf.faults \subseteq {"failed", "crash"}

(* What clients follow is not deleted under them.  Without "announced" a   *)
(* client may be so late that the others clean what it is about to read;   *)
(* if the next one is dead and has announced nothing, it announces nothing *)
(* either.                                                                 *)
Kept == conf.autoClean => {"depth", "announced"} \subseteq conf.orderly

(* Two clients never write on two masters at the same time: what the       *)
(* writes of a context partition are promised (mysqlnd_ms_aux_ss_gtid_madd *)
(* lets the first to announce a master bind the others to it).             *)
SameMaster == Undisturbed => \A c, d \in Client :
  pc[c] = "run" /\ pc[d] = "run" => my[c].conn = my[d].conn

(* A client that writes has announced it: its slot says that a write is    *)
(* running on the master it uses, so that all who come later follow.       *)
AnnouncedWhileRunning == Undisturbed /\ Kept => \A c \in Client :
  pc[c] = "run" => slot[my[c].token] = Plain("running", my[c].conn)

(* Two writes in progress never have the same token, though the counter is *)
(* incremented and, when it passes module, decremented in two requests.    *)
TokensDiffer == \A c, d \in Client :
  c # d /\ pc[c] \notin {"idle", "gone"} /\ pc[d] \notin {"idle", "gone"}
    => my[c].token # my[d].token

(* A write is executed where all the writes before it have been applied,   *)
(* whatever replication does: the promise of SerialWrites.  It is kept     *)
(* when no client stalls, dies or fails (Reliable below), and as long as   *)
(* the window of a client reaches back to the first token.                 *)
Promise == INSTANCE SerialWrites WITH written <- Len(log)
ImplementsSerialWrites == Promise!Spec
-----------------------------------------------------------------------------
(* Why it works: the invariants the properties follow from, each with what *)
(* it takes of the configuration.                                          *)

Busy(c) == pc[c] \notin {"idle", "gone"}
Announcing(c) == pc[c] \in {"wrap", "read", "add", "get"}
Writing(c) == pc[c] \in {"run", "mark", "clean"}

(* A client that has chosen has a connection; only the client that finds   *)
(* the counter past module sets it back.                                   *)
StateInv ==
  /\ Len(log) <= conf.maxWrites
  /\ \A c \in Client :
       /\ Writing(c) \/ pc[c] \in {"add", "get"} => my[c].conn # NoHost
       /\ pc[c] = "wrap" => /\ conf.module # 0 /\ counter > conf.module
                            /\ \A d \in Client : pc[d] = "wrap" => d = c

(* A round of tokens is longer than the window.                            *)
Spaced == conf.module # 0 => "depth" \in conf.orderly /\ conf.depth + 1 < conf.module

TokenInv ==
  /\ Spaced => TokensDiffer
  /\ \A c \in Client : Busy(c) =>
       /\ conf.module = 0 => my[c].token < counter
       /\ "depth" \in conf.orderly =>
            \E j \in 1 .. conf.depth + 1 : my[c].token = umodule(counter - j)

(* What is read and filled lies in the window, without module.             *)
WindowInv == \A c \in Client :
  LET l == my[c] IN
  /\ pc[c] = "read" => /\ l.token - conf.depth - 1 <= l.at /\ l.at <= l.token
                       /\ l.found => l.token - conf.depth - 1 <= l.lastChk /\ l.lastChk < l.at
  /\ pc[c] \in {"add", "get"} => l.token - conf.depth <= l.at /\ 0 <= l.at /\ l.at <= l.token + 1
  /\ pc[c] = "get" => l.at <= l.token

(* A slot that is taken names a master, and the client whose slot it is    *)
(* follows it.                                                             *)
Certain == conf.module = 0 /\ Undisturbed /\ Kept

Announced(c) ==
  LET l == my[c] IN
  /\ Announcing(c) => slot[l.token].marker # "executed"
  /\ pc[c] \in {"add", "get"} => l.value # NoHost
  /\ pc[c] = "get" => slot[l.at] # Absent
  /\ pc[c] = "add" /\ l.at = l.token + 1 => slot[l.token] = Plain("running", l.value)
  /\ Writing(c) => slot[l.token] = Plain("running", l.conn)
  /\ pc[c] = "delete" => conf.autoClean

AnnounceInv ==
  /\ \A k \in Slot : \/ slot[k] = Absent
                     \/ \E m \in Master : slot[k] = Plain("running", m)
                     \/ slot[k].marker = "executed" /\ slot[k].host # NoHost /\ k < counter
  /\ \A c \in Client : Announced(c)

(* One client at a time announces itself.  It has seen everyone who writes *)
(* when it chooses: after a slot of the window that is taken and one that  *)
(* is not there is no other one that is taken.                             *)
Waiting == {"depth", "announced"} \subseteq conf.orderly

OnlyOne(c) == Announcing(c) =>
  my[c].token = counter - 1 /\ \A d \in Client : Announcing(d) => d = c

HasSeen(c) == pc[c] = "read" =>
  LET l == my[c] IN
  /\ slot[l.token] = Absent
  /\ l.found => slot[l.lastChk] # Absent
  /\ \A k \in Slot : /\ k < l.at /\ l.token - conf.depth - 1 <= k
                     /\ l.found => l.lastChk < k
                     => slot[k] = Absent
  /\ \A d \in Client : Writing(d) /\ my[d].token < l.at => l.running = my[d].conn

Fills(c) ==
  /\ pc[c] # "get"
  /\ pc[c] = "add" =>
       LET l == my[c] IN
       /\ \A k \in Slot : l.at <= k => slot[k] = Absent
       /\ \A i, j \in Slot :
            l.token - conf.depth - 1 <= i /\ i < j /\ j < l.at /\ slot[i] # Absent => slot[j] # Absent
       /\ \A d \in Client : Writing(d) => l.value = my[d].conn

Followed(d) == Writing(d) =>
  \A k \in Slot : my[d].token < k /\ slot[k] # Absent => slot[k].host = my[d].conn

NoGaps ==
  /\ \A k \in Slot : k >= counter => slot[k] = Absent
  /\ \A i, j, k \in Slot :
       counter - conf.depth - 2 <= i /\ i < j /\ j < k /\ slot[i] # Absent /\ slot[j] = Absent
         => slot[k] = Absent

FollowInv ==
  /\ NoGaps
  /\ \A c \in Client : OnlyOne(c) /\ HasSeen(c) /\ Fills(c) /\ Followed(c)

(* Nothing fails, so that the token of the last write is in the window of  *)
(* whoever finds nobody writing, and the tokens after it say no more.      *)
Reliable == conf.module = 0 /\ Waiting /\ conf.faults = {} /\ Causal

HasAll(m) == m \in Master /\ applied[m] = 1 .. Len(log)
SaysLast(k) == \/ slot[k].gtid = Len(log)
               \/ \E d \in Client : pc[d] = "mark" /\ my[d].token = k /\ my[d].wrote = Len(log)

announced == IF \E c \in Client : Announcing(c) THEN counter - 1 ELSE counter

LogInv ==
  /\ \A w \in 1 .. Len(log) : log[w].seen = 1 .. w - 1
  /\ \A m \in Master : \A w \in applied[m] : log[w].seen \subseteq applied[m]

SlotSays(k) ==
  /\ slot[k].marker = "executed" =>
       slot[k].gtid \in 1 .. Len(log) /\ slot[k].gtid \in applied[slot[k].host]
  /\ slot[k].marker = "running" =>
       \E d \in Client : my[d].token = k /\ (Writing(d) \/ pc[d] = "add")
  /\ announced - conf.depth - 1 <= k /\ k < announced => slot[k] # Absent

InOrder == \A i, j \in Slot :
  i < j /\ slot[i].gtid > slot[j].gtid /\ slot[j].gtid # 0 => slot[i].host = slot[j].host

Wrote(d) ==
  LET l == my[d] IN
  /\ pc[d] # "clean"
  /\ pc[d] = "add" => HasAll(l.value) /\ l.token <= l.at
  /\ Writing(d) => HasAll(l.conn)
  /\ pc[d] = "mark" => /\ l.wrote \in applied[l.conn] /\ l.wrote > 0
                       /\ \A k \in Slot : slot[k].gtid > l.wrote => slot[k].host = l.conn

HasRead(c) == pc[c] = "read" =>
  LET l == my[c] IN
  IF l.running # NoHost
  THEN HasAll(l.running) /\ \A d \in Client : Writing(d) => l.running = my[d].conn
  ELSE /\ l.gtid = l.max /\ l.gtid <= Len(log)
       /\ IF l.gtid = 0 THEN l.last = NoHost
          ELSE /\ l.last \in Master /\ l.gtid \in applied[l.last]
               /\ \E k \in Slot : /\ l.token - conf.depth - 1 <= k /\ k < l.at
                                  /\ slot[k].gtid = l.gtid /\ slot[k].host = l.last
       /\ \A k \in Slot : l.token - conf.depth - 1 <= k /\ k < l.at =>
            slot[k].marker = "executed" /\ slot[k].gtid <= l.gtid

LastSaid == \/ Len(log) = 0
            \/ \E d \in Client : pc[d] = "run"
            \/ \E k \in Slot : SaysLast(k) /\ announced - conf.depth - 1 <= k

SerialInv ==
  /\ \A k \in Slot : SlotSays(k)
  /\ InOrder /\ LastSaid
  /\ \A c \in Client : Wrote(c) /\ HasRead(c)

Inv == /\ TypeOK /\ StateInv /\ TokenInv
       /\ conf.module = 0 => WindowInv
       /\ Certain => AnnounceInv
       /\ Certain /\ Waiting => FollowInv
       /\ Reliable => LogInv /\ SerialInv
=============================================================================

------------------------------ MODULE Balancing ------------------------------
(* The round robin and the random filter: which of the servers that are    *)
(* left the last filter uses, in what order the servers have their turn,   *)
(* what happens when one cannot be reached, and what is remembered from    *)
(* one statement to the next.                                              *)
(*                                                                         *)
(* The filters before this one hand over a list of masters and a list of   *)
(* slaves; each list has a context of its own (its fingerprint is the      *)
(* sequence of its connections), but the weights that round robin counts   *)
(* down belong to the filter and are shared by the contexts.  A call tries *)
(* one server per step, and servers come and go between the steps.  What a *)
(* running transaction forbids is in Statements and left out here.         *)
EXTENDS Integers, FiniteSets, SequencesExt

CONSTANTS
  Null,
  Servers,
  Weight,      \* server -> its weight, when the filter has weights
  Settings,    \* the configurations to look at
  MaxCalls, MaxChanges

Setting == [filter : {"roundrobin", "random"}, weighted : BOOLEAN, sticky : BOOLEAN,
            strategy : {"disabled", "master", "loop_before_master"}, maxRetries : Nat,
            remember : BOOLEAN, lists : SUBSET [master : Seq(Servers), slave : Seq(Servers)]]

MaxWeight == 65535

ASSUME BalancingAssumption ==
  /\ Null \notin Servers \cup {"master", "slave"}
  /\ Weight \in [Servers -> 0 .. MaxWeight]
  /\ Settings \subseteq Setting
  /\ \A s \in Settings : \A l \in s.lists : IsInjective(l.master) /\ IsInjective(l.slave)

VARIABLES
  setting,
  up,          \* the servers that can be connected to
  opened,      \* connections with a state > CONN_ALLOCED
  failed,      \* failed_hosts
  pos,         \* context -> position
  current,     \* server -> current_weight
  sticky,      \* context -> connection that was selected once, or Null
  call,        \* the call of the filter: see Returned
  turns,       \* history: context -> server -> how often it had its turn
  resets,      \* history: context -> how often the weights were reset
  calls, changes

kept == <<pos, current, sticky, turns, resets>>

vars == <<setting, up, opened, failed, kept, call, calls, changes>>

Contexts == UNION {{<<role, lists[role]>> : role \in {"master", "slave"}} : lists \in setting.lists}

Context == <<call.pc, call.lists[call.pc]>>

List == ToSet(call.lists[call.pc])

----------------------------------------------------------------------------
(* A call: role is what was asked for, pc the list that is searched,       *)
(* connection the one tried last, tried the connection attempts, tries how *)
(* many of them concern this list.                                         *)

Returned(c, result) == [c EXCEPT !.pc = "idle", !.connection = result]

\* A connection that was selected once is used whatever has happened since.
Search(c, role) ==
  LET list == c.lists[role]
      selected == IF list = <<>> THEN Null ELSE sticky[<<role, list>>]
  IN IF list = <<>> \/ selected # Null THEN Returned(c, selected)
     ELSE [c EXCEPT !.pc = role, !.left = ToSet(list), !.retries = 0, !.tries = 0,
                    !.connection = Null]

Begin(lists, role, allowMaster) ==
  LET c == [pc |-> "idle", role |-> role, lists |-> lists, allow |-> allowMaster, left |-> {},
            retries |-> 0, connection |-> Null, tried |-> {}, tries |-> 0]
  IN
  /\ call.pc = "idle" /\ calls < MaxCalls
  /\ calls' = calls + 1
  /\ call' = IF role = "slave" /\ lists.slave = <<>>
             THEN IF allowMaster \/ setting.strategy # "disabled" THEN Search(c, "master")
                  ELSE Returned(c, Null)
             ELSE Search(c, role)
  /\ UNCHANGED <<setting, up, opened, failed, kept, changes>>

----------------------------------------------------------------------------
(* Whose turn it is *)

\* Servers of equal weight are sorted in some order.
Heaviest == {s \in List : \A u \in List : current[u] <= current[s]}

\* A random number between 1 and the total weight, and the first server whose
\* weight, added to those before it, reaches it: the last one if all weights are 0.
Drawn ==
  IF ~setting.weighted \/ \A s \in call.left : Weight[s] = 0 THEN call.left
  ELSE {s \in call.left : Weight[s] > 0}

Candidates ==
  IF setting.filter = "random" THEN Drawn
  ELSE IF setting.weighted THEN Heaviest
  ELSE {call.lists[call.pc][pos[Context] + 1]}

\* A plausible slip: nobody restores the weights.
TurnWithoutReset(s) ==
  /\ pos' = [pos EXCEPT ![Context] = (@ + 1) % Cardinality(List)]
  /\ current' = IF setting.weighted /\ current[s] > 0 THEN [current EXCEPT ![s] = @ - 1]
                ELSE current
  /\ turns' = [turns EXCEPT ![Context][s] = @ + 1]
  /\ UNCHANGED resets

\* Round robin: the position moves on and the server's weight is counted down; when
\* even the heaviest is at 0 the weights are restored and nothing is counted.
Turn(s) ==
  LET reset == setting.weighted /\ current[s] = 0 IN
  /\ pos' = [pos EXCEPT ![Context] = (@ + 1) % Cardinality(List)]
  /\ current' = IF ~setting.weighted THEN current
                ELSE IF reset THEN [u \in Servers |-> IF u \in List THEN Weight[u] ELSE current[u]]
                ELSE [current EXCEPT ![s] = @ - 1]
  /\ turns' = [turns EXCEPT ![Context][s] = @ + 1]
  /\ resets' = [resets EXCEPT ![Context] = IF reset THEN @ + 1 ELSE @]

NoTurn == UNCHANGED <<pos, current, turns, resets>>

----------------------------------------------------------------------------
(* What follows *)

\* A plausible slip: one server of the list is never looked at.
ContinuesButLast(c) ==
  IF setting.filter = "random" THEN c.left # {}
  ELSE c.retries + 1 < Len(c.lists[c.pc])

\* Is there a server left in the list?
Continues(c) ==
  IF setting.filter = "random" THEN c.left # {}
  ELSE c.retries < Len(c.lists[c.pc])

\* A plausible slip: the limit is checked before the attempt is counted.
MayRetryOnceMore(c) ==
  /\ setting.strategy = "loop_before_master"
  /\ setting.maxRetries = 0 \/ c.retries <= setting.maxRetries + 1
  /\ setting.filter = "random" /\ c.pc = "master" => Cardinality(c.left) > 1

\* retries counts the servers looked at, the remembered ones included.
MayRetry(c) ==
  /\ setting.strategy = "loop_before_master"
  /\ setting.maxRetries = 0 \/ c.retries <= setting.maxRetries
  /\ setting.filter = "random" /\ c.pc = "master" => Cardinality(c.left) > 1

\* The end of the list of slaves is the beginning of the list of masters.
EndOfList(c) ==
  LET result == IF setting.filter = "random" /\ (c.pc = "master" \/ setting.strategy = "disabled")
                THEN Null ELSE c.connection
      stays == \/ setting.strategy = "disabled"
               \/ setting.strategy = "loop_before_master" /\ c.lists.master = <<>>
  IN IF c.pc = "master" THEN Returned(c, result)
     ELSE IF stays /\ ~(result = Null /\ c.allow) THEN Returned(c, result)
     ELSE Search(c, "master")

Without(c, s) == [c EXCEPT !.left = @ \ {s}]

NextInList(c) == IF Continues(c) THEN c ELSE EndOfList(c)

\* A plausible slip: the fingerprint that is looked up never matches.
NeverRemembered(s) == FALSE

Remembered(s) == setting.remember /\ s \in failed

Skip(s, c) ==
  /\ Remembered(s)
  /\ call' = NextInList(Without(c, s))
  /\ UNCHANGED <<opened, failed, sticky>>

Use(s, c) ==
  /\ ~Remembered(s) /\ s \in opened \cup up
  /\ call' = Returned([c EXCEPT !.tried = @ \cup {s}], s)
  /\ opened' = opened \cup {s}
  /\ sticky' = IF setting.filter = "random" /\ setting.sticky
               THEN [sticky EXCEPT ![Context] = s] ELSE sticky
  /\ UNCHANGED failed

CannotUse(s, c) ==
  LET d == [c EXCEPT !.tried = @ \cup {s}, !.tries = @ + 1] IN
  /\ ~Remembered(s) /\ s \notin opened \cup up
  /\ failed' = IF setting.remember THEN failed \cup {s} ELSE failed
  /\ call' = IF MayRetry(c) THEN NextInList(Without(d, s))
             ELSE IF c.pc = "master" \/ setting.strategy = "disabled" THEN Returned(d, s)
             ELSE EndOfList(d)
  /\ UNCHANGED <<opened, sticky>>

Try(s) ==
  LET c == [call EXCEPT !.retries = @ + 1, !.connection = s] IN
  /\ call.pc # "idle" /\ s \in Candidates
  /\ IF setting.filter = "roundrobin" THEN Turn(s) ELSE NoTurn
  /\ Skip(s, c) \/ Use(s, c) \/ CannotUse(s, c)
  /\ UNCHANGED <<setting, up, calls, changes>>

\* A server crashes, or can be reached again.
Toggle(s) ==
  /\ changes < MaxChanges /\ s \notin opened
  /\ up' = IF s \in up THEN up \ {s} ELSE up \cup {s}
  /\ changes' = changes + 1
  /\ UNCHANGED <<setting, opened, failed, kept, call, calls>>

----------------------------------------------------------------------------
Init ==
  /\ setting \in Settings /\ up \in SUBSET Servers
  /\ opened = {} /\ failed = {} /\ calls = 0 /\ changes = 0
  /\ pos = [x \in Contexts |-> 0] /\ current = Weight
  /\ sticky = [x \in Contexts |-> Null]
  /\ turns = [x \in Contexts |-> [s \in ToSet(x[2]) |-> 0]]
  /\ resets = [x \in Contexts |-> 0]
  /\ call = [pc |-> "idle", role |-> Null, lists |-> Null, allow |-> FALSE, left |-> {},
             retries |-> 0, connection |-> Null, tried |-> {}, tries |-> 0]

Next ==
  \/ \E lists \in setting.lists, role \in {"master", "slave"}, allow \in BOOLEAN :
       Begin(lists, role, allow)
  \/ \E s \in Servers : Try(s) \/ Toggle(s)

Spec == Init /\ [][Next]_vars

----------------------------------------------------------------------------
(* Properties *)

\* No position is outside its list and no weight above what was configured; a server
\* that was remembered as failed has no connection, one that was selected once has.
TypeOK ==
  /\ \A x \in Contexts : pos[x] = 0 \/ pos[x] \in 1 .. Len(x[2]) - 1
  /\ \A s \in Servers : current[s] \in 0 .. Weight[s]
  /\ failed \cap opened = {}
  /\ \A x \in Contexts : sticky[x] # Null => sticky[x] \in opened
  /\ call.pc # "idle" => call.left # {} /\ call.left \subseteq List

Done == call.pc = "idle" /\ call.role # Null

Searched ==
  ToSet(call.lists.master) \cup IF call.role = "slave" THEN ToSet(call.lists.slave) ELSE {}

\* "all alternatives will be tested": with loop_before_master and no limit a statement
\* is left without a connection only when every server it may use has been tried or is
\* remembered (CHANGES.orig:275-281).  Round robin with weights is excepted: it offers
\* the server with the largest count again and again.
AllAlternativesTested ==
  Done /\ call.connection \notin opened
       /\ setting.strategy = "loop_before_master" /\ setting.maxRetries = 0
       /\ ~(setting.filter = "roundrobin" /\ setting.weighted)
    => Searched \subseteq call.tried \cup failed

\* A list costs a statement at most one failing connection attempt, and with
\* loop_before_master and a limit at most max_retries more.
AttemptsBounded ==
  setting.strategy # "loop_before_master" \/ setting.maxRetries > 0 =>
    call.tries <= IF setting.strategy = "loop_before_master" THEN setting.maxRetries + 1 ELSE 1

\* Lists that are the only ones with their servers.
Alone(x) == \A y \in Contexts \ {x} : ToSet(x[2]) \cap ToSet(y[2]) = {}

\* Round robin is fair, whoever fails and whatever the other lists do: without weights
\* the turns of two servers of a list never differ by more than one; with weights a
\* server has its weight's share of every round, and a round has one turn too many
\* (mysqlnd_ms_filter_round_robin.c:250-254) that any of the servers may get.
FairTurns ==
  setting.filter = "roundrobin" =>
    \A x \in Contexts : \A s \in ToSet(x[2]) :
      IF ~setting.weighted THEN \A u \in ToSet(x[2]) : turns[x][s] <= turns[x][u] + 1
      ELSE Alone(x) =>
        /\ turns[x][s] >= resets[x] * Weight[s]
        /\ turns[x][s] <= (resets[x] + 1) * Weight[s] + resets[x]
----------------------------------------------------------------------------
(* Why it works: the inductive invariant behind these properties *)

Call == [pc : {"idle", "master", "slave"}, role : {"master", "slave", Null},
         lists : setting.lists \cup {Null}, allow : BOOLEAN, left : SUBSET Servers,
         retries : Nat, connection : Servers \cup {Null}, tried : SUBSET Servers, tries : Nat]

StateInv ==
  /\ setting \in Settings
  /\ up \in SUBSET Servers /\ opened \in SUBSET Servers /\ failed \in SUBSET Servers
  /\ pos \in [Contexts -> Nat] /\ resets \in [Contexts -> Nat]
  /\ current \in [Servers -> Nat]
  /\ sticky \in [Contexts -> Servers \cup {Null}]
  /\ turns = [x \in Contexts |-> turns[x]]
  /\ \A x \in Contexts : turns[x] \in [ToSet(x[2]) -> Nat]
  /\ call \in Call
  /\ call.role # Null => call.lists \in setting.lists
  /\ call.pc # "idle" => call.role # Null /\ call.lists[call.pc] # <<>>
  /\ call.pc = "slave" => call.role = "slave"
  /\ ~setting.remember => failed = {}

\* Of the positions of a list of n, round robin has looked at the r before p, cyclically.
Behind(i, p, r, n) == (i < p /\ i >= p - r) \/ i >= p - r + n

\* A call that goes on has servers left to try.
SearchInv == call.pc # "idle" =>
  LET list == call.lists[call.pc] IN
  /\ call.left # {} /\ call.left \subseteq List
  /\ setting.filter = "roundrobin" =>
       /\ call.retries < Len(list)
       /\ Cardinality(call.left) >= Len(list) - call.retries
       /\ ~setting.weighted => \A i \in 0 .. Len(list) - 1 :
            list[i + 1] \in call.left <=> ~Behind(i, pos[Context], call.retries, Len(list))

\* A call that goes on has not used up its attempts.
TriesInv == call.pc # "idle" =>
  /\ call.tries <= call.retries
  /\ setting.strategy # "loop_before_master" => call.tries = 0
  /\ setting.strategy = "loop_before_master" /\ setting.maxRetries > 0 =>
       call.tries <= setting.maxRetries

Thorough == /\ setting.strategy = "loop_before_master" /\ setting.maxRetries = 0
            /\ ~(setting.filter = "roundrobin" /\ setting.weighted)

\* What a thorough call has left behind was tried or is remembered.
TestedInv == Thorough /\ call.pc # "idle" =>
  /\ List \ call.left \subseteq call.tried \cup failed
  /\ call.role = "slave" /\ call.pc = "master" =>
       ToSet(call.lists.slave) \subseteq call.tried \cup failed

\* The servers before the position have had one turn more; what a server has had of its
\* weight and what is left of it make up the rounds, and the turns that were not counted.
TurnsInv ==
  setting.filter = "roundrobin" => \A x \in Contexts :
    IF ~setting.weighted
    THEN \A i, j \in DOMAIN x[2] :
           turns[x][x[2][i]] + (IF j <= pos[x] THEN 1 ELSE 0)
             = turns[x][x[2][j]] + (IF i <= pos[x] THEN 1 ELSE 0)
    ELSE Alone(x) => \A s \in ToSet(x[2]) :
           /\ turns[x][s] + current[s] >= (resets[x] + 1) * Weight[s]
           /\ turns[x][s] + current[s] <= (resets[x] + 1) * Weight[s] + resets[x]

Inv == /\ StateInv /\ TypeOK /\ SearchInv /\ TriesInv /\ TestedInv /\ TurnsInv
       /\ AllAlternativesTested /\ AttemptsBounded
=============================================================================

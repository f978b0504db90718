------------------------ MODULE WriteConsistencyProofs ------------------------
EXTENDS WriteConsistency, TLAPS

-----------------------------------------------------------------------------
(* Tokens that are counted modulo p.                                       *)

(* Every number has a quotient and a remainder.                            *)
LEMMA Division ==
  ASSUME NEW n \in Int, NEW p \in Nat \ {0}
  PROVE  n % p \in 0 .. p - 1 /\ n \div p \in Int /\ n = p * (n \div p) + (n % p)
  OBVIOUS

(* There is only one such remainder.                                       *)
LEMMA Remainder ==
  ASSUME NEW n \in Int, NEW p \in Nat \ {0}, NEW q \in Int, NEW r \in 0 .. p - 1, n = p * q + r
  PROVE  n % p = r
  OBVIOUS

(* A whole round of tokens makes no difference.                            *)
LEMMA WholeRound ==
  ASSUME NEW n \in Int, NEW p \in Nat \ {0}
  PROVE  (n - p) % p = n % p
<1> DEFINE q == n \div p
           r == n % p
<1>1. q \in Int /\ r \in 0 .. p - 1 /\ n = p * q + r
  BY Division
<1> HIDE DEF q, r
<1>2. n - p = p * (q - 1) + r /\ n - p \in Int /\ q - 1 \in Int
  BY <1>1
<1>3. (n - p) % p = r
  BY <1>1, <1>2, Remainder
<1> QED
  BY <1>3 DEF r

(* The token is as far behind the counter as the guard of Start computes.  *)
LEMMA DistanceBack ==
  ASSUME NEW n \in Int, NEW p \in Nat \ {0}, NEW t \in 0 .. p - 1
  PROVE  (n - ((n - t) % p)) % p = t
<1> DEFINE q == (n - t) \div p
           r == (n - t) % p
<1>1. q \in Int /\ r \in 0 .. p - 1 /\ n - t = p * q + r
  <2>1. n - t \in Int
    OBVIOUS
  <2> QED
    BY <2>1, Division
<1> HIDE DEF q, r
<1>2. n - r = p * q + t /\ n - r \in Int
  BY <1>1
<1>3. (n - r) % p = t
  BY <1>1, <1>2, Remainder
<1> QED
  BY <1>3 DEF r

(* Two tokens less than a round apart differ.                              *)
LEMMA LessThanARound ==
  ASSUME NEW n \in Int, NEW p \in Nat \ {0}, NEW j \in 1 .. p - 1
  PROVE  (n - j) % p # n % p
<1> DEFINE q == n \div p
           r == n % p
<1>1. q \in Int /\ r \in 0 .. p - 1 /\ n = p * q + r
  BY Division
<1> HIDE DEF q, r
<1>2. CASE r >= j
  <2>1. n - j = p * q + (r - j) /\ n - j \in Int /\ r - j \in 0 .. p - 1
    BY <1>1, <1>2
  <2>2. (n - j) % p = r - j
    BY <1>1, <2>1, Remainder
  <2> QED
    BY <1>1, <2>2 DEF r
<1>3. CASE r < j
  <2>1. n - j = p * (q - 1) + (r - j + p) /\ n - j \in Int /\ q - 1 \in Int
        /\ r - j + p \in 0 .. p - 1
    BY <1>1, <1>3
  <2>2. (n - j) % p = r - j + p
    BY <2>1, Remainder
  <2> QED
    BY <1>1, <2>2 DEF r
<1> QED
  BY <1>1, <1>2, <1>3
-----------------------------------------------------------------------------
(* Types.                                                                  *)

(* The configuration in use is a setting.                                  *)
LEMMA ConfType ==
  ASSUME TypeOK
  PROVE  /\ conf.module \in Nat /\ conf.depth \in Nat \ {0} /\ conf.maxWrites \in Nat \ {0}
         /\ conf.clients \subseteq Client /\ conf.autoClean \in BOOLEAN /\ conf.useGet \in BOOLEAN
         /\ Slot \subseteq Nat /\ Write \subseteq Nat /\ 0 \in Write
BY ConstantsAssumption DEF TypeOK, Setting, Slot, Write

(* A token is a slot, and so is every number modulo module.                *)
LEMMA TokenType ==
  ASSUME TypeOK, NEW n \in Int
  PROVE  /\ umodule(n) \in Int
         /\ conf.module # 0 => umodule(n) \in Slot /\ Slot = 0 .. conf.module - 1
         /\ conf.module = 0 => umodule(n) = n /\ Slot = 0 .. conf.maxWrites - 1
<1>1. conf.module \in Nat /\ conf.maxWrites \in Nat
  BY ConfType
<1>2. CASE conf.module = 0
  BY <1>1, <1>2 DEF umodule, Slot
<1>3. CASE conf.module # 0
  <2>1. n % conf.module \in 0 .. conf.module - 1
    BY <1>1, <1>3, Division
  <2> QED
    BY <1>1, <1>3, <2>1 DEF umodule, Slot
<1> QED
  BY <1>2, <1>3

(* What a new write remembers.                                             *)
LEMMA FreshType ==
  ASSUME TypeOK, NEW t \in Slot, NEW a \in Int
  PROVE  [Fresh EXCEPT !.token = t, !.at = a] \in Local
BY ConfType DEF Fresh, Local

(* What is remembered of a slot.                                           *)
LEMMA SeenType ==
  ASSUME TypeOK, NEW l \in Local, NEW k \in Slot, NEW v \in Value
  PROVE  Seen(l, k, v) \in Local
<1> DEFINE r == [l EXCEPT !.at = @ + 1, !.found = TRUE, !.lastChk = k]
<1>1. l.at + 1 \in Int /\ k \in Nat
  BY ConfType DEF Local
<1>2. r \in Local
  BY <1>1 DEF Local
<1> HIDE DEF r
<1>3. /\ [r EXCEPT !.running = v.host] \in Local
      /\ [r EXCEPT !.last = v.host, !.gtid = v.gtid, !.max = v.gtid] \in Local
      /\ [r EXCEPT !.last = v.host, !.gtid = v.checked] \in Local
  BY <1>2 DEF Local, Value
<1> QED
  BY <1>2, <1>3 DEF Seen, r

(* Values of slots.                                                        *)
LEMMA PlainType ==
  ASSUME TypeOK
  PROVE  /\ Absent \in Value
         /\ \A h \in Master \union {NoHost} : \A m \in {"absent", "empty", "running", "executed"} :
              Plain(m, h) \in Value
BY ConfType DEF Plain, Absent, Value

(* Init has the right types.                                               *)
LEMMA InitTypes ==
  Init => TypeOK /\ StateInv
<1> SUFFICES ASSUME Init PROVE TypeOK /\ StateInv
  OBVIOUS
<1>1. conf \in Settings /\ conf.maxWrites \in Nat \ {0} /\ conf.module \in Nat
  BY ConstantsAssumption DEF Init, Setting
<1>2. log = <<>> /\ Len(log) = 0 /\ log \in Seq([host : Master, seen : SUBSET (1 .. conf.maxWrites)])
  BY DEF Init
<1>3. Absent \in Value
  BY <1>1 DEF Plain, Absent, Value, Write
<1>4. Fresh \in Local
  BY <1>1 DEF Fresh, Local, Slot, Write
<1>5. /\ slot \in [Slot -> Value] /\ my \in [Client -> Local]
      /\ checked \in [Client -> [Master -> Write]]
      /\ applied \in [Master -> SUBSET (1 .. Len(log))]
  BY <1>1, <1>2, <1>3, <1>4 DEF Init, Write
<1>6. TypeOK
  BY <1>1, <1>2, <1>5 DEF Init, TypeOK
<1> QED
  BY <1>1, <1>2, <1>6 DEF Init, StateInv, Writing
(* A step of one client leaves the others where they are.                  *)
LEMMA OthersStay ==
  ASSUME TypeOK, NEW c \in Client, Step(c) \/ Crash(c)
  PROVE  /\ conf' = conf
         /\ \A d \in Client \ {c} : pc'[d] = pc[d] /\ my'[d] = my[d]
         /\ Slot' = Slot /\ Write' = Write /\ Value' = Value /\ Local' = Local
<1>1. conf' = conf
  BY DEF Step, Start, Wrap, Read, Choose, Add, Get, Switch, Commit, Fail, SetLastWrite, Clean,
         Executed, Delete, Crash
<1>2. pc' = pc \/ \E w : pc' = [pc EXCEPT ![c] = w]
  BY DEF Step, Start, Wrap, Read, Choose, Pick, Add, Get, Switch, Commit, Fail, SetLastWrite, Clean,
         Executed, Delete, Crash, Goto
<1>3. my' = my \/ \E l : my' = [my EXCEPT ![c] = l]
  BY DEF Step, Start, Wrap, Read, Choose, Pick, Add, Get, Switch, Commit, Fail, SetLastWrite, Clean,
         Executed, Delete, Crash, Goto
<1>4. Slot' = Slot /\ Write' = Write
  BY <1>1 DEF Slot, Write
<1> QED
  BY <1>1, <1>2, <1>3, <1>4 DEF TypeOK, Value, Local
(* A step of a client keeps the types.                                     *)
LEMMA StepTypes ==
  ASSUME TypeOK, StateInv, NEW c \in Client, Step(c) \/ Crash(c)
  PROVE  TypeOK'
<1>1. /\ conf' = conf /\ Slot' = Slot /\ Write' = Write /\ Value' = Value /\ Local' = Local
  BY OthersStay
<1>2. /\ my[c] \in Local /\ my[c].token \in Slot /\ my[c].token \in Int /\ my[c].at \in Int
      /\ my[c].value \in Master \union {NoHost} /\ my[c].conn \in Master \union {NoHost}
      /\ my[c].gtid \in Write /\ my[c].wrote \in Write
  <2>1. my[c] \in Local /\ Slot \subseteq Nat
    BY ConfType DEF TypeOK
  <2>2. /\ my[c].token \in Slot /\ my[c].at \in Int
        /\ my[c].value \in Master \union {NoHost} /\ my[c].conn \in Master \union {NoHost}
        /\ my[c].gtid \in Write /\ my[c].wrote \in Write
    BY <2>1 DEF Local
  <2>3. my[c].token \in Nat
    BY <2>1, <2>2
  <2> QED
    BY <2>1, <2>2, <2>3
<1>3. Absent \in Value
  BY PlainType
<1> USE <1>1, ConfType
<1>4. CASE Start(c)
  <2>1. counter + 1 \in Nat /\ umodule(counter) \in Int /\ umodule(counter) \in Slot
    BY <1>4, TokenType DEF TypeOK, Start
  <2>2. PICK a \in Int : my' = [my EXCEPT ![c] = [Fresh EXCEPT !.token = umodule(counter), !.at = a]]
    <3> DEFINE token == umodule(counter)
               limit == IF conf.module = 0 /\ token < conf.depth THEN token ELSE conf.depth + 1
    <3>1. token - limit \in Int
      BY <2>1
    <3>2. my' = [my EXCEPT ![c] = [Fresh EXCEPT !.token = token, !.at = token - limit]]
      BY <1>4 DEF Start
    <3> HIDE DEF limit
    <3> QED
      BY <3>1, <3>2
  <2>3. my' \in [Client -> Local]
    BY <2>1, <2>2, FreshType DEF TypeOK
  <2> QED
    BY <1>4, <2>1, <2>3 DEF TypeOK, Start, Goto
<1>5. CASE Wrap(c)
  <2>1. counter - conf.module \in Nat
    BY <1>5 DEF Wrap, StateInv, TypeOK
  <2> QED
    BY <1>5, <2>1 DEF TypeOK, Wrap, Goto
<1>6. CASE Read(c)
  <2>1. \/ \E k \in Slot : my' = [my EXCEPT ![c] = Seen(my[c], k, slot[k])]
        \/ \E a \in Int : my' = [my EXCEPT ![c] = [my[c] EXCEPT !.at = a]]
    <3>1. my[c].at + 1 \in Int
      BY <1>2
    <3>2. CASE Readable(umodule(my[c].at))
      BY <1>6, <3>2 DEF Read, Readable
    <3>3. CASE ~Readable(umodule(my[c].at))
      <4>1. CASE conf.useGet /\ my[c].found
        <5>1. my' = [my EXCEPT ![c] = [my[c] EXCEPT !.at = my[c].token]]
          BY <1>6, <3>3, <4>1 DEF Read
        <5> QED
          BY <1>2, <5>1
      <4>2. CASE ~(conf.useGet /\ my[c].found)
        <5>1. my' = [my EXCEPT ![c] = [my[c] EXCEPT !.at = my[c].at + 1]]
          BY <1>6, <3>3, <4>2 DEF Read
        <5> QED
          BY <3>1, <5>1
      <4> QED
        BY <4>1, <4>2
    <3> QED
      BY <3>2, <3>3
  <2>2. \A k \in Slot : Seen(my[c], k, slot[k]) \in Local
    BY <1>2, SeenType DEF TypeOK
  <2>3. \A a \in Int : [my[c] EXCEPT !.at = a] \in Local
    BY <1>2 DEF Local
  <2>4. my' \in [Client -> Local]
    BY <2>1, <2>2, <2>3 DEF TypeOK
  <2> QED
    BY <1>6, <2>4 DEF TypeOK, Read
<1>7. CASE Choose(c)
  <2>1. checked' \in [Client -> [Master -> Write]]
    BY <1>2, <1>7 DEF Choose, TypeOK
  <2>2. ASSUME NEW m \in Master, Pick(c, m) PROVE my' \in [Client -> Local]
    <3>1. \E a \in Int : my' = [my EXCEPT ![c] = [my[c] EXCEPT !.conn = m, !.value = m, !.at = a]]
      <4>1. FirstSlot(my[c]) \in Int /\ EndSlot(my[c]) \in Int
        <5>1. my[c].token + 1 \in Int /\ my[c].token - 1 \in Int /\ my[c].lastChk + 1 \in Int
          BY <1>2 DEF Local
        <5>2. umodule(my[c].token + 1) \in Int /\ umodule(my[c].lastChk + 1) \in Int
          BY <5>1, TokenType
        <5> QED
          BY <5>1, <5>2 DEF FirstSlot, EndSlot
      <4> QED
        BY <2>2, <4>1 DEF Pick, TypeOK
    <3>2. \A a \in Int : [my[c] EXCEPT !.conn = m, !.value = m, !.at = a] \in Local
      BY <1>2 DEF Local
    <3> QED
      BY <3>1, <3>2 DEF TypeOK
  <2>3. ASSUME my' = [my EXCEPT ![c].conn = Proxy] PROVE my' \in [Client -> Local]
    <3>1. [my[c] EXCEPT !.conn = Proxy] \in Local
      BY <1>2, ConstantsAssumption DEF Local
    <3> QED
      BY <2>3, <3>1 DEF TypeOK
  <2>4. my' \in [Client -> Local]
    BY <1>7, <2>2, <2>3 DEF Choose, Reach
  <2>5. pc' \in [Client -> {"idle", "wrap", "read", "add", "get", "run",
                           "mark", "clean", "delete", "gone"}]
    BY <1>7 DEF Choose, Pick, Goto, TypeOK
  <2> QED
    BY <1>7, <2>1, <2>4, <2>5 DEF Choose, TypeOK
<1>8. CASE Add(c)
  <2>1. slot' \in [Slot -> Value]
    <3>1. Plain(IF my[c].value = NoHost THEN "empty" ELSE "running", my[c].value) \in Value
      BY <1>2, PlainType
    <3> QED
      BY <1>8, <3>1 DEF Add, TypeOK
  <2>2. my' \in [Client -> Local]
    <3>1. my[c].at + 1 \in Int
      BY <1>2
    <3>2. [my[c] EXCEPT !.at = umodule(@ + 1), !.found = TRUE] \in Local
      BY <1>2, <3>1, TokenType DEF Local
    <3> QED
      BY <1>8, <3>2 DEF Add, TypeOK
  <2> QED
    BY <1>8, <2>1, <2>2 DEF Add, TypeOK, Goto
<1>9. CASE Get(c)
  <2>1. my[c].at + 1 \in Int
    BY <1>2
  <2>2. \A h \in Master \union {NoHost} : [my[c] EXCEPT !.at = umodule(@ + 1), !.value = h] \in Local
    BY <1>2, <2>1, TokenType DEF Local
  <2>3. (IF Readable(my[c].at) THEN slot[my[c].at].host ELSE NoHost) \in Master \union {NoHost}
    BY DEF Readable, TypeOK, Value
  <2>4. my' \in [Client -> Local]
    BY <1>9, <2>2, <2>3 DEF Get, TypeOK
  <2> QED
    BY <1>9, <2>4 DEF Get, TypeOK, Goto
<1>10. CASE Switch(c)
  <2>1. \A h \in Master \union {NoHost} : [my[c] EXCEPT !.conn = h] \in Local
    BY <1>2 DEF Local
  <2>2. my' \in [Client -> Local]
    BY <1>2, <1>10, <2>1 DEF Switch, TypeOK
  <2> QED
    BY <1>10, <2>2 DEF Switch, TypeOK, Goto
<1>11. CASE Commit(c)
  <2>1. my[c].conn \in Master /\ Len(log) \in Nat /\ Len(log) + 1 \in Write
    <3>1. my[c].conn \in Master
      BY <1>2, <1>11 DEF Commit, StateInv, Writing, Local
    <3>2. Len(log) \in Nat
      BY DEF TypeOK
    <3> QED
      BY <1>11, <3>1, <3>2 DEF Commit, TypeOK, Write
  <2>2. [my[c] EXCEPT !.wrote = Len(log) + 1] \in Local
    BY <1>2, <2>1 DEF Local
  <2>3. my' \in [Client -> Local]
    BY <1>11, <2>2 DEF Commit, TypeOK
  <2>4. [host |-> my[c].conn, seen |-> applied[my[c].conn]]
          \in [host : Master, seen : SUBSET (1 .. conf.maxWrites)]
    <3>1. applied[my[c].conn] \subseteq 1 .. Len(log) /\ Len(log) <= conf.maxWrites
      BY <2>1 DEF TypeOK, StateInv
    <3> QED
      BY <2>1, <3>1
  <2>5. /\ log' \in Seq([host : Master, seen : SUBSET (1 .. conf.maxWrites)])
        /\ Len(log') = Len(log) + 1
    BY <1>11, <2>4 DEF Commit, TypeOK
  <2>6. applied' \in [Master -> SUBSET (1 .. Len(log'))]
    BY <1>11, <2>1, <2>5 DEF Commit, TypeOK
  <2> QED
    BY <1>11, <2>3, <2>5, <2>6 DEF Commit, TypeOK, Goto
<1>12. CASE Fail(c) \/ Crash(c)
  BY <1>12 DEF Fail, Crash, TypeOK, Goto
<1>13. CASE SetLastWrite(c) \/ Clean(c)
  <2>1. my[c].conn \in Master
    BY <1>2, <1>13 DEF SetLastWrite, Clean, StateInv, Writing
  <2>2. [marker |-> "executed", host |-> my[c].conn, gtid |-> my[c].wrote,
         checked |-> checked[c][my[c].conn]] \in Value
    BY <1>2, <2>1 DEF TypeOK, Value
  <2>3. slot' \in [Slot -> Value]
    BY <1>2, <1>13, <2>2 DEF SetLastWrite, Clean, Executed, TypeOK
  <2> QED
    BY <1>13, <2>3 DEF SetLastWrite, Clean, Executed, TypeOK, Goto
<1>14. CASE Delete(c)
  <2>1. slot' \in [Slot -> Value]
    BY <1>3, <1>14 DEF Delete, TypeOK
  <2> QED
    BY <1>14, <2>1 DEF Delete, TypeOK, Goto
<1> QED
  BY <1>4, <1>5, <1>6, <1>7, <1>8, <1>9, <1>10, <1>11, <1>12, <1>13, <1>14 DEF Step
(* A client that goes on with its write has a connection.                  *)
LEMMA ConnAfter ==
  ASSUME TypeOK, StateInv, NEW c \in Client, Step(c) \/ Crash(c),
         pc'[c] \in {"add", "get", "run", "mark", "clean"}
  PROVE  my'[c].conn # NoHost
<1>1. /\ my[c] \in Local /\ NoHost \notin Master /\ Proxy \in Master
  BY ConstantsAssumption DEF TypeOK
<1>2. CASE Choose(c)
  <2>1. ASSUME NEW m \in Master, Pick(c, m) PROVE my'[c].conn # NoHost
    BY <1>1, <2>1 DEF Pick, Local, TypeOK
  <2>2. ASSUME my' = [my EXCEPT ![c].conn = Proxy] PROVE my'[c].conn # NoHost
    BY <1>1, <2>2 DEF Local, TypeOK
  <2> QED
    BY <1>2, <2>1, <2>2 DEF Choose, Reach
<1>3. CASE Add(c)
  <2>1. my' = my \/ my' = [my EXCEPT ![c].at = umodule(@ + 1), ![c].found = TRUE]
    BY <1>3 DEF Add
  <2>2. my'[c].conn = my[c].conn
    BY <1>1, <2>1 DEF Local, TypeOK
  <2> QED
    BY <1>3, <2>2 DEF Add, StateInv
<1>4. CASE Get(c)
  BY <1>1, <1>4 DEF Get, StateInv, Local, TypeOK
<1>5. CASE Switch(c)
  <2>1. PICK up \in SUBSET Master :
          my' = [my EXCEPT ![c].conn = IF my[c].value \in up THEN my[c].value ELSE @]
    BY <1>5 DEF Switch, Reach
  <2>2. my'[c].conn = IF my[c].value \in up THEN my[c].value ELSE my[c].conn
    BY <1>1, <2>1 DEF Local, TypeOK
  <2> QED
    BY <1>1, <1>5, <2>2 DEF Switch, StateInv
<1>6. CASE Commit(c)
  <2>1. my' = my \/ my' = [my EXCEPT ![c].wrote = Len(log) + 1]
    BY <1>6 DEF Commit
  <2>2. my'[c].conn = my[c].conn
    BY <1>1, <2>1 DEF Local, TypeOK
  <2> QED
    BY <1>6, <2>2 DEF Commit, StateInv, Writing
<1>7. CASE Fail(c)
  BY <1>7 DEF Fail, StateInv, Writing
<1>8. CASE \/ Start(c) \/ Wrap(c) \/ Read(c)
           \/ SetLastWrite(c) \/ Clean(c) \/ Delete(c) \/ Crash(c)
  BY <1>8 DEF Start, Wrap, Read, SetLastWrite, Clean, Executed, Delete, Crash, Goto, TypeOK
<1> QED
  BY <1>2, <1>3, <1>4, <1>5, <1>6, <1>7, <1>8 DEF Step

(* How far a step takes the counter and the log.                           *)
LEMMA CounterAfter ==
  ASSUME TypeOK, NEW c \in Client, Step(c) \/ Crash(c)
  PROVE  /\ Len(log') <= conf.maxWrites \/ log' = log
         /\ \/ Start(c) /\ counter' = counter + 1
            \/ Wrap(c) /\ counter' = counter - conf.module
            \/ ~Start(c) /\ ~Wrap(c) /\ counter' = counter
         /\ pc'[c] = "wrap" => Start(c) /\ conf.module # 0 /\ counter = conf.module
<1>1. CASE Commit(c)
  <2>1. /\ Len(log) + 1 <= conf.maxWrites /\ Len(log') = Len(log) + 1
        /\ counter' = counter /\ pc[c] = "run" /\ pc'[c] # "wrap"
    BY <1>1, ConfType DEF Commit, Goto, TypeOK
  <2> QED
    BY <1>1, <2>1 DEF Start, Wrap
<1>2. CASE Start(c)
  BY <1>2, ConfType DEF Start, Goto, TypeOK
<1>3. CASE Wrap(c)
  BY <1>3 DEF Wrap, Goto, TypeOK
<1>4. CASE \/ Read(c) \/ Choose(c) \/ Add(c) \/ Get(c) \/ Switch(c) \/ Fail(c)
           \/ SetLastWrite(c) \/ Clean(c) \/ Delete(c) \/ Crash(c)
  <2>1. log' = log /\ counter' = counter /\ (pc[c] \notin {"idle", "wrap"} \/ Crash(c))
    BY <1>4 DEF Read, Choose, Add, Get, Switch, Fail, SetLastWrite, Clean, Executed, Delete, Crash
  <2>2. pc'[c] # "wrap"
    BY <1>4 DEF Read, Choose, Pick, Add, Get, Switch, Fail, SetLastWrite, Clean, Executed, Delete,
                Crash, Goto, TypeOK
  <2>3. ~Start(c) /\ ~Wrap(c) /\ counter' = counter /\ log' = log
    BY <1>4, <2>1, <2>2 DEF Start, Wrap, Crash, Goto, TypeOK
  <2> QED
    BY <2>2, <2>3
<1> QED
  BY <1>1, <1>2, <1>3, <1>4 DEF Step

(* StateInv is kept.                                                       *)
LEMMA StepState ==
  ASSUME TypeOK, StateInv, NEW c \in Client, Step(c) \/ Crash(c)
  PROVE  StateInv'
<1>1. conf' = conf /\ conf.module \in Nat /\ counter \in Nat /\ counter' \in Nat
  BY OthersStay, StepTypes, ConfType DEF TypeOK
<1>2. Len(log') <= conf.maxWrites
  BY CounterAfter DEF StateInv
<1>3. ASSUME NEW d \in Client
      PROVE  (Writing(d) \/ pc[d] \in {"add", "get"} => my[d].conn # NoHost)'
  <2>1. CASE d = c
    BY <2>1, ConnAfter DEF Writing
  <2>2. CASE d # c
    BY <2>2, OthersStay DEF Writing, StateInv
  <2> QED
    BY <2>1, <2>2
<1>4. ASSUME NEW d \in Client, pc'[d] = "wrap"
      PROVE  /\ conf.module # 0 /\ counter' > conf.module
             /\ \A e \in Client : pc'[e] = "wrap" => e = d
  <2>1. CASE d = c
    <3>1. Start(c) /\ conf.module # 0 /\ counter = conf.module /\ counter' = counter + 1
      BY <1>4, <2>1, CounterAfter DEF Start, Wrap
    <3>2. ASSUME NEW e \in Client, e # c, pc'[e] = "wrap" PROVE FALSE
      BY <1>1, <3>1, <3>2, OthersStay DEF StateInv
    <3> QED
      BY <1>1, <2>1, <3>1, <3>2
  <2>2. CASE d # c
    <3>1. pc[d] = "wrap" /\ conf.module # 0 /\ counter > conf.module
      BY <1>4, <2>2, OthersStay DEF StateInv
    <3>2. ~Wrap(c)
      BY <2>2, <3>1 DEF Wrap, StateInv
    <3>3. counter' > conf.module
      BY <1>1, <3>1, <3>2, CounterAfter
    <3>4. pc'[c] # "wrap"
      BY <1>1, <3>1, CounterAfter
    <3> QED
      BY <2>2, <3>1, <3>3, <3>4, OthersStay DEF StateInv
  <2> QED
    BY <2>1, <2>2
<1> QED
  BY <1>1, <1>2, <1>3, <1>4 DEF StateInv

(* Replication only adds to what a master has applied.                     *)
LEMMA ReplicateTypes ==
  ASSUME TypeOK, StateInv, NEW m \in Master, NEW w \in 1 .. Len(log), Replicate(m, w)
  PROVE  TypeOK' /\ StateInv'
<1>1. applied' \in [Master -> SUBSET (1 .. Len(log))]
  BY DEF Replicate, TypeOK
<1>2. UNCHANGED <<conf, counter, slot, log, pc, my, checked>>
  BY DEF Replicate
<1> QED
  BY <1>1, <1>2 DEF TypeOK, StateInv, Writing, Slot, Write, Value, Local
-----------------------------------------------------------------------------
(* What the steps do to what a client remembers.                           *)

(* A token is taken.                                                       *)
LEMMA StartOutcome ==
  ASSUME TypeOK, NEW c \in Client, Start(c)
  PROVE  LET l == my'[c] IN
         /\ l.token = umodule(counter) /\ l.found = FALSE /\ l.lastChk = 0
         /\ l.running = NoHost /\ l.last = NoHost /\ l.gtid = 0 /\ l.max = 0 /\ l.wrote = 0
         /\ l.at = umodule(counter) - (IF conf.module = 0 /\ umodule(counter) < conf.depth
                                       THEN umodule(counter) ELSE conf.depth + 1)
         /\ pc[c] = "idle" /\ pc'[c] \in {"wrap", "read"} /\ (conf.module = 0 => pc'[c] = "read")
         /\ counter' = counter + 1
BY DEF Start, Goto, Fresh, TypeOK

(* What is read in a slot.                                                 *)
LEMMA SeenFields ==
  ASSUME TypeOK, NEW l \in Local, NEW k \in Slot, NEW v \in Value
  PROVE  LET r == Seen(l, k, v)
             newer == v.gtid > l.max \/ l.last \notin {NoHost, v.host}
         IN
         /\ r.token = l.token /\ r.conn = l.conn /\ r.value = l.value /\ r.wrote = l.wrote
         /\ r.at = l.at + 1 /\ r.found = TRUE /\ r.lastChk = k
         /\ v.marker = "running" =>
              r.running = v.host /\ r.last = l.last /\ r.gtid = l.gtid /\ r.max = l.max
         /\ v.marker = "executed" =>
              /\ r.running = l.running
              /\ v.gtid # 0 /\ newer => r.last = v.host /\ r.gtid = v.gtid /\ r.max = v.gtid
              /\ v.gtid # 0 /\ ~newer => r.last = l.last /\ r.gtid = l.gtid /\ r.max = l.max
<1> DEFINE r == [l EXCEPT !.at = @ + 1, !.found = TRUE, !.lastChk = k]
           newer == v.gtid > l.max \/ l.last \notin {NoHost, v.host}
<1>1. l.at + 1 \in Int /\ k \in Nat
  BY ConfType DEF Local
<1>2. /\ r \in Local /\ r.at = l.at + 1 /\ r.found = TRUE /\ r.lastChk = k
      /\ r.token = l.token /\ r.conn = l.conn /\ r.value = l.value /\ r.wrote = l.wrote
      /\ r.running = l.running /\ r.last = l.last /\ r.gtid = l.gtid /\ r.max = l.max
  BY <1>1 DEF Local
<1>3. Seen(l, k, v) =
        CASE v.marker = "running" -> [r EXCEPT !.running = v.host]
          [] v.marker = "executed" /\ v.gtid # 0 /\ newer ->
               [r EXCEPT !.last = v.host, !.gtid = v.gtid, !.max = v.gtid]
          [] v.marker = "executed" /\ v.gtid = 0 /\ v.checked # 0 /\ l.gtid = 0 ->
               [r EXCEPT !.last = v.host, !.gtid = v.checked]
          [] OTHER -> r
  BY DEF Seen
<1> HIDE DEF r, newer
<1>4. CASE v.marker = "running"
  <2>1. Seen(l, k, v) = [r EXCEPT !.running = v.host]
    BY <1>3, <1>4
  <2> QED
    BY <1>2, <1>4, <2>1 DEF Local
<1>5. CASE v.marker = "executed" /\ v.gtid # 0 /\ newer
  <2>1. Seen(l, k, v) = [r EXCEPT !.last = v.host, !.gtid = v.gtid, !.max = v.gtid]
    BY <1>3, <1>5
  <2> QED
    BY <1>2, <1>5, <2>1 DEF Local, newer
<1>6. CASE v.marker = "executed" /\ v.gtid = 0 /\ v.checked # 0 /\ l.gtid = 0
  <2>1. Seen(l, k, v) = [r EXCEPT !.last = v.host, !.gtid = v.checked]
    BY <1>3, <1>6
  <2> QED
    BY <1>2, <1>6, <2>1 DEF Local
<1>7. CASE /\ v.marker # "running"
           /\ ~(v.marker = "executed" /\ v.gtid # 0 /\ newer)
           /\ ~(v.marker = "executed" /\ v.gtid = 0 /\ v.checked # 0 /\ l.gtid = 0)
  <2>1. Seen(l, k, v) = r
    BY <1>3, <1>7
  <2> QED
    BY <1>2, <1>7, <2>1 DEF newer
<1> QED
  BY <1>4, <1>5, <1>6, <1>7

(* Where the client goes on.                                               *)
LEMMA SeenPlace ==
  ASSUME TypeOK, NEW l \in Local, NEW k \in Slot, NEW v \in Value
  PROVE  /\ Seen(l, k, v).token = l.token /\ Seen(l, k, v).at = l.at + 1
         /\ Seen(l, k, v).found = TRUE /\ Seen(l, k, v).lastChk = k
BY SeenFields, ZenonT(60)

(* One slot is read.                                                       *)
LEMMA ReadOutcome ==
  ASSUME TypeOK, NEW c \in Client, Read(c)
  PROVE  LET l == my[c]
             k == umodule(my[c].at)
         IN
         /\ pc[c] = "read" /\ l.at < l.token /\ pc' = pc /\ slot' = slot
         /\ my'[c] \in Local /\ my'[c].token = l.token
         /\ Readable(k) => my'[c] = Seen(l, k, slot[k]) /\ slot[k] \in Value
         /\ ~Readable(k) =>
              /\ my'[c].found = l.found /\ my'[c].lastChk = l.lastChk
              /\ my'[c].running = l.running /\ my'[c].last = l.last
              /\ my'[c].gtid = l.gtid /\ my'[c].max = l.max
              /\ my'[c].at = IF conf.useGet /\ l.found THEN l.token ELSE l.at + 1
<1> DEFINE k == umodule(my[c].at)
<1>1. my[c] \in Local /\ my[c].at \in Int
  BY DEF TypeOK, Local
<1>2. CASE Readable(k)
  <2>1. my'[c] = Seen(my[c], k, slot[k]) /\ slot[k] \in Value /\ k \in Slot
    BY <1>2 DEF Read, Readable, TypeOK
  <2>2. my'[c].token = my[c].token /\ my'[c] \in Local
    <3>1. my[c] \in Local /\ slot[k] \in Value /\ k \in Slot
      BY <1>1, <2>1
    <3> HIDE DEF k
    <3>2. Seen(my[c], k, slot[k]).token = my[c].token /\ Seen(my[c], k, slot[k]) \in Local
      <4> DEFINE l == my[c]
                 v == slot[k]
      <4>1. TypeOK /\ l \in Local /\ v \in Value /\ k \in Slot
        BY <3>1
      <4> HIDE DEF l, v
      <4>2. Seen(l, k, v) \in Local
        BY <4>1, SeenType
      <4>3. Seen(l, k, v).token = l.token
        BY <4>1, SeenPlace
      <4> QED
        BY <4>2, <4>3 DEF l, v
    <3> QED
      BY <2>1, <3>2
  <2> QED
    BY <1>2, <2>1, <2>2 DEF Read
<1>3. CASE ~Readable(k)
  <2> DEFINE stop == conf.useGet /\ my[c].found
  <2>1. CASE stop
    <3>1. my'[c] = [my[c] EXCEPT !.at = my[c].token]
      BY <1>3, <2>1 DEF Read, TypeOK
    <3>2. my[c].token \in Int
      BY <1>1, ConfType DEF Local
    <3>3. my'[c] \in Local
      BY <1>1, <3>1, <3>2 DEF Local
    <3>4. /\ my'[c].found = my[c].found /\ my'[c].lastChk = my[c].lastChk
          /\ my'[c].running = my[c].running /\ my'[c].last = my[c].last
          /\ my'[c].gtid = my[c].gtid /\ my'[c].max = my[c].max
          /\ my'[c].token = my[c].token /\ my'[c].at = my[c].token
      BY <1>1, <3>1 DEF Local
    <3> QED
      BY <1>3, <2>1, <3>3, <3>4 DEF Read
  <2>2. CASE ~stop
    <3>1. my'[c] = [my[c] EXCEPT !.at = my[c].at + 1]
      BY <1>3, <2>2 DEF Read, TypeOK
    <3>2. my'[c] \in Local
      <4>1. my[c].at + 1 \in Int
        BY <1>1
      <4> QED
        BY <1>1, <3>1, <4>1 DEF Local
    <3>4. /\ my'[c].found = my[c].found /\ my'[c].lastChk = my[c].lastChk
          /\ my'[c].running = my[c].running /\ my'[c].last = my[c].last
          /\ my'[c].gtid = my[c].gtid /\ my'[c].max = my[c].max
          /\ my'[c].token = my[c].token /\ my'[c].at = my[c].at + 1
      BY <1>1, <3>1 DEF Local
    <3> QED
      BY <1>3, <2>2, <3>2, <3>4 DEF Read
  <2> QED
    BY <2>1, <2>2
<1> QED
  BY <1>2, <1>3
(* A master is picked, or the write goes on unannounced.                   *)
LEMMA ChooseOutcome ==
  ASSUME TypeOK, NEW c \in Client, Choose(c)
  PROVE  LET l == my[c] IN
         /\ pc[c] = "read" /\ l.at = l.token /\ slot' = slot /\ my'[c].token = l.token
         /\ \E up \in Reach :
              \/ /\ pc'[c] = "add" /\ my'[c].value = my'[c].conn
                 /\ my'[c].conn \in Selected(l, up) \intersect up
                 /\ my'[c].at = IF FirstSlot(l) < EndSlot(l) THEN FirstSlot(l) ELSE EndSlot(l)
              \/ /\ pc'[c] = "clean"
                 /\ Selected(l, up) = {} \/ ~(Selected(l, up) \subseteq up)
<1> DEFINE l == my[c]
<1>1. l \in Local
  BY DEF TypeOK
<1>2. PICK up \in Reach :
        \/ \E m \in Selected(l, up) \intersect up : Pick(c, m)
        \/ /\ Selected(l, up) = {} \/ ~(Selected(l, up) \subseteq up)
           /\ my' = [my EXCEPT ![c].conn = Proxy]
           /\ Goto(c, "clean")
  BY DEF Choose
<1>3. ASSUME NEW m \in Selected(l, up) \intersect up, Pick(c, m)
      PROVE  /\ pc'[c] = "add" /\ my'[c].value = m /\ my'[c].conn = m /\ my'[c].token = l.token
             /\ my'[c].at = IF FirstSlot(l) < EndSlot(l) THEN FirstSlot(l) ELSE EndSlot(l)
  <2> DEFINE a == IF FirstSlot(l) < EndSlot(l) THEN FirstSlot(l) ELSE EndSlot(l)
  <2>1. my' = [my EXCEPT ![c].conn = m, ![c].value = m, ![c].at = a]
    BY <1>3 DEF Pick
  <2> HIDE DEF a
  <2>2. my'[c] = [l EXCEPT !.conn = m, !.value = m, !.at = a]
    BY <2>1 DEF TypeOK
  <2>3. my'[c].value = m /\ my'[c].conn = m /\ my'[c].token = l.token /\ my'[c].at = a
    BY <1>1, <2>2 DEF Local
  <2> QED
    BY <1>3, <2>3 DEF a, Pick, Goto, TypeOK
<1>4. ASSUME my' = [my EXCEPT ![c].conn = Proxy], Goto(c, "clean")
      PROVE  pc'[c] = "clean" /\ my'[c].token = l.token
  BY <1>1, <1>4 DEF Goto, TypeOK, Local
<1> QED
  BY <1>2, <1>3, <1>4 DEF Choose

(* A slot is filled, or it is taken already.                               *)
LEMMA AddOutcome ==
  ASSUME TypeOK, NEW c \in Client, Add(c)
  PROVE  LET l == my[c] IN
         /\ pc[c] = "add" /\ l.at # EndSlot(l)
         /\ my'[c].token = l.token /\ my'[c].value = l.value /\ my'[c].conn = l.conn
         /\ \/ slot[l.at] # Absent /\ pc'[c] = "get" /\ slot' = slot /\ my'[c].at = l.at
            \/ /\ slot[l.at] = Absent /\ my'[c].at = umodule(l.at + 1)
               /\ slot' = [slot EXCEPT ![l.at] =
                             Plain(IF l.value = NoHost THEN "empty" ELSE "running", l.value)]
               /\ pc'[c] \in {"add", "gone"} /\ (l.value # NoHost => pc'[c] = "add")
<1>1. my[c] \in Local
  BY DEF TypeOK
<1>2. CASE slot[my[c].at] # Absent
  BY <1>2 DEF Add, Goto, TypeOK
<1>3. CASE slot[my[c].at] = Absent
  <2>1. my'[c] = [my[c] EXCEPT !.at = umodule(my[c].at + 1), !.found = TRUE]
    BY <1>3 DEF Add, TypeOK
  <2>2. /\ my'[c].token = my[c].token /\ my'[c].value = my[c].value /\ my'[c].conn = my[c].conn
        /\ my'[c].at = umodule(my[c].at + 1)
    BY <1>1, <2>1 DEF Local
  <2> QED
    BY <1>3, <2>2 DEF Add, Goto, TypeOK
<1> QED
  BY <1>2, <1>3

(* The host of a slot that is taken is followed.                           *)
LEMMA GetOutcome ==
  ASSUME TypeOK, NEW c \in Client, Get(c)
  PROVE  LET l == my[c] IN
         /\ pc[c] = "get" /\ pc'[c] = "add" /\ slot' = slot
         /\ my'[c].token = l.token /\ my'[c].conn = l.conn /\ my'[c].at = umodule(l.at + 1)
         /\ my'[c].value = IF Readable(l.at) THEN slot[l.at].host ELSE NoHost
<1> DEFINE h == IF Readable(my[c].at) THEN slot[my[c].at].host ELSE NoHost
<1>1. my[c] \in Local
  BY DEF TypeOK
<1>2. my' = [my EXCEPT ![c].at = umodule(@ + 1), ![c].value = h]
  BY DEF Get
<1> HIDE DEF h
<1>3. my'[c] = [my[c] EXCEPT !.at = umodule(my[c].at + 1), !.value = h]
  BY <1>2 DEF TypeOK
<1>4. /\ my'[c].token = my[c].token /\ my'[c].conn = my[c].conn
      /\ my'[c].at = umodule(my[c].at + 1) /\ my'[c].value = h
  BY <1>1, <1>3 DEF Local
<1> QED
  BY <1>4 DEF h, Get, Goto, TypeOK

(* The write goes to the announced master if it can be reached.            *)
LEMMA SwitchOutcome ==
  ASSUME TypeOK, NEW c \in Client, Switch(c)
  PROVE  LET l == my[c] IN
         /\ pc[c] = "add" /\ l.at = EndSlot(l) /\ pc'[c] = "run" /\ slot' = slot
         /\ my'[c].token = l.token
         /\ \E up \in Reach : my'[c].conn = IF l.value \in up THEN l.value ELSE l.conn
<1>1. my[c] \in Local
  BY DEF TypeOK
<1>2. PICK up \in Reach : my' = [my EXCEPT ![c].conn = IF my[c].value \in up THEN my[c].value ELSE @]
  BY DEF Switch
<1>3. my'[c] = [my[c] EXCEPT !.conn = IF my[c].value \in up THEN my[c].value ELSE my[c].conn]
  BY <1>2 DEF TypeOK
<1>4. /\ my'[c].token = my[c].token
      /\ my'[c].conn = IF my[c].value \in up THEN my[c].value ELSE my[c].conn
  BY <1>1, <1>3 DEF Local
<1> QED
  BY <1>4 DEF Switch, Goto, TypeOK

(* The server has executed the write.                                      *)
LEMMA CommitOutcome ==
  ASSUME TypeOK, StateInv, NEW c \in Client, Commit(c)
  PROVE  LET l == my[c]  w == Len(log) + 1 IN
         /\ pc[c] = "run" /\ pc'[c] \in {"mark", "clean"} /\ slot' = slot
         /\ my'[c].token = l.token /\ my'[c].conn = l.conn
         /\ pc'[c] = "mark" => my'[c].wrote = w
         /\ pc'[c] = "clean" => "lost_answer" \in conf.faults
         /\ l.conn \in Master /\ Len(log') = w /\ log'[w] = [host |-> l.conn, seen |-> applied[l.conn]]
         /\ \A v \in 1 .. Len(log) : log'[v] = log[v]
         /\ applied'[l.conn] = applied[l.conn] \union {w}
         /\ \A m \in Master \ {l.conn} : applied'[m] = applied[m]
<1>1. my[c] \in Local /\ my[c].conn \in Master
  BY DEF TypeOK, Local, Commit, StateInv, Writing
<1>2. \/ my'[c] = my[c] /\ pc'[c] = "clean" /\ "lost_answer" \in conf.faults
      \/ my'[c] = [my[c] EXCEPT !.wrote = Len(log) + 1] /\ pc'[c] = "mark"
  BY DEF Commit, Goto, TypeOK
<1>3. /\ my'[c].token = my[c].token /\ my'[c].conn = my[c].conn
      /\ pc'[c] = "mark" => my'[c].wrote = Len(log) + 1
  BY <1>1, <1>2 DEF Local
<1>4. /\ log' = Append(log, [host |-> my[c].conn, seen |-> applied[my[c].conn]])
      /\ log \in Seq([host : Master, seen : SUBSET (1 .. conf.maxWrites)])
  BY DEF Commit, TypeOK
<1>5. /\ Len(log') = Len(log) + 1 /\ \A v \in 1 .. Len(log) : log'[v] = log[v]
      /\ log'[Len(log) + 1] = [host |-> my[c].conn, seen |-> applied[my[c].conn]]
  BY <1>4
<1>6. applied' = [applied EXCEPT ![my[c].conn] = @ \union {Len(log) + 1}]
  BY DEF Commit
<1>7. /\ applied'[my[c].conn] = applied[my[c].conn] \union {Len(log) + 1}
      /\ \A m \in Master \ {my[c].conn} : applied'[m] = applied[m]
  BY <1>1, <1>6 DEF TypeOK
<1> QED
  BY <1>1, <1>2, <1>3, <1>5, <1>7 DEF Commit

(* The token is closed.                                                    *)
LEMMA ExecutedOutcome ==
  ASSUME TypeOK, NEW c \in Client, SetLastWrite(c) \/ Clean(c)
  PROVE  LET l == my[c] IN
         /\ pc[c] \in {"mark", "clean"} /\ (SetLastWrite(c) <=> pc[c] = "mark")
         /\ pc'[c] \in {"idle", "delete"} /\ (pc'[c] = "delete" => conf.autoClean) /\ my' = my
         /\ \A k \in Slot : k # l.token => slot'[k] = slot[k]
         /\ \/ slot' = slot /\ slot[l.token] = Absent
            \/ /\ slot'[l.token].marker = "executed" /\ slot'[l.token].host = l.conn
               /\ slot'[l.token].gtid = l.wrote
<1>1. my[c].token \in Slot
  BY DEF TypeOK, Local
<1>2. Executed(c) /\ pc[c] \in {"mark", "clean"} /\ (SetLastWrite(c) <=> pc[c] = "mark")
  BY DEF SetLastWrite, Clean
<1>3. CASE conf.autoClean \/ slot[my[c].token] # Absent
  BY <1>1, <1>2, <1>3 DEF Executed, Goto, TypeOK
<1>4. CASE ~(conf.autoClean \/ slot[my[c].token] # Absent)
  BY <1>1, <1>2, <1>4 DEF Executed, Goto, TypeOK
<1> QED
  BY <1>3, <1>4

(* An old token is deleted.                                                *)
LEMMA DeleteOutcome ==
  ASSUME TypeOK, NEW c \in Client, Delete(c)
  PROVE  /\ pc[c] = "delete" /\ pc'[c] = "idle" /\ my' = my
         /\ \A k \in Slot : \/ slot'[k] = slot[k]
                            \/ slot'[k] = Absent /\ k = umodule(my[c].token - 2 * conf.depth)
BY DEF Delete, Goto, TypeOK
-----------------------------------------------------------------------------
(* Tokens.                                                                 *)

(* A write keeps the token it has taken.                                   *)
LEMMA TokenAfter ==
  ASSUME TypeOK, StateInv, NEW c \in Client, Step(c) \/ Crash(c), ~Start(c)
  PROVE  my'[c].token = my[c].token /\ (Busy(c)' => Busy(c))
<1>1. CASE Wrap(c) \/ Fail(c) \/ Crash(c)
  BY <1>1 DEF Wrap, Fail, Crash, Goto, Busy, TypeOK
<1>2. CASE Read(c)
  BY <1>2, ReadOutcome DEF Busy
<1>3. CASE Choose(c)
  BY <1>3, ChooseOutcome DEF Busy
<1>4. CASE Add(c)
  BY <1>4, AddOutcome DEF Busy
<1>5. CASE Get(c)
  BY <1>5, GetOutcome DEF Busy
<1>6. CASE Switch(c)
  BY <1>6, SwitchOutcome DEF Busy
<1>7. CASE Commit(c)
  BY <1>7, CommitOutcome DEF Busy
<1>8. CASE SetLastWrite(c) \/ Clean(c)
  BY <1>8, ExecutedOutcome DEF Busy
<1>9. CASE Delete(c)
  BY <1>9, DeleteOutcome DEF Busy
<1> QED
  BY <1>1, <1>2, <1>3, <1>4, <1>5, <1>6, <1>7, <1>8, <1>9 DEF Step

(* Where the token of a write in progress is, seen from the counter.       *)
Behind(c) == \E j \in 1 .. conf.depth + 1 : my[c].token = umodule(counter - j)

(* The guard of Start keeps the writes in progress close to the counter.   *)
LEMMA StillBehind ==
  ASSUME TypeOK, NEW d \in Client, umodule(counter - my[d].token) <= conf.depth,
         conf.module = 0 => my[d].token < counter
  PROVE  \E j \in 1 .. conf.depth + 1 : my[d].token = umodule(counter + 1 - j)
<1> DEFINE t == my[d].token
           r == umodule(counter - t)
<1>1. /\ conf.module \in Nat /\ conf.depth \in Nat \ {0} /\ counter \in Nat
      /\ t \in Slot /\ t \in Nat
  BY ConfType DEF TypeOK, Local
<1>2. r \in Nat /\ t = umodule(counter - r)
  <2>1. CASE conf.module = 0
    <3>1. r = counter - t
      BY <2>1 DEF umodule
    <3> HIDE DEF r, t
    <3>2. r \in Nat /\ t = counter - r
      BY <1>1, <2>1, <3>1 DEF t
    <3> QED
      BY <2>1, <3>2 DEF umodule
  <2>2. CASE conf.module # 0
    <3>1. r = (counter - t) % conf.module /\ t \in 0 .. conf.module - 1
      BY <1>1, <2>2 DEF umodule, Slot
    <3>2. (counter - ((counter - t) % conf.module)) % conf.module = t
      <4>1. counter \in Int /\ conf.module \in Nat \ {0} /\ t \in 0 .. conf.module - 1
        BY <1>1, <2>2, <3>1
      <4> HIDE DEF t
      <4> QED
        BY <4>1, DistanceBack
    <3>3. (counter - t) % conf.module \in 0 .. conf.module - 1
      <4>1. counter - t \in Int
        BY <1>1
      <4> HIDE DEF t
      <4> QED
        BY <1>1, <2>2, <4>1, Division
    <3>4. r \in Nat
      BY <1>1, <3>1, <3>3
    <3> QED
      BY <2>2, <3>1, <3>2, <3>4 DEF umodule
  <2> QED
    BY <2>1, <2>2
<1> HIDE DEF r
<1>3. r <= conf.depth
  BY DEF r
<1>4. r + 1 \in 1 .. conf.depth + 1 /\ counter + 1 - (r + 1) = counter - r
  BY <1>1, <1>2, <1>3
<1> QED
  BY <1>2, <1>4

(* TokenInv is kept: a token is taken.                                     *)
LEMMA StartTokens ==
  ASSUME TypeOK, TokenInv, NEW c \in Client, Start(c)
  PROVE  TokenInv'
<1>1. /\ conf' = conf /\ counter' = counter + 1 /\ counter \in Nat
      /\ conf.module \in Nat /\ conf.depth \in Nat \ {0}
      /\ my'[c].token = umodule(counter) /\ ~Busy(c)
  BY StartOutcome, ConfType DEF Start, TypeOK, Busy
<1>2. \A d \in Client \ {c} : (Busy(d)' <=> Busy(d)) /\ my'[d] = my[d]
  BY OthersStay DEF Step, Busy
<1>3. ASSUME NEW d \in Client, Busy(d)', conf.module = 0 PROVE my'[d].token < counter'
  <2>1. CASE d = c
    BY <1>1, <1>3, <2>1, TokenType
  <2>2. CASE d # c
    <3>1. my'[d].token = my[d].token /\ my[d].token < counter /\ my[d].token \in Nat
      BY <1>2, <1>3, <2>2, ConfType DEF TokenInv, TypeOK, Local
    <3> QED
      BY <1>1, <3>1
  <2> QED
    BY <2>1, <2>2
<1>4. ASSUME NEW d \in Client, Busy(d)', "depth" \in conf.orderly PROVE Behind(d)'
  <2>1. CASE d = c
    <3>1. counter' - 1 = counter /\ 1 \in 1 .. conf.depth + 1
      BY <1>1
    <3>2. my'[d].token = umodule(counter' - 1)
      BY <1>1, <2>1, <3>1
    <3> QED
      BY <1>1, <3>1, <3>2 DEF Behind, umodule
  <2>2. CASE d # c
    <3>1. my'[d] = my[d] /\ Busy(d)
      BY <1>2, <1>4, <2>2
    <3>2. umodule(counter - my[d].token) <= conf.depth
      BY <1>4, <3>1 DEF Start, Busy
    <3>3. conf.module = 0 => my[d].token < counter
      BY <3>1 DEF TokenInv
    <3>4. PICK j \in 1 .. conf.depth + 1 : my[d].token = umodule(counter + 1 - j)
      BY <3>2, <3>3, StillBehind
    <3> QED
      BY <1>1, <3>1, <3>4 DEF Behind, umodule
  <2> QED
    BY <2>1, <2>2
<1>5. ASSUME Spaced, NEW d \in Client, Busy(d), d # c PROVE my[d].token # umodule(counter)
  <2>1. CASE conf.module = 0
    <3>1. my[d].token < counter /\ my[d].token \in Nat
      BY <1>5, <2>1, ConfType DEF TokenInv, TypeOK, Local
    <3> QED
      BY <1>1, <2>1, <3>1 DEF umodule
  <2>2. CASE conf.module # 0
    <3>1. PICK j \in 1 .. conf.depth + 1 : my[d].token = (counter - j) % conf.module
      BY <1>5, <2>2 DEF TokenInv, Spaced, umodule
    <3>2. j \in 1 .. conf.module - 1
      BY <1>1, <1>5, <2>2 DEF Spaced
    <3>3. (counter - j) % conf.module # counter % conf.module
      <4>1. counter \in Int /\ conf.module \in Nat \ {0}
        BY <1>1, <2>2
      <4> QED
        BY <3>2, <4>1, LessThanARound
    <3> QED
      BY <2>2, <3>1, <3>3 DEF umodule
  <2> QED
    BY <2>1, <2>2
<1>6. ASSUME Spaced PROVE TokensDiffer'
  <2> SUFFICES ASSUME NEW d \in Client, NEW e \in Client, d # e, Busy(d)', Busy(e)'
               PROVE  my'[d].token # my'[e].token
    BY DEF TokensDiffer, Busy
  <2>1. CASE d # c /\ e # c
    BY <1>2, <1>6, <2>1 DEF TokenInv, TokensDiffer, Busy
  <2>2. CASE d = c
    BY <1>1, <1>2, <1>5, <1>6, <2>2
  <2>3. CASE e = c
    BY <1>1, <1>2, <1>5, <1>6, <2>3
  <2> QED
    BY <2>1, <2>2, <2>3
<1>7. (Spaced' <=> Spaced)
  BY <1>1 DEF Spaced
<1> QED
  BY <1>1, <1>3, <1>4, <1>6, <1>7 DEF TokenInv, Behind

(* TokenInv is kept by every step of a client.                             *)
LEMMA StepTokens ==
  ASSUME TypeOK, StateInv, TokenInv, NEW c \in Client, Step(c) \/ Crash(c)
  PROVE  TokenInv'
<1>1. CASE Start(c)
  BY <1>1, StartTokens
<1>2. CASE ~Start(c)
  <2>1. conf' = conf /\ \A d \in Client : my'[d].token = my[d].token /\ (Busy(d)' => Busy(d))
    BY <1>2, OthersStay, TokenAfter DEF Busy
  <2>2. Spaced => TokensDiffer'
    BY <2>1 DEF TokenInv, TokensDiffer, Busy
  <2>3. counter \in Nat /\ conf.module \in Nat /\ conf.depth \in Nat
    BY ConfType DEF TypeOK
  <2>4. conf.module = 0 => counter' = counter
    BY <1>2, CounterAfter DEF Wrap, StateInv
  <2>5. \A j \in 1 .. conf.depth + 1 : umodule(counter' - j) = umodule(counter - j)
    <3>1. CASE counter' = counter
      BY <3>1
    <3>2. CASE Wrap(c) /\ counter' = counter - conf.module
      <4>1. conf.module # 0
        BY <3>2 DEF Wrap, StateInv
      <4> SUFFICES ASSUME NEW j \in 1 .. conf.depth + 1
                   PROVE  umodule(counter' - j) = umodule(counter - j)
        OBVIOUS
      <4>2. counter' - j = (counter - j) - conf.module /\ counter - j \in Int
        BY <2>3, <3>2
      <4>3. ((counter - j) - conf.module) % conf.module = (counter - j) % conf.module
        BY <2>3, <4>1, <4>2, WholeRound
      <4> QED
        BY <4>1, <4>2, <4>3 DEF umodule
    <3> QED
      BY <1>2, <3>1, <3>2, CounterAfter
  <2>6. ASSUME NEW d \in Client, Busy(d)', "depth" \in conf.orderly PROVE Behind(d)'
    <3>1. PICK j \in 1 .. conf.depth + 1 : my[d].token = umodule(counter - j)
      BY <2>1, <2>6 DEF TokenInv
    <3>2. my'[d].token = umodule(counter' - j)
      BY <2>1, <2>5, <3>1
    <3> QED
      BY <2>1, <3>2 DEF Behind, umodule
  <2>7. (Spaced' <=> Spaced)
    BY <2>1 DEF Spaced
  <2> QED
    BY <2>1, <2>2, <2>4, <2>6, <2>7 DEF TokenInv, Behind
<1> QED
  BY <1>1, <1>2

(* What is kept whatever the settings are.                                 *)
BaseInv == TypeOK /\ StateInv /\ TokenInv

(* BaseInv is inductive.                                                   *)
LEMMA BaseStep ==
  ASSUME BaseInv, [Next]_vars
  PROVE  BaseInv' /\ conf' = conf
<1>1. ASSUME NEW c \in Client, Step(c) \/ Crash(c) PROVE BaseInv' /\ conf' = conf
  BY <1>1, OthersStay, StepTypes, StepState, StepTokens DEF BaseInv
<1>2. ASSUME NEW m \in Master, NEW w \in 1 .. Len(log), Replicate(m, w)
      PROVE  BaseInv' /\ conf' = conf
  <2>1. UNCHANGED <<conf, counter, pc, my>>
    BY <1>2 DEF Replicate
  <2> QED
    BY <1>2, <2>1, ReplicateTypes DEF BaseInv, TokenInv, TokensDiffer, Spaced, Busy, umodule
<1>3. CASE UNCHANGED vars
  BY <1>3 DEF vars, BaseInv, TypeOK, StateInv, TokenInv, TokensDiffer, Spaced, Busy, Writing,
              umodule, Slot, Write, Value, Local
<1> QED
  BY <1>1, <1>2, <1>3 DEF Next

(* It holds in the beginning.                                              *)
LEMMA BaseInit ==
  Init => BaseInv
<1>1. Init => TokenInv
  BY DEF Init, TokenInv, TokensDiffer, Busy
<1> QED
  BY <1>1, InitTypes DEF BaseInv

(* The types of WriteConsistency: also that the counter of tokens is never *)
(* negative, though it is set back, and that a GTID is that of a write.    *)
THEOREM WritesTypeCorrect == Spec => []TypeOK
<1>1. BaseInv /\ [Next]_vars => BaseInv'
  BY BaseStep
<1>2. BaseInv => TypeOK
  BY DEF BaseInv
<1> QED
  BY BaseInit, <1>1, <1>2, PTL DEF Spec

(* Two writes in progress have two tokens, for every number of clients and *)
(* every module that leaves more tokens than the clients that wait for     *)
(* running_wdepth can use (StartUnadjusted, the counter itself as token,   *)
(* and a counter that is set to 1 break it).                               *)
THEOREM TokensAreDistinct == Spec => [](Spaced => TokensDiffer)
<1>1. BaseInv /\ [Next]_vars => BaseInv'
  BY BaseStep
<1>2. BaseInv => (Spaced => TokensDiffer)
  BY DEF BaseInv, TokenInv
<1> QED
  BY BaseInit, <1>1, <1>2, PTL DEF Spec
-----------------------------------------------------------------------------
(* The window, when tokens are not counted modulo anything.                *)

(* What is remembered, when a token is a number.                           *)
LEMMA Remembered ==
  ASSUME TypeOK, conf.module = 0, NEW c \in Client
  PROVE  /\ my[c] \in Local
         /\ my[c].token \in Slot /\ my[c].token \in Nat /\ my[c].at \in Int /\ my[c].lastChk \in Nat
         /\ my[c].found \in BOOLEAN
         /\ my[c].running \in Master \union {NoHost} /\ my[c].last \in Master \union {NoHost}
         /\ my[c].conn \in Master \union {NoHost} /\ my[c].value \in Master \union {NoHost}
         /\ my[c].gtid \in Nat /\ my[c].max \in Nat /\ my[c].wrote \in Nat
<1>1. my[c] \in Local /\ Slot \subseteq Nat /\ Write \subseteq Nat
  BY ConfType DEF TypeOK
<1>2. /\ my[c].token \in Slot /\ my[c].at \in Int /\ my[c].lastChk \in Nat
      /\ my[c].found \in BOOLEAN
      /\ my[c].running \in Master \union {NoHost} /\ my[c].last \in Master \union {NoHost}
      /\ my[c].conn \in Master \union {NoHost} /\ my[c].value \in Master \union {NoHost}
      /\ my[c].gtid \in Write /\ my[c].max \in Write /\ my[c].wrote \in Write
  BY <1>1 DEF Local
<1> QED
  BY <1>1, <1>2

(* A number is its own token, and the slots are a segment.                 *)
LEMMA Unwrapped ==
  ASSUME TypeOK, conf.module = 0
  PROVE  /\ \A n \in Int : umodule(n) = n
         /\ Slot = 0 .. conf.maxWrites - 1 /\ Slot \subseteq Nat
         /\ conf.depth \in Nat \ {0} /\ counter \in Nat
BY ConfType DEF umodule, Slot, TypeOK

(* Where the filling of slots begins.                                      *)
LEMMA FirstInWindow ==
  ASSUME TypeOK, conf.module = 0, WindowInv, NEW c \in Client, pc[c] = "read"
  PROVE  LET l == my[c] IN
         /\ EndSlot(l) = l.token + 1
         /\ FirstSlot(l) = IF l.found THEN l.lastChk + 1 ELSE IF l.token > 0 THEN l.token - 1 ELSE 0
         /\ FirstSlot(l) \in Nat /\ l.token - conf.depth <= FirstSlot(l) /\ FirstSlot(l) <= l.token
<1> DEFINE l == my[c]
<1>1. l.token \in Nat /\ l.lastChk \in Nat /\ l.found \in BOOLEAN /\ conf.depth \in Nat \ {0}
  BY Remembered, Unwrapped
<1>2. umodule(l.token + 1) = l.token + 1 /\ umodule(l.lastChk + 1) = l.lastChk + 1
  <2>1. l.token + 1 \in Int /\ l.lastChk + 1 \in Int
    BY <1>1
  <2> QED
    BY <2>1, Unwrapped
<1>3. l.found => l.token - conf.depth - 1 <= l.lastChk /\ l.lastChk < l.at
  BY DEF WindowInv
<1>4. l.at <= l.token /\ l.at \in Int
  BY Remembered DEF WindowInv
<1>5. FirstSlot(l) = IF l.found THEN l.lastChk + 1 ELSE IF l.token > 0 THEN l.token - 1 ELSE 0
  BY <1>2 DEF FirstSlot
<1> HIDE DEF l
<1>6. FirstSlot(l) \in Nat /\ l.token - conf.depth <= FirstSlot(l) /\ FirstSlot(l) <= l.token
  BY <1>1, <1>3, <1>4, <1>5
<1> QED
  BY <1>2, <1>5, <1>6 DEF EndSlot, l

(* A slot is filled and the next one is looked at.                         *)
LEMMA NextSlot ==
  ASSUME TypeOK, conf.module = 0, WindowInv, NEW c \in Client, Add(c) \/ Get(c)
  PROVE  /\ my[c].at \in Slot /\ my[c].at <= my[c].token
         /\ umodule(my[c].at + 1) = my[c].at + 1
<1>1. my[c].at \in Int /\ my[c].token \in Nat /\ my[c].token \in Slot
  BY Remembered
<1>2. umodule(my[c].at + 1) = my[c].at + 1 /\ umodule(my[c].token + 1) = my[c].token + 1
  <2>1. my[c].at + 1 \in Int /\ my[c].token + 1 \in Int
    BY <1>1
  <2> QED
    BY <2>1, Unwrapped
<1>3. 0 <= my[c].at /\ my[c].at <= my[c].token
  <2>1. CASE Add(c)
    <3>1. my[c].at # my[c].token + 1 /\ 0 <= my[c].at /\ my[c].at <= my[c].token + 1
      BY <1>2, <2>1 DEF Add, EndSlot, WindowInv
    <3> QED
      BY <1>1, <3>1
  <2>2. CASE Get(c)
    BY <2>2 DEF Get, WindowInv
  <2> QED
    BY <2>1, <2>2
<1>4. my[c].at \in Slot
  <2>1. Slot = 0 .. conf.maxWrites - 1 /\ conf.maxWrites \in Nat
    BY Unwrapped, ConfType
  <2> QED
    BY <1>1, <1>3, <2>1
<1> QED
  BY <1>2, <1>3, <1>4

(* WindowInv is kept.                                                      *)
LEMMA StepWindow ==
  ASSUME BaseInv, conf.module = 0, WindowInv, NEW c \in Client, Step(c) \/ Crash(c)
  PROVE  WindowInv'
<1> DEFINE l == my[c]
<1>1. TypeOK /\ StateInv /\ TypeOK' /\ conf' = conf /\ conf.depth \in Nat \ {0}
  BY OthersStay, StepTypes, ConfType DEF BaseInv
<1>2. /\ l.token \in Nat /\ l.token \in Slot /\ l.at \in Int /\ l.lastChk \in Nat
      /\ l.found \in BOOLEAN
  BY <1>1, Remembered
<1>3. ASSUME pc'[c] = "read"
      PROVE  /\ my'[c].token - conf.depth - 1 <= my'[c].at /\ my'[c].at <= my'[c].token
             /\ my'[c].found => my'[c].token - conf.depth - 1 <= my'[c].lastChk /\ my'[c].lastChk < my'[c].at
  <2>1. Start(c) \/ Read(c) \/ Wrap(c)
    BY <1>1, <1>3 DEF Step, Choose, Pick, Add, Get, Switch, Commit, Fail, SetLastWrite, Clean,
                 Executed, Delete, Crash, Goto, TypeOK
  <2>2. CASE Start(c)
    <3>1. umodule(counter) = counter /\ counter \in Nat
      BY <1>1, Unwrapped
    <3>2. /\ my'[c].token = counter /\ my'[c].found = FALSE
          /\ my'[c].at = counter - (IF counter < conf.depth THEN counter ELSE conf.depth + 1)
      BY <1>1, <2>2, <3>1, StartOutcome
    <3> QED
      BY <1>1, <3>1, <3>2
  <2>3. CASE Read(c)
    <3>1. l.token - conf.depth - 1 <= l.at /\ l.at < l.token /\ my'[c].token = l.token
      BY <1>1, <2>3, ReadOutcome DEF WindowInv
    <3>2. l.found => l.token - conf.depth - 1 <= l.lastChk /\ l.lastChk < l.at
      BY <1>1, <2>3, ReadOutcome DEF WindowInv
    <3>3. umodule(l.at) = l.at
      BY <1>1, <1>2, Unwrapped
    <3>4. CASE Readable(l.at)
      <4>1. my'[c] = Seen(l, l.at, slot[l.at]) /\ slot[l.at] \in Value /\ l.at \in Slot /\ l \in Local
        BY <1>1, <2>3, <3>3, <3>4, ReadOutcome, Remembered DEF Readable
      <4> DEFINE k == l.at
                 v == slot[l.at]
      <4>2. my'[c].at = l.at + 1 /\ my'[c].lastChk = l.at
        <5>1. my'[c] = Seen(l, k, v) /\ v \in Value /\ k \in Slot /\ l \in Local
          BY <4>1
        <5> HIDE DEF l, k, v
        <5>2. TypeOK /\ v \in Value /\ k \in Slot /\ l \in Local
          BY <1>1, <5>1
        <5>3. Seen(l, k, v).at = l.at + 1
          BY <5>2, SeenPlace
        <5>4. Seen(l, k, v).lastChk = k
          BY <5>2, SeenPlace
        <5> QED
          BY <5>1, <5>3, <5>4 DEF k
      <4> HIDE DEF l
      <4> QED
        BY <1>1, <1>2, <3>1, <4>2
    <3>5. CASE ~Readable(l.at)
      <4>1. /\ my'[c].found = l.found /\ my'[c].lastChk = l.lastChk
            /\ my'[c].at = IF conf.useGet /\ l.found THEN l.token ELSE l.at + 1
        BY <1>1, <2>3, <3>3, <3>5, ReadOutcome
      <4> HIDE DEF l
      <4> QED
        BY <1>1, <1>2, <3>1, <3>2, <4>1
    <3> QED
      BY <3>4, <3>5
  <2>4. CASE Wrap(c)
    BY <1>1, <2>4 DEF Wrap, StateInv
  <2> QED
    BY <2>1, <2>2, <2>3, <2>4
<1>4. ASSUME pc'[c] \in {"add", "get"}
      PROVE  /\ my'[c].token - conf.depth <= my'[c].at /\ 0 <= my'[c].at /\ my'[c].at <= my'[c].token + 1
             /\ pc'[c] = "get" => my'[c].at <= my'[c].token
  <2>1. Choose(c) \/ Add(c) \/ Get(c)
    BY <1>1, <1>4 DEF Step, Start, Wrap, Read, Switch, Commit, Fail, SetLastWrite, Clean,
                 Executed, Delete, Crash, Goto, TypeOK
  <2>2. CASE Choose(c)
    <3>1. EndSlot(l) = l.token + 1 /\ FirstSlot(l) \in Nat
          /\ l.token - conf.depth <= FirstSlot(l) /\ FirstSlot(l) <= l.token
      BY <1>1, <2>2, FirstInWindow DEF Choose
    <3>2. /\ my'[c].token = l.token /\ pc'[c] # "get"
          /\ my'[c].at = IF FirstSlot(l) < EndSlot(l) THEN FirstSlot(l) ELSE EndSlot(l)
      BY <1>1, <1>4, <2>2, ChooseOutcome
    <3> HIDE DEF l
    <3>3. my'[c].at = FirstSlot(l)
      BY <1>2, <3>1, <3>2
    <3> QED
      BY <1>1, <1>2, <3>1, <3>2, <3>3
  <2>3. CASE Add(c) \/ Get(c)
    <3>1. l.at <= l.token /\ umodule(l.at + 1) = l.at + 1
      BY <1>1, <2>3, NextSlot
    <3>2. l.token - conf.depth <= l.at /\ 0 <= l.at
      BY <2>3 DEF WindowInv, Add, Get
    <3>3. /\ my'[c].token = l.token
          /\ \/ my'[c].at = l.at
             \/ my'[c].at = l.at + 1 /\ pc'[c] # "get"
      BY <1>1, <2>3, <3>1, AddOutcome, GetOutcome
    <3> HIDE DEF l
    <3> QED
      BY <1>1, <1>2, <3>1, <3>2, <3>3
  <2> QED
    BY <2>1, <2>2, <2>3
<1>5. \A d \in Client \ {c} : pc'[d] = pc[d] /\ my'[d] = my[d]
  BY <1>1, OthersStay
<1> QED
  BY <1>1, <1>3, <1>4, <1>5 DEF WindowInv
-----------------------------------------------------------------------------
(* A write is announced before it runs.                                    *)

(* What a slot is when it is filled.                                       *)
LEMMA Markers ==
  ASSUME NEW m
  PROVE  /\ Plain("running", m).marker = "running" /\ Plain("running", m).host = m
         /\ Plain("running", m) # Absent /\ Absent.marker = "absent"
BY DEF Plain, Absent

(* A slot that is taken can be read and names a master.                    *)
LEMMA Taken ==
  ASSUME TypeOK, AnnounceInv, NEW k \in Slot
  PROVE  /\ Readable(k) <=> slot[k] # Absent
         /\ slot[k] # Absent => /\ slot[k].marker \in {"running", "executed"}
                                /\ slot[k].host \in Master
                                /\ slot[k].marker = "running" => slot[k] = Plain("running", slot[k].host)
<1>1. slot[k] \in Value
  BY DEF TypeOK
<1>2. \/ slot[k] = Absent
      \/ \E m \in Master : slot[k] = Plain("running", m)
      \/ slot[k].marker = "executed" /\ slot[k].host # NoHost
  BY DEF AnnounceInv
<1>3. Absent.marker = "absent" /\ NoHost \notin Master
  BY ConstantsAssumption DEF Absent, Plain
<1>4. \A m \in Master : Plain("running", m).marker = "running" /\ Plain("running", m).host = m
  BY DEF Plain
<1> QED
  BY <1>1, <1>2, <1>3, <1>4 DEF Readable, Value

(* A client that does nothing stays announced, unless its slot is closed.  *)
LEMMA StillAnnounced ==
  ASSUME NEW d \in Client, Announced(d), pc'[d] = pc[d], my'[d] = my[d], conf' = conf,
         \/ slot'[my[d].token] = slot[my[d].token]
         \/ slot[my[d].token] = Absent /\ slot'[my[d].token].marker # "executed",
         pc[d] = "get" /\ slot[my[d].at] # Absent => slot'[my[d].at] # Absent
  PROVE  Announced(d)'
BY Markers DEF Announced, Writing, Announcing

(* With every master in reach a client always finds one.                   *)
LEMMA SomeMaster ==
  ASSUME TypeOK, Undisturbed, NEW l \in Local
  PROVE  /\ Reach = {Master} /\ Candidates(l) \subseteq Master
         /\ Selected(l, Master) # {} /\ Selected(l, Master) \subseteq Master
         /\ l.running # NoHost => Selected(l, Master) = {l.running} /\ l.running \in Master
         /\ l.running = NoHost /\ l.last # NoHost =>
              Selected(l, Master) = {l.last} \union {m \in Master : l.gtid \in applied[m]}
<1>1. Reach = {Master}
  BY DEF Reach, Undisturbed
<1>2. /\ l.running \in Master \union {NoHost} /\ l.last \in Master \union {NoHost}
      /\ Proxy \in Master /\ NoHost \notin Master
  BY ConstantsAssumption DEF Local
<1> QED
  BY <1>1, <1>2 DEF Selected, Candidates

(* A client chooses a master and goes on to announce it.                   *)
LEMMA AlwaysChosen ==
  ASSUME TypeOK, Undisturbed, NEW c \in Client, Choose(c)
  PROVE  /\ pc'[c] = "add" /\ my'[c].value = my'[c].conn
         /\ my'[c].value \in Selected(my[c], Master) /\ my'[c].value \in Master
         /\ my'[c].at = IF FirstSlot(my[c]) < EndSlot(my[c]) THEN FirstSlot(my[c]) ELSE EndSlot(my[c])
<1>1. my[c] \in Local
  BY DEF TypeOK
<1>2. Reach = {Master} /\ Selected(my[c], Master) # {} /\ Selected(my[c], Master) \subseteq Master
  BY <1>1, SomeMaster
<1> QED
  BY <1>2, ChooseOutcome

(* AnnounceInv is kept when a token is taken or a master is looked for.    *)
LEMMA AnnounceBefore ==
  ASSUME BaseInv, Certain, WindowInv, AnnounceInv, NEW c \in Client,
         Start(c) \/ Wrap(c) \/ Read(c) \/ Choose(c)
  PROVE  AnnounceInv'
<1>1. TypeOK /\ StateInv /\ conf.module = 0 /\ conf' = conf /\ Undisturbed
  BY OthersStay DEF BaseInv, Certain, Step
<1>2. slot' = slot /\ Slot' = Slot
  BY OthersStay DEF Start, Wrap, Read, Choose, BaseInv, Step
<1>3. counter' \in Nat /\ counter <= counter' /\ counter \in Nat
  BY <1>1, Unwrapped DEF Start, Wrap, Read, Choose, StateInv
<1>4. \A k \in Slot : \/ slot[k] = Absent
                      \/ \E m \in Master : slot[k] = Plain("running", m)
                      \/ slot[k].marker = "executed" /\ slot[k].host # NoHost /\ k < counter'
  <2> SUFFICES ASSUME NEW k \in Slot PROVE k < counter => k < counter'
    BY DEF AnnounceInv
  <2>1. k \in Nat
    BY <1>1, Unwrapped
  <2> QED
    BY <1>3, <2>1
<1>5. ASSUME NEW d \in Client, d # c PROVE Announced(d)'
  <2>1. pc'[d] = pc[d] /\ my'[d] = my[d]
    BY <1>1, <1>5, OthersStay DEF Step
  <2> QED
    BY <1>1, <1>2, <2>1, StillAnnounced DEF AnnounceInv
<1>6. Announced(c)'
  <2>1. CASE Start(c)
    <3>1. /\ my'[c].token = counter /\ pc'[c] = "read" /\ counter \in Slot
      <4>1. umodule(counter) = counter /\ counter \in Nat
        BY <1>1, Unwrapped
      <4>2. pc'[c] = "read" /\ my'[c].token = umodule(counter)
        BY <1>1, <2>1, StartOutcome
      <4>3. counter \in Slot
        BY <1>1, <2>1, <4>1, ConfType DEF Start, Slot
      <4> QED
        BY <4>1, <4>2, <4>3
    <3>2. slot[counter].marker # "executed"
      BY <1>3, <3>1, Markers DEF AnnounceInv
    <3> QED
      BY <1>2, <3>1, <3>2 DEF Announced, Writing
  <2>2. CASE Wrap(c)
    BY <1>1, <2>2 DEF Wrap, StateInv
  <2>3. CASE Read(c)
    <3>1. pc'[c] = "read" /\ pc[c] = "read" /\ my'[c].token = my[c].token
      BY <1>1, <2>3, ReadOutcome
    <3> QED
      BY <1>2, <3>1 DEF Announced, AnnounceInv, Announcing, Writing
  <2>4. CASE Choose(c)
    <3>1. pc'[c] = "add" /\ pc[c] = "read" /\ my'[c].value \in Master /\ my'[c].token = my[c].token
      BY <1>1, <2>4, AlwaysChosen, ChooseOutcome
    <3>2. my'[c].at # my'[c].token + 1
      <4>1. /\ my'[c].at = IF FirstSlot(my[c]) < EndSlot(my[c]) THEN FirstSlot(my[c]) ELSE EndSlot(my[c])
            /\ EndSlot(my[c]) = my[c].token + 1 /\ FirstSlot(my[c]) \in Nat
            /\ FirstSlot(my[c]) <= my[c].token /\ my[c].token \in Nat
        BY <1>1, <2>4, <3>1, AlwaysChosen, FirstInWindow, Remembered
      <4> QED
        BY <3>1, <4>1
    <3> QED
      BY <1>2, <3>1, <3>2, ConstantsAssumption DEF Announced, AnnounceInv, Announcing, Writing
  <2> QED
    BY <2>1, <2>2, <2>3, <2>4
<1> QED
  BY <1>2, <1>4, <1>5, <1>6 DEF AnnounceInv

(* AnnounceInv is kept while slots are filled.                             *)
LEMMA AnnounceAdd ==
  ASSUME BaseInv, Certain, WindowInv, AnnounceInv, NEW c \in Client, Add(c)
  PROVE  AnnounceInv'
<1> DEFINE l == my[c]
           r == Plain("running", l.value)
<1>1. TypeOK /\ StateInv /\ conf.module = 0 /\ conf' = conf /\ Slot' = Slot /\ counter' = counter
  BY OthersStay DEF BaseInv, Certain, Step, Add
<1>2. /\ l.at \in Slot /\ l.at <= l.token /\ umodule(l.at + 1) = l.at + 1
      /\ l.at \in Nat /\ l.token \in Nat /\ l.token \in Slot
  <2>1. l.at \in Slot /\ l.at <= l.token /\ umodule(l.at + 1) = l.at + 1
    BY <1>1, NextSlot
  <2> QED
    BY <1>1, <2>1, Remembered, Unwrapped
<1>3. pc[c] = "add" /\ l.value \in Master /\ Announced(c)
  BY <1>1, Remembered DEF Add, AnnounceInv, Announced
<1>4. /\ my'[c].token = l.token /\ my'[c].value = l.value
      /\ \/ slot[l.at] # Absent /\ pc'[c] = "get" /\ slot' = slot /\ my'[c].at = l.at
         \/ /\ slot[l.at] = Absent /\ my'[c].at = l.at + 1
            /\ slot' = [slot EXCEPT ![l.at] = r] /\ pc'[c] = "add"
  BY <1>1, <1>2, <1>3, ConstantsAssumption, AddOutcome
<1>5. \A d \in Client \ {c} : pc'[d] = pc[d] /\ my'[d] = my[d] /\ my[d].token \in Slot
  BY <1>1, OthersStay, Remembered DEF Step
<1>6. r # Absent /\ r.marker = "running"
  BY Markers
<1> HIDE DEF r
<1>7. CASE slot' = slot
  <2>1. ASSUME NEW d \in Client, d # c PROVE Announced(d)'
    BY <1>1, <1>5, <1>7, <2>1, StillAnnounced DEF AnnounceInv
  <2>2. Announced(c)'
    <3>1. pc'[c] = "get" /\ slot[l.at] # Absent /\ my'[c].at = l.at
      <4>1. slot[l.at] = Absent => slot'[l.at] = r
        BY <1>1, <1>2, <1>4 DEF TypeOK
      <4> QED
        BY <1>4, <1>6, <1>7, <4>1
    <3> QED
      BY <1>3, <1>4, <1>7, <3>1 DEF Announced, Announcing, Writing
  <2> QED
    BY <1>1, <1>7, <2>1, <2>2 DEF AnnounceInv
<1>8. CASE slot' # slot
  <2>1. /\ slot[l.at] = Absent /\ slot'[l.at] = r /\ pc'[c] = "add" /\ my'[c].at = l.at + 1
        /\ \A k \in Slot : k # l.at => slot'[k] = slot[k]
    BY <1>1, <1>2, <1>4, <1>8 DEF TypeOK
  <2>2. ASSUME NEW d \in Client, d # c PROVE Announced(d)'
    <3>1. \/ slot'[my[d].token] = slot[my[d].token]
          \/ slot[my[d].token] = Absent /\ slot'[my[d].token].marker # "executed"
      BY <1>5, <1>6, <2>1, <2>2
    <3>2. pc[d] = "get" => my[d].at \in Slot
      <4>1. pc[d] = "get" => 0 <= my[d].at /\ my[d].at <= my[d].token
        BY DEF WindowInv
      <4>2. my[d].at \in Int /\ my[d].token \in Slot /\ my[d].token \in Nat
            /\ Slot = 0 .. conf.maxWrites - 1 /\ conf.maxWrites \in Nat
        BY <1>1, Remembered, Unwrapped, ConfType
      <4> QED
        BY <4>1, <4>2
    <3>3. pc[d] = "get" /\ slot[my[d].at] # Absent => slot'[my[d].at] # Absent
      BY <1>6, <2>1, <3>2
    <3> QED
      BY <1>1, <1>5, <2>2, <3>1, <3>3, StillAnnounced DEF AnnounceInv
  <2>3. Announced(c)'
    <3>1. slot'[l.token].marker # "executed"
      BY <1>2, <1>3, <1>6, <2>1 DEF Announced, Announcing
    <3>2. l.at + 1 = l.token + 1 => slot'[l.token] = r
      BY <1>2, <2>1
    <3> QED
      BY <1>3, <1>4, <2>1, <3>1, <3>2, ConstantsAssumption DEF Announced, Announcing, Writing, r
  <2>4. \A k \in Slot : \/ slot'[k] = Absent
                        \/ \E m \in Master : slot'[k] = Plain("running", m)
                        \/ slot'[k].marker = "executed" /\ slot'[k].host # NoHost /\ k < counter
    BY <1>3, <2>1 DEF AnnounceInv, r
  <2> QED
    BY <1>1, <2>2, <2>3, <2>4 DEF AnnounceInv
<1> QED
  BY <1>7, <1>8

(* AnnounceInv is kept when the announced master is followed.              *)
LEMMA AnnounceGet ==
  ASSUME BaseInv, Certain, WindowInv, AnnounceInv, NEW c \in Client, Get(c)
  PROVE  AnnounceInv'
<1> DEFINE l == my[c]
<1>1. /\ TypeOK /\ StateInv /\ conf.module = 0 /\ conf' = conf /\ Slot' = Slot
      /\ counter' = counter /\ slot' = slot
  BY OthersStay DEF BaseInv, Certain, Step, Get
<1>2. /\ l.at \in Slot /\ l.at <= l.token /\ umodule(l.at + 1) = l.at + 1
      /\ l.at \in Nat /\ l.token \in Nat
  <2>1. l.at \in Slot /\ l.at <= l.token /\ umodule(l.at + 1) = l.at + 1
    BY <1>1, NextSlot
  <2> QED
    BY <1>1, <2>1, Remembered, Unwrapped
<1>3. pc[c] = "get" /\ slot[l.at] # Absent /\ slot[l.token].marker # "executed"
  BY DEF Get, AnnounceInv, Announced, Announcing
<1>4. /\ Readable(l.at) /\ slot[l.at].host \in Master
      /\ slot[l.at].marker # "executed" => slot[l.at] = Plain("running", slot[l.at].host)
  BY <1>1, <1>2, <1>3, Taken
<1>5. /\ pc'[c] = "add" /\ my'[c].token = l.token /\ my'[c].at = l.at + 1
      /\ my'[c].value = slot[l.at].host
  BY <1>1, <1>2, <1>4, GetOutcome
<1>6. Announced(c)'
  <2>1. l.at + 1 = l.token + 1 => l.at = l.token
    BY <1>2
  <2>2. l.at + 1 = l.token + 1 => slot[l.token] = Plain("running", slot[l.at].host)
    BY <1>3, <1>4, <2>1
  <2> QED
    BY <1>1, <1>3, <1>4, <1>5, <2>2, ConstantsAssumption DEF Announced, Announcing, Writing
<1>7. ASSUME NEW d \in Client, d # c PROVE Announced(d)'
  <2>1. pc'[d] = pc[d] /\ my'[d] = my[d]
    BY <1>1, <1>7, OthersStay DEF Step
  <2> QED
    BY <1>1, <2>1, StillAnnounced DEF AnnounceInv
<1> QED
  BY <1>1, <1>6, <1>7 DEF AnnounceInv

(* AnnounceInv is kept by a write that runs, on the announced master.      *)
LEMMA AnnounceRun ==
  ASSUME BaseInv, Certain, WindowInv, AnnounceInv, NEW c \in Client,
         Switch(c) \/ Commit(c) \/ Fail(c) \/ Crash(c)
  PROVE  AnnounceInv'
<1> DEFINE l == my[c]
<1>1. /\ TypeOK /\ StateInv /\ conf.module = 0 /\ conf' = conf /\ Slot' = Slot /\ Undisturbed
      /\ counter' = counter /\ slot' = slot
  BY OthersStay DEF BaseInv, Certain, Step, Switch, Commit, Fail, Crash
<1>2. Announced(c)'
  <2>1. CASE Switch(c)
    <3>1. l.token \in Nat /\ umodule(l.token + 1) = l.token + 1
      <4>1. l.token \in Nat /\ l.token + 1 \in Int
        BY <1>1, Remembered
      <4> QED
        BY <1>1, <4>1, Unwrapped
    <3>2. pc[c] = "add" /\ l.at = l.token + 1 /\ l.value \in Master
      BY <1>1, <2>1, <3>1, Remembered DEF Switch, EndSlot, AnnounceInv, Announced
    <3>3. pc'[c] = "run" /\ my'[c].token = l.token /\ my'[c].conn = l.value
      <4>1. Reach = {Master}
        BY <1>1 DEF Reach, Undisturbed
      <4> QED
        BY <1>1, <2>1, <3>2, <4>1, SwitchOutcome
    <3> QED
      BY <1>1, <3>2, <3>3 DEF AnnounceInv, Announced, Announcing, Writing
  <2>2. CASE Commit(c)
    <3>1. pc[c] = "run" /\ pc'[c] = "mark" /\ my'[c].token = l.token /\ my'[c].conn = l.conn
      BY <1>1, <2>2, CommitOutcome DEF Undisturbed
    <3> QED
      BY <1>1, <3>1 DEF AnnounceInv, Announced, Announcing, Writing
  <2>3. CASE Fail(c)
    BY <1>1, <2>3 DEF Fail, Goto, AnnounceInv, Announced, Announcing, Writing, TypeOK
  <2>4. CASE Crash(c)
    BY <1>1, <2>4 DEF Crash, Goto, Announced, Announcing, Writing, TypeOK
  <2> QED
    BY <2>1, <2>2, <2>3, <2>4
<1>3. ASSUME NEW d \in Client, d # c PROVE Announced(d)'
  <2>1. pc'[d] = pc[d] /\ my'[d] = my[d]
    BY <1>1, <1>3, OthersStay DEF Step
  <2> QED
    BY <1>1, <2>1, StillAnnounced DEF AnnounceInv
<1> QED
  BY <1>1, <1>2, <1>3 DEF AnnounceInv

(* AnnounceInv is kept when a token is closed.                             *)
LEMMA AnnounceClose ==
  ASSUME BaseInv, Certain, WindowInv, AnnounceInv, NEW c \in Client, SetLastWrite(c) \/ Clean(c)
  PROVE  AnnounceInv'
<1> DEFINE l == my[c]
<1>1. /\ TypeOK /\ StateInv /\ TokenInv /\ conf.module = 0 /\ conf' = conf /\ Slot' = Slot
      /\ counter' = counter /\ Spaced
  BY OthersStay DEF BaseInv, Certain, Step, SetLastWrite, Clean, Executed, Spaced
<1>2. l.token \in Slot /\ l.token < counter /\ l.conn # NoHost /\ Busy(c)
  BY <1>1, Remembered DEF TokenInv, Busy, SetLastWrite, Clean, StateInv, Writing
<1>3. /\ pc'[c] \in {"idle", "delete"} /\ (pc'[c] = "delete" => conf.autoClean) /\ my' = my
      /\ \A k \in Slot : k # l.token => slot'[k] = slot[k]
      /\ slot'[l.token].marker = "executed" /\ slot'[l.token].host = l.conn
  <2>1. slot[l.token] # Absent
    BY Markers DEF AnnounceInv, Announced, Writing, SetLastWrite, Clean
  <2> QED
    BY <1>1, <2>1, ExecutedOutcome
<1>4. ASSUME NEW d \in Client, d # c PROVE Announced(d)'
  <2>1. pc'[d] = pc[d] /\ my'[d] = my[d] /\ my[d].token \in Slot
    BY <1>1, <1>4, OthersStay, Remembered DEF Step
  <2>2. Busy(d) => my[d].token # l.token
    BY <1>1, <1>2, <1>4 DEF TokenInv, TokensDiffer, Busy
  <2>3. pc[d] = "get" => my[d].at \in Slot
    <3>1. pc[d] = "get" => 0 <= my[d].at /\ my[d].at <= my[d].token
      BY DEF WindowInv
    <3>2. my[d].at \in Int /\ my[d].token \in Slot /\ my[d].token \in Nat
          /\ Slot = 0 .. conf.maxWrites - 1 /\ conf.maxWrites \in Nat
      BY <1>1, Remembered, Unwrapped, ConfType
    <3> QED
      BY <3>1, <3>2
  <2>4. pc[d] = "get" /\ slot[my[d].at] # Absent => slot'[my[d].at] # Absent
    BY <1>3, <2>3, Markers
  <2> QED
    BY <1>1, <1>3, <2>1, <2>2, <2>4, StillAnnounced DEF AnnounceInv, Announced, Busy, Announcing, Writing
<1>5. Announced(c)'
  BY <1>1, <1>3 DEF Announced, Announcing, Writing
<1> QED
  BY <1>1, <1>2, <1>3, <1>4, <1>5 DEF AnnounceInv

(* AnnounceInv is kept when an old token is deleted: it is out of reach of *)
(* everyone who is at work.                                                *)
LEMMA AnnounceDelete ==
  ASSUME BaseInv, Certain, WindowInv, AnnounceInv, Waiting => FollowInv, NEW c \in Client, Delete(c)
  PROVE  AnnounceInv'
<1> DEFINE old == my[c].token - 2 * conf.depth
<1>1. /\ TypeOK /\ StateInv /\ TokenInv /\ conf.module = 0 /\ conf' = conf /\ Slot' = Slot
      /\ counter' = counter /\ counter \in Nat /\ conf.depth \in Nat \ {0}
  BY OthersStay, Unwrapped DEF BaseInv, Certain, Step, Delete
<1>2. pc[c] = "delete" /\ conf.autoClean /\ Waiting /\ FollowInv
  BY DEF Delete, AnnounceInv, Announced, Certain, Kept, Waiting
<1>3. \A d \in Client : my[d].token \in Nat /\ my[d].at \in Int
  BY <1>1, Remembered
<1>4. my[c].token < counter /\ old \in Int /\ umodule(old) = old
  <2>1. my[c].token < counter
    BY <1>1, <1>2 DEF TokenInv, Busy
  <2>2. old \in Int
    BY <1>1, <1>3
  <2> QED
    BY <1>1, <2>1, <2>2, Unwrapped
<1>5. /\ pc'[c] = "idle" /\ my' = my
      /\ \A k \in Slot : slot'[k] = slot[k] \/ (slot'[k] = Absent /\ k = old)
  <2>1. /\ pc'[c] = "idle" /\ my' = my
        /\ \A k \in Slot : slot'[k] = slot[k] \/ (slot'[k] = Absent /\ k = umodule(old))
    BY <1>1, DeleteOutcome
  <2> HIDE DEF old
  <2> QED
    BY <1>4, <2>1
<1>6. ASSUME NEW d \in Client, Busy(d) PROVE my[d].token # old
  <2>1. PICK j \in 1 .. conf.depth + 1 : my[d].token = umodule(counter - j)
    BY <1>1, <1>2, <1>6 DEF TokenInv, Waiting
  <2>2. counter - j \in Int /\ umodule(counter - j) = counter - j
    <3>1. counter - j \in Int
      BY <1>1
    <3> QED
      BY <1>1, <3>1, Unwrapped
  <2> QED
    BY <1>1, <1>3, <1>4, <2>1, <2>2
<1>7. ASSUME NEW d \in Client, d # c PROVE Announced(d)'
  <2>1. pc'[d] = pc[d] /\ my'[d] = my[d] /\ my[d].token \in Slot
    BY <1>1, <1>7, OthersStay, Remembered DEF Step
  <2>2. pc[d] # "get"
    BY <1>2 DEF FollowInv, Fills
  <2>3. \/ ~Busy(d)
        \/ slot'[my[d].token] = slot[my[d].token]
    BY <1>5, <1>6, <2>1
  <2> QED
    BY <1>1, <2>1, <2>2, <2>3, StillAnnounced DEF AnnounceInv, Announced, Busy, Announcing, Writing
<1>8. Announced(c)'
  BY <1>5 DEF Announced, Announcing, Writing
<1> QED
  BY <1>1, <1>5, <1>7, <1>8 DEF AnnounceInv

(* AnnounceInv is kept by every step of a client.                          *)
LEMMA StepAnnounce ==
  ASSUME BaseInv, Certain, WindowInv, AnnounceInv, Waiting => FollowInv,
         NEW c \in Client, Step(c) \/ Crash(c)
  PROVE  AnnounceInv'
BY AnnounceBefore, AnnounceAdd, AnnounceGet, AnnounceRun, AnnounceClose, AnnounceDelete DEF Step
-----------------------------------------------------------------------------
(* Who is announced is followed, when clients wait for each other.         *)

(* What a client has seen last is a slot.                                  *)
LEMMA LastSeenIsSlot ==
  ASSUME TypeOK, conf.module = 0, WindowInv, NEW d \in Client, pc[d] = "read"
  PROVE  /\ my[d].at <= my[d].token
         /\ my[d].found => my[d].lastChk \in Slot /\ my[d].lastChk < my[d].at
<1>1. /\ my[d].at \in Int /\ my[d].token \in Slot /\ my[d].token \in Nat /\ my[d].lastChk \in Nat
      /\ Slot = 0 .. conf.maxWrites - 1 /\ conf.maxWrites \in Nat
  BY Remembered, Unwrapped, ConfType
<1>2. my[d].at <= my[d].token /\ (my[d].found => my[d].lastChk < my[d].at)
  BY DEF WindowInv
<1> QED
  BY <1>1, <1>2

(* The steps after the announcement do not disturb who is announcing.      *)
LEMMA StillFollowed ==
  ASSUME BaseInv, Certain, WindowInv, FollowInv, NEW c \in Client, Step(c) \/ Crash(c),
         counter' = counter, ~Announcing(c)',
         \A k \in Slot : /\ slot'[k] = Absent <=> slot[k] = Absent
                         /\ slot'[k].host = slot[k].host,
         Writing(c)' => /\ my'[c].token = my[c].token
                        /\ Writing(c) => my'[c].conn = my[c].conn
                        /\ Writing(c) \/ Announcing(c),
         Followed(c)'
  PROVE  FollowInv'
<1>1. /\ TypeOK /\ conf.module = 0 /\ conf' = conf /\ Slot' = Slot /\ Absent' = Absent
      /\ \A d \in Client \ {c} : pc'[d] = pc[d] /\ my'[d] = my[d]
  BY OthersStay DEF BaseInv, Certain, Absent, Plain
<1>2. \A d \in Client : my[d].token \in Slot
  BY <1>1, Remembered
<1>3. NoGaps'
  BY <1>1 DEF FollowInv, NoGaps
<1>4. ASSUME NEW d \in Client, d # c PROVE OnlyOne(d)' /\ Followed(d)'
  <2>1. OnlyOne(d)'
    BY <1>1, <1>4 DEF FollowInv, OnlyOne, Announcing
  <2>2. Followed(d)'
    BY <1>1, <1>4 DEF FollowInv, Followed, Writing
  <2> QED
    BY <2>1, <2>2
<1>5. ASSUME NEW d \in Client, d # c, Announcing(d), NEW e \in Client, Writing(e)'
      PROVE  Writing(e) /\ my'[e].token = my[e].token /\ my'[e].conn = my[e].conn
  BY <1>1, <1>5 DEF FollowInv, OnlyOne, Writing
<1>6. ASSUME NEW d \in Client, d # c PROVE HasSeen(d)'
  <2> SUFFICES ASSUME pc[d] = "read" PROVE HasSeen(d)'
    BY <1>1, <1>6 DEF HasSeen
  <2>1. pc'[d] = "read" /\ my'[d] = my[d] /\ Announcing(d)
    BY <1>1, <1>6 DEF Announcing
  <2>2. slot'[my[d].token] = Absent
    BY <1>2 DEF FollowInv, HasSeen
  <2>3. my[d].found => slot'[my[d].lastChk] # Absent
    BY <1>1, LastSeenIsSlot DEF FollowInv, HasSeen
  <2>4. \A k \in Slot : /\ k < my[d].at /\ my[d].token - conf.depth - 1 <= k
                        /\ my[d].found => my[d].lastChk < k
                        => slot'[k] = Absent
    BY DEF FollowInv, HasSeen
  <2>5. \A e \in Client : Writing(e)' /\ my'[e].token < my[d].at => my[d].running = my'[e].conn
    BY <1>5, <1>6, <2>1 DEF FollowInv, HasSeen
  <2> QED
    BY <1>1, <2>1, <2>2, <2>3, <2>4, <2>5 DEF HasSeen
<1>7. ASSUME NEW d \in Client, d # c PROVE Fills(d)'
  <2>1. pc'[d] = pc[d] /\ my'[d] = my[d] /\ pc[d] # "get"
    BY <1>1, <1>7 DEF FollowInv, Fills
  <2> SUFFICES ASSUME pc[d] = "add" PROVE Fills(d)'
    BY <2>1 DEF Fills
  <2>2. /\ \A k \in Slot : my[d].at <= k => slot'[k] = Absent
        /\ \A i, j \in Slot :
            my[d].token - conf.depth - 1 <= i /\ i < j /\ j < my[d].at /\ slot'[i] # Absent
              => slot'[j] # Absent
    BY DEF FollowInv, Fills
  <2>3. \A e \in Client : Writing(e)' => my[d].value = my'[e].conn
    BY <1>5, <1>7 DEF FollowInv, Fills, Announcing
  <2> QED
    BY <1>1, <2>1, <2>2, <2>3 DEF Fills
<1>8. OnlyOne(c)' /\ HasSeen(c)' /\ Fills(c)'
  BY DEF OnlyOne, HasSeen, Fills, Announcing
<1> QED
  BY <1>3, <1>4, <1>6, <1>7, <1>8 DEF FollowInv

(* FollowInv is kept by a write that runs.                                 *)
LEMMA FollowRun ==
  ASSUME BaseInv, Certain, WindowInv, AnnounceInv, FollowInv, NEW c \in Client,
         Switch(c) \/ Commit(c) \/ Fail(c) \/ Crash(c)
  PROVE  FollowInv'
<1> DEFINE l == my[c]
<1>1. /\ TypeOK /\ StateInv /\ conf.module = 0 /\ conf' = conf /\ Undisturbed
      /\ counter' = counter /\ slot' = slot /\ Slot' = Slot
  BY OthersStay DEF BaseInv, Certain, Step, Switch, Commit, Fail, Crash
<1>2. CASE Switch(c)
  <2>1. l.token \in Nat /\ umodule(l.token + 1) = l.token + 1
    <3>1. l.token \in Nat /\ l.token + 1 \in Int
      BY <1>1, Remembered
    <3> QED
      BY <1>1, <3>1, Unwrapped
  <2>2. pc[c] = "add" /\ l.at = l.token + 1 /\ pc'[c] = "run" /\ my'[c].token = l.token
    BY <1>1, <1>2, <2>1, SwitchOutcome DEF EndSlot
  <2>3. \A k \in Slot : l.token < k => slot[k] = Absent
    <3> SUFFICES ASSUME NEW k \in Slot, l.token < k PROVE slot[k] = Absent
      OBVIOUS
    <3>1. k \in Nat
      BY <1>1, Unwrapped
    <3>2. l.at <= k
      BY <2>1, <2>2, <3>1
    <3> QED
      BY <2>2, <3>2 DEF FollowInv, Fills
  <2>4. Followed(c)'
    BY <1>1, <2>2, <2>3 DEF Followed, Absent, Plain
  <2> QED
    BY <1>1, <1>2, <2>2, <2>4, StillFollowed DEF Step, Announcing, Writing
<1>3. CASE Commit(c)
  <2>1. pc[c] = "run" /\ pc'[c] \in {"mark", "clean"} /\ my'[c].token = l.token /\ my'[c].conn = l.conn
    BY <1>1, <1>3, CommitOutcome
  <2>2. Followed(c)'
    BY <1>1, <2>1 DEF FollowInv, Followed, Writing, Absent, Plain
  <2> QED
    BY <1>1, <1>3, <2>1, <2>2, StillFollowed DEF Step, Announcing, Writing
<1>4. CASE Fail(c) \/ Crash(c)
  <2>1. /\ my' = my /\ pc'[c] \in {"clean", "gone"} /\ (pc'[c] = "clean" => pc[c] = "run")
    BY <1>1, <1>4 DEF Fail, Crash, Goto, TypeOK
  <2>2. Followed(c)'
    BY <1>1, <2>1 DEF FollowInv, Followed, Writing, Absent, Plain
  <2> QED
    BY <1>1, <1>4, <2>1, <2>2, StillFollowed DEF Step, Announcing, Writing
<1> QED
  BY <1>2, <1>3, <1>4

(* FollowInv is kept when a token is closed: the slot stays taken.         *)
LEMMA FollowClose ==
  ASSUME BaseInv, Certain, WindowInv, AnnounceInv, FollowInv, NEW c \in Client,
         SetLastWrite(c) \/ Clean(c)
  PROVE  FollowInv'
<1> DEFINE l == my[c]
<1>1. /\ TypeOK /\ conf.module = 0 /\ counter' = counter /\ l.token \in Slot
  BY Remembered DEF BaseInv, Certain, SetLastWrite, Clean, Executed
<1>2. slot[l.token] = Plain("running", l.conn)
  BY DEF AnnounceInv, Announced, Writing, SetLastWrite, Clean
<1>3. /\ pc'[c] \in {"idle", "delete"}
      /\ \A k \in Slot : k # l.token => slot'[k] = slot[k]
      /\ slot'[l.token].marker = "executed" /\ slot'[l.token].host = l.conn
  BY <1>1, <1>2, Markers, ExecutedOutcome
<1>4. \A k \in Slot : (slot'[k] = Absent <=> slot[k] = Absent) /\ slot'[k].host = slot[k].host
  BY <1>2, <1>3, Markers
<1> QED
  BY <1>1, <1>3, <1>4, StillFollowed DEF Step, Announcing, Writing, Followed

(* FollowInv is kept when an old token is deleted: the slot lies before    *)
(* the window of whoever reads.                                            *)
LEMMA FollowDelete ==
  ASSUME BaseInv, Certain, Waiting, WindowInv, AnnounceInv, FollowInv, NEW c \in Client, Delete(c)
  PROVE  FollowInv'
<1> DEFINE old == my[c].token - 2 * conf.depth
<1>1. /\ TypeOK /\ TokenInv /\ TokensDiffer /\ conf.module = 0 /\ conf' = conf
      /\ Slot' = Slot /\ Absent' = Absent /\ counter' = counter /\ counter \in Nat
      /\ conf.depth \in Nat \ {0} /\ Slot \subseteq Nat
      /\ \A d \in Client \ {c} : pc'[d] = pc[d] /\ my'[d] = my[d]
  BY OthersStay, Unwrapped DEF BaseInv, Certain, Step, Delete, Absent, Plain, TokenInv, Spaced
<1>2. \A d \in Client : my[d].token \in Nat /\ my[d].token \in Slot /\ my[d].at \in Int
  BY <1>1, Remembered
<1>3. pc[c] = "delete" /\ my[c].token < counter /\ old \in Int /\ umodule(old) = old
  <2>1. pc[c] = "delete" /\ my[c].token < counter
    BY <1>1 DEF Delete, TokenInv, Busy
  <2>2. old \in Int
    BY <1>1, <1>2
  <2> QED
    BY <1>1, <2>1, <2>2, Unwrapped
<1>4. /\ pc'[c] = "idle" /\ my' = my
      /\ \A k \in Slot : slot'[k] = slot[k] \/ (slot'[k] = Absent /\ k = old)
  <2>1. /\ pc'[c] = "idle" /\ my' = my
        /\ \A k \in Slot : slot'[k] = slot[k] \/ (slot'[k] = Absent /\ k = umodule(old))
    BY <1>1, DeleteOutcome
  <2> HIDE DEF old
  <2> QED
    BY <1>3, <2>1
<1>5. old < counter - conf.depth - 1
  BY <1>1, <1>2, <1>3
<1>6. ASSUME NEW d \in Client, Announcing(d)
      PROVE  d # c /\ my[d].token = counter - 1 /\ old < my[d].token - conf.depth - 1
  <2>1. d # c /\ my[d].token = counter - 1
    BY <1>3, <1>6 DEF FollowInv, OnlyOne, Announcing
  <2>2. my[d].token # my[c].token
    BY <1>1, <1>3, <1>6, <2>1 DEF TokensDiffer, Announcing
  <2>3. my[c].token < counter - 1
    BY <1>1, <1>2, <1>3, <2>1, <2>2
  <2> QED
    BY <1>1, <1>2, <2>1, <2>3
<1> HIDE DEF old
<1>7. ASSUME NEW n \in Int, old < n, NEW k \in Slot, n <= k PROVE slot'[k] = slot[k]
  <2>1. k # old /\ k \in Nat
    BY <1>1, <1>3, <1>7
  <2> QED
    BY <1>4, <2>1
<1>8. \A k \in Slot : slot'[k] # Absent => slot'[k] = slot[k]
  BY <1>4
<1>9. NoGaps'
  <2>1. \A k \in Slot : k >= counter => slot'[k] = Absent
    BY <1>8 DEF FollowInv, NoGaps
  <2>2. ASSUME NEW i \in Slot, NEW j \in Slot, NEW k \in Slot, counter - conf.depth - 2 <= i,
               i < j, j < k, slot'[i] # Absent, slot'[j] = Absent
        PROVE  slot'[k] = Absent
    <3>1. counter - conf.depth - 1 <= j /\ counter - conf.depth - 1 \in Int
      <4>1. i \in Nat /\ j \in Nat
        BY <1>1
      <4> QED
        BY <1>1, <2>2, <4>1
    <3>2. slot'[j] = slot[j]
      BY <1>5, <1>7, <3>1
    <3>3. slot[i] # Absent /\ slot[j] = Absent
      BY <1>8, <2>2, <3>2
    <3>4. slot[k] = Absent
      BY <2>2, <3>3 DEF FollowInv, NoGaps
    <3> QED
      BY <1>4, <3>4
  <2> QED
    BY <1>1, <2>1, <2>2 DEF NoGaps
<1>10. \A d \in Client : Announcing(d)' => Announcing(d) /\ d # c
  BY <1>1, <1>4, <1>6 DEF Announcing
<1>11. \A d \in Client : (Writing(d)' <=> Writing(d))
  BY <1>1, <1>3, <1>4 DEF Writing
<1>12. ASSUME NEW d \in Client PROVE OnlyOne(d)' /\ Followed(d)'
  <2>1. OnlyOne(d)'
    BY <1>1, <1>4, <1>10 DEF FollowInv, OnlyOne
  <2>2. Followed(d)'
    BY <1>1, <1>4, <1>8, <1>11 DEF FollowInv, Followed
  <2> QED
    BY <2>1, <2>2
<1>13. ASSUME NEW d \in Client PROVE HasSeen(d)'
  <2> SUFFICES ASSUME pc'[d] = "read" PROVE HasSeen(d)'
    BY DEF HasSeen
  <2>1. Announcing(d) /\ d # c /\ pc[d] = "read"
    BY <1>1, <1>10 DEF Announcing
  <2>2. /\ my[d].token = counter - 1 /\ old < my[d].token - conf.depth - 1
        /\ my[d].token - conf.depth - 1 \in Int
    BY <1>1, <1>2, <1>6, <2>1
  <2>3. slot'[my[d].token] = Absent
    BY <1>2, <1>4, <2>1 DEF FollowInv, HasSeen
  <2>4. my[d].found => slot'[my[d].lastChk] # Absent
    <3>1. my[d].found => my[d].lastChk \in Slot /\ my[d].token - conf.depth - 1 <= my[d].lastChk
      BY <1>1, <2>1, LastSeenIsSlot DEF WindowInv
    <3>2. my[d].found => slot[my[d].lastChk] # Absent
      BY <2>1 DEF FollowInv, HasSeen
    <3> QED
      BY <1>7, <2>2, <3>1, <3>2
  <2>5. \A k \in Slot : /\ k < my[d].at /\ my[d].token - conf.depth - 1 <= k
                        /\ my[d].found => my[d].lastChk < k
                        => slot'[k] = Absent
    BY <1>4, <2>1 DEF FollowInv, HasSeen
  <2>6. \A e \in Client : Writing(e) /\ my[e].token < my[d].at => my[d].running = my[e].conn
    BY <2>1 DEF FollowInv, HasSeen
  <2> QED
    BY <1>1, <1>4, <1>11, <2>3, <2>4, <2>5, <2>6 DEF HasSeen
<1>14. ASSUME NEW d \in Client PROVE Fills(d)'
  <2>1. pc'[d] # "get"
    BY <1>1, <1>4 DEF FollowInv, Fills
  <2> SUFFICES ASSUME pc'[d] = "add" PROVE Fills(d)'
    BY <2>1 DEF Fills
  <2>2. Announcing(d) /\ d # c /\ pc[d] = "add"
    BY <1>1, <1>10 DEF Announcing
  <2>3. old < my[d].token - conf.depth - 1 /\ my[d].token - conf.depth - 1 \in Int
    BY <1>1, <1>2, <1>6, <2>2
  <2>4. \A k \in Slot : my[d].at <= k => slot'[k] = Absent
    BY <1>4, <2>2 DEF FollowInv, Fills
  <2>5. ASSUME NEW i \in Slot, NEW j \in Slot, my[d].token - conf.depth - 1 <= i,
               i < j, j < my[d].at, slot'[i] # Absent
        PROVE  slot'[j] # Absent
    <3>1. i \in Nat /\ j \in Nat /\ my[d].token - conf.depth - 1 <= j
      BY <1>1, <1>2, <2>5
    <3>2. slot'[j] = slot[j]
      BY <1>7, <2>3, <3>1
    <3>3. slot[i] # Absent
      BY <1>8, <2>5
    <3> QED
      BY <2>2, <2>5, <3>2, <3>3 DEF FollowInv, Fills
  <2>6. \A e \in Client : Writing(e) => my[d].value = my[e].conn
    BY <2>2 DEF FollowInv, Fills
  <2> QED
    BY <1>1, <1>4, <1>11, <2>1, <2>4, <2>5, <2>6 DEF Fills
<1> QED
  BY <1>9, <1>12, <1>13, <1>14 DEF FollowInv

(* FollowInv is kept when a token is taken: nobody else is announcing, and *)
(* whoever writes has a token of the window.                               *)
LEMMA FollowStart ==
  ASSUME BaseInv, Certain, Waiting, WindowInv, AnnounceInv, FollowInv, NEW c \in Client, Start(c)
  PROVE  FollowInv'
<1>1. /\ TypeOK /\ conf.module = 0 /\ conf' = conf /\ slot' = slot
      /\ Slot' = Slot /\ Absent' = Absent /\ counter' = counter + 1 /\ counter \in Nat
      /\ conf.depth \in Nat \ {0} /\ Slot \subseteq Nat
      /\ \A d \in Client \ {c} : pc'[d] = pc[d] /\ my'[d] = my[d]
  BY OthersStay, Unwrapped DEF BaseInv, Certain, Step, Start, Absent, Plain
<1>2. /\ my'[c].token = counter /\ my'[c].found = FALSE /\ pc'[c] = "read"
      /\ my'[c].at = counter - (IF counter < conf.depth THEN counter ELSE conf.depth + 1)
  <2>1. umodule(counter) = counter
    BY <1>1, Unwrapped
  <2> QED
    BY <1>1, <2>1, StartOutcome
<1>3. counter \in Slot
  BY <1>1, ConfType DEF Start, Slot
<1>4. ASSUME NEW d \in Client, Busy(d) PROVE ~Announcing(d) /\ counter - conf.depth <= my[d].token
  <2>1. ~Announcing(d) /\ umodule(counter - my[d].token) <= conf.depth
    BY <1>4 DEF Start, Waiting, Busy, Announcing
  <2>2. my[d].token \in Nat /\ counter - my[d].token \in Int
    BY <1>1, Remembered
  <2>3. umodule(counter - my[d].token) = counter - my[d].token
    BY <1>1, <2>2, Unwrapped
  <2> QED
    BY <1>1, <2>1, <2>2, <2>3
<1>5. \A d \in Client : (Announcing(d)' => d = c) /\ (Writing(d)' => Writing(d) /\ d # c)
  BY <1>1, <1>2, <1>4 DEF Announcing, Writing, Busy
<1>6. NoGaps'
  <2>1. ASSUME NEW k \in Slot, k >= counter + 1 PROVE slot[k] = Absent
    <3>1. k >= counter
      BY <1>1, <2>1
    <3> QED
      BY <3>1 DEF FollowInv, NoGaps
  <2>2. ASSUME NEW i \in Slot, NEW j \in Slot, NEW k \in Slot, counter + 1 - conf.depth - 2 <= i,
               i < j, j < k, slot[i] # Absent, slot[j] = Absent
        PROVE  slot[k] = Absent
    <3>1. counter - conf.depth - 2 <= i
      BY <1>1, <2>2
    <3> QED
      BY <2>2, <3>1 DEF FollowInv, NoGaps
  <2> QED
    BY <1>1, <2>1, <2>2 DEF NoGaps
<1>7. \A d \in Client : OnlyOne(d)'
  BY <1>1, <1>2, <1>5 DEF OnlyOne
<1>8. \A d \in Client : Followed(d)' /\ Fills(d)'
  BY <1>1, <1>2, <1>5 DEF FollowInv, Followed, Fills, Announcing
<1>9. HasSeen(c)'
  <2>1. slot[counter] = Absent
    BY <1>1, <1>3 DEF FollowInv, NoGaps
  <2>2. \A k \in Slot : ~(k < my'[c].at /\ my'[c].token - conf.depth - 1 <= k)
    BY <1>1, <1>2
  <2>3. ASSUME NEW d \in Client, Writing(d), my[d].token < my'[c].at PROVE FALSE
    <3>1. Busy(d) /\ my[d].token \in Nat
      BY <1>1, <2>3, Remembered DEF Writing, Busy
    <3> QED
      BY <1>1, <1>2, <1>4, <2>3, <3>1
  <2> QED
    BY <1>1, <1>2, <1>5, <2>1, <2>2, <2>3 DEF HasSeen
<1>10. \A d \in Client \ {c} : HasSeen(d)'
  BY <1>5 DEF HasSeen, Announcing
<1> QED
  BY <1>6, <1>7, <1>8, <1>9, <1>10 DEF FollowInv

(* FollowInv is kept when a slot is read: what is skipped was not taken.   *)
LEMMA FollowRead ==
  ASSUME BaseInv, Certain, Waiting, WindowInv, AnnounceInv, FollowInv, NEW c \in Client, Read(c)
  PROVE  FollowInv'
<1> DEFINE l == my[c]
           h == my'[c]
<1>1. /\ TypeOK /\ conf.module = 0 /\ conf' = conf /\ slot' = slot
      /\ Slot' = Slot /\ Absent' = Absent /\ counter' = counter /\ counter \in Nat
      /\ conf.depth \in Nat \ {0} /\ Slot \subseteq Nat /\ pc' = pc
      /\ \A d \in Client \ {c} : my'[d] = my[d]
  BY OthersStay, Unwrapped DEF BaseInv, Certain, Step, Read, Absent, Plain
<1>2. /\ pc[c] = "read" /\ l.at < l.token /\ h.token = l.token
  BY <1>1, ReadOutcome
<1>3. /\ l.token \in Nat /\ l.token \in Slot /\ l.at \in Int /\ l.lastChk \in Nat /\ l.found \in BOOLEAN
      /\ l \in Local /\ umodule(l.at) = l.at
  <2>1. l.at \in Int
    BY <1>1, Remembered
  <2> QED
    BY <1>1, <2>1, Remembered, Unwrapped
<1>4. /\ l.token = counter - 1 /\ \A d \in Client : Announcing(d) => d = c
      /\ HasSeen(c)
  BY <1>2 DEF FollowInv, OnlyOne, Announcing
<1>5. \A d \in Client : (Writing(d)' <=> Writing(d)) /\ (Announcing(d)' <=> Announcing(d))
                        /\ (Writing(d) => d # c)
  BY <1>1, <1>2 DEF Writing, Announcing
<1>6. \A d \in Client : OnlyOne(d)' /\ Followed(d)' /\ Fills(d)'
  BY <1>1, <1>2, <1>4, <1>5 DEF FollowInv, OnlyOne, Followed, Fills
<1>7. NoGaps'
  BY <1>1 DEF FollowInv, NoGaps
<1>8. \A d \in Client \ {c} : HasSeen(d)'
  BY <1>1, <1>4 DEF HasSeen, Announcing
<1>9. \A d \in Client : Writing(d) => /\ slot[my[d].token] = Plain("running", my[d].conn)
                                      /\ my[d].token \in Slot /\ my[d].token \in Nat
  BY <1>1, Remembered DEF AnnounceInv, Announced
<1>10. l.found => /\ l.lastChk \in Slot /\ slot[l.lastChk] # Absent /\ l.lastChk < l.at
                  /\ l.token - conf.depth - 1 <= l.lastChk
  BY <1>1, <1>2, <1>4, LastSeenIsSlot DEF HasSeen, WindowInv
<1>11. HasSeen(c)'
  <2>1. slot'[h.token] = Absent
    BY <1>1, <1>2, <1>4 DEF HasSeen
  <2>2. CASE Readable(l.at)
    <3> DEFINE k == l.at
               v == slot[l.at]
    <3>1. h = Seen(l, k, v) /\ v \in Value /\ k \in Slot /\ v # Absent
      BY <1>1, <1>3, <2>2, ReadOutcome, Markers DEF Readable
    <3>2. /\ v.marker \in {"running", "executed"} /\ v.host \in Master
      BY <1>1, <3>1, Taken
    <3>3. /\ h.at = k + 1 /\ h.lastChk = k /\ h.found = TRUE
          /\ v.marker = "running" => h.running = v.host
          /\ v.marker = "executed" => h.running = l.running
      <4>1. TypeOK /\ l \in Local /\ k \in Slot /\ v \in Value /\ h = Seen(l, k, v)
        BY <1>1, <1>3, <3>1
      <4> HIDE DEF l, h, v
      <4>2. Seen(l, k, v).at = l.at + 1
        BY <4>1, SeenPlace
      <4>3. Seen(l, k, v).lastChk = k /\ Seen(l, k, v).found = TRUE
        BY <4>1, SeenPlace
      <4>4. v.marker = "running" => Seen(l, k, v).running = v.host
        BY <4>1, SeenFields, ZenonT(30)
      <4>5. v.marker = "executed" => Seen(l, k, v).running = l.running
        BY <4>1, SeenFields, ZenonT(30)
      <4> QED
        BY <4>1, <4>2, <4>3, <4>4, <4>5
    <3>4. ASSUME NEW d \in Client, Writing(d), my[d].token < k + 1 PROVE h.running = my[d].conn
      <4>1. CASE my[d].token = k
        BY <1>9, <3>3, <3>4, <4>1, Markers
      <4>2. CASE my[d].token # k
        <5>1. my[d].token < k
          BY <1>3, <1>9, <3>4, <4>2
        <5>2. l.running = my[d].conn
          BY <1>4, <1>2, <3>4, <5>1 DEF HasSeen
        <5>3. v.host = my[d].conn
          BY <3>1, <3>4, <5>1 DEF FollowInv, Followed
        <5> QED
          BY <3>2, <3>3, <5>2, <5>3
      <4> QED
        BY <4>1, <4>2
    <3>5. \A i \in Slot : ~(i < h.at /\ h.lastChk < i)
      BY <1>1, <1>3, <3>3
    <3> QED
      BY <1>1, <1>5, <2>1, <3>1, <3>3, <3>4, <3>5 DEF HasSeen
  <2>3. CASE ~Readable(l.at)
    <3>1. /\ h.found = l.found /\ h.lastChk = l.lastChk /\ h.running = l.running
          /\ h.at = IF conf.useGet /\ l.found THEN l.token ELSE l.at + 1
      BY <1>1, <1>3, <2>3, ReadOutcome
    <3>2. l.at \in Slot => slot[l.at] = Absent
      BY <1>1, <2>3, Taken
    <3>3. ASSUME NEW k \in Slot, k < h.at, l.token - conf.depth - 1 <= k, l.found => l.lastChk < k
          PROVE  slot[k] = Absent
      <4>1. k \in Nat
        BY <1>1
      <4>2. CASE k < l.at
        BY <1>2, <1>4, <3>3, <4>2 DEF HasSeen
      <4>3. CASE k = l.at
        BY <3>2, <4>3
      <4>4. CASE l.at < k
        <5>1. l.found
          BY <1>3, <3>1, <3>3, <4>1, <4>4
        <5>2. l.at \in Slot
          <6>1. Slot = 0 .. conf.maxWrites - 1 /\ conf.maxWrites \in Nat
            BY <1>1, Unwrapped, ConfType
          <6>2. 0 <= l.at
            BY <1>3, <1>10, <5>1
          <6> QED
            BY <1>2, <1>3, <6>1, <6>2
        <5>3. counter - conf.depth - 2 <= l.lastChk
          BY <1>1, <1>3, <1>4, <1>10, <5>1
        <5> QED
          BY <1>10, <3>2, <4>4, <5>1, <5>2, <5>3 DEF FollowInv, NoGaps
      <4> QED
        BY <1>3, <4>1, <4>2, <4>3, <4>4
    <3>4. ASSUME NEW d \in Client, Writing(d), my[d].token < h.at PROVE l.running = my[d].conn
      <4>1. my[d].token \in Slot /\ my[d].token \in Nat /\ slot[my[d].token] # Absent
        BY <1>9, <3>4, Markers
      <4>2. CASE my[d].token < l.at
        BY <1>2, <1>4, <3>4, <4>2 DEF HasSeen
      <4>3. CASE ~(my[d].token < l.at)
        <5>1. my[d].token # l.at
          BY <3>2, <4>1
        <5>2. l.at < my[d].token
          BY <1>3, <4>1, <4>3, <5>1
        <5>3. ~(l.token - conf.depth - 1 <= my[d].token /\ (l.found => l.lastChk < my[d].token))
          BY <3>3, <3>4, <4>1
        <5>4. l.token - conf.depth - 1 <= l.at
          BY <1>2 DEF WindowInv
        <5> QED
          BY <1>1, <1>3, <1>10, <4>1, <5>2, <5>3, <5>4
      <4> QED
        BY <4>2, <4>3
    <3> QED
      BY <1>1, <1>2, <1>5, <1>10, <2>1, <3>1, <3>3, <3>4 DEF HasSeen
  <2> QED
    BY <2>2, <2>3
<1> QED
  BY <1>6, <1>7, <1>8, <1>11 DEF FollowInv

(* FollowInv is kept when a master is chosen: it is the one of whoever     *)
(* writes, and no slot after the last one seen is taken.                   *)
LEMMA FollowChoose ==
  ASSUME BaseInv, Certain, Waiting, WindowInv, AnnounceInv, FollowInv, NEW c \in Client, Choose(c)
  PROVE  FollowInv'
<1> DEFINE l == my[c]
           h == my'[c]
<1>1. /\ TypeOK /\ StateInv /\ TokenInv /\ TokensDiffer /\ conf.module = 0 /\ conf' = conf
      /\ slot' = slot /\ Undisturbed
      /\ Slot' = Slot /\ Absent' = Absent /\ counter' = counter /\ counter \in Nat
      /\ conf.depth \in Nat \ {0} /\ Slot \subseteq Nat
      /\ \A d \in Client \ {c} : pc'[d] = pc[d] /\ my'[d] = my[d]
  BY OthersStay, Unwrapped DEF BaseInv, Certain, Step, Choose, Absent, Plain, TokenInv, Spaced
<1>2. /\ l.token \in Nat /\ l.token \in Slot /\ l.lastChk \in Nat /\ l.found \in BOOLEAN
      /\ l \in Local
  BY <1>1, Remembered
<1>3. pc[c] = "read" /\ l.at = l.token /\ pc'[c] = "add" /\ h.token = l.token
  BY <1>1, ChooseOutcome, AlwaysChosen
<1>4. h.at = IF l.found THEN l.lastChk + 1 ELSE IF l.token > 0 THEN l.token - 1 ELSE 0
  <2>1. /\ EndSlot(l) = l.token + 1 /\ FirstSlot(l) \in Nat /\ FirstSlot(l) <= l.token
        /\ FirstSlot(l) = IF l.found THEN l.lastChk + 1 ELSE IF l.token > 0 THEN l.token - 1 ELSE 0
    BY <1>1, <1>3, FirstInWindow
  <2>2. h.at = IF FirstSlot(l) < EndSlot(l) THEN FirstSlot(l) ELSE EndSlot(l)
    BY <1>1, AlwaysChosen
  <2> HIDE DEF l, h
  <2>3. h.at = FirstSlot(l)
    BY <1>2, <2>1, <2>2
  <2> QED
    BY <2>1, <2>3
<1>5. /\ l.token = counter - 1 /\ \A d \in Client : Announcing(d) => d = c
      /\ HasSeen(c)
  BY <1>3 DEF FollowInv, OnlyOne, Announcing
<1>6. \A d \in Client : (Writing(d)' <=> Writing(d)) /\ (Announcing(d)' <=> Announcing(d))
                        /\ (Writing(d) => d # c)
  BY <1>1, <1>3 DEF Writing, Announcing
<1>7. \A d \in Client : OnlyOne(d)' /\ Followed(d)' /\ HasSeen(d)'
  BY <1>1, <1>3, <1>5, <1>6 DEF FollowInv, OnlyOne, Followed, HasSeen, Announcing
<1>8. NoGaps'
  BY <1>1 DEF FollowInv, NoGaps
<1>9. \A d \in Client \ {c} : Fills(d)'
  BY <1>1, <1>5 DEF FollowInv, Fills, Announcing
<1>10. l.found => /\ l.lastChk \in Slot /\ slot[l.lastChk] # Absent /\ l.lastChk < l.token
                  /\ l.token - conf.depth - 1 <= l.lastChk
  BY <1>1, <1>3, <1>5, LastSeenIsSlot DEF HasSeen, WindowInv
<1>11. ASSUME NEW k \in Slot, h.at <= k PROVE slot[k] = Absent
  <2>1. k \in Nat
    BY <1>1
  <2>2. CASE k = l.token
    BY <1>3, <1>5, <2>2 DEF HasSeen
  <2>3. CASE k > l.token
    <3>1. k >= counter
      BY <1>1, <1>2, <1>5, <2>1, <2>3
    <3> QED
      BY <3>1 DEF FollowInv, NoGaps
  <2>4. CASE k < l.token
    <3>1. /\ l.token - conf.depth - 1 <= k /\ (l.found => l.lastChk < k)
      BY <1>1, <1>2, <1>4, <1>10, <1>11, <2>1, <2>4
    <3> QED
      BY <1>3, <1>5, <2>4, <3>1 DEF HasSeen
  <2> QED
    BY <1>2, <2>1, <2>2, <2>3, <2>4
<1>12. ASSUME NEW i \in Slot, NEW j \in Slot, l.token - conf.depth - 1 <= i, i < j, j < h.at,
              slot[i] # Absent
       PROVE  slot[j] # Absent
  <2>1. i \in Nat /\ j \in Nat
    BY <1>1
  <2>2. CASE l.found
    <3>1. j <= l.lastChk /\ counter - conf.depth - 2 <= i
      BY <1>1, <1>2, <1>4, <1>5, <1>12, <2>1, <2>2
    <3>2. CASE j = l.lastChk
      BY <1>10, <2>2, <3>2
    <3>3. CASE j # l.lastChk
      <4>1. j < l.lastChk
        BY <1>2, <2>1, <3>1, <3>3
      <4> QED
        BY <1>10, <1>12, <2>2, <3>1, <4>1 DEF FollowInv, NoGaps
    <3> QED
      BY <3>2, <3>3
  <2>3. CASE ~l.found
    <3>1. i < l.token
      BY <1>2, <1>4, <1>12, <2>1, <2>3
    <3>2. slot[i] = Absent
      BY <1>3, <1>5, <1>12, <2>3, <3>1 DEF HasSeen
    <3> QED
      BY <1>12, <3>2
  <2> QED
    BY <2>2, <2>3
<1>13. ASSUME NEW d \in Client, Writing(d) PROVE h.value = my[d].conn
  <2>1. my[d].token < counter /\ my[d].token \in Nat /\ my[d].token # l.token
    BY <1>1, <1>3, <1>6, <1>13, Remembered DEF TokenInv, TokensDiffer, Busy, Writing
  <2>2. my[d].token < l.at
    BY <1>1, <1>2, <1>3, <1>5, <2>1
  <2>3. l.running = my[d].conn /\ my[d].conn # NoHost
    BY <1>1, <1>3, <1>5, <1>13, <2>2 DEF HasSeen, StateInv
  <2>4. Selected(l, Master) = {l.running}
    BY <1>1, <1>2, <2>3, SomeMaster
  <2> QED
    BY <1>1, <2>3, <2>4, AlwaysChosen
<1>14. Fills(c)'
  BY <1>1, <1>3, <1>6, <1>11, <1>12, <1>13 DEF Fills
<1> QED
  BY <1>7, <1>8, <1>9, <1>14 DEF FollowInv

(* FollowInv is kept when a slot is filled, always with the master of      *)
(* whoever writes.                                                         *)
LEMMA FollowAdd ==
  ASSUME BaseInv, Certain, Waiting, WindowInv, AnnounceInv, FollowInv, NEW c \in Client, Add(c)
  PROVE  FollowInv'
<1> DEFINE l == my[c]
           h == my'[c]
           r == Plain("running", l.value)
<1>1. /\ TypeOK /\ conf.module = 0 /\ conf' = conf
      /\ Slot' = Slot /\ Absent' = Absent /\ counter' = counter /\ counter \in Nat
      /\ conf.depth \in Nat \ {0} /\ Slot \subseteq Nat
      /\ \A d \in Client \ {c} : pc'[d] = pc[d] /\ my'[d] = my[d]
  BY OthersStay, Unwrapped DEF BaseInv, Certain, Step, Add, Absent, Plain
<1>2. /\ l.at \in Slot /\ l.at <= l.token /\ umodule(l.at + 1) = l.at + 1
      /\ l.at \in Nat /\ l.token \in Nat
  <2>1. l.at \in Slot /\ l.at <= l.token /\ umodule(l.at + 1) = l.at + 1
    BY <1>1, NextSlot
  <2> QED
    BY <1>1, <2>1, Remembered
<1>3. pc[c] = "add" /\ l.value # NoHost /\ Fills(c) /\ slot[l.at] = Absent
  <2>1. pc[c] = "add" /\ l.value # NoHost /\ Fills(c)
    BY DEF Add, AnnounceInv, Announced, FollowInv
  <2>2. l.at <= l.at
    BY <1>2
  <2> QED
    BY <1>2, <2>1, <2>2 DEF Fills
<1>4. /\ h.token = l.token /\ h.value = l.value /\ h.at = l.at + 1 /\ pc'[c] = "add"
      /\ slot'[l.at] = r /\ \A k \in Slot : k # l.at => slot'[k] = slot[k]
  <2>1. /\ h.token = l.token /\ h.value = l.value /\ h.at = l.at + 1 /\ pc'[c] = "add"
        /\ slot' = [slot EXCEPT ![l.at] = r]
    BY <1>1, <1>2, <1>3, AddOutcome
  <2> QED
    BY <1>1, <1>2, <2>1 DEF TypeOK
<1>5. r # Absent /\ r.host = l.value
  BY Markers
<1> HIDE DEF r
<1>6. l.token = counter - 1 /\ \A d \in Client : Announcing(d) => d = c
  BY <1>3 DEF FollowInv, OnlyOne, Announcing
<1>7. \A d \in Client : (Writing(d)' <=> Writing(d)) /\ (Announcing(d)' <=> Announcing(d))
                        /\ (Writing(d) => d # c)
  BY <1>1, <1>3, <1>4 DEF Writing, Announcing
<1>8. \A d \in Client : OnlyOne(d)' /\ HasSeen(d)'
  BY <1>1, <1>4, <1>6, <1>7 DEF FollowInv, OnlyOne, HasSeen, Announcing
<1>9. \A d \in Client \ {c} : Fills(d)'
  BY <1>1, <1>6 DEF FollowInv, Fills, Announcing
<1>10. ASSUME NEW d \in Client PROVE Followed(d)'
  <2> SUFFICES ASSUME Writing(d), NEW k \in Slot, my[d].token < k, slot'[k] # Absent
               PROVE  slot'[k].host = my[d].conn
    BY <1>1, <1>7 DEF Followed
  <2>1. CASE k = l.at
    BY <1>3, <1>4, <1>5, <2>1 DEF Fills
  <2>2. CASE k # l.at
    BY <1>4, <2>2 DEF FollowInv, Followed
  <2> QED
    BY <2>1, <2>2
<1>11. NoGaps'
  <2>1. ASSUME NEW k \in Slot, k >= counter PROVE slot'[k] = Absent
    <3>1. k # l.at
      BY <1>1, <1>2, <1>6, <2>1
    <3> QED
      BY <1>4, <2>1, <3>1 DEF FollowInv, NoGaps
  <2>2. ASSUME NEW i \in Slot, NEW j \in Slot, NEW k \in Slot, counter - conf.depth - 2 <= i,
               i < j, j < k, slot'[i] # Absent, slot'[j] = Absent
        PROVE  slot'[k] = Absent
    <3>1. i \in Nat /\ j \in Nat /\ k \in Nat /\ j # l.at /\ slot[j] = Absent
      BY <1>1, <1>4, <1>5, <2>2
    <3>2. CASE i = l.at
      <4>1. l.at <= k /\ k # l.at
        BY <2>2, <3>1, <3>2
      <4> QED
        BY <1>3, <1>4, <4>1 DEF Fills
    <3>3. CASE i # l.at /\ k = l.at
      <4>1. slot[i] # Absent /\ j < l.at /\ l.token - conf.depth - 1 <= i
        BY <1>1, <1>2, <1>4, <1>6, <2>2, <3>1, <3>3
      <4> QED
        BY <1>3, <2>2, <3>1, <4>1 DEF Fills
    <3>4. CASE i # l.at /\ k # l.at
      BY <1>4, <2>2, <3>1, <3>4 DEF FollowInv, NoGaps
    <3> QED
      BY <3>2, <3>3, <3>4
  <2>3. /\ \A k \in Slot : k >= counter => slot'[k] = Absent
        /\ \A i, j, k \in Slot :
             counter - conf.depth - 2 <= i /\ i < j /\ j < k /\ slot'[i] # Absent /\ slot'[j] = Absent
               => slot'[k] = Absent
    BY <2>1, <2>2
  <2>4. counter' = counter /\ conf' = conf /\ Slot' = Slot /\ Absent' = Absent
    BY <1>1
  <2> QED
    BY <2>3, <2>4 DEF NoGaps
<1>12. Fills(c)'
  <2>1. ASSUME NEW k \in Slot, l.at + 1 <= k PROVE slot'[k] = Absent
    <3>1. k # l.at /\ l.at <= k
      <4>1. k \in Nat
        BY <1>1
      <4> QED
        BY <1>2, <2>1, <4>1
    <3> QED
      BY <1>3, <1>4, <3>1 DEF Fills
  <2>2. ASSUME NEW i \in Slot, NEW j \in Slot, l.token - conf.depth - 1 <= i, i < j, j < l.at + 1,
               slot'[i] # Absent
        PROVE  slot'[j] # Absent
    <3>1. i \in Nat /\ j \in Nat
      BY <1>1
    <3>2. CASE j = l.at
      BY <1>4, <1>5, <3>2
    <3>3. CASE j # l.at
      <4>1. j < l.at /\ i # l.at
        BY <1>2, <2>2, <3>1, <3>3
      <4> QED
        BY <1>3, <1>4, <2>2, <3>3, <4>1 DEF Fills
    <3> QED
      BY <3>2, <3>3
  <2>3. \A d \in Client : Writing(d) => l.value = my[d].conn
    BY <1>3 DEF Fills
  <2> QED
    BY <1>1, <1>4, <1>7, <2>1, <2>2, <2>3 DEF Fills
<1> QED
  BY <1>8, <1>9, <1>10, <1>11, <1>12 DEF FollowInv

(* FollowInv is kept by every step of a client.                            *)
LEMMA StepFollow ==
  ASSUME BaseInv, Certain, Waiting, WindowInv, AnnounceInv, FollowInv,
         NEW c \in Client, Step(c) \/ Crash(c)
  PROVE  FollowInv'
<1>1. ~Wrap(c) /\ ~Get(c)
  BY DEF Wrap, Get, BaseInv, StateInv, Certain, FollowInv, Fills
<1> QED
  BY <1>1, FollowStart, FollowRead, FollowChoose, FollowAdd, FollowRun, FollowClose, FollowDelete
     DEF Step
-----------------------------------------------------------------------------
(* The protocol of the slots.                                              *)

(* What the slots say, as far as the settings let them be trusted.         *)
SlotsInv ==
  /\ BaseInv
  /\ conf.module = 0 => WindowInv
  /\ Certain => AnnounceInv
  /\ Certain /\ Waiting => FollowInv

(* A step that touches no client and no slot.                              *)
LEMMA SlotsUntouched ==
  ASSUME SlotsInv, BaseInv', UNCHANGED <<conf, counter, slot, pc, my>>
  PROVE  SlotsInv'
<1>1. WindowInv => WindowInv'
  BY DEF WindowInv
<1>2. /\ Slot' = Slot
      /\ (Certain' <=> Certain) /\ (Waiting' <=> Waiting)
      /\ \A c \in Client : (Announcing(c)' <=> Announcing(c)) /\ (Writing(c)' <=> Writing(c))
  BY DEF Slot, Certain, Undisturbed, Kept, Waiting, Announcing, Writing
<1>3. AnnounceInv => AnnounceInv'
  BY <1>2 DEF AnnounceInv, Announced, Plain, Absent
<1>4. FollowInv => FollowInv'
  <2>1. NoGaps => NoGaps'
    BY <1>2 DEF NoGaps, Absent, Plain
  <2>2. ASSUME NEW c \in Client, OnlyOne(c), HasSeen(c), Fills(c), Followed(c)
        PROVE  OnlyOne(c)' /\ HasSeen(c)' /\ Fills(c)' /\ Followed(c)'
    <3>1. OnlyOne(c)' /\ HasSeen(c)'
      BY <1>2, <2>2 DEF OnlyOne, HasSeen, Absent, Plain
    <3>2. Fills(c)' /\ Followed(c)'
      BY <1>2, <2>2 DEF Fills, Followed, Absent, Plain
    <3> QED
      BY <3>1, <3>2
  <2> QED
    BY <2>1, <2>2 DEF FollowInv
<1> QED
  BY <1>1, <1>2, <1>3, <1>4 DEF SlotsInv

(* SlotsInv is inductive.                                                  *)
LEMMA SlotsStep ==
  ASSUME SlotsInv, [Next]_vars
  PROVE  SlotsInv' /\ conf' = conf
<1>1. BaseInv' /\ conf' = conf
  BY BaseStep DEF SlotsInv
<1>2. ASSUME NEW c \in Client, Step(c) \/ Crash(c) PROVE SlotsInv'
  <2>1. (Certain' <=> Certain) /\ (Waiting' <=> Waiting) /\ (Certain => conf.module = 0)
    BY <1>1 DEF Certain, Undisturbed, Kept, Waiting
  <2>2. conf.module = 0 => WindowInv'
    BY <1>2, StepWindow DEF SlotsInv
  <2>3. Certain => AnnounceInv'
    BY <1>2, <2>1, StepAnnounce DEF SlotsInv
  <2>4. Certain /\ Waiting => FollowInv'
    BY <1>2, <2>1, StepFollow DEF SlotsInv
  <2> QED
    BY <1>1, <2>1, <2>2, <2>3, <2>4 DEF SlotsInv
<1>3. ASSUME NEW m \in Master, NEW w \in 1 .. Len(log), Replicate(m, w) PROVE SlotsInv'
  BY <1>1, <1>3, SlotsUntouched DEF Replicate
<1>4. CASE UNCHANGED vars
  BY <1>1, <1>4, SlotsUntouched DEF vars
<1> QED
  BY <1>1, <1>2, <1>3, <1>4 DEF Next

(* It holds in the beginning: every slot is empty, everybody is idle.      *)
LEMMA SlotsInit ==
  Init => SlotsInv
<1> SUFFICES ASSUME Init PROVE SlotsInv
  OBVIOUS
<1>1. \A c \in Client : pc[c] \in {"idle", "gone"}
  BY DEF Init
<1>2. \A k \in Slot : slot[k] = Absent
  BY DEF Init
<1>3. WindowInv
  BY <1>1 DEF WindowInv
<1>4. AnnounceInv
  BY <1>1, <1>2 DEF AnnounceInv, Announced, Announcing, Writing
<1>5. FollowInv
  <2>1. NoGaps
    BY <1>2 DEF NoGaps
  <2> QED
    BY <1>1, <2>1 DEF FollowInv, OnlyOne, HasSeen, Fills, Followed, Announcing, Writing
<1> QED
  BY <1>3, <1>4, <1>5, BaseInit DEF SlotsInv

(* Two writers use the same master, because the one with the later token   *)
(* has filled its slot with the master of the other one.                   *)
LEMMA WritersAgree ==
  ASSUME SlotsInv, Certain, Waiting, NEW c \in Client, NEW d \in Client, Writing(c), Writing(d)
  PROVE  my[c].conn = my[d].conn
<1>1. TypeOK /\ TokensDiffer /\ AnnounceInv /\ FollowInv /\ conf.module = 0
  BY DEF SlotsInv, BaseInv, TokenInv, Spaced, Certain
<1>2. ASSUME NEW e \in Client, NEW f \in Client, Writing(e), Writing(f),
             my[e].token < my[f].token
      PROVE  my[e].conn = my[f].conn
  <2>1. slot[my[f].token] = Plain("running", my[f].conn) /\ my[f].token \in Slot
    BY <1>1, <1>2, Remembered DEF AnnounceInv, Announced
  <2>2. slot[my[f].token] # Absent /\ slot[my[f].token].host = my[f].conn
    BY <2>1, Markers
  <2> QED
    BY <1>1, <1>2, <2>1, <2>2 DEF FollowInv, Followed
<1>3. c # d => my[c].token < my[d].token \/ my[d].token < my[c].token
  <2>1. c # d => my[c].token # my[d].token
    BY <1>1 DEF TokensDiffer, Writing
  <2>2. my[c].token \in Nat /\ my[d].token \in Nat
    BY <1>1, Remembered
  <2> QED
    BY <2>1, <2>2
<1> QED
  BY <1>2, <1>3

(* A client that writes has announced it, however many clients there are,  *)
(* whatever they read of each other and whenever they die, as long as      *)
(* tokens are not counted modulo anything and what they follow is not      *)
(* deleted under them (mysqlnd_ms_aux_ss_gtid_madd fills the own slot last *)
(* and takes over what it finds there).                                    *)
THEOREM WritersAreAnnounced == Spec => [](conf.module = 0 => AnnouncedWhileRunning)
<1>1. SlotsInv /\ [Next]_vars => SlotsInv'
  BY SlotsStep
<1>2. SlotsInv => (conf.module = 0 => AnnouncedWhileRunning)
  BY DEF SlotsInv, Certain, AnnounceInv, Announced, AnnouncedWhileRunning, Writing
<1> QED
  BY SlotsInit, <1>1, <1>2, PTL DEF Spec

(* No two clients of a context partition write on two masters at the same  *)
(* time, for every number of clients that take their tokens one after the  *)
(* other, not more than running_wdepth ahead of a running write; any of    *)
(* them may fail or die, and old tokens may be deleted.                    *)
THEOREM OneMasterAtATime == Spec => [](conf.module = 0 /\ Waiting => SameMaster)
<1>1. SlotsInv /\ [Next]_vars => SlotsInv'
  BY SlotsStep
<1>2. SlotsInv => (conf.module = 0 /\ Waiting => SameMaster)
  <2>1. CASE Undisturbed
    BY <2>1, WritersAgree DEF Certain, Kept, Waiting, SameMaster, Writing
  <2>2. CASE ~Undisturbed
    BY <2>2 DEF SameMaster
  <2> QED
    BY <2>1, <2>2
<1> QED
  BY SlotsInit, <1>1, <1>2, PTL DEF Spec
-----------------------------------------------------------------------------
(* The writes are serial.                                                  *)

(* What is known of a state of a reliable partition, besides SerialInv.    *)
LEMMA ReliableContext ==
  ASSUME SlotsInv, Reliable
  PROVE  /\ TypeOK /\ StateInv /\ TokenInv /\ TokensDiffer
         /\ conf.module = 0 /\ Certain /\ Waiting /\ Undisturbed /\ conf.faults = {} /\ Causal
         /\ WindowInv /\ AnnounceInv /\ FollowInv
<1>1. Certain /\ Waiting /\ Undisturbed /\ conf.module = 0 /\ conf.faults = {} /\ Causal
  BY DEF Reliable, Certain, Undisturbed, Kept, Waiting
<1> QED
  BY <1>1 DEF SlotsInv, BaseInv, TokenInv, Spaced

(* Only an executed write has a GTID.                                      *)
LEMMA Gtids ==
  ASSUME TypeOK, AnnounceInv, NEW k \in Slot
  PROVE  /\ slot[k].gtid \in Nat
         /\ slot[k].marker # "executed" => slot[k].gtid = 0
<1>1. slot[k] \in Value /\ Write \subseteq Nat
  BY ConfType DEF TypeOK
<1>2. slot[k].gtid \in Nat
  BY <1>1 DEF Value
<1>3. \/ slot[k] = Absent
      \/ \E m \in Master : slot[k] = Plain("running", m)
      \/ slot[k].marker = "executed"
  BY DEF AnnounceInv
<1>4. Absent.gtid = 0 /\ \A m : Plain("running", m).gtid = 0
  BY DEF Absent, Plain
<1> QED
  BY <1>2, <1>3, <1>4

(* The last token that has been announced.                                 *)
LEMMA AnnouncedAt ==
  ASSUME TypeOK, conf.module = 0, FollowInv
  PROVE  /\ announced \in Int /\ counter - 1 <= announced /\ announced <= counter
         /\ \A c \in Client : Announcing(c) => announced = counter - 1 /\ announced = my[c].token
         /\ (\A c \in Client : ~Announcing(c)) => announced = counter
<1>1. counter \in Nat
  BY Unwrapped
<1>2. CASE \E c \in Client : Announcing(c)
  <2>1. announced = counter - 1
    BY <1>2 DEF announced
  <2>2. \A c \in Client : Announcing(c) => my[c].token = counter - 1
    BY DEF FollowInv, OnlyOne
  <2> HIDE DEF announced
  <2> QED
    BY <1>1, <1>2, <2>1, <2>2
<1>3. CASE ~\E c \in Client : Announcing(c)
  <2>1. announced = counter
    BY <1>3 DEF announced
  <2> HIDE DEF announced
  <2> QED
    BY <1>1, <1>3, <2>1
<1> QED
  BY <1>2, <1>3

(* A master that has the last write has them all.                          *)
LEMMA UpToDate ==
  ASSUME TypeOK, LogInv, NEW m \in Master, Len(log) = 0 \/ Len(log) \in applied[m]
  PROVE  HasAll(m)
<1>1. Len(log) \in Nat /\ applied[m] \subseteq 1 .. Len(log)
  BY DEF TypeOK
<1>2. CASE Len(log) = 0
  BY <1>1, <1>2 DEF HasAll
<1>3. CASE Len(log) # 0
  <2>1. Len(log) \in applied[m] /\ Len(log) \in 1 .. Len(log)
    BY <1>1, <1>3
  <2>2. log[Len(log)].seen = 1 .. Len(log) - 1
    BY <2>1 DEF LogInv
  <2>3. 1 .. Len(log) - 1 \subseteq applied[m]
    BY <2>1, <2>2 DEF LogInv
  <2>4. 1 .. Len(log) \subseteq applied[m]
    <3> SUFFICES ASSUME NEW w \in 1 .. Len(log) PROVE w \in applied[m]
      OBVIOUS
    <3>1. w = Len(log) \/ w \in 1 .. Len(log) - 1
      BY <1>1
    <3> QED
      BY <2>1, <2>3, <3>1
  <2> QED
    BY <1>1, <2>4 DEF HasAll
<1> QED
  BY <1>2, <1>3

(* Only a write adds to the log, and a write on an up to date master keeps *)
(* it in order.                                                            *)
LEMMA CommitLog ==
  ASSUME TypeOK, StateInv, LogInv, NEW c \in Client, Commit(c), HasAll(my[c].conn)
  PROVE  LogInv' /\ HasAll(my[c].conn)'
<1> DEFINE m == my[c].conn
           w == Len(log) + 1
<1>1. /\ m \in Master /\ Len(log') = w /\ Len(log) \in Nat
      /\ log'[w] = [host |-> m, seen |-> applied[m]]
      /\ \A v \in 1 .. Len(log) : log'[v] = log[v]
      /\ applied'[m] = applied[m] \union {w} /\ \A n \in Master \ {m} : applied'[n] = applied[n]
      /\ applied[m] = 1 .. Len(log)
      /\ \A n \in Master : applied[n] \subseteq 1 .. Len(log)
  <2>1. \A n \in Master : applied[n] \subseteq 1 .. Len(log)
    BY DEF TypeOK
  <2>2. Len(log) \in Nat /\ applied[m] = 1 .. Len(log)
    BY DEF TypeOK, HasAll
  <2> QED
    BY <2>1, <2>2, CommitOutcome
<1>2. \A v \in 1 .. w : v \in 1 .. Len(log) \/ v = w
  BY <1>1
<1>3. \A v \in 1 .. w : log'[v].seen = 1 .. v - 1
  <2>1. log'[w].seen = 1 .. w - 1
    BY <1>1
  <2> HIDE DEF w
  <2> QED
    BY <1>1, <1>2, <2>1 DEF LogInv
<1>4. ASSUME NEW n \in Master, NEW v \in applied'[n] PROVE log'[v].seen \subseteq applied'[n]
  <2>1. CASE v \in 1 .. Len(log)
    <3>1. v \in applied[n]
      BY <1>1, <1>4, <2>1
    <3>2. log[v].seen \subseteq applied[n] /\ log'[v] = log[v] /\ applied[n] \subseteq applied'[n]
      BY <1>1, <2>1, <3>1 DEF LogInv
    <3> QED
      BY <3>2
  <2>2. CASE v \notin 1 .. Len(log)
    <3>1. n = m /\ v = w
      BY <1>1, <1>4, <2>2
    <3> QED
      BY <1>1, <3>1
  <2> QED
    BY <2>1, <2>2
<1>5. applied'[m] = 1 .. w
  BY <1>1, <1>2
<1>6. my'[c].conn = m
  BY CommitOutcome
<1> QED
  BY <1>1, <1>3, <1>4, <1>5, <1>6 DEF LogInv, HasAll

(* A client that is still looking for a master disturbs nobody.            *)
LEMMA SerialQuiet ==
  ASSUME SlotsInv, Reliable, SerialInv, NEW c \in Client, Step(c),
         UNCHANGED <<slot, log, applied>>, announced' = announced,
         ~Writing(c), ~Writing(c)', pc[c] # "add"
  PROVE  /\ (\A k \in Slot : SlotSays(k))' /\ InOrder' /\ LastSaid'
         /\ \A d \in Client \ {c} : Wrote(d)' /\ HasRead(d)'
<1>1. /\ TypeOK /\ conf' = conf /\ Slot' = Slot /\ Absent' = Absent
      /\ \A d \in Client \ {c} : pc'[d] = pc[d] /\ my'[d] = my[d]
  BY ReliableContext, OthersStay DEF Absent, Plain
<1>2. \A d \in Client : (Writing(d)' <=> Writing(d)) /\ (Writing(d) => d # c)
  BY <1>1 DEF Writing
<1>3. \A m : HasAll(m)' <=> HasAll(m)
  BY DEF HasAll
<1>4. ASSUME NEW k \in Slot PROVE SlotSays(k)'
  <2>1. slot[k].marker = "running" =>
          \E d \in Client : my'[d].token = k /\ (Writing(d)' \/ pc'[d] = "add")
    BY <1>1, <1>2 DEF SerialInv, SlotSays
  <2> QED
    BY <1>1, <2>1 DEF SerialInv, SlotSays
<1>5. InOrder'
  BY <1>1 DEF SerialInv, InOrder
<1>6. LastSaid'
  <2>1. \A d \in Client : pc[d] = "run" => pc'[d] = "run"
    BY <1>1, <1>2 DEF Writing
  <2>2. \A k : SaysLast(k) => SaysLast(k)'
    BY <1>1, <1>2 DEF SaysLast, Writing
  <2> QED
    BY <1>1, <2>1, <2>2 DEF SerialInv, LastSaid
<1>7. ASSUME NEW d \in Client, d # c PROVE Wrote(d)' /\ HasRead(d)'
  <2>1. Wrote(d)'
    BY <1>1, <1>2, <1>3, <1>7 DEF SerialInv, Wrote
  <2>2. HasRead(d)'
    <3>1. \A e \in Client : Writing(e)' => my'[e] = my[e] /\ Writing(e)
      BY <1>1, <1>2
    <3> QED
      BY <1>1, <1>3, <1>7, <3>1 DEF SerialInv, HasRead
  <2> QED
    BY <2>1, <2>2
<1> QED
  BY <1>1, <1>4, <1>5, <1>6, <1>7

(* SerialInv is kept when a token is taken.                                *)
LEMMA SerialStart ==
  ASSUME SlotsInv, Reliable, SerialInv, NEW c \in Client, Start(c)
  PROVE  SerialInv'
<1>1. /\ TypeOK /\ conf.module = 0 /\ conf' = conf /\ Slot' = Slot /\ FollowInv /\ Waiting
      /\ UNCHANGED <<slot, log, applied>> /\ counter' = counter + 1
      /\ counter \in Nat /\ conf.depth \in Nat \ {0} /\ Slot \subseteq Nat
  <2>1. TypeOK /\ conf.module = 0 /\ FollowInv /\ Waiting
    BY ReliableContext
  <2>2. conf' = conf /\ Slot' = Slot
    BY <2>1, OthersStay DEF Step
  <2>3. UNCHANGED <<slot, log, applied>> /\ counter' = counter + 1
    BY DEF Start
  <2> QED
    BY <2>1, <2>2, <2>3, Unwrapped
<1>2. /\ my'[c].token = counter /\ my'[c].running = NoHost /\ my'[c].last = NoHost
      /\ my'[c].gtid = 0 /\ my'[c].max = 0 /\ pc[c] = "idle" /\ pc'[c] = "read"
      /\ my'[c].at = counter - (IF counter < conf.depth THEN counter ELSE conf.depth + 1)
  <2>1. umodule(counter) = counter
    BY <1>1, Unwrapped
  <2> QED
    BY <1>1, <2>1, StartOutcome
<1>3. announced' = announced
  <2>1. \A d \in Client : ~Announcing(d)
    BY <1>1 DEF Start, Waiting, Announcing
  <2>2. announced = counter
    BY <1>1, <2>1, AnnouncedAt
  <2>3. Announcing(c)'
    BY <1>2 DEF Announcing
  <2>4. announced' = counter' - 1
    BY <2>3 DEF announced
  <2> HIDE DEF announced
  <2> QED
    BY <1>1, <2>2, <2>4
<1>4. /\ (\A k \in Slot : SlotSays(k))' /\ InOrder' /\ LastSaid'
      /\ \A d \in Client \ {c} : Wrote(d)' /\ HasRead(d)'
  BY <1>1, <1>2, <1>3, SerialQuiet DEF Step, Writing
<1>5. Wrote(c)' /\ HasRead(c)'
  <2>1. ASSUME NEW k \in Slot PROVE ~(k < my'[c].at /\ my'[c].token - conf.depth - 1 <= k)
    <3>1. k \in Nat
      BY <1>1
    <3> QED
      BY <1>1, <1>2, <3>1
  <2>2. 0 <= Len(log)
    BY <1>1 DEF TypeOK
  <2> QED
    BY <1>1, <1>2, <2>1, <2>2 DEF Wrote, HasRead, Writing
<1> QED
  BY <1>4, <1>5 DEF SerialInv

(* SerialInv is kept when a slot is read.                                  *)
LEMMA SerialRead ==
  ASSUME SlotsInv, Reliable, SerialInv, NEW c \in Client, Read(c)
  PROVE  SerialInv'
<1> DEFINE l == my[c]
           h == my'[c]
<1>1. /\ TypeOK /\ conf.module = 0 /\ conf' = conf /\ Slot' = Slot /\ FollowInv /\ AnnounceInv
      /\ WindowInv /\ Certain /\ Waiting /\ UNCHANGED <<slot, log, applied, counter, pc>>
      /\ conf.depth \in Nat \ {0} /\ Slot \subseteq Nat /\ Len(log) \in Nat
  <2>1. /\ TypeOK /\ conf.module = 0 /\ FollowInv /\ AnnounceInv /\ WindowInv /\ Certain /\ Waiting
    BY ReliableContext
  <2>2. conf' = conf /\ Slot' = Slot /\ UNCHANGED <<slot, log, applied, counter, pc>>
    BY <2>1, OthersStay DEF Step, Read
  <2>3. Len(log) \in Nat
    BY <2>1 DEF TypeOK
  <2> QED
    BY <2>1, <2>2, <2>3, Unwrapped
<1>2. pc[c] = "read" /\ l.at < l.token /\ h.token = l.token
  BY <1>1, ReadOutcome
<1>3. /\ l.token \in Nat /\ l.token \in Slot /\ l.at \in Int /\ l.lastChk \in Nat /\ l.found \in BOOLEAN
      /\ l.gtid \in Nat /\ l.max \in Nat /\ l \in Local /\ umodule(l.at) = l.at
  <2>1. l.at \in Int
    BY <1>1, Remembered
  <2> QED
    BY <1>1, <2>1, Remembered, Unwrapped
<1>4. announced' = announced /\ announced = l.token
  <2>1. announced' = announced
    BY <1>1 DEF announced, Announcing
  <2>2. announced = l.token
    BY <1>1, <1>2, AnnouncedAt DEF Announcing
  <2> QED
    BY <2>1, <2>2
<1>5. /\ (\A k \in Slot : SlotSays(k))' /\ InOrder' /\ LastSaid'
      /\ \A d \in Client \ {c} : Wrote(d)' /\ HasRead(d)'
  BY <1>1, <1>2, <1>4, SerialQuiet DEF Step, Writing
<1>6. Wrote(c)' /\ HasRead(c)
  BY <1>1, <1>2 DEF Wrote, Writing, SerialInv
<1>7. l.token - conf.depth - 1 <= l.at
  BY <1>2, <1>1 DEF WindowInv
<1>8. \A d \in Client : Writing(d) => /\ Writing(d)' /\ my'[d] = my[d] /\ d # c
  BY <1>1, <1>2, OthersStay DEF Step, Writing
<1>9. \A d \in Client : Writing(d)' => Writing(d)
  BY <1>1 DEF Writing
<1>10. \A m : HasAll(m)' <=> HasAll(m)
  BY <1>1 DEF HasAll
<1>11. CASE Readable(l.at)
  <2> DEFINE k == l.at
             v == slot[l.at]
             newer == v.gtid > l.max \/ l.last \notin {NoHost, v.host}
  <2>1. h = Seen(l, k, v) /\ v \in Value /\ k \in Slot /\ v # Absent /\ SlotSays(k)
    BY <1>1, <1>3, <1>11, ReadOutcome, Markers DEF Readable, SerialInv
  <2>2. /\ v.marker \in {"running", "executed"} /\ v.host \in Master /\ v.gtid \in Nat
        /\ v.marker = "running" => v = Plain("running", v.host)
        /\ NoHost \notin Master
    BY <1>1, <2>1, Taken, Gtids, ConstantsAssumption
  <2>3. /\ h.at = k + 1
        /\ v.marker = "running" =>
             h.running = v.host /\ h.last = l.last /\ h.gtid = l.gtid /\ h.max = l.max
        /\ v.marker = "executed" =>
             /\ h.running = l.running
             /\ v.gtid # 0 /\ newer => h.last = v.host /\ h.gtid = v.gtid /\ h.max = v.gtid
             /\ v.gtid # 0 /\ ~newer => h.last = l.last /\ h.gtid = l.gtid /\ h.max = l.max
    <3>1. TypeOK /\ l \in Local /\ k \in Slot /\ v \in Value /\ h = Seen(l, k, v)
      BY <1>1, <1>3, <2>1
    <3> HIDE DEF l, h, v, k
    <3>2. Seen(l, k, v).at = l.at + 1
      BY <3>1, SeenPlace
    <3>3. v.marker = "running" =>
            /\ Seen(l, k, v).running = v.host /\ Seen(l, k, v).last = l.last
            /\ Seen(l, k, v).gtid = l.gtid /\ Seen(l, k, v).max = l.max
      BY <3>1, SeenFields, ZenonT(30)
    <3>4. v.marker = "executed" => Seen(l, k, v).running = l.running
      BY <3>1, SeenFields, ZenonT(30)
    <3>5. v.marker = "executed" /\ v.gtid # 0 /\ newer =>
            /\ Seen(l, k, v).last = v.host /\ Seen(l, k, v).gtid = v.gtid
            /\ Seen(l, k, v).max = v.gtid
      BY <3>1, SeenFields, ZenonT(30)
    <3>6. v.marker = "executed" /\ v.gtid # 0 /\ ~newer =>
            /\ Seen(l, k, v).last = l.last /\ Seen(l, k, v).gtid = l.gtid
            /\ Seen(l, k, v).max = l.max
      BY <3>1, SeenFields, ZenonT(30)
    <3> HIDE DEF newer
    <3> QED
      BY <3>1, <3>2, <3>3, <3>4, <3>5, <3>6 DEF k
  <2>4. CASE v.marker = "running"
    <3>1. PICK d \in Client : my[d].token = k /\ (Writing(d) \/ pc[d] = "add")
      BY <2>1, <2>4 DEF SlotSays
    <3>2. Writing(d)
      BY <1>1, <1>2, <3>1 DEF FollowInv, OnlyOne, Announcing
    <3>3. v.host = my[d].conn
      BY <1>1, <3>1, <3>2, Markers DEF AnnounceInv, Announced
    <3>4. HasAll(v.host) /\ \A e \in Client : Writing(e) => v.host = my[e].conn
      BY <1>1, <3>2, <3>3, WritersAgree DEF SerialInv, Wrote
    <3>5. h.running = v.host /\ h.running # NoHost
      BY <2>2, <2>3, <2>4
    <3> QED
      BY <1>1, <1>5, <1>6, <1>8, <1>9, <1>10, <3>4, <3>5 DEF HasRead, SerialInv
  <2>5. CASE v.marker = "executed" /\ l.running # NoHost
    <3>1. h.running = l.running
      BY <2>3, <2>5
    <3>2. HasAll(l.running) /\ \A d \in Client : Writing(d) => l.running = my[d].conn
      BY <1>2, <1>6, <2>5 DEF HasRead
    <3> QED
      BY <1>1, <1>5, <1>6, <1>8, <1>9, <1>10, <2>5, <3>1, <3>2 DEF HasRead, SerialInv
  <2>6. CASE v.marker = "executed" /\ l.running = NoHost
    <3>1. v.gtid # 0 /\ v.gtid <= Len(log) /\ v.gtid \in applied[v.host] /\ h.running = NoHost
      BY <1>1, <2>1, <2>2, <2>3, <2>6 DEF SlotSays
    <3>2. /\ l.gtid = l.max /\ l.gtid <= Len(log)
          /\ IF l.gtid = 0 THEN l.last = NoHost
             ELSE /\ l.last \in Master /\ l.gtid \in applied[l.last]
                  /\ \E i \in Slot : /\ l.token - conf.depth - 1 <= i /\ i < l.at
                                     /\ slot[i].gtid = l.gtid /\ slot[i].host = l.last
          /\ \A i \in Slot : l.token - conf.depth - 1 <= i /\ i < l.at =>
               slot[i].marker = "executed" /\ slot[i].gtid <= l.gtid
      BY <1>2, <1>6, <2>6 DEF HasRead
    <3>3. newer => l.gtid <= v.gtid
      <4>1. CASE v.gtid > l.max
        BY <1>3, <2>2, <3>2, <4>1
      <4>2. CASE l.last \notin {NoHost, v.host}
        <5>1. PICK i \in Slot : /\ i < l.at /\ slot[i].gtid = l.gtid /\ slot[i].host = l.last
          BY <3>2, <4>2
        <5>2. ~(slot[i].gtid > v.gtid)
          BY <2>1, <3>1, <4>2, <5>1 DEF SerialInv, InOrder
        <5> QED
          BY <1>3, <2>2, <5>1, <5>2
      <4> QED
        BY <4>1, <4>2
    <3>4. ~newer => v.gtid <= l.gtid /\ l.gtid # 0
      <4>1. ~newer => v.gtid <= l.gtid
        BY <1>3, <2>2, <3>2
      <4> HIDE DEF newer
      <4> QED
        BY <1>3, <2>2, <3>1, <4>1
    <3>5. /\ h.gtid = h.max /\ h.gtid <= Len(log) /\ h.gtid # 0 /\ l.gtid <= h.gtid /\ v.gtid <= h.gtid
          /\ h.last \in Master /\ h.gtid \in applied[h.last] /\ h.gtid \in Nat
      <4>1. CASE newer
        BY <2>2, <2>3, <2>6, <3>1, <3>3, <4>1
      <4>2. CASE ~newer
        <5>1. h.last = l.last /\ h.gtid = l.gtid /\ h.max = l.max /\ v.gtid <= l.gtid /\ l.gtid # 0
          BY <2>3, <2>6, <3>1, <3>4, <4>2
        <5> QED
          BY <1>3, <3>2, <5>1
      <4> QED
        BY <4>1, <4>2
    <3>6. \E i \in Slot : /\ l.token - conf.depth - 1 <= i /\ i < k + 1
                          /\ slot[i].gtid = h.gtid /\ slot[i].host = h.last
      <4>1. CASE newer
        <5>1. v.gtid = h.gtid /\ v.host = h.last /\ k < k + 1
          BY <1>3, <2>3, <2>6, <3>1, <4>1
        <5> QED
          BY <1>7, <2>1, <5>1
      <4>2. CASE ~newer
        <5>1. h.last = l.last /\ h.gtid = l.gtid /\ l.gtid # 0
          BY <2>3, <2>6, <3>1, <3>4, <4>2
        <5>2. PICK i \in Slot : /\ l.token - conf.depth - 1 <= i /\ i < l.at
                                /\ slot[i].gtid = l.gtid /\ slot[i].host = l.last
          BY <3>2, <5>1
        <5>3. i < k + 1
          BY <1>1, <1>3, <5>2
        <5> QED
          BY <5>1, <5>2, <5>3
      <4> QED
        BY <4>1, <4>2
    <3>7. ASSUME NEW i \in Slot, l.token - conf.depth - 1 <= i, i < k + 1
          PROVE  slot[i].marker = "executed" /\ slot[i].gtid <= h.gtid
      <4>1. CASE i = k
        BY <2>6, <3>5, <4>1
      <4>2. CASE i # k
        <5>1. i < l.at
          BY <1>1, <1>3, <3>7, <4>2
        <5>2. slot[i].marker = "executed" /\ slot[i].gtid <= l.gtid
          BY <3>2, <3>7, <5>1
        <5>3. slot[i].gtid \in Nat
          BY <1>1, Gtids
        <5> QED
          BY <1>3, <3>5, <5>2, <5>3
      <4> QED
        BY <4>1, <4>2
    <3>8. HasRead(c)'
      BY <1>1, <1>2, <2>3, <3>1, <3>5, <3>6, <3>7 DEF HasRead
    <3> QED
      BY <1>5, <1>6, <3>8 DEF SerialInv
  <2> QED
    BY <2>2, <2>4, <2>5, <2>6
<1>12. CASE ~Readable(l.at)
  <2>1. /\ h.found = l.found /\ h.lastChk = l.lastChk
        /\ h.running = l.running /\ h.last = l.last
        /\ h.gtid = l.gtid /\ h.max = l.max
        /\ h.at = IF conf.useGet /\ l.found THEN l.token ELSE l.at + 1
    BY <1>1, <1>3, <1>12, ReadOutcome
  <2>2. l.at \notin Slot
    <3> SUFFICES ASSUME l.at \in Slot PROVE FALSE
      OBVIOUS
    <3>1. slot[l.at] # Absent
      BY <1>2, <1>4, <1>7 DEF SerialInv, SlotSays
    <3> QED
      BY <1>1, <1>12, <3>1, Taken
  <2>3. l.at < 0
    <3>1. Slot = 0 .. conf.maxWrites - 1 /\ conf.maxWrites \in Nat
      BY <1>1, Unwrapped, ConfType
    <3> QED
      BY <1>2, <1>3, <2>2, <3>1
  <2>4. ~l.found
    BY <1>1, <1>2, <1>3, <2>3, LastSeenIsSlot
  <2>5. h.at = l.at + 1
    BY <2>1, <2>4
  <2>6. \A k \in Slot : ~(k < l.at) /\ ~(k < l.at + 1)
    BY <1>1, <1>3, <2>3
  <2>7. HasRead(c)'
    <3>1. CASE l.running # NoHost
      <4>1. HasAll(l.running) /\ \A d \in Client : Writing(d) => l.running = my[d].conn
        BY <1>2, <1>6, <3>1 DEF HasRead
      <4> QED
        BY <1>8, <1>9, <1>10, <2>1, <3>1, <4>1 DEF HasRead
    <3>2. CASE l.running = NoHost
      BY <1>1, <1>2, <1>6, <2>1, <2>5, <2>6, <3>2 DEF HasRead
    <3> QED
      BY <3>1, <3>2
  <2> QED
    BY <1>5, <1>6, <2>7 DEF SerialInv
<1> QED
  BY <1>11, <1>12

(* SerialInv is kept when a master is chosen: the one of whoever writes,   *)
(* or one that has the last write.                                         *)
LEMMA SerialChoose ==
  ASSUME SlotsInv, Reliable, LogInv, SerialInv, NEW c \in Client, Choose(c)
  PROVE  SerialInv'
<1> DEFINE l == my[c]
           h == my'[c]
<1>1. /\ TypeOK /\ conf.module = 0 /\ FollowInv /\ AnnounceInv /\ WindowInv /\ Undisturbed
      /\ StateInv /\ TokenInv /\ TokensDiffer /\ Certain /\ Waiting
      /\ conf' = conf /\ Slot' = Slot /\ UNCHANGED <<slot, log, applied, counter>>
      /\ \A d \in Client \ {c} : pc'[d] = pc[d] /\ my'[d] = my[d]
  <2>1. /\ TypeOK /\ conf.module = 0 /\ FollowInv /\ AnnounceInv /\ WindowInv /\ Undisturbed
        /\ StateInv /\ TokenInv /\ TokensDiffer /\ Certain /\ Waiting
    BY ReliableContext
  <2>2. UNCHANGED <<slot, log, applied, counter>>
    BY DEF Choose
  <2> QED
    BY <2>1, <2>2, OthersStay DEF Step
<1>2. /\ counter \in Nat /\ conf.depth \in Nat \ {0} /\ Slot \subseteq Nat /\ Len(log) \in Nat
      /\ l.token \in Nat /\ l.token \in Slot /\ l.lastChk \in Nat /\ l.found \in BOOLEAN
      /\ l.gtid \in Nat /\ l \in Local
  <2>1. Len(log) \in Nat
    BY <1>1 DEF TypeOK
  <2> QED
    BY <1>1, <2>1, Remembered, Unwrapped
<1>3. /\ pc[c] = "read" /\ l.at = l.token /\ pc'[c] = "add" /\ h.token = l.token
      /\ h.value \in Selected(l, Master) /\ h.value \in Master
      /\ h.at = IF FirstSlot(l) < EndSlot(l) THEN FirstSlot(l) ELSE EndSlot(l)
  BY <1>1, ChooseOutcome, AlwaysChosen
<1>4. /\ l.token = counter - 1 /\ HasSeen(c) /\ HasRead(c) /\ announced = l.token
      /\ \A d \in Client : Announcing(d) => d = c
  BY <1>1, <1>3, AnnouncedAt DEF FollowInv, OnlyOne, Announcing, SerialInv
<1>5. announced' = announced
  <2>1. Announcing(c)'
    BY <1>3 DEF Announcing
  <2>2. announced' = counter - 1
    BY <1>1, <2>1 DEF announced
  <2> HIDE DEF announced
  <2> QED
    BY <1>4, <2>2
<1>6. /\ (\A k \in Slot : SlotSays(k))' /\ InOrder' /\ LastSaid'
      /\ \A d \in Client \ {c} : Wrote(d)' /\ HasRead(d)'
  BY <1>1, <1>3, <1>5, SerialQuiet DEF Step, Writing
<1>7. h.token <= h.at
  <2>1. /\ EndSlot(l) = l.token + 1 /\ FirstSlot(l) \in Nat
        /\ FirstSlot(l) = IF l.found THEN l.lastChk + 1 ELSE IF l.token > 0 THEN l.token - 1 ELSE 0
    BY <1>1, <1>3, FirstInWindow
  <2>2. l.token > 0 => l.found /\ l.lastChk >= l.token - 1
    <3> SUFFICES ASSUME l.token > 0 PROVE l.found /\ l.lastChk >= l.token - 1
      OBVIOUS
    <3>1. l.token - 1 \in Slot
      <4>1. Slot = 0 .. conf.maxWrites - 1 /\ conf.maxWrites \in Nat
        BY <1>1, Unwrapped, ConfType
      <4> QED
        BY <1>2, <4>1
    <3>2. announced - conf.depth - 1 <= l.token - 1 /\ l.token - 1 < announced
      BY <1>2, <1>4
    <3>3. slot[l.token - 1] # Absent
      BY <3>1, <3>2 DEF SerialInv, SlotSays
    <3>4. l.token - 1 < l.at /\ l.token - conf.depth - 1 <= l.token - 1
      BY <1>2, <1>3
    <3>5. ~(l.found => l.lastChk < l.token - 1)
      BY <1>3, <1>4, <3>1, <3>3, <3>4 DEF HasSeen
    <3> QED
      BY <1>2, <3>5
  <2> HIDE DEF l, h
  <2> QED
    BY <1>2, <1>3, <2>1, <2>2
<1>8. HasAll(h.value)
  <2>1. CASE l.running # NoHost
    <3>1. h.value = l.running
      BY <1>1, <1>2, <1>3, <2>1, SomeMaster
    <3> QED
      BY <1>3, <1>4, <2>1, <3>1 DEF HasRead
  <2>2. CASE l.running = NoHost
    <3>1. ASSUME NEW d \in Client, Writing(d) PROVE FALSE
      <4>1. my[d].token < counter /\ my[d].token # l.token /\ my[d].token \in Nat
        BY <1>1, <1>3, <3>1, Remembered DEF TokenInv, TokensDiffer, Busy, Writing
      <4>2. my[d].token < l.at
        BY <1>2, <1>3, <1>4, <4>1
      <4> QED
        BY <1>1, <1>3, <1>4, <2>2, <3>1, <4>2 DEF HasSeen, StateInv
    <3>2. Len(log) = 0 \/ \E k \in Slot : slot[k].gtid = Len(log) /\ announced - conf.depth - 1 <= k
      BY <3>1 DEF SerialInv, LastSaid, SaysLast, Writing
    <3>3. CASE Len(log) = 0
      BY <1>1, <1>3, <3>3, UpToDate
    <3>4. CASE Len(log) # 0
      <4>1. PICK k \in Slot : slot[k].gtid = Len(log) /\ announced - conf.depth - 1 <= k
        BY <3>2, <3>4
      <4>2. slot[k].marker = "executed" /\ k \in Nat
        BY <1>1, <1>2, <3>4, <4>1, Gtids
      <4>3. slot[k] # Absent
        BY <4>2, Markers
      <4>4. k < counter
        <5>1. ~(k >= counter)
          BY <1>1, <4>3 DEF FollowInv, NoGaps
        <5> QED
          BY <1>2, <4>2, <5>1
      <4>5. k # l.token
        BY <1>3, <1>4, <4>3 DEF HasSeen
      <4>6. k < l.at /\ l.token - conf.depth - 1 <= k
        BY <1>2, <1>3, <1>4, <4>1, <4>2, <4>4, <4>5
      <4>7. slot[k].gtid <= l.gtid /\ l.gtid <= Len(log)
        BY <1>3, <1>4, <2>2, <4>6 DEF HasRead
      <4>8. l.gtid = Len(log) /\ l.gtid # 0
        BY <1>2, <3>4, <4>1, <4>7
      <4>9. l.last \in Master /\ l.gtid \in applied[l.last]
        BY <1>3, <1>4, <2>2, <4>8 DEF HasRead
      <4>10. h.value \in {l.last} \union {m \in Master : l.gtid \in applied[m]}
        BY <1>1, <1>2, <1>3, <2>2, <4>9, SomeMaster, ConstantsAssumption
      <4>11. Len(log) \in applied[h.value]
        BY <4>8, <4>9, <4>10
      <4> QED
        BY <1>1, <1>3, <4>11, UpToDate
    <3> QED
      BY <3>3, <3>4
  <2> QED
    BY <2>1, <2>2
<1>9. Wrote(c)' /\ HasRead(c)'
  BY <1>1, <1>3, <1>7, <1>8 DEF Wrote, HasRead, HasAll, Writing
<1> QED
  BY <1>6, <1>9 DEF SerialInv

(* SerialInv is kept when a client fills its slot: there is no other one   *)
(* to fill.                                                                *)
LEMMA SerialAdd ==
  ASSUME SlotsInv, Reliable, SerialInv, NEW c \in Client, Add(c)
  PROVE  SerialInv'
<1> DEFINE l == my[c]
           h == my'[c]
           r == Plain("running", l.value)
<1>1. /\ TypeOK /\ conf.module = 0 /\ FollowInv /\ AnnounceInv /\ WindowInv
      /\ conf' = conf /\ Slot' = Slot /\ Absent' = Absent
      /\ UNCHANGED <<log, applied, counter>>
      /\ \A d \in Client \ {c} : pc'[d] = pc[d] /\ my'[d] = my[d]
  <2>1. TypeOK /\ conf.module = 0 /\ FollowInv /\ AnnounceInv /\ WindowInv
    BY ReliableContext
  <2>2. UNCHANGED <<log, applied, counter>> /\ Absent' = Absent
    BY DEF Add, Absent, Plain
  <2> QED
    BY <2>1, <2>2, OthersStay DEF Step
<1>2. /\ counter \in Nat /\ conf.depth \in Nat \ {0} /\ Slot \subseteq Nat /\ Len(log) \in Nat
      /\ l.token \in Nat /\ l.at \in Slot /\ l.at \in Nat
      /\ l.at <= l.token /\ umodule(l.at + 1) = l.at + 1
  <2>1. Len(log) \in Nat
    BY <1>1 DEF TypeOK
  <2>2. l.at \in Slot /\ l.at <= l.token /\ umodule(l.at + 1) = l.at + 1
    BY <1>1, NextSlot
  <2> QED
    BY <1>1, <2>1, <2>2, Remembered, Unwrapped
<1>3. /\ pc[c] = "add" /\ l.value # NoHost /\ Fills(c) /\ HasAll(l.value) /\ l.token <= l.at
  BY <1>1 DEF Add, AnnounceInv, Announced, FollowInv, SerialInv, Wrote
<1>4. l.at = l.token /\ slot[l.token] = Absent
  <2>1. l.at = l.token
    BY <1>2, <1>3
  <2>2. l.at <= l.at
    BY <1>2
  <2> QED
    BY <1>2, <1>3, <2>1, <2>2 DEF Fills
<1>5. /\ h.token = l.token /\ h.value = l.value /\ h.at = l.token + 1 /\ pc'[c] = "add"
      /\ slot'[l.token] = r /\ \A k \in Slot : k # l.token => slot'[k] = slot[k]
  <2>1. /\ h.token = l.token /\ h.value = l.value /\ h.at = l.at + 1 /\ pc'[c] = "add"
        /\ slot' = [slot EXCEPT ![l.at] = r]
    BY <1>1, <1>2, <1>3, <1>4, AddOutcome
  <2> QED
    BY <1>1, <1>2, <1>4, <2>1 DEF TypeOK
<1>6. r # Absent /\ r.host = l.value /\ r.marker = "running" /\ r.gtid = 0
  BY Markers DEF Plain
<1> HIDE DEF r
<1>7. /\ announced' = announced /\ announced = l.token
      /\ \A d \in Client : Announcing(d) => d = c
  <2>1. announced = l.token /\ announced = counter - 1
    BY <1>1, <1>3, AnnouncedAt DEF Announcing
  <2>2. Announcing(c)'
    BY <1>5 DEF Announcing
  <2>3. announced' = counter - 1
    BY <1>1, <2>2 DEF announced
  <2>4. \A d \in Client : Announcing(d) => d = c
    BY <1>1, <1>3 DEF FollowInv, OnlyOne, Announcing
  <2> HIDE DEF announced
  <2> QED
    BY <2>1, <2>3, <2>4
<1>8. \A d \in Client : (Writing(d)' <=> Writing(d)) /\ (Writing(d) => d # c)
  BY <1>1, <1>3, <1>5 DEF Writing
<1>9. \A m : HasAll(m)' <=> HasAll(m)
  BY <1>1 DEF HasAll
<1>10. \A k \in Slot : slot[k].gtid \in Nat /\ slot'[k].gtid = slot[k].gtid
  <2>1. slot[l.token].gtid = 0
    BY <1>4 DEF Absent, Plain
  <2> QED
    BY <1>1, <1>5, <1>6, <2>1, Gtids
<1>11. ASSUME NEW k \in Slot PROVE SlotSays(k)'
  <2>1. CASE k = l.token
    <3>1. \E d \in Client : my'[d].token = k /\ (Writing(d)' \/ pc'[d] = "add")
      BY <1>5, <2>1
    <3>2. slot'[k] = r /\ slot'[k] # Absent'
      BY <1>1, <1>5, <1>6, <2>1
    <3> QED
      BY <1>6, <3>1, <3>2 DEF SlotSays
  <2>2. CASE k # l.token
    <3>1. slot'[k] = slot[k]
      BY <1>5, <2>2
    <3>2. slot[k].marker = "running" =>
            \E d \in Client : my'[d].token = k /\ (Writing(d)' \/ pc'[d] = "add")
      BY <1>1, <1>3, <1>5, <1>8 DEF SerialInv, SlotSays
    <3> QED
      BY <1>1, <1>7, <3>1, <3>2 DEF SerialInv, SlotSays
  <2> QED
    BY <2>1, <2>2
<1>12. InOrder'
  <2> SUFFICES ASSUME NEW i \in Slot, NEW j \in Slot, i < j, slot[i].gtid > slot[j].gtid,
                      slot[j].gtid # 0
               PROVE  slot'[i].host = slot'[j].host
    BY <1>1, <1>10 DEF InOrder
  <2>1. slot[i].gtid # 0
    BY <1>10
  <2>2. slot'[i] = slot[i] /\ slot'[j] = slot[j]
    BY <1>4, <1>5, <2>1 DEF Absent, Plain
  <2> QED
    BY <2>2 DEF SerialInv, InOrder
<1>13. LastSaid'
  <2>1. \A k \in Slot : SaysLast(k) => SaysLast(k)'
    BY <1>1, <1>3, <1>5, <1>10 DEF SaysLast
  <2>2. \A d \in Client : pc[d] = "run" => pc'[d] = "run"
    BY <1>1, <1>3
  <2> QED
    BY <1>1, <1>7, <2>1, <2>2 DEF SerialInv, LastSaid
<1>14. ASSUME NEW d \in Client, d # c PROVE Wrote(d)' /\ HasRead(d)'
  <2>1. pc[d] # "add" /\ pc[d] # "read" /\ pc'[d] = pc[d] /\ my'[d] = my[d]
    BY <1>1, <1>7, <1>14 DEF Announcing
  <2>2. \A k \in Slot : slot[k].gtid # 0 => slot'[k] = slot[k]
    BY <1>4, <1>5 DEF Absent, Plain
  <2>3. ASSUME pc[d] = "mark", NEW k \in Slot, slot'[k].gtid > my[d].wrote
        PROVE  slot'[k].host = my[d].conn
    <3>1. slot[k].gtid > my[d].wrote /\ my[d].wrote \in Nat
      BY <1>1, <1>10, <2>3, Remembered
    <3>2. slot'[k] = slot[k]
      BY <1>10, <2>2, <3>1
    <3> QED
      BY <2>3, <3>1, <3>2 DEF SerialInv, Wrote
  <2>4. Wrote(d)'
    BY <1>1, <1>8, <1>9, <2>1, <2>3 DEF SerialInv, Wrote
  <2> QED
    BY <2>1, <2>4 DEF HasRead
<1>15. Wrote(c)' /\ HasRead(c)'
  BY <1>2, <1>3, <1>5, <1>9 DEF Wrote, HasRead, Writing
<1> QED
  BY <1>1, <1>11, <1>12, <1>13, <1>14, <1>15 DEF SerialInv

(* SerialInv is kept when the write is about to run: its slot is taken.    *)
LEMMA SerialSwitch ==
  ASSUME SlotsInv, Reliable, SerialInv, NEW c \in Client, Switch(c)
  PROVE  SerialInv'
<1> DEFINE l == my[c]
           h == my'[c]
<1>1. /\ TypeOK /\ conf.module = 0 /\ FollowInv /\ AnnounceInv /\ WindowInv /\ Undisturbed
      /\ conf' = conf /\ Slot' = Slot /\ Absent' = Absent
      /\ UNCHANGED <<slot, log, applied, counter>>
      /\ \A d \in Client \ {c} : pc'[d] = pc[d] /\ my'[d] = my[d]
  <2>1. TypeOK /\ conf.module = 0 /\ FollowInv /\ AnnounceInv /\ WindowInv /\ Undisturbed
    BY ReliableContext
  <2>2. UNCHANGED <<slot, log, applied, counter>> /\ Absent' = Absent
    BY DEF Switch, Absent, Plain
  <2> QED
    BY <2>1, <2>2, OthersStay DEF Step
<1>2. /\ counter \in Nat /\ conf.depth \in Nat \ {0} /\ Slot \subseteq Nat
      /\ l.token \in Nat /\ l.token \in Slot /\ umodule(l.token + 1) = l.token + 1
  <2>1. l.token \in Nat /\ l.token + 1 \in Int
    BY <1>1, Remembered
  <2> QED
    BY <1>1, <2>1, Remembered, Unwrapped
<1>3. /\ pc[c] = "add" /\ l.at = l.token + 1 /\ l.value \in Master /\ HasAll(l.value)
      /\ slot[l.token] = Plain("running", l.value)
  <2>1. pc[c] = "add" /\ l.at = l.token + 1
    BY <1>2 DEF Switch, EndSlot
  <2> QED
    BY <1>1, <2>1 DEF AnnounceInv, Announced, SerialInv, Wrote, HasAll
<1>4. pc'[c] = "run" /\ h.token = l.token /\ h.conn = l.value
  <2>1. Reach = {Master}
    BY <1>1 DEF Reach, Undisturbed
  <2> QED
    BY <1>1, <1>3, <2>1, SwitchOutcome
<1>5. /\ announced = l.token /\ announced = counter - 1 /\ announced' = counter
      /\ \A d \in Client : Announcing(d) => d = c
  <2>1. announced = l.token /\ announced = counter - 1
    BY <1>1, <1>3, AnnouncedAt DEF Announcing
  <2>2. \A d \in Client : Announcing(d) => d = c
    BY <1>1, <1>3 DEF FollowInv, OnlyOne, Announcing
  <2>3. \A d \in Client : ~Announcing(d)'
    BY <1>1, <1>4, <2>2 DEF Announcing
  <2>4. announced' = counter
    BY <1>1, <2>3 DEF announced
  <2> QED
    BY <2>1, <2>2, <2>4
<1>6. \A m : HasAll(m)' <=> HasAll(m)
  BY <1>1 DEF HasAll
<1>7. \A d \in Client : (Writing(d) => Writing(d)') /\ (d # c => (Writing(d)' <=> Writing(d)))
  BY <1>1, <1>3 DEF Writing
<1>8. ASSUME NEW k \in Slot PROVE SlotSays(k)'
  <2>1. slot[k].marker = "running" =>
          \E d \in Client : my'[d].token = k /\ (Writing(d)' \/ pc'[d] = "add")
    <3> SUFFICES ASSUME slot[k].marker = "running"
                 PROVE  \E d \in Client : my'[d].token = k /\ (Writing(d)' \/ pc'[d] = "add")
      OBVIOUS
    <3>1. PICK d \in Client : my[d].token = k /\ (Writing(d) \/ pc[d] = "add")
      BY DEF SerialInv, SlotSays
    <3>2. CASE d = c
      BY <1>4, <3>1, <3>2 DEF Writing
    <3>3. CASE d # c
      BY <1>1, <1>7, <3>1, <3>3
    <3> QED
      BY <3>2, <3>3
  <2>2. announced' - conf.depth - 1 <= k /\ k < announced' => slot[k] # Absent
    <3>1. k \in Nat
      BY <1>2
    <3>2. CASE k = l.token
      BY <1>3, <3>2, Markers
    <3>3. CASE k # l.token
      <4>1. announced' - conf.depth - 1 <= k /\ k < announced' =>
              announced - conf.depth - 1 <= k /\ k < announced
        <5> HIDE DEF announced
        <5> QED
          BY <1>2, <1>5, <3>1, <3>3
      <4> QED
        BY <4>1 DEF SerialInv, SlotSays
    <3> QED
      BY <3>2, <3>3
  <2> QED
    BY <1>1, <2>1, <2>2 DEF SerialInv, SlotSays
<1>9. InOrder'
  BY <1>1 DEF SerialInv, InOrder
<1>10. LastSaid'
  BY <1>4 DEF LastSaid
<1>11. ASSUME NEW d \in Client, d # c PROVE Wrote(d)' /\ HasRead(d)'
  <2>1. pc[d] # "add" /\ pc[d] # "read" /\ pc'[d] = pc[d] /\ my'[d] = my[d]
    BY <1>1, <1>5, <1>11 DEF Announcing
  <2>2. Wrote(d)'
    BY <1>1, <1>6, <1>7, <1>11, <2>1 DEF SerialInv, Wrote
  <2> QED
    BY <2>1, <2>2 DEF HasRead
<1>12. Wrote(c)' /\ HasRead(c)'
  BY <1>3, <1>4, <1>6 DEF Wrote, HasRead
<1> QED
  BY <1>1, <1>8, <1>9, <1>10, <1>11, <1>12 DEF SerialInv

(* SerialInv is kept when the server executes the write, which has all the *)
(* others.                                                                 *)
LEMMA SerialCommit ==
  ASSUME SlotsInv, Reliable, LogInv, SerialInv, NEW c \in Client, Commit(c)
  PROVE  SerialInv'
<1> DEFINE l == my[c]
           w == Len(log) + 1
<1>1. /\ TypeOK /\ StateInv /\ TokenInv /\ conf.module = 0 /\ FollowInv /\ AnnounceInv
      /\ Certain /\ Waiting /\ conf.faults = {}
      /\ conf' = conf /\ Slot' = Slot /\ Absent' = Absent
      /\ UNCHANGED <<slot, counter>>
      /\ \A d \in Client \ {c} : pc'[d] = pc[d] /\ my'[d] = my[d]
  <2>1. /\ TypeOK /\ StateInv /\ TokenInv /\ conf.module = 0 /\ FollowInv /\ AnnounceInv
        /\ Certain /\ Waiting /\ conf.faults = {}
    BY ReliableContext
  <2>2. UNCHANGED <<slot, counter>> /\ Absent' = Absent
    BY DEF Commit, Absent, Plain
  <2> QED
    BY <2>1, <2>2, OthersStay DEF Step
<1>2. /\ pc[c] = "run" /\ pc'[c] = "mark" /\ my'[c].token = l.token /\ my'[c].conn = l.conn
      /\ my'[c].wrote = w /\ l.conn \in Master /\ Len(log') = w
      /\ applied'[l.conn] = applied[l.conn] \union {w}
      /\ \A m \in Master \ {l.conn} : applied'[m] = applied[m]
  BY <1>1, CommitOutcome
<1>3. /\ HasAll(l.conn) /\ applied'[l.conn] = 1 .. Len(log') /\ Len(log) \in Nat
      /\ \A d \in Client : Writing(d) => my[d].conn = l.conn
  <2>1. HasAll(l.conn) /\ Len(log) \in Nat
    BY <1>1, <1>2 DEF SerialInv, Wrote, Writing, TypeOK
  <2>2. applied'[l.conn] = 1 .. Len(log')
    BY <1>1, <1>2, <2>1, CommitLog DEF HasAll
  <2> QED
    BY <1>1, <1>2, <2>1, <2>2, WritersAgree DEF Writing
<1>4. /\ \A m \in Master : applied[m] \subseteq applied'[m]
      /\ Len(log) <= Len(log')
  BY <1>2, <1>3
<1>5. announced' = announced
  <2>1. \A d \in Client : (Announcing(d)' <=> Announcing(d))
    BY <1>1, <1>2 DEF Announcing
  <2> QED
    BY <1>1, <2>1 DEF announced
<1>6. \A d \in Client : /\ Writing(d)' <=> Writing(d)
                        /\ my'[d].token = my[d].token /\ my'[d].conn = my[d].conn
                        /\ (pc'[d] = "add") <=> (pc[d] = "add")
                        /\ (pc'[d] = "read") <=> (pc[d] = "read")
  BY <1>1, <1>2 DEF Writing
<1>7. ASSUME NEW k \in Slot PROVE SlotSays(k)'
  <2>1. slot[k].marker = "executed" =>
          slot[k].gtid \in 1 .. Len(log') /\ slot[k].gtid \in applied'[slot[k].host]
    <3> SUFFICES ASSUME slot[k].marker = "executed"
                 PROVE slot[k].gtid \in 1 .. Len(log') /\ slot[k].gtid \in applied'[slot[k].host]
      OBVIOUS
    <3>1. slot[k].gtid \in 1 .. Len(log) /\ slot[k].gtid \in applied[slot[k].host]
      BY DEF SerialInv, SlotSays
    <3>2. slot[k].host \in Master
      <4>1. slot[k] # Absent
        BY Markers
      <4> QED
        BY <1>1, <4>1, Taken
    <3> QED
      BY <1>2, <1>3, <1>4, <3>1, <3>2
  <2>2. slot[k].marker = "running" =>
          \E d \in Client : my'[d].token = k /\ (Writing(d)' \/ pc'[d] = "add")
    BY <1>6 DEF SerialInv, SlotSays
  <2> QED
    BY <1>1, <1>5, <2>1, <2>2 DEF SerialInv, SlotSays
<1>8. InOrder'
  BY <1>1 DEF SerialInv, InOrder
<1>9. LastSaid'
  <2>1. \A k \in Slot : k = l.token => SaysLast(k)'
    <3>1. \E d \in Client : pc'[d] = "mark" /\ my'[d].token = l.token /\ my'[d].wrote = Len(log')
      BY <1>2
    <3> QED
      BY <3>1 DEF SaysLast
  <2>2. announced - conf.depth - 1 <= l.token
    <3>1. PICK j \in 1 .. conf.depth + 1 : l.token = umodule(counter - j)
      BY <1>1, <1>2 DEF TokenInv, Waiting, Busy
    <3>2. counter \in Nat /\ conf.depth \in Nat
      BY <1>1, Unwrapped
    <3>3. counter - j \in Int
      BY <3>2
    <3>4. l.token = counter - j
      BY <1>1, <3>1, <3>3, Unwrapped
    <3>5. announced \in Int /\ announced <= counter
      BY <1>1, AnnouncedAt
    <3> HIDE DEF l
    <3> QED
      BY <3>2, <3>4, <3>5
  <2> QED
    <3>1. announced' - conf'.depth - 1 <= l.token /\ l.token \in Slot'
      BY <1>1, <1>5, <2>2, Remembered
    <3>2. \E k \in Slot' : SaysLast(k)' /\ announced' - conf'.depth - 1 <= k
      BY <1>1, <2>1, <3>1
    <3> QED
      BY <3>2 DEF LastSaid
<1>10. Wrote(c)' /\ HasRead(c)'
  <2>1. w \in applied'[l.conn] /\ w > 0
    BY <1>2, <1>3
  <2>2. \A k \in Slot : ~(slot[k].gtid > w)
    <3> SUFFICES ASSUME NEW k \in Slot PROVE ~(slot[k].gtid > w)
      OBVIOUS
    <3>1. slot[k].gtid = 0 \/ slot[k].gtid \in 1 .. Len(log)
      BY <1>1, Gtids DEF SerialInv, SlotSays
    <3> QED
      BY <1>3, <3>1
  <2> QED
    BY <1>1, <1>2, <1>3, <2>1, <2>2 DEF Wrote, HasRead, HasAll
<1>11. ASSUME NEW d \in Client, d # c PROVE Wrote(d)' /\ HasRead(d)'
  <2>1. pc'[d] = pc[d] /\ my'[d] = my[d] /\ Wrote(d) /\ HasRead(d)
    BY <1>1, <1>11 DEF SerialInv
  <2>2. pc[d] = "add" => my[d].value \in Master /\ applied'[my[d].value] = 1 .. Len(log')
    <3>1. pc[d] = "add" => my[d].value = l.conn
      BY <1>1, <1>2 DEF FollowInv, Fills, Writing
    <3> QED
      BY <1>2, <1>3, <3>1
  <2>3. Writing(d) => my[d].conn \in Master /\ applied'[my[d].conn] = 1 .. Len(log')
    BY <1>2, <1>3
  <2>4. pc[d] = "mark" => my[d].wrote \in applied'[my[d].conn]
    <3>1. pc[d] = "mark" => my[d].conn \in Master
      BY <1>2, <1>3 DEF Writing
    <3> QED
      BY <1>4, <2>1, <3>1 DEF Wrote
  <2>5. Wrote(d)'
    BY <1>1, <1>6, <2>1, <2>2, <2>3, <2>4 DEF Wrote, HasAll
  <2>6. HasRead(d)'
    <3> SUFFICES ASSUME pc[d] = "read" PROVE HasRead(d)'
      BY <2>1 DEF HasRead
    <3>1. CASE my[d].running # NoHost
      <4>1. /\ HasAll(my[d].running)
            /\ \A e \in Client : Writing(e) => my[d].running = my[e].conn
        BY <2>1, <3>1 DEF HasRead
      <4>2. my[d].running = l.conn
        BY <1>2, <4>1 DEF Writing
      <4> QED
        BY <1>2, <1>3, <1>6, <2>1, <3>1, <4>1, <4>2 DEF HasRead, HasAll
    <3>2. CASE my[d].running = NoHost
      <4>1. /\ my[d].gtid = my[d].max /\ my[d].gtid <= Len(log)
            /\ IF my[d].gtid = 0 THEN my[d].last = NoHost
               ELSE /\ my[d].last \in Master /\ my[d].gtid \in applied[my[d].last]
                    /\ \E k \in Slot : /\ my[d].token - conf.depth - 1 <= k /\ k < my[d].at
                                       /\ slot[k].gtid = my[d].gtid /\ slot[k].host = my[d].last
            /\ \A k \in Slot : my[d].token - conf.depth - 1 <= k /\ k < my[d].at =>
                 slot[k].marker = "executed" /\ slot[k].gtid <= my[d].gtid
        BY <2>1, <3>2 DEF HasRead
      <4>2. my[d].gtid <= Len(log')
        <5>1. my[d].gtid \in Nat
          BY <1>1, Remembered
        <5> QED
          BY <1>2, <1>3, <4>1, <5>1
      <4>3. my[d].gtid # 0 => my[d].gtid \in applied'[my[d].last]
        BY <1>4, <4>1
      <4> QED
        BY <1>1, <2>1, <3>2, <4>1, <4>2, <4>3 DEF HasRead
    <3> QED
      BY <3>1, <3>2
  <2> QED
    BY <2>5, <2>6
<1> QED
  BY <1>1, <1>7, <1>8, <1>9, <1>10, <1>11 DEF SerialInv

(* SerialInv is kept when the token of a write is closed.                  *)
LEMMA SerialClose ==
  ASSUME SlotsInv, Reliable, SerialInv, NEW c \in Client, SetLastWrite(c)
  PROVE  SerialInv'
<1> DEFINE l == my[c]
           t == l.token
<1>1. /\ TypeOK /\ TokensDiffer /\ conf.module = 0 /\ FollowInv /\ AnnounceInv /\ WindowInv
      /\ Certain /\ Waiting
      /\ conf' = conf /\ Slot' = Slot /\ Absent' = Absent
      /\ UNCHANGED <<log, applied, counter, my>>
      /\ \A d \in Client \ {c} : pc'[d] = pc[d]
  <2>1. /\ TypeOK /\ TokensDiffer /\ conf.module = 0 /\ FollowInv /\ AnnounceInv /\ WindowInv
        /\ Certain /\ Waiting
    BY ReliableContext
  <2>2. UNCHANGED <<log, applied, counter, my>> /\ Absent' = Absent
    BY DEF SetLastWrite, Executed, Absent, Plain
  <2> QED
    BY <2>1, <2>2, OthersStay DEF Step
<1>2. /\ pc[c] = "mark" /\ Writing(c) /\ Wrote(c) /\ t \in Slot /\ l.wrote \in Nat
      /\ slot[t] = Plain("running", l.conn) /\ slot[t] # Absent /\ slot[t].gtid = 0
      /\ slot[t].marker = "running"
  <2>1. pc[c] = "mark" /\ Writing(c)
    BY DEF SetLastWrite, Writing
  <2>2. slot[t] = Plain("running", l.conn)
    BY <1>1, <2>1 DEF AnnounceInv, Announced
  <2>3. slot[t] # Absent /\ slot[t].gtid = 0 /\ slot[t].marker = "running"
    BY <2>2, Markers DEF Plain
  <2> QED
    BY <1>1, <2>1, <2>2, <2>3, Remembered DEF SerialInv
<1>3. /\ pc'[c] \in {"idle", "delete"}
      /\ \A k \in Slot : k # t => slot'[k] = slot[k]
      /\ slot'[t].marker = "executed" /\ slot'[t].host = l.conn /\ slot'[t].gtid = l.wrote
  BY <1>1, <1>2, ExecutedOutcome
<1>4. l.wrote \in applied[l.conn] /\ l.wrote > 0 /\ l.wrote \in 1 .. Len(log) /\ HasAll(l.conn)
      /\ \A k \in Slot : slot[k].gtid > l.wrote => slot[k].host = l.conn
  BY <1>2 DEF Wrote, HasAll
<1>5. announced' = announced
  <2>1. \A d \in Client : (Announcing(d)' <=> Announcing(d))
    BY <1>1, <1>2, <1>3 DEF Announcing
  <2> QED
    BY <1>1, <2>1 DEF announced
<1>6. \A d \in Client : (Writing(d)' <=> Writing(d) /\ d # c)
  BY <1>1, <1>3 DEF Writing
<1>7. \A m : HasAll(m)' <=> HasAll(m)
  BY <1>1 DEF HasAll
<1>8. slot'[t] # Absent
  BY <1>3, Markers
<1>9. ASSUME NEW k \in Slot PROVE SlotSays(k)'
  <2>1. CASE k = t
    BY <1>1, <1>3, <1>4, <1>8, <2>1 DEF SlotSays
  <2>2. CASE k # t
    <3>1. slot'[k] = slot[k]
      BY <1>3, <2>2
    <3>2. slot[k].marker = "running" =>
            \E d \in Client : my[d].token = k /\ (Writing(d)' \/ pc'[d] = "add")
      <4> SUFFICES ASSUME slot[k].marker = "running"
                   PROVE  \E d \in Client : my[d].token = k /\ (Writing(d)' \/ pc'[d] = "add")
        OBVIOUS
      <4>1. PICK d \in Client : my[d].token = k /\ (Writing(d) \/ pc[d] = "add")
        BY DEF SerialInv, SlotSays
      <4>2. d # c
        BY <2>2, <4>1
      <4> QED
        BY <1>1, <1>6, <4>1, <4>2
    <3> QED
      BY <1>1, <1>5, <3>1, <3>2 DEF SerialInv, SlotSays
  <2> QED
    BY <2>1, <2>2
<1>10. InOrder'
  <2> SUFFICES ASSUME NEW i \in Slot, NEW j \in Slot, i < j, slot'[i].gtid > slot'[j].gtid,
                      slot'[j].gtid # 0
               PROVE  slot'[i].host = slot'[j].host
    BY <1>1 DEF InOrder
  <2>1. i # j
    BY <1>1, Unwrapped
  <2>2. CASE i = t
    <3>1. slot'[j] = slot[j] /\ slot[j].gtid # 0
      BY <1>3, <2>1, <2>2
    <3>2. slot[j] # Absent
      BY <3>1 DEF Absent, Plain
    <3>3. slot[j].host = l.conn
      BY <1>1, <1>2, <2>2, <3>2 DEF FollowInv, Followed
    <3> QED
      BY <1>3, <2>2, <3>1, <3>3
  <2>3. CASE j = t
    <3>1. slot'[i] = slot[i] /\ slot[i].gtid > l.wrote
      BY <1>3, <2>1, <2>3
    <3> QED
      BY <1>3, <1>4, <2>3, <3>1
  <2>4. CASE i # t /\ j # t
    BY <1>3, <2>4 DEF SerialInv, InOrder
  <2> QED
    BY <2>2, <2>3, <2>4
<1>11. LastSaid'
  <2>1. CASE Len(log) = 0
    BY <1>1, <2>1 DEF LastSaid
  <2>2. CASE \E d \in Client : pc[d] = "run"
    BY <1>1, <1>2, <2>2 DEF LastSaid
  <2>3. CASE Len(log) # 0 /\ \E k \in Slot : SaysLast(k) /\ announced - conf.depth - 1 <= k
    <3>1. PICK k \in Slot : SaysLast(k) /\ announced - conf.depth - 1 <= k
      BY <2>3
    <3>2. SaysLast(k)'
      <4>1. CASE slot[k].gtid = Len(log)
        <5>1. slot'[k] = slot[k]
          BY <1>2, <1>3, <2>3, <4>1
        <5> QED
          BY <1>1, <4>1, <5>1 DEF SaysLast
      <4>2. ASSUME NEW d \in Client, pc[d] = "mark", my[d].token = k, my[d].wrote = Len(log)
            PROVE  SaysLast(k)'
        <5>1. CASE d = c
          BY <1>1, <1>3, <4>2, <5>1 DEF SaysLast
        <5>2. CASE d # c
          BY <1>1, <4>2, <5>2 DEF SaysLast
        <5> QED
          BY <5>1, <5>2
      <4> QED
        BY <3>1, <4>1, <4>2 DEF SaysLast
    <3> QED
      BY <1>1, <1>5, <3>1, <3>2 DEF LastSaid
  <2> QED
    BY <2>1, <2>2, <2>3 DEF SerialInv, LastSaid
<1>12. ASSUME NEW d \in Client, d # c PROVE Wrote(d)'
  <2>1. ASSUME pc[d] = "mark", NEW k \in Slot, slot'[k].gtid > my[d].wrote
        PROVE  slot'[k].host = my[d].conn
    <3>1. CASE k = t
      BY <1>1, <1>2, <1>3, <2>1, <3>1, WritersAgree DEF Writing
    <3>2. CASE k # t
      BY <1>3, <2>1, <3>2 DEF SerialInv, Wrote
    <3> QED
      BY <3>1, <3>2
  <2> QED
    BY <1>1, <1>6, <1>7, <1>12, <2>1 DEF SerialInv, Wrote
<1>13. ASSUME NEW d \in Client, d # c PROVE HasRead(d)'
  <2> SUFFICES ASSUME pc[d] = "read" PROVE HasRead(d)'
    BY <1>1, <1>13 DEF HasRead
  <2>1. CASE my[d].running # NoHost
    BY <1>1, <1>6, <1>7, <2>1 DEF SerialInv, HasRead
  <2>2. CASE my[d].running = NoHost
    <3>1. ~(t < my[d].at)
      <4>1. l.conn # NoHost
        BY <1>2, <1>4, ConstantsAssumption DEF HasAll
      <4> QED
        BY <1>1, <1>2, <2>2, <4>1 DEF FollowInv, HasSeen
    <3>2. \A k \in Slot : k < my[d].at => slot'[k] = slot[k]
      BY <1>3, <3>1
    <3> QED
      BY <1>1, <1>13, <2>2, <3>2 DEF SerialInv, HasRead
  <2> QED
    BY <2>1, <2>2
<1>14. Wrote(c)' /\ HasRead(c)'
  BY <1>3 DEF Wrote, HasRead, Writing
<1> QED
  BY <1>1, <1>9, <1>10, <1>11, <1>12, <1>13, <1>14 DEF SerialInv

(* SerialInv is kept when an old token is deleted, before every window.    *)
LEMMA SerialDelete ==
  ASSUME SlotsInv, Reliable, SerialInv, NEW c \in Client, Delete(c)
  PROVE  SerialInv'
<1> DEFINE old == my[c].token - 2 * conf.depth
<1>1. /\ TypeOK /\ TokenInv /\ TokensDiffer /\ conf.module = 0 /\ FollowInv /\ AnnounceInv
      /\ conf' = conf /\ Slot' = Slot /\ Absent' = Absent
      /\ UNCHANGED <<log, applied, counter, my>>
      /\ \A d \in Client \ {c} : pc'[d] = pc[d]
      /\ counter \in Nat /\ conf.depth \in Nat \ {0} /\ Slot \subseteq Nat
  <2>1. /\ TypeOK /\ TokenInv /\ TokensDiffer /\ conf.module = 0 /\ FollowInv /\ AnnounceInv
    BY ReliableContext
  <2>2. UNCHANGED <<log, applied, counter, my>> /\ Absent' = Absent
    BY DEF Delete, Absent, Plain
  <2> QED
    BY <2>1, <2>2, OthersStay, Unwrapped DEF Step
<1>2. \A d \in Client : my[d].token \in Nat
  BY <1>1, Remembered
<1>3. /\ pc[c] = "delete" /\ my[c].token < counter /\ old \in Int /\ umodule(old) = old
  <2>1. pc[c] = "delete" /\ my[c].token < counter
    BY <1>1 DEF Delete, TokenInv, Busy
  <2>2. old \in Int
    BY <1>1, <1>2
  <2> QED
    BY <1>1, <2>1, <2>2, Unwrapped
<1>4. /\ pc'[c] = "idle"
      /\ \A k \in Slot : slot'[k] = slot[k] \/ (slot'[k] = Absent /\ k = old)
  <2>1. /\ pc'[c] = "idle"
        /\ \A k \in Slot : slot'[k] = slot[k] \/ (slot'[k] = Absent /\ k = umodule(old))
    BY <1>1, DeleteOutcome
  <2> HIDE DEF old
  <2> QED
    BY <1>3, <2>1
<1>5. /\ announced \in Int /\ old < announced - conf.depth - 1
      /\ \A d \in Client : Announcing(d) => announced = my[d].token
  <2>1. /\ announced \in Int /\ announced <= counter /\ counter - 1 <= announced
        /\ \A d \in Client : Announcing(d) => announced = my[d].token
        /\ (\A d \in Client : ~Announcing(d)) => announced = counter
    BY <1>1, AnnouncedAt
  <2>2. CASE \E d \in Client : Announcing(d)
    <3>1. PICK d \in Client : Announcing(d)
      BY <2>2
    <3>2. d # c /\ my[d].token = counter - 1 /\ announced = counter - 1
      BY <1>1, <1>3, <2>1, <3>1 DEF FollowInv, OnlyOne, Announcing
    <3>3. my[d].token # my[c].token
      BY <1>1, <1>3, <3>1, <3>2 DEF TokensDiffer, Announcing
    <3>4. my[c].token < counter - 1
      BY <1>1, <1>2, <1>3, <3>2, <3>3
    <3> HIDE DEF announced
    <3> QED
      BY <1>1, <1>2, <2>1, <3>2, <3>4
  <2>3. CASE ~\E d \in Client : Announcing(d)
    <3>1. announced = counter
      BY <2>1, <2>3
    <3> HIDE DEF announced
    <3> QED
      BY <1>1, <1>2, <1>3, <2>1, <3>1
  <2> QED
    BY <2>2, <2>3
<1>6. announced' = announced
  <2>1. \A d \in Client : (Announcing(d)' <=> Announcing(d))
    BY <1>1, <1>3, <1>4 DEF Announcing
  <2> QED
    BY <1>1, <2>1 DEF announced
<1> HIDE DEF old, announced
<1>7. /\ \A k \in Slot : announced - conf.depth - 1 <= k => slot'[k] = slot[k]
      /\ \A k \in Slot : slot'[k].gtid # 0 \/ slot'[k].marker # "absent" => slot'[k] = slot[k]
  <2>1. ASSUME NEW k \in Slot, announced - conf.depth - 1 <= k PROVE slot'[k] = slot[k]
    <3>1. k \in Nat
      BY <1>1
    <3>2. k # old
      BY <1>1, <1>3, <1>5, <2>1, <3>1
    <3> QED
      BY <1>4, <3>2
  <2>2. Absent.gtid = 0 /\ Absent.marker = "absent"
    BY DEF Absent, Plain
  <2> QED
    BY <1>4, <2>1, <2>2
<1>8. \A d \in Client : /\ Writing(d)' <=> Writing(d)
                        /\ (pc'[d] = "add") <=> (pc[d] = "add")
                        /\ (pc'[d] = "read") <=> (pc[d] = "read")
                        /\ (pc'[d] = "mark") <=> (pc[d] = "mark")
                        /\ (pc'[d] = "run") <=> (pc[d] = "run")
                        /\ pc[d] # "clean" => pc'[d] # "clean"
  BY <1>1, <1>3, <1>4 DEF Writing
<1>9. \A m : HasAll(m)' <=> HasAll(m)
  BY <1>1 DEF HasAll
<1>10. ASSUME NEW k \in Slot PROVE SlotSays(k)'
  <2>1. slot'[k].marker # "absent" => slot'[k] = slot[k]
    BY <1>7
  <2>2. slot[k].marker = "running" =>
          \E d \in Client : my[d].token = k /\ (Writing(d)' \/ pc'[d] = "add")
    BY <1>8 DEF SerialInv, SlotSays
  <2>3. slot[k].marker = "executed" =>
          slot[k].gtid \in 1 .. Len(log) /\ slot[k].gtid \in applied[slot[k].host]
    BY DEF SerialInv, SlotSays
  <2>4. announced - conf.depth - 1 <= k /\ k < announced => slot'[k] # Absent
    BY <1>7 DEF SerialInv, SlotSays
  <2> QED
    BY <1>1, <1>6, <2>1, <2>2, <2>3, <2>4 DEF SlotSays
<1>11. InOrder'
  <2> SUFFICES ASSUME NEW i \in Slot, NEW j \in Slot, i < j, slot'[i].gtid > slot'[j].gtid,
                      slot'[j].gtid # 0
               PROVE  slot'[i].host = slot'[j].host
    BY <1>1 DEF InOrder
  <2>1. slot'[j] = slot[j] /\ slot[j].gtid \in Nat /\ slot[j].gtid # 0
    BY <1>1, <1>7, Gtids
  <2>2. slot'[i].gtid # 0
    BY <2>1
  <2>3. slot'[i] = slot[i]
    BY <1>7, <2>2
  <2> QED
    BY <2>1, <2>3 DEF SerialInv, InOrder
<1>12. LastSaid'
  <2>1. ASSUME NEW k \in Slot, SaysLast(k), announced - conf.depth - 1 <= k PROVE SaysLast(k)'
    BY <1>1, <1>7, <1>8, <2>1 DEF SaysLast
  <2> QED
    BY <1>1, <1>6, <1>8, <2>1 DEF SerialInv, LastSaid
<1>13. ASSUME NEW d \in Client PROVE Wrote(d)'
  <2>1. ASSUME pc[d] = "mark", NEW k \in Slot, slot'[k].gtid > my[d].wrote
        PROVE  slot'[k].host = my[d].conn
    <3>1. my[d].wrote \in Nat
      BY <1>1, Remembered
    <3>2. slot'[k] = slot[k]
      BY <1>7, <2>1, <3>1
    <3> QED
      BY <2>1, <3>2 DEF SerialInv, Wrote
  <2> QED
    BY <1>1, <1>8, <1>9, <2>1 DEF SerialInv, Wrote
<1>14. ASSUME NEW d \in Client PROVE HasRead(d)'
  <2> SUFFICES ASSUME pc[d] = "read" PROVE HasRead(d)'
    BY <1>8 DEF HasRead
  <2>1. \A k \in Slot : my[d].token - conf.depth - 1 <= k => slot'[k] = slot[k]
    BY <1>5, <1>7 DEF Announcing
  <2>2. CASE my[d].running # NoHost
    BY <1>1, <1>8, <1>9, <2>2 DEF SerialInv, HasRead
  <2>3. CASE my[d].running = NoHost
    BY <1>1, <1>8, <2>1, <2>3 DEF SerialInv, HasRead
  <2> QED
    BY <2>2, <2>3
<1> QED
  BY <1>1, <1>10, <1>11, <1>12, <1>13, <1>14 DEF SerialInv

(* Replication does not disturb it: a write is replicated after those its  *)
(* master had.                                                             *)
LEMMA SerialReplicate ==
  ASSUME SlotsInv, Reliable, LogInv, SerialInv,
         NEW m \in Master, NEW w \in 1 .. Len(log), Replicate(m, w)
  PROVE  LogInv' /\ SerialInv'
<1>1. /\ TypeOK /\ AnnounceInv /\ conf.module = 0 /\ Causal
      /\ UNCHANGED <<conf, counter, slot, log, pc, my>> /\ Slot' = Slot /\ Absent' = Absent
      /\ \A n \in Master : applied[n] \subseteq 1 .. Len(log)
  <2>1. TypeOK /\ AnnounceInv /\ conf.module = 0 /\ Causal
    BY ReliableContext
  <2>2. UNCHANGED <<conf, counter, slot, log, pc, my>>
    BY DEF Replicate
  <2> QED
    BY <2>1, <2>2 DEF Slot, Absent, Plain, TypeOK
<1>2. /\ log[w].seen \subseteq applied[m]
      /\ applied'[m] = applied[m] \union {w} /\ \A n \in Master \ {m} : applied'[n] = applied[n]
  <2>1. applied' = [applied EXCEPT ![m] = @ \union {w}]
    BY DEF Replicate
  <2> QED
    BY <1>1, <2>1 DEF Replicate, TypeOK
<1>3. \A n \in Master : applied[n] \subseteq applied'[n] /\ applied'[n] \subseteq 1 .. Len(log)
  BY <1>1, <1>2
<1>4. LogInv'
  <2>1. ASSUME NEW n \in Master, NEW v \in applied'[n] PROVE log[v].seen \subseteq applied'[n]
    <3>1. CASE v \in applied[n]
      BY <1>3, <3>1 DEF LogInv
    <3>2. CASE v \notin applied[n]
      BY <1>2, <2>1, <3>2
    <3> QED
      BY <3>1, <3>2
  <2> QED
    BY <1>1, <2>1 DEF LogInv
<1>5. \A n : HasAll(n) => n \in Master /\ applied'[n] = 1 .. Len(log')
  BY <1>1, <1>3 DEF HasAll
<1>6. announced' = announced /\ \A d \in Client : (Writing(d)' <=> Writing(d))
  BY <1>1 DEF announced, Announcing, Writing
<1>7. ASSUME NEW k \in Slot PROVE SlotSays(k)'
  <2>1. slot[k].marker = "executed" =>
          slot[k].gtid \in 1 .. Len(log) /\ slot[k].gtid \in applied'[slot[k].host]
    <3> SUFFICES ASSUME slot[k].marker = "executed"
                 PROVE slot[k].gtid \in 1 .. Len(log) /\ slot[k].gtid \in applied'[slot[k].host]
      OBVIOUS
    <3>1. slot[k] # Absent
      BY Markers
    <3>2. slot[k].host \in Master
      BY <1>1, <3>1, Taken
    <3> QED
      BY <1>3, <3>2 DEF SerialInv, SlotSays
  <2> QED
    BY <1>1, <1>6, <2>1 DEF SerialInv, SlotSays
<1>8. InOrder' /\ LastSaid'
  <2>1. \A k : SaysLast(k)' <=> SaysLast(k)
    BY <1>1 DEF SaysLast
  <2> QED
    BY <1>1, <1>6, <2>1 DEF SerialInv, InOrder, LastSaid
<1>9. ASSUME NEW d \in Client PROVE Wrote(d)'
  <2>1. pc[d] = "mark" => my[d].wrote \in applied'[my[d].conn]
    <3>1. pc[d] = "mark" => my[d].conn \in Master /\ my[d].wrote \in applied[my[d].conn]
      BY DEF SerialInv, Wrote, HasAll, Writing
    <3> QED
      BY <1>3, <3>1
  <2> QED
    BY <1>1, <1>5, <1>6, <2>1 DEF SerialInv, Wrote, HasAll
<1>10. ASSUME NEW d \in Client PROVE HasRead(d)'
  <2> SUFFICES ASSUME pc[d] = "read" PROVE HasRead(d)'
    BY <1>1 DEF HasRead
  <2>1. CASE my[d].running # NoHost
    BY <1>1, <1>5, <1>6, <2>1 DEF SerialInv, HasRead, HasAll
  <2>2. CASE my[d].running = NoHost
    <3>1. my[d].gtid # 0 => my[d].last \in Master /\ my[d].gtid \in applied'[my[d].last]
      BY <1>3, <2>2 DEF SerialInv, HasRead
    <3> QED
      BY <1>1, <2>2, <3>1 DEF SerialInv, HasRead
  <2> QED
    BY <2>1, <2>2
<1> QED
  BY <1>1, <1>4, <1>7, <1>8, <1>9, <1>10 DEF SerialInv

(* LogInv and SerialInv are kept.                                          *)
LEMMA SerialStep ==
  ASSUME SlotsInv, Reliable, LogInv, SerialInv, [Next]_vars
  PROVE  LogInv' /\ SerialInv'
<1>1. /\ TypeOK /\ StateInv /\ conf.module = 0 /\ conf.faults = {} /\ FollowInv
  BY ReliableContext
<1>2. ASSUME NEW c \in Client, Step(c) \/ Crash(c) PROVE LogInv' /\ SerialInv'
  <2>1. ~Crash(c) /\ ~Fail(c) /\ ~Clean(c) /\ ~Wrap(c) /\ ~Get(c)
    BY <1>1 DEF Crash, Fail, Clean, Wrap, Get, StateInv, FollowInv, Fills, SerialInv, Wrote
  <2>2. CASE Commit(c)
    <3>1. HasAll(my[c].conn)
      BY <2>2 DEF Commit, Writing, SerialInv, Wrote
    <3> QED
      BY <1>1, <2>2, <3>1, CommitLog, SerialCommit
  <2>3. CASE ~Commit(c)
    <3>1. UNCHANGED <<log, applied>>
      BY <1>2, <2>1, <2>3 DEF Step, Start, Read, Choose, Add, Switch, SetLastWrite, Executed, Delete
    <3>2. LogInv'
      BY <3>1 DEF LogInv
    <3> QED
      BY <1>2, <2>1, <2>3, <3>2, SerialStart, SerialRead, SerialChoose, SerialAdd, SerialSwitch,
         SerialClose, SerialDelete DEF Step
  <2> QED
    BY <2>2, <2>3
<1>3. CASE UNCHANGED vars
  <2>1. announced' = announced /\ Slot' = Slot /\ Absent' = Absent
    BY <1>3 DEF vars, announced, Announcing, Slot, Absent, Plain
  <2>2. LogInv' /\ InOrder' /\ LastSaid' /\ \A k \in Slot : SlotSays(k)'
    BY <1>3, <2>1 DEF vars, LogInv, SerialInv, InOrder, LastSaid, SaysLast, SlotSays, Writing
  <2>3. \A d \in Client : Wrote(d)' /\ HasRead(d)'
    BY <1>3, <2>1 DEF vars, SerialInv, Wrote, HasRead, HasAll, Writing
  <2> QED
    BY <2>1, <2>2, <2>3 DEF SerialInv
<1> QED
  BY <1>2, <1>3, SerialReplicate DEF Next

(* In the beginning there is no write.                                     *)
LEMMA SerialInit ==
  Init => LogInv /\ SerialInv
<1> SUFFICES ASSUME Init PROVE LogInv /\ SerialInv
  OBVIOUS
<1>1. /\ \A c \in Client : pc[c] \in {"idle", "gone"}
      /\ log = <<>> /\ Len(log) = 0 /\ counter = 0 /\ applied = [m \in Master |-> {}]
      /\ \A k \in Slot : slot[k] = Absent
  BY DEF Init
<1>2. LogInv
  BY <1>1 DEF LogInv
<1>3. announced = 0 /\ Slot \subseteq Nat
  BY <1>1, ConfType, InitTypes DEF announced, Announcing
<1>4. \A k \in Slot : SlotSays(k)
  <2>1. \A k \in Slot : ~(k < announced) /\ slot[k].marker = "absent"
    BY <1>1, <1>3 DEF Absent, Plain
  <2> QED
    BY <2>1 DEF SlotSays
<1>5. InOrder /\ LastSaid
  BY <1>1 DEF InOrder, LastSaid, Absent, Plain
<1>6. \A c \in Client : Wrote(c) /\ HasRead(c)
  BY <1>1 DEF Wrote, HasRead, Writing
<1> QED
  BY <1>2, <1>4, <1>5, <1>6 DEF SerialInv

(* A write goes to a master that has all the writes before it, and nothing *)
(* else writes: every step is one of SerialWrites, or none.                *)
LEMMA StepIsSerial ==
  ASSUME SlotsInv, Reliable, LogInv, SerialInv, [Next]_vars
  PROVE  [Promise!Next]_(Promise!vars)
<1>1. TypeOK /\ StateInv
  BY ReliableContext
<1>2. ASSUME NEW c \in Client, Step(c) \/ Crash(c) PROVE [Promise!Next]_(Promise!vars)
  <2>1. CASE Commit(c)
    <3>1. my[c].conn \in Master /\ applied[my[c].conn] = 1 .. Len(log)
      BY <2>1 DEF Commit, Writing, SerialInv, Wrote, HasAll
    <3>2. Len(log') = Len(log) + 1
      BY <1>1, <2>1, CommitOutcome
    <3>3. applied' = [applied EXCEPT ![my[c].conn] = @ \union {Len(log) + 1}]
      BY <2>1 DEF Commit
    <3>4. Promise!Write(my[c].conn)
      BY <3>1, <3>2, <3>3 DEF Promise!Write
    <3> QED
      BY <3>1, <3>4 DEF Promise!Next
  <2>2. CASE ~Commit(c)
    <3>1. UNCHANGED <<log, applied>>
      BY <1>2, <2>2 DEF Step, Start, Wrap, Read, Choose, Add, Get, Switch, Fail, SetLastWrite, Clean,
                        Executed, Delete, Crash
    <3> QED
      BY <3>1 DEF Promise!vars
  <2> QED
    BY <2>1, <2>2
<1>3. ASSUME NEW m \in Master, NEW w \in 1 .. Len(log), Replicate(m, w)
      PROVE  [Promise!Next]_(Promise!vars)
  <2>1. Promise!Replicate(m)
    BY <1>3 DEF Replicate, Promise!Replicate
  <2> QED
    BY <2>1 DEF Promise!Next
<1>4. CASE UNCHANGED vars
  BY <1>4 DEF vars, Promise!vars
<1> QED
  BY <1>2, <1>3, <1>4 DEF Next

(* What write consistency is for: without modulo, when clients announce    *)
(* themselves one after the other and nothing fails, and a master          *)
(* replicates a write after all that its origin had, the writes of any     *)
(* number of clients on any number of masters are serial, whatever the     *)
(* window (running_wdepth), whether or not slots are read one by one       *)
(* (use_get) and old ones are deleted (auto_clean).                        *)
THEOREM WritesAreSerial == Spec /\ Reliable => ImplementsSerialWrites
<1> DEFINE SInv == SlotsInv /\ Reliable /\ LogInv /\ SerialInv
<1>1. Init /\ Reliable => SInv
  BY SlotsInit, SerialInit
<1>2. SInv /\ [Next]_vars => SInv'
  <2> SUFFICES ASSUME SInv, [Next]_vars PROVE SInv'
    OBVIOUS
  <2>1. SlotsInv' /\ conf' = conf
    BY SlotsStep
  <2>2. Reliable'
    BY <2>1 DEF Reliable, Waiting
  <2> QED
    BY <2>1, <2>2, SerialStep
<1>3. Init => Promise!Init
  BY DEF Init, Promise!Init
<1>4. SInv /\ [Next]_vars => [Promise!Next]_(Promise!vars)
  BY StepIsSerial
<1> QED
  BY <1>1, <1>2, <1>3, <1>4, PTL DEF Spec, ImplementsSerialWrites, Promise!Spec
=============================================================================

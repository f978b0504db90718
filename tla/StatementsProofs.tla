--------------------------- MODULE StatementsProofs ---------------------------
(***************************************************************************)
(* What the loops around query and execute guarantee, that a transaction   *)
(* stays on the server that has been sent its BEGIN, that a statement      *)
(* stays in its partition, and that session consistency reads one's own    *)
(* writes: for any chain of filters, any statements and any number of      *)
(* slaves.                                                                 *)
(***************************************************************************)
EXTENDS Statements, FiniteSetTheorems, SequenceTheorems, TLAPS

-----------------------------------------------------------------------------
(* Counting the entries of the log.                                        *)

(* There are at most n counts among the first n entries.                   *)
LEMMA CountsType ==
  ASSUME NEW n \in Nat
  PROVE  Counts(n) \in 0 .. n
<1> DEFINE S == {i \in 1 .. n : log[i] = "count"}
<1>1. IsFiniteSet(1 .. n) /\ Cardinality(1 .. n) = n
  BY FS_Interval, SMTT(30)
<1>2. S \in SUBSET (1 .. n)
  OBVIOUS
<1>3. IsFiniteSet(S) /\ Cardinality(S) <= n
  BY <1>1, <1>2, FS_Subset
<1>4. Cardinality(S) \in Nat
  BY <1>3, FS_CardinalityType
<1>5. Counts(n) = Cardinality(S)
  BY DEF Counts
<1> HIDE DEF S
<1> QED
  BY <1>3, <1>4, <1>5

(* More entries, more counts.                                              *)
LEMMA CountsGrow ==
  ASSUME NEW m \in Nat, NEW n \in Nat, m <= n
  PROVE  Counts(m) <= Counts(n)
<1> DEFINE S(k) == {i \in 1 .. k : log[i] = "count"}
<1>1. IsFiniteSet(1 .. n)
  BY FS_Interval
<1>2. S(n) \in SUBSET (1 .. n) /\ S(m) \in SUBSET S(n)
  OBVIOUS
<1>3. IsFiniteSet(S(n))
  BY <1>1, <1>2, FS_Subset
<1>4. Cardinality(S(m)) <= Cardinality(S(n))
  BY <1>2, <1>3, FS_Subset
<1> QED
  BY <1>4 DEF Counts

(* The next entry counts, or it does not.                                  *)
LEMMA CountsNext ==
  ASSUME NEW n \in Nat
  PROVE  Counts(n + 1) = IF log[n + 1] = "count" THEN Counts(n) + 1 ELSE Counts(n)
<1> DEFINE S(k) == {i \in 1 .. k : log[i] = "count"}
<1>1. IsFiniteSet(1 .. n) /\ S(n) \in SUBSET (1 .. n)
  BY FS_Interval
<1>2. IsFiniteSet(S(n)) /\ n + 1 \notin S(n)
  BY <1>1, FS_Subset
<1>3. CASE log[n + 1] = "count"
  <2>1. S(n + 1) = S(n) \union {n + 1}
    BY <1>3
  <2>2. Cardinality(S(n) \union {n + 1}) = Cardinality(S(n)) + 1
    BY <1>2, FS_AddElement
  <2> QED
    BY <1>3, <2>1, <2>2 DEF Counts
<1>4. CASE log[n + 1] # "count"
  <2>1. S(n + 1) = S(n)
    BY <1>4
  <2> QED
    BY <1>4, <2>1 DEF Counts
<1> QED
  BY <1>3, <1>4

(* What has been counted stays.                                            *)
LEMMA CountsStay ==
  ASSUME NEW n \in Nat, \A i \in 1 .. n : log'[i] = log[i]
  PROVE  Counts(n)' = Counts(n)
BY DEF Counts

Entry == {"own", "count"}

(* The log with one entry more.                                            *)
LEMMA LogAppended ==
  ASSUME log \in Seq(Entry), NEW entry \in Entry, log' = Append(log, entry)
  PROVE  /\ log' \in Seq(Entry) /\ Len(log) \in Nat /\ Len(log') = Len(log) + 1
         /\ \A i \in 1 .. Len(log) : log'[i] = log[i]
         /\ log'[Len(log) + 1] = entry
         /\ \A n \in 0 .. Len(log) : Counts(n)' = Counts(n)
         /\ LastGtid' = IF entry = "count" THEN LastGtid + 1 ELSE LastGtid
<1>1. /\ log' \in Seq(Entry) /\ Len(log) \in Nat /\ Len(log') = Len(log) + 1
      /\ \A i \in 1 .. Len(log) : log'[i] = log[i]
      /\ log'[Len(log) + 1] = entry
  OBVIOUS
<1>2. \A n \in 0 .. Len(log) : Counts(n)' = Counts(n)
  BY <1>1, CountsStay
<1> DEFINE m == Len(log)
           S == {i \in 1 .. m : log[i] = "count"}
           T == {i \in 1 .. m + 1 : log'[i] = "count"}
<1>3. IsFiniteSet(S) /\ m + 1 \notin S
  <2>1. IsFiniteSet(1 .. m) /\ S \in SUBSET (1 .. m)
    BY <1>1, FS_Interval
  <2> QED
    BY <1>1, <2>1, FS_Subset
<1>4. T = IF entry = "count" THEN S \union {m + 1} ELSE S
  BY <1>1
<1>5. Cardinality(T) = IF entry = "count" THEN Cardinality(S) + 1 ELSE Cardinality(S)
  BY <1>3, <1>4, FS_AddElement
<1>6. LastGtid' = Cardinality(T) /\ LastGtid = Cardinality(S)
  BY <1>1 DEF LastGtid, Counts
<1> QED
  BY <1>1, <1>2, <1>5, <1>6

(* Every GTID still has its entry, and there is still a last own write.    *)
LEMMA LogGrows ==
  ASSUME log \in Seq(Entry), LogInv, UNCHANGED conf, conf.gtid,
         NEW entry \in Entry, log' = Append(log, entry)
  PROVE  LogInv'
<1> DEFINE m == Len(log)
<1>1. /\ m \in Nat /\ Len(log') = m + 1 /\ log'[m + 1] = entry
      /\ \A i \in 1 .. m : log'[i] = log[i]
      /\ \A n \in 0 .. m : Counts(n)' = Counts(n)
      /\ LastGtid' = IF entry = "count" THEN LastGtid + 1 ELSE LastGtid
  BY LogAppended
<1>2. LastGtid \in Nat /\ LastGtid = Counts(m)
  BY <1>1, CountsType DEF LastGtid
<1>3. ASSUME NEW gtid \in 1 .. LastGtid'
      PROVE  \E i \in 1 .. Len(log)' : log'[i] = "count" /\ Counts(i)' = gtid
  <2>1. CASE gtid \in 1 .. LastGtid
    <3>1. PICK i \in 1 .. m : log[i] = "count" /\ Counts(i) = gtid
      BY <2>1 DEF LogInv
    <3>2. i \in 1 .. Len(log') /\ log'[i] = "count" /\ Counts(i)' = gtid
      BY <1>1, <3>1
    <3> QED
      BY <3>2
  <2>2. CASE gtid \notin 1 .. LastGtid
    <3>1. entry = "count" /\ gtid = LastGtid'
      BY <1>1, <1>2, <2>2
    <3>2. PICK i \in 1 .. Len(log') : i = Len(log')
      BY <1>1
    <3>3. log'[i] = "count" /\ Counts(i)' = LastGtid'
      BY <1>1, <3>1, <3>2 DEF LastGtid
    <3> QED
      BY <3>1, <3>3
  <2> QED
    BY <2>1, <2>2
<1>4. \E last \in 0 .. Len(log)' : /\ last # 0 => log'[last] = "own"
                                   /\ \A i \in 1 .. Len(log)' : log'[i] = "own" => i <= last
  <2>1. CASE entry = "own"
    <3>1. m + 1 \in 0 .. Len(log') /\ \A i \in 1 .. Len(log') : i <= m + 1
      BY <1>1
    <3> QED
      BY <1>1, <2>1, <3>1
  <2>2. CASE entry = "count"
    <3>1. PICK last \in 0 .. m : /\ last # 0 => log[last] = "own"
                                 /\ \A i \in 1 .. m : log[i] = "own" => i <= last
      BY DEF LogInv
    <3>2. last \in 0 .. Len(log') /\ (last # 0 => log'[last] = "own")
      BY <1>1, <3>1
    <3>3. ASSUME NEW i \in 1 .. Len(log'), log'[i] = "own" PROVE i <= last
      BY <1>1, <2>2, <3>1, <3>3
    <3> QED
      BY <3>2, <3>3
  <2> QED
    BY <2>1, <2>2 DEF Entry
<1> QED
  BY <1>3, <1>4 DEF LogInv

(* LastOwn is the last own write.                                          *)
LEMMA LastOwnType ==
  ASSUME log \in Seq(Entry), LogInv
  PROVE  /\ LastOwn \in 0 .. Len(log)
         /\ LastOwn # 0 => log[LastOwn] = "own"
         /\ \A i \in 1 .. Len(log) : log[i] = "own" => i <= LastOwn
<1> DEFINE own == {i \in 1 .. Len(log) : log[i] = "own"}
           S == {0} \union own
<1>1. PICK last \in 0 .. Len(log) : /\ last # 0 => log[last] = "own"
                                    /\ \A i \in 1 .. Len(log) : log[i] = "own" => i <= last
  BY DEF LogInv
<1>2. last \in S /\ \A i \in S : last >= i
  BY <1>1
<1>3. Max(S) \in S /\ \A i \in S : Max(S) >= i
  BY <1>2 DEF Max
<1>4. LastOwn = Max(S)
  BY DEF LastOwn
<1> HIDE DEF S
<1>5. LastOwn \in S /\ \A i \in S : LastOwn >= i
  BY <1>3, <1>4
<1> QED
  BY <1>5 DEF S

(* The entry that counts a GTID.                                           *)
LEMMA EntryOfType ==
  ASSUME log \in Seq(Entry), LogInv, NEW gtid \in 1 .. LastGtid
  PROVE  EntryOf(gtid) \in 1 .. Len(log) /\ log[EntryOf(gtid)] = "count" /\ Counts(EntryOf(gtid)) = gtid
<1>1. \E i \in 1 .. Len(log) : log[i] = "count" /\ Counts(i) = gtid
  BY DEF LogInv
<1> HIDE DEF Counts, LastGtid
<1> QED
  BY <1>1 DEF EntryOf

-----------------------------------------------------------------------------
(* Chains of filters.                                                      *)

(* A chain ends with the filter that picks, and has each filter once.      *)
LEMMA ChainType ==
  ASSUME NEW f \in Chain
  PROVE  /\ f \in Seq(Filter) /\ Len(f) \in Nat \ {0} /\ DOMAIN f = 1 .. Len(f)
         /\ \A i \in DOMAIN f : f[i] \in Filter /\ (f[i] \in {"user", "balance"} <=> i = Len(f))
         /\ \A i, j \in DOMAIN f : f[i] = f[j] => i = j
<1>1. /\ f \in Seq(Filter) /\ f # <<>>
      /\ \A i \in DOMAIN f : f[i] \in {"user", "balance"} <=> i = Len(f)
      /\ \A i, j \in DOMAIN f : f[i] = f[j] => i = j
  BY DEF Chain
<1>2. DOMAIN f = 1 .. Len(f) /\ Len(f) \in Nat /\ Len(f) # 0
  BY <1>1
<1>3. \A i \in DOMAIN f : f[i] \in Filter
  BY <1>1, <1>2
<1> QED
  BY <1>1, <1>2, <1>3

(* An element is taken out.                                                *)
LEMMA OneRemoved ==
  ASSUME NEW S, NEW f \in Seq(S), NEW p \in 1 .. Len(f), NEW h, h = RemoveAt(f, p)
  PROVE  /\ h \in Seq(S) /\ Len(h) = Len(f) - 1
         /\ \A i \in 1 .. Len(f) - 1 : h[i] = IF i < p THEN f[i] ELSE f[i + 1]
<1> DEFINE n == Len(f)
           a == SubSeq(f, 1, p - 1)
           b == SubSeq(f, p + 1, n)
<1>1. n \in Nat /\ p \in Int /\ p - 1 \in Int /\ p + 1 \in Int /\ n \in Int
      /\ \A i \in 1 .. n : f[i] \in S
  OBVIOUS
<1>2. a \in Seq(S) /\ Len(a) = p - 1 /\ \A i \in 1 .. p - 1 : a[i] = f[i]
  <2>1. \A i \in 1 .. p - 1 : f[i] \in S
    BY <1>1
  <2>2. /\ a \in Seq(S) /\ Len(a) = IF 1 <= p - 1 THEN p - 1 - 1 + 1 ELSE 0
        /\ \A i \in 1 .. p - 1 - 1 + 1 : a[i] = f[1 + i - 1]
    BY <1>1, <2>1, SubSeqProperties
  <2> QED
    BY <2>2
<1>3. b \in Seq(S) /\ Len(b) = n - p /\ \A i \in 1 .. n - p : b[i] = f[p + i]
  <2>1. \A i \in p + 1 .. n : f[i] \in S
    BY <1>1
  <2>2. /\ b \in Seq(S) /\ Len(b) = IF p + 1 <= n THEN n - (p + 1) + 1 ELSE 0
        /\ \A i \in 1 .. n - (p + 1) + 1 : b[i] = f[p + 1 + i - 1]
    BY <1>1, <2>1, SubSeqProperties
  <2>3. p \in 1 .. n
    OBVIOUS
  <2> HIDE DEF b, n
  <2>4. n - (p + 1) + 1 = n - p /\ n - p \in Nat /\ \A i \in 1 .. n - p : p + 1 + i - 1 = p + i
    BY <1>1, <2>3
  <2>5. Len(b) = n - p
    BY <1>1, <2>2, <2>3, <2>4
  <2>6. ASSUME NEW i \in 1 .. n - p PROVE b[i] = f[p + i]
    BY <2>2, <2>4
  <2> QED
    BY <2>2, <2>5, <2>6
<1>4. h = a \o b
  BY DEF RemoveAt
<1> HIDE DEF a, b
<1>5. /\ a \o b \in Seq(S) /\ Len(a \o b) = Len(a) + Len(b)
      /\ \A i \in 1 .. Len(a) + Len(b) :
           (a \o b)[i] = IF i <= Len(a) THEN a[i] ELSE b[i - Len(a)]
  BY <1>2, <1>3, ConcatProperties
<1>6. h \in Seq(S) /\ Len(h) = n - 1
  BY <1>1, <1>2, <1>3, <1>4, <1>5
<1>7. ASSUME NEW i \in 1 .. n - 1 PROVE h[i] = IF i < p THEN f[i] ELSE f[i + 1]
  <2>1. i \in 1 .. Len(a) + Len(b)
    BY <1>1, <1>2, <1>3
  <2>2. h[i] = IF i <= p - 1 THEN a[i] ELSE b[i - (p - 1)]
    BY <1>2, <1>4, <1>5, <2>1
  <2>3. CASE i < p
    <3>1. i <= p - 1 /\ i \in 1 .. p - 1
      BY <2>3
    <3> QED
      BY <1>2, <2>2, <2>3, <3>1
  <2>4. CASE ~(i < p)
    <3>1. ~(i <= p - 1) /\ i - (p - 1) \in 1 .. n - p /\ p + (i - (p - 1)) = i + 1
      BY <1>1, <2>4
    <3> QED
      BY <1>3, <2>2, <2>4, <3>1
  <2> QED
    BY <2>3, <2>4
<1> QED
  BY <1>6, <1>7

\* g is f with "qos" put at the front, and taken out at p if it was there.
Fronted(f, g, p) ==
  /\ IF p <= Len(f) THEN f[p] = "qos" /\ Len(g) = Len(f)
     ELSE (\A i \in 1 .. Len(f) : f[i] # "qos") /\ Len(g) = Len(f) + 1
  /\ g \in Seq(Filter) /\ DOMAIN g = 1 .. Len(g) /\ g[1] = "qos"
  /\ \A i \in 2 .. Len(g) : g[i] = IF i <= p THEN f[i - 1] ELSE f[i]

(* The filter is taken out, wherever it is, and put at the front.          *)
LEMMA PutInFront ==
  ASSUME NEW f \in Chain, NEW g, g = <<"qos">> \o RemoveFirst(f, "qos")
  PROVE  \E p \in 1 .. Len(f) + 1 : Fronted(f, g, p)
<1> DEFINE n == Len(f)
           h == RemoveFirst(f, "qos")
<1>1. /\ f \in Seq(Filter) /\ n \in Nat \ {0}
      /\ \A i, j \in 1 .. n : f[i] = f[j] => i = j
  BY ChainType
<1>2. PICK p \in 1 .. n + 1 :
        /\ IF p <= n THEN f[p] = "qos" /\ Len(h) = n - 1
           ELSE (\A i \in 1 .. n : f[i] # "qos") /\ Len(h) = n
        /\ h \in Seq(Filter)
        /\ \A i \in 1 .. Len(h) : h[i] = IF i < p THEN f[i] ELSE f[i + 1]
  <2>1. CASE \E p \in 1 .. n : f[p] = "qos"
    <3>1. PICK p \in 1 .. n : f[p] = "qos"
      BY <2>1
    <3> DEFINE I == {i \in 1 .. n : f[i] = "qos"}
    <3>2. I = {p}
      BY <1>1, <3>1
    <3>3. Min(I) = p
      BY <3>2 DEF Min
    <3>4. h = RemoveAt(f, p)
      BY <2>1, <3>2, <3>3 DEF RemoveFirst, SelectInSeq
    <3>5. /\ h \in Seq(Filter) /\ Len(h) = n - 1
          /\ \A i \in 1 .. n - 1 : h[i] = IF i < p THEN f[i] ELSE f[i + 1]
      BY <1>1, <3>1, <3>4, OneRemoved
    <3>6. p \in 1 .. n + 1 /\ p <= n
      BY <1>1
    <3> HIDE DEF h
    <3> QED
      BY <3>1, <3>5, <3>6
  <2>2. CASE ~(\E p \in 1 .. n : f[p] = "qos")
    <3>1. h = f
      BY <2>2 DEF RemoveFirst
    <3>2. n + 1 \in 1 .. n + 1 /\ ~(n + 1 <= n) /\ \A i \in 1 .. n : i < n + 1
      BY <1>1
    <3> HIDE DEF h
    <3> QED
      BY <1>1, <2>2, <3>1, <3>2
  <2> QED
    BY <2>1, <2>2
<1> HIDE DEF h
<1>3. g = <<"qos">> \o h /\ <<"qos">> \in Seq(Filter) /\ Len(<<"qos">>) = 1 /\ <<"qos">>[1] = "qos"
  BY DEF h, Filter
<1> DEFINE q == <<"qos">>
<1>9. h \in Seq(Filter) /\ q \in Seq(Filter) /\ g = q \o h /\ Len(q) = 1 /\ q[1] = "qos"
  BY <1>2, <1>3
<1> HIDE DEF q
<1>10. /\ q \o h \in Seq(Filter) /\ Len(q \o h) = Len(q) + Len(h)
       /\ \A i \in 1 .. Len(q) + Len(h) :
            (q \o h)[i] = IF i <= Len(q) THEN q[i] ELSE h[i - Len(q)]
  BY <1>9, ConcatProperties
<1>4. /\ g \in Seq(Filter) /\ Len(g) = 1 + Len(h)
      /\ \A i \in 1 .. 1 + Len(h) : g[i] = IF i <= 1 THEN q[i] ELSE h[i - 1]
  BY <1>9, <1>10
<1>5. Len(h) \in Nat /\ DOMAIN g = 1 .. Len(g) /\ Len(g) \in Nat
  BY <1>2, <1>4
<1>6. g[1] = "qos"
  BY <1>4, <1>5, <1>9
<1>7. ASSUME NEW i \in 2 .. Len(g) PROVE g[i] = IF i <= p THEN f[i - 1] ELSE f[i]
  <2>1. i - 1 \in 1 .. Len(h) /\ (i - 1 < p <=> i <= p) /\ (i - 1) + 1 = i /\ ~(i <= 1)
        /\ i \in 1 .. 1 + Len(h)
    BY <1>4, <1>5
  <2>2. g[i] = h[i - 1]
    BY <1>4, <2>1
  <2>3. h[i - 1] = IF i - 1 < p THEN f[i - 1] ELSE f[(i - 1) + 1]
    BY <1>2, <2>1
  <2> QED
    BY <2>1, <2>2, <2>3
<1>8. IF p <= n THEN f[p] = "qos" /\ Len(g) = n
      ELSE (\A i \in 1 .. n : f[i] # "qos") /\ Len(g) = n + 1
  BY <1>1, <1>2, <1>4
<1> QED
  BY <1>4, <1>5, <1>6, <1>7, <1>8 DEF Fronted

(* Where the other filters come from.                                      *)
LEMMA Moved ==
  ASSUME NEW n \in Nat \ {0}, NEW p \in 1 .. n + 1, p # n,
         NEW m \in Nat, m = IF p <= n THEN n ELSE n + 1,
         NEW i \in 2 .. m, NEW k, k = IF i <= p THEN i - 1 ELSE i
  PROVE  /\ k \in 1 .. n /\ k # p /\ (k = n <=> i = m)
         /\ \A j \in 2 .. m : i < j => k < (IF j <= p THEN j - 1 ELSE j)
OBVIOUS

(* Nothing else changes: the same filters, in the same order.              *)
LEMMA QosInFront ==
  ASSUME NEW f \in Chain, NEW g, g = <<"qos">> \o RemoveFirst(f, "qos")
  PROVE  /\ g \in Chain /\ g[1] = "qos" /\ ToSet(g) = ToSet(f) \union {"qos"}
         /\ PartitionedBefore(f) => PartitionedBefore(g)
<1>1. PICK n \in Nat \ {0} :
        /\ n = Len(f) /\ DOMAIN f = 1 .. n
        /\ \A i \in 1 .. n : f[i] \in Filter /\ (f[i] \in {"user", "balance"} <=> i = n)
        /\ \A i, j \in 1 .. n : f[i] = f[j] => i = j
  BY ChainType
<1>2. PICK p \in 1 .. n + 1 :
        /\ IF p <= n THEN f[p] = "qos" /\ Len(g) = n
           ELSE (\A i \in 1 .. n : f[i] # "qos") /\ Len(g) = n + 1
        /\ g \in Seq(Filter) /\ DOMAIN g = 1 .. Len(g) /\ g[1] = "qos"
        /\ \A i \in 2 .. Len(g) : g[i] = IF i <= p THEN f[i - 1] ELSE f[i]
  <2>1. PICK p \in 1 .. Len(f) + 1 : Fronted(f, g, p)
    BY PutInFront
  <2> QED
    BY <1>1, <2>1 DEF Fronted
<1>3. PICK m \in Nat : m = Len(g) /\ (m = IF p <= n THEN n ELSE n + 1) /\ DOMAIN g = 1 .. m
  BY <1>1, <1>2
<1> DEFINE From(i) == IF i <= p THEN i - 1 ELSE i
<1>4. /\ \A i \in 2 .. m : g[i] = f[From(i)]
      /\ \A k \in 1 .. n : f[k] = "qos" <=> k = p
  <2>1. p \in 1 .. n + 1 /\ (p <= n => p \in 1 .. n)
    BY <1>2
  <2>2. CASE p <= n
    BY <1>1, <1>2, <1>3, <2>1, <2>2
  <2>3. CASE ~(p <= n)
    BY <1>1, <1>2, <1>3, <2>1, <2>3
  <2> QED
    BY <2>2, <2>3
<1>5. p # n /\ p \in 1 .. n + 1 /\ n \in 1 .. n
  <2>1. n \in 1 .. n
    OBVIOUS
  <2> QED
    BY <1>1, <1>4, <2>1
<1>6. ASSUME NEW i \in 2 .. m
      PROVE  /\ From(i) \in 1 .. n /\ From(i) # p /\ (From(i) = n <=> i = m)
             /\ \A j \in 2 .. m : i < j => From(i) < From(j)
             /\ g[i] # "qos"
  <2>1. /\ From(i) \in 1 .. n /\ From(i) # p /\ (From(i) = n <=> i = m)
        /\ \A j \in 2 .. m : i < j => From(i) < From(j)
    BY <1>3, <1>5, Moved
  <2> HIDE DEF From
  <2> QED
    BY <1>4, <2>1
<1>7. ASSUME NEW k \in 1 .. n, k # p PROVE \E i \in 2 .. m : k = From(i)
  <2>1. CASE k < p
    <3>1. k + 1 \in 2 .. m /\ k + 1 <= p /\ (k + 1) - 1 = k
      BY <1>3, <1>5, <2>1
    <3> QED
      BY <3>1
  <2>2. CASE k > p
    <3>1. k \in 2 .. m /\ ~(k <= p)
      BY <1>3, <1>5, <2>2
    <3> QED
      BY <3>1
  <2> QED
    BY <1>5, <1>7, <2>1, <2>2
<1> HIDE DEF From
<1>8. m # 1 /\ m # 0 /\ 1 \in 1 .. m /\ \A i \in 1 .. m : i # 1 => i \in 2 .. m
  BY <1>3, <1>5
<1>9. ASSUME NEW i \in 1 .. m PROVE g[i] \in {"user", "balance"} <=> i = m
  BY <1>1, <1>2, <1>4, <1>6, <1>8
<1>10. ASSUME NEW i \in 1 .. m, NEW j \in 1 .. m, i < j PROVE g[i] # g[j]
  <2>1. j \in 2 .. m
    BY <1>10
  <2>2. CASE i = 1
    BY <1>2, <1>6, <2>1, <2>2
  <2>3. CASE i # 1
    <3>1. i \in 2 .. m /\ From(i) < From(j) /\ From(i) \in 1 .. n /\ From(j) \in 1 .. n
      BY <1>6, <1>8, <1>10, <2>1, <2>3
    <3>2. From(i) # From(j)
      BY <3>1
    <3> QED
      BY <1>1, <1>4, <2>1, <3>1, <3>2
  <2> QED
    BY <2>2, <2>3
<1>11. g \in Chain
  <2>1. \A i, j \in 1 .. m : i = j \/ i < j \/ j < i
    BY <1>3
  <2>2. \A i, j \in 1 .. m : g[i] = g[j] => i = j
    BY <1>10, <2>1
  <2>3. g # <<>>
    BY <1>3, <1>8
  <2> QED
    BY <1>2, <1>3, <1>9, <2>2, <2>3 DEF Chain
<1>12. ToSet(g) = ToSet(f) \union {"qos"}
  <2>1. \A i \in 1 .. m : g[i] \in ToSet(f) \union {"qos"}
    BY <1>1, <1>2, <1>4, <1>6, <1>8 DEF ToSet
  <2>2. ASSUME NEW k \in 1 .. n PROVE f[k] \in ToSet(g)
    <3>1. CASE k = p
      BY <1>2, <1>3, <1>4, <1>8, <3>1 DEF ToSet
    <3>2. CASE k # p
      <4>1. PICK i \in 2 .. m : k = From(i)
        BY <1>7, <3>2
      <4>2. i \in 1 .. m /\ g[i] = f[k]
        BY <1>3, <1>4, <4>1
      <4> QED
        BY <1>3, <4>2 DEF ToSet
    <3> QED
      BY <3>1, <3>2
  <2>3. "qos" \in ToSet(g)
    BY <1>2, <1>3, <1>8 DEF ToSet
  <2>4. ToSet(f) \subseteq ToSet(g)
    BY <1>1, <2>2 DEF ToSet
  <2>5. ToSet(g) \subseteq ToSet(f) \union {"qos"}
    BY <1>3, <2>1 DEF ToSet
  <2> QED
    BY <2>3, <2>4, <2>5
<1>13. ASSUME PartitionedBefore(f) PROVE PartitionedBefore(g)
  <2> SUFFICES ASSUME NEW i \in 1 .. m, NEW j \in 1 .. m, i < j, g[i] = "user_multi"
               PROVE  g[j] \notin {"groups", "table"}
    BY <1>3 DEF PartitionedBefore
  <2>1. i # 1 /\ j # 1
    BY <1>2
  <2>2. i \in 2 .. m /\ j \in 2 .. m
    BY <1>8, <2>1
  <2>3. From(i) < From(j) /\ From(i) \in DOMAIN f /\ From(j) \in DOMAIN f
    BY <1>1, <1>6, <2>2
  <2>4. f[From(i)] = "user_multi"
    BY <1>4, <2>2
  <2>5. f[From(j)] \notin {"groups", "table"}
    BY <1>13, <2>3, <2>4 DEF PartitionedBefore
  <2> QED
    BY <1>4, <2>2, <2>5
<1> QED
  BY <1>2, <1>11, <1>12, <1>13

-----------------------------------------------------------------------------
(* What the filters select.                                                *)

Selection == [masters : SUBSET Master, slaves : SUBSET Slave]

Fewer(out, in) == out.masters \subseteq in.masters /\ out.slaves \subseteq in.slaves

(* The first of three hints.                                               *)
LEMMA FirstOfThree ==
  ASSUME NEW a, NEW b, NEW c, NEW hints, NEW default
  PROVE  FirstOf(<<a, b, c>>, hints, default) =
           IF a \in hints THEN a ELSE IF b \in hints THEN b ELSE IF c \in hints THEN c ELSE default
<1> DEFINE order == <<a, b, c>>
           given == {i \in 1 .. 3 : order[i] \in hints}
<1>1. DOMAIN order = 1 .. 3 /\ order[1] = a /\ order[2] = b /\ order[3] = c
  OBVIOUS
<1>2. FirstOf(order, hints, default) = IF given = {} THEN default ELSE order[Min(given)]
  BY <1>1 DEF FirstOf
<1>3. \A i : i \in given <=> (i = 1 /\ a \in hints) \/ (i = 2 /\ b \in hints)
                               \/ (i = 3 /\ c \in hints)
  BY <1>1
<1> HIDE DEF order, given
<1>4. ASSUME NEW k \in given, \A i \in given : k <= i PROVE Min(given) = k
  <2>1. \A x \in given : (\A i \in given : x <= i) => x = k
    BY <1>3, <1>4
  <2> QED
    BY <1>4, <2>1 DEF Min
<1>5. CASE a \in hints
  <2>1. 1 \in given /\ \A i \in given : 1 <= i
    BY <1>3, <1>5
  <2> QED
    BY <1>1, <1>2, <1>4, <1>5, <2>1 DEF order
<1>6. CASE a \notin hints /\ b \in hints
  <2>1. 2 \in given /\ \A i \in given : 2 <= i
    BY <1>3, <1>6
  <2> QED
    BY <1>1, <1>2, <1>4, <1>6, <2>1 DEF order
<1>7. CASE a \notin hints /\ b \notin hints /\ c \in hints
  <2>1. 3 \in given /\ \A i \in given : 3 <= i
    BY <1>3, <1>7
  <2> QED
    BY <1>1, <1>2, <1>4, <1>7, <2>1 DEF order
<1>8. CASE a \notin hints /\ b \notin hints /\ c \notin hints
  <2>1. given = {}
    BY <1>3, <1>8
  <2> QED
    BY <1>2, <1>8, <2>1 DEF order
<1> QED
  BY <1>5, <1>6, <1>7, <1>8

(* What a statement asks for, and with which of its hints.                 *)
LEMMA WhichType ==
  ASSUME NEW stmt, NEW split \in BOOLEAN
  PROVE  /\ Which(stmt, split) \in {"slave", "master", "last_used"}
         /\ Which(stmt, split) = "last_used" => "last_used" \in stmt.hints
         /\ Which(stmt, split) = "slave" => stmt.kind = "select" \/ "slave" \in stmt.hints
<1> DEFINE h == NodeHints(stmt, split)
           g == Guess(stmt, split)
<1>1. h \subseteq stmt.hints
  BY DEF NodeHints
<1>2. g \in {"slave", "master"} /\ (g = "slave" => stmt.kind = "select")
  BY DEF Guess
<1> HIDE DEF h, g
<1>3. Which(stmt, split) = IF "slave" \in h THEN "slave" ELSE IF "master" \in h THEN "master"
                           ELSE IF "last_used" \in h THEN "last_used" ELSE g
  BY FirstOfThree DEF Which, h, g
<1> QED
  BY <1>1, <1>2, <1>3

(* The consistency that a statement asks for.                              *)
LEMMA ConsistencyType ==
  ASSUME NEW stmt, NEW current \in {"strong", "session", "eventual"}
  PROVE  Consistency(stmt, current) \in {"strong", "session", "eventual"}
BY FirstOfThree DEF Consistency

(* Of a single server there are not several.                               *)
LEMMA OneMaster ==
  ASSUME NEW S \in SUBSET Master
  PROVE  ~(Cardinality(S) > 1)
<1>1. S = {} \/ S = {Proxy}
  BY ConstantsAssumption
<1>2. Cardinality({}) = 0
  BY FS_EmptySet
<1>3. Cardinality({Proxy}) = 1
  BY FS_Singleton
<1> QED
  BY <1>1, <1>2, <1>3

(* The qos filter keeps the master; slaves it may drop.                    *)
LEMMA QosSelected ==
  ASSUME NEW q, NEW stmt, NEW mode, NEW in \in Selection, NEW caught, NEW up, NEW fresh
  PROVE  /\ QosSelects(q, stmt, mode, in, caught, up, fresh) \in Selection
         /\ Fewer(QosSelects(q, stmt, mode, in, caught, up, fresh), in)
         /\ QosSelects(q, stmt, mode, in, caught, up, fresh).masters = in.masters
<1> DEFINE which == QosWhich(stgy, stmt)
           isWrite == which = "master" \/ IsTransaction(stgy)
           some == GtidFilter(in, q.gtid, caught, up, conf.race, isWrite)
           out == RaceAvoided(some, in, which, up, conf.race)
<1>1. in.masters \in SUBSET Master /\ in.slaves \in SUBSET Slave
      /\ in = [masters |-> in.masters, slaves |-> in.slaves]
  BY DEF Selection
<1>2. ~(Cardinality(in.masters) > 1)
  BY <1>1, OneMaster
<1>3. some = [masters |-> in.masters,
              slaves |-> IF isWrite THEN {}
                         ELSE WithGtid(in.slaves, q.gtid, caught, up, conf.race)]
  BY <1>2 DEF GtidFilter
<1>4. WithGtid(in.slaves, q.gtid, caught, up, conf.race) \subseteq in.slaves
  BY DEF WithGtid
<1>5. some \in Selection /\ some.masters = in.masters /\ some.slaves \subseteq in.slaves
  BY <1>1, <1>3, <1>4 DEF Selection
<1> HIDE DEF some, which
<1>6. out \in Selection /\ out.masters = in.masters /\ out.slaves \subseteq in.slaves
  <2>1. CASE out = some
    BY <1>5, <2>1
  <2>2. CASE out # some
    <3>1. some = NoServers
          /\ out = [masters |-> in.masters \intersect up,
                    slaves |-> IF which = "slave" THEN in.slaves \intersect up ELSE {}]
      BY <2>2 DEF RaceAvoided
    <3>2. in.masters = {}
      BY <1>5, <3>1 DEF NoServers
    <3> QED
      BY <1>1, <3>1, <3>2 DEF Selection
  <2> QED
    BY <2>1, <2>2
<1>7. [in EXCEPT !.slaves = @ \intersect fresh]
        = [masters |-> in.masters, slaves |-> in.slaves \intersect fresh]
      /\ [in EXCEPT !.slaves = {}] = [masters |-> in.masters, slaves |-> {}]
  BY <1>1
<1>8. QosSelects(q, stmt, mode, in, caught, up, fresh)
        \in {out, in, [masters |-> in.masters, slaves |-> in.slaves \intersect fresh],
             [masters |-> in.masters, slaves |-> {}]}
  BY <1>7 DEF QosSelects, which, some
<1> HIDE DEF out
<1> QED
  BY <1>1, <1>6, <1>8 DEF Selection, Fewer

(* The groups filter keeps the servers of the group.                       *)
LEMMA GroupSelected ==
  ASSUME NEW groups, NEW stmt, NEW in \in Selection
  PROVE  /\ InGroup(groups, stmt, in) \in Selection /\ Fewer(InGroup(groups, stmt, in), in)
         /\ stmt.group \in DOMAIN groups =>
              /\ InGroup(groups, stmt, in).masters \subseteq groups[stmt.group].masters
              /\ InGroup(groups, stmt, in).slaves \subseteq groups[stmt.group].slaves
<1>1. in.masters \in SUBSET Master /\ in.slaves \in SUBSET Slave
  BY DEF Selection
<1>2. CASE stmt.group \notin DOMAIN groups
  BY <1>2 DEF InGroup, Fewer
<1>3. CASE stmt.group \in DOMAIN groups
  <2>1. InGroup(groups, stmt, in) = [masters |-> in.masters \intersect groups[stmt.group].masters,
                                     slaves |-> in.slaves \intersect groups[stmt.group].slaves]
    BY <1>3 DEF InGroup
  <2> QED
    BY <1>1, <2>1 DEF Selection, Fewer
<1> QED
  BY <1>2, <1>3

(* The table filter keeps the servers that every table is assigned to.     *)
LEMMA TablesSelected ==
  ASSUME NEW rules, NEW stmt, NEW in \in Selection
  PROVE  /\ ForTables(rules, stmt, in) \in Selection /\ Fewer(ForTables(rules, stmt, in), in)
         /\ \A table \in stmt.tables :
              /\ ForTables(rules, stmt, in).masters \subseteq Listed(rules, "masters", table)
              /\ ForTables(rules, stmt, in).slaves \subseteq Listed(rules, "slaves", table)
<1>1. in.masters \in SUBSET Master /\ in.slaves \in SUBSET Slave
  BY DEF Selection
<1> DEFINE m == ForEveryTable(rules, stmt, "masters", in.masters)
           s == ForEveryTable(rules, stmt, "slaves", in.slaves)
<1>2. /\ m \subseteq in.masters /\ \A table \in stmt.tables : m \subseteq Listed(rules, "masters", table)
      /\ s \subseteq in.slaves /\ \A table \in stmt.tables : s \subseteq Listed(rules, "slaves", table)
  BY DEF ForEveryTable
<1> HIDE DEF m, s
<1>3. ForTables(rules, stmt, in) = IF stmt.tables = {} THEN NoServers
        ELSE [masters |-> m, slaves |-> IF stmt.kind = "select" THEN s ELSE {}]
  BY DEF ForTables, m, s
<1>4. CASE stmt.tables = {}
  BY <1>1, <1>3, <1>4 DEF NoServers, Selection, Fewer
<1>5. CASE stmt.tables # {}
  <2>1. PICK t : t = (IF stmt.kind = "select" THEN s ELSE {})
    OBVIOUS
  <2>2. ForTables(rules, stmt, in) = [masters |-> m, slaves |-> t] /\ t \subseteq s
    BY <1>3, <1>5, <2>1
  <2> QED
    BY <1>1, <1>2, <2>2 DEF Selection, Fewer
<1> QED
  BY <1>4, <1>5

(* The callback for several servers keeps some of them.                    *)
LEMMA MultipleSelected ==
  ASSUME NEW answer, NEW in \in Selection
  PROVE  UserMulti(answer, in) \in Selection /\ Fewer(UserMulti(answer, in), in)
BY DEF Selection, Fewer, UserMulti

-----------------------------------------------------------------------------
(* A step of the walk along the chain.                                     *)

(* The configuration in use is a setting.                                  *)
LEMMA ConfType ==
  ASSUME conf \in Settings
  PROVE  /\ conf.filters \in Chain /\ conf.qos \in {"strong", "session", "eventual"}
         /\ conf.split \in BOOLEAN /\ conf.onWrite \in BOOLEAN /\ conf.gtid \in BOOLEAN
         /\ conf.failover \in BOOLEAN /\ conf.report \in BOOLEAN
         /\ conf.retries \in Nat /\ conf.maxLog \in Nat
         /\ conf.texts \subseteq Texts /\ conf.prepared \subseteq Texts
         /\ conf.levels \subseteq {"strong", "session", "eventual"}
<1>1. conf \in Setting
  BY ConstantsAssumption
<1> QED
  BY <1>1 DEF Setting

(* There is one master, and it is the handle's own connection.             *)
LEMMA ServerType ==
  Proxy \in Master /\ Master \subseteq Server /\ Slave \subseteq Server /\ None \notin Server
  /\ (\A c \in Server : c \in Master <=> c \notin Slave) /\ (\A c \in Master : c = Proxy)
BY ConstantsAssumption DEF Server

\* The filters change nothing of the handle but two flags before one ends.
SameButFlags(s) ==
  /\ s \in Strategies /\ s.filters = stgy.filters /\ s.in_transaction = stgy.in_transaction
  /\ s.trx_stop_switching = stgy.trx_stop_switching /\ s.trx_read_only = stgy.trx_read_only
  /\ s.trx_begin_required = stgy.trx_begin_required /\ s.last_used_conn = stgy.last_used_conn

Onward(s, out, allow) ==
  /\ GoesOn(out, allow) /\ stgy' = s
  /\ out \in Selection /\ Fewer(out, walk.in) /\ allow \in BOOLEAN

Here == stgy.filters[walk.at]

(* A call that picks is at a filter of the chain.                          *)
LEMMA AtFilter ==
  ASSUME TypeInv, pc = "pick"
  PROVE  /\ walk.at \in 1 .. Len(stgy.filters) /\ walk.at \in DOMAIN stgy.filters
         /\ stgy.filters \in Chain
         /\ Here \in {"user", "balance"} <=> walk.at = Len(stgy.filters)
         /\ walk.in \in Selection /\ walk.allow \in BOOLEAN /\ stgy \in Strategies
<1>1. /\ walk.at \in 0 .. Len(stgy.filters) /\ walk.at # 0
      /\ walk.in \in Selection /\ walk.allow \in BOOLEAN /\ stgy \in Strategies
  BY DEF TypeInv, TypeOK, ControlInv, Selection
<1>2. stgy.filters \in Chain
  BY <1>1 DEF Strategies
<1>3. /\ Len(stgy.filters) \in Nat /\ DOMAIN stgy.filters = 1 .. Len(stgy.filters)
      /\ \A i \in DOMAIN stgy.filters :
           stgy.filters[i] \in {"user", "balance"} <=> i = Len(stgy.filters)
  BY <1>2, ChainType
<1>4. walk.at \in DOMAIN stgy.filters
  BY <1>1, <1>3
<1> QED
  BY <1>1, <1>2, <1>3, <1>4 DEF Here

(* What the qos filter changes of the handle and of itself.                *)
LEMMA QosFlagsType ==
  ASSUME TypeInv, NEW q, NEW stmt, NEW mode
  PROVE  SameButFlags(QosFlags(q, stmt, mode))
<1> DEFINE asks == q.consistency = "session" \/ (q.consistency = "eventual" /\ q.aged)
           u == stgy.master_used \/ (asks /\ QosUsesMaster(stgy, stmt))
           j == IF q.consistency = "session" /\ AsksForGtid(stgy, mode)
                THEN Injectable(stmt, conf.split) \/ IsTransaction(stgy) ELSE stgy.injectable_query
<1>1. stgy \in Strategies
  BY DEF TypeInv, TypeOK
<1>2. QosFlags(q, stmt, mode) = [stgy EXCEPT !.master_used = u, !.injectable_query = j]
  BY DEF QosFlags
<1>3. stgy.master_used \in BOOLEAN /\ stgy.injectable_query \in BOOLEAN
  BY <1>1 DEF Strategies
<1>4. u \in BOOLEAN
  BY <1>3
<1>5. j \in BOOLEAN
  BY <1>3
<1> HIDE DEF u, j
<1> QED
  BY <1>1, <1>2, <1>4, <1>5 DEF SameButFlags, Strategies

(* The consistency may change, the GTID does not.                          *)
LEMMA QosType ==
  ASSUME TypeInv, NEW stmt, qos' = [qos EXCEPT !.consistency = Consistency(stmt, @)],
         UNCHANGED conf
  PROVE  qos' \in QosData' /\ qos'.gtid = qos.gtid /\ qos'.consistency = Consistency(stmt, qos.consistency)
<1>1. qos \in QosData
  BY DEF TypeInv, TypeOK
<1>2. qos.consistency \in {"strong", "session", "eventual"}
  BY <1>1 DEF QosData
<1>3. Consistency(stmt, qos.consistency) \in {"strong", "session", "eventual"}
  BY <1>2, ConsistencyType
<1> QED
  BY <1>1, <1>3 DEF QosData

(* A filter that narrows leaves something over, or ends the walk.          *)
LEMMA NarrowedSteps ==
  ASSUME NEW s, NEW out \in Selection, NEW allow \in BOOLEAN,
         Fewer(out, walk.in), Narrowed(s, out, allow)
  PROVE  \/ out # NoServers /\ Onward(s, out, allow)
         \/ out = NoServers /\ EndsWith(s, IF conf.failover THEN Proxy ELSE None, FALSE)
BY DEF Narrowed, Onward

(* What every step of the walk has in common.                              *)
LEMMA FilterStep ==
  ASSUME TypeInv, Filtering
  PROVE  /\ pc = "pick" /\ UNCHANGED <<conf, log, applied, prep, app>>
         /\ qos' \in QosData' /\ qos'.gtid = qos.gtid
         /\ qos' = qos \/ (Here = "qos" /\ ~stgy.trx_stop_switching)
         /\ \E s : /\ SameButFlags(s)
                   /\ \/ \E out, allow : Onward(s, out, allow) /\ walk.at # Len(stgy.filters)
                      \/ \E c \in Server \union {None} :
                           EndsWith(s, c, FALSE) /\ Here # "balance"
                             /\ (stgy.trx_stop_switching => Here \in {"user", "user_multi", "groups"})
                      \/ \E c \in Server \union {None} : EndsWith(s, c, TRUE) /\ Here = "balance"
<1>1. pc = "pick" /\ UNCHANGED <<conf, log, applied, prep, app>>
  BY DEF Filtering, PassOver, ChooseQos, ChooseTable, ChooseGroups, PickMultiple, PickUser,
         PickBalanced, At
<1>2. /\ Here \in {"user", "balance"} <=> walk.at = Len(stgy.filters)
      /\ walk.in \in Selection /\ walk.allow \in BOOLEAN /\ stgy \in Strategies
      /\ walk.in.masters \subseteq Master /\ walk.in.slaves \subseteq Slave
  BY <1>1, AtFilter DEF Selection
<1>3. SameButFlags(stgy)
  BY <1>2 DEF SameButFlags
<1>4. UNCHANGED qos => qos' \in QosData'
  BY <1>1 DEF TypeInv, TypeOK, QosData
<1>5. Proxy \in Server /\ (IF conf.failover THEN Proxy ELSE None) \in Server \union {None}
  BY ServerType
<1>6. ASSUME NEW s, SameButFlags(s), NEW out \in Selection, NEW allow \in BOOLEAN,
             Fewer(out, walk.in), Narrowed(s, out, allow), Here \notin {"user", "balance"},
             stgy.trx_stop_switching => Here = "user_multi"
      PROVE  \/ \E o, a : Onward(s, o, a) /\ walk.at # Len(stgy.filters)
             \/ \E c \in Server \union {None} :
                  EndsWith(s, c, FALSE) /\ Here # "balance"
                    /\ (stgy.trx_stop_switching => Here \in {"user", "user_multi", "groups"})
  BY <1>2, <1>5, <1>6, NarrowedSteps
<1>7. CASE PassOver
  <2>1. Onward(stgy, walk.in, walk.allow)
    BY <1>2, <1>7 DEF PassOver, Onward, Fewer, GoesOn
  <2>2. Here \notin {"user", "balance"} /\ qos' = qos
    BY <1>7 DEF PassOver, At, Here
  <2> QED
    BY <1>1, <1>2, <1>3, <1>4, <2>1, <2>2
<1>8. CASE ChooseQos
  <2>1. PICK caught, up, fresh :
          Narrowed(QosFlags(qos', call.stmt, call.mode),
                   QosSelects(qos', call.stmt, call.mode, walk.in, caught, up, fresh), TRUE)
    BY <1>8 DEF ChooseQos
  <2> DEFINE s == QosFlags(qos', call.stmt, call.mode)
             out == QosSelects(qos', call.stmt, call.mode, walk.in, caught, up, fresh)
  <2>2. SameButFlags(s)
    BY QosFlagsType
  <2>3. out \in Selection /\ Fewer(out, walk.in)
    BY <1>2, QosSelected
  <2>4. Here = "qos" /\ ~stgy.trx_stop_switching
    BY <1>8 DEF ChooseQos, At, Here
  <2>5. qos' \in QosData' /\ qos'.gtid = qos.gtid
    BY <1>1, <1>8, QosType DEF ChooseQos
  <2> HIDE DEF s, out
  <2>6. Narrowed(s, out, TRUE)
    BY <2>1 DEF s, out
  <2>7. \/ \E o, a : Onward(s, o, a) /\ walk.at # Len(stgy.filters)
        \/ \E c \in Server \union {None} :
             EndsWith(s, c, FALSE) /\ Here # "balance"
               /\ (stgy.trx_stop_switching => Here \in {"user", "user_multi", "groups"})
    BY <1>6, <2>2, <2>3, <2>4, <2>6
  <2> QED
    BY <1>1, <2>2, <2>4, <2>5, <2>7
<1>9. CASE ChooseTable
  <2>1. Narrowed(stgy, ForTables(conf.rules, call.stmt, walk.in), walk.allow)
        /\ Here = "table" /\ ~stgy.trx_stop_switching /\ qos' = qos
    BY <1>9 DEF ChooseTable, At, Here
  <2>2. ForTables(conf.rules, call.stmt, walk.in) \in Selection
        /\ Fewer(ForTables(conf.rules, call.stmt, walk.in), walk.in)
    BY <1>2, TablesSelected
  <2>3. \/ \E o, a : Onward(stgy, o, a) /\ walk.at # Len(stgy.filters)
        \/ \E c \in Server \union {None} :
             EndsWith(stgy, c, FALSE) /\ Here # "balance"
               /\ (stgy.trx_stop_switching => Here \in {"user", "user_multi", "groups"})
    BY <1>2, <1>3, <1>6, <2>1, <2>2
  <2> QED
    BY <1>1, <1>3, <1>4, <2>1, <2>3
<1>10. CASE ChooseGroups
  <2>1. Here = "groups" /\ qos' = qos
    BY <1>10 DEF ChooseGroups, At, Here
  <2>2. CASE stgy.trx_stop_switching
    <3>1. EndsWith(stgy, None, FALSE)
      BY <1>10, <2>2 DEF ChooseGroups
    <3> QED
      BY <1>1, <1>3, <1>4, <2>1, <3>1
  <2>3. CASE ~stgy.trx_stop_switching
    <3>1. Narrowed(stgy, InGroup(conf.groups, call.stmt, walk.in), walk.allow)
      BY <1>10, <2>3 DEF ChooseGroups
    <3>2. InGroup(conf.groups, call.stmt, walk.in) \in Selection
          /\ Fewer(InGroup(conf.groups, call.stmt, walk.in), walk.in)
      BY <1>2, GroupSelected
    <3>3. \/ \E o, a : Onward(stgy, o, a) /\ walk.at # Len(stgy.filters)
          \/ \E c \in Server \union {None} :
               EndsWith(stgy, c, FALSE) /\ Here # "balance"
                 /\ (stgy.trx_stop_switching => Here \in {"user", "user_multi", "groups"})
      BY <1>2, <1>3, <1>6, <2>1, <2>3, <3>1, <3>2
    <3> QED
      BY <1>1, <1>3, <1>4, <2>1, <3>3
  <2> QED
    BY <2>2, <2>3
<1>11. CASE PickMultiple
  <2>1. Here = "user_multi" /\ qos' = qos
    BY <1>11 DEF PickMultiple, At, Here
  <2>2. PICK answer \in Answers :
          LET out == UserMulti(answer, walk.in)
              left == out.masters \union out.slaves
          IN  IF answer.once /\ Cardinality(left) = 1
              THEN \E c \in left : EndsWith(stgy, c, FALSE)
              ELSE Narrowed(stgy, out, walk.allow)
    BY <1>11 DEF PickMultiple
  <2> DEFINE out == UserMulti(answer, walk.in)
  <2>3. out \in Selection /\ Fewer(out, walk.in)
    BY <1>2, MultipleSelected
  <2> HIDE DEF out
  <2>4. out.masters \union out.slaves \subseteq Server
    BY <2>3, ServerType DEF Selection
  <2>5. \/ \E c \in out.masters \union out.slaves : EndsWith(stgy, c, FALSE)
        \/ Narrowed(stgy, out, walk.allow)
    BY <2>2 DEF out
  <2>6. \/ \E o, a : Onward(stgy, o, a) /\ walk.at # Len(stgy.filters)
        \/ \E c \in Server \union {None} :
             EndsWith(stgy, c, FALSE) /\ Here # "balance"
               /\ (stgy.trx_stop_switching => Here \in {"user", "user_multi", "groups"})
    BY <1>2, <1>3, <1>6, <2>1, <2>3, <2>4, <2>5
  <2> QED
    BY <1>1, <1>3, <1>4, <2>1, <2>6
<1>12. CASE PickUser
  <2>1. Here = "user" /\ qos' = qos
    BY <1>12 DEF PickUser, At, Here
  <2>2. PICK c \in walk.in.masters \union walk.in.slaves \union {None} : EndsWith(stgy, c, FALSE)
    BY <1>12 DEF PickUser
  <2>3. c \in Server \union {None}
    BY <1>2, <2>2, ServerType
  <2> QED
    BY <1>1, <1>3, <1>4, <2>1, <2>2, <2>3
<1>13. CASE PickBalanced
  <2>1. Here = "balance" /\ qos' = qos
    BY <1>13 DEF PickBalanced, At, Here
  <2> DEFINE pinned == Pinned(FirstChoice(call.stmt))
             u == stgy.master_used \/ (conf.onWrite /\ pinned = "master")
             s == [stgy EXCEPT !.master_used = u]
  <2>2. PICK c \in BalanceAmong(AfterWrite(stgy, call.stmt, pinned)) : EndsWith(s, c, TRUE)
    BY <1>13 DEF PickBalanced
  <2>3. stgy.last_used_conn \in Server \union {None} /\ stgy.master_used \in BOOLEAN
    BY <1>2 DEF Strategies
  <2>4. c \in Server \union {None}
    BY <1>2, <2>3, ServerType DEF BalanceAmong, OrNone
  <2>5. u \in BOOLEAN
    BY <2>3
  <2> HIDE DEF u
  <2>6. SameButFlags(s)
    BY <1>2, <2>5 DEF SameButFlags, Strategies
  <2> QED
    BY <1>1, <1>4, <2>1, <2>2, <2>4, <2>6
<1> QED
  BY <1>7, <1>8, <1>9, <1>10, <1>11, <1>12, <1>13 DEF Filtering

-----------------------------------------------------------------------------
(* What the loops of query and execute have tried.                         *)

(* Nothing has been called.                                                *)
LEMMA InitLoop == Init => LoopInv
<1> SUFFICES ASSUME Init PROVE LoopInv
  OBVIOUS
<1>1. conf \in Setting
  BY ConstantsAssumption DEF Init
<1>2. conf.retries \in Nat
  BY <1>1 DEF Setting
<1> QED
  BY <1>2 DEF Init, LoopInv, NoCall, SuccessMayBeRetried

(* Nothing has been tried.                                                 *)
LEMMA NothingTried ==
  ASSUME conf'.retries \in Nat, DOMAIN call' = DOMAIN NoCall,
         call'.tries = 0 /\ call'.ran = 0 /\ call'.transient = FALSE
  PROVE  LoopInv'
<1> DEFINE n == conf'.retries
<1>1. 0 \in Nat /\ 0 <= n + 1 /\ 0 <= n /\ 0 <= 1
  OBVIOUS
<1>2. /\ call'.tries \in Nat /\ call'.ran \in Nat /\ call'.transient \in BOOLEAN
      /\ call'.tries <= n + 1 /\ call'.tries <= n /\ call'.ran <= 1
  BY <1>1
<1>3. DOMAIN call' = DOMAIN (NoCall')
  BY DEF NoCall
<1> QED
  BY <1>2, <1>3, Zenon DEF LoopInv

(* A call begins with nothing tried.                                       *)
LEMMA FreshCall ==
  ASSUME LoopInv, UNCHANGED conf, NEW mode, NEW stmt, NEW old, NEW conn, NEW ro, NEW good,
         call' = [NoCall EXCEPT !.mode = mode, !.stmt = stmt, !.old = old]
           \/ call' = [NoCall EXCEPT !.mode = mode, !.conn = conn, !.ro = ro, !.good = good]
           \/ call' = NoCall
  PROVE  LoopInv'
<1> DEFINE NewCall(m, s, o, c, r, g) ==
         [mode |-> m, stmt |-> s, conn |-> c, old |-> o, ro |-> r, tries |-> 0,
          transient |-> FALSE, good |-> g, ran |-> 0, pinned |-> FALSE]
<1>1. \E m, s, o, c, r, g : call' = NewCall(m, s, o, c, r, g)
  <2>1. CASE call' = [NoCall EXCEPT !.mode = mode, !.stmt = stmt, !.old = old]
    <3>1. call' = NewCall(mode, stmt, old, None, FALSE, FALSE)
      BY <2>1 DEF NoCall
    <3> QED
      BY <3>1
  <2>2. CASE call' = [NoCall EXCEPT !.mode = mode, !.conn = conn, !.ro = ro, !.good = good]
    <3>1. call' = NewCall(mode, NoText, None, conn, ro, good)
      BY <2>2 DEF NoCall
    <3> QED
      BY <3>1
  <2>3. CASE call' = NoCall
    <3>1. call' = NewCall("none", NoText, None, None, FALSE, FALSE)
      BY <2>3 DEF NoCall
    <3> QED
      BY <3>1
  <2> QED
    BY <2>1, <2>2, <2>3
<1>2. DOMAIN call' = DOMAIN NoCall
  BY <1>1 DEF NoCall
<1>3. call'.tries = 0 /\ call'.ran = 0 /\ call'.transient = FALSE
  BY <1>1
<1>4. conf'.retries \in Nat
  BY DEF LoopInv
<1> QED
  BY <1>2, <1>3, <1>4, NothingTried

(* A step that does not send leaves what was tried.                        *)
LEMMA SameTries ==
  ASSUME LoopInv, UNCHANGED conf, pc' = "send" => pc \in {"pick", "switch", "send"},
         pc' \in {"pick", "switch"} => pc' = pc \/ pc = "pick",
         DOMAIN call' = DOMAIN call, call'.mode = call.mode,
         call'.tries = call.tries, call'.ran = call.ran, call'.transient = call.transient
  PROVE  LoopInv'
BY DEF LoopInv, SuccessMayBeRetried

(* A filter passes on or picks a server.                                   *)
LEMMA FilterLoop == ASSUME LoopInv, Filtering PROVE LoopInv'
<1>1. UNCHANGED conf /\ pc = "pick"
  BY DEF Filtering, PassOver, ChooseQos, ChooseTable, ChooseGroups, PickMultiple, PickUser,
         PickBalanced, At
<1>2. \/ UNCHANGED <<pc, call>>
      \/ \E conn, pinned : call' = [call EXCEPT !.conn = conn, !.pinned = pinned]
  <2>1. \/ \E out, allow : GoesOn(out, allow)
        \/ \E s, c, balanced : EndsWith(s, c, balanced)
    BY DEF Filtering, PassOver, ChooseQos, ChooseTable, ChooseGroups, PickMultiple, PickUser,
           PickBalanced, Narrowed
  <2> QED
    BY <2>1 DEF GoesOn, EndsWith
<1>3. DOMAIN call = DOMAIN NoCall
  BY DEF LoopInv
<1>4. /\ DOMAIN call' = DOMAIN call
      /\ call'.mode = call.mode /\ call'.tries = call.tries /\ call'.ran = call.ran
      /\ call'.transient = call.transient
  BY <1>2, <1>3 DEF NoCall
<1>5. (pc' = "send" => pc \in {"pick", "switch", "send"})
      /\ (pc' \in {"pick", "switch"} => pc' = pc \/ pc = "pick")
  BY <1>1
<1> QED
  BY <1>1, <1>4, <1>5, SameTries

(* A statement is sent, and perhaps again.                                 *)
LEMMA SendLoop == ASSUME LoopInv, Send PROVE LoopInv'
<1>1. PICK o \in Outcomes :
        /\ call' = [call EXCEPT
             !.transient = Transient(o), !.good = o = "ok",
             !.tries = IF Transient(o) THEN @ + 1 ELSE @,
             !.ran = IF o = "ok" /\ call.mode # "prepare" THEN @ + 1 ELSE @]
        /\ pc' = IF Transient(o) /\ TriesLeft THEN "send"
                 ELSE IF o = "ok" /\ Injects THEN "inject" ELSE "return"
  BY DEF Send
<1> DEFINE t == Transient(o)
           g == o = "ok"
           n == IF t THEN call.tries + 1 ELSE call.tries
           r == IF o = "ok" /\ call.mode # "prepare" THEN call.ran + 1 ELSE call.ran
<1>2. /\ DOMAIN call = DOMAIN NoCall /\ UNCHANGED conf
      /\ conf.retries \in Nat /\ call.tries \in Nat /\ call.ran \in Nat
      /\ call.tries <= conf.retries /\ (call.transient => call.tries > 0)
      /\ call.transient \in BOOLEAN /\ (~SuccessMayBeRetried => call.ran = 0)
  BY DEF LoopInv, Send
<1>3. call' = [call EXCEPT !.transient = t, !.good = g, !.tries = n, !.ran = r]
  BY <1>1
<1>4. t \in BOOLEAN /\ (t => (o = "transient" /\ conf.retries > 0)
                             \/ (o = "ok" /\ call.mode = "query" /\ call.transient))
  BY DEF Transient, MayRetry
<1> HIDE DEF t, g, n, r
<1>5. DOMAIN call' = DOMAIN NoCall /\ call'.mode = call.mode
      /\ call'.tries = n /\ call'.ran = r /\ call'.transient = t
  BY <1>2, <1>3 DEF NoCall
<1>6. n \in Nat /\ r \in Nat /\ (t => n = call.tries + 1) /\ (~t => n = call.tries)
  BY <1>2, <1>4 DEF n, r
<1>7. pc' # "pick" /\ pc' # "switch" /\ (pc' = "send" => t /\ call.tries < conf.retries)
  BY <1>1 DEF TriesLeft, t
<1>8. ~SuccessMayBeRetried => r <= 1 /\ (pc' = "send" => r = 0)
  <2> SUFFICES ASSUME ~SuccessMayBeRetried PROVE r <= 1 /\ (pc' = "send" => r = 0)
    OBVIOUS
  <2>1. call.ran = 0 /\ (r = 0 \/ (r = 1 /\ o = "ok" /\ call.mode # "prepare"))
    BY <1>2 DEF r
  <2>2. pc' = "send" /\ o = "ok" => FALSE
    BY <1>2, <1>4, <1>7 DEF SuccessMayBeRetried
  <2> QED
    BY <2>1, <2>2
<1>9. SuccessMayBeRetried' = SuccessMayBeRetried
  BY <1>2, <1>5 DEF SuccessMayBeRetried
<1> QED
  BY <1>2, <1>4, <1>5, <1>6, <1>7, <1>8, <1>9 DEF LoopInv

(* What a call has tried is bounded after every step.                      *)
LEMMA LoopStep == ASSUME LoopInv, [Next]_vars PROVE LoopInv'
<1>1. CASE \/ \E stmt \in conf.texts : Query(stmt)
           \/ \E stmt \in conf.prepared : Prepare(stmt)
           \/ Execute
  <2>1. PICK mode, stmt, old : Start(mode, stmt, old)
    BY <1>1 DEF Query, Prepare, Execute
  <2> QED
    BY <2>1, FreshCall DEF Start
<1>2. CASE Filtering
  BY <1>2, FilterLoop
<1>3. CASE Send
  BY <1>3, SendLoop
<1>4. CASE Switch \/ Inject \/ Fetch
  <2>1. /\ UNCHANGED conf /\ pc \in {"switch", "inject", "fetch"}
        /\ pc' \in {"send", "fetch", "return"} /\ (pc' = "send" => pc = "switch")
        /\ call' = call \/ call' = [call EXCEPT !.good = call.good /\ ~conf.report]
    BY <1>4 DEF Switch, Inject, Fetch, Uncounted
  <2>2. DOMAIN call = DOMAIN NoCall
    BY DEF LoopInv
  <2>3. /\ DOMAIN call' = DOMAIN call /\ call'.mode = call.mode /\ call'.tries = call.tries
        /\ call'.ran = call.ran /\ call'.transient = call.transient
    BY <2>1, <2>2 DEF NoCall
  <2> QED
    BY <2>1, <2>3, SameTries
<1>5. CASE \/ \E mode \in {"commit", "rollback"} : CommitOrRollback(mode)
           \/ \E ro \in BOOLEAN : TxBegin(ro)
  <2>1. CASE \E mode, ro : End(mode, ro)
    <3>1. PICK mode, ro : End(mode, ro)
      BY <2>1
    <3> QED
      BY <3>1, FreshCall DEF End
  <2>2. CASE UNCHANGED <<conf, pc, call>>
    BY <2>2, SameTries
  <2> QED
    BY <1>5, <2>1, <2>2 DEF CommitOrRollback, TxBegin
<1>6. CASE Return
  BY <1>6, FreshCall DEF Return
<1>7. CASE \/ \E c \in Slave : Replicate(c)
           \/ OtherCounts
           \/ \E level \in conf.levels, option \in {"none", "age", "gtid"} : SetQos(level, option)
           \/ UNCHANGED vars
  <2>1. UNCHANGED <<conf, pc, call>>
    BY <1>7 DEF Replicate, OtherCounts, SetQos, vars
  <2> QED
    BY <2>1, SameTries
<1> QED
  BY <1>1, <1>2, <1>3, <1>4, <1>5, <1>6, <1>7 DEF Next

-----------------------------------------------------------------------------
(* Types.                                                                  *)

(* The log is the same.                                                    *)
LEMMA LogSame ==
  ASSUME LogInv, UNCHANGED <<conf, log>>
  PROVE  LogInv'
BY DEF LogInv, LastGtid, Counts

(* What is typed by the length of the log stays so when it grows.          *)
LEMMA TypesGrow ==
  ASSUME TypeOK, log' \in Seq(Entry), Len(log) <= Len(log')
  PROVE  /\ applied \in [Slave -> 0 .. Len(log')]
         /\ app.mine \in 0 .. Len(log') /\ app.failed \in BOOLEAN
<1>1. /\ Len(log) \in Nat /\ Len(log') \in Nat
      /\ applied \in [Slave -> 0 .. Len(log)] /\ app \in [mine : 0 .. Len(log), failed : BOOLEAN]
  BY DEF TypeOK, Entry
<1>2. 0 .. Len(log) \subseteq 0 .. Len(log')
  BY <1>1
<1> QED
  BY <1>1, <1>2

(* All that has to do with the log, when an entry is added.                *)
LEMMA LogStep ==
  ASSUME TypeInv, UNCHANGED <<conf, applied, app>>, conf.gtid,
         NEW entry \in Entry, log' = Append(log, entry), Len(log) < conf.maxLog
  PROVE  /\ LogInv' /\ log' \in Seq({"own", "count"}) /\ Len(log') <= conf.maxLog
         /\ applied' \in [Slave -> 0 .. Len(log')]
         /\ app' \in [mine : 0 .. Len(log'), failed : BOOLEAN]
<1>1. log \in Seq(Entry) /\ Len(log) \in Nat /\ LogInv /\ TypeOK /\ conf \in Settings
  BY DEF TypeInv, TypeOK, Entry
<1>2. log' \in Seq(Entry) /\ Len(log') = Len(log) + 1
  BY <1>1, LogAppended
<1>3. conf.maxLog \in Nat
  BY <1>1, ConfType
<1>4. LogInv'
  BY <1>1, LogGrows
<1>5. /\ applied \in [Slave -> 0 .. Len(log')]
      /\ app.mine \in 0 .. Len(log') /\ app.failed \in BOOLEAN
  BY <1>1, <1>2, TypesGrow
<1>6. app \in [mine : 0 .. Len(log), failed : BOOLEAN]
  BY <1>1 DEF TypeOK
<1>7. app' \in [mine : 0 .. Len(log'), failed : BOOLEAN]
  BY <1>5, <1>6
<1> QED
  BY <1>1, <1>2, <1>3, <1>4, <1>5, <1>7 DEF Entry

(* A transaction commits, or a write does outside of one.                  *)
LEMMA LoggedStep ==
  ASSUME TypeInv, UNCHANGED <<conf, applied, app>>, log' = Logged("own") \/ log' = log,
         Len(log) < conf.maxLog \/ log' = log
  PROVE  /\ LogInv' /\ log' \in Seq({"own", "count"}) /\ Len(log') <= conf.maxLog
         /\ applied' \in [Slave -> 0 .. Len(log')]
         /\ app' \in [mine : 0 .. Len(log'), failed : BOOLEAN]
<1>1. CASE log' = log
  BY <1>1, LogSame DEF TypeInv, TypeOK
<1>2. CASE log' # log
  <2>1. conf.gtid /\ log' = Append(log, "own") /\ "own" \in Entry
    BY <1>2 DEF Logged, Entry
  <2> QED
    BY <1>2, <2>1, LogStep
<1> QED
  BY <1>1, <1>2

(* The first state.                                                        *)
LEMMA InitType == Init => TypeInv
<1> SUFFICES ASSUME Init PROVE TypeInv
  OBVIOUS
<1>1. /\ conf \in Settings /\ conf.filters \in Chain /\ conf.retries \in Nat /\ conf.maxLog \in Nat
      /\ conf.qos \in {"strong", "session", "eventual"}
  BY ConfType DEF Init
<1>2. log = <<>> /\ log \in Seq({"own", "count"}) /\ Len(log) = 0
  BY DEF Init
<1>3. stgy \in Strategies
  BY <1>1 DEF Init, Strategies
<1>4. qos \in QosData
  BY <1>1 DEF Init, QosData, NoGtid
<1>5. applied \in [Slave -> 0 .. Len(log)] /\ app \in [mine : 0 .. Len(log), failed : BOOLEAN]
  BY <1>2 DEF Init
<1>6. open \in [Server -> {"none", "rw", "ro", "wrote"}]
      /\ prep \in [conn : Server \union {None}, stmt : Texts \union {NoText}]
  BY DEF Init, NothingPrepared
<1>7. call \in Calling /\ call = NoCall /\ call.tries = 0 /\ pc = "user"
  BY DEF Init, Calling, NoCall
<1>8. walk = NoWalk /\ walk \in [at : 0 .. Len(stgy.filters), allow : BOOLEAN,
                                 in : [masters : SUBSET Master, slaves : SUBSET Slave]]
  <2>1. Len(stgy.filters) \in Nat
    BY <1>3, ChainType DEF Strategies
  <2>2. 0 \in 0 .. Len(stgy.filters) /\ NoServers \in [masters : SUBSET Master, slaves : SUBSET Slave]
    BY <2>1 DEF NoServers
  <2> QED
    BY <2>2 DEF Init, NoWalk
<1>9. TypeOK
  BY <1>1, <1>2, <1>3, <1>4, <1>5, <1>6, <1>7, <1>8 DEF TypeOK
<1>10. LogInv
  <2>1. LastGtid = 0
    BY <1>2, CountsType DEF LastGtid
  <2>2. \E last \in 0 .. Len(log) : /\ last # 0 => log[last] = "own"
                                    /\ \A i \in 1 .. Len(log) : log[i] = "own" => i <= last
    BY <1>2
  <2> QED
    BY <1>2, <2>1, <2>2 DEF LogInv
<1>11. ControlInv
  BY <1>7, <1>8 DEF Init, ControlInv
<1> QED
  BY <1>9, <1>10, <1>11, InitLoop DEF TypeInv

(* A call starts.                                                          *)
LEMMA StartType ==
  ASSUME TypeInv, LoopInv', NEW mode \in {"query", "prepare", "execute"},
         NEW stmt \in Texts \union {NoText}, NEW old \in Server \union {None}, Start(mode, stmt, old)
  PROVE  TypeInv'
<1>1. /\ pc' = "pick" /\ call' = [NoCall EXCEPT !.mode = mode, !.stmt = stmt, !.old = old]
      /\ walk' = [at |-> 1, in |-> AllServers, allow |-> FALSE]
      /\ UNCHANGED <<conf, stgy, qos, log, applied, open, prep, app>>
  BY DEF Start
<1>2. call' \in Calling /\ call'.mode = mode /\ call'.good = FALSE
  BY <1>1 DEF NoCall, Calling
<1>3. Len(stgy.filters) \in Nat \ {0}
  BY ChainType DEF TypeInv, TypeOK, Strategies
<1>4. walk' \in [at : 0 .. Len(stgy.filters), allow : BOOLEAN,
                 in : [masters : SUBSET Master, slaves : SUBSET Slave]]
  <2>1. 1 \in 0 .. Len(stgy.filters) /\ AllServers \in [masters : SUBSET Master, slaves : SUBSET Slave]
    BY <1>3 DEF AllServers
  <2> QED
    BY <1>1, <2>1
<1>5. TypeOK'
  BY <1>1, <1>2, <1>4 DEF TypeInv, TypeOK, QosData, LoopInv
<1>6. ControlInv'
  BY <1>1, <1>2 DEF TypeInv, ControlInv
<1> QED
  BY <1>1, <1>5, <1>6, LogSame DEF TypeInv

(* The walk goes on.                                                       *)
LEMMA OnwardType ==
  ASSUME TypeInv, LoopInv', pc = "pick", UNCHANGED <<conf, log, applied, prep, app>>, qos' \in QosData',
         NEW s, SameButFlags(s), NEW out, NEW allow, Onward(s, out, allow),
         walk.at # Len(stgy.filters)
  PROVE  TypeInv'
<1>1. /\ walk' = [at |-> walk.at + 1, in |-> out, allow |-> allow] /\ stgy' = s
      /\ UNCHANGED <<open, pc, call>>
      /\ out \in [masters : SUBSET Master, slaves : SUBSET Slave] /\ allow \in BOOLEAN
  BY DEF Onward, GoesOn, Selection
<1>2. walk.at \in 1 .. Len(stgy.filters) /\ stgy.filters \in Chain
  BY AtFilter
<1>3. Len(stgy.filters) \in Nat
  BY <1>2, ChainType
<1>4. walk.at + 1 \in 0 .. Len(stgy.filters) /\ walk.at + 1 # 0
  BY <1>2, <1>3
<1>5. walk' \in [at : 0 .. Len(stgy'.filters), allow : BOOLEAN,
                 in : [masters : SUBSET Master, slaves : SUBSET Slave]] /\ walk'.at # 0
  BY <1>1, <1>4 DEF SameButFlags
<1>6. TypeOK'
  BY <1>1, <1>5 DEF TypeInv, TypeOK, SameButFlags
<1>7. ControlInv'
  BY <1>1, <1>5 DEF TypeInv, ControlInv, SameButFlags
<1> QED
  BY <1>6, <1>7, LogSame DEF TypeInv

\* What the handle remembers of a server that has been picked.
Remembers(t, s, c, balanced) ==
  /\ t \in Strategies /\ t.filters = s.filters /\ t.in_transaction = s.in_transaction
  /\ t.trx_read_only = s.trx_read_only /\ t.injectable_query = s.injectable_query
  /\ t.last_used_conn = IF c = None THEN Proxy ELSE c
  /\ t.trx_stop_switching <=> s.trx_stop_switching \/ (balanced /\ s.in_transaction)
  /\ t.trx_begin_required <=> s.trx_begin_required /\ ~BeginDelayed(s, c, balanced)

(* It remembers the server, and whether the transaction stays there.       *)
LEMMA PickedType ==
  ASSUME NEW s \in Strategies, NEW c \in Server \union {None}, NEW balanced \in BOOLEAN
  PROVE  Remembers(Picked(s, c, balanced), s, c, balanced)
<1> DEFINE l == IF c = None THEN Proxy ELSE c
           t == s.trx_stop_switching \/ (balanced /\ s.in_transaction)
           b == s.trx_begin_required /\ ~BeginDelayed(s, c, balanced)
<1>1. l \in Server
  BY ServerType
<1>2. s.trx_stop_switching \in BOOLEAN /\ s.in_transaction \in BOOLEAN /\ s.trx_begin_required \in BOOLEAN
  BY DEF Strategies
<1>3. t \in BOOLEAN /\ b \in BOOLEAN
  BY <1>2
<1>4. Picked(s, c, balanced)
        = [s EXCEPT !.last_used_conn = l, !.trx_stop_switching = t, !.trx_begin_required = b]
  BY DEF Picked
<1> HIDE DEF l, t, b
<1>5. /\ Picked(s, c, balanced) \in Strategies
      /\ Picked(s, c, balanced).filters = s.filters
      /\ Picked(s, c, balanced).in_transaction = s.in_transaction
      /\ Picked(s, c, balanced).trx_read_only = s.trx_read_only
      /\ Picked(s, c, balanced).injectable_query = s.injectable_query
      /\ Picked(s, c, balanced).last_used_conn = l
      /\ Picked(s, c, balanced).trx_stop_switching = t
      /\ Picked(s, c, balanced).trx_begin_required = b
  BY <1>1, <1>3, <1>4 DEF Strategies
<1> QED
  BY <1>5 DEF Remembers, l, t, b

(* The walk ends.                                                          *)
LEMMA EndsWithType ==
  ASSUME TypeInv, LoopInv', pc = "pick", UNCHANGED <<conf, log, applied, prep, app>>, qos' \in QosData',
         NEW s, SameButFlags(s), NEW c \in Server \union {None}, NEW balanced \in BOOLEAN,
         EndsWith(s, c, balanced)
  PROVE  TypeInv'
<1>1. /\ stgy' = Picked(s, c, balanced) /\ walk' = NoWalk
      /\ open' = IF BeginDelayed(s, c, balanced)
                 THEN [open EXCEPT ![c] = IF s.trx_read_only THEN "ro" ELSE "rw"] ELSE open
      /\ call' = [call EXCEPT !.conn = c, !.pinned = s.trx_stop_switching]
      /\ pc' = IF c = None THEN "return"
               ELSE IF call.mode = "execute" /\ c # call.old THEN "switch" ELSE "send"
  BY DEF EndsWith
<1>2. /\ s \in Strategies /\ s.in_transaction = stgy.in_transaction /\ s.filters = stgy.filters
      /\ s.trx_stop_switching = stgy.trx_stop_switching /\ s.trx_stop_switching \in BOOLEAN
      /\ s.trx_begin_required = stgy.trx_begin_required
  BY DEF SameButFlags, Strategies
<1>3. /\ stgy' \in Strategies /\ stgy'.filters = stgy.filters
      /\ stgy'.in_transaction = stgy.in_transaction
      /\ stgy'.last_used_conn = (IF c = None THEN Proxy ELSE c)
      /\ stgy'.trx_stop_switching = (stgy.trx_stop_switching \/ (balanced /\ stgy.in_transaction))
      /\ stgy'.trx_begin_required
           = (stgy.trx_begin_required /\ ~BeginDelayed(s, c, balanced))
  <2>1. s \in Strategies
    BY <1>2
  <2>2. Remembers(Picked(s, c, balanced), s, c, balanced)
    BY <2>1, PickedType
  <2> QED
    BY <1>1, <1>2, <2>2 DEF Remembers, Strategies
<1>4. BeginDelayed(s, c, balanced) => c \in Server /\ balanced /\ stgy.in_transaction
  BY <1>2 DEF BeginDelayed
<1>5. open' \in [Server -> {"none", "rw", "ro", "wrote"}]
  <2>1. open \in [Server -> {"none", "rw", "ro", "wrote"}]
    BY DEF TypeInv, TypeOK
  <2> QED
    BY <1>1, <1>4, <2>1
<1>6. call' \in Calling /\ call'.mode = call.mode /\ call'.good = call.good /\ call'.conn = c
  <2>1. call \in Calling
    BY DEF TypeInv, TypeOK
  <2> QED
    BY <1>1, <1>2, <2>1 DEF Calling
<1>7. walk' \in [at : 0 .. Len(stgy'.filters), allow : BOOLEAN,
                 in : [masters : SUBSET Master, slaves : SUBSET Slave]]
  <2>1. Len(stgy'.filters) \in Nat
    BY <1>3, ChainType DEF Strategies
  <2>2. 0 \in 0 .. Len(stgy'.filters) /\ NoServers \in [masters : SUBSET Master, slaves : SUBSET Slave]
    BY <2>1 DEF NoServers
  <2> QED
    BY <1>1, <2>2 DEF NoWalk
<1>8. TypeOK'
  BY <1>1, <1>3, <1>5, <1>6, <1>7 DEF TypeInv, TypeOK, LoopInv
<1>9. pc' \in {"send", "switch", "return"} /\ (pc' \in {"send", "switch"} => c \in Server)
  BY <1>1
<1>10. call.mode \in {"query", "prepare", "execute"} /\ ~call.good
  BY DEF TypeInv, ControlInv
<1>11. stgy'.last_used_conn \in Server
  BY <1>3, ServerType
<1>12. stgy'.trx_stop_switching => stgy'.in_transaction
  BY <1>3 DEF TypeInv, ControlInv
<1>13. stgy'.in_transaction /\ ~stgy'.trx_begin_required => stgy'.trx_stop_switching
  BY <1>3, <1>4 DEF TypeInv, ControlInv
<1>14. ControlInv'
  BY <1>1, <1>6, <1>9, <1>10, <1>11, <1>12, <1>13 DEF ControlInv
<1> QED
  BY <1>8, <1>14, LogSame DEF TypeInv

(* A filter passes on or picks a server.                                   *)
LEMMA FilteringType == ASSUME TypeInv, LoopInv', Filtering PROVE TypeInv'
BY FilterStep, OnwardType, EndsWithType

(* A statement is prepared again on another connection.                    *)
LEMMA SwitchType == ASSUME TypeInv, LoopInv', Switch PROVE TypeInv'
<1>1. /\ pc = "switch" /\ pc' \in {"send", "return"}
      /\ prep' = prep \/ prep' = [prep EXCEPT !.conn = call.conn]
      /\ UNCHANGED <<conf, stgy, qos, log, applied, open, call, walk, app>>
  BY DEF Switch
<1>2. call.conn \in Server /\ prep \in [conn : Server \union {None}, stmt : Texts \union {NoText}]
  BY <1>1 DEF TypeInv, TypeOK, ControlInv
<1>3. prep' \in [conn : Server \union {None}, stmt : Texts \union {NoText}]
  BY <1>1, <1>2
<1>4. TypeOK'
  BY <1>1, <1>3 DEF TypeInv, TypeOK, QosData
<1>5. ControlInv'
  BY <1>1 DEF TypeInv, ControlInv
<1> QED
  BY <1>1, <1>4, <1>5, LogSame DEF TypeInv

(* A statement is sent.                                                    *)
LEMMA SendType == ASSUME TypeInv, LoopInv', Send PROVE TypeInv'
<1>1. PICK o \in Outcomes :
        /\ IF o = "ok" THEN ExecutedOnServer(call.conn) ELSE UNCHANGED <<log, open>>
        /\ call' = [call EXCEPT
             !.transient = Transient(o), !.good = o = "ok",
             !.tries = IF Transient(o) THEN @ + 1 ELSE @,
             !.ran = IF o = "ok" /\ call.mode # "prepare" THEN @ + 1 ELSE @]
        /\ prep' = IF o = "ok" /\ call.mode = "prepare"
                   THEN [conn |-> call.conn, stmt |-> call.stmt] ELSE prep
        /\ pc' = IF Transient(o) /\ TriesLeft THEN "send"
                 ELSE IF o = "ok" /\ Injects THEN "inject" ELSE "return"
  BY DEF Send
<1>2. /\ pc = "send" /\ UNCHANGED <<conf, stgy, qos, applied, walk, app>>
      /\ Len(log') <= conf.maxLog
  BY DEF Send
<1>3. /\ log' = log \/ log' = Logged("own")
      /\ open' = open \/ \E c \in Server : open' = [open EXCEPT ![c] = "wrote"]
  BY <1>1, ServerType DEF ExecutedOnServer
<1> DEFINE t == Transient(o)
           g == o = "ok"
           n == IF t THEN call.tries + 1 ELSE call.tries
           r == IF o = "ok" /\ call.mode # "prepare" THEN call.ran + 1 ELSE call.ran
<1>4. call' = [call EXCEPT !.transient = t, !.good = g, !.tries = n, !.ran = r]
  BY <1>1
<1>5. call \in Calling /\ call.tries \in Nat /\ call.ran \in Nat /\ call.transient \in BOOLEAN
  BY DEF TypeInv, TypeOK, Calling
<1>6. t \in BOOLEAN /\ g \in BOOLEAN /\ n \in Nat /\ r \in Nat
  BY <1>5 DEF Transient, MayRetry
<1> HIDE DEF t, g, n, r
<1>7. call' \in Calling /\ call'.mode = call.mode /\ call'.conn = call.conn
  BY <1>4, <1>5, <1>6 DEF Calling
<1>8. prep' \in [conn : Server \union {None}, stmt : Texts \union {NoText}]
  BY <1>1, <1>5 DEF TypeInv, TypeOK, Calling
<1>9. open' \in [Server -> {"none", "rw", "ro", "wrote"}]
  BY <1>3 DEF TypeInv, TypeOK
<1>10. /\ LogInv' /\ log' \in Seq({"own", "count"})
       /\ applied' \in [Slave -> 0 .. Len(log')]
       /\ app' \in [mine : 0 .. Len(log'), failed : BOOLEAN]
  <2>1. CASE log' = log
    BY <1>2, <2>1, LoggedStep
  <2>2. CASE log' = Append(log, "own")
    <3>1. log \in Seq(Entry) /\ "own" \in Entry
      BY DEF TypeInv, TypeOK, Entry
    <3>2. Len(log') = Len(log) + 1 /\ Len(log) \in Nat
      BY <2>2, <3>1
    <3>3. conf.maxLog \in Nat
      BY ConfType DEF TypeInv, TypeOK
    <3>4. Len(log) < conf.maxLog
      BY <1>2, <3>2, <3>3
    <3>5. log' = log \/ log' = Logged("own")
      BY <1>3
    <3> QED
      BY <1>2, <3>4, <3>5, LoggedStep
  <2> QED
    BY <1>3, <2>1, <2>2 DEF Logged
<1>11. pc' \in {"send", "inject", "return"} /\ (pc' = "inject" => conf.gtid)
  BY <1>1 DEF Injects
<1>12. TypeOK'
  BY <1>2, <1>7, <1>8, <1>9, <1>10, <1>11 DEF TypeInv, TypeOK, QosData, LoopInv
<1>13. ControlInv'
  BY <1>2, <1>7, <1>11 DEF TypeInv, ControlInv
<1> QED
  BY <1>10, <1>12, <1>13 DEF TypeInv

(* A write is counted, or not.                                             *)
LEMMA CountType ==
  ASSUME TypeInv, LoopInv', call' = call \/ call' = [call EXCEPT !.good = @ /\ ~conf.report]
  PROVE  call' \in Calling
<1>1. call \in Calling
  BY DEF TypeInv, TypeOK
<1>2. call.good \in BOOLEAN
  BY <1>1 DEF Calling
<1>3. (call.good /\ ~conf.report) \in BOOLEAN
  BY <1>2
<1> QED
  BY <1>1, <1>3 DEF Calling

(* The GTID is counted on the master.                                      *)
LEMMA InjectType == ASSUME TypeInv, LoopInv', Inject PROVE TypeInv'
<1>1. /\ pc = "inject" /\ pc' \in {"fetch", "return"}
      /\ call' = call \/ call' = [call EXCEPT !.good = @ /\ ~conf.report]
      /\ (log' = Append(log, "count") /\ Len(log) < conf.maxLog) \/ log' = log
      /\ UNCHANGED <<conf, stgy, qos, applied, open, walk, prep, app>>
      /\ conf.gtid
  BY DEF Inject, Uncounted, TypeInv, ControlInv
<1>2. /\ LogInv' /\ log' \in Seq({"own", "count"}) /\ Len(log') <= conf.maxLog
      /\ applied' \in [Slave -> 0 .. Len(log')]
      /\ app' \in [mine : 0 .. Len(log'), failed : BOOLEAN]
  <2>1. CASE log' = log
    BY <1>1, <2>1, LoggedStep
  <2>2. CASE log' # log
    <3>1. "count" \in Entry /\ log' = Append(log, "count") /\ Len(log) < conf.maxLog
      BY <1>1, <2>2 DEF Entry
    <3> QED
      BY <1>1, <3>1, LogStep
  <2> QED
    BY <2>1, <2>2
<1>3. call' \in Calling
  BY <1>1, CountType
<1>4. TypeOK'
  BY <1>1, <1>2, <1>3 DEF TypeInv, TypeOK, QosData, LoopInv
<1>5. ControlInv'
  BY <1>1 DEF TypeInv, ControlInv
<1> QED
  BY <1>2, <1>4, <1>5 DEF TypeInv

(* The GTID is asked for.                                                  *)
LEMMA FetchType == ASSUME TypeInv, LoopInv', Fetch PROVE TypeInv'
<1>1. /\ pc = "fetch" /\ pc' = "return"
      /\ call' = call \/ call' = [call EXCEPT !.good = @ /\ ~conf.report]
      /\ qos' = qos \/ qos' = [qos EXCEPT !.gtid = LastGtid]
      /\ UNCHANGED <<conf, stgy, log, applied, open, walk, prep, app>>
  BY DEF Fetch, Uncounted
<1>2. qos' \in QosData'
  <2>1. qos \in QosData /\ Len(log) \in Nat /\ Len(log) <= conf.maxLog /\ conf.maxLog \in Nat
    BY ConfType DEF TypeInv, TypeOK
  <2>2. LastGtid \in 0 .. Len(log)
    BY <2>1, CountsType DEF LastGtid
  <2>3. LastGtid \in 0 .. conf.maxLog
    BY <2>1, <2>2
  <2> HIDE DEF LastGtid
  <2> QED
    BY <1>1, <2>1, <2>3 DEF QosData
<1>3. call' \in Calling
  BY <1>1, CountType
<1>4. TypeOK'
  BY <1>1, <1>2, <1>3 DEF TypeInv, TypeOK, LoopInv
<1>5. ControlInv'
  BY <1>1 DEF TypeInv, ControlInv
<1> QED
  BY <1>1, <1>4, <1>5, LogSame DEF TypeInv

(* A transaction ends on the server.                                       *)
LEMMA EndType ==
  ASSUME TypeInv, LoopInv', NEW mode \in {"commit", "rollback", "begin"}, NEW ro \in BOOLEAN,
         pc = "user", mode # "rollback" => Room, End(mode, ro)
  PROVE  TypeInv'
<1>1. /\ log' = (IF mode # "rollback" /\ open[Target] = "wrote" THEN Logged("own") ELSE log)
      /\ open' = [open EXCEPT ![Target] = "none"]
      /\ call' = [NoCall EXCEPT !.mode = mode, !.conn = Target, !.ro = ro, !.good = TRUE]
      /\ pc' \in {"inject", "return"} /\ (pc' = "inject" => conf.gtid)
      /\ UNCHANGED <<conf, stgy, qos, applied, walk, prep, app>>
  BY DEF End
<1>2. stgy.last_used_conn \in Server \union {None}
  BY DEF TypeInv, TypeOK, Strategies
<1>3. Target \in Server
  BY <1>2, ServerType DEF Target
<1>4. Len(log) < conf.maxLog \/ log' = log
  <2>1. Len(log) \in Nat /\ conf.maxLog \in Nat
    BY ConfType DEF TypeInv, TypeOK
  <2> QED
    BY <1>1, <2>1 DEF Room
<1>5. log' = Logged("own") \/ log' = log
  BY <1>1
<1>6. /\ LogInv' /\ log' \in Seq({"own", "count"}) /\ Len(log') <= conf.maxLog
      /\ applied' \in [Slave -> 0 .. Len(log')]
      /\ app' \in [mine : 0 .. Len(log'), failed : BOOLEAN]
  BY <1>1, <1>4, <1>5, LoggedStep
<1>7. call' \in Calling
  <2> DEFINE t == Target
  <2>1. call' = [NoCall EXCEPT !.mode = mode, !.conn = t, !.ro = ro, !.good = TRUE] /\ t \in Server
    BY <1>1, <1>3
  <2> HIDE DEF t
  <2> QED
    BY <2>1 DEF NoCall, Calling
<1>8. open' \in [Server -> {"none", "rw", "ro", "wrote"}]
  BY <1>1, <1>3 DEF TypeInv, TypeOK
<1>9. TypeOK'
  BY <1>1, <1>6, <1>7, <1>8 DEF TypeInv, TypeOK, QosData, LoopInv
<1>10. ControlInv'
  BY <1>1 DEF TypeInv, ControlInv
<1> QED
  BY <1>6, <1>9, <1>10 DEF TypeInv

(* A transaction begins for the handle.                                    *)
LEMMA BegunType ==
  ASSUME NEW s \in Strategies, NEW ro \in BOOLEAN
  PROVE  /\ Begun(s, ro) \in Strategies /\ Begun(s, ro).filters = s.filters
         /\ Begun(s, ro).in_transaction /\ ~Begun(s, ro).trx_stop_switching
         /\ Begun(s, ro).trx_begin_required
         /\ Begun(s, ro).last_used_conn = s.last_used_conn
         /\ Ended(s) \in Strategies /\ Ended(s).filters = s.filters
         /\ ~Ended(s).in_transaction /\ ~Ended(s).trx_stop_switching
         /\ Ended(s).trx_begin_required <=> s.trx_begin_required
         /\ Ended(s).last_used_conn = s.last_used_conn
BY DEF Begun, Ended, Strategies

(* A begin.                                                                *)
LEMMA BeginType ==
  ASSUME TypeInv, LoopInv', NEW ro \in BOOLEAN, TxBegin(ro)
  PROVE  TypeInv'
<1>1. pc = "user"
  BY DEF TxBegin, Calls
<1>2. CASE End("begin", ro) /\ Room
  BY <1>1, <1>2, EndType
<1>3. CASE /\ stgy' = Begun(stgy, ro)
           /\ UNCHANGED <<conf, qos, log, applied, open, pc, call, walk, prep, app>>
  <2>1. stgy \in Strategies
    BY DEF TypeInv, TypeOK
  <2>2. /\ stgy' \in Strategies /\ stgy'.filters = stgy.filters
        /\ stgy'.in_transaction /\ ~stgy'.trx_stop_switching
        /\ stgy'.trx_begin_required
    BY <1>3, <2>1, BegunType
  <2>3. TypeOK'
    BY <1>3, <2>2 DEF TypeInv, TypeOK, QosData
  <2>4. ControlInv'
    BY <1>1, <1>3, <2>2 DEF TypeInv, ControlInv
  <2> QED
    BY <1>3, <2>3, <2>4, LogSame DEF TypeInv
<1> QED
  BY <1>2, <1>3 DEF TxBegin

(* A call returns.                                                         *)
LEMMA ReturnType == ASSUME TypeInv, LoopInv', Return PROVE TypeInv'
<1>1. /\ pc = "return" /\ pc' = "user" /\ call' = NoCall
      /\ stgy' \in {Begun(stgy, call.ro), Ended(stgy), stgy}
      /\ app'.mine \in {LastOwn, app.mine} /\ app'.failed \in BOOLEAN
      /\ app' = [mine |-> app'.mine, failed |-> app'.failed]
      /\ UNCHANGED <<conf, qos, log, applied, open, walk, prep>>
  BY DEF Return
<1>2. stgy \in Strategies /\ call.ro \in BOOLEAN
  BY DEF TypeInv, TypeOK, Calling
<1>3. /\ stgy' \in Strategies /\ stgy'.filters = stgy.filters
      /\ stgy' # stgy => ~stgy'.trx_stop_switching
      /\ stgy' # stgy => stgy'.trx_begin_required \/ ~stgy'.in_transaction
  <2>1. CASE stgy' = Begun(stgy, call.ro)
    BY <1>2, <2>1, BegunType
  <2>2. CASE stgy' = Ended(stgy)
    BY <1>2, <2>2, BegunType
  <2>3. CASE stgy' = stgy
    BY <1>2, <2>3
  <2> QED
    BY <1>1, <2>1, <2>2, <2>3
<1>4. app' \in [mine : 0 .. Len(log), failed : BOOLEAN]
  <2>1. log \in Seq(Entry) /\ LogInv /\ app.mine \in 0 .. Len(log)
    BY DEF TypeInv, TypeOK, Entry
  <2>2. LastOwn \in 0 .. Len(log)
    BY <2>1, LastOwnType
  <2> HIDE DEF LastOwn
  <2>3. app'.mine \in 0 .. Len(log)
    BY <1>1, <2>1, <2>2
  <2> QED
    BY <1>1, <2>3
<1>5. call' \in Calling /\ call'.mode = "none"
  BY <1>1 DEF NoCall, Calling
<1>6. TypeOK'
  BY <1>1, <1>3, <1>4, <1>5 DEF TypeInv, TypeOK, QosData, LoopInv
<1>7. ControlInv'
  BY <1>1, <1>3 DEF TypeInv, ControlInv, NoCall
<1> QED
  BY <1>1, <1>6, <1>7, LogSame DEF TypeInv

(* mysqlnd_ms_set_qos.                                                     *)
LEMMA SetQosType ==
  ASSUME TypeInv, LoopInv', NEW level \in conf.levels, NEW option, SetQos(level, option)
  PROVE  TypeInv'
<1>1. /\ pc = "user" /\ UNCHANGED <<conf, log, applied, open, pc, call, walk, prep>>
      /\ stgy' = [stgy EXCEPT !.filters = <<"qos">> \o RemoveFirst(@, "qos")]
  BY DEF SetQos, Calls
<1>2. PICK gtid \in IF option = "gtid" THEN 1 .. LastGtid
                    ELSE IF qos.gtid = NoGtid THEN {NoGtid} ELSE {Freed} :
        /\ qos' = [consistency |-> level, aged |-> option = "age", gtid |-> gtid]
        /\ app' = [app EXCEPT !.mine = IF option = "gtid" THEN EntryOf(gtid) ELSE @]
  BY DEF SetQos
<1>3. /\ log \in Seq(Entry) /\ LogInv /\ Len(log) \in Nat /\ Len(log) <= conf.maxLog
      /\ conf.maxLog \in Nat /\ level \in {"strong", "session", "eventual"}
      /\ app \in [mine : 0 .. Len(log), failed : BOOLEAN] /\ stgy \in Strategies
  BY ConfType DEF TypeInv, TypeOK, Entry
<1>4. LastGtid \in 0 .. Len(log)
  BY <1>3, CountsType DEF LastGtid
<1> HIDE DEF LastGtid
<1>5. gtid \in {Freed} \union 0 .. conf.maxLog
  BY <1>2, <1>3, <1>4 DEF NoGtid
<1>6. qos' \in QosData'
  BY <1>1, <1>2, <1>3, <1>5 DEF QosData
<1>7. app' \in [mine : 0 .. Len(log), failed : BOOLEAN]
  <2>1. CASE option = "gtid"
    <3>1. EntryOf(gtid) \in 1 .. Len(log)
      BY <1>2, <1>3, <2>1, EntryOfType
    <3> HIDE DEF EntryOf
    <3>2. EntryOf(gtid) \in 0 .. Len(log)
      BY <1>3, <3>1
    <3> QED
      BY <1>2, <1>3, <2>1, <3>2
  <2>2. CASE option # "gtid"
    BY <1>2, <1>3, <2>2
  <2> QED
    BY <2>1, <2>2
<1> DEFINE f == <<"qos">> \o RemoveFirst(stgy.filters, "qos")
<1>8. f \in Chain
  <2>1. stgy.filters \in Chain
    BY <1>3 DEF Strategies
  <2> QED
    BY <2>1, QosInFront
<1>9. stgy' = [stgy EXCEPT !.filters = f]
  BY <1>1
<1> HIDE DEF f
<1>10. /\ stgy' \in Strategies /\ stgy'.filters = f
       /\ stgy'.trx_stop_switching = stgy.trx_stop_switching
       /\ stgy'.in_transaction = stgy.in_transaction
       /\ stgy'.trx_begin_required = stgy.trx_begin_required
       /\ stgy'.last_used_conn = stgy.last_used_conn
  BY <1>3, <1>8, <1>9 DEF Strategies
<1>11. walk' = NoWalk /\ Len(stgy'.filters) \in Nat
  BY <1>1, <1>8, <1>10, ChainType DEF TypeInv, ControlInv
<1>12. walk' \in [at : 0 .. Len(stgy'.filters), allow : BOOLEAN,
                  in : [masters : SUBSET Master, slaves : SUBSET Slave]]
  <2>1. 0 \in 0 .. Len(stgy'.filters) /\ NoServers \in [masters : SUBSET Master, slaves : SUBSET Slave]
    BY <1>11 DEF NoServers
  <2> QED
    BY <1>11, <2>1 DEF NoWalk
<1>13. TypeOK'
  BY <1>1, <1>6, <1>7, <1>10, <1>12 DEF TypeInv, TypeOK
<1>14. ControlInv'
  BY <1>1, <1>10, <1>11 DEF TypeInv, ControlInv
<1> QED
  BY <1>1, <1>13, <1>14, LogSame DEF TypeInv

(* Every step keeps the types.                                             *)
LEMMA TypeStep == ASSUME TypeInv, [Next]_vars PROVE TypeInv'
<1>1. LoopInv'
  BY LoopStep DEF TypeInv
<1>2. /\ conf \in Settings /\ conf.maxLog \in Nat /\ Len(log) \in Nat
      /\ conf.texts \subseteq Texts /\ conf.prepared \subseteq Texts
      /\ prep \in [conn : Server \union {None}, stmt : Texts \union {NoText}]
  BY ConfType DEF TypeInv, TypeOK
<1>3. CASE \E c \in Slave : Replicate(c)
  <2>1. PICK c \in Slave : Replicate(c)
    BY <1>3
  <2>2. /\ applied[c] < Len(log) /\ applied' = [applied EXCEPT ![c] = @ + 1]
        /\ UNCHANGED <<conf, stgy, qos, log, open, pc, call, walk, prep, app>>
    BY <2>1 DEF Replicate
  <2>3. applied' \in [Slave -> 0 .. Len(log)]
    <3>1. applied \in [Slave -> 0 .. Len(log)]
      BY DEF TypeInv, TypeOK
    <3>2. applied[c] + 1 \in 0 .. Len(log)
      BY <1>2, <2>2, <3>1
    <3> QED
      BY <2>2, <3>1, <3>2
  <2>4. TypeOK'
    BY <2>2, <2>3 DEF TypeInv, TypeOK, QosData
  <2>5. ControlInv'
    BY <2>2 DEF TypeInv, ControlInv
  <2> QED
    BY <1>1, <2>2, <2>4, <2>5, LogSame DEF TypeInv
<1>4. CASE OtherCounts
  <2>1. /\ conf.gtid /\ log' = Append(log, "count") /\ Len(log) < conf.maxLog /\ "count" \in Entry
        /\ UNCHANGED <<conf, stgy, qos, applied, open, pc, call, walk, prep, app>>
    BY <1>2, <1>4 DEF OtherCounts, Room, Entry
  <2>2. /\ LogInv' /\ log' \in Seq({"own", "count"}) /\ Len(log') <= conf.maxLog
        /\ applied' \in [Slave -> 0 .. Len(log')]
        /\ app' \in [mine : 0 .. Len(log'), failed : BOOLEAN]
    BY <2>1, LogStep
  <2>3. TypeOK'
    BY <2>1, <2>2 DEF TypeInv, TypeOK, QosData
  <2>4. ControlInv'
    BY <2>1 DEF TypeInv, ControlInv
  <2> QED
    BY <1>1, <2>2, <2>3, <2>4 DEF TypeInv
<1>5. CASE \/ \E stmt \in conf.texts : Query(stmt)
           \/ \E stmt \in conf.prepared : Prepare(stmt)
           \/ Execute
  <2>1. CASE \E stmt \in conf.texts : Query(stmt)
    <3>1. PICK stmt \in conf.texts : Start("query", stmt, None)
      BY <2>1 DEF Query
    <3> QED
      BY <1>1, <1>2, <3>1, StartType
  <2>2. CASE \E stmt \in conf.prepared : Prepare(stmt)
    <3>1. PICK stmt \in conf.prepared : Start("prepare", stmt, None)
      BY <2>2 DEF Prepare
    <3> QED
      BY <1>1, <1>2, <3>1, StartType
  <2>3. CASE Execute
    <3>1. Start("execute", prep.stmt, prep.conn) /\ prep.conn # None
      BY <2>3 DEF Execute
    <3>2. prep.stmt \in Texts \union {NoText} /\ prep.conn \in Server \union {None}
      BY <1>2
    <3> QED
      BY <1>1, <3>1, <3>2, StartType
  <2> QED
    BY <1>5, <2>1, <2>2, <2>3
<1>6. CASE Filtering
  BY <1>1, <1>6, FilteringType
<1>7. CASE Switch
  BY <1>1, <1>7, SwitchType
<1>8. CASE Send
  BY <1>1, <1>8, SendType
<1>9. CASE Inject
  BY <1>1, <1>9, InjectType
<1>10. CASE Fetch
  BY <1>1, <1>10, FetchType
<1>11. CASE \E mode \in {"commit", "rollback"} : CommitOrRollback(mode)
  <2>1. PICK mode \in {"commit", "rollback"} : CommitOrRollback(mode)
    BY <1>11
  <2>2. pc = "user" /\ (mode # "rollback" => Room) /\ End(mode, FALSE)
    BY <2>1 DEF CommitOrRollback, Calls
  <2> QED
    BY <1>1, <2>2, EndType
<1>12. CASE \E ro \in BOOLEAN : TxBegin(ro)
  BY <1>1, <1>12, BeginType
<1>13. CASE Return
  BY <1>1, <1>13, ReturnType
<1>14. CASE \E level \in conf.levels, option \in {"none", "age", "gtid"} : SetQos(level, option)
  BY <1>1, <1>14, SetQosType
<1>15. CASE UNCHANGED vars
  <2>1. UNCHANGED <<conf, stgy, qos, log, applied, open, pc, call, walk, prep, app>>
    BY <1>15 DEF vars
  <2>2. TypeOK'
    BY <2>1 DEF TypeInv, TypeOK, QosData
  <2>3. ControlInv'
    BY <2>1 DEF TypeInv, ControlInv
  <2> QED
    BY <1>1, <2>1, <2>2, <2>3, LogSame DEF TypeInv
<1> QED
  BY <1>3, <1>4, <1>5, <1>6, <1>7, <1>8, <1>9, <1>10, <1>11, <1>12, <1>13, <1>14, <1>15 DEF Next

-----------------------------------------------------------------------------
(* Transactions stay on the server that has been sent their BEGIN.         *)

\* The conjuncts of TransactionInv for a chain without loss.
MastersLeft == pc = "pick" /\ "table" \notin ToSet(stgy.filters) => walk.in.masters = Master
SentHasBegun == pc \in {"switch", "send"} => /\ call.conn = stgy.last_used_conn
                                             /\ stgy.in_transaction => HasBegun
OpenAgrees == \A c \in Server : open[c] # "none" <=>
                HasBegun /\ c = stgy.last_used_conn /\ ~EndsTransaction /\ ~app.failed

(* The invariant in parts.                                                 *)
LEMMA TransactionParts ==
  TransactionInv <=> /\ app.failed => pc = "user" \/ call.mode = "rollback"
                     /\ call.mode = "rollback" => pc = "return" /\ call.good
                     /\ Transactional => MastersLeft /\ SentHasBegun /\ OpenAgrees
BY DEF TransactionInv, MastersLeft, SentHasBegun, OpenAgrees

(* What the filter of a call is.                                           *)
LEMMA HereInChain ==
  ASSUME TypeInv, pc = "pick"
  PROVE  Here \in ToSet(stgy.filters)
BY AtFilter DEF Here, ToSet

(* The qos filter keeps the master, or nobody had been left to it.         *)
LEMMA QosStep ==
  ASSUME TypeInv, Filtering, Here = "qos"
  PROVE  \/ \E s, out, allow : Onward(s, out, allow) /\ out.masters = walk.in.masters
         \/ \E s : /\ EndsWith(s, IF conf.failover THEN Proxy ELSE None, FALSE)
                   /\ walk.in.masters = {}
<1>1. pc = "pick" /\ (PassOver \/ ChooseQos)
  BY DEF Filtering, PassOver, ChooseQos, ChooseTable, ChooseGroups, PickMultiple, PickUser,
         PickBalanced, At, Here
<1>2. walk.in \in Selection /\ walk.allow \in BOOLEAN
  BY <1>1, AtFilter
<1>3. CASE PassOver
  <2>1. GoesOn(walk.in, walk.allow) /\ stgy' = stgy
    BY <1>3 DEF PassOver
  <2>2. Onward(stgy, walk.in, walk.allow)
    BY <1>2, <2>1 DEF Onward, Fewer
  <2> QED
    BY <2>2
<1>4. CASE ChooseQos
  <2>1. PICK caught, up, fresh :
          Narrowed(QosFlags(qos', call.stmt, call.mode),
                   QosSelects(qos', call.stmt, call.mode, walk.in, caught, up, fresh), TRUE)
    BY <1>4 DEF ChooseQos
  <2> DEFINE s == QosFlags(qos', call.stmt, call.mode)
             out == QosSelects(qos', call.stmt, call.mode, walk.in, caught, up, fresh)
  <2>2. out \in Selection /\ Fewer(out, walk.in) /\ out.masters = walk.in.masters
    BY <1>2, QosSelected
  <2> HIDE DEF s, out
  <2>3. Narrowed(s, out, TRUE)
    BY <2>1 DEF s, out
  <2>4. \/ Onward(s, out, TRUE)
        \/ out = NoServers /\ EndsWith(s, IF conf.failover THEN Proxy ELSE None, FALSE)
    BY <2>2, <2>3, NarrowedSteps
  <2>5. out = NoServers => walk.in.masters = {}
    BY <2>2 DEF NoServers
  <2> QED
    BY <2>2, <2>4, <2>5
<1> QED
  BY <1>1, <1>3, <1>4

(* The table filter keeps some servers, or failover decides.               *)
LEMMA TableStep ==
  ASSUME TypeInv, Filtering, Here = "table"
  PROVE  \/ \E s, out, allow : Onward(s, out, allow)
         \/ \E s : EndsWith(s, IF conf.failover THEN Proxy ELSE None, FALSE)
<1>1. pc = "pick" /\ (PassOver \/ ChooseTable)
  BY DEF Filtering, PassOver, ChooseQos, ChooseTable, ChooseGroups, PickMultiple, PickUser,
         PickBalanced, At, Here
<1>2. walk.in \in Selection /\ walk.allow \in BOOLEAN
  BY <1>1, AtFilter
<1>3. CASE PassOver
  <2>1. GoesOn(walk.in, walk.allow) /\ stgy' = stgy
    BY <1>3 DEF PassOver
  <2>2. Onward(stgy, walk.in, walk.allow)
    BY <1>2, <2>1 DEF Onward, Fewer
  <2> QED
    BY <2>2
<1>4. CASE ChooseTable
  <2>1. Narrowed(stgy, ForTables(conf.rules, call.stmt, walk.in), walk.allow)
    BY <1>4 DEF ChooseTable
  <2>2. ForTables(conf.rules, call.stmt, walk.in) \in Selection
        /\ Fewer(ForTables(conf.rules, call.stmt, walk.in), walk.in)
    BY <1>2, TablesSelected
  <2>3. \/ Onward(stgy, ForTables(conf.rules, call.stmt, walk.in), walk.allow)
        \/ EndsWith(stgy, IF conf.failover THEN Proxy ELSE None, FALSE)
    BY <1>2, <2>1, <2>2, NarrowedSteps
  <2> QED
    BY <2>3
<1> QED
  BY <1>1, <1>3, <1>4

\* What the last filter may choose.
Balanced(c) ==
  /\ stgy.trx_stop_switching => c = stgy.last_used_conn
  /\ \/ c \in walk.in.masters \union walk.in.slaves \union {None}
     \/ c = stgy.last_used_conn
        /\ (stgy.trx_stop_switching
              \/ (~stgy.in_transaction /\ "last_used" \in call.stmt.hints))
  /\ c \in walk.in.slaves \ walk.in.masters /\ ~stgy.trx_stop_switching /\ stgy.in_transaction =>
       stgy.trx_read_only
  /\ c \in walk.in.slaves \ walk.in.masters /\ ~stgy.trx_stop_switching =>
       \/ stgy.in_transaction \/ call.stmt.kind = "select"
       \/ call.stmt.hints \intersect {"slave", "last_used"} # {}

(* In a transaction the filter chooses the last server, or one for what    *)
(* the transaction is; else one for the statement.                         *)
LEMMA BalanceStep ==
  ASSUME TypeInv, Filtering, Here = "balance"
  PROVE  /\ qos' = qos
         /\ \E s, c : /\ SameButFlags(s) /\ s.injectable_query = stgy.injectable_query
                      /\ c \in Server \union {None} /\ EndsWith(s, c, TRUE) /\ Balanced(c)
<1>1. pc = "pick" /\ PickBalanced
  BY DEF Filtering, PassOver, ChooseQos, ChooseTable, ChooseGroups, PickMultiple, PickUser,
         PickBalanced, At, Here
<1>2. /\ walk.in \in Selection /\ walk.allow \in BOOLEAN /\ stgy \in Strategies
      /\ walk.in.masters \subseteq Master /\ walk.in.slaves \subseteq Slave
  BY <1>1, AtFilter DEF Selection
<1> DEFINE stmt == call.stmt
           pinned == Pinned(FirstChoice(stmt))
           u == stgy.master_used \/ (conf.onWrite /\ pinned = "master")
           s == [stgy EXCEPT !.master_used = u]
           which == AfterWrite(stgy, stmt, pinned)
<1>3. qos' = qos /\ \E c \in BalanceAmong(which) : EndsWith(s, c, TRUE)
  BY <1>1 DEF PickBalanced
<1>4. PICK c \in BalanceAmong(which) : EndsWith(s, c, TRUE)
  BY <1>3
<1>5. stgy.last_used_conn \in Server \union {None} /\ stgy.master_used \in BOOLEAN
      /\ stgy.in_transaction \in BOOLEAN /\ stgy.trx_stop_switching \in BOOLEAN
      /\ conf.split \in BOOLEAN
  BY <1>2, ConfType DEF Strategies, TypeInv, TypeOK
<1>6. u \in BOOLEAN
  BY <1>5
<1>7. SameButFlags(s) /\ s.injectable_query = stgy.injectable_query
  <2> HIDE DEF u
  <2> QED
    BY <1>2, <1>6 DEF SameButFlags, Strategies
<1>8. /\ Which(stmt, conf.split) \in {"slave", "master", "last_used"}
      /\ Which(stmt, conf.split) = "last_used" => "last_used" \in stmt.hints
      /\ Which(stmt, conf.split) = "slave" => stmt.kind = "select" \/ "slave" \in stmt.hints
  BY <1>5, WhichType
<1> DEFINE first == FirstChoice(stmt)
<1>9. /\ first \in {"slave", "master", "last_used"}
      /\ first = "last_used" => "last_used" \in stmt.hints
      /\ first = "slave" => stmt.kind = "select" \/ "slave" \in stmt.hints
  <2> HIDE DEF stmt
  <2> QED
    BY <1>8 DEF FirstChoice, stmt
<1>10. stgy.trx_stop_switching => stgy.in_transaction
  BY DEF TypeInv, ControlInv
<1> HIDE DEF first
<1>11. /\ pinned \in {"slave", "master", "last_used"}
       /\ stgy.trx_stop_switching => pinned = "last_used"
       /\ pinned = "last_used" =>
            stgy.trx_stop_switching \/ (~stgy.in_transaction /\ "last_used" \in stmt.hints)
       /\ pinned = "slave" =>
            /\ stgy.in_transaction => stgy.trx_read_only
            /\ ~stgy.in_transaction => stmt.kind = "select" \/ "slave" \in stmt.hints
  <2>1. CASE ~stgy.in_transaction
    BY <1>9, <1>10, <2>1 DEF Pinned, first
  <2>2. CASE stgy.in_transaction
    BY <2>2 DEF Pinned
  <2> QED
    BY <1>5, <2>1, <2>2
<1> HIDE DEF pinned, stmt
<1>12. which = pinned \/ (which = "master" /\ pinned = "slave")
  BY DEF AfterWrite
<1> HIDE DEF which
<1>13. \/ which = "last_used" /\ c = stgy.last_used_conn
       \/ which = "slave" /\ c \in walk.in.slaves
       \/ which # "last_used" /\ c \in walk.in.masters \union {None}
  BY <1>4, <1>11, <1>12 DEF BalanceAmong, OrNone
<1>14. c \in Server \union {None}
  BY <1>2, <1>5, <1>13, ServerType
<1>15. None \notin walk.in.slaves
  BY <1>2, ServerType
<1>16. Balanced(c)
  BY <1>11, <1>12, <1>13, <1>15 DEF Balanced, stmt
<1> QED
  BY <1>3, <1>4, <1>7, <1>14, <1>16

(* The chain is still one without loss.                                    *)
LEMMA TransactionalSame ==
  ASSUME UNCHANGED conf, stgy'.filters = stgy.filters
         \/ ToSet(stgy'.filters) = ToSet(stgy.filters) \union {"qos"}, Transactional'
  PROVE  Transactional
BY DEF Transactional

(* Nobody begins, ends or picks.                                           *)
LEMMA TransactionSame ==
  ASSUME TransactionInv, UNCHANGED <<conf, open, pc, walk, app, call>>,
         stgy' = stgy \/ (/\ pc = "user"
                          /\ stgy'.in_transaction = stgy.in_transaction
                          /\ stgy'.trx_begin_required = stgy.trx_begin_required
                          /\ stgy'.last_used_conn = stgy.last_used_conn
                          /\ ToSet(stgy'.filters) = ToSet(stgy.filters) \union {"qos"})
  PROVE  TransactionInv'
<1>1. Transactional' => Transactional
  BY TransactionalSame
<1>2. ASSUME Transactional' PROVE MastersLeft' /\ SentHasBegun' /\ OpenAgrees'
  <2>1. MastersLeft /\ SentHasBegun /\ OpenAgrees
    BY <1>1, <1>2, TransactionParts
  <2> QED
    BY <2>1 DEF MastersLeft, SentHasBegun, OpenAgrees, HasBegun, EndsTransaction
<1>3. /\ (app.failed => pc = "user" \/ call.mode = "rollback")'
      /\ (call.mode = "rollback" => pc = "return" /\ call.good)'
  BY TransactionParts
<1> QED
  BY <1>2, <1>3 DEF TransactionInv, MastersLeft, SentHasBegun, OpenAgrees

(* The first state.                                                        *)
LEMMA InitTransaction == Init => TransactionInv
<1> SUFFICES ASSUME Init PROVE TransactionInv
  OBVIOUS
<1>1. /\ pc = "user" /\ call = NoCall /\ call.mode = "none" /\ ~app.failed
      /\ ~stgy.in_transaction /\ open = [c \in Server |-> "none"]
  BY DEF Init, NoCall
<1> QED
  BY <1>1 DEF TransactionInv, HasBegun

(* A call starts: none does after a failure.                               *)
LEMMA StartTransaction ==
  ASSUME TypeInv, TransactionInv, "rollback" \in Discipline,
         NEW mode \in {"query", "prepare", "execute"}, Calls(mode), NEW stmt, NEW old,
         Start(mode, stmt, old)
  PROVE  TransactionInv'
<1>1. /\ pc = "user" /\ pc' = "pick" /\ ~app.failed
      /\ call' = [NoCall EXCEPT !.mode = mode, !.stmt = stmt, !.old = old]
      /\ walk' = [at |-> 1, in |-> AllServers, allow |-> FALSE]
      /\ UNCHANGED <<conf, stgy, open, app>>
  BY DEF Start, Calls
<1>2. call'.mode = mode /\ call.mode = "none"
  BY <1>1 DEF NoCall, TypeInv, ControlInv
<1>3. Transactional' => Transactional
  BY <1>1, TransactionalSame
<1>4. walk'.in.masters = Master
  BY <1>1 DEF AllServers
<1>5. ASSUME Transactional' PROVE MastersLeft' /\ SentHasBegun' /\ OpenAgrees'
  <2>1. OpenAgrees
    BY <1>3, <1>5, TransactionParts
  <2> QED
    BY <1>1, <1>2, <1>4, <2>1 DEF MastersLeft, SentHasBegun, OpenAgrees, HasBegun, EndsTransaction
<1> QED
  BY <1>1, <1>2, <1>5 DEF TransactionInv, MastersLeft, SentHasBegun, OpenAgrees

(* The walk goes on, or ends without a server.                             *)
LEMMA WalkTransaction ==
  ASSUME TypeInv, TransactionInv, Filtering, Here # "balance"
  PROVE  TransactionInv'
<1>1. /\ pc = "pick" /\ UNCHANGED <<conf, log, applied, prep, app>>
      /\ call.mode \in {"query", "prepare", "execute"} /\ ~app.failed
  BY FilterStep DEF TypeInv, ControlInv, TransactionInv
<1>2. PICK s : /\ SameButFlags(s)
               /\ \/ \E out, allow : Onward(s, out, allow)
                  \/ \E c \in Server \union {None} :
                       EndsWith(s, c, FALSE)
                         /\ (stgy.trx_stop_switching => Here \in {"user", "user_multi", "groups"})
  BY FilterStep
<1>3. /\ s \in Strategies /\ s.filters = stgy.filters /\ s.in_transaction = stgy.in_transaction
      /\ s.trx_begin_required = stgy.trx_begin_required /\ s.last_used_conn = stgy.last_used_conn
  BY <1>2 DEF SameButFlags
<1>4. CASE \E out, allow : Onward(s, out, allow)
  <2>1. stgy' = s /\ UNCHANGED <<open, pc, call>>
    BY <1>4 DEF Onward, GoesOn
  <2>2. Transactional' => Transactional
    BY <1>1, <1>3, <2>1, TransactionalSame
  <2>3. ASSUME Transactional', "table" \notin ToSet(stgy'.filters)
        PROVE  walk'.in.masters = Master
    <3>1. Here = "qos" /\ walk.in.masters = Master
      BY <1>1, <1>3, <2>1, <2>2, <2>3, HereInChain DEF Transactional, TransactionInv
    <3>2. PICK out, allow : Onward(s, out, allow)
      BY <1>4
    <3>3. \/ \E t, o, a : Onward(t, o, a) /\ o.masters = walk.in.masters
          \/ \E t : EndsWith(t, IF conf.failover THEN Proxy ELSE None, FALSE)
      BY <3>1, QosStep
    <3>4. \A t, c : EndsWith(t, c, FALSE) => pc' # "pick"
      BY DEF EndsWith
    <3>5. PICK t, o, a : Onward(t, o, a) /\ o.masters = walk.in.masters
      BY <1>1, <2>1, <3>3, <3>4
    <3> QED
      BY <3>1, <3>5 DEF Onward, GoesOn
  <2>4. ASSUME Transactional' PROVE MastersLeft' /\ SentHasBegun' /\ OpenAgrees'
    <3>1. OpenAgrees
      BY <2>2, <2>4, TransactionParts
    <3>2. MastersLeft'
      BY <2>3, <2>4 DEF MastersLeft
    <3>3. SentHasBegun' /\ OpenAgrees'
      BY <1>1, <1>3, <2>1, <3>1 DEF SentHasBegun, OpenAgrees, HasBegun, EndsTransaction
    <3> QED
      BY <3>2, <3>3
  <2> QED
    BY <1>1, <2>1, <2>4 DEF TransactionInv, MastersLeft, SentHasBegun, OpenAgrees
<1>5. CASE \E c \in Server \union {None} :
             EndsWith(s, c, FALSE)
               /\ (stgy.trx_stop_switching => Here \in {"user", "user_multi", "groups"})
  <2>1. PICK c \in Server \union {None} :
          EndsWith(s, c, FALSE)
            /\ (stgy.trx_stop_switching => Here \in {"user", "user_multi", "groups"})
    BY <1>5
  <2>2. ~BeginDelayed(s, c, FALSE)
    BY DEF BeginDelayed
  <2>3. /\ stgy' = Picked(s, c, FALSE) /\ open' = open /\ call'.mode = call.mode
        /\ pc' \in {"return", "switch", "send"} /\ (c = None => pc' = "return")
    <3>1. call \in Calling
      BY DEF TypeInv, TypeOK
    <3> QED
      BY <2>1, <2>2, <3>1 DEF EndsWith, Calling
  <2>4. Remembers(Picked(s, c, FALSE), s, c, FALSE)
    BY <1>3, PickedType
  <2>5. /\ stgy'.filters = stgy.filters
        /\ stgy'.in_transaction = stgy.in_transaction
        /\ stgy'.trx_begin_required <=> stgy.trx_begin_required
    BY <1>3, <2>2, <2>3, <2>4 DEF Remembers
  <2>6. Transactional' => Transactional
    BY <1>1, <2>5, TransactionalSame
  <2>7. ASSUME Transactional' PROVE MastersLeft' /\ SentHasBegun' /\ OpenAgrees'
    <3>1. Here \in {"qos", "table"} /\ ~stgy.trx_stop_switching /\ MastersLeft /\ OpenAgrees
      BY <1>1, <2>1, <2>6, <2>7, HereInChain, TransactionParts DEF Transactional
    <3>2. ~HasBegun /\ ~HasBegun'
      BY <2>5, <3>1 DEF HasBegun, TypeInv, ControlInv
    <3>3. \A c_1 \in Server : open'[c_1] = "none"
      BY <2>3, <3>1, <3>2 DEF OpenAgrees
    <3>4. OpenAgrees'
      BY <3>2, <3>3 DEF OpenAgrees
    <3>5. \A t, o, a : Onward(t, o, a) => pc' = pc
      BY DEF Onward, GoesOn
    <3>6. \A t, d : EndsWith(t, d, FALSE) /\ d = None => pc' = "return"
      BY DEF EndsWith
    <3>7. pc' = "return"
      <4>1. CASE Here = "qos" /\ "table" \notin ToSet(stgy.filters)
        <5>1. walk.in.masters = Master /\ walk.in.masters # {}
          BY <1>1, <3>1, <4>1, ServerType DEF MastersLeft
        <5>2. PICK t, o, a : Onward(t, o, a)
          BY <4>1, <5>1, QosStep
        <5> QED
          BY <1>1, <2>3, <3>5, <5>2
      <4>2. CASE "table" \in ToSet(stgy.filters)
        <5>1. ~conf.failover
          BY <2>6, <2>7, <4>2 DEF Transactional
        <5>2. \/ \E t, o, a : Onward(t, o, a)
              \/ \E t : EndsWith(t, None, FALSE)
          BY <3>1, <5>1, QosStep, TableStep
        <5> QED
          BY <1>1, <2>3, <3>5, <3>6, <5>2
      <4>3. Here = "table" => "table" \in ToSet(stgy.filters)
        BY <1>1, HereInChain
      <4> QED
        BY <3>1, <4>1, <4>2, <4>3
    <3>8. MastersLeft' /\ SentHasBegun'
      BY <3>7 DEF MastersLeft, SentHasBegun
    <3> QED
      BY <3>4, <3>8
  <2> QED
    BY <1>1, <2>3, <2>7 DEF TransactionInv, MastersLeft, SentHasBegun, OpenAgrees
<1> QED
  BY <1>2, <1>4, <1>5

(* The last filter picks, and sends the BEGIN that is due.                 *)
LEMMA BalanceTransaction ==
  ASSUME TypeInv, TransactionInv, Filtering, Here = "balance"
  PROVE  TransactionInv'
<1>1. /\ pc = "pick" /\ UNCHANGED <<conf, log, applied, prep, app>>
      /\ call.mode \in {"query", "prepare", "execute"} /\ ~app.failed
  BY FilterStep DEF TypeInv, ControlInv, TransactionInv
<1>2. PICK s, c : /\ SameButFlags(s) /\ c \in Server \union {None} /\ EndsWith(s, c, TRUE)
                  /\ Balanced(c)
  BY BalanceStep
<1>3. /\ s \in Strategies /\ s.filters = stgy.filters /\ s.in_transaction = stgy.in_transaction
      /\ s.trx_begin_required = stgy.trx_begin_required /\ s.last_used_conn = stgy.last_used_conn
  BY <1>2 DEF SameButFlags
<1>4. Remembers(Picked(s, c, TRUE), s, c, TRUE)
  BY <1>2, <1>3, PickedType
<1>5. /\ stgy' = Picked(s, c, TRUE) /\ call'.mode = call.mode /\ call'.conn = c
      /\ open' = (IF BeginDelayed(s, c, TRUE)
                  THEN [open EXCEPT ![c] = IF s.trx_read_only THEN "ro" ELSE "rw"] ELSE open)
      /\ pc' \in {"return", "switch", "send"} /\ (c = None => pc' = "return")
  <2>1. call \in Calling
    BY DEF TypeInv, TypeOK
  <2> QED
    BY <1>2, <2>1 DEF EndsWith, Calling
<1>6. BeginDelayed(s, c, TRUE) <=> c # None /\ stgy.in_transaction /\ stgy.trx_begin_required
  BY <1>3 DEF BeginDelayed
<1>7. /\ stgy'.filters = stgy.filters /\ stgy'.in_transaction = stgy.in_transaction
      /\ stgy'.last_used_conn = (IF c = None THEN Proxy ELSE c)
      /\ stgy'.trx_begin_required <=>
           stgy.trx_begin_required /\ ~(c # None /\ stgy.in_transaction)
  BY <1>3, <1>4, <1>5, <1>6 DEF Remembers
<1>8. Transactional' => Transactional
  BY <1>1, <1>7, TransactionalSame
<1>9. stgy.in_transaction \in BOOLEAN /\ open \in [Server -> {"none", "rw", "ro", "wrote"}]
  BY DEF TypeInv, TypeOK, Strategies
<1>10. ASSUME Transactional' PROVE MastersLeft' /\ SentHasBegun' /\ OpenAgrees'
  <2>1. OpenAgrees
    BY <1>8, <1>10, TransactionParts
  <2>2. MastersLeft' /\ SentHasBegun'
    BY <1>5, <1>7 DEF MastersLeft, SentHasBegun, HasBegun
  <2>3. CASE HasBegun
    <3>1. stgy.trx_stop_switching /\ stgy.last_used_conn \in Server /\ ~stgy.trx_begin_required
      BY <2>3 DEF HasBegun, TypeInv, ControlInv
    <3>2. c = stgy.last_used_conn /\ c # None
      BY <1>2, <3>1, ServerType DEF Balanced
    <3>3. open' = open /\ HasBegun' /\ stgy'.last_used_conn = stgy.last_used_conn
      BY <1>5, <1>6, <1>7, <2>3, <3>1, <3>2 DEF HasBegun
    <3> QED
      BY <1>1, <1>5, <2>1, <2>2, <2>3, <3>3 DEF OpenAgrees, EndsTransaction
  <2>4. CASE ~HasBegun
    <3>1. \A d \in Server : open[d] = "none"
      BY <2>1, <2>4 DEF OpenAgrees
    <3>2. CASE BeginDelayed(s, c, TRUE)
      <4>1. c \in Server /\ HasBegun' /\ stgy'.last_used_conn = c
        BY <1>2, <1>6, <1>7, <3>2 DEF HasBegun
      <4>2. \A d \in Server : open'[d] # "none" <=> d = c
        BY <1>5, <1>9, <3>1, <3>2, <4>1
      <4>3. ~EndsTransaction' /\ ~app'.failed
        BY <1>1, <1>5 DEF EndsTransaction
      <4>4. \A d \in Server : open'[d] # "none" <=>
              HasBegun' /\ d = stgy'.last_used_conn /\ ~EndsTransaction' /\ ~app'.failed
        BY <4>1, <4>2, <4>3
      <4> QED
        BY <2>2, <4>4 DEF OpenAgrees
    <3>3. CASE ~BeginDelayed(s, c, TRUE)
      <4>1. ~HasBegun' /\ open' = open
        BY <1>5, <1>6, <1>7, <2>4, <3>3 DEF HasBegun
      <4> QED
        BY <2>2, <3>1, <4>1 DEF OpenAgrees
    <3> QED
      BY <3>2, <3>3
  <2> QED
    BY <2>3, <2>4
<1> QED
  BY <1>1, <1>5, <1>10 DEF TransactionInv, MastersLeft, SentHasBegun, OpenAgrees

(* Sending a statement leaves what the call is about.                      *)
LEMMA SentCall ==
  ASSUME TypeInv, Send
  PROVE  /\ call'.mode = call.mode /\ call'.stmt = call.stmt /\ call'.conn = call.conn
         /\ call'.old = call.old /\ call'.pinned = call.pinned
<1>1. PICK o \in Outcomes :
        call' = [call EXCEPT
             !.transient = Transient(o), !.good = o = "ok",
             !.tries = IF Transient(o) THEN @ + 1 ELSE @,
             !.ran = IF o = "ok" /\ call.mode # "prepare" THEN @ + 1 ELSE @]
  BY DEF Send
<1> DEFINE t == Transient(o)
           g == o = "ok"
           n == IF t THEN call.tries + 1 ELSE call.tries
           r == IF o = "ok" /\ call.mode # "prepare" THEN call.ran + 1 ELSE call.ran
<1>2. call' = [call EXCEPT !.transient = t, !.good = g, !.tries = n, !.ran = r]
  BY <1>1
<1>3. call \in Calling
  BY DEF TypeInv, TypeOK
<1> HIDE DEF t, g, n, r
<1> QED
  BY <1>2, <1>3 DEF Calling

(* A statement is prepared again, or sent.                                 *)
LEMMA SendTransaction ==
  ASSUME TypeInv, TransactionInv, Switch \/ Send
  PROVE  TransactionInv'
<1>1. /\ pc \in {"switch", "send"} /\ pc' \in {"send", "inject", "return"}
      /\ UNCHANGED <<conf, stgy, app>> /\ call \in Calling
      /\ call.mode \in {"query", "prepare", "execute"} /\ ~app.failed
  BY DEF Switch, Send, TypeInv, TypeOK, ControlInv, TransactionInv
<1>2. call'.mode = call.mode /\ call'.conn = call.conn
  <2>1. CASE Switch
    BY <2>1 DEF Switch
  <2>2. CASE Send
    BY <2>2, SentCall
  <2> QED
    BY <2>1, <2>2
<1>3. \A c \in Server : open'[c] # "none" <=> open[c] # "none"
  <2>1. open' = open \/ (open[call.conn] # "none" /\ open' = [open EXCEPT ![call.conn] = "wrote"])
    BY DEF Switch, Send, ExecutedOnServer
  <2>2. open \in [Server -> {"none", "rw", "ro", "wrote"}]
    BY DEF TypeInv, TypeOK
  <2> QED
    BY <2>1, <2>2
<1>4. Transactional' => Transactional
  BY <1>1, TransactionalSame
<1>5. ASSUME Transactional' PROVE MastersLeft' /\ SentHasBegun' /\ OpenAgrees'
  <2>1. SentHasBegun /\ OpenAgrees
    BY <1>4, <1>5, TransactionParts
  <2> QED
    BY <1>1, <1>2, <1>3, <2>1 DEF MastersLeft, SentHasBegun, OpenAgrees, HasBegun, EndsTransaction
<1> QED
  BY <1>1, <1>2, <1>5 DEF TransactionInv, MastersLeft, SentHasBegun, OpenAgrees

(* A write is counted, or not.                                             *)
LEMMA CountTransaction ==
  ASSUME TypeInv, TransactionInv, Inject \/ Fetch
  PROVE  TransactionInv'
<1>1. /\ pc \in {"inject", "fetch"} /\ pc' \in {"fetch", "return"}
      /\ UNCHANGED <<conf, stgy, open, app>> /\ call \in Calling
      /\ call' = call \/ call' = [call EXCEPT !.good = @ /\ ~conf.report]
      /\ call.mode # "rollback" /\ ~app.failed
  BY DEF Inject, Fetch, Uncounted, TypeInv, TypeOK, TransactionInv
<1>2. call'.mode = call.mode
  BY <1>1 DEF Calling
<1>3. Transactional' => Transactional
  BY <1>1, TransactionalSame
<1>4. ASSUME Transactional' PROVE MastersLeft' /\ SentHasBegun' /\ OpenAgrees'
  <2>1. OpenAgrees
    BY <1>3, <1>4, TransactionParts
  <2> QED
    BY <1>1, <1>2, <2>1 DEF MastersLeft, SentHasBegun, OpenAgrees, HasBegun, EndsTransaction
<1> QED
  BY <1>1, <1>2, <1>4 DEF TransactionInv, MastersLeft, SentHasBegun, OpenAgrees

(* The transaction ends on the server.                                     *)
LEMMA EndTransaction ==
  ASSUME TypeInv, TransactionInv, "rollback" \in Discipline,
         NEW mode \in {"commit", "rollback", "begin"}, NEW ro, Calls(mode), End(mode, ro)
  PROVE  TransactionInv'
<1>1. /\ pc = "user" /\ pc' \in {"inject", "return"} /\ (mode = "rollback" => pc' = "return")
      /\ open' = [open EXCEPT ![Target] = "none"]
      /\ call' = [NoCall EXCEPT !.mode = mode, !.conn = Target, !.ro = ro, !.good = TRUE]
      /\ UNCHANGED <<conf, stgy, app>> /\ (app.failed => mode = "rollback")
  BY DEF Calls, End
<1>2. /\ call'.mode = mode /\ call'.good /\ call.mode = "none"
      /\ open \in [Server -> {"none", "rw", "ro", "wrote"}]
  BY <1>1 DEF NoCall, TypeInv, TypeOK, ControlInv
<1>3. Transactional' => Transactional
  BY <1>1, TransactionalSame
<1>4. ASSUME Transactional' PROVE MastersLeft' /\ SentHasBegun' /\ OpenAgrees'
  <2>1. OpenAgrees
    BY <1>3, <1>4, TransactionParts
  <2>2. \A c \in Server : open[c] # "none" => c = Target
    <3>1. HasBegun => stgy.last_used_conn \in Server /\ stgy.last_used_conn # None
      BY ServerType DEF HasBegun, TypeInv, ControlInv
    <3> QED
      BY <2>1, <3>1 DEF OpenAgrees, Target
  <2>3. \A c \in Server : open'[c] = "none"
    BY <1>1, <1>2, <2>2
  <2>4. EndsTransaction'
    BY <1>2 DEF EndsTransaction
  <2> QED
    BY <1>1, <2>3, <2>4 DEF MastersLeft, SentHasBegun, OpenAgrees
<1> QED
  BY <1>1, <1>2, <1>4 DEF TransactionInv, MastersLeft, SentHasBegun, OpenAgrees

(* A transaction begins for the handle: none was open.                     *)
LEMMA BeginTransaction ==
  ASSUME TypeInv, TransactionInv, {"rollback", "flat"} \subseteq Discipline,
         NEW ro \in BOOLEAN, TxBegin(ro)
  PROVE  TransactionInv'
<1>1. Calls("begin") /\ "rollback" \in Discipline /\ "flat" \in Discipline
  BY DEF TxBegin
<1>2. CASE End("begin", ro)
  BY <1>1, <1>2, EndTransaction
<1>3. CASE /\ ~stgy.in_transaction /\ stgy' = Begun(stgy, ro)
           /\ UNCHANGED <<conf, open, pc, call, walk, app>>
  <2>1. /\ pc = "user" /\ ~app.failed /\ call.mode = "none" /\ stgy \in Strategies
    BY <1>1 DEF Calls, NoCall, TypeInv, TypeOK, ControlInv
  <2>2. /\ stgy'.filters = stgy.filters /\ stgy'.trx_begin_required
    BY <1>3, <2>1, BegunType
  <2>3. Transactional' => Transactional
    BY <1>3, <2>2, TransactionalSame
  <2>4. ASSUME Transactional' PROVE MastersLeft' /\ SentHasBegun' /\ OpenAgrees'
    <3>1. OpenAgrees /\ ~HasBegun
      BY <1>3, <2>3, <2>4, TransactionParts DEF HasBegun
    <3>2. ~HasBegun'
      BY <2>2 DEF HasBegun
    <3> QED
      BY <1>3, <2>1, <3>1, <3>2 DEF MastersLeft, SentHasBegun, OpenAgrees
  <2> QED
    BY <1>3, <2>1, <2>4 DEF TransactionInv, MastersLeft, SentHasBegun, OpenAgrees
<1> QED
  BY <1>1, <1>2, <1>3 DEF TxBegin

(* A call returns: the handle knows that the transaction has ended.        *)
LEMMA ReturnTransaction ==
  ASSUME TypeInv, TransactionInv, Return
  PROVE  TransactionInv'
<1>1. /\ pc = "return" /\ pc' = "user" /\ call' = NoCall
      /\ app'.failed <=> (app.failed /\ call.mode # "rollback")
                          \/ (call.mode \in {"commit", "begin"} /\ ~call.good)
      /\ UNCHANGED <<conf, open, walk>>
      /\ stgy \in Strategies /\ call \in Calling
      /\ app.failed => call.mode = "rollback"
      /\ call.mode = "rollback" => call.good
  BY DEF Return, TypeInv, TypeOK, TransactionInv
<1>2. call'.mode = "none"
  BY <1>1 DEF NoCall
<1>3. \/ /\ call.mode = "begin" /\ (call.good \/ ~conf.report) /\ stgy' = Begun(stgy, call.ro)
      \/ /\ call.mode \in {"commit", "rollback"} /\ call.good /\ stgy' = Ended(stgy)
      \/ /\ stgy' = stgy
         /\ ~(call.mode = "begin" /\ (call.good \/ ~conf.report))
         /\ ~(call.mode \in {"commit", "rollback"} /\ call.good)
  BY DEF Return
<1>4. call.ro \in BOOLEAN
  BY <1>1 DEF Calling
<1>5. stgy'.filters = stgy.filters
  BY <1>1, <1>3, <1>4, BegunType
<1>6. Transactional' => Transactional
  BY <1>1, <1>5, TransactionalSame
<1>7. ASSUME Transactional' PROVE MastersLeft' /\ SentHasBegun' /\ OpenAgrees'
  <2>1. OpenAgrees
    BY <1>6, <1>7, TransactionParts
  <2>2. CASE call.mode = "begin" /\ stgy' = Begun(stgy, call.ro)
    <3>1. ~HasBegun' /\ \A c \in Server : open'[c] = "none"
      BY <1>1, <1>4, <2>1, <2>2, BegunType DEF HasBegun, OpenAgrees, EndsTransaction
    <3> QED
      BY <1>1, <3>1 DEF MastersLeft, SentHasBegun, OpenAgrees
  <2>3. CASE call.mode \in {"commit", "rollback"} /\ stgy' = Ended(stgy)
    <3>1. ~HasBegun' /\ \A c \in Server : open'[c] = "none"
      BY <1>1, <1>4, <2>1, <2>3, BegunType DEF HasBegun, OpenAgrees, EndsTransaction
    <3> QED
      BY <1>1, <3>1 DEF MastersLeft, SentHasBegun, OpenAgrees
  <2>4. CASE EndsTransaction /\ stgy' = stgy /\ ~call.good
    <3>1. app'.failed /\ \A c \in Server : open'[c] = "none"
      BY <1>1, <2>1, <2>4 DEF OpenAgrees, EndsTransaction
    <3> QED
      BY <1>1, <3>1 DEF MastersLeft, SentHasBegun, OpenAgrees
  <2>5. CASE ~EndsTransaction /\ stgy' = stgy
    <3>1. ~EndsTransaction' /\ (app'.failed <=> app.failed)
      BY <1>1, <1>2, <2>5 DEF EndsTransaction
    <3> QED
      BY <1>1, <2>1, <2>5, <3>1 DEF MastersLeft, SentHasBegun, OpenAgrees, HasBegun
  <2> QED
    BY <1>3, <2>2, <2>3, <2>4, <2>5 DEF EndsTransaction
<1> QED
  BY <1>1, <1>2, <1>7 DEF TransactionInv, MastersLeft, SentHasBegun, OpenAgrees

\* mysqlnd_ms_set_qos has put its filter first.
Filtered == stgy' = [stgy EXCEPT !.filters = <<"qos">> \o RemoveFirst(@, "qos")]

(* The chain with the new filter.                                          *)
LEMMA SetQosStep ==
  ASSUME TypeInv, NEW level, NEW option, SetQos(level, option)
  PROVE  /\ pc = "user" /\ UNCHANGED <<conf, log, applied, open, pc, call, walk, prep>>
         /\ stgy' \in Strategies /\ stgy'.filters[1] = "qos"
         /\ ToSet(stgy'.filters) = ToSet(stgy.filters) \union {"qos"}
         /\ PartitionedBefore(stgy.filters) => PartitionedBefore(stgy'.filters)
         /\ stgy'.in_transaction = stgy.in_transaction
         /\ stgy'.trx_stop_switching = stgy.trx_stop_switching
         /\ stgy'.trx_read_only = stgy.trx_read_only
         /\ stgy'.trx_begin_required = stgy.trx_begin_required
         /\ stgy'.last_used_conn = stgy.last_used_conn
         /\ ~(stgy.in_transaction /\ stgy.trx_stop_switching)
<1>1. /\ pc = "user" /\ UNCHANGED <<conf, log, applied, open, pc, call, walk, prep>>
      /\ Filtered /\ ~(stgy.in_transaction /\ stgy.trx_stop_switching)
  BY DEF SetQos, Calls, Filtered
<1>2. stgy \in Strategies /\ stgy.filters \in Chain
  BY DEF TypeInv, TypeOK, Strategies
<1> DEFINE g == <<"qos">> \o RemoveFirst(stgy.filters, "qos")
<1>3. /\ g \in Chain /\ g[1] = "qos" /\ ToSet(g) = ToSet(stgy.filters) \union {"qos"}
      /\ PartitionedBefore(stgy.filters) => PartitionedBefore(g)
  BY <1>2, QosInFront
<1>4. stgy' = [stgy EXCEPT !.filters = g]
  BY <1>1 DEF Filtered
<1> HIDE DEF g
<1> QED
  BY <1>1, <1>2, <1>3, <1>4 DEF Strategies

(* Every step keeps a transaction on the server that has begun it.         *)
LEMMA TransactionStep ==
  ASSUME TypeInv, TransactionInv, {"rollback", "flat"} \subseteq Discipline, [Next]_vars
  PROVE  TransactionInv'
<1>1. "rollback" \in Discipline
  OBVIOUS
<1>2. CASE \/ \E c \in Slave : Replicate(c)
           \/ OtherCounts
           \/ UNCHANGED vars
  <2>1. UNCHANGED <<conf, stgy, open, pc, call, walk, app>>
    BY <1>2 DEF Replicate, OtherCounts, vars
  <2> QED
    BY <2>1, TransactionSame
<1>3. CASE \/ \E stmt \in conf.texts : Query(stmt)
           \/ \E stmt \in conf.prepared : Prepare(stmt)
           \/ Execute
  <2>1. PICK mode, stmt, old :
          /\ mode \in {"query", "prepare", "execute"}
          /\ Calls(mode) /\ Start(mode, stmt, old)
    BY <1>3 DEF Query, Prepare, Execute
  <2> QED
    BY <1>1, <2>1, StartTransaction
<1>4. CASE Filtering
  BY <1>4, WalkTransaction, BalanceTransaction
<1>5. CASE Switch \/ Send
  BY <1>5, SendTransaction
<1>6. CASE Inject \/ Fetch
  BY <1>6, CountTransaction
<1>7. CASE \E mode \in {"commit", "rollback"} : CommitOrRollback(mode)
  BY <1>1, <1>7, EndTransaction DEF CommitOrRollback
<1>8. CASE \E ro \in BOOLEAN : TxBegin(ro)
  BY <1>8, BeginTransaction
<1>9. CASE Return
  BY <1>9, ReturnTransaction
<1>10. CASE \E level \in conf.levels, option \in {"none", "age", "gtid"} : SetQos(level, option)
  <2>1. PICK level, option : SetQos(level, option)
    BY <1>10
  <2>2. /\ pc = "user" /\ UNCHANGED <<conf, open, pc, call, walk>>
        /\ stgy'.in_transaction = stgy.in_transaction
        /\ stgy'.trx_begin_required = stgy.trx_begin_required
        /\ stgy'.last_used_conn = stgy.last_used_conn
        /\ ToSet(stgy'.filters) = ToSet(stgy.filters) \union {"qos"}
    BY <2>1, SetQosStep
  <2>3. app'.failed = app.failed
    BY <2>1 DEF SetQos, TypeInv, TypeOK
  <2>4. Transactional' => Transactional
    BY <2>2, TransactionalSame
  <2>5. ASSUME Transactional' PROVE MastersLeft' /\ SentHasBegun' /\ OpenAgrees'
    <3>1. OpenAgrees
      BY <2>4, <2>5, TransactionParts
    <3> QED
      BY <2>2, <2>3, <3>1 DEF MastersLeft, SentHasBegun, OpenAgrees, HasBegun, EndsTransaction
  <2> QED
    BY <2>2, <2>3, <2>5 DEF TransactionInv, MastersLeft, SentHasBegun, OpenAgrees
<1> QED
  BY <1>2, <1>3, <1>4, <1>5, <1>6, <1>7, <1>8, <1>9, <1>10 DEF Next

-----------------------------------------------------------------------------
(* Statements stay in their partition.                                     *)

\* The conjuncts of PartitionInv for a chain that partitions before the
\* user's callback does.
WalksInside ==
  pc = "pick" /\ ~stgy.trx_stop_switching =>
    /\ Passed("groups") => /\ InsideGroup("masters", walk.in.masters)
                           /\ InsideGroup("slaves", walk.in.slaves)
    /\ Passed("table") => /\ InsideTables("masters", walk.in.masters)
                          /\ InsideTables("slaves", walk.in.slaves)
SentInside ==
  pc \in {"switch", "send"} /\ ~call.pinned /\ "last_used" \notin call.stmt.hints
    /\ ~(conf.failover /\ call.conn = Proxy) =>
      /\ "groups" \in ToSet(stgy.filters) => StaysInGroup(call.conn)
      /\ "table" \in ToSet(stgy.filters) => StaysInTables(call.conn)

(* The invariant in parts.                                                 *)
LEMMA PartitionParts ==
  PartitionInv <=> (PartitionedBefore(conf.filters) =>
                      PartitionedBefore(stgy.filters) /\ WalksInside /\ SentInside)
BY DEF PartitionInv, WalksInside, SentInside

(* Where nothing is picked nor sent nothing can leave the partition.       *)
LEMMA PartitionIdle ==
  ASSUME PartitionInv, UNCHANGED conf, pc' \notin {"pick", "switch", "send"},
         stgy'.filters = stgy.filters
           \/ (PartitionedBefore(stgy.filters) => PartitionedBefore(stgy'.filters))
  PROVE  PartitionInv'
<1>1. /\ PartitionedBefore(conf.filters)' <=> PartitionedBefore(conf.filters)
      /\ PartitionedBefore(stgy.filters)' <=> PartitionedBefore(stgy'.filters)
      /\ stgy'.filters = stgy.filters =>
           (PartitionedBefore(stgy.filters) => PartitionedBefore(stgy'.filters))
  BY DEF PartitionedBefore
<1>2. WalksInside' /\ SentInside'
  BY DEF WalksInside, SentInside
<1>3. PartitionedBefore(conf.filters)' => PartitionedBefore(stgy.filters)'
  BY <1>1, PartitionParts
<1> QED
  BY <1>2, <1>3 DEF PartitionInv, WalksInside, SentInside

(* The same servers, the same statement, the same place in the chain.      *)
LEMMA PartitionSame ==
  ASSUME PartitionInv, UNCHANGED <<conf, stgy, walk>>,
         pc' \in {"pick", "switch", "send"} =>
           /\ pc \in {"pick", "switch", "send"} /\ (pc' = "pick" <=> pc = "pick")
           /\ call'.stmt = call.stmt /\ call'.conn = call.conn /\ call'.pinned = call.pinned
  PROVE  PartitionInv'
BY DEF PartitionInv, PartitionedBefore, Passed, InsideGroup, InsideTables, StaysInGroup,
       StaysInTables

(* A call starts before the first filter.                                  *)
LEMMA StartPartition ==
  ASSUME PartitionInv, NEW mode, NEW stmt, NEW old, Start(mode, stmt, old)
  PROVE  PartitionInv'
<1>1. pc' = "pick" /\ walk'.at = 1 /\ UNCHANGED <<conf, stgy>>
  BY DEF Start
<1>2. \A filter : ~Passed(filter)'
  BY <1>1 DEF Passed
<1>3. WalksInside' /\ SentInside'
  BY <1>1, <1>2 DEF WalksInside, SentInside
<1>4. PartitionedBefore(conf.filters)' => PartitionedBefore(stgy.filters)'
  BY <1>1, PartitionParts DEF PartitionedBefore
<1> QED
  BY <1>3, <1>4 DEF PartitionInv, WalksInside, SentInside

(* The groups filter goes on with servers of the group.                    *)
LEMMA GroupStep ==
  ASSUME TypeInv, Filtering, Here = "groups", pc' = "pick"
  PROVE  call.stmt.group \in DOMAIN conf.groups =>
           /\ walk'.in.masters \subseteq conf.groups[call.stmt.group].masters
           /\ walk'.in.slaves \subseteq conf.groups[call.stmt.group].slaves
<1>1. pc = "pick" /\ ChooseGroups
  BY DEF Filtering, PassOver, ChooseQos, ChooseTable, ChooseGroups, PickMultiple, PickUser,
         PickBalanced, At, Here
<1>2. walk.in \in Selection /\ walk.allow \in BOOLEAN
  BY <1>1, AtFilter
<1>3. \A s, c : ~EndsWith(s, c, FALSE)
  BY DEF EndsWith
<1>4. Narrowed(stgy, InGroup(conf.groups, call.stmt, walk.in), walk.allow)
  BY <1>1, <1>3 DEF ChooseGroups
<1>5. \E o \in {InGroup(conf.groups, call.stmt, walk.in)} : Onward(stgy, o, walk.allow)
  BY <1>2, <1>3, <1>4, NarrowedSteps, GroupSelected
<1>6. walk'.in = InGroup(conf.groups, call.stmt, walk.in)
  BY <1>5 DEF Onward, GoesOn
<1> QED
  BY <1>2, <1>6, GroupSelected

(* The table filter goes on with servers for every table.                  *)
LEMMA TablesStep ==
  ASSUME TypeInv, Filtering, Here = "table", pc' = "pick", ~stgy.trx_stop_switching
  PROVE  \A table \in call.stmt.tables :
           /\ walk'.in.masters \subseteq Listed(conf.rules, "masters", table)
           /\ walk'.in.slaves \subseteq Listed(conf.rules, "slaves", table)
<1>1. pc = "pick" /\ ChooseTable
  BY DEF Filtering, PassOver, ChooseQos, ChooseTable, ChooseGroups, PickMultiple, PickUser,
         PickBalanced, At, Here
<1>2. walk.in \in Selection /\ walk.allow \in BOOLEAN
  BY <1>1, AtFilter
<1>3. \A s, c : ~EndsWith(s, c, FALSE)
  BY DEF EndsWith
<1>4. Narrowed(stgy, ForTables(conf.rules, call.stmt, walk.in), walk.allow)
  BY <1>1, <1>3 DEF ChooseTable
<1>5. \E o \in {ForTables(conf.rules, call.stmt, walk.in)} : Onward(stgy, o, walk.allow)
  BY <1>2, <1>3, <1>4, NarrowedSteps, TablesSelected
<1>6. walk'.in = ForTables(conf.rules, call.stmt, walk.in)
  BY <1>5 DEF Onward, GoesOn
<1> QED
  BY <1>2, <1>6, TablesSelected

(* What a filter that has ended the walk leaves to the call.               *)
LEMMA EndedCall ==
  ASSUME TypeInv, NEW s, SameButFlags(s), NEW c \in Server \union {None},
         NEW balanced \in BOOLEAN, EndsWith(s, c, balanced)
  PROVE  /\ call'.conn = c /\ call'.stmt = call.stmt /\ call'.mode = call.mode
         /\ call'.old = call.old /\ call'.pinned = stgy.trx_stop_switching
         /\ (c = None <=> pc' = "return") /\ pc' \in {"return", "switch", "send"}
         /\ pc' = "switch" => call.mode = "execute"
         /\ stgy' = Picked(s, c, balanced) /\ stgy'.filters = stgy.filters
<1>1. call' = [call EXCEPT !.conn = c, !.pinned = s.trx_stop_switching] /\ call \in Calling
  BY DEF EndsWith, TypeInv, TypeOK
<1>2. s \in Strategies /\ s.filters = stgy.filters
      /\ s.trx_stop_switching = stgy.trx_stop_switching
  BY DEF SameButFlags
<1>3. stgy' = Picked(s, c, balanced) /\ stgy'.filters = s.filters
  BY <1>2, PickedType DEF EndsWith, Remembers
<1>4. /\ (c = None <=> pc' = "return") /\ pc' \in {"return", "switch", "send"}
      /\ pc' = "switch" => call.mode = "execute"
  BY DEF EndsWith
<1> QED
  BY <1>1, <1>2, <1>3, <1>4 DEF Calling

(* Who picks a server takes one of those that are left; and failover uses  *)
(* the handle's own connection.                                            *)
LEMMA PickedAmong ==
  ASSUME TypeInv, Filtering, pc' \in {"switch", "send"}, ~stgy.trx_stop_switching,
         "last_used" \notin call.stmt.hints \/ Here # "balance",
         ~(conf.failover /\ call'.conn = Proxy)
  PROVE  /\ call'.conn \in walk.in.masters \union walk.in.slaves
         /\ Here \in {"user", "user_multi", "balance"}
<1>1. /\ pc = "pick" /\ walk.in \in Selection /\ stgy \in Strategies /\ call \in Calling
      /\ walk.in.masters \subseteq Master /\ walk.in.slaves \subseteq Slave
      /\ None \notin walk.in.masters \union walk.in.slaves
  BY FilterStep, AtFilter, ServerType DEF Selection, TypeInv, TypeOK
<1>2. \A s, c : EndsWith(s, c, FALSE) \/ EndsWith(s, c, TRUE) => call'.conn = c /\ c # None
  BY <1>1 DEF EndsWith, Calling
<1>3. \A s, out, allow : /\ ~GoesOn(out, allow)
                         /\ ~Narrowed(s, out, allow)
  <2>1. \A out, allow : ~GoesOn(out, allow)
    BY <1>1 DEF GoesOn
  <2>2. \A s : ~EndsWith(s, IF conf.failover THEN Proxy ELSE None, FALSE)
    BY <1>2
  <2> QED
    BY <2>1, <2>2 DEF Narrowed
<1>4. CASE Here \in {"qos", "table", "groups"}
  BY <1>3, <1>4 DEF Filtering, PassOver, ChooseQos, ChooseTable, ChooseGroups, PickMultiple,
                    PickUser, PickBalanced, At, Here
<1>5. CASE Here = "user_multi"
  <2>1. PickMultiple
    BY <1>5 DEF Filtering, PassOver, ChooseQos, ChooseTable, ChooseGroups, PickUser,
                PickBalanced, At, Here
  <2>2. PICK answer \in Answers :
          LET out == UserMulti(answer, walk.in)
              left == out.masters \union out.slaves
          IN  \E c \in left : EndsWith(stgy, c, FALSE)
    BY <1>3, <2>1 DEF PickMultiple
  <2>3. Fewer(UserMulti(answer, walk.in), walk.in)
    BY <1>1, MultipleSelected
  <2> QED
    BY <1>2, <1>5, <2>2, <2>3 DEF Fewer
<1>6. CASE Here = "user"
  <2>1. PickUser
    BY <1>6 DEF Filtering, PassOver, ChooseQos, ChooseTable, ChooseGroups, PickMultiple,
                PickBalanced, At, Here
  <2> QED
    BY <1>2, <1>6, <2>1 DEF PickUser
<1>7. CASE Here = "balance"
  <2>1. PICK s, c : EndsWith(s, c, TRUE) /\ Balanced(c)
    BY <1>7, BalanceStep
  <2>2. c \in walk.in.masters \union walk.in.slaves \union {None}
    BY <1>7, <2>1 DEF Balanced
  <2> QED
    BY <1>2, <1>7, <2>1, <2>2
<1>8. Here \in Filter
  BY <1>1, AtFilter, ChainType DEF Here
<1> QED
  BY <1>4, <1>5, <1>6, <1>7, <1>8 DEF Filter

(* Before a server is picked every filter that partitions has been passed. *)
LEMMA AllPassed ==
  ASSUME TypeInv, pc = "pick", PartitionedBefore(stgy.filters),
         Here \in {"user", "user_multi", "balance"},
         NEW filter \in {"groups", "table"}, filter \in ToSet(stgy.filters)
  PROVE  Passed(filter)
<1>1. /\ walk.at \in 1 .. Len(stgy.filters) /\ stgy.filters \in Chain
      /\ Here \in {"user", "balance"} <=> walk.at = Len(stgy.filters)
  BY AtFilter
<1>2. PICK n \in Nat \ {0} : n = Len(stgy.filters) /\ DOMAIN stgy.filters = 1 .. n
  BY <1>1, ChainType
<1>3. PICK i \in 1 .. n : stgy.filters[i] = filter
  BY <1>2 DEF ToSet
<1>4. i # walk.at
  BY <1>3 DEF Here
<1>5. ~(walk.at < i)
  <2>1. CASE Here = "user_multi"
    BY <1>1, <1>2, <1>3, <2>1 DEF PartitionedBefore, Here
  <2>2. CASE Here # "user_multi"
    BY <1>1, <1>2, <2>2
  <2> QED
    BY <2>1, <2>2
<1>6. i \in 1 .. walk.at - 1
  BY <1>1, <1>2, <1>4, <1>5
<1> QED
  BY <1>3, <1>6 DEF Passed

(* A walk that goes on leaves the call and the transaction.                *)
LEMMA WalkedOn ==
  ASSUME TypeInv, Filtering, pc' = "pick"
  PROVE  /\ UNCHANGED <<open, call>> /\ walk'.at = walk.at + 1 /\ Fewer(walk'.in, walk.in)
         /\ stgy'.filters = stgy.filters /\ stgy'.in_transaction = stgy.in_transaction
         /\ stgy'.trx_stop_switching = stgy.trx_stop_switching
         /\ stgy'.trx_read_only = stgy.trx_read_only
         /\ stgy'.last_used_conn = stgy.last_used_conn
<1>1. PICK s : /\ SameButFlags(s)
               /\ \/ \E out, allow : Onward(s, out, allow)
                  \/ \E c \in Server \union {None}, balanced \in BOOLEAN : EndsWith(s, c, balanced)
  BY FilterStep
<1>2. \A c, balanced : ~EndsWith(s, c, balanced)
  BY DEF EndsWith
<1>3. PICK out, allow : Onward(s, out, allow)
  BY <1>1, <1>2
<1> QED
  BY <1>1, <1>3 DEF Onward, GoesOn, SameButFlags

(* The walk has passed one filter more.                                    *)
LEMMA PassedMore ==
  ASSUME TypeInv, Filtering, pc' = "pick", NEW filter, Passed(filter)'
  PROVE  Passed(filter) \/ Here = filter
<1>1. /\ stgy'.filters = stgy.filters /\ walk'.at = walk.at + 1 /\ pc = "pick"
  BY WalkedOn, FilterStep
<1>2. walk.at \in 1 .. Len(stgy.filters) /\ walk.at \in Nat
  BY <1>1, AtFilter
<1>3. \E i \in 1 .. walk'.at - 1 : stgy'.filters[i] = filter
  BY DEF Passed
<1>4. PICK i \in 1 .. walk'.at - 1 : stgy.filters[i] = filter
  BY <1>1, <1>3
<1>5. i \in 1 .. walk.at - 1 \/ i = walk.at
  BY <1>1, <1>2, <1>4
<1> QED
  BY <1>4, <1>5 DEF Passed, Here

(* A filter passes on or picks a server.                                   *)
LEMMA WalkPartition ==
  ASSUME TypeInv, PartitionInv, Filtering
  PROVE  PartitionInv'
<1>1. /\ pc = "pick" /\ UNCHANGED conf
      /\ walk.at \in 1 .. Len(stgy.filters) /\ walk.at \in DOMAIN stgy.filters
      /\ walk.at \in Nat
  BY FilterStep, AtFilter
<1>2. PICK s : /\ SameButFlags(s)
               /\ \/ \E out, allow : Onward(s, out, allow)
                  \/ \E c \in Server \union {None}, balanced \in BOOLEAN : EndsWith(s, c, balanced)
  BY FilterStep
<1>3. stgy'.filters = stgy.filters
  BY <1>2, EndedCall DEF Onward, SameButFlags
<1>4. PartitionedBefore(conf.filters)' => PartitionedBefore(stgy.filters)'
  BY <1>1, <1>3, PartitionParts DEF PartitionedBefore
<1>5. ASSUME PartitionedBefore(conf.filters)' PROVE WalksInside' /\ SentInside'
  <2>1. WalksInside /\ PartitionedBefore(stgy.filters)
    BY <1>1, <1>5, PartitionParts DEF PartitionedBefore
  <2>2. CASE \E out, allow : Onward(s, out, allow)
    <3>1. PICK out, allow : Onward(s, out, allow)
      BY <2>2
    <3>2. /\ pc' = "pick" /\ call' = call /\ stgy'.trx_stop_switching = stgy.trx_stop_switching
          /\ walk'.at = walk.at + 1 /\ Fewer(walk'.in, walk.in)
      BY <1>1, <1>2, <3>1 DEF Onward, GoesOn, SameButFlags
    <3>3. \A filter : Passed(filter)' => Passed(filter) \/ Here = filter
      BY <3>2, PassedMore
    <3>4. ASSUME ~stgy.trx_stop_switching, Passed("groups")'
          PROVE  /\ InsideGroup("masters", walk'.in.masters)
                 /\ InsideGroup("slaves", walk'.in.slaves)
      <4>1. CASE Here = "groups"
        BY <3>2, <4>1, GroupStep DEF InsideGroup
      <4>2. CASE Passed("groups")
        BY <1>1, <2>1, <3>2, <3>4, <4>2 DEF WalksInside, InsideGroup, Fewer
      <4> QED
        BY <3>3, <3>4, <4>1, <4>2
    <3>5. ASSUME ~stgy.trx_stop_switching, Passed("table")'
          PROVE  /\ InsideTables("masters", walk'.in.masters)
                 /\ InsideTables("slaves", walk'.in.slaves)
      <4>1. CASE Here = "table"
        BY <3>2, <3>5, <4>1, TablesStep DEF InsideTables
      <4>2. CASE Passed("table")
        BY <1>1, <2>1, <3>2, <3>5, <4>2 DEF WalksInside, InsideTables, Fewer
      <4> QED
        BY <3>3, <3>5, <4>1, <4>2
    <3>6. WalksInside'
      BY <1>1, <3>2, <3>4, <3>5 DEF WalksInside, InsideGroup, InsideTables
    <3> QED
      BY <3>2, <3>6 DEF SentInside
  <2>3. CASE \E c \in Server \union {None}, balanced \in BOOLEAN : EndsWith(s, c, balanced)
    <3>1. /\ call'.stmt = call.stmt /\ call'.pinned = stgy.trx_stop_switching
          /\ pc' \in {"return", "switch", "send"}
      BY <1>2, <2>3, EndedCall
    <3>2. ASSUME pc' \in {"switch", "send"}, ~call'.pinned, "last_used" \notin call'.stmt.hints,
                 ~(conf.failover /\ call'.conn = Proxy)
          PROVE  /\ "groups" \in ToSet(stgy.filters) => StaysInGroup(call'.conn)
                 /\ "table" \in ToSet(stgy.filters) => StaysInTables(call'.conn)
      <4>1. /\ call'.conn \in walk.in.masters \union walk.in.slaves
            /\ Here \in {"user", "user_multi", "balance"}
        BY <3>1, <3>2, PickedAmong
      <4>2. \A filter \in {"groups", "table"} : filter \in ToSet(stgy.filters) => Passed(filter)
        BY <1>1, <2>1, <4>1, AllPassed
      <4>3. ~stgy.trx_stop_switching
        BY <3>1, <3>2
      <4> QED
        BY <1>1, <2>1, <4>1, <4>2, <4>3
           DEF WalksInside, InsideGroup, InsideTables, StaysInGroup, StaysInTables
    <3>3. SentInside'
      BY <1>1, <1>3, <3>1, <3>2
         DEF SentInside, InsideGroup, InsideTables, StaysInGroup, StaysInTables
    <3> QED
      BY <3>1, <3>3 DEF WalksInside
  <2> QED
    BY <1>2, <2>2, <2>3
<1> QED
  BY <1>4, <1>5 DEF PartitionInv, WalksInside, SentInside

(* Every step keeps statements in their partition.                         *)
LEMMA PartitionStep ==
  ASSUME TypeInv, PartitionInv, [Next]_vars
  PROVE  PartitionInv'
<1>1. CASE \/ \E c \in Slave : Replicate(c)
           \/ OtherCounts
           \/ UNCHANGED vars
  <2>1. UNCHANGED <<conf, stgy, pc, call, walk>>
    BY <1>1 DEF Replicate, OtherCounts, vars
  <2> QED
    BY <2>1, PartitionSame
<1>2. CASE \/ \E stmt \in conf.texts : Query(stmt)
           \/ \E stmt \in conf.prepared : Prepare(stmt)
           \/ Execute
  <2>1. PICK mode, stmt, old : Start(mode, stmt, old)
    BY <1>2 DEF Query, Prepare, Execute
  <2> QED
    BY <2>1, StartPartition
<1>3. CASE Filtering
  BY <1>3, WalkPartition
<1>4. CASE Switch
  BY <1>4, PartitionSame DEF Switch
<1>5. CASE Send
  <2>1. UNCHANGED <<conf, stgy, walk>> /\ pc = "send" /\ pc' # "pick"
    BY <1>5 DEF Send
  <2>2. call'.stmt = call.stmt /\ call'.conn = call.conn /\ call'.pinned = call.pinned
    BY <1>5, SentCall
  <2> QED
    BY <2>1, <2>2, PartitionSame
<1>6. CASE \/ Inject \/ Fetch \/ Return
           \/ \E mode \in {"commit", "rollback"} : CommitOrRollback(mode)
           \/ \E ro \in BOOLEAN : TxBegin(ro)
  <2>1. UNCHANGED conf /\ pc' \notin {"pick", "switch", "send"} /\ stgy \in Strategies
    BY <1>6 DEF Inject, Fetch, Uncounted, Return, CommitOrRollback, TxBegin, End, Calls, TypeInv,
                TypeOK
  <2>2. stgy'.filters = stgy.filters
    BY <1>6, <2>1 DEF Inject, Fetch, Return, CommitOrRollback, TxBegin, End, Begun, Ended,
                      Strategies
  <2> QED
    BY <2>1, <2>2, PartitionIdle
<1>7. CASE \E level \in conf.levels, option \in {"none", "age", "gtid"} : SetQos(level, option)
  <2>1. PICK level, option : SetQos(level, option)
    BY <1>7
  <2>2. /\ UNCHANGED conf /\ pc' \notin {"pick", "switch", "send"}
        /\ PartitionedBefore(stgy.filters) => PartitionedBefore(stgy'.filters)
    BY <2>1, SetQosStep
  <2> QED
    BY <2>2, PartitionIdle
<1> QED
  BY <1>1, <1>2, <1>3, <1>4, <1>5, <1>6, <1>7 DEF Next

(* The first state.                                                        *)
LEMMA InitPartition == Init => PartitionInv
BY DEF Init, PartitionInv

-----------------------------------------------------------------------------
(* Session consistency: the GTID stands for what has been written.         *)

\* The conjuncts of CoverInv.
GtidCovers == qos.gtid # Freed /\ qos.gtid <= LastGtid /\ Covers(qos.gtid, app.mine)
FetchCovers == pc = "fetch" => Covers(LastGtid, LastOwn)
ReturnCovers == pc = "return" /\ Promised => Covers(qos.gtid, LastOwn)

(* The invariant in parts.                                                 *)
LEMMA CoverParts == CoverInv <=> GtidCovers /\ FetchCovers /\ ReturnCovers
BY DEF CoverInv, GtidCovers, FetchCovers, ReturnCovers

(* The types that have to do with GTIDs.                                   *)
LEMMA GtidTypes ==
  ASSUME TypeInv
  PROVE  /\ log \in Seq(Entry) /\ Len(log) \in Nat /\ LogInv
         /\ qos.gtid \in Int /\ (qos.gtid # Freed => qos.gtid \in Nat)
         /\ app.mine \in 0 .. Len(log) /\ LastGtid \in 0 .. Len(log)
         /\ LastOwn \in 0 .. Len(log) /\ conf.maxLog \in Nat
         /\ \A c \in Slave : applied[c] \in 0 .. Len(log)
<1>1. /\ log \in Seq(Entry) /\ Len(log) \in Nat /\ LogInv /\ conf \in Settings
      /\ qos.gtid \in {Freed} \union 0 .. conf.maxLog /\ app.mine \in 0 .. Len(log)
      /\ \A c \in Slave : applied[c] \in 0 .. Len(log)
  BY DEF TypeInv, TypeOK, QosData, Entry
<1>2. conf.maxLog \in Nat
  BY <1>1, ConfType
<1>3. LastOwn \in 0 .. Len(log) /\ LastGtid \in 0 .. Len(log)
  BY <1>1, LastOwnType, CountsType DEF LastGtid
<1> QED
  BY <1>1, <1>2, <1>3 DEF Freed

(* The log grows: what a GTID covers stays covered.                        *)
LEMMA CoversGrow ==
  ASSUME log \in Seq(Entry), NEW entry \in Entry, log' = Append(log, entry),
         NEW gtid \in Int, NEW n \in 0 .. Len(log), Covers(gtid, n)
  PROVE  \A k \in 0 .. Len(log)' : Counts(k)' >= gtid => k >= n
<1>1. PICK m \in Nat : m = Len(log) /\ Len(log)' = m + 1
  BY LogAppended
<1>2. \A k \in 0 .. m : Counts(k)' = Counts(k)
  BY <1>1, LogAppended
<1>3. \A k \in 0 .. m : Counts(k) >= gtid => k >= n
  BY <1>1 DEF Covers
<1>4. TAKE k \in 0 .. Len(log)'
<1>5. CASE k \in 0 .. m
  BY <1>2, <1>3, <1>5
<1>6. CASE k = m + 1
  BY <1>1, <1>6
<1> QED
  BY <1>1, <1>5, <1>6

(* The newest count covers all that has been written before it.            *)
LEMMA NewestCovers ==
  ASSUME log \in Seq(Entry), log' = Append(log, "count"), NEW n \in 0 .. Len(log) + 1
  PROVE  \A k \in 0 .. Len(log)' : Counts(k)' >= LastGtid' => k >= n
<1>1. PICK m \in Nat : m = Len(log)
  BY LogAppended DEF Entry
<1>2. /\ Len(log)' = m + 1 /\ LastGtid' = LastGtid + 1
      /\ \A k \in 0 .. m : Counts(k)' = Counts(k)
  BY <1>1, LogAppended DEF Entry
<1>3. \A k \in 0 .. m : Counts(k) <= LastGtid /\ Counts(k) \in Int /\ LastGtid \in Int
  BY <1>1, CountsGrow, CountsType DEF LastGtid
<1>4. TAKE k \in 0 .. Len(log)'
<1>5. CASE k \in 0 .. m
  BY <1>2, <1>3, <1>5
<1>6. CASE k = m + 1
  BY <1>1, <1>6
<1> QED
  BY <1>2, <1>5, <1>6

\* LastOwnType as a formula that holds now and later.
LastOwnIsLast ==
  log \in Seq(Entry) /\ LogInv =>
    /\ LastOwn \in 0 .. Len(log)
    /\ LastOwn # 0 => log[LastOwn] = "own"
    /\ \A i \in 1 .. Len(log) : log[i] = "own" => i <= LastOwn

(* LastOwn is the last own write.                                          *)
LEMMA LastOwnLater == LastOwnIsLast
BY LastOwnType DEF LastOwnIsLast

(* A count is nobody's own write.                                          *)
LEMMA OwnStays ==
  ASSUME TypeInv, log' = Append(log, "count"), LogInv'
  PROVE  LastOwn' = LastOwn
<1>1. PICK m \in Nat : m = Len(log)
  BY GtidTypes
<1>2. /\ Len(log)' = m + 1 /\ log' \in Seq(Entry)
      /\ \A i \in 1 .. m : log'[i] = log[i]
      /\ log'[m + 1] = "count"
  BY <1>1, GtidTypes, LogAppended DEF Entry
<1>3. PICK a \in 0 .. m : /\ a = LastOwn /\ (a # 0 => log[a] = "own")
                          /\ \A i \in 1 .. m : log[i] = "own" => i <= a
  BY <1>1, GtidTypes, LastOwnType
<1>4. PICK b \in 0 .. m + 1 : /\ b = LastOwn' /\ (b # 0 => log'[b] = "own")
                              /\ \A i \in 1 .. m + 1 : log'[i] = "own" => i <= b
  <2>1. /\ LastOwn' \in 0 .. Len(log)'
        /\ LastOwn' # 0 => log'[LastOwn'] = "own"
        /\ \A i \in 1 .. Len(log)' : log'[i] = "own" => i <= LastOwn'
    <3>1. LastOwnIsLast'
      BY LastOwnLater, PTL
    <3> QED
      BY <1>2, <3>1 DEF LastOwnIsLast, Entry
  <2> QED
    BY <1>2, <2>1
<1>5. b <= m
  BY <1>2, <1>4
<1>6. a <= b
  <2>1. CASE a = 0
    BY <2>1
  <2>2. CASE a # 0
    BY <1>2, <1>3, <1>4, <2>2
  <2> QED
    BY <2>1, <2>2
<1>7. b <= a
  <2>1. CASE b = 0
    BY <2>1
  <2>2. CASE b # 0
    BY <1>2, <1>3, <1>4, <1>5, <2>2
  <2> QED
    BY <2>1, <2>2
<1> QED
  BY <1>3, <1>4, <1>6, <1>7

(* Whatever else happens, the log grows or stays.                          *)
LEMMA GtidStays ==
  ASSUME TypeInv, GtidCovers, qos'.gtid = qos.gtid, app'.mine = app.mine,
         log' = log \/ \E entry \in Entry : log' = Append(log, entry)
  PROVE  GtidCovers'
<1>1. CASE log' = log
  BY <1>1 DEF GtidCovers, Covers, LastGtid, Counts, Freed
<1>2. CASE \E entry \in Entry : log' = Append(log, entry)
  <2>1. PICK entry \in Entry : log' = Append(log, entry)
    BY <1>2
  <2>2. PICK g \in Nat, n \in Nat : g = qos.gtid /\ n = app.mine /\ n \in 0 .. Len(log)
    BY GtidTypes DEF GtidCovers
  <2>3. \A k \in 0 .. Len(log)' : Counts(k)' >= g => k >= n
    BY <2>1, <2>2, GtidTypes, CoversGrow DEF GtidCovers
  <2>4. g <= LastGtid /\ LastGtid' \in {LastGtid, LastGtid + 1} /\ LastGtid \in Nat
    BY <2>1, <2>2, GtidTypes, LogAppended DEF GtidCovers
  <2> QED
    BY <2>2, <2>3, <2>4 DEF GtidCovers, Covers, Freed
<1> QED
  BY <1>1, <1>2

(* What is known of a write keeps to cover it while others write.          *)
LEMMA ReturnStays ==
  ASSUME TypeInv, ReturnCovers, log' = log \/ log' = Append(log, "count"), LogInv',
         UNCHANGED <<conf, stgy, qos, pc, call>>
  PROVE  ReturnCovers'
<1>1. Promised' <=> Promised
  BY DEF Promised, HasSession, Writes
<1>2. CASE log' = log
  BY <1>1, <1>2 DEF ReturnCovers, Covers, LastOwn, Counts
<1>3. CASE log' = Append(log, "count")
  <2>1. PICK g \in Int, n \in Nat : g = qos.gtid /\ n = LastOwn /\ n \in 0 .. Len(log)
    BY GtidTypes
  <2>2. LastOwn' = n /\ "count" \in Entry
    BY <1>3, <2>1, OwnStays DEF Entry
  <2>3. ASSUME Covers(g, n) PROVE \A k \in 0 .. Len(log)' : Counts(k)' >= g => k >= n
    BY <1>3, <2>1, <2>2, <2>3, GtidTypes, CoversGrow
  <2> QED
    BY <1>1, <2>1, <2>2, <2>3 DEF ReturnCovers, Covers
<1> QED
  BY <1>2, <1>3

(* A call that was not good promises nothing.                              *)
LEMMA NothingPromised ==
  ASSUME pc' # "return" \/ ~call'.good \/ ~call'.conn \in Master
           \/ (~Writes' /\ ~(call'.mode \in {"commit", "begin"})), pc' # "fetch"
  PROVE  FetchCovers' /\ ReturnCovers'
BY DEF FetchCovers, ReturnCovers, Promised

-----------------------------------------------------------------------------
(* Session consistency: which server is picked, and for what.              *)

\* The conjuncts of PreparedInv.
ChainCounts ==
  /\ ToSet(stgy.filters) \subseteq {"groups", "table", "qos", "balance"}
  /\ conf.failover => QosLeads(stgy.filters)
PreparedKnown ==
  /\ call.mode \in {"prepare", "execute"} => call.stmt \in conf.prepared
  /\ call.mode = "execute" => call.stmt = prep.stmt /\ prep.conn # None
  /\ pc = "switch" => call.mode = "execute"
  /\ prep.conn # None => prep.stmt \in conf.prepared
  /\ prep.stmt.kind = "write" => prep.conn \in Master
WritesOnMaster ==
  pc \in {"pick", "switch", "send"} /\ WritesPrepared =>
    /\ pc # "pick" => call.conn \in Master
    /\ call.mode = "execute" => call.old \in Master
    /\ pc = "pick" => ~(stgy.in_transaction /\ stgy.trx_read_only)
TransactionOnMaster ==
  stgy.trx_stop_switching /\ ~stgy.trx_read_only => stgy.last_used_conn \in Master

(* The invariant in parts.                                                 *)
LEMMA PreparedParts ==
  PreparedInv <=> ChainCounts /\ PreparedKnown /\ WritesOnMaster /\ TransactionOnMaster
BY DEF PreparedInv, ChainCounts, PreparedKnown, WritesOnMaster, TransactionOnMaster

(* The qos, the table and the groups filter pick nobody; failover does.    *)
LEMMA FailoverEnds ==
  ASSUME TypeInv, Filtering, pc' # "pick", Here \notin {"user", "user_multi", "balance"}
  PROVE  call'.conn \in {Proxy, None} /\ (call'.conn # None => conf.failover)
<1>1. pc = "pick" /\ call \in Calling
  BY FilterStep DEF TypeInv, TypeOK
<1>2. \A s, c : EndsWith(s, c, FALSE) => call'.conn = c
  BY <1>1 DEF EndsWith, Calling
<1>3. \A out, allow : ~GoesOn(out, allow)
  BY <1>1 DEF GoesOn
<1> DEFINE p == IF conf.failover THEN Proxy ELSE None
<1>4. p \in {Proxy, None} /\ (p # None => conf.failover)
  OBVIOUS
<1>5. \A s, out, allow : Narrowed(s, out, allow) => EndsWith(s, p, FALSE)
  BY <1>3 DEF Narrowed
<1> HIDE DEF p
<1>6. \E s : EndsWith(s, p, FALSE) \/ EndsWith(s, None, FALSE)
  BY <1>3, <1>5 DEF Filtering, PassOver, ChooseQos, ChooseTable, ChooseGroups, PickMultiple,
                    PickUser, PickBalanced, At, Here
<1> QED
  BY <1>2, <1>4, <1>6

(* The server a walk ends with, when no user's callback picks.             *)
LEMMA PickedServer ==
  ASSUME TypeInv, ChainCounts, Filtering, pc' # "pick"
  PROVE  /\ call'.stmt = call.stmt /\ call'.mode = call.mode /\ call'.old = call.old
         /\ call'.conn \in Server \union {None} /\ (call'.conn = None <=> pc' = "return")
         /\ pc' \in {"return", "switch", "send"} /\ (pc' = "switch" => call.mode = "execute")
         /\ stgy'.last_used_conn = IF call'.conn = None THEN Proxy ELSE call'.conn
         /\ stgy'.filters = stgy.filters /\ stgy'.in_transaction = stgy.in_transaction
         /\ stgy'.trx_read_only = stgy.trx_read_only
         /\ \/ /\ Here = "balance" /\ Balanced(call'.conn)
               /\ stgy'.trx_stop_switching <=> stgy.trx_stop_switching \/ stgy.in_transaction
            \/ /\ Here \in {"qos", "table", "groups"} /\ call'.conn \in {Proxy, None}
               /\ call'.conn # None => conf.failover
               /\ stgy'.trx_stop_switching <=> stgy.trx_stop_switching
<1>1. pc = "pick" /\ Here \in {"groups", "table", "qos", "balance"}
  BY FilterStep, HereInChain DEF ChainCounts
<1>2. CASE Here = "balance"
  <2>1. PICK s, c : /\ SameButFlags(s) /\ c \in Server \union {None} /\ EndsWith(s, c, TRUE)
                    /\ Balanced(c)
    BY <1>2, BalanceStep
  <2>2. /\ call'.conn = c /\ call'.stmt = call.stmt /\ call'.mode = call.mode
        /\ call'.old = call.old
        /\ (c = None <=> pc' = "return") /\ pc' \in {"return", "switch", "send"}
        /\ pc' = "switch" => call.mode = "execute"
        /\ stgy' = Picked(s, c, TRUE) /\ stgy'.filters = stgy.filters
    BY <2>1, EndedCall
  <2>3. Remembers(stgy', s, c, TRUE)
    BY <2>1, <2>2, PickedType DEF SameButFlags
  <2> QED
    BY <1>2, <2>1, <2>2, <2>3 DEF Remembers, SameButFlags
<1>3. CASE Here # "balance"
  <2>1. PICK s : /\ SameButFlags(s)
                 /\ \/ \E out, allow : Onward(s, out, allow)
                    \/ \E c \in Server \union {None} : EndsWith(s, c, FALSE)
    BY <1>3, FilterStep
  <2>2. \A out, allow : ~Onward(s, out, allow)
    BY <1>1 DEF Onward, GoesOn
  <2>3. PICK c \in Server \union {None} : EndsWith(s, c, FALSE)
    BY <2>1, <2>2
  <2>4. /\ call'.conn = c /\ call'.stmt = call.stmt /\ call'.mode = call.mode
        /\ call'.old = call.old
        /\ (c = None <=> pc' = "return") /\ pc' \in {"return", "switch", "send"}
        /\ pc' = "switch" => call.mode = "execute"
        /\ stgy' = Picked(s, c, FALSE) /\ stgy'.filters = stgy.filters
    BY <2>1, <2>3, EndedCall
  <2>5. Remembers(stgy', s, c, FALSE)
    BY <2>1, <2>4, PickedType DEF SameButFlags
  <2>6. c \in {Proxy, None} /\ (c # None => conf.failover)
    BY <1>1, <1>3, <2>4, FailoverEnds
  <2> QED
    BY <1>1, <1>3, <2>1, <2>4, <2>5, <2>6 DEF Remembers, SameButFlags
<1> QED
  BY <1>2, <1>3

(* A prepared write is not sent to a slave.                                *)
LEMMA WalkPrepared ==
  ASSUME TypeInv, Countable, PreparedInv, Filtering
  PROVE  PreparedInv'
<1>1. /\ pc = "pick" /\ UNCHANGED <<conf, prep>>
      /\ ChainCounts /\ PreparedKnown /\ WritesOnMaster /\ TransactionOnMaster
  BY FilterStep, PreparedParts
<1>2. CASE pc' = "pick"
  BY <1>1, <1>2, WalkedOn, PreparedParts
     DEF PreparedInv, ChainCounts, PreparedKnown, WritesOnMaster, TransactionOnMaster,
         WritesPrepared, QosLeads
<1>3. CASE pc' # "pick"
  <2>1. /\ call'.stmt = call.stmt /\ call'.mode = call.mode /\ call'.old = call.old
        /\ call'.conn \in Server \union {None} /\ (call'.conn = None <=> pc' = "return")
        /\ pc' = "switch" => call.mode = "execute"
        /\ stgy'.last_used_conn = IF call'.conn = None THEN Proxy ELSE call'.conn
        /\ stgy'.filters = stgy.filters /\ stgy'.trx_read_only = stgy.trx_read_only
    BY <1>1, <1>3, PickedServer
  <2>2. \/ /\ Here = "balance" /\ Balanced(call'.conn)
           /\ stgy'.trx_stop_switching <=> stgy.trx_stop_switching \/ stgy.in_transaction
        \/ /\ call'.conn \in {Proxy, None}
           /\ stgy'.trx_stop_switching <=> stgy.trx_stop_switching
    BY <1>1, <1>3, PickedServer
  <2>3. ChainCounts' /\ PreparedKnown'
    BY <1>1, <2>1 DEF ChainCounts, PreparedKnown, QosLeads
  <2>4. /\ walk.in.masters \subseteq Master /\ Proxy \in Master
        /\ stgy.trx_stop_switching => stgy.in_transaction
    BY <1>1, AtFilter, ServerType DEF Selection, TypeInv, ControlInv
  <2>5. ASSUME WritesPrepared, call'.conn # None
        PROVE  call'.conn \in Master
    <3>1. /\ call.stmt.kind = "write" /\ call.stmt \in conf.prepared
          /\ ~(stgy.in_transaction /\ stgy.trx_read_only)
      BY <1>1, <2>5 DEF WritesPrepared, PreparedKnown, WritesOnMaster
    <3>2. call.stmt.hints \intersect {"slave", "last_used"} = {}
      BY <3>1 DEF Countable
    <3>3. CASE stgy.trx_stop_switching /\ Balanced(call'.conn)
      BY <1>1, <2>4, <3>1, <3>3 DEF Balanced, TransactionOnMaster
    <3>4. CASE ~stgy.trx_stop_switching /\ Balanced(call'.conn)
      <4>1. call'.conn \in walk.in.masters \union walk.in.slaves
        BY <2>5, <3>2, <3>4 DEF Balanced
      <4>2. call'.conn \notin walk.in.slaves \ walk.in.masters
        BY <3>1, <3>2, <3>4 DEF Balanced
      <4> QED
        BY <2>4, <4>1, <4>2
    <3> QED
      BY <2>2, <2>4, <2>5, <3>3, <3>4
  <2>6. WritesOnMaster'
    BY <1>1, <1>3, <2>1, <2>5 DEF WritesOnMaster, WritesPrepared
  <2>7. ASSUME stgy'.trx_stop_switching, ~stgy'.trx_read_only
        PROVE  stgy'.last_used_conn \in Master
    <3>1. CASE Balanced(call'.conn) /\ stgy.trx_stop_switching
      BY <1>1, <2>1, <2>4, <2>7, <3>1 DEF Balanced, TransactionOnMaster
    <3>2. CASE Balanced(call'.conn) /\ ~stgy.trx_stop_switching /\ stgy.in_transaction
      <4>1. call'.conn \in walk.in.masters \union walk.in.slaves \union {None}
        BY <3>2 DEF Balanced
      <4>2. call'.conn \notin walk.in.slaves \ walk.in.masters
        BY <2>1, <2>7, <3>2 DEF Balanced
      <4> QED
        BY <2>1, <2>4, <4>1, <4>2
    <3>3. CASE call'.conn \in {Proxy, None}
      BY <2>1, <2>4, <3>3
    <3> QED
      BY <2>2, <2>7, <3>1, <3>2, <3>3
  <2>8. TransactionOnMaster'
    BY <2>7 DEF TransactionOnMaster
  <2> QED
    BY <2>3, <2>6, <2>8
       DEF PreparedInv, ChainCounts, PreparedKnown, WritesOnMaster, TransactionOnMaster
<1> QED
  BY <1>2, <1>3

(* A call starts with a statement that has been, or may be, prepared.      *)
LEMMA StartPrepared ==
  ASSUME TypeInv, Countable, PreparedInv, "prepared_write" \in Discipline,
         \/ \E stmt \in conf.texts : Query(stmt)
         \/ \E stmt \in conf.prepared : Prepare(stmt)
         \/ Execute
  PROVE  PreparedInv'
<1>1. ChainCounts /\ PreparedKnown /\ WritesOnMaster /\ TransactionOnMaster
  BY PreparedParts
<1>2. PICK mode, stmt, old :
        /\ mode \in {"query", "prepare", "execute"}
        /\ Start(mode, stmt, old)
        /\ mode \in {"prepare", "execute"} => WriteAllowed(stmt) /\ stmt \in conf.prepared
        /\ mode = "execute" => stmt = prep.stmt /\ old = prep.conn /\ prep.conn # None
  BY <1>1 DEF Query, Prepare, Execute, PreparedKnown
<1>3. /\ pc' = "pick" /\ UNCHANGED <<conf, stgy, prep>>
      /\ call'.mode = mode /\ call'.stmt = stmt /\ call'.old = old
  BY <1>2 DEF Start, NoCall
<1>4. ChainCounts' /\ PreparedKnown' /\ TransactionOnMaster'
  BY <1>1, <1>2, <1>3 DEF ChainCounts, PreparedKnown, TransactionOnMaster, QosLeads
<1>5. WritesOnMaster'
  BY <1>1, <1>2, <1>3 DEF WritesOnMaster, WritesPrepared, WriteAllowed, PreparedKnown
<1> QED
  BY <1>4, <1>5 DEF PreparedInv, ChainCounts, PreparedKnown, WritesOnMaster, TransactionOnMaster

(* What is prepared is prepared where it will be executed.                 *)
LEMMA SendPrepared ==
  ASSUME TypeInv, PreparedInv, Switch \/ Send
  PROVE  PreparedInv'
<1>1. ChainCounts /\ PreparedKnown /\ WritesOnMaster /\ TransactionOnMaster
  BY PreparedParts
<1>2. /\ call'.mode = call.mode /\ call'.stmt = call.stmt /\ call'.conn = call.conn
      /\ call'.old = call.old /\ UNCHANGED <<conf, stgy>>
      /\ pc \in {"switch", "send"} /\ pc' \in {"send", "inject", "return"}
  BY SentCall DEF Switch, Send
<1>3. /\ call.conn \in Server /\ call.conn # None
      /\ prep \in [conn : Server \union {None}, stmt : Texts \union {NoText}]
  BY <1>2, ServerType DEF TypeInv, TypeOK, ControlInv
<1>4. /\ prep' \in [conn : Server \union {None}, stmt : Texts \union {NoText}]
      /\ \/ prep' = prep
         \/ pc = "switch" /\ prep'.conn = call.conn /\ prep'.stmt = prep.stmt
         \/ call.mode = "prepare" /\ prep'.conn = call.conn /\ prep'.stmt = call.stmt
  <2>1. \/ prep' = prep
        \/ pc = "switch" /\ prep' = [prep EXCEPT !.conn = call.conn]
        \/ call.mode = "prepare" /\ prep' = [conn |-> call.conn, stmt |-> call.stmt]
    BY DEF Switch, Send
  <2>2. call.stmt \in Texts \union {NoText}
    BY DEF TypeInv, TypeOK, Calling
  <2> QED
    BY <1>3, <2>1, <2>2
<1>5. pc = "switch" => call.mode = "execute"
  BY <1>1 DEF PreparedKnown
<1>6. PreparedKnown'
  <2>1. CASE prep' = prep
    BY <1>1, <1>2, <2>1 DEF PreparedKnown
  <2>2. CASE pc = "switch" /\ prep'.conn = call.conn /\ prep'.stmt = prep.stmt
    BY <1>1, <1>2, <1>3, <1>5, <2>2 DEF PreparedKnown, WritesOnMaster, WritesPrepared
  <2>3. CASE call.mode = "prepare" /\ prep'.conn = call.conn /\ prep'.stmt = call.stmt
    BY <1>1, <1>2, <1>3, <2>3 DEF PreparedKnown, WritesOnMaster, WritesPrepared
  <2> QED
    BY <1>4, <2>1, <2>2, <2>3
<1>7. WritesOnMaster'
  BY <1>1, <1>2 DEF WritesOnMaster, WritesPrepared
<1>8. ChainCounts' /\ TransactionOnMaster'
  BY <1>1, <1>2 DEF ChainCounts, TransactionOnMaster, QosLeads
<1> QED
  BY <1>6, <1>7, <1>8 DEF PreparedInv, ChainCounts, PreparedKnown, WritesOnMaster,
                          TransactionOnMaster

(* The other steps neither prepare nor pick.                               *)
LEMMA OtherPrepared ==
  ASSUME PreparedInv, UNCHANGED <<conf, prep>>,
         stgy'.filters = stgy.filters
           \/ (ToSet(stgy'.filters) = ToSet(stgy.filters) \union {"qos"} /\ stgy'.filters[1] = "qos"),
         ~stgy'.trx_stop_switching
           \/ (stgy.trx_stop_switching /\ stgy'.trx_read_only = stgy.trx_read_only
                 /\ stgy'.last_used_conn = stgy.last_used_conn),
         \/ pc' = pc /\ call' = call /\ stgy'.in_transaction = stgy.in_transaction
              /\ stgy'.trx_read_only = stgy.trx_read_only
         \/ pc' \notin {"pick", "switch", "send"}
              /\ (call'.mode \notin {"prepare", "execute"}
                    \/ (call'.mode = call.mode /\ call'.stmt = call.stmt))
  PROVE  PreparedInv'
<1>1. ChainCounts /\ PreparedKnown /\ WritesOnMaster /\ TransactionOnMaster
  BY PreparedParts
<1>2. ChainCounts'
  BY <1>1 DEF ChainCounts, QosLeads
<1>3. PreparedKnown'
  BY <1>1 DEF PreparedKnown
<1>4. WritesOnMaster'
  BY <1>1 DEF WritesOnMaster, WritesPrepared
<1>5. TransactionOnMaster'
  BY <1>1 DEF TransactionOnMaster
<1> QED
  BY <1>2, <1>3, <1>4, <1>5 DEF PreparedInv, ChainCounts, PreparedKnown, WritesOnMaster,
                                TransactionOnMaster

(* Where nothing is picked nor sent nothing has to be prepared.            *)
LEMMA IdlePrepared ==
  ASSUME PreparedInv, UNCHANGED <<conf, prep>>,
         stgy'.filters = stgy.filters
           \/ (ToSet(stgy'.filters) = ToSet(stgy.filters) \union {"qos"} /\ stgy'.filters[1] = "qos"),
         stgy' = stgy \/ ~stgy'.trx_stop_switching, pc' = "user",
         call'.mode = "none" \/ call' = call
  PROVE  PreparedInv'
<1>1. CASE stgy' = stgy
  BY <1>1, OtherPrepared
<1>2. CASE ~stgy'.trx_stop_switching
  BY <1>2, OtherPrepared
<1> QED
  BY <1>1, <1>2

-----------------------------------------------------------------------------
(* Session consistency: who reads.                                         *)

\* The conjuncts of ReadInv.
WritesAsk ==
  (pc = "pick" /\ Passed("qos")) \/ pc \in {"switch", "send"} =>
    (HasSession /\ conf.gtid /\ Writes /\ ~stgy.in_transaction => stgy.injectable_query)
BeginsAnew ==
  pc = "pick" /\ stgy.in_transaction /\ ~stgy.trx_stop_switching =>
    IF call.mode = "prepare" THEN ~stgy.trx_read_only ELSE "last_used" \notin call.stmt.hints
SlavesUpToDate ==
  pc = "pick" /\ Passed("qos") /\ ~stgy.trx_stop_switching /\ Asking =>
    \A c \in walk.in.slaves : UpToDate(c)
TransactionUpToDate ==
  stgy.trx_stop_switching /\ HasSession => UpToDate(stgy.last_used_conn)
SentUpToDate == pc \in {"switch", "send"} /\ Asking => UpToDate(call.conn)

(* The invariant in parts.                                                 *)
LEMMA ReadParts ==
  ReadInv <=> WritesAsk /\ BeginsAnew /\ SlavesUpToDate /\ TransactionUpToDate /\ SentUpToDate
BY DEF ReadInv, WritesAsk, BeginsAnew, SlavesUpToDate, TransactionUpToDate, SentUpToDate

(* Who has all that a GTID covers is up to date.                           *)
LEMMA CountsUpToDate ==
  ASSUME TypeInv, GtidCovers, NEW c, c \in Slave => Counts(applied[c]) >= qos.gtid
  PROVE  UpToDate(c)
<1> SUFFICES ASSUME c \in Slave PROVE applied[c] >= app.mine
  BY DEF UpToDate
<1>1. applied[c] \in 0 .. Len(log)
  BY GtidTypes
<1> QED
  BY <1>1 DEF GtidCovers, Covers

(* The slaves the qos filter leaves have the GTID.                         *)
LEMMA QosUpToDate ==
  ASSUME TypeInv, GtidCovers, "add_active" \notin conf.race,
         NEW q, q.gtid = qos.gtid, q.consistency = "session",
         NEW in \in Selection, NEW caught \in Caught, NEW up, NEW fresh,
         NEW stmt, NEW mode, mode # "prepare", "last_used" \notin stmt.hints, conf.gtid
  PROVE  \A c \in QosSelects(q, stmt, mode, in, caught, up, fresh).slaves :
           c \in Slave => Counts(applied[c]) >= qos.gtid
<1> DEFINE which == QosWhich(stgy, stmt)
           isWrite == which = "master" \/ IsTransaction(stgy)
           some == GtidFilter(in, q.gtid, caught, up, conf.race, isWrite)
<1>1. conf.split \in BOOLEAN
  BY ConfType DEF TypeInv, TypeOK
<1>2. which # "last_used"
  <2>1. Which(stmt, conf.split) # "last_used"
    BY <1>1, WhichType
  <2> QED
    BY <2>1 DEF QosWhich, AfterWrite
<1>3. AsksForGtid(stgy, mode)
  BY DEF AsksForGtid
<1>4. RaceAvoided(some, in, which, up, conf.race) = some
  BY DEF RaceAvoided
<1>5. QosSelects(q, stmt, mode, in, caught, up, fresh) = some
  <2> HIDE DEF some, which
  <2>1. QosSelects(q, stmt, mode, in, caught, up, fresh)
          = RaceAvoided(some, in, which, up, conf.race)
    BY <1>2, <1>3 DEF QosSelects, some, which
  <2> QED
    BY <1>4, <2>1
<1>6. some.slaves = IF isWrite THEN {} ELSE WithGtid(in.slaves, q.gtid, caught, up, conf.race)
  <2> HIDE DEF isWrite, which
  <2> QED
    BY DEF GtidFilter, some
<1>7. ASSUME NEW c \in WithGtid(in.slaves, q.gtid, caught, up, conf.race), c \in Slave
      PROVE  Counts(applied[c]) >= qos.gtid
  <2>1. CASE q.gtid = NoGtid
    <3>1. applied[c] \in Nat
      BY <1>7, GtidTypes
    <3>2. Counts(applied[c]) \in 0 .. applied[c]
      BY <3>1, CountsType
    <3> QED
      BY <2>1, <3>1, <3>2 DEF NoGtid
  <2>2. CASE q.gtid # NoGtid
    <3>1. c \in caught
      BY <1>7, <2>2 DEF WithGtid
    <3>2. Has(c, qos.gtid)
      BY <3>1 DEF Caught
    <3>3. c \notin Master
      BY <1>7, ServerType
    <3> QED
      BY <3>2, <3>3 DEF Has, GtidCovers
  <2> QED
    BY <2>1, <2>2
<1> HIDE DEF some
<1> QED
  BY <1>5, <1>6, <1>7

(* The qos filter lets through slaves that are up to date.                 *)
LEMMA QosReads ==
  ASSUME TypeInv, CoverInv, "add_active" \notin conf.race, Filtering, Here = "qos",
         ~stgy.trx_stop_switching, pc' = "pick", Asking'
  PROVE  \A c \in walk'.in.slaves : UpToDate(c)'
<1>1. pc = "pick" /\ ChooseQos
  BY DEF Filtering, PassOver, ChooseQos, ChooseTable, ChooseGroups, PickMultiple, PickUser,
         PickBalanced, At, Here
<1>2. /\ UNCHANGED <<conf, log, applied, app>> /\ qos'.gtid = qos.gtid /\ call' = call
      /\ walk.in \in Selection
  BY <1>1, FilterStep, WalkedOn, AtFilter
<1>3. PICK caught, up, fresh :
        /\ caught \in Caught
        /\ Narrowed(QosFlags(qos', call.stmt, call.mode),
                    QosSelects(qos', call.stmt, call.mode, walk.in, caught, up, fresh), TRUE)
  BY <1>1 DEF ChooseQos
<1> DEFINE out == QosSelects(qos', call.stmt, call.mode, walk.in, caught, up, fresh)
           s == QosFlags(qos', call.stmt, call.mode)
<1>4. out \in Selection /\ Fewer(out, walk.in)
  BY <1>2, QosSelected
<1>5. /\ qos'.consistency = "session" /\ call.mode # "prepare"
      /\ "last_used" \notin call.stmt.hints
  BY <1>2 DEF Asking, HasSession
<1>6. CASE conf.gtid
  <2>1. \A c \in out.slaves : c \in Slave => Counts(applied[c]) >= qos.gtid
    BY <1>2, <1>3, <1>5, <1>6, CoverParts, QosUpToDate
  <2>2. \A c \in out.slaves : UpToDate(c)
    BY <2>1, CoverParts, CountsUpToDate
  <2> HIDE DEF out, s
  <2>3. Narrowed(s, out, TRUE)
    BY <1>3 DEF out, s
  <2>4. Onward(s, out, TRUE)
    <3>1. \/ Onward(s, out, TRUE)
          \/ EndsWith(s, IF conf.failover THEN Proxy ELSE None, FALSE)
      BY <1>4, <2>3, NarrowedSteps
    <3>2. \A c : ~EndsWith(s, c, FALSE)
      BY DEF EndsWith
    <3> QED
      BY <3>1, <3>2
  <2>5. walk'.in = out
    BY <2>4 DEF Onward, GoesOn
  <2> QED
    BY <1>2, <2>2, <2>5 DEF UpToDate
<1>7. CASE ~conf.gtid
  <2>1. Len(log) = 0 /\ app.mine = 0 /\ \A c \in Slave : applied[c] = 0
    <3>1. log = <<>>
      BY <1>7 DEF TypeInv, LogInv
    <3> QED
      BY <3>1, GtidTypes
  <2> QED
    BY <1>2, <2>1 DEF UpToDate
<1> QED
  BY <1>6, <1>7

(* Without GTIDs nothing is asked for; with them every step of the qos     *)
(* filter says of a write that it is to be counted.                        *)
LEMMA QosAsks ==
  ASSUME TypeInv, Filtering, Here = "qos", ~stgy.trx_stop_switching,
         HasSession', conf.gtid, Writes
  PROVE  stgy'.injectable_query
<1>1. pc = "pick" /\ ChooseQos
  BY DEF Filtering, PassOver, ChooseQos, ChooseTable, ChooseGroups, PickMultiple, PickUser,
         PickBalanced, At, Here
<1> DEFINE s == QosFlags(qos', call.stmt, call.mode)
<1>2. PICK out : Narrowed(s, out, TRUE)
  BY <1>1 DEF ChooseQos
<1>3. s \in Strategies /\ SameButFlags(s)
  BY QosFlagsType DEF SameButFlags
<1>4. s.injectable_query
  <2>1. /\ qos'.consistency = "session" /\ AsksForGtid(stgy, call.mode)
    BY DEF HasSession, AsksForGtid, Writes
  <2>2. Injectable(call.stmt, conf.split)
    BY DEF Injectable, Guess, Writes
  <2>3. stgy \in Strategies
    BY DEF TypeInv, TypeOK
  <2> DEFINE u == stgy.master_used \/ ((qos'.consistency = "session"
                    \/ (qos'.consistency = "eventual" /\ qos'.aged)) /\ QosUsesMaster(stgy, call.stmt))
             j == Injectable(call.stmt, conf.split) \/ IsTransaction(stgy)
  <2>4. s = [stgy EXCEPT !.master_used = u, !.injectable_query = j]
    BY <2>1 DEF QosFlags
  <2> HIDE DEF u, s
  <2>5. s.injectable_query = j
    BY <2>3, <2>4 DEF Strategies
  <2> QED
    BY <2>2, <2>5
<1> HIDE DEF s
<1>5. stgy' = s \/ \E c \in Server \union {None} : stgy' = Picked(s, c, FALSE)
  <2>1. Proxy \in Server
    BY ServerType
  <2> DEFINE p == IF conf.failover THEN Proxy ELSE None
  <2>2. p \in Server \union {None}
    BY <2>1
  <2> HIDE DEF p
  <2>3. stgy' = s \/ EndsWith(s, p, FALSE)
    BY <1>2 DEF Narrowed, p
  <2> QED
    BY <2>2, <2>3 DEF EndsWith
<1>6. CASE \E c \in Server \union {None} : stgy' = Picked(s, c, FALSE)
  <2>1. PICK c \in Server \union {None} : stgy' = Picked(s, c, FALSE)
    BY <1>6
  <2>2. Remembers(Picked(s, c, FALSE), s, c, FALSE)
    BY <1>3, PickedType
  <2> QED
    BY <1>4, <2>1, <2>2 DEF Remembers
<1> QED
  BY <1>4, <1>5, <1>6

(* Only the qos filter decides what is counted.                            *)
LEMMA InjectableSame ==
  ASSUME TypeInv, ChainCounts, Filtering, Here # "qos" \/ stgy.trx_stop_switching
  PROVE  stgy'.injectable_query = stgy.injectable_query /\ qos' = qos
<1>1. /\ pc = "pick" /\ stgy \in Strategies /\ Here \in {"groups", "table", "qos", "balance"}
      /\ qos' = qos
  BY FilterStep, HereInChain DEF ChainCounts, TypeInv, TypeOK
<1>2. CASE Here = "balance"
  <2>1. PICK s, c : /\ SameButFlags(s) /\ s.injectable_query = stgy.injectable_query
                    /\ c \in Server \union {None} /\ EndsWith(s, c, TRUE)
    BY <1>2, BalanceStep
  <2>2. stgy' = Picked(s, c, TRUE)
    BY <2>1, EndedCall
  <2> QED
    BY <1>1, <2>1, <2>2, PickedType DEF Remembers, SameButFlags
<1>3. CASE Here # "balance"
  <2>1. stgy' = stgy \/ \E c \in Server \union {None} : stgy' = Picked(stgy, c, FALSE)
    <3>1. Proxy \in Server
      BY ServerType
    <3> DEFINE p == IF conf.failover THEN Proxy ELSE None
    <3>2. p \in Server \union {None}
      BY <3>1
    <3> HIDE DEF p
    <3>3. \A out, allow : Narrowed(stgy, out, allow) => stgy' = stgy \/ EndsWith(stgy, p, FALSE)
      BY DEF Narrowed, p
    <3>4. stgy' = stgy \/ EndsWith(stgy, p, FALSE) \/ EndsWith(stgy, None, FALSE)
      <4>1. CASE PassOver
        BY <4>1 DEF PassOver
      <4>2. CASE ChooseTable
        BY <3>3, <4>2 DEF ChooseTable
      <4>3. CASE ChooseGroups
        BY <3>3, <4>3 DEF ChooseGroups
      <4> QED
        BY <1>1, <1>3, <4>1, <4>2, <4>3 DEF Filtering, ChooseQos, PickMultiple, PickUser,
                                            PickBalanced, At, Here
    <3> QED
      BY <3>2, <3>4 DEF EndsWith
  <2>2. ASSUME NEW c \in Server \union {None}, stgy' = Picked(stgy, c, FALSE)
        PROVE  stgy'.injectable_query = stgy.injectable_query
    <3>1. Remembers(Picked(stgy, c, FALSE), stgy, c, FALSE)
      BY <1>1, PickedType
    <3> QED
      BY <2>2, <3>1 DEF Remembers
  <2> QED
    BY <1>1, <2>1, <2>2
<1> QED
  BY <1>2, <1>3

(* The qos filter has been passed when a server is picked.                 *)
LEMMA QosPassed ==
  ASSUME TypeInv, ChainCounts, pc = "pick", "qos" \in ToSet(stgy.filters),
         Here = "balance" \/ conf.failover
  PROVE  Here = "qos" \/ Passed("qos")
<1>1. /\ walk.at \in 1 .. Len(stgy.filters) /\ stgy.filters \in Chain
      /\ Here \in {"user", "balance"} <=> walk.at = Len(stgy.filters)
  BY AtFilter
<1>2. PICK n \in Nat \ {0} : n = Len(stgy.filters) /\ DOMAIN stgy.filters = 1 .. n
  BY <1>1, ChainType
<1>3. CASE Here = "balance"
  <2>1. PICK i \in 1 .. n : stgy.filters[i] = "qos"
    BY <1>2 DEF ToSet
  <2>2. i \in 1 .. walk.at - 1 \/ i = walk.at
    BY <1>1, <1>2, <1>3, <2>1
  <2> QED
    BY <2>1, <2>2 DEF Passed, Here
<1>4. CASE conf.failover
  <2>1. stgy.filters[1] = "qos"
    BY <1>4 DEF ChainCounts, QosLeads
  <2>2. 1 \in 1 .. walk.at - 1 \/ walk.at = 1
    BY <1>1, <1>2
  <2> QED
    BY <2>1, <2>2 DEF Passed, Here
<1> QED
  BY <1>3, <1>4

(* After a step of the walk the reads still go where the GTID is.          *)
LEMMA WalkReads ==
  ASSUME TypeInv, Countable, CoverInv, PreparedInv, ReadInv, Filtering
  PROVE  ReadInv'
<1>1. /\ pc = "pick" /\ UNCHANGED <<conf, log, applied, prep, app>> /\ qos'.gtid = qos.gtid
      /\ ChainCounts /\ "add_active" \notin conf.race
      /\ WritesAsk /\ BeginsAnew /\ SlavesUpToDate /\ TransactionUpToDate /\ SentUpToDate
  BY FilterStep, PreparedParts, ReadParts DEF Countable
<1>2. \A c : UpToDate(c)' <=> UpToDate(c)
  BY <1>1 DEF UpToDate
<1>3. stgy.trx_stop_switching => stgy.in_transaction /\ stgy.last_used_conn \in Server
  BY DEF TypeInv, ControlInv
<1>4. /\ walk.in \in Selection /\ walk.in.masters \subseteq Master
      /\ \A c \in Master \union {None} : UpToDate(c)
  BY <1>1, AtFilter, ServerType DEF Selection, UpToDate
<1>5. Here # "qos" \/ stgy.trx_stop_switching =>
        /\ stgy'.injectable_query = stgy.injectable_query /\ qos' = qos
  BY <1>1, InjectableSame
<1>6. CASE pc' = "pick"
  <2>1. /\ call' = call /\ walk'.at = walk.at + 1 /\ Fewer(walk'.in, walk.in)
        /\ stgy'.filters = stgy.filters /\ stgy'.in_transaction = stgy.in_transaction
        /\ stgy'.trx_stop_switching = stgy.trx_stop_switching
        /\ stgy'.trx_read_only = stgy.trx_read_only
        /\ stgy'.last_used_conn = stgy.last_used_conn
    BY <1>6, WalkedOn
  <2>2. Passed("qos")' => Passed("qos") \/ Here = "qos"
    BY <1>6, PassedMore
  <2>3. Writes' <=> Writes
    BY <2>1 DEF Writes
  <2>4. ASSUME Passed("qos")', HasSession', conf.gtid, Writes, ~stgy.in_transaction
        PROVE  stgy'.injectable_query
    <3>1. ~stgy.trx_stop_switching
      BY <1>3, <2>4
    <3>2. CASE Here = "qos"
      BY <2>4, <3>1, <3>2, QosAsks
    <3>3. CASE Here # "qos"
      <4>1. Passed("qos") /\ HasSession
        BY <1>5, <2>1, <2>2, <2>4, <3>3 DEF HasSession
      <4> QED
        BY <1>1, <1>5, <2>4, <3>3, <4>1 DEF WritesAsk
    <3> QED
      BY <3>2, <3>3
  <2>5. WritesAsk'
    BY <1>1, <1>6, <2>1, <2>3, <2>4 DEF WritesAsk
  <2>6. BeginsAnew'
    BY <1>1, <1>6, <2>1 DEF BeginsAnew
  <2>7. ASSUME Passed("qos")', ~stgy.trx_stop_switching, Asking'
        PROVE  \A c \in walk'.in.slaves : UpToDate(c)'
    <3>1. CASE Here = "qos"
      BY <1>1, <1>6, <2>7, <3>1, QosReads
    <3>2. CASE Here # "qos"
      <4>1. Passed("qos") /\ Asking
        BY <1>5, <2>1, <2>2, <2>7, <3>2 DEF Asking, HasSession
      <4>2. \A c \in walk.in.slaves : UpToDate(c)
        BY <1>1, <2>7, <4>1 DEF SlavesUpToDate
      <4> QED
        BY <1>2, <2>1, <4>2 DEF Fewer
    <3> QED
      BY <3>1, <3>2
  <2>8. SlavesUpToDate'
    BY <2>1, <2>7 DEF SlavesUpToDate
  <2>9. TransactionUpToDate'
    <3>1. ASSUME stgy.trx_stop_switching, HasSession' PROVE HasSession
      BY <1>5, <2>1, <3>1 DEF HasSession
    <3> QED
      BY <1>1, <1>2, <2>1, <3>1 DEF TransactionUpToDate
  <2>10. SentUpToDate'
    BY <1>6 DEF SentUpToDate
  <2> QED
    BY <2>5, <2>6, <2>8, <2>9, <2>10
       DEF ReadInv, WritesAsk, BeginsAnew, SlavesUpToDate, TransactionUpToDate, SentUpToDate
<1>7. CASE pc' # "pick"
  <2>1. /\ call'.stmt = call.stmt /\ call'.mode = call.mode
        /\ call'.conn \in Server \union {None} /\ (call'.conn = None <=> pc' = "return")
        /\ stgy'.last_used_conn = IF call'.conn = None THEN Proxy ELSE call'.conn
        /\ stgy'.filters = stgy.filters /\ stgy'.in_transaction = stgy.in_transaction
        /\ \/ /\ Here = "balance" /\ Balanced(call'.conn)
              /\ stgy'.trx_stop_switching <=> stgy.trx_stop_switching \/ stgy.in_transaction
           \/ /\ Here \in {"qos", "table", "groups"} /\ call'.conn \in {Proxy, None}
              /\ call'.conn # None => conf.failover
              /\ stgy'.trx_stop_switching <=> stgy.trx_stop_switching
    BY <1>1, <1>7, PickedServer
  <2>2. (Writes' <=> Writes) /\ (Here # "qos" => (HasSession' <=> HasSession))
    BY <1>5, <2>1 DEF Writes, HasSession
  <2>3. call'.conn # None /\ "qos" \in ToSet(stgy.filters) => Here = "qos" \/ Passed("qos")
    BY <1>1, <2>1, QosPassed
  <2>4. ASSUME pc' \in {"switch", "send"}, HasSession', conf.gtid, Writes, ~stgy.in_transaction
        PROVE  stgy'.injectable_query
    <3>1. ~stgy.trx_stop_switching
      BY <1>3, <2>4
    <3>2. CASE Here = "qos"
      BY <2>4, <3>1, <3>2, QosAsks
    <3>3. CASE Here # "qos"
      <4>1. HasSession /\ call'.conn # None
        BY <2>1, <2>2, <2>4, <3>3
      <4>2. Passed("qos")
        BY <2>3, <3>3, <4>1 DEF HasSession
      <4> QED
        BY <1>1, <1>5, <2>4, <3>3, <4>1, <4>2 DEF WritesAsk
    <3> QED
      BY <3>2, <3>3
  <2>5. WritesAsk'
    BY <1>1, <1>7, <2>1, <2>2, <2>4 DEF WritesAsk
  <2>6. BeginsAnew' /\ SlavesUpToDate'
    BY <1>7 DEF BeginsAnew, SlavesUpToDate
  <2>7. ASSUME Here = "balance", Balanced(call'.conn), HasSession, ~stgy.trx_stop_switching,
               Asking \/ stgy.in_transaction
        PROVE  UpToDate(call'.conn)
    <3>1. /\ Passed("qos") \/ call'.conn = None
          /\ "last_used" \notin call.stmt.hints \/ stgy.in_transaction
      BY <2>3, <2>7 DEF HasSession, Asking
    <3>2. call'.conn \in walk.in.masters \union walk.in.slaves \union {None}
      BY <2>7, <3>1 DEF Balanced
    <3>3. CASE call'.conn \in walk.in.masters \union {None}
      BY <1>4, <3>3
    <3>4. CASE call'.conn \in walk.in.slaves \ walk.in.masters /\ call'.conn # None
      <4>1. Asking
        <5>1. stgy.in_transaction => stgy.trx_read_only
          BY <2>7, <3>4 DEF Balanced
        <5>2. stgy.in_transaction => call.mode # "prepare" /\ "last_used" \notin call.stmt.hints
          BY <1>1, <2>7, <5>1 DEF BeginsAnew
        <5> QED
          BY <2>7, <5>2 DEF Asking
      <4> QED
        BY <1>1, <2>7, <3>1, <3>4, <4>1 DEF SlavesUpToDate
    <3> QED
      BY <3>2, <3>3, <3>4
  <2>8. ASSUME stgy'.trx_stop_switching, HasSession' PROVE UpToDate(stgy'.last_used_conn)
    <3>1. CASE call'.conn \in {Proxy, None}
      <4>1. Proxy \in Master
        BY ServerType
      <4> QED
        BY <1>4, <2>1, <3>1, <4>1
    <3>2. CASE Here = "balance" /\ Balanced(call'.conn) /\ stgy.trx_stop_switching
                 /\ call'.conn # None
      <4>1. call'.conn = stgy.last_used_conn /\ HasSession
        BY <2>2, <2>8, <3>2 DEF Balanced
      <4> QED
        BY <1>1, <2>1, <3>2, <4>1 DEF TransactionUpToDate
    <3>3. CASE Here = "balance" /\ Balanced(call'.conn) /\ ~stgy.trx_stop_switching
                 /\ call'.conn # None
      BY <2>1, <2>2, <2>7, <2>8, <3>3
    <3> QED
      BY <2>1, <3>1, <3>2, <3>3
  <2>9. TransactionUpToDate'
    BY <1>2, <2>8 DEF TransactionUpToDate
  <2>10. ASSUME pc' \in {"switch", "send"}, Asking' PROVE UpToDate(call'.conn)
    <3>1. CASE call'.conn \in {Proxy, None}
      <4>1. Proxy \in Master
        BY ServerType
      <4> QED
        BY <1>4, <3>1, <4>1
    <3>2. CASE Here = "balance" /\ Balanced(call'.conn)
      <4>1. HasSession /\ Asking
        BY <2>1, <2>2, <2>10, <3>2 DEF Asking
      <4>2. CASE stgy.trx_stop_switching
        BY <1>1, <3>2, <4>1, <4>2 DEF Balanced, TransactionUpToDate
      <4>3. CASE ~stgy.trx_stop_switching
        BY <2>7, <3>2, <4>1, <4>3
      <4> QED
        BY <4>2, <4>3
    <3> QED
      BY <2>1, <3>1, <3>2
  <2>11. SentUpToDate'
    BY <1>2, <2>10 DEF SentUpToDate
  <2> QED
    BY <2>5, <2>6, <2>9, <2>11
       DEF ReadInv, WritesAsk, BeginsAnew, SlavesUpToDate, TransactionUpToDate, SentUpToDate
<1> QED
  BY <1>6, <1>7

(* A call starts: it has passed no filter.                                 *)
LEMMA StartReads ==
  ASSUME TypeInv, ReadInv, {"prepare", "last_used"} \subseteq Discipline,
         \/ \E stmt \in conf.texts : Query(stmt)
         \/ \E stmt \in conf.prepared : Prepare(stmt)
         \/ Execute
  PROVE  ReadInv'
<1>1. PICK mode, stmt, old :
        /\ mode \in {"query", "prepare", "execute"}
        /\ Start(mode, stmt, old)
        /\ IF mode = "prepare" THEN "prepare" \in Discipline => ~OpensReadOnly ELSE HintGiven(stmt)
  BY DEF Query, Prepare, Execute
<1>2. /\ pc' = "pick" /\ UNCHANGED <<conf, stgy, qos, applied, app>> /\ walk'.at = 1
      /\ call'.mode = mode /\ call'.stmt = stmt
      /\ "prepare" \in Discipline /\ "last_used" \in Discipline
  BY <1>1 DEF Start, NoCall
<1>3. ~Passed("qos")'
  BY <1>2 DEF Passed
<1>4. BeginsAnew'
  BY <1>1, <1>2 DEF BeginsAnew, OpensReadOnly, HintGiven
<1>5. TransactionUpToDate'
  <2>1. HasSession' <=> HasSession
    BY <1>2 DEF HasSession
  <2>2. UpToDate(stgy.last_used_conn)' <=> UpToDate(stgy.last_used_conn)
    BY <1>2 DEF UpToDate
  <2> QED
    BY <1>2, <2>1, <2>2, ReadParts DEF TransactionUpToDate
<1>6. WritesAsk' /\ SlavesUpToDate' /\ SentUpToDate'
  BY <1>2, <1>3 DEF WritesAsk, SlavesUpToDate, SentUpToDate
<1> QED
  BY <1>4, <1>5, <1>6
     DEF ReadInv, WritesAsk, BeginsAnew, SlavesUpToDate, TransactionUpToDate, SentUpToDate

(* The same call on the same server, and slaves that only catch up.        *)
LEMMA SameReads ==
  ASSUME TypeInv, ReadInv, UNCHANGED <<conf, stgy, qos, walk>>, app'.mine = app.mine,
         \A c \in Slave : applied'[c] \in Int /\ applied[c] <= applied'[c],
         pc' \in {"pick", "switch", "send"} =>
           /\ pc \in {"pick", "switch", "send"} /\ (pc' = "pick" <=> pc = "pick")
           /\ call'.stmt = call.stmt /\ call'.conn = call.conn /\ call'.mode = call.mode
  PROVE  ReadInv'
<1>1. WritesAsk /\ BeginsAnew /\ SlavesUpToDate /\ TransactionUpToDate /\ SentUpToDate
  BY ReadParts
<1>2. ASSUME NEW c, UpToDate(c) PROVE c \in Slave => applied'[c] >= app'.mine
  BY <1>2, GtidTypes DEF UpToDate
<1>3. /\ HasSession' <=> HasSession
      /\ Passed("qos")' <=> Passed("qos")
      /\ pc' \in {"pick", "switch", "send"} => (Writes' <=> Writes) /\ (Asking' <=> Asking)
  BY DEF HasSession, Passed, Writes, Asking
<1>4. WritesAsk'
  BY <1>1, <1>3 DEF WritesAsk
<1>5. BeginsAnew'
  BY <1>1 DEF BeginsAnew
<1>6. SlavesUpToDate'
  <2>1. ASSUME pc' = "pick", Passed("qos"), ~stgy.trx_stop_switching, Asking, NEW c \in walk.in.slaves
        PROVE  c \in Slave => applied'[c] >= app'.mine
    BY <1>1, <1>2, <2>1 DEF SlavesUpToDate
  <2> QED
    BY <1>3, <2>1 DEF SlavesUpToDate, UpToDate
<1>7. TransactionUpToDate'
  BY <1>1, <1>2, <1>3 DEF TransactionUpToDate, UpToDate
<1>8. SentUpToDate'
  BY <1>1, <1>2, <1>3 DEF SentUpToDate, UpToDate
<1> QED
  BY <1>4, <1>5, <1>6, <1>7, <1>8
     DEF ReadInv, WritesAsk, BeginsAnew, SlavesUpToDate, TransactionUpToDate, SentUpToDate

(* Where nothing is picked nor sent, and no transaction stays on.          *)
LEMMA IdleReads ==
  ASSUME pc' \notin {"pick", "switch", "send"}, ~stgy'.trx_stop_switching
  PROVE  ReadInv'
BY DEF ReadInv

-----------------------------------------------------------------------------
(* Session consistency: the steps.                                         *)

(* Nothing is written, asked for nor promised.                             *)
LEMMA CoverQuiet ==
  ASSUME TypeInv, CoverInv, UNCHANGED log, qos'.gtid = qos.gtid, app'.mine = app.mine,
         pc' \notin {"fetch", "return"} \/ (pc' = "return" /\ ~call'.good)
  PROVE  CoverInv'
<1>1. GtidCovers'
  BY CoverParts, GtidStays
<1>2. FetchCovers' /\ ReturnCovers'
  BY NothingPromised
<1> QED
  BY <1>1, <1>2 DEF CoverInv, GtidCovers, FetchCovers, ReturnCovers

(* A picking call is not good before it is sent.                           *)
LEMMA NotGoodYet ==
  ASSUME TypeInv, pc \in {"pick", "switch"}, Filtering \/ Switch, pc' = "return"
  PROVE  ~call'.good
<1>1. ~call.good /\ call \in Calling
  BY DEF TypeInv, TypeOK, ControlInv
<1>2. call' = call \/ \E s, c : call' = [call EXCEPT !.conn = c, !.pinned = s.trx_stop_switching]
  <2>1. CASE Switch
    BY <2>1 DEF Switch
  <2>2. CASE Filtering
    BY <2>2, FilterStep DEF Onward, GoesOn, EndsWith
  <2> QED
    BY <2>1, <2>2
<1> QED
  BY <1>1, <1>2 DEF Calling

(* A write on the master outside of transactions is counted.               *)
LEMMA WriteInjected ==
  ASSUME TypeInv, PreparedInv, ReadInv, pc = "send", HasSession, conf.gtid, Writes,
         call.conn \in Master, ~stgy.in_transaction
  PROVE  Injects
<1>1. stgy.injectable_query
  BY ReadParts DEF WritesAsk
<1>2. call.mode \in {"query", "execute"}
  BY DEF TypeInv, ControlInv, Writes
<1>3. call.mode = "execute" => call.old \in Master
  BY PreparedParts DEF WritesOnMaster, WritesPrepared, Writes
<1> QED
  BY <1>1, <1>2, <1>3 DEF Injects

(* A statement is sent.                                                    *)
LEMMA SendCover ==
  ASSUME TypeInv, CoverInv, PreparedInv, ReadInv, Send
  PROVE  CoverInv'
<1>1. PICK o \in Outcomes :
        /\ IF o = "ok" THEN ExecutedOnServer(call.conn) ELSE UNCHANGED <<log, open>>
        /\ call' = [call EXCEPT
             !.transient = Transient(o), !.good = o = "ok",
             !.tries = IF Transient(o) THEN @ + 1 ELSE @,
             !.ran = IF o = "ok" /\ call.mode # "prepare" THEN @ + 1 ELSE @]
        /\ pc' = IF Transient(o) /\ TriesLeft THEN "send"
                 ELSE IF o = "ok" /\ Injects THEN "inject" ELSE "return"
  BY DEF Send
<1>2. /\ pc = "send" /\ UNCHANGED <<conf, stgy, qos, app>> /\ call \in Calling
  BY DEF Send, TypeInv, TypeOK
<1>3. call'.good <=> o = "ok"
  <2> DEFINE t == Transient(o)
             g == o = "ok"
             n == IF t THEN call.tries + 1 ELSE call.tries
             r == IF o = "ok" /\ call.mode # "prepare" THEN call.ran + 1 ELSE call.ran
  <2>1. call' = [call EXCEPT !.transient = t, !.good = g, !.tries = n, !.ran = r]
    BY <1>1
  <2> HIDE DEF t, g, n, r
  <2>2. call'.good = g
    BY <1>2, <2>1 DEF Calling
  <2> QED
    BY <2>2 DEF g
<1>4. log' = log \/ \E entry \in Entry : log' = Append(log, entry)
  BY <1>1 DEF ExecutedOnServer, Logged, Entry
<1>5. GtidCovers'
  BY <1>2, <1>4, CoverParts, GtidStays
<1>6. call'.mode = call.mode /\ call'.stmt = call.stmt /\ call'.conn = call.conn
  BY SentCall
<1>7. pc' # "fetch" /\ ~(pc' = "return" /\ Promised')
  <2>1. call.mode \in {"query", "prepare", "execute"}
    BY <1>2 DEF TypeInv, ControlInv
  <2>2. ASSUME pc' = "return", Promised' PROVE FALSE
    <3>1. /\ HasSession /\ conf.gtid /\ Writes /\ call.conn \in Master /\ ~stgy.in_transaction
          /\ o = "ok"
      BY <1>2, <1>3, <1>6, <2>1, <2>2 DEF Promised, HasSession, Writes
    <3>2. Injects
      BY <1>2, <3>1, WriteInjected
    <3> QED
      BY <1>1, <2>2, <3>1, <3>2
  <2> QED
    BY <1>1, <2>2
<1> QED
  BY <1>5, <1>7 DEF CoverInv, GtidCovers, FetchCovers, ReturnCovers

(* A write is counted.  A failure is reported.                             *)
LEMMA InjectCover ==
  ASSUME TypeInv, CoverInv, conf.report, Inject, TypeInv'
  PROVE  CoverInv'
<1>1. /\ pc = "inject" /\ UNCHANGED <<conf, stgy, qos, app>> /\ call \in Calling
      /\ \/ log' = Append(log, "count") /\ pc' = "fetch" /\ call' = call
         \/ Uncounted /\ log' = log
  BY DEF Inject, TypeInv, TypeOK
<1>2. CASE Uncounted /\ log' = log
  <2>1. pc' = "return" /\ ~call'.good
    BY <1>1, <1>2 DEF Uncounted, Calling
  <2> QED
    BY <1>1, <1>2, <2>1, CoverQuiet
<1>3. CASE log' = Append(log, "count") /\ pc' = "fetch"
  <2>1. GtidCovers'
    BY <1>1, <1>3, CoverParts, GtidStays DEF Entry
  <2>2. PICK n \in Nat : n = LastOwn' /\ n \in 0 .. Len(log) + 1
    <3>1. log' \in Seq(Entry) /\ LogInv' /\ Len(log') = Len(log) + 1 /\ Len(log) \in Nat
      BY <1>3, GtidTypes, LogAppended DEF TypeInv, Entry
    <3>2. LastOwnIsLast'
      BY LastOwnLater, PTL
    <3> QED
      BY <3>1, <3>2 DEF LastOwnIsLast, Entry
  <2>3. \A k \in 0 .. Len(log)' : Counts(k)' >= LastGtid' => k >= n
    BY <1>3, <2>2, GtidTypes, NewestCovers
  <2> QED
    BY <1>3, <2>1, <2>2, <2>3 DEF CoverInv, GtidCovers, Covers
<1> QED
  BY <1>1, <1>2, <1>3

(* The count is asked for: it covers what has been written.                *)
LEMMA FetchCover ==
  ASSUME TypeInv, CoverInv, conf.report, Fetch
  PROVE  CoverInv'
<1>1. /\ pc = "fetch" /\ UNCHANGED <<conf, stgy, log, app>> /\ call \in Calling
      /\ pc' = "return"
      /\ \/ qos' = [qos EXCEPT !.gtid = LastGtid] /\ call' = call
         \/ Uncounted /\ qos' = qos
      /\ GtidCovers /\ FetchCovers
  BY CoverParts DEF Fetch, Uncounted, TypeInv, TypeOK
<1>2. CASE Uncounted /\ qos' = qos
  <2>1. ~call'.good
    BY <1>1, <1>2 DEF Uncounted, Calling
  <2> QED
    BY <1>1, <1>2, <2>1, CoverQuiet
<1>3. CASE qos' = [qos EXCEPT !.gtid = LastGtid]
  <2>1. qos'.gtid = LastGtid
    BY <1>3 DEF TypeInv, TypeOK, QosData
  <2>2. LastGtid \in Nat /\ qos.gtid \in Nat /\ qos.gtid <= LastGtid /\ Len(log) \in Nat
    BY <1>1, GtidTypes DEF GtidCovers
  <2>3. Covers(LastGtid, app.mine) /\ Covers(LastGtid, LastOwn)
    <3>1. ASSUME NEW k \in 0 .. Len(log), Counts(k) >= LastGtid
          PROVE  k >= app.mine
      <4>1. Counts(k) \in Int /\ Counts(k) >= qos.gtid
        <5>1. k \in Nat
          BY <2>2
        <5>2. Counts(k) \in 0 .. k
          BY <5>1, CountsType
        <5> QED
          BY <2>2, <3>1, <5>2
      <4> QED
        BY <1>1, <4>1 DEF GtidCovers, Covers
    <3> QED
      BY <1>1, <3>1 DEF FetchCovers, Covers
  <2>4. LastGtid' = LastGtid /\ LastOwn' = LastOwn /\ \A g, n : Covers(g, n) => Covers(g, n)'
    BY <1>1 DEF LastGtid, LastOwn, Covers, Counts
  <2>5. \A k \in 0 .. Len(log)' : Counts(k)' >= LastGtid => k >= app.mine /\ k >= LastOwn
    BY <1>1, <2>3 DEF Covers, Counts
  <2> QED
    BY <1>1, <2>1, <2>2, <2>4, <2>5 DEF CoverInv, Covers, Freed
<1> QED
  BY <1>1, <1>2, <1>3

(* The call returns: the application is told of its writes.                *)
LEMMA ReturnCover ==
  ASSUME TypeInv, CoverInv, Return
  PROVE  CoverInv'
<1>1. /\ pc = "return" /\ pc' = "user" /\ UNCHANGED <<conf, qos, log>>
      /\ app'.mine = IF Promised THEN LastOwn ELSE app.mine
      /\ GtidCovers /\ ReturnCovers
  BY CoverParts DEF Return
<1>2. Covers(qos.gtid, app'.mine)
  BY <1>1 DEF GtidCovers, ReturnCovers
<1>3. qos.gtid # Freed /\ qos.gtid <= LastGtid
  BY <1>1 DEF GtidCovers
<1>4. \A k \in 0 .. Len(log)' : Counts(k)' >= qos.gtid => k >= app'.mine
  BY <1>1, <1>2 DEF Covers, Counts
<1> QED
  BY <1>1, <1>3, <1>4 DEF CoverInv, Covers, LastGtid, Counts, Freed

(* A GTID the application gives covers what came before its count.         *)
LEMMA GivenCovers ==
  ASSUME TypeInv, NEW gtid \in 1 .. LastGtid
  PROVE  Covers(gtid, EntryOf(gtid))
<1>1. PICK e \in 1 .. Len(log) : e = EntryOf(gtid) /\ log[e] = "count" /\ Counts(e) = gtid
  BY GtidTypes, EntryOfType
<1>2. PICK m \in Nat : m = Len(log)
  BY GtidTypes
<1>3. ASSUME NEW k \in 0 .. m, Counts(k) >= gtid, k < e
      PROVE  FALSE
  <2>1. PICK i \in Nat : e = i + 1
    <3>1. e \in Nat \ {0}
      BY <1>2
    <3>2. e - 1 \in Nat /\ e = (e - 1) + 1
      BY <3>1
    <3> QED
      BY <3>2
  <2>2. Counts(i + 1) = Counts(i) + 1
    BY <1>1, <2>1, CountsNext
  <2>3. Counts(k) <= Counts(i) /\ Counts(k) \in Int /\ Counts(i) \in Int
    <3>1. k \in Nat /\ k <= i /\ e \in Int
      BY <1>3, <2>1
    <3>2. Counts(k) \in 0 .. k /\ Counts(i) \in 0 .. i
      BY <2>1, <3>1, CountsType
    <3>3. Counts(k) <= Counts(i)
      BY <2>1, <3>1, CountsGrow
    <3> QED
      BY <3>2, <3>3
  <2> QED
    BY <1>1, <1>3, <2>1, <2>2, <2>3
<1> QED
  BY <1>1, <1>2, <1>3 DEF Covers

(* mysqlnd_ms_set_qos.                                                     *)
LEMMA SetQosCover ==
  ASSUME TypeInv, CoverInv, "keep" \in Discipline, NEW level, NEW option, SetQos(level, option)
  PROVE  CoverInv'
<1>1. /\ pc' = "user" /\ UNCHANGED <<conf, log>> /\ GtidCovers
  BY SetQosStep, CoverParts DEF SetQos, Calls
<1>2. PICK gtid \in IF option = "gtid" THEN 1 .. LastGtid
                    ELSE IF qos.gtid = NoGtid THEN {NoGtid} ELSE {Freed} :
        /\ qos' = [consistency |-> level, aged |-> option = "age", gtid |-> gtid]
        /\ app' = [app EXCEPT !.mine = IF option = "gtid" THEN EntryOf(gtid) ELSE @]
        /\ option = "gtid" \/ qos.gtid = NoGtid
  BY DEF SetQos
<1>3. PICK n : n = IF option = "gtid" THEN EntryOf(gtid) ELSE app.mine
  OBVIOUS
<1>4. qos'.gtid = gtid /\ app'.mine = n
  <2>1. app' = [app EXCEPT !.mine = n]
    BY <1>2, <1>3
  <2>2. app \in [mine : 0 .. Len(log), failed : BOOLEAN]
    BY DEF TypeInv, TypeOK
  <2> QED
    BY <1>2, <2>1, <2>2
<1>5. gtid # Freed /\ gtid <= LastGtid /\ Covers(gtid, n)
  <2>1. CASE option = "gtid"
    <3>1. gtid \in 1 .. LastGtid /\ LastGtid \in Nat
      BY <1>2, <2>1, GtidTypes
    <3>2. Covers(gtid, EntryOf(gtid))
      BY <3>1, GivenCovers
    <3> QED
      BY <1>3, <2>1, <3>1, <3>2 DEF Freed
  <2>2. CASE option # "gtid"
    <3>1. gtid = NoGtid /\ qos.gtid = NoGtid /\ n = app.mine
      BY <1>2, <1>3, <2>2
    <3> QED
      BY <1>1, <3>1 DEF GtidCovers
  <2> QED
    BY <2>1, <2>2
<1>6. \A k \in 0 .. Len(log)' : Counts(k)' >= gtid => k >= n
  BY <1>1, <1>5 DEF Covers, Counts
<1> QED
  BY <1>1, <1>4, <1>5, <1>6 DEF CoverInv, Covers, LastGtid, Counts

(* A transaction ends: it is counted before it is promised.                *)
LEMMA EndCover ==
  ASSUME TypeInv, CoverInv, NEW mode \in {"commit", "rollback", "begin"}, NEW ro, End(mode, ro)
  PROVE  CoverInv'
<1>1. /\ log' = log \/ log' = Append(log, "own")
      /\ call' = [NoCall EXCEPT !.mode = mode, !.conn = Target, !.ro = ro, !.good = TRUE]
      /\ pc' = IF conf.gtid /\ mode # "rollback" /\ stgy.in_transaction /\ Target \in Master
               THEN "inject" ELSE "return"
      /\ UNCHANGED <<conf, stgy, qos, app>>
  BY DEF End, Logged
<1>2. GtidCovers'
  BY <1>1, CoverParts, GtidStays DEF Entry
<1>3. call'.mode = mode /\ call'.conn = Target /\ call'.stmt.kind = "none"
  <2>1. call'.mode = mode /\ call'.conn = Target /\ call'.stmt = NoText
    BY <1>1 DEF NoCall
  <2>2. NoText.kind = "none"
    BY DEF NoText
  <2> QED
    BY <2>1, <2>2
<1>4. ~Writes'
  BY <1>3 DEF Writes
<1>5. ~(pc' = "return" /\ Promised')
  BY <1>1, <1>3, <1>4 DEF Promised
<1>6. pc' # "fetch"
  BY <1>1
<1> QED
  BY <1>2, <1>5, <1>6 DEF CoverInv, GtidCovers, FetchCovers, ReturnCovers

(* Another client has been counted.                                        *)
LEMMA OtherCover ==
  ASSUME TypeInv, CoverInv, OtherCounts, TypeInv'
  PROVE  CoverInv'
<1>1. /\ log' = Append(log, "count") /\ UNCHANGED <<conf, stgy, qos, pc, call, app>> /\ LogInv'
      /\ log \in Seq(Entry)
  BY GtidTypes DEF OtherCounts, TypeInv
<1>2. GtidCovers'
  BY <1>1, CoverParts, GtidStays DEF Entry
<1>3. ReturnCovers'
  BY <1>1, CoverParts, ReturnStays
<1>4. FetchCovers'
  <2>1. PICK n \in Nat : n = LastOwn /\ n \in 0 .. Len(log) + 1 /\ LastOwn' = n
    BY <1>1, GtidTypes, OwnStays
  <2>2. \A k \in 0 .. Len(log)' : Counts(k)' >= LastGtid' => k >= n
    BY <1>1, <2>1, NewestCovers
  <2> QED
    BY <2>1, <2>2 DEF FetchCovers, Covers
<1> QED
  BY <1>2, <1>3, <1>4 DEF CoverInv, GtidCovers, FetchCovers, ReturnCovers

(* Every step keeps what Countable promises.                               *)
LEMMA SessionStep ==
  ASSUME TypeInv, TypeInv', SessionInv, [Next]_vars,
         {"keep", "prepare", "prepared_write", "last_used"} \subseteq Discipline
  PROVE  SessionInv'
<1>1. UNCHANGED conf
  BY FilterStep DEF Next, vars, Replicate, OtherCounts, Query, Prepare, Execute, Start, Switch, Send,
     Inject, Fetch, CommitOrRollback, End, TxBegin, Return, SetQos
<1>2. SUFFICES ASSUME Countable PROVE CoverInv' /\ PreparedInv' /\ ReadInv'
  BY <1>1 DEF SessionInv, Countable
<1>3. /\ CoverInv /\ PreparedInv /\ ReadInv /\ conf.report
      /\ "keep" \in Discipline /\ "prepare" \in Discipline /\ "prepared_write" \in Discipline
      /\ "last_used" \in Discipline
  BY <1>2 DEF SessionInv, Countable
<1>4. /\ stgy.trx_stop_switching => stgy.in_transaction
      /\ stgy \in Strategies /\ call \in Calling
      /\ applied \in [Slave -> 0 .. Len(log)] /\ Len(log) \in Nat
  BY GtidTypes DEF TypeInv, TypeOK, ControlInv
<1>5. CASE \E c \in Slave : Replicate(c)
  <2>1. PICK c \in Slave : applied' = [applied EXCEPT ![c] = @ + 1]
    BY <1>5 DEF Replicate
  <2>2. UNCHANGED <<conf, stgy, qos, log, open, pc, call, walk, prep, app>>
    BY <1>5 DEF Replicate
  <2>3. \A d \in Slave : applied'[d] \in Int /\ applied[d] <= applied'[d]
    BY <1>4, <2>1
  <2>4. ReadInv'
    BY <1>3, <2>2, <2>3, SameReads
  <2>5. PreparedInv'
    BY <1>3, <2>2, OtherPrepared
  <2>6. CoverInv'
    BY <1>3, <2>2 DEF CoverInv, Covers, Counts, LastGtid, LastOwn, Promised, HasSession, Writes,
                      Freed
  <2> QED
    BY <2>4, <2>5, <2>6
<1>6. CASE OtherCounts
  <2>1. UNCHANGED <<conf, stgy, qos, applied, open, pc, call, walk, prep, app>>
    BY <1>6 DEF OtherCounts
  <2>2. ReadInv'
    BY <1>3, <1>4, <2>1, SameReads
  <2>3. PreparedInv'
    BY <1>3, <2>1, OtherPrepared
  <2> QED
    BY <1>3, <1>6, <2>2, <2>3, OtherCover
<1>7. CASE \/ \E stmt \in conf.texts : Query(stmt)
           \/ \E stmt \in conf.prepared : Prepare(stmt)
           \/ Execute
  <2>1. UNCHANGED <<log, qos, app>> /\ pc' = "pick"
    BY <1>7 DEF Query, Prepare, Execute, Start
  <2>2. CoverInv'
    BY <1>3, <2>1, CoverQuiet
  <2>3. PreparedInv'
    BY <1>2, <1>3, <1>7, StartPrepared
  <2>4. ReadInv'
    BY <1>3, <1>7, StartReads
  <2> QED
    BY <2>2, <2>3, <2>4
<1>8. CASE Filtering
  <2>1. /\ pc = "pick" /\ UNCHANGED <<log, app>> /\ qos'.gtid = qos.gtid
        /\ pc' \in {"pick", "switch", "send", "return"}
    <3>1. ChainCounts
      BY <1>3, PreparedParts
    <3> QED
      BY <1>8, <3>1, FilterStep, PickedServer
  <2>2. CoverInv'
    BY <1>3, <1>8, <2>1, NotGoodYet, CoverQuiet
  <2> QED
    BY <1>2, <1>3, <1>8, <2>2, WalkPrepared, WalkReads
<1>9. CASE Switch
  <2>1. /\ pc = "switch" /\ pc' \in {"send", "return"}
        /\ UNCHANGED <<conf, stgy, qos, log, applied, open, call, walk, app>>
    BY <1>9 DEF Switch
  <2>2. CoverInv'
    BY <1>3, <1>9, <2>1, NotGoodYet, CoverQuiet
  <2>3. ReadInv'
    BY <1>3, <1>4, <2>1, SameReads
  <2> QED
    BY <1>3, <1>9, <2>2, <2>3, SendPrepared
<1>10. CASE Send
  <2>1. /\ UNCHANGED <<conf, stgy, qos, applied, walk, app>> /\ pc = "send" /\ pc' # "pick"
    BY <1>10 DEF Send
  <2>2. call'.mode = call.mode /\ call'.stmt = call.stmt /\ call'.conn = call.conn
    BY <1>10, SentCall
  <2>3. ReadInv'
    BY <1>3, <1>4, <2>1, <2>2, SameReads
  <2> QED
    BY <1>3, <1>10, <2>3, SendCover, SendPrepared
<1>11. CASE Inject
  <2>1. /\ UNCHANGED <<conf, stgy, qos, applied, walk, prep, app>> /\ pc' \in {"fetch", "return"}
        /\ call'.mode = call.mode /\ call'.stmt = call.stmt
    BY <1>4, <1>11 DEF Inject, Uncounted, Calling
  <2>2. ReadInv'
    BY <1>3, <1>4, <2>1, SameReads
  <2>3. PreparedInv'
    BY <1>3, <2>1, OtherPrepared
  <2> QED
    BY <1>3, <1>11, <2>2, <2>3, InjectCover
<1>12. CASE Fetch
  <2>1. /\ UNCHANGED <<conf, stgy, applied, walk, prep, app>> /\ pc' = "return"
        /\ call'.mode = call.mode /\ call'.stmt = call.stmt
    BY <1>4, <1>12 DEF Fetch, Uncounted, Calling
  <2>2. qos'.consistency = qos.consistency
    BY <1>12 DEF Fetch, TypeInv, TypeOK, QosData
  <2>3. ReadInv'
    <3>1. HasSession' <=> HasSession
      BY <2>1, <2>2 DEF HasSession
    <3>2. UpToDate(stgy.last_used_conn)' <=> UpToDate(stgy.last_used_conn)
      BY <2>1 DEF UpToDate
    <3>3. TransactionUpToDate'
      BY <1>3, <2>1, <3>1, <3>2, ReadParts DEF TransactionUpToDate
    <3> QED
      BY <2>1, <3>3 DEF ReadInv, TransactionUpToDate
  <2>4. PreparedInv'
    BY <1>3, <2>1, OtherPrepared
  <2> QED
    BY <1>3, <1>12, <2>3, <2>4, FetchCover
<1>13. CASE \E mode \in {"commit", "rollback", "begin"}, ro \in BOOLEAN : End(mode, ro)
  <2>1. PICK mode \in {"commit", "rollback", "begin"}, ro \in BOOLEAN : End(mode, ro)
    BY <1>13
  <2>2. /\ UNCHANGED <<conf, stgy, qos, applied, walk, prep, app>>
        /\ pc' \in {"inject", "return"} /\ call'.mode = mode
    BY <2>1 DEF End, NoCall
  <2>3. ReadInv'
    BY <1>3, <1>4, <2>2, SameReads
  <2>4. PreparedInv'
    BY <1>3, <2>2, OtherPrepared
  <2> QED
    BY <1>3, <2>1, <2>3, <2>4, EndCover
<1>14. CASE \E ro \in BOOLEAN : /\ pc = "user" /\ stgy' = Begun(stgy, ro)
                                /\ UNCHANGED <<conf, qos, log, applied, open, pc, call, walk, prep, app>>
  <2>1. PICK ro \in BOOLEAN : stgy' = Begun(stgy, ro)
    BY <1>14
  <2>2. stgy'.filters = stgy.filters /\ ~stgy'.trx_stop_switching
    BY <1>4, <2>1, BegunType
  <2>3. PreparedInv'
    BY <1>3, <1>14, <2>2, IdlePrepared
  <2>4. ReadInv'
    BY <1>14, <2>2, IdleReads
  <2>5. CoverInv'
    BY <1>3, <1>14, CoverQuiet
  <2> QED
    BY <2>3, <2>4, <2>5
<1>15. CASE Return
  <2>1. /\ pc' = "user" /\ call' = NoCall /\ UNCHANGED <<conf, qos, log, applied, walk, prep>>
        /\ stgy' \in {Begun(stgy, call.ro), Ended(stgy), stgy} /\ call.ro \in BOOLEAN
    BY <1>4, <1>15 DEF Return, Calling
  <2>2. stgy'.filters = stgy.filters /\ (stgy' # stgy => ~stgy'.trx_stop_switching)
    BY <1>4, <2>1, BegunType
  <2>3. call'.mode = "none"
    BY <2>1 DEF NoCall
  <2>4. PreparedInv'
    BY <1>3, <2>1, <2>2, <2>3, IdlePrepared
  <2>5. ReadInv'
    <3>1. CASE stgy' # stgy
      BY <2>1, <2>2, <3>1, IdleReads
    <3>2. CASE stgy' = stgy
      <4>1. CASE ~stgy.trx_stop_switching
        BY <2>1, <3>2, <4>1, IdleReads
      <4>2. CASE stgy.trx_stop_switching
        <5>1. ~Promised
          <6>1. CASE Promised /\ call.mode \in {"commit", "begin"}
            <7>1. call.good /\ stgy' \in {Begun(stgy, call.ro), Ended(stgy)}
              BY <1>15, <6>1 DEF Return, Promised
            <7> QED
              BY <1>4, <2>1, <3>2, <4>2, <7>1, BegunType
          <6> QED
            BY <1>4, <4>2, <6>1 DEF Promised
        <5>2. app'.mine = app.mine
          BY <1>15, <5>1 DEF Return
        <5> QED
          BY <1>3, <1>4, <2>1, <3>2, <5>2, SameReads
      <4> QED
        BY <4>1, <4>2
    <3> QED
      BY <3>1, <3>2
  <2> QED
    BY <1>3, <1>15, <2>4, <2>5, ReturnCover
<1>16. CASE \E level \in conf.levels, option \in {"none", "age", "gtid"} : SetQos(level, option)
  <2>1. PICK level, option : SetQos(level, option)
    BY <1>16
  <2>2. /\ pc = "user" /\ UNCHANGED <<conf, pc, call, prep>>
        /\ ToSet(stgy'.filters) = ToSet(stgy.filters) \union {"qos"} /\ stgy'.filters[1] = "qos"
        /\ ~stgy'.trx_stop_switching
    BY <1>4, <2>1, SetQosStep
  <2>3. PreparedInv'
    BY <1>3, <2>2, IdlePrepared
  <2>4. ReadInv'
    BY <2>2, IdleReads
  <2> QED
    BY <1>3, <2>1, <2>3, <2>4, SetQosCover
<1>17. CASE UNCHANGED vars
  <2>1. UNCHANGED <<conf, stgy, qos, log, applied, open, pc, call, walk, prep, app>>
    BY <1>17 DEF vars
  <2>2. ReadInv'
    BY <1>3, <1>4, <2>1, SameReads
  <2>3. PreparedInv'
    BY <1>3, <2>1, OtherPrepared
  <2>4. CoverInv'
    BY <1>3, <2>1 DEF CoverInv, Covers, Counts, LastGtid, LastOwn, Promised, HasSession, Writes,
                      Freed
  <2> QED
    BY <2>2, <2>3, <2>4
<1>18. CASE \/ \E mode \in {"commit", "rollback"} : CommitOrRollback(mode)
            \/ \E ro \in BOOLEAN : TxBegin(ro)
  BY <1>13, <1>14, <1>18 DEF CommitOrRollback, TxBegin, Calls
<1> QED
  BY <1>5, <1>6, <1>7, <1>8, <1>9, <1>10, <1>11, <1>12, <1>15, <1>16, <1>17, <1>18 DEF Next

(* The first state.                                                        *)
LEMMA InitSession == Init => SessionInv
<1> SUFFICES ASSUME Init, Countable PROVE CoverInv /\ PreparedInv /\ ReadInv
  BY DEF SessionInv
<1>1. /\ pc = "user" /\ call = NoCall /\ prep = NothingPrepared /\ log = <<>>
      /\ stgy.filters = conf.filters /\ ~stgy.trx_stop_switching
      /\ qos.gtid = NoGtid /\ app.mine = 0
  BY DEF Init
<1>2. call.mode = "none" /\ prep.conn = None /\ prep.stmt.kind = "none"
  BY <1>1 DEF NoCall, NothingPrepared, NoText
<1>3. PreparedInv
  BY <1>1, <1>2 DEF PreparedInv, Countable, QosLeads
<1>4. ReadInv
  BY <1>1 DEF ReadInv
<1>5. Len(log) = 0 /\ LastGtid = Counts(0)
  BY <1>1 DEF LastGtid
<1>6. Counts(0) \in 0 .. 0
  BY CountsType
<1>7. CoverInv
  BY <1>1, <1>5, <1>6 DEF CoverInv, Covers, Freed, NoGtid
<1> QED
  BY <1>3, <1>4, <1>7

-----------------------------------------------------------------------------
(* The theorems.                                                           *)

(* The invariants with their types and with one another.                   *)
LEMMA Invariants == Spec => [](TypeInv /\ PartitionInv)
<1>1. Init => TypeInv /\ PartitionInv
  BY InitType, InitPartition
<1>2. TypeInv /\ PartitionInv /\ [Next]_vars => (TypeInv /\ PartitionInv)'
  BY TypeStep, PartitionStep
<1> QED
  BY <1>1, <1>2, PTL DEF Spec

(* All variables have their types: among others, the position in the chain *)
(* is one of the chain that mysqlnd_ms_set_qos may have replaced, no       *)
(* statement is tried more than max_retries + 1 times, and the log never   *)
(* outgrows its bound.                                                     *)
THEOREM StatementsTypeCorrect == Spec => []TypeOK
<1>1. TypeInv /\ PartitionInv => TypeOK
  BY DEF TypeInv
<1> QED
  BY <1>1, Invariants, PTL

(* The loops of query, prepare and execute count at most max_retries + 1   *)
(* transient errors, and send a statement again only while tries are left. *)
THEOREM TriesAreBounded == Spec => []LoopInv
<1>1. LoopInv /\ [Next]_vars => LoopInv'
  BY LoopStep
<1> QED
  BY <1>1, InitLoop, PTL DEF Spec

(* A statement is executed at most once, however often it is sent: by      *)
(* execute with any max_retries, by query with max_retries 0 or 1.         *)
THEOREM StatementsRunOnce == Spec => [](~SuccessMayBeRetried => ExecutedOnce)
<1>1. LoopInv => (~SuccessMayBeRetried => ExecutedOnce)
  BY DEF LoopInv, ExecutedOnce
<1> QED
  BY <1>1, TriesAreBounded, PTL

(* The plugin and the server agree on whether a statement runs in a        *)
(* transaction, for an application that rolls back after a failed commit   *)
(* and begins no transaction in another.                                   *)
THEOREM TransactionsAgree ==
  {"rollback", "flat"} \subseteq Discipline => (Spec => []InTransaction)
<1> SUFFICES ASSUME {"rollback", "flat"} \subseteq Discipline PROVE Spec => []InTransaction
  OBVIOUS
<1>1. Init => TypeInv /\ TransactionInv
  BY InitType, InitTransaction
<1>2. TypeInv /\ TransactionInv /\ [Next]_vars => (TypeInv /\ TransactionInv)'
  BY TypeStep, TransactionStep
<1>3. ASSUME TypeInv, TransactionInv PROVE InTransaction
  <2>1. SUFFICES ASSUME Sends, Transactional
                 PROVE  stgy.in_transaction <=> open[call.conn] # "none"
    BY DEF InTransaction, Transactional
  <2>2. /\ call.conn \in Server /\ call.conn = stgy.last_used_conn
        /\ stgy.in_transaction => HasBegun
        /\ ~app.failed /\ ~EndsTransaction
    BY <1>3, <2>1, TransactionParts
       DEF Sends, SentHasBegun, TypeInv, ControlInv, EndsTransaction
  <2>3. open[call.conn] # "none" <=> HasBegun /\ ~EndsTransaction /\ ~app.failed
    BY <1>3, <2>1, <2>2, TransactionParts DEF OpenAgrees
  <2> QED
    BY <2>2, <2>3 DEF HasBegun
<1> QED
  BY <1>1, <1>2, <1>3, PTL DEF Spec

(* A statement goes to a server of its group and to one for all of its     *)
(* tables, in any chain in which no callback for user_multi stands before  *)
(* the filters that partition: it may use a single server at once.         *)
THEOREM StaysInPartition == Spec => [](PartitionedBefore(conf.filters) => PartitionKept)
<1>1. ASSUME TypeInv, PartitionInv PROVE PartitionedBefore(conf.filters) => PartitionKept
  <2>1. SUFFICES ASSUME PartitionedBefore(conf.filters), Sends, ~call.pinned,
                        "last_used" \notin call.stmt.hints, ~(conf.failover /\ call.conn = Proxy)
                 PROVE  /\ "groups" \in ToSet(stgy.filters)
                             /\ call.stmt.group \in DOMAIN conf.groups =>
                               call.conn \in conf.groups[call.stmt.group].masters
                                             \union conf.groups[call.stmt.group].slaves
                        /\ "table" \in ToSet(stgy.filters) => \A table \in call.stmt.tables :
                             call.conn \in Listed(conf.rules, "masters", table)
                                           \union Listed(conf.rules, "slaves", table)
    BY DEF PartitionKept
  <2>2. /\ "groups" \in ToSet(stgy.filters) => StaysInGroup(call.conn)
        /\ "table" \in ToSet(stgy.filters) => StaysInTables(call.conn)
    BY <1>1, <2>1, PartitionParts DEF Sends, SentInside
  <2>3. StaysInGroup(call.conn) /\ call.stmt.group \in DOMAIN conf.groups =>
          call.conn \in conf.groups[call.stmt.group].masters
                        \union conf.groups[call.stmt.group].slaves
    BY DEF StaysInGroup, InsideGroup
  <2>4. StaysInTables(call.conn) => \A table \in call.stmt.tables :
          call.conn \in Listed(conf.rules, "masters", table)
                        \union Listed(conf.rules, "slaves", table)
    BY DEF StaysInTables, InsideTables
  <2> QED
    BY <2>2, <2>3, <2>4
<1> QED
  BY <1>1, Invariants, PTL

(* Session consistency is `read your writes', for any filters and any      *)
(* number of slaves, if failures are reported, no callback of the user     *)
(* picks a server, failover does not skip the qos filter and no hint sends *)
(* a prepared write to a slave.                                            *)
THEOREM SessionsReadTheirWrites ==
  {"keep", "prepare", "prepared_write", "last_used"} \subseteq Discipline =>
    (Spec => [](Countable => ReadYourWrites))
<1> SUFFICES ASSUME {"keep", "prepare", "prepared_write", "last_used"} \subseteq Discipline
             PROVE  Spec => [](Countable => ReadYourWrites)
  OBVIOUS
<1>1. Init => TypeInv /\ SessionInv
  BY InitType, InitSession
<1>2. TypeInv /\ SessionInv /\ [Next]_vars => (TypeInv /\ SessionInv)'
  BY TypeStep, SessionStep
<1>3. TypeInv /\ SessionInv => (Countable => ReadYourWrites)
  <2>1. SUFFICES ASSUME SessionInv, Countable, Sends, HasSession, call.stmt.kind = "select",
                        "last_used" \notin call.stmt.hints, call.conn \in Slave
                 PROVE  applied[call.conn] >= app.mine
    BY DEF ReadYourWrites
  <2>2. SentUpToDate
    BY <2>1, ReadParts DEF SessionInv
  <2>3. Asking /\ pc = "send"
    BY <2>1 DEF Asking, Sends
  <2> QED
    BY <2>1, <2>2, <2>3 DEF SentUpToDate, UpToDate
<1> QED
  BY <1>1, <1>2, <1>3, PTL DEF Spec
=============================================================================

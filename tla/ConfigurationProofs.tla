------------------------ MODULE ConfigurationProofs ------------------------
(* Proofs about Configuration: that every position of the shared tree      *)
(* stays inside its array and is rewound, that a connect gets what it      *)
(* would get if it were the only one, and that what it gets is what its    *)
(* section lists.  The first part says what one step of a connect does to  *)
(* its job, reader by reader: which positions it moves (Reads, Goes), and  *)
(* how far it has got in its lists of servers and filters (Progress).  The *)
(* second is the invariant of the threads: connects that read the shared   *)
(* tree read it one at a time, and what they see is what their reference,  *)
(* with a tree of its own, sees.                                           *)
EXTENDS Configuration, FiniteSetTheorems, SequenceTheorems, TLAPS

IsSeq(s) == \E S : s \in Seq(S)

LEMMA SeqKnown ==
  ASSUME NEW S, NEW s \in Seq(S)
  PROVE  IsSeq(s) /\ Len(s) \in Nat
  BY DEF IsSeq

LEMMA SeqTogether ==
  ASSUME NEW s, NEW t, IsSeq(s), IsSeq(t)
  PROVE  /\ IsSeq(s \o t) /\ Len(s \o t) = Len(s) + Len(t) /\ Len(s) \in Nat /\ Len(t) \in Nat
         /\ \A i \in 1 .. Len(s) : (s \o t)[i] = s[i]
         /\ \A i \in 1 .. Len(t) : (s \o t)[Len(s) + i] = t[i]
<1>1. PICK S : s \in Seq(S)
  BY DEF IsSeq
<1>2. PICK T : t \in Seq(T)
  BY DEF IsSeq
<1>3. s \in Seq(S \cup T) /\ t \in Seq(S \cup T)
  BY <1>1, <1>2
<1>4. s \o t \in Seq(S \cup T)
  BY <1>3
<1>5. QED
  BY <1>3, <1>4 DEF IsSeq

LEMMA SeqAppend ==
  ASSUME NEW s, NEW e, IsSeq(s)
  PROVE  /\ IsSeq(Append(s, e)) /\ Len(Append(s, e)) = Len(s) + 1 /\ Len(s) \in Nat
         /\ Append(s, e)[Len(s) + 1] = e
         /\ \A i \in 1 .. Len(s) : Append(s, e)[i] = s[i]
<1>1. PICK S : s \in Seq(S)
  BY DEF IsSeq
<1>2. s \in Seq(S \cup {e}) 
  BY <1>1
<1>3. Append(s, e) \in Seq(S \cup {e})
  BY <1>2
<1>4. QED
  BY <1>2, <1>3 DEF IsSeq

LEMMA Seq1 ==
  ASSUME NEW a
  PROVE  IsSeq(<<a>>) /\ Len(<<a>>) = 1
<1> DEFINE S == {a}
<1>1. <<a>> \in Seq(S)
  OBVIOUS
<1> HIDE DEF S
<1>2. QED
  BY <1>1 DEF IsSeq

LEMMA Seq2 ==
  ASSUME NEW a, NEW b
  PROVE  IsSeq(<<a, b>>) /\ Len(<<a, b>>) = 2
<1> DEFINE S == {a, b}
<1>1. <<a, b>> \in Seq(S)
  OBVIOUS
<1> HIDE DEF S
<1>2. QED
  BY <1>1 DEF IsSeq

LEMMA Seq3 ==
  ASSUME NEW a, NEW b, NEW c
  PROVE  IsSeq(<<a, b, c>>) /\ Len(<<a, b, c>>) = 3
<1> DEFINE S == {a, b, c}
<1>1. <<a, b, c>> \in Seq(S)
  OBVIOUS
<1> HIDE DEF S
<1>2. QED
  BY <1>1 DEF IsSeq

LEMMA Seq4 ==
  ASSUME NEW a, NEW b, NEW c, NEW d
  PROVE  IsSeq(<<a, b, c, d>>) /\ Len(<<a, b, c, d>>) = 4
<1> DEFINE S == {a, b, c, d}
<1>1. <<a, b, c, d>> \in Seq(S)
  OBVIOUS
<1> HIDE DEF S
<1>2. QED
  BY <1>1 DEF IsSeq

LEMMA Seq5 ==
  ASSUME NEW a, NEW b, NEW c, NEW d, NEW e
  PROVE  IsSeq(<<a, b, c, d, e>>) /\ Len(<<a, b, c, d, e>>) = 5
<1> DEFINE S == {a, b, c, d, e}
<1>1. <<a, b, c, d, e>> \in Seq(S)
  OBVIOUS
<1> HIDE DEF S
<1>2. QED
  BY <1>1 DEF IsSeq

LEMMA Seq6 ==
  ASSUME NEW a, NEW b, NEW c, NEW d, NEW e, NEW f
  PROVE  IsSeq(<<a, b, c, d, e, f>>) /\ Len(<<a, b, c, d, e, f>>) = 6
<1> DEFINE S == {a, b, c, d, e, f}
<1>1. <<a, b, c, d, e, f>> \in Seq(S)
  OBVIOUS
<1> HIDE DEF S
<1>2. QED
  BY <1>1 DEF IsSeq

LEMMA Seq7 ==
  ASSUME NEW a, NEW b, NEW c, NEW d, NEW e, NEW f, NEW g
  PROVE  IsSeq(<<a, b, c, d, e, f, g>>) /\ Len(<<a, b, c, d, e, f, g>>) = 7
<1> DEFINE S == {a, b, c, d, e, f, g}
<1>1. <<a, b, c, d, e, f, g>> \in Seq(S)
  OBVIOUS
<1> HIDE DEF S
<1>2. QED
  BY <1>1 DEF IsSeq

LEMMA Seq8 ==
  ASSUME NEW a, NEW b, NEW c, NEW d, NEW e, NEW f, NEW g, NEW h
  PROVE  IsSeq(<<a, b, c, d, e, f, g, h>>) /\ Len(<<a, b, c, d, e, f, g, h>>) = 8
<1> DEFINE S == {a, b, c, d, e, f, g, h}
<1>1. <<a, b, c, d, e, f, g, h>> \in Seq(S)
  OBVIOUS
<1> HIDE DEF S
<1>2. QED
  BY <1>1 DEF IsSeq

JobFields ==
  {"env", "file", "tree", "cur", "section", "hosts", "fabric", "clean", "step", "opts", "server",
   "master", "slave", "filters", "made", "urls", "err", "bad", "stop"}

Steps == {"options", "fabric", "master", "slave", "filters", "strategy"}

\* The positions that say how many servers or filters have been taken.
IsList(p) == Len(p) = 2 /\ p[2] \in {"master", "slave", "filters"}

\* A job that has been given its tree.
Ready(j) ==
  /\ DOMAIN j = JobFields
  /\ j.step \in Steps
  /\ j.cur \in [DOMAIN j.cur -> Nat]
  /\ \A p \in DOMAIN j.cur : IsSection(j, p) /\ j.cur[p] <= Len(Keys(j, p))
  /\ \A p : IsSection(j, p) => IsSeq(Keys(j, p))
  /\ \E x : j.section = <<x>>
  /\ \E x : j.hosts = <<x>>

\* What every reading of the tree leaves alone.
Reads(j, k) ==
  /\ DOMAIN k = JobFields
  /\ k.tree = j.tree /\ k.env = j.env /\ k.file = j.file /\ k.section = j.section
  /\ k.hosts = j.hosts /\ k.fabric = j.fabric /\ k.clean = j.clean /\ k.step = j.step
  /\ k.master = j.master /\ k.slave = j.slave /\ k.filters = j.filters
  /\ k.cur \in [DOMAIN j.cur -> Nat]
  /\ \A p \in DOMAIN j.cur : k.cur[p] <= Len(Keys(j, p)) /\ (IsList(p) => k.cur[p] = j.cur[p])
  /\ j.bad => k.bad
  /\ k.stop = j.stop \/ (j.stop = "no" /\ k.stop = "fatal")

LEMMA ReadsItself ==
  ASSUME NEW j, Ready(j)
  PROVE  Reads(j, j)
  BY DEF Ready, Reads

LEMMA ReadyStill ==
  ASSUME NEW j, NEW k, Ready(j), Reads(j, k)
  PROVE  Ready(k)
  BY DEF Ready, Reads, IsSection, Keys, Exists, Node

LEMMA ReadsOn ==
  ASSUME NEW i, NEW j, NEW k, Ready(i), Reads(i, j), Reads(j, k)
  PROVE  Reads(i, k) /\ Ready(j) /\ Ready(k)
  BY DEF Ready, Reads, IsSection, Keys, Exists, Node

LEMMA SetsField ==
  ASSUME NEW j, Ready(j), NEW v
  PROVE  /\ Reads(j, [j EXCEPT !.opts = v]) /\ Reads(j, [j EXCEPT !.server = v])
         /\ Reads(j, [j EXCEPT !.made = v]) /\ Reads(j, [j EXCEPT !.urls = v])
         /\ Reads(j, [j EXCEPT !.err = v])
  BY DEF Ready, Reads, JobFields

LEMMA AdvanceReads ==
  ASSUME NEW j, Ready(j), NEW paths, \A p \in paths : ~IsList(p)
  PROVE  Reads(j, Advance(j, paths))
  BY DEF Ready, Reads, JobFields, Advance, AtEnd

LEMMA MovedReads ==
  ASSUME NEW j, Ready(j), NEW p, ~IsList(p), NEW n,
         p \in DOMAIN j.cur => n \in Nat /\ j.cur[p] + n <= Len(Keys(j, p))
  PROVE  Reads(j, Moved(j, p, n)) /\ \A q : q # p => Moved(j, p, n).cur[q] = j.cur[q]
<1> DEFINE k == Moved(j, p, n)
<1>1. k.cur = [j.cur EXCEPT ![p] = @ + n] /\ DOMAIN k = JobFields
  BY DEF Ready, JobFields, Moved
<1>2. \A f \in JobFields : f # "cur" => k[f] = j[f]
  BY DEF Ready, Moved
<1>0. j.cur \in [DOMAIN j.cur -> Nat]
  BY DEF Ready
<1>3. k.cur \in [DOMAIN j.cur -> Nat]
  <2>1. \A q \in DOMAIN j.cur : j.cur[q] \in Nat /\ (q = p => j.cur[q] + n \in Nat)
    BY <1>0
  <2>2. k.cur = [q \in DOMAIN j.cur |-> IF q = p THEN j.cur[q] + n ELSE j.cur[q]]
    BY <1>0, <1>1
  <2>3. QED
    BY <2>1, <2>2
<1>4. \A q \in DOMAIN j.cur : k.cur[q] <= Len(Keys(j, q)) /\ (IsList(q) => k.cur[q] = j.cur[q])
  BY <1>1 DEF Ready
<1>5. \A q : q # p => k.cur[q] = j.cur[q]
  BY <1>0, <1>1
<1> HIDE DEF k
<1>6. Reads(j, k)
  BY <1>1, <1>2, <1>3, <1>4 DEF Reads, JobFields
<1>7. QED
  BY <1>5, <1>6 DEF k

LEMMA ErrorReads ==
  ASSUME NEW j, Ready(j)
  PROVE  /\ j.stop = "no" => Reads(j, Fatal(j)) /\ Reads(j, Recoverable(j))
         /\ \A ok \in BOOLEAN : Reads(j, Require(j, ok))
  BY DEF Ready, Reads, JobFields, Fatal, Recoverable, Require

LEMMA TakesInto ==
  ASSUME NEW j, Ready(j), NEW k, DOMAIN k = JobFields, j.bad => k.bad,
         \A f \in JobFields : f \notin {"opts", "server", "bad"} => k[f] = j[f]
  PROVE  Reads(j, k)
  BY DEF Ready, Reads, JobFields

(* Options whose paths are not those of the lists.                         *)
Apart(base, options) == \A i \in 1 .. Len(options) : ~IsList(base \o options[i].path)

LEMMA ReadReads ==
  ASSUME NEW j, Ready(j), NEW base, NEW into \in {"opts", "server"}, NEW options, Apart(base, options)
  PROVE  Reads(j, Read(j, base, into, options))
<1> DEFINE v == [i \in DOMAIN options |-> Value(j, base \o options[i].path)]
           wrong == {i \in DOMAIN options : Invalid(options[i], v[i], into)}
           reached == Reached(j, wrong, Len(options))
           taken == {i \in reached \ wrong : Given(options[i], v[i])}
           new == [key \in {options[i].key : i \in taken} |->
                     LET i == CHOOSE i \in taken : options[i].key = key
                     IN Taken(options[i], v[i], j[into][key])]
           paths == {base \o options[i].path : i \in reached}
           a == Advance(j, paths)
           b == [a EXCEPT ![into] = new @@ @, !.bad = @ \/ (into = "server" /\ wrong # {})]
<1>1. Read(j, base, into, options) = IF j.stop # "no" THEN j ELSE Require(b, wrong = {})
  BY DEF Read
<1>2. Reads(j, a)
  <2>1. reached \subseteq 1 .. Len(options)
    BY DEF Reached
  <2>2. \A p \in paths : ~IsList(p)
    BY <2>1 DEF Apart
  <2> HIDE DEF paths
  <2>3. QED
    BY <2>2, AdvanceReads
<1> HIDE DEF a
<1>3. Ready(a)
  BY <1>2, ReadyStill
<1>4. Reads(a, b)
  <2>1. DOMAIN b = JobFields /\ (a.bad => b.bad)
    BY <1>3 DEF Ready, JobFields
  <2>2. \A f \in JobFields : f \notin {"opts", "server", "bad"} => b[f] = a[f]
    BY <1>3 DEF Ready
  <2> HIDE DEF b
  <2>3. QED
    BY <1>3, <2>1, <2>2, TakesInto
<1> HIDE DEF b
<1>5. Ready(b) /\ Reads(j, b)
  BY <1>2, <1>3, <1>4, ReadsOn
<1>6. Reads(b, Require(b, wrong = {}))
  BY <1>5, ErrorReads
<1>7. QED
  BY <1>1, <1>5, <1>6, ReadsItself, ReadsOn

(* The options of the code are not lists of servers or filters.            *)
SafePath(q) == IsSeq(q) /\ Len(q) > 0 /\ q[1] \notin {"master", "slave", "filters"}

SafeOptions(options) == IsSeq(options) /\ \A i \in 1 .. Len(options) : SafePath(options[i].path)

LEMMA SafeTogether ==
  ASSUME NEW s, NEW t, SafeOptions(s), SafeOptions(t)
  PROVE  SafeOptions(s \o t)
<1>1. /\ IsSeq(s \o t) /\ Len(s \o t) = Len(s) + Len(t) /\ Len(s) \in Nat /\ Len(t) \in Nat
      /\ \A i \in 1 .. Len(s) : (s \o t)[i] = s[i]
      /\ \A i \in 1 .. Len(t) : (s \o t)[Len(s) + i] = t[i]
  BY SeqTogether DEF SafeOptions
<1>2. ASSUME NEW i \in 1 .. Len(s) + Len(t)
      PROVE  SafePath((s \o t)[i].path)
  <2>1. CASE i <= Len(s)
    BY <1>1, <2>1 DEF SafeOptions
  <2>2. CASE i > Len(s)
    <3>1. i - Len(s) \in 1 .. Len(t) /\ i = Len(s) + (i - Len(s))
      BY <1>1, <2>2
    <3>2. (s \o t)[i] = t[i - Len(s)]
      BY <1>1, <3>1
    <3>3. QED
      BY <3>1, <3>2 DEF SafeOptions
  <2>3. QED
    BY <1>1, <2>1, <2>2
<1>3. QED
  BY <1>1, <1>2 DEF SafeOptions

LEMMA SafeBelowSection ==
  ASSUME NEW j, Ready(j), NEW options, SafeOptions(options)
  PROVE  Apart(j.section, options)
<1>2. PICK x : j.section = <<x>>
  BY DEF Ready
<1>3. ASSUME NEW i \in 1 .. Len(options)
      PROVE  ~IsList(j.section \o options[i].path)
  <2>1. SafePath(options[i].path)
    BY DEF SafeOptions
  <2>2. /\ Len(<<x>> \o options[i].path) = 1 + Len(options[i].path)
        /\ \A m \in 1 .. Len(options[i].path) : (<<x>> \o options[i].path)[1 + m] = options[i].path[m]
        /\ Len(options[i].path) \in Nat
    BY <2>1, Seq1, SeqTogether DEF SafePath
  <2>3. (<<x>> \o options[i].path)[2] = options[i].path[1]
    BY <2>1, <2>2 DEF SafePath
  <2>4. QED
    BY <1>2, <2>1, <2>2, <2>3 DEF SafePath, IsList
<1>4. QED
  BY <1>3 DEF Apart

LEMMA SafeBelowServer ==
  ASSUME NEW base, IsSeq(base), Len(base) > 1, NEW options, SafeOptions(options)
  PROVE  Apart(base, options)
<1>2. ASSUME NEW i \in 1 .. Len(options)
      PROVE  ~IsList(base \o options[i].path)
  <2>1. SafePath(options[i].path)
    BY DEF SafeOptions
  <2>2. Len(base \o options[i].path) = Len(base) + Len(options[i].path)
        /\ Len(base) \in Nat /\ Len(options[i].path) \in Nat
    BY <2>1, SeqTogether DEF SafePath
  <2>3. QED
    BY <2>1, <2>2 DEF SafePath, IsList
<1>3. QED
  BY <1>2 DEF Apart

LEMMA SafeTrx ==
  SafeOptions(TrxOptions)
<1>1. \A name : SafePath(Trx(name))
  BY Seq2 DEF Trx, SafePath
<1>2. SafeOptions(GtidQueries)
  <2>1. IsSeq(GtidQueries) /\ Len(GtidQueries) = 3
    BY Seq3 DEF GtidQueries
  <2>2. \A i \in 1 .. 3 : SafePath(GtidQueries[i].path)
    BY <1>1 DEF GtidQueries, TextOption, Option
  <2>3. QED
    BY <2>1, <2>2 DEF SafeOptions
<1>3. SafeOptions(RunningOptions)
  <2>1. IsSeq(RunningOptions) /\ Len(RunningOptions) = 5
    BY Seq5 DEF RunningOptions
  <2>2. \A i \in 1 .. 5 : SafePath(RunningOptions[i].path)
    BY <1>1 DEF RunningOptions, IntOption, BoolOption, Option
  <2>3. QED
    BY <2>1, <2>2 DEF SafeOptions
<1>4. SafeOptions(GtidTypeOptions)
  <2>1. IsSeq(GtidTypeOptions) /\ Len(GtidTypeOptions) = 3
    BY Seq3 DEF GtidTypeOptions
  <2>2. \A i \in 1 .. 3 : SafePath(GtidTypeOptions[i].path)
    BY <1>1 DEF GtidTypeOptions, IntOption, BoolOption, Option
  <2>3. QED
    BY <2>1, <2>2 DEF SafeOptions
<1>5. SafeOptions(MemcachedOptions)
  <2>1. IsSeq(MemcachedOptions) /\ Len(MemcachedOptions) = 6
    BY Seq6 DEF MemcachedOptions
  <2>2. \A i \in 1 .. 6 : SafePath(MemcachedOptions[i].path)
    BY <1>1 DEF MemcachedOptions, RawOption, TextOption, IntOption, Option
  <2>3. QED
    BY <2>1, <2>2 DEF SafeOptions
<1>6. SafeOptions(WaitOptions)
  <2>1. IsSeq(WaitOptions) /\ Len(WaitOptions) = 8
    BY Seq8 DEF WaitOptions
  <2>2. \A i \in 1 .. 8 : SafePath(WaitOptions[i].path)
    BY <1>1 DEF WaitOptions, IntOption, BoolOption, Option
  <2>3. QED
    BY <2>1, <2>2 DEF SafeOptions
<1>7. QED
  BY <1>2, <1>3, <1>4, <1>5, <1>6, SafeTogether DEF TrxOptions

LEMMA SafeOne ==
  ASSUME NEW o, SafePath(o.path)
  PROVE  SafeOptions(<<o>>)
  BY Seq1 DEF SafeOptions

LEMMA SafeStore ==
  /\ SafeOptions(StoreConnection) /\ SafeOptions(StoreTables) /\ SafeOptions(ParticipantOptions)
  /\ SafeOptions(<<RollbackOption>>) /\ SafeOptions(GcOptions)
<1>a. \A name : SafePath(InStore(name))
  BY Seq4 DEF SafePath, InStore
<1>b. \A name : SafePath(<<"xa", "state_store", name>>)
  BY Seq3 DEF SafePath
<1>c. \A name : SafePath(<<"xa", "garbage_collection", name>>)
  BY Seq3 DEF SafePath
<1>d. SafePath(<<"xa", "rollback_on_close">>)
  BY Seq2 DEF SafePath
<1>2. SafeOptions(StoreConnection)
  <2>1. IsSeq(StoreConnection) /\ Len(StoreConnection) = 7
    BY Seq7 DEF StoreConnection
  <2>2. \A i \in 1 .. 7 : SafePath(StoreConnection[i].path)
    BY <1>a DEF StoreConnection, IntOption, RawOption, Single, Option
  <2>3. QED
    BY <2>1, <2>2 DEF SafeOptions
<1>3. SafeOptions(StoreTables)
  <2>1. IsSeq(StoreTables) /\ Len(StoreTables) = 3
    BY Seq3 DEF StoreTables
  <2>2. \A i \in 1 .. 3 : SafePath(StoreTables[i].path)
    BY <1>a DEF StoreTables, TableOption, Option
  <2>3. QED
    BY <2>1, <2>2 DEF SafeOptions
<1>4. SafeOptions(ParticipantOptions)
  <2>1. IsSeq(ParticipantOptions) /\ Len(ParticipantOptions) = 2
    BY Seq2 DEF ParticipantOptions
  <2>2. \A i \in 1 .. 2 : SafePath(ParticipantOptions[i].path)
    BY <1>b DEF ParticipantOptions, RawOption, BoolOption, Single, Option
  <2>3. QED
    BY <2>1, <2>2 DEF SafeOptions
<1>5. SafeOptions(<<RollbackOption>>)
  BY <1>d, SafeOne DEF RollbackOption, BoolOption, Option, Single
<1>6. SafeOptions(GcOptions)
  <2>1. IsSeq(GcOptions) /\ Len(GcOptions) = 3
    BY Seq3 DEF GcOptions
  <2>2. \A i \in 1 .. 3 : SafePath(GcOptions[i].path)
    BY <1>c DEF GcOptions, IntOption, Single, Option
  <2>3. QED
    BY <2>1, <2>2 DEF SafeOptions
<1>7. QED
  BY <1>2, <1>3, <1>4, <1>5, <1>6

LEMMA SafeOthers ==
  /\ SafeOptions(<<LazyOption>>) /\ SafeOptions(<<CharsetOption>>)
  /\ SafeOptions(<<FailoverStrategy>> \o FailoverOptions)
  /\ SafeOptions(<<[FailoverStrategy EXCEPT !.path = <<"failover">>]>> \o FailoverOptions)
  /\ SafeOptions(WriteOptions) /\ SafeOptions(TransientOptions)
  /\ SafeOptions(FabricOptions) /\ SafeOptions(ServerOptions)
<1>1. /\ \A a : a \notin {"master", "slave", "filters"} => SafePath(<<a>>)
      /\ \A a, b : a \notin {"master", "slave", "filters"} => SafePath(<<a, b>>)
  BY Seq1, Seq2 DEF SafePath
<1>2. SafeOptions(<<LazyOption>>) /\ SafeOptions(<<CharsetOption>>)
  BY <1>1, SafeOne DEF LazyOption, CharsetOption, BoolOption, Option
<1>3. SafeOptions(FailoverOptions)
  <2>1. IsSeq(FailoverOptions) /\ Len(FailoverOptions) = 2
    BY Seq2 DEF FailoverOptions
  <2>2. \A i \in 1 .. 2 : SafePath(FailoverOptions[i].path)
    BY <1>1 DEF FailoverOptions, IntOption, BoolOption, Option
  <2>3. QED
    BY <2>1, <2>2 DEF SafeOptions
<1>4. /\ SafeOptions(<<FailoverStrategy>>)
      /\ SafeOptions(<<[FailoverStrategy EXCEPT !.path = <<"failover">>]>>)
  BY <1>1, SafeOne DEF FailoverStrategy, EnumOption, Option
<1>5. SafeOptions(WriteOptions)
  <2>1. IsSeq(WriteOptions) /\ Len(WriteOptions) = 2
    BY Seq2 DEF WriteOptions
  <2>2. \A i \in 1 .. 2 : SafePath(WriteOptions[i].path)
    BY <1>1 DEF WriteOptions, BoolOption, EnumOption, Option
  <2>3. QED
    BY <2>1, <2>2 DEF SafeOptions
<1>6. SafeOptions(TransientOptions)
  <2>1. IsSeq(TransientOptions) /\ Len(TransientOptions) = 2
    BY Seq2 DEF TransientOptions
  <2>2. \A i \in 1 .. 2 : SafePath(TransientOptions[i].path)
    BY <1>1 DEF TransientOptions, IntOption, Option
  <2>3. QED
    BY <2>1, <2>2 DEF SafeOptions
<1>7. SafeOptions(FabricOptions)
  <2>1. IsSeq(FabricOptions) /\ Len(FabricOptions) = 3
    BY Seq3 DEF FabricOptions
  <2>2. \A i \in 1 .. 3 : SafePath(FabricOptions[i].path)
    BY <1>1 DEF FabricOptions, IntOption, BoolOption, EnumOption, Option
  <2>3. QED
    BY <2>1, <2>2 DEF SafeOptions
<1>8. SafeOptions(ServerOptions)
  <2>1. IsSeq(ServerOptions) /\ Len(ServerOptions) = 7
    BY Seq7 DEF ServerOptions
  <2>2. \A i \in 1 .. 7 : SafePath(ServerOptions[i].path)
    BY <1>1 DEF ServerOptions, IntOption, RawOption, Single, Option
  <2>3. QED
    BY <2>1, <2>2 DEF SafeOptions
<1>9. QED
  BY <1>2, <1>3, <1>4, <1>5, <1>6, <1>7, <1>8, SafeTogether

(* What is left of an array.                                               *)
LEMMA RemainingLeft ==
  ASSUME NEW j, Ready(j), NEW p, p \in DOMAIN j.cur
  PROVE  /\ IsSeq(Remaining(j, p)) /\ Len(Remaining(j, p)) \in Nat
         /\ DOMAIN Remaining(j, p) = 1 .. Len(Remaining(j, p))
         /\ j.cur[p] + Len(Remaining(j, p)) = Len(Keys(j, p))
<1>1. IsSection(j, p) /\ j.cur[p] \in Nat /\ j.cur[p] <= Len(Keys(j, p)) /\ IsSeq(Keys(j, p))
  BY DEF Ready
<1>2. PICK S : Keys(j, p) \in Seq(S)
  BY <1>1 DEF IsSeq
<1>3. /\ SubSeq(Keys(j, p), j.cur[p] + 1, Len(Keys(j, p))) \in Seq(S)
      /\ Len(SubSeq(Keys(j, p), j.cur[p] + 1, Len(Keys(j, p)))) = Len(Keys(j, p)) - j.cur[p]
  <2> DEFINE keys == Keys(j, p)
             n == j.cur[p]
  <2>1. keys \in Seq(S) /\ n \in Nat /\ n <= Len(keys) /\ Len(keys) \in Nat
    BY <1>1, <1>2
  <2> HIDE DEF keys, n
  <2>2. SubSeq(keys, n + 1, Len(keys)) \in Seq(S) /\ Len(SubSeq(keys, n + 1, Len(keys))) = Len(keys) - n
    BY <2>1
  <2>3. QED
    BY <2>2 DEF keys, n
<1>4. Remaining(j, p) \in Seq(S) /\ Len(Remaining(j, p)) = Len(Keys(j, p)) - j.cur[p]
  BY <1>1, <1>3 DEF Remaining
<1> DEFINE r == Remaining(j, p)
<1> HIDE DEF r
<1>5. r \in Seq(S) => Len(r) \in Nat /\ DOMAIN r = 1 .. Len(r) /\ IsSeq(r)
  BY DEF IsSeq
<1>6. QED
  BY <1>1, <1>2, <1>4, <1>5 DEF r

LEMMA NotAll ==
  ASSUME NEW n \in Nat, NEW read \in SUBSET (1 .. n)
  PROVE  Cardinality(read) \in Nat /\ Cardinality(read) <= n
<1>1. IsFiniteSet(1 .. n) /\ Cardinality(1 .. n) = n
  BY FS_Interval
<1>2. QED
  BY <1>1, FS_Subset, FS_CardinalityType

(* Fewer than what is left can be passed.                                  *)
LEMMA PassesSome ==
  ASSUME NEW j, Ready(j), NEW p, ~IsList(p), NEW read, read \subseteq DOMAIN Remaining(j, p)
  PROVE  /\ Reads(j, Moved(j, p, Cardinality(read)))
         /\ \A q : q # p => Moved(j, p, Cardinality(read)).cur[q] = j.cur[q]
<1>1. ASSUME p \in DOMAIN j.cur
      PROVE  Cardinality(read) \in Nat /\ j.cur[p] + Cardinality(read) <= Len(Keys(j, p))
  <2>1. /\ Len(Remaining(j, p)) \in Nat /\ DOMAIN Remaining(j, p) = 1 .. Len(Remaining(j, p))
        /\ j.cur[p] + Len(Remaining(j, p)) = Len(Keys(j, p))
    BY <1>1, RemainingLeft
  <2>2. Cardinality(read) \in Nat /\ Cardinality(read) <= Len(Remaining(j, p))
    BY <2>1, NotAll
  <2>3. j.cur[p] \in Nat
    BY <1>1 DEF Ready
  <2>4. QED
    BY <2>1, <2>2, <2>3
<1> DEFINE n == Cardinality(read)
<1> HIDE DEF n
<1>2. p \in DOMAIN j.cur => n \in Nat /\ j.cur[p] + n <= Len(Keys(j, p))
  BY <1>1 DEF n
<1>3. QED
  BY <1>2, MovedReads DEF n

(* The path of a filter and what is below it.                              *)
Deep(p) == IsSeq(p) /\ Len(p) \in Nat /\ Len(p) > 2

LEMMA DeepBelow ==
  ASSUME NEW p, Deep(p)
  PROVE  ~IsList(p) /\ \A x : Deep(Append(p, x)) /\ Len(Append(p, x)) = Len(p) + 1
<1>1. ~IsList(p)
  <2>1. \A n \in Nat : n > 2 => n # 2
    OBVIOUS
  <2>2. Len(p) # 2
    BY <2>1 DEF Deep
  <2>3. QED
    BY <2>2 DEF IsList
<1>2. ASSUME NEW x
      PROVE  Deep(Append(p, x)) /\ Len(Append(p, x)) = Len(p) + 1
  <2>1. IsSeq(Append(p, x)) /\ Len(Append(p, x)) = Len(p) + 1
    BY SeqAppend DEF Deep
  <2>2. QED
    BY <2>1 DEF Deep
<1>3. QED
  BY <1>1, <1>2

LEMMA DeepAdvance ==
  ASSUME NEW j, Ready(j), NEW p, Deep(p), NEW S
  PROVE  /\ Reads(j, Advance(j, {Append(p, x) : x \in S}))
         /\ \A x : Reads(j, Advance(j, {Append(p, x)}))
<1>1. \A x : ~IsList(Append(p, x))
  BY DeepBelow
<1>2. Reads(j, Advance(j, {Append(p, x) : x \in S}))
  <2> DEFINE paths == {Append(p, x) : x \in S}
  <2>1. \A q \in paths : ~IsList(q)
    BY <1>1
  <2> HIDE DEF paths
  <2>2. Reads(j, Advance(j, paths))
    BY <2>1, AdvanceReads
  <2>3. QED
    BY <2>2 DEF paths
<1>3. ASSUME NEW x
      PROVE  Reads(j, Advance(j, {Append(p, x)}))
  <2> DEFINE paths == {Append(p, x)}
  <2>1. \A q \in paths : ~IsList(q)
    BY <1>1
  <2> HIDE DEF paths
  <2>2. Reads(j, Advance(j, paths))
    BY <2>1, AdvanceReads
  <2>3. QED
    BY <2>2 DEF paths
<1>4. QED
  BY <1>2, <1>3

LEMMA AdvanceKeeps ==
  ASSUME NEW j, Ready(j), NEW paths, NEW p, p \notin paths, p \in DOMAIN j.cur
  PROVE  Advance(j, paths).cur[p] = j.cur[p]
  BY DEF Ready, Advance, JobFields

LEMMA EveryError ==
  ASSUME NEW j, Ready(j), NEW ok
  PROVE  Reads(j, Require(j, ok))
  BY DEF Ready, Reads, JobFields, Fatal, Recoverable, Require

LEMMA RequireKeeps ==
  ASSUME NEW j, Ready(j), NEW ok
  PROVE  Require(j, ok).cur = j.cur
  BY DEF Ready, JobFields, Fatal, Recoverable, Require

LEMMA MadeReads ==
  ASSUME NEW j, Ready(j), NEW v
  PROVE  Reads(j, [j EXCEPT !.made = v]) /\ [j EXCEPT !.made = v].cur = j.cur
  BY DEF Ready, Reads, JobFields

(* The same keys are left while the position stays.                        *)
LEMMA SameLeft ==
  ASSUME NEW j, NEW k, NEW p, k.tree = j.tree, k.cur[p] = j.cur[p]
  PROVE  Remaining(k, p) = Remaining(j, p)
  BY DEF Remaining, IsSection, Exists, Node, Keys

LEMMA ReachedSome ==
  ASSUME NEW j, NEW wrong, NEW n
  PROVE  Reached(j, wrong, n) \subseteq 1 .. n
  BY DEF Reached

LEMMA WeightsReads ==
  ASSUME NEW j, Ready(j), NEW p, Deep(p)
  PROVE  /\ Reads(j, Weights(j, p))
         /\ \A q \in DOMAIN j.cur : Len(q) \in Nat /\ Len(q) < Len(p) => Weights(j, p).cur[q] = j.cur[q]
<1> DEFINE unread == Remaining(j, p)
           v == [i \in DOMAIN unread |-> Value(j, Append(p, unread[i]))]
           wrong == {i \in DOMAIN unread :
                       unread[i] \notin ServerNames(j) \/ (v[i].exists /\ v[i].num \notin 0 .. 65535)}
           reached == Reached(j, wrong, Len(unread))
           known == {i \in reached : unread[i] \in ServerNames(j)}
           weighed == {i \in reached \ wrong : v[i].exists}
           made == [name \in {unread[i] : i \in weighed} |->
                      v[CHOOSE i \in weighed : unread[i] = name].num]
           paths == {Append(p, unread[i]) : i \in known}
           k == Require([j EXCEPT !.made = <<>>], NamesDiffer(j))
           a == Advance(k, paths)
           m == Moved(a, p, Cardinality(reached))
           n == [m EXCEPT !.made = made]
           fine == wrong = {}
           r == Require(n, fine)
<1>1. Weights(j, p) = IF k.stop # "no" THEN k ELSE AllOrNoneWeighed(r)
  BY DEF Weights
<1>2. Reads(j, k) /\ Ready(k) /\ k.cur = j.cur
  <2> DEFINE i == [j EXCEPT !.made = <<>>]
  <2>1. Reads(j, i) /\ i.cur = j.cur
    BY MadeReads
  <2> HIDE DEF i
  <2>2. Ready(i)
    BY <2>1, ReadyStill
  <2>3. Reads(i, Require(i, NamesDiffer(j))) /\ Require(i, NamesDiffer(j)).cur = j.cur
    BY <2>1, <2>2, EveryError, RequireKeeps
  <2>4. QED
    BY <2>1, <2>3, ReadsOn DEF i
<1> HIDE DEF k
<1>3. \A q \in paths : ~IsList(q) /\ Len(q) = Len(p) + 1
  <2>1. \A x : ~IsList(Append(p, x)) /\ Len(Append(p, x)) = Len(p) + 1
    BY DeepBelow
  <2> HIDE DEF known, unread
  <2>2. QED
    BY <2>1
<1>0. reached \subseteq 1 .. Len(unread)
  <2> HIDE DEF unread, wrong
  <2>1. QED
    BY ReachedSome
<1> HIDE DEF paths, made, fine, reached, wrong
<1>4. Reads(k, a) /\ Ready(a) /\ Reads(j, a)
  BY <1>2, <1>3, AdvanceReads, ReadsOn
<1>5. \A q \in DOMAIN j.cur : Len(q) \in Nat /\ Len(q) <= Len(p) => a.cur[q] = j.cur[q]
  <2> SUFFICES ASSUME NEW q \in DOMAIN j.cur, Len(q) \in Nat, Len(q) <= Len(p)
               PROVE  a.cur[q] = j.cur[q]
    OBVIOUS
  <2>1. q \notin paths
    BY <1>3 DEF Deep
  <2>2. QED
    BY <1>2, <2>1, AdvanceKeeps
<1>6. DOMAIN a.cur = DOMAIN j.cur /\ a.tree = j.tree
  BY <1>4 DEF Reads
<1> HIDE DEF a
<1>7. /\ Reads(a, m)
      /\ \A q : q # p => m.cur[q] = a.cur[q]
  <2>1. p \in DOMAIN j.cur => Remaining(a, p) = Remaining(j, p)
    BY <1>5, <1>6, SameLeft DEF Deep
  <2>2. p \notin DOMAIN a.cur \/ reached \subseteq DOMAIN Remaining(a, p)
    <3>1. ASSUME p \in DOMAIN j.cur
          PROVE  DOMAIN unread = 1 .. Len(unread)
      BY <3>1, RemainingLeft
    <3>2. QED
      BY <1>0, <1>6, <2>1, <3>1
  <2>3. ~IsList(p)
    BY DeepBelow
  <2>4. CASE p \in DOMAIN a.cur
    BY <1>4, <2>2, <2>3, <2>4, PassesSome
  <2>5. CASE p \notin DOMAIN a.cur
    BY <1>4, <2>3, <2>5, MovedReads
  <2>6. QED
    BY <2>4, <2>5
<1> HIDE DEF m
<1>8. Reads(j, m) /\ Ready(m)
  BY <1>4, <1>7, ReadsOn
<1>9. Reads(j, n) /\ Ready(n) /\ n.cur = m.cur
  BY <1>8, MadeReads, ReadsOn
<1> HIDE DEF n
<1>10. Reads(j, r) /\ Ready(r) /\ r.cur = n.cur
  BY <1>9, EveryError, RequireKeeps, ReadsOn
<1> HIDE DEF r
<1>11. Reads(j, AllOrNoneWeighed(r)) /\ AllOrNoneWeighed(r).cur = m.cur
  <2>1. Reads(r, AllOrNoneWeighed(r)) /\ AllOrNoneWeighed(r).cur = r.cur
    BY <1>10, EveryError, RequireKeeps DEF AllOrNoneWeighed
  <2>2. QED
    BY <1>9, <1>10, <2>1, ReadsOn
<1>12. \A q \in DOMAIN j.cur : Len(q) \in Nat /\ Len(q) < Len(p) => m.cur[q] = j.cur[q]
  BY <1>5, <1>7 DEF Deep
<1>13. QED
  BY <1>1, <1>2, <1>11, <1>12

LEMMA RoundRobinReads ==
  ASSUME NEW j, Ready(j), NEW p, Deep(p)
  PROVE  Reads(j, RoundRobinFilter(j, p))
<1> DEFINE unread == Remaining(j, p)
           at == {i \in DOMAIN unread : unread[i] = "weights"}
           passed == IF at = {} THEN Len(unread) ELSE CHOOSE i \in at : TRUE
           m == Moved(j, p, passed)
           k == [m EXCEPT !.made = <<>>]
           w == Weights(k, Append(p, "weights"))
           weighed == IF at = {} THEN k ELSE w
<1>1. RoundRobinFilter(j, p) = IF IsObjectList(j, p) THEN [weighed EXCEPT !.made = [weights |-> weighed.made]]
                               ELSE [j EXCEPT !.made = [weights |-> <<>>]]
  BY DEF RoundRobinFilter
<1>2. p \in DOMAIN j.cur => passed \in Nat /\ j.cur[p] + passed <= Len(Keys(j, p))
  <2> SUFFICES ASSUME p \in DOMAIN j.cur
               PROVE  passed \in Nat /\ j.cur[p] + passed <= Len(Keys(j, p))
    OBVIOUS
  <2>1. /\ Len(unread) \in Nat /\ DOMAIN unread = 1 .. Len(unread)
        /\ j.cur[p] + Len(unread) = Len(Keys(j, p))
    BY RemainingLeft
  <2>2. passed \in 0 .. Len(unread)
    <3> HIDE DEF unread
    <3>1. at = {} \/ (CHOOSE i \in at : TRUE) \in 1 .. Len(unread)
      BY <2>1
    <3>2. QED
      BY <2>1, <3>1
  <2>3. j.cur[p] \in Nat
    BY DEF Ready
  <2> HIDE DEF unread, passed
  <2>4. QED
    BY <2>1, <2>2, <2>3
<1> HIDE DEF passed
<1>3. Reads(j, m)
  BY <1>2, DeepBelow, MovedReads
<1> HIDE DEF m
<1>4. Reads(j, k) /\ Ready(k)
  BY <1>3, MadeReads, ReadyStill, ReadsOn
<1> HIDE DEF k
<1>5. Reads(k, w)
  BY <1>4, DeepBelow, WeightsReads
<1>6. Reads(j, weighed) /\ Ready(weighed)
  BY <1>4, <1>5, ReadsOn
<1> HIDE DEF weighed
<1>7. Reads(j, [weighed EXCEPT !.made = [weights |-> weighed.made]])
  BY <1>6, MadeReads, ReadsOn
<1>8. QED
  BY <1>1, <1>7, MadeReads

LEMMA RandomSettingsReads ==
  ASSUME NEW j, Ready(j), NEW p, Deep(p)
  PROVE  Reads(j, RandomSettings(j, p))
<1> DEFINE keys == Remaining(j, p)
           named == {i \in DOMAIN keys : \A m \in 1 .. i - 1 : keys[m] \notin ToSet(Index)}
           given(key) == {i \in named : keys[i] = key}
           k == IF given("weights") = {} THEN [j EXCEPT !.made = <<>>]
                ELSE Weights(j, Append(p, "weights"))
           passed == {i \in named : k.stop = "no" \/ \A m \in given("weights") : i <= m}
           sticky == Append(p, "sticky")
           early == given("sticky") \cap passed # {}
           once == IF early THEN Advance(k, {sticky}) ELSE k
           first == early /\ Sticky(Value(k, sticky), FALSE)
           twice == IF k.stop # "no" THEN once ELSE Advance(once, {sticky})
           m == Moved(twice, p, Cardinality(passed))
           made == [weights |-> m.made, sticky |-> Sticky(Value(once, sticky), first)]
<1>1. RandomSettings(j, p) = [m EXCEPT !.made = made]
  BY DEF RandomSettings
<1>0. Deep(sticky) /\ Deep(Append(p, "weights")) /\ ~IsList(sticky) /\ ~IsList(p) /\ sticky # p
      /\ Len(Append(p, "weights")) = Len(p) + 1 /\ Len(p) \in Nat
  <2>1. Deep(sticky) /\ Deep(Append(p, "weights")) /\ Len(sticky) = Len(p) + 1 /\ Len(p) \in Nat
        /\ Len(Append(p, "weights")) = Len(p) + 1
    BY DeepBelow DEF Deep
  <2>2. sticky # p
    BY <2>1
  <2>3. QED
    BY <2>1, <2>2, DeepBelow
<1>2. Reads(j, k) /\ Ready(k) /\ (p \in DOMAIN j.cur => k.cur[p] = j.cur[p])
  <2>1. Reads(j, [j EXCEPT !.made = <<>>]) /\ [j EXCEPT !.made = <<>>].cur = j.cur
    BY MadeReads
  <2>2. Reads(j, Weights(j, Append(p, "weights")))
    BY <1>0, WeightsReads
  <2>3. p \in DOMAIN j.cur => Weights(j, Append(p, "weights")).cur[p] = j.cur[p]
    <3> DEFINE w == Append(p, "weights")
    <3>1. Deep(w) /\ Len(p) \in Nat /\ Len(p) < Len(w)
      BY <1>0
    <3> HIDE DEF w
    <3>2. p \in DOMAIN j.cur => Weights(j, w).cur[p] = j.cur[p]
      BY <3>1, WeightsReads
    <3>3. QED
      BY <3>2 DEF w
  <2>4. QED
    BY <2>1, <2>2, <2>3, ReadyStill
<1>3. passed \subseteq DOMAIN keys
  OBVIOUS
<1> HIDE DEF k, passed, sticky, first
<1>12. once = k \/ once = Advance(k, {sticky})
  OBVIOUS
<1> HIDE DEF early
<1>4. Reads(k, Advance(k, {sticky})) /\ (p \in DOMAIN k.cur => Advance(k, {sticky}).cur[p] = k.cur[p])
  BY <1>0, <1>2, AdvanceReads, AdvanceKeeps
<1> HIDE DEF once
<1>5. Reads(j, once) /\ Ready(once) /\ (p \in DOMAIN j.cur => once.cur[p] = j.cur[p])
  <2>1. DOMAIN k.cur = DOMAIN j.cur
    BY <1>2 DEF Reads
  <2>2. QED
    BY <1>2, <1>4, <1>12, <2>1, ReadsOn
<1>6. /\ Reads(once, Advance(once, {sticky}))
      /\ p \in DOMAIN once.cur => Advance(once, {sticky}).cur[p] = once.cur[p]
  BY <1>0, <1>5, AdvanceReads, AdvanceKeeps
<1>7. Reads(j, twice) /\ Ready(twice) /\ (p \in DOMAIN j.cur => twice.cur[p] = j.cur[p])
  <2>1. DOMAIN once.cur = DOMAIN j.cur
    BY <1>5 DEF Reads
  <2>2. QED
    BY <1>5, <1>6, <2>1, ReadsOn
<1> HIDE DEF twice
<1>8. DOMAIN twice.cur = DOMAIN j.cur /\ twice.tree = j.tree
  BY <1>7 DEF Reads
<1>9. Reads(twice, m)
  <2>1. CASE p \in DOMAIN j.cur
    <3>1. Remaining(twice, p) = keys
      BY <1>7, <1>8, <2>1, SameLeft
    <3>2. passed \subseteq DOMAIN Remaining(twice, p)
      BY <1>3, <3>1
    <3>3. QED
      BY <1>0, <1>7, <3>2, PassesSome
  <2>2. CASE p \notin DOMAIN j.cur
    BY <1>0, <1>7, <1>8, <2>2, MovedReads
  <2>3. QED
    BY <2>1, <2>2
<1> HIDE DEF made, m
<1>10. Reads(j, m) /\ Ready(m)
  BY <1>7, <1>9, ReadsOn
<1>11. QED
  BY <1>1, <1>10, MadeReads, ReadsOn

LEMMA RandomReads ==
  ASSUME NEW j, Ready(j), NEW p, Deep(p) \/ p = Null
  PROVE  Reads(j, RandomFilter(j, p))
<1>1. p # Null => Reads(j, RandomSettings(j, p))
  BY RandomSettingsReads
<1>2. QED
  BY <1>1, MadeReads DEF RandomFilter

LEMMA UserReads ==
  ASSUME NEW j, Ready(j), NEW p, Deep(p), j.stop = "no"
  PROVE  Reads(j, UserFilter(j, p))
<1> DEFINE v == Value(j, Append(p, "callback"))
           k == Advance(j, {Append(p, "callback")})
           w == [k EXCEPT !.made = [callback |-> v.str]]
<1>1. UserFilter(j, p) = IF v.exists THEN w ELSE Fatal(k)
  BY DEF UserFilter
<1>2. Reads(j, k) /\ Ready(k) /\ k.stop = "no"
  <2>1. Reads(j, k)
    BY DeepAdvance
  <2>2. k.stop = j.stop
    BY DEF Advance, Ready, JobFields
  <2> HIDE DEF k
  <2>3. QED
    BY <2>1, <2>2, ReadyStill
<1> HIDE DEF k, v
<1>3. Reads(j, w)
  BY <1>2, MadeReads, ReadsOn
<1>4. Reads(j, Fatal(k))
  BY <1>2, ErrorReads, ReadsOn
<1>5. QED
  BY <1>1, <1>3, <1>4

LEMMA QosReads ==
  ASSUME NEW j, Ready(j), NEW p, Deep(p), j.stop = "no"
  PROVE  Reads(j, QosFilter(j, p))
<1> DEFINE level == {l \in Levels : Value(j, Append(p, l)).exists}
           eventual == Append(p, "eventual_consistency")
           option == {o \in {"age", "cache"} :
                        /\ level = {"eventual_consistency"}
                        /\ Readable(j, Append(eventual, o))}
           k == Advance(j, {Append(p, l) : l \in Levels})
           made == [consistency |-> level,
                    option |-> [o \in option |-> Node(j, Append(eventual, o)).num]]
<1>1. QosFilter(j, p) = IF Cardinality(level) # 1 \/ Cardinality(option) = 2 THEN Fatal(k)
                        ELSE [k EXCEPT !.made = made]
  BY DEF QosFilter
<1>2. Reads(j, k) /\ Ready(k) /\ k.stop = "no"
  <2>1. Reads(j, k)
    BY DeepAdvance
  <2>2. k.stop = j.stop
    BY DEF Advance, Ready, JobFields
  <2> HIDE DEF k
  <2>3. QED
    BY <2>1, <2>2, ReadyStill
<1> HIDE DEF k, made, option, level
<1>3. Reads(j, [k EXCEPT !.made = made])
  BY <1>2, MadeReads, ReadsOn
<1>4. Reads(j, Fatal(k))
  BY <1>2, ErrorReads, ReadsOn
<1>5. QED
  BY <1>1, <1>3, <1>4

LEMMA GroupsReads ==
  ASSUME NEW j, Ready(j), NEW p, Deep(p)
  PROVE  Reads(j, GroupsFilter(j, p))
<1> DEFINE new == [j EXCEPT !.made = <<>>]
           k == Require(new, NamesDiffer(j))
           unread == Remaining(j, p)
           group == [i \in DOMAIN unread |-> Group(j, Append(p, unread[i]))]
           wrong == {i \in DOMAIN unread :
                       ~(group[i].valid /\ (group[i].masters # {} \/ j.master = <<>>))}
           reached == Reached(j, wrong, Len(unread))
           named(name) == group[CHOOSE i \in reached : unread[i] = name]
           made == [name \in {unread[i] : i \in reached} |->
                      [masters |-> named(name).masters, slaves |-> named(name).slaves]]
           m == Moved(k, p, Cardinality(reached))
           n == [m EXCEPT !.made = made]
           fine == wrong = {}
           r == Require(n, fine)
<1>1. GroupsFilter(j, p) = IF ~IsObjectList(j, p) THEN new ELSE IF k.stop # "no" THEN k ELSE r
  BY DEF GroupsFilter
<1>2. Reads(j, new) /\ Ready(new) /\ new.cur = j.cur
  BY MadeReads, ReadyStill
<1> HIDE DEF new
<1>3. Reads(j, k) /\ Ready(k) /\ k.cur = j.cur
  BY <1>2, EveryError, RequireKeeps, ReadsOn
<1> HIDE DEF k
<1>4. reached \subseteq 1 .. Len(unread)
  <2> HIDE DEF unread, wrong
  <2>1. QED
    BY ReachedSome
<1> HIDE DEF reached, made, fine, wrong
<1>5. Reads(k, m)
  <2>1. ~IsList(p)
    BY DeepBelow
  <2>2. CASE p \in DOMAIN j.cur
    <3>1. Remaining(k, p) = unread
      BY <1>3, <2>2, SameLeft DEF Reads
    <3>2. DOMAIN unread = 1 .. Len(unread)
      BY <2>2, RemainingLeft
    <3>3. QED
      BY <1>3, <1>4, <2>1, <3>1, <3>2, PassesSome
  <2>3. CASE p \notin DOMAIN j.cur
    BY <1>3, <2>1, <2>3, MovedReads
  <2>4. QED
    BY <2>2, <2>3
<1> HIDE DEF m
<1>6. Reads(j, m) /\ Ready(m)
  BY <1>3, <1>5, ReadsOn
<1>7. Reads(j, n) /\ Ready(n)
  BY <1>6, MadeReads, ReadsOn
<1> HIDE DEF n
<1>8. Reads(j, r)
  BY <1>7, EveryError, ReadsOn
<1>9. QED
  BY <1>1, <1>2, <1>3, <1>8

LEMMA StringsFew ==
  ASSUME NEW j, NEW p, NEW keys, NEW n \in Nat, DOMAIN keys = 1 .. n
  PROVE  Len(Strings(j, p, keys)) \in Nat /\ Len(Strings(j, p, keys)) <= n
<1> DEFINE read == {i \in DOMAIN keys : \A m \in 1 .. i : Readable(j, Append(p, keys[m]))}
<1>1. Strings(j, p, keys) = [i \in 1 .. Cardinality(read) |-> Node(j, Append(p, keys[i])).str]
  BY DEF Strings
<1>2. Cardinality(read) \in Nat /\ Cardinality(read) <= n
  <2>1. read \subseteq 1 .. n
    OBVIOUS
  <2> HIDE DEF read
  <2>2. QED
    BY <2>1, NotAll
<1> HIDE DEF read
<1>3. Len(Strings(j, p, keys)) = Cardinality(read)
  BY <1>1, <1>2
<1>4. QED
  BY <1>2, <1>3

LEMMA TableReads ==
  ASSUME NEW j, Ready(j), NEW p, Deep(p)
  PROVE  Reads(j, TableFilter(j, p))
<1> DEFINE rules == Append(p, "rules")
           masks == ToSet(Remaining(j, rules))
           lists == {q \in {rules \o <<mask, role>> : mask \in masks, role \in {"master", "slave"}} :
                       IsRule(j, q)}
           cur == [q \in DOMAIN j.cur |-> IF q \in lists THEN RuleEnd(j, q)
                                          ELSE IF q = rules THEN Len(Keys(j, q)) ELSE j.cur[q]]
           made == [mask \in masks |->
                      [masters |-> RuleServers(j, rules \o <<mask, "master">>),
                       slaves |-> RuleServers(j, rules \o <<mask, "slave">>)]]
           k == [j EXCEPT !.cur = cur, !.made = made]
<1>1. TableFilter(j, p) = IF ~IsObjectList(j, rules) THEN [j EXCEPT !.made = <<>>] ELSE k
  BY DEF TableFilter
<1>2. Deep(rules) /\ ~IsList(rules)
  BY DeepBelow
<1>3. \A q \in lists : ~IsList(q) /\ IsRule(j, q)
  <2>1. ASSUME NEW mask, NEW role
        PROVE  ~IsList(rules \o <<mask, role>>)
    <3>1. Len(rules \o <<mask, role>>) = Len(rules) + 2 /\ Len(rules) \in Nat
      BY <1>2, Seq2, SeqTogether DEF Deep
    <3> DEFINE n == Len(rules)
    <3>2. n \in Nat /\ n > 2
      BY <1>2 DEF Deep
    <3> HIDE DEF n
    <3>3. n + 2 # 2
      BY <3>2
    <3>4. QED
      BY <3>1, <3>3 DEF IsList, n
  <2> HIDE DEF rules, masks
  <2> DEFINE at(mask, role) == rules \o <<mask, role>>
             all == {at(mask, role) : mask \in masks, role \in {"master", "slave"}}
  <2>2. \A q \in all : ~IsList(q)
    <3>1. \A mask, role : ~IsList(at(mask, role))
      BY <2>1
    <3> HIDE DEF at
    <3>2. QED
      BY <3>1
  <2>3. lists = {q \in all : IsRule(j, q)}
    OBVIOUS
  <2> HIDE DEF all, lists
  <2>4. QED
    BY <2>2, <2>3
<1> HIDE DEF rules, lists, made
<1>4. \A q \in DOMAIN j.cur : j.cur[q] \in Nat /\ Len(Keys(j, q)) \in Nat /\ j.cur[q] <= Len(Keys(j, q))
  <2> SUFFICES ASSUME NEW q \in DOMAIN j.cur
               PROVE  j.cur[q] \in Nat /\ Len(Keys(j, q)) \in Nat /\ j.cur[q] <= Len(Keys(j, q))
    OBVIOUS
  <2>1. j.cur[q] \in Nat /\ IsSeq(Keys(j, q)) /\ j.cur[q] <= Len(Keys(j, q))
    BY DEF Ready
  <2>2. PICK S : Keys(j, q) \in Seq(S)
    BY <2>1 DEF IsSeq
  <2>3. QED
    BY <2>1, <2>2, SeqKnown
<1>5. \A q \in DOMAIN j.cur : IsRule(j, q) => RuleEnd(j, q) \in Nat /\ RuleEnd(j, q) <= Len(Keys(j, q))
  <2> SUFFICES ASSUME NEW q \in DOMAIN j.cur, IsRule(j, q)
               PROVE  RuleEnd(j, q) \in Nat /\ RuleEnd(j, q) <= Len(Keys(j, q))
    OBVIOUS
  <2>1. /\ Len(Remaining(j, q)) \in Nat /\ DOMAIN Remaining(j, q) = 1 .. Len(Remaining(j, q))
        /\ j.cur[q] + Len(Remaining(j, q)) = Len(Keys(j, q))
    BY RemainingLeft
  <2>2. RuleServers(j, q) = Strings(j, q, Remaining(j, q))
    BY DEF RuleServers
  <2>3. Len(RuleServers(j, q)) \in Nat /\ Len(RuleServers(j, q)) <= Len(Remaining(j, q))
    BY <2>1, <2>2, StringsFew
  <2> DEFINE n == Len(Keys(j, q))
             c == j.cur[q]
             s == Len(RuleServers(j, q))
             u == Len(Remaining(j, q))
  <2>4. RuleEnd(j, q) = IF c + s < n THEN c + s + 1 ELSE c + s
    BY DEF RuleEnd
  <2>5. n \in Nat /\ c \in Nat /\ s \in Nat /\ u \in Nat /\ s <= u /\ c + u = n
    BY <1>4, <2>1, <2>3
  <2> HIDE DEF n, c, s, u
  <2>6. RuleEnd(j, q) \in Nat /\ RuleEnd(j, q) <= n
    BY <2>4, <2>5
  <2>7. QED
    BY <2>6 DEF n
<1>6. \A q \in DOMAIN j.cur : cur[q] \in Nat /\ cur[q] <= Len(Keys(j, q)) /\ (IsList(q) => cur[q] = j.cur[q])
  BY <1>2, <1>3, <1>4, <1>5
<1>7. DOMAIN k = JobFields /\ k.cur = cur /\ \A f \in JobFields : f \notin {"cur", "made"} => k[f] = j[f]
  BY DEF Ready, JobFields
<1>8. cur \in [DOMAIN j.cur -> Nat]
  BY <1>6
<1> HIDE DEF k, cur
<1>9. Reads(j, k)
  BY <1>6, <1>7, <1>8 DEF Reads, JobFields
<1>10. QED
  BY <1>1, <1>9, MadeReads

LEMMA ConstructReads ==
  ASSUME NEW j, Ready(j), j.stop = "no", NEW name \in DOMAIN Multi, NEW p,
         Deep(p) \/ (p = Null /\ name = "random")
  PROVE  Reads(j, Construct(j, name, p))
<1>1. name \in {"roundrobin", "random", "user", "user_multi", "table", "quality_of_service", "node_groups"}
  BY DEF Multi
<1>2. CASE name = "random"
  BY <1>2, RandomReads DEF Construct
<1>3. CASE name = "roundrobin"
  BY <1>3, RoundRobinReads DEF Construct
<1>4. CASE name \in {"user", "user_multi"}
  BY <1>4, UserReads DEF Construct
<1>5. CASE name = "table"
  BY <1>5, TableReads DEF Construct
<1>6. CASE name = "quality_of_service"
  BY <1>6, QosReads DEF Construct
<1>7. CASE name = "node_groups"
  BY <1>7, GroupsReads DEF Construct
<1>8. QED
  BY <1>1, <1>2, <1>3, <1>4, <1>5, <1>6, <1>7

(* The options of the section.                                             *)
LEMMA SectionReads ==
  ASSUME NEW j, Ready(j), NEW options, SafeOptions(options)
  PROVE  /\ Reads(j, Read(j, j.section, "opts", options))
         /\ \A sub : Reads(j, ReadSection(j, sub, options))
  BY SafeBelowSection, ReadReads, ReadsItself DEF ReadSection

LEMMA CharsetReads ==
  ASSUME NEW j, Ready(j)
  PROVE  Reads(j, ReadCharset(j))
<1> DEFINE options == <<CharsetOption>>
           k == Read(j, j.section, "opts", options)
<1>1. ReadCharset(j) = k \/ (k.stop = "no" /\ ReadCharset(j) = Fatal(k))
  BY DEF ReadCharset
<1>2. SafeOptions(options)
  BY SafeOthers
<1> HIDE DEF options
<1>3. Reads(j, k) /\ Ready(k)
  BY <1>2, SectionReads, ReadyStill
<1> HIDE DEF k
<1>4. QED
  BY <1>1, <1>3, ErrorReads, ReadsOn

LEMMA RefusalReads ==
  ASSUME NEW j, Ready(j)
  PROVE  Reads(j, Require(j, FALSE))
<1>1. j.stop = "no" => Reads(j, Recoverable(j))
  BY ErrorReads
<1>2. QED
  BY <1>1, ReadsItself DEF Require

LEMMA OptsRead ==
  ASSUME NEW j, Ready(j), NEW v
  PROVE  Reads(j, [j EXCEPT !.opts = v])
  BY SetsField

LEMMA FailoverReads ==
  ASSUME NEW j, Ready(j)
  PROVE  Reads(j, LoadFailover(j))
<1> DEFINE f == Append(j.section, "failover")
           older == [FailoverStrategy EXCEPT !.path = <<"failover">>]
           options == <<FailoverStrategy>> \o FailoverOptions
           others == <<older>> \o FailoverOptions
           sub == <<"failover">>
<1>1. LoadFailover(j) = ReadSection(j, sub, options) \/ LoadFailover(j) = ReadSection(j, sub, others)
  BY DEF LoadFailover
<1>2. SafeOptions(options) /\ SafeOptions(others)
  BY SafeOthers
<1> HIDE DEF options, others, sub
<1>3. QED
  BY <1>1, <1>2, SectionReads

LEMMA TransientCodesReads ==
  ASSUME NEW j, Ready(j), NEW codes
  PROVE  Reads(j, TransientCodes(j, codes))
<1> DEFINE read == {i \in DOMAIN codes : \A k \in 1 .. i : codes[k] # 0}
           opts == [j.opts EXCEPT ![<<"transient_error">>] = {codes[i] : i \in read} \cap 1 .. 9999]
           a == [j EXCEPT !.opts = opts]
           fine == \A i \in read : codes[i] \in 1 .. 9999
<1>1. TransientCodes(j, codes) = IF j.stop # "no" THEN j ELSE Require(a, fine)
  BY DEF TransientCodes, Ready, JobFields
<1> HIDE DEF opts, fine
<1>2. Reads(j, a) /\ Ready(a)
  BY OptsRead, ReadyStill
<1> HIDE DEF a
<1>3. Reads(j, Require(a, fine))
  BY <1>2, EveryError, ReadsOn
<1>4. QED
  BY <1>1, <1>3, ReadsItself

LEMMA TransientReads ==
  ASSUME NEW j, Ready(j)
  PROVE  Reads(j, LoadTransient(j))
<1> DEFINE codes == j.section \o <<"transient_error", "mysql_error_codes">>
           sub == <<"transient_error">>
           k == ReadSection(j, sub, TransientOptions)
           listed == [i \in DOMAIN Listed(j, codes) |-> Node(j, Append(codes, Index[i])).num]
<1>1. LoadTransient(j) = k \/ LoadTransient(j) = TransientCodes(k, listed)
  BY DEF LoadTransient
<1> HIDE DEF sub, listed
<1>2. Reads(j, k) /\ Ready(k)
  BY SafeOthers, SectionReads, ReadyStill
<1> HIDE DEF k
<1>3. Reads(j, TransientCodes(k, listed))
  BY <1>2, TransientCodesReads, ReadsOn
<1>4. QED
  BY <1>1, <1>2, <1>3

LEMMA StrategyReads ==
  ASSUME NEW j, Ready(j)
  PROVE  Reads(j, LoadStrategy(j))
<1> DEFINE f == LoadFailover(j)
           w == Read(f, j.section, "opts", WriteOptions)
<1>1. Reads(j, f) /\ Ready(f) /\ f.section = j.section
  BY FailoverReads, ReadyStill DEF Reads
<1> HIDE DEF f
<1>2. Reads(j, w) /\ Ready(w)
  BY <1>1, SafeOthers, SectionReads, ReadsOn
<1>3. LoadStrategy(j) = LoadTransient(w)
  BY DEF LoadStrategy, f
<1> HIDE DEF w
<1>4. QED
  BY <1>2, <1>3, TransientReads, ReadsOn

LEMMA AddressReads ==
  ASSUME NEW j, Ready(j), NEW host
  PROVE  Reads(j, StoreAddress(j, host))
<1> DEFINE k == StoreAddress(j, host)
<1>1. DOMAIN k = JobFields /\ \A f \in JobFields : f # "opts" => k[f] = j[f]
  BY DEF StoreAddress, Ready, JobFields
<1> HIDE DEF k
<1>2. j.bad => k.bad
  BY <1>1 DEF JobFields
<1>3. Reads(j, k)
  BY <1>1, <1>2, TakesInto
<1>4. QED
  BY <1>3 DEF k

LEMMA StoreServerReads ==
  ASSUME NEW j, Ready(j)
  PROVE  Reads(j, StoreServer(j))
<1> DEFINE mysql == j.section \o StateStore \o <<"mysql">>
           host == Value(j, Append(mysql, "host"))
           c == Read(j, j.section, "opts", StoreConnection)
           a == StoreAddress(c, host)
           t == Read(a, j.section, "opts", StoreTables)
<1>1. StoreServer(j) = t \/ StoreServer(j) = Require(j, FALSE)
  BY DEF StoreServer
<1> HIDE DEF host
<1>2. Reads(j, c) /\ Ready(c)
  BY SafeStore, SectionReads, ReadyStill
<1> HIDE DEF c
<1>3. Reads(j, a) /\ Ready(a) /\ a.section = j.section
  <2>1. Reads(j, a) /\ Ready(a)
    BY <1>2, AddressReads, ReadsOn
  <2>2. QED
    BY <2>1 DEF Reads
<1> HIDE DEF a
<1>4. Reads(j, t)
  BY <1>3, SafeStore, SectionReads, ReadsOn
<1>5. QED
  BY <1>1, <1>4, RefusalReads

LEMMA XaReads ==
  ASSUME NEW j, Ready(j)
  PROVE  Reads(j, LoadXa(j))
<1> DEFINE s == StoreServer(j)
           p == Read(s, j.section, "opts", ParticipantOptions)
           st == LoadStore(j)
           options == <<RollbackOption>>
           r == Read(st, j.section, "opts", options)
           g == Read(r, r.section, "opts", GcOptions)
<1>1. Reads(j, s) /\ Ready(s) /\ s.section = j.section
  BY StoreServerReads, ReadyStill DEF Reads
<1>2. st = p \/ st = j
  BY DEF LoadStore
<1> HIDE DEF s, st
<1>3. Reads(j, st) /\ Ready(st) /\ st.section = j.section
  <2>1. Reads(j, p) /\ Ready(p)
    BY <1>1, SafeStore, SectionReads, ReadsOn
  <2> HIDE DEF p
  <2>2. QED
    BY <1>2, <2>1, ReadsItself DEF Reads
<1>4. SafeOptions(options)
  BY SafeStore
<1> HIDE DEF options
<1>5. Reads(j, r) /\ Ready(r)
  BY <1>3, <1>4, SectionReads, ReadsOn
<1>6. LoadXa(j) = LoadGc(r) \/ LoadXa(j) = j
  BY DEF LoadXa, options, st
<1> HIDE DEF r
<1>7. LoadGc(r) \in {r, g, Require(r, FALSE)}
  BY DEF LoadGc
<1>8. Reads(r, g)
  BY <1>5, SafeStore, SectionReads
<1>9. Reads(r, Require(r, FALSE))
  BY <1>5, RefusalReads
<1> DEFINE refused == Require(r, FALSE)
<1>10. Reads(r, LoadGc(r))
  <2>1. Reads(r, refused) /\ LoadGc(r) \in {r, g, refused}
    BY <1>7, <1>9
  <2> HIDE DEF g, refused
  <2>2. QED
    BY <1>5, <1>8, <2>1, ReadsItself
<1>11. QED
  BY <1>5, <1>6, <1>10, ReadsItself, ReadsOn

LEMMA AppendOne ==
  ASSUME NEW s, IsSeq(s), NEW e
  PROVE  s \o <<e>> = Append(s, e)
<1>1. PICK S : s \in Seq(S)
  BY DEF IsSeq
<1> DEFINE T == S \cup {e}
<1>2. s \in Seq(T) /\ e \in T
  BY <1>1
<1> HIDE DEF T
<1>3. QED
  BY <1>2

LEMMA SameValue ==
  ASSUME NEW j, NEW k, NEW p, k.tree = j.tree, k.cur = j.cur
  PROVE  Value(k, p) = Value(j, p)
  BY DEF Value, Exists, Node, AtEnd, Keys, Readable, CurrentKey

LEMMA ReadRefuses ==
  ASSUME NEW j, Ready(j), j.stop = "no", NEW base, NEW options, NEW i \in DOMAIN options,
         Invalid(options[i], Value(j, base \o options[i].path), "server")
  PROVE  Read(j, base, "server", options).bad
<1> DEFINE v == [n \in DOMAIN options |-> Value(j, base \o options[n].path)]
           wrong == {n \in DOMAIN options : Invalid(options[n], v[n], "server")}
           reached == Reached(j, wrong, Len(options))
           taken == {n \in reached \ wrong : Given(options[n], v[n])}
           new == [key \in {options[n].key : n \in taken} |->
                     LET n == CHOOSE n \in taken : options[n].key = key
                     IN Taken(options[n], v[n], j["server"][key])]
           paths == {base \o options[n].path : n \in reached}
           a == Advance(j, paths)
           b == [a EXCEPT !["server"] = new @@ @, !.bad = @ \/ ("server" = "server" /\ wrong # {})]
           fine == wrong = {}
<1>1. Read(j, base, "server", options) = Require(b, fine)
  BY DEF Read
<1>2. wrong # {}
  <2>1. i \in wrong
    OBVIOUS
  <2> HIDE DEF wrong
  <2>2. QED
    BY <2>1
<1>3. b.bad /\ DOMAIN b = JobFields
  <2> HIDE DEF paths, wrong, new
  <2>1. DOMAIN a = JobFields
    BY DEF Ready, Advance, JobFields
  <2> HIDE DEF a
  <2>2. QED
    BY <1>2, <2>1 DEF JobFields
<1> HIDE DEF b, fine
<1>4. Require(b, fine).bad
  BY <1>3 DEF Require, Recoverable, Fatal, JobFields
<1>5. QED
  BY <1>1, <1>4

LEMMA HostRefused ==
  ASSUME NEW j, Ready(j), j.stop = "no", NEW sub, IsSeq(sub),
         Value(j, Append(sub, "host")).list \/ ~Value(j, Append(sub, "host")).exists
  PROVE  Read(j, sub, "server", ServerOptions).bad
<1> DEFINE o == ServerOptions[7]
<1>1. /\ o.path = <<"host">> /\ o.kind = "host" /\ o.single = TRUE /\ o.required = TRUE
      /\ 7 \in DOMAIN ServerOptions
  BY DEF ServerOptions, Option
<1>2. sub \o o.path = Append(sub, "host")
  BY <1>1, AppendOne
<1> DEFINE v == Value(j, sub \o o.path)
<1>3. v.list \/ ~v.exists
  BY <1>2
<1> HIDE DEF v, o
<1>4. Invalid(o, v, "server")
  BY <1>1, <1>3 DEF Invalid, Given
<1>5. QED
  BY <1>1, <1>4, ReadRefuses DEF o, v

(* What trying one server of a list does.                                  *)
Serves(j, k, list, name) ==
  /\ DOMAIN k = JobFields
  /\ k.tree = j.tree /\ k.env = j.env /\ k.file = j.file /\ k.section = j.section
  /\ k.hosts = j.hosts /\ k.fabric = j.fabric /\ k.clean = j.clean /\ k.step = j.step
  /\ k.filters = j.filters /\ \A l \in {"master", "slave"} \ {list} : k[l] = j[l]
  /\ k.cur \in [DOMAIN j.cur -> Nat]
  /\ \A p \in DOMAIN j.cur : k.cur[p] <= Len(Keys(j, p)) /\ (IsList(p) => k.cur[p] = j.cur[p])
  /\ j.bad => k.bad
  /\ k.stop \in {"no", "fatal"}
  /\ k.stop = "no" /\ ~k.bad => \E c : k[list] = Append(j[list], [name |-> name, cred |-> c])

LEMMA ServesWith ==
  ASSUME NEW j, NEW r, Ready(j), Reads(j, r), j.stop = "no", NEW list \in {"master", "slave"},
         NEW name, NEW c, DOMAIN c = JobFields, r.bad => c.bad,
         \A f \in JobFields \ {"master", "slave", "err", "bad"} : c[f] = r[f],
         \A l \in {"master", "slave"} \ {list} : c[l] = j[l],
         c.stop = "no" /\ ~c.bad => \E d : c[list] = Append(j[list], [name |-> name, cred |-> d])
  PROVE  Serves(j, c, list, name)
<1>1. /\ c.tree = r.tree /\ c.env = r.env /\ c.file = r.file /\ c.section = r.section
      /\ c.hosts = r.hosts /\ c.fabric = r.fabric /\ c.clean = r.clean /\ c.step = r.step
      /\ c.filters = r.filters /\ c.cur = r.cur /\ c.stop = r.stop
  BY DEF JobFields
<1>2. /\ c.tree = j.tree /\ c.env = j.env /\ c.file = j.file /\ c.section = j.section
      /\ c.hosts = j.hosts /\ c.fabric = j.fabric /\ c.clean = j.clean /\ c.step = j.step
      /\ c.filters = j.filters
  BY <1>1 DEF Reads
<1>3. /\ c.cur \in [DOMAIN j.cur -> Nat]
      /\ \A p \in DOMAIN j.cur : c.cur[p] <= Len(Keys(j, p)) /\ (IsList(p) => c.cur[p] = j.cur[p])
  BY <1>1 DEF Reads
<1>4. (j.bad => c.bad) /\ c.stop \in {"no", "fatal"}
  BY <1>1 DEF Reads
<1>5. QED
  BY <1>2, <1>3, <1>4 DEF Serves

LEMMA ConnectedServes ==
  ASSUME NEW j, NEW r, Ready(j), Reads(j, r), j.stop = "no", NEW list \in {"master", "slave"},
         NEW name, NEW host, host.list \/ ~host.exists => r.stop = "fatal" \/ r.bad
  PROVE  Serves(j, Connected(r, list, name, host), list, name)
<1> DEFINE k == Connected(r, list, name, host)
           server == [name |-> name, cred |-> r.server]
<1>1. CASE r.stop # "no" \/ host.list \/ ~host.exists
  <2>1. k = r
    BY <1>1 DEF Connected
  <2>2. Serves(j, r, list, name)
    BY <1>1 DEF Serves, Reads
  <2>3. QED
    BY <2>1, <2>2
<1>2. CASE r.stop = "no" /\ ~host.list /\ host.exists /\ CannotConnect(r)
  <2>1. k = [r EXCEPT !.bad = TRUE, !.err = TRUE]
    BY <1>2 DEF Connected
  <2> DEFINE c == [r EXCEPT !.bad = TRUE, !.err = TRUE]
  <2>2. DOMAIN c = JobFields /\ c.bad /\ \A f \in JobFields : f \notin {"bad", "err"} => c[f] = r[f]
    BY DEF Reads, JobFields
  <2> HIDE DEF c
  <2>3. Serves(j, c, list, name)
    <3>1. \A f \in JobFields \ {"master", "slave", "err", "bad"} : c[f] = r[f]
      BY <2>2
    <3>2. \A l \in {"master", "slave"} : c[l] = j[l]
      BY <2>2 DEF Reads, JobFields
    <3>3. QED
      BY <2>2, <3>1, <3>2, ServesWith
  <2>4. QED
    BY <2>1, <2>3 DEF c
<1>3. CASE r.stop = "no" /\ ~host.list /\ host.exists /\ ~CannotConnect(r)
  <2> DEFINE err == r.err /\ ~((list = "master" /\ r.master = <<>>) /\ ~r.opts[<<"lazy_connections">>])
             c == [r EXCEPT ![list] = Append(@, server), !.err = err]
  <2>1. k = c
    BY <1>3 DEF Connected
  <2> HIDE DEF err, k
  <2>2. DOMAIN c = JobFields
    BY DEF Reads
  <2>3. \A f \in JobFields : f # list /\ f # "err" => c[f] = r[f]
    BY DEF Reads
  <2>4. c[list] = Append(r[list], server)
    BY DEF Reads, JobFields
  <2> HIDE DEF c, server
  <2>5. r[list] = j[list]
    BY DEF Reads
  <2>6. \E d : c[list] = Append(j[list], [name |-> name, cred |-> d])
    BY <2>4, <2>5 DEF server
  <2>7. (\A f \in JobFields \ {"master", "slave", "err", "bad"} : c[f] = r[f]) /\ (r.bad => c.bad)
    BY <2>3 DEF JobFields
  <2>9. \A l \in {"master", "slave"} \ {list} : c[l] = j[l]
    BY <2>3 DEF Reads, JobFields
  <2>10. Serves(j, c, list, name)
    BY <2>2, <2>7, <2>6, <2>9, ServesWith
  <2>8. QED
    BY <2>1, <2>10 DEF k
<1>4. QED
  BY <1>1, <1>2, <1>3

LEMMA AddServerServes ==
  ASSUME NEW j, Ready(j), j.stop = "no", NEW list \in {"master", "slave"},
         NEW sub, IsSeq(sub), Len(sub) > 1, NEW name
  PROVE  Serves(j, AddServer(j, list, sub, name), list, name)
<1> DEFINE i == [j EXCEPT !.server = Credentials]
           host == Value(j, Append(sub, "host"))
           r == Read(i, sub, "server", ServerOptions)
<1>1. AddServer(j, list, sub, name) = Connected(r, list, name, host)
  BY DEF AddServer
<1>2. Reads(j, i) /\ i.cur = j.cur /\ i.tree = j.tree /\ i.stop = j.stop
  <2>1. Reads(j, i)
    BY SetsField
  <2>2. QED
    BY <2>1 DEF Ready, JobFields
<1> HIDE DEF i
<1>3. Ready(i)
  BY <1>2, ReadyStill
<1>4. Apart(sub, ServerOptions)
  BY SafeOthers, SafeBelowServer
<1>5. Reads(i, r)
  BY <1>3, <1>4, ReadReads
<1>6. Reads(j, r)
  BY <1>2, <1>5, ReadsOn
<1>7. host.list \/ ~host.exists => r.bad
  <2>1. Value(i, Append(sub, "host")) = host
    BY <1>2, SameValue
  <2>2. QED
    BY <1>2, <1>3, <2>1, HostRefused
<1> HIDE DEF r, host
<1>8. QED
  BY <1>1, <1>6, <1>7, ConnectedServes

LEMMA EndReads ==
  ASSUME NEW j, Ready(j), NEW p, ~IsList(p)
  PROVE  Reads(j, [j EXCEPT !.cur[p] = Len(Keys(j, p))])
<1> DEFINE k == [j EXCEPT !.cur[p] = Len(Keys(j, p))]
<1>0. j.cur \in [DOMAIN j.cur -> Nat]
  BY DEF Ready
<1>1. k.cur = [j.cur EXCEPT ![p] = Len(Keys(j, p))] /\ DOMAIN k = JobFields
      /\ \A f \in JobFields : f # "cur" => k[f] = j[f]
  BY DEF Ready, JobFields
<1>2. p \in DOMAIN j.cur => Len(Keys(j, p)) \in Nat
  <2> SUFFICES ASSUME p \in DOMAIN j.cur
               PROVE  Len(Keys(j, p)) \in Nat
    OBVIOUS
  <2>1. PICK S : Keys(j, p) \in Seq(S)
    BY DEF Ready, IsSeq
  <2>2. QED
    BY <2>1, SeqKnown
<1> HIDE DEF k
<1>3. k.cur = [q \in DOMAIN j.cur |-> IF q = p THEN Len(Keys(j, p)) ELSE j.cur[q]]
  BY <1>0, <1>1
<1>4. k.cur \in [DOMAIN j.cur -> Nat]
  BY <1>0, <1>2, <1>3
<1>5. \A q \in DOMAIN j.cur : k.cur[q] <= Len(Keys(j, q)) /\ (IsList(q) => k.cur[q] = j.cur[q])
  BY <1>0, <1>2, <1>3 DEF Ready
<1>6. Reads(j, k)
  BY <1>1, <1>4, <1>5 DEF Reads, JobFields
<1>7. QED
  BY <1>6 DEF k

(* What every step leaves alone.                                           *)
Goes(j, k) ==
  /\ DOMAIN k = JobFields
  /\ k.tree = j.tree /\ k.env = j.env /\ k.file = j.file /\ k.section = j.section
  /\ k.hosts = j.hosts /\ k.fabric = j.fabric /\ k.clean = j.clean
  /\ k.step \in Steps
  /\ k.cur \in [DOMAIN j.cur -> Nat]
  /\ \A p \in DOMAIN j.cur : k.cur[p] <= Len(Keys(j, p))

(* The same, of the positions of the lists too.                            *)
Keeps(j, k) == Goes(j, k) /\ \A p \in DOMAIN j.cur : IsList(p) => k.cur[p] = j.cur[p]

LEMMA ReadsKeeps ==
  ASSUME NEW j, NEW k, Ready(j), Reads(j, k)
  PROVE  Keeps(j, k)
  BY DEF Keeps, Goes, Reads, Ready

LEMMA ServesKeeps ==
  ASSUME NEW j, NEW k, Ready(j), NEW list, NEW name, Serves(j, k, list, name)
  PROVE  Keeps(j, k)
  BY DEF Keeps, Goes, Serves, Ready

LEMMA GoesReady ==
  ASSUME NEW j, NEW k, Ready(j), Goes(j, k)
  PROVE  Ready(k)
  BY DEF Ready, Goes, IsSection, Keys, Exists, Node

LEMMA GoesOn ==
  ASSUME NEW i, NEW j, NEW k, Ready(i), Goes(i, j), Goes(j, k)
  PROVE  Goes(i, k)
  BY DEF Goes, Ready, IsSection, Keys, Exists, Node

LEMMA KeepsOn ==
  ASSUME NEW i, NEW j, NEW k, Ready(i), Keeps(i, j), Keeps(j, k)
  PROVE  Keeps(i, k)
<1>1. Goes(i, k)
  BY GoesOn DEF Keeps
<1>2. QED
  BY <1>1 DEF Keeps, Goes

LEMMA EndsWell ==
  ASSUME NEW j, Ready(j), NEW k, DOMAIN k = JobFields, k.step \in Steps,
         \A f \in JobFields \ {"stop", "step", "filters", "made", "urls", "err"} : k[f] = j[f]
  PROVE  Keeps(j, k)
<1>1. /\ k.tree = j.tree /\ k.env = j.env /\ k.file = j.file /\ k.section = j.section
      /\ k.hosts = j.hosts /\ k.fabric = j.fabric /\ k.clean = j.clean /\ k.cur = j.cur
  BY DEF JobFields
<1>2. QED
  BY <1>1 DEF Keeps, Goes, Ready

(* Where the lists of servers and filters are.                             *)
ListAt(j, l) == Append(j.hosts, l)

FiltersAt(j) == Append(j.section, "filters")

LEMMA OneBelow ==
  ASSUME NEW x, NEW l
  PROVE  Append(<<x>>, l) = <<x, l>> /\ IsPrefix(<<x>>, Append(<<x>>, l))
<1>1. Append(<<x>>, l) = <<x, l>>
  <2> DEFINE S == {x, l}
             s == <<x>>
  <2>1. s \in Seq(S) /\ Len(s) = 1 /\ s[1] = x /\ l \in S
    OBVIOUS
  <2>2. <<x, l>> \in Seq(S) /\ Len(<<x, l>>) = 2 /\ <<x, l>>[1] = x /\ <<x, l>>[2] = l
    OBVIOUS
  <2> HIDE DEF S, s
  <2>3. Append(s, l) \in Seq(S) /\ Len(Append(s, l)) = 2 /\ Append(s, l)[1] = x /\ Append(s, l)[2] = l
    <3>1. Append(s, l) \in Seq(S)
      BY <2>1
    <3>2. IsSeq(s)
      BY <2>1, SeqKnown
    <3>3. /\ Len(Append(s, l)) = Len(s) + 1 /\ Append(s, l)[Len(s) + 1] = l
          /\ \A i \in 1 .. Len(s) : Append(s, l)[i] = s[i]
      BY <3>2, SeqAppend
    <3>4. Len(s) + 1 = 2 /\ 1 \in 1 .. Len(s)
      BY <2>1
    <3>5. QED
      BY <2>1, <3>1, <3>3, <3>4
  <2> DEFINE a == Append(s, l)
             b == <<x, l>>
  <2>4. a \in Seq(S) /\ b \in Seq(S) /\ Len(a) = 2 /\ Len(b) = 2 /\ a[1] = b[1] /\ a[2] = b[2]
    BY <2>2, <2>3
  <2> HIDE DEF a, b
  <2>5. a = b
    BY <2>4
  <2>6. QED
    BY <2>5 DEF a, b, s
<1>2. ASSUME NEW S, NEW s \in Seq(S), NEW t \in Seq(S), Len(s) = 1, Len(t) = 2, t[1] = s[1]
      PROVE  IsPrefix(s, t)
  <2>1. SubSeq(s, 1, 1) \in Seq(S) /\ SubSeq(t, 1, 1) \in Seq(S)
    BY <1>2
  <2>2. Len(SubSeq(s, 1, 1)) = 1 /\ Len(SubSeq(t, 1, 1)) = 1
    BY <1>2
  <2>3. SubSeq(s, 1, 1)[1] = s[1] /\ SubSeq(t, 1, 1)[1] = t[1]
    BY <1>2
  <2>4. SubSeq(s, 1, 1) = SubSeq(t, 1, 1)
    BY <1>2, <2>1, <2>2, <2>3
  <2>5. QED
    BY <1>2, <2>4 DEF IsPrefix
<1> DEFINE S == {x, l}
<1>3. <<x>> \in Seq(S) /\ <<x, l>> \in Seq(S) /\ Len(<<x>>) = 1 /\ Len(<<x, l>>) = 2
      /\ <<x, l>>[1] = <<x>>[1]
  OBVIOUS
<1> HIDE DEF S
<1>4. IsPrefix(<<x>>, <<x, l>>)
  BY <1>2, <1>3
<1>5. QED
  BY <1>1, <1>4

LEMMA ListPaths ==
  ASSUME NEW j, Ready(j)
  PROVE  /\ \A l : IsSeq(ListAt(j, l)) /\ Len(ListAt(j, l)) = 2 /\ ListAt(j, l)[2] = l
         /\ IsSeq(FiltersAt(j)) /\ Len(FiltersAt(j)) = 2 /\ FiltersAt(j)[2] = "filters"
         /\ \A l : Within(j, ListAt(j, l))
         /\ Within(j, FiltersAt(j))
<1>1. PICK x : j.hosts = <<x>>
  BY DEF Ready
<1>2. PICK y : j.section = <<y>>
  BY DEF Ready
<1>3. \A l : ListAt(j, l) = <<x, l>> /\ IsPrefix(j.hosts, ListAt(j, l))
  BY <1>1, OneBelow DEF ListAt
<1>4. FiltersAt(j) = <<y, "filters">> /\ IsPrefix(j.section, FiltersAt(j))
  BY <1>2, OneBelow DEF FiltersAt
<1>5. ASSUME NEW l
      PROVE  IsSeq(ListAt(j, l)) /\ Len(ListAt(j, l)) = 2 /\ ListAt(j, l)[2] = l
  <2>1. IsSeq(<<x, l>>) /\ Len(<<x, l>>) = 2
    BY Seq2
  <2>2. <<x, l>>[2] = l
    OBVIOUS
  <2>3. QED
    BY <1>3, <2>1, <2>2
<1>6. IsSeq(FiltersAt(j)) /\ Len(FiltersAt(j)) = 2 /\ FiltersAt(j)[2] = "filters"
  BY <1>4, Seq2
<1>7. QED
  BY <1>3, <1>4, <1>5, <1>6 DEF Within

LEMMA ListsAreLists ==
  ASSUME NEW j, Ready(j)
  PROVE  /\ IsList(ListAt(j, "master")) /\ IsList(ListAt(j, "slave")) /\ IsList(FiltersAt(j))
         /\ ListAt(j, "master") # ListAt(j, "slave") /\ ListAt(j, "master") # FiltersAt(j)
         /\ ListAt(j, "slave") # FiltersAt(j)
<1>1. ListAt(j, "master")[2] = "master" /\ Len(ListAt(j, "master")) = 2
  BY ListPaths
<1>2. ListAt(j, "slave")[2] = "slave" /\ Len(ListAt(j, "slave")) = 2
  BY ListPaths
<1>3. FiltersAt(j)[2] = "filters" /\ Len(FiltersAt(j)) = 2
  BY ListPaths
<1>4. QED
  BY <1>1, <1>2, <1>3 DEF IsList

(* How far a job has got in its lists.                                     *)
Untouched(j, p) == p \in DOMAIN j.cur => j.cur[p] = 0

NoServers(j, l) == j[l] = <<>> /\ Untouched(j, ListAt(j, l))

NoFilters(j) == j.filters = <<>> /\ Untouched(j, FiltersAt(j))

SomeServers(j, l) ==
  IF IsObjectList(j, ListAt(j, l))
  THEN /\ IsSeq(j[l]) /\ Len(j[l]) = j.cur[ListAt(j, l)]
       /\ \A i \in 1 .. Len(j[l]) : j[l][i].name = Keys(j, ListAt(j, l))[i]
  ELSE j[l] = <<>>

\* Without multi_master the first master is the last.
OnlyFirst(j, l) == l = "master" /\ ~j.env.multiMaster

AllServers(j, l) ==
  LET names == ListedNames(j, ListAt(j, l))
  IN Names(j[l]) = IF OnlyFirst(j, l) /\ names # <<>> THEN <<names[1]>> ELSE names

FilterName(j, key) == IF key \in ToSet(Index) THEN Node(j, Append(FiltersAt(j), key)).str ELSE key

SomeFilters(j) ==
  /\ IsSeq(j.filters)
  /\ IF IsSection(j, FiltersAt(j))
     THEN /\ Len(j.filters) = j.cur[FiltersAt(j)]
          /\ \A i \in 1 .. Len(j.filters) : j.filters[i].name = FilterName(j, Keys(j, FiltersAt(j))[i])
     ELSE j.filters = <<>>
  /\ \A i \in 1 .. Len(j.filters) : /\ j.filters[i].name \in DOMAIN Multi
                                    /\ i < Len(j.filters) => Multi[j.filters[i].name]

AllFilters(j) ==
  /\ Names(j.filters) = ListedFilters(j)
  /\ \A i \in DOMAIN j.filters : Multi[j.filters[i].name] = (i < Len(j.filters))

Served(j) == ~j.fabric => AllServers(j, "slave") /\ AllServers(j, "master")

\* What holds of a job between its steps.
Progress(j) ==
  /\ j.stop = "no" /\ j.step = "fabric" => j.fabric
  /\ j.stop = "no" /\ j.step \in {"options", "fabric"} =>
       NoServers(j, "master") /\ NoServers(j, "slave") /\ NoFilters(j)
  /\ j.stop = "no" /\ ~j.bad /\ j.step = "master" =>
       /\ SomeServers(j, "master") /\ NoServers(j, "slave") /\ NoFilters(j)
       /\ OnlyFirst(j, "master") => j.master = <<>>
  /\ j.stop = "no" /\ ~j.bad /\ j.step = "slave" =>
       AllServers(j, "master") /\ SomeServers(j, "slave") /\ NoFilters(j)
  /\ j.stop = "no" /\ j.step = "filters" => Served(j) /\ SomeFilters(j)
  /\ (j.stop = "no" /\ j.step = "strategy") \/ (j.stop = "PASS" /\ ~j.err) =>
       Served(j) /\ AllFilters(j)

\* A job sees all of its section and of its servers.
Whole(j) == \A p : IsSection(j, p) /\ Within(j, p) => p \in DOMAIN j.cur

LEMMA WholeStill ==
  ASSUME NEW j, NEW k, Goes(j, k), Whole(j)
  PROVE  Whole(k)
<1>1. DOMAIN k.cur = DOMAIN j.cur /\ \A p : (IsSection(k, p) = IsSection(j, p)) /\ (Within(k, p) = Within(j, p))
  BY DEF Goes, IsSection, Exists, Node, Within
<1>2. QED
  BY <1>1 DEF Whole

LEMMA SameTree ==
  ASSUME NEW j, NEW k, k.tree = j.tree
  PROVE  /\ \A p : (IsSection(k, p) = IsSection(j, p)) /\ (IsObjectList(k, p) = IsObjectList(j, p))
         /\ \A p : Keys(k, p) = Keys(j, p) /\ Node(k, p) = Node(j, p)
         /\ \A p : ListedNames(k, p) = ListedNames(j, p)
  BY DEF IsSection, IsObjectList, Keys, Node, Exists, ListedNames

LEMMA SamePaths ==
  ASSUME NEW j, NEW k, k.hosts = j.hosts, k.section = j.section
  PROVE  (\A l : ListAt(k, l) = ListAt(j, l)) /\ FiltersAt(k) = FiltersAt(j)
  BY DEF ListAt, FiltersAt

LEMMA SameAll ==
  ASSUME NEW j, NEW k, k.tree = j.tree, k.hosts = j.hosts, k.env = j.env, NEW l, k[l] = j[l]
  PROVE  AllServers(j, l) => AllServers(k, l)
  BY SameTree DEF AllServers, ListAt, OnlyFirst

LEMMA SameFilterNames ==
  ASSUME NEW j, NEW k, k.tree = j.tree, k.section = j.section
  PROVE  (\A key : FilterName(k, key) = FilterName(j, key)) /\ ListedFilters(k) = ListedFilters(j)
  BY SameTree DEF FilterName, FiltersAt, ListedFilters

\* The position of a list is known.
LEMMA Placed ==
  ASSUME NEW j, Ready(j), Whole(j)
  PROVE  /\ \A l : IsSection(j, ListAt(j, l)) => ListAt(j, l) \in DOMAIN j.cur
         /\ IsSection(j, FiltersAt(j)) => FiltersAt(j) \in DOMAIN j.cur
  BY ListPaths DEF Whole

LEMMA SomeOfNone ==
  ASSUME NEW j, Ready(j), Whole(j), NEW l, NoServers(j, l)
  PROVE  SomeServers(j, l)
<1>1. IsObjectList(j, ListAt(j, l)) => IsSection(j, ListAt(j, l))
  BY DEF IsObjectList
<1>2. IsObjectList(j, ListAt(j, l)) => j.cur[ListAt(j, l)] = 0
  BY <1>1, Placed DEF NoServers, Untouched
<1>3. j[l] = <<>>
  BY DEF NoServers
<1>4. IsSeq(<<>>) /\ Len(<<>>) = 0
  BY DEF IsSeq
<1>5. QED
  BY <1>2, <1>3, <1>4 DEF SomeServers

LEMMA SomeOfNoFilters ==
  ASSUME NEW j, Ready(j), Whole(j), NoFilters(j)
  PROVE  SomeFilters(j)
<1>1. IsSection(j, FiltersAt(j)) => j.cur[FiltersAt(j)] = 0
  BY Placed DEF NoFilters, Untouched
<1>2. j.filters = <<>>
  BY DEF NoFilters
<1>3. IsSeq(<<>>) /\ Len(<<>>) = 0
  BY DEF IsSeq
<1>4. QED
  BY <1>1, <1>2, <1>3 DEF SomeFilters

\* Reading moves no position of the lists.
LEMMA KeptNone ==
  ASSUME NEW j, NEW k, Ready(j), Keeps(j, k)
  PROVE  /\ NoFilters(j) /\ k.filters = j.filters => NoFilters(k)
         /\ \A l \in {"master", "slave"} : NoServers(j, l) /\ k[l] = j[l] => NoServers(k, l)
         /\ \A l \in {"master", "slave"} : SomeServers(j, l) /\ k[l] = j[l] /\ Whole(j) => SomeServers(k, l)
<1>1. k.tree = j.tree /\ k.hosts = j.hosts /\ k.section = j.section /\ DOMAIN k.cur = DOMAIN j.cur
      /\ \A p \in DOMAIN j.cur : IsList(p) => k.cur[p] = j.cur[p]
  BY DEF Keeps, Goes
<1>2. /\ FiltersAt(k) = FiltersAt(j) /\ IsList(FiltersAt(j))
      /\ ListAt(k, "master") = ListAt(j, "master") /\ IsList(ListAt(j, "master"))
      /\ ListAt(k, "slave") = ListAt(j, "slave") /\ IsList(ListAt(j, "slave"))
  BY <1>1, SamePaths, ListsAreLists
<1>3. NoFilters(j) /\ k.filters = j.filters => NoFilters(k)
  BY <1>1, <1>2 DEF NoFilters, Untouched
<1>4. ASSUME NEW l \in {"master", "slave"}, k[l] = j[l], NoServers(j, l)
      PROVE  NoServers(k, l)
  BY <1>1, <1>2, <1>4 DEF NoServers, Untouched
<1>5. ASSUME NEW l \in {"master", "slave"}, k[l] = j[l], SomeServers(j, l), Whole(j)
      PROVE  SomeServers(k, l)
  <2>1. ListAt(k, l) = ListAt(j, l) /\ IsList(ListAt(j, l))
    BY <1>2
  <2>2. IsObjectList(j, ListAt(j, l)) => k.cur[ListAt(j, l)] = j.cur[ListAt(j, l)]
    BY <1>1, <1>5, <2>1, Placed DEF IsObjectList
  <2>3. (IsObjectList(k, ListAt(j, l)) = IsObjectList(j, ListAt(j, l))) /\ Keys(k, ListAt(j, l)) = Keys(j, ListAt(j, l))
    BY <1>1, SameTree
  <2>4. QED
    BY <1>5, <2>1, <2>2, <2>3 DEF SomeServers
<1>6. QED
  BY <1>3, <1>4, <1>5

LEMMA NamesFollow ==
  ASSUME NEW entries, NEW keys, IsSeq(entries), IsSeq(keys), Len(entries) = Len(keys),
         \A i \in 1 .. Len(entries) : entries[i].name = keys[i]
  PROVE  Names(entries) = keys
<1>1. PICK S : entries \in Seq(S)
  BY DEF IsSeq
<1>2. PICK T : keys \in Seq(T)
  BY DEF IsSeq
<1>3. DOMAIN entries = 1 .. Len(entries)
  BY <1>1
<1>4. keys = [i \in 1 .. Len(keys) |-> keys[i]]
  BY <1>2
<1>5. QED
  BY <1>3, <1>4 DEF Names

LEMMA SeqOnly ==
  ASSUME NEW e
  PROVE  /\ IsSeq(Append(<<>>, e)) /\ Len(Append(<<>>, e)) = 1 /\ Append(<<>>, e)[1] = e
         /\ DOMAIN Append(<<>>, e) = {1}
<1> DEFINE s == Append(<<>>, e)
<1>1. IsSeq(<<>>) /\ Len(<<>>) = 0
  BY DEF IsSeq
<1>2. IsSeq(s) /\ Len(s) = Len(<<>>) + 1 /\ s[Len(<<>>) + 1] = e
  BY <1>1, SeqAppend
<1>3. IsSeq(s) /\ Len(s) = 1 /\ s[1] = e
  BY <1>1, <1>2
<1>4. PICK S : s \in Seq(S)
  BY <1>3 DEF IsSeq
<1> HIDE DEF s
<1>5. DOMAIN s = 1 .. Len(s)
  BY <1>4
<1>6. 1 .. 1 = {1}
  OBVIOUS
<1>7. QED
  BY <1>3, <1>5, <1>6 DEF s

LEMMA NamesOne ==
  ASSUME NEW e
  PROVE  Names(Append(<<>>, e)) = <<e.name>>
<1> DEFINE s == Append(<<>>, e)
           t == <<e.name>>
<1>1. IsSeq(s) /\ Len(s) = 1 /\ s[1] = e
  <2>1. IsSeq(<<>>) /\ Len(<<>>) = 0
    BY DEF IsSeq
  <2>2. /\ IsSeq(Append(<<>>, e)) /\ Len(Append(<<>>, e)) = Len(<<>>) + 1
        /\ Append(<<>>, e)[Len(<<>>) + 1] = e
    BY <2>1, SeqAppend
  <2>3. QED
    BY <2>1, <2>2
<1>2. IsSeq(t) /\ Len(t) = 1 /\ t[1] = e.name
  BY Seq1
<1> HIDE DEF s, t
<1>3. Names(s) = t
  BY <1>1, <1>2, NamesFollow
<1>4. QED
  BY <1>3 DEF s, t

LEMMA KeptFilters ==
  ASSUME NEW j, NEW k, Ready(j), Keeps(j, k), Whole(j), k.filters = j.filters, SomeFilters(j)
  PROVE  SomeFilters(k)
<1>1. k.tree = j.tree /\ k.hosts = j.hosts /\ k.section = j.section /\ DOMAIN k.cur = DOMAIN j.cur
      /\ \A p \in DOMAIN j.cur : IsList(p) => k.cur[p] = j.cur[p]
  BY DEF Keeps, Goes
<1>2. FiltersAt(k) = FiltersAt(j) /\ IsList(FiltersAt(j))
  BY <1>1, SamePaths, ListsAreLists
<1>3. IsSection(j, FiltersAt(j)) => k.cur[FiltersAt(j)] = j.cur[FiltersAt(j)]
  BY <1>1, <1>2, Placed
<1>4. (IsSection(k, FiltersAt(j)) = IsSection(j, FiltersAt(j))) /\ Keys(k, FiltersAt(j)) = Keys(j, FiltersAt(j))
  BY <1>1, SameTree
<1>5. \A key : FilterName(k, key) = FilterName(j, key)
  BY <1>1, SameFilterNames
<1>6. QED
  BY <1>2, <1>3, <1>4, <1>5 DEF SomeFilters

LEMMA SameServed ==
  ASSUME NEW j, NEW k, Goes(j, k), k.master = j.master, k.slave = j.slave, Served(j)
  PROVE  Served(k)
<1>1. k.tree = j.tree /\ k.hosts = j.hosts /\ k.env = j.env /\ k.fabric = j.fabric
  BY DEF Goes
<1>2. k["master"] = j["master"] /\ k["slave"] = j["slave"]
  OBVIOUS
<1>3. QED
  BY <1>1, <1>2, SameAll DEF Served

LEMMA SameFilters ==
  ASSUME NEW j, NEW k, Goes(j, k), k.filters = j.filters, AllFilters(j)
  PROVE  AllFilters(k)
<1>1. k.tree = j.tree /\ k.section = j.section
  BY DEF Goes
<1>2. QED
  BY <1>1, SameFilterNames DEF AllFilters

LEMMA ReadsProgress ==
  ASSUME NEW j, NEW k, Ready(j), Whole(j), j.stop = "no", Progress(j), Reads(j, k)
  PROVE  Progress(k)
<1>1. Keeps(j, k) /\ Goes(j, k)
  BY ReadsKeeps DEF Keeps
<1>2. k.step = j.step /\ k.filters = j.filters /\ k.fabric = j.fabric /\ k.env = j.env
      /\ k.master = j.master /\ k.slave = j.slave /\ (j.bad => k.bad) /\ k.stop \in {"no", "fatal"}
  BY DEF Reads
<1>3. CASE k.stop = "fatal"
  BY <1>3 DEF Progress
<1>4. CASE k.stop = "no"
  <2>1. k["master"] = j["master"] /\ k["slave"] = j["slave"]
    BY <1>2
  <2>2. NoFilters(j) => NoFilters(k)
    BY <1>1, <1>2, KeptNone
  <2>3. (NoServers(j, "master") => NoServers(k, "master")) /\ (NoServers(j, "slave") => NoServers(k, "slave"))
    BY <1>1, <2>1, KeptNone
  <2>4. (SomeServers(j, "master") => SomeServers(k, "master")) /\ (SomeServers(j, "slave") => SomeServers(k, "slave"))
    BY <1>1, <2>1, KeptNone
  <2>5. AllServers(j, "master") => AllServers(k, "master")
    BY <1>1, <2>1, SameAll DEF Goes
  <2>6. (Served(j) => Served(k)) /\ (AllFilters(j) => AllFilters(k))
    BY <1>1, <1>2, SameServed, SameFilters
  <2>7. SomeFilters(j) => SomeFilters(k)
    BY <1>1, <1>2, KeptFilters
  <2>8. OnlyFirst(k, "master") = OnlyFirst(j, "master")
    BY <1>2 DEF OnlyFirst
  <2>9. QED
    BY <1>2, <1>4, <2>2, <2>3, <2>4, <2>5, <2>6, <2>7, <2>8 DEF Progress
<1>5. QED
  BY <1>2, <1>3, <1>4

LEMMA StoppedProgress ==
  ASSUME NEW j, j.stop \notin {"no", "PASS"} \/ (j.stop = "PASS" /\ j.err)
  PROVE  Progress(j)
  BY DEF Progress

LEMMA SlaveProgress ==
  ASSUME NEW j, j.stop = "no", j.step = "slave", AllServers(j, "master"), SomeServers(j, "slave"), NoFilters(j)
  PROVE  Progress(j)
  BY DEF Progress

LEMMA FiltersProgress ==
  ASSUME NEW j, j.stop = "no", j.step = "filters", Served(j), SomeFilters(j)
  PROVE  Progress(j)
  BY DEF Progress

LEMMA EndProgress ==
  ASSUME NEW k, Ready(k), Whole(k), NEW l \in {"master", "slave"}, k.stop \in {"no", "fatal"}, k.step = l,
         k.stop = "no" /\ ~k.bad => AllServers(k, l) /\ NoFilters(k),
         k.stop = "no" /\ ~k.bad /\ l = "master" => NoServers(k, "slave"),
         k.stop = "no" /\ ~k.bad /\ l = "slave" => AllServers(k, "master")
  PROVE  Keeps(k, EndOfList(k, l)) /\ Progress(EndOfList(k, l))
<1> DEFINE e == EndOfList(k, l)
<1>0. DOMAIN k = JobFields
  BY DEF Ready
<1>1. /\ DOMAIN e = JobFields
      /\ \A f \in JobFields \ {"stop", "step"} : e[f] = k[f]
      /\ k.stop # "no" => e = k
      /\ k.stop = "no" => \/ e.stop = "FAIL" /\ e.step = k.step
                          \/ e.stop = "PASS" /\ k.err /\ e.step = k.step
                          \/ ~k.bad /\ e.stop = "no" /\ e.step = IF l = "master" THEN "slave" ELSE "filters"
  <2>1. CASE k.stop # "no"
    BY <1>0, <2>1 DEF EndOfList
  <2>2. CASE k.stop = "no" /\ k.bad
    BY <1>0, <2>2 DEF EndOfList, Ends, JobFields
  <2>3. CASE k.stop = "no" /\ ~k.bad /\ k.err
    BY <1>0, <2>3 DEF EndOfList, Ends, JobFields
  <2>4. CASE k.stop = "no" /\ ~k.bad /\ ~k.err
    BY <1>0, <2>4 DEF EndOfList, JobFields
  <2>5. QED
    BY <2>1, <2>2, <2>3, <2>4
<1> HIDE DEF e
<1>2. Keeps(k, e)
  <2>1. e.step \in Steps
    BY <1>1 DEF Ready, Steps
  <2>2. QED
    BY <1>1, <2>1, EndsWell
<1>3. (k.err => e.err) /\ e.filters = k.filters /\ e["master"] = k["master"] /\ e["slave"] = k["slave"]
  BY <1>1 DEF JobFields
<1>4. ASSUME k.stop # "no"
      PROVE  Progress(e)
  <2>1. e = k /\ k.stop = "fatal"
    BY <1>1, <1>4
  <2>2. QED
    BY <2>1, StoppedProgress
<1>5. ASSUME k.stop = "no" /\ e.stop # "no"
      PROVE  Progress(e)
  <2>1. e.stop = "FAIL" \/ (e.stop = "PASS" /\ k.err)
    BY <1>1, <1>5
  <2>2. QED
    BY <1>3, <2>1, StoppedProgress
<1>6. ASSUME k.stop = "no" /\ e.stop = "no"
      PROVE  Progress(e)
  <2>1. ~k.bad /\ e.step = IF l = "master" THEN "slave" ELSE "filters"
    BY <1>1, <1>6
  <2>2. NoFilters(e) /\ AllServers(e, l) /\ Ready(e) /\ Whole(e)
    <3>1. NoFilters(e)
      BY <1>2, <1>3, <1>6, <2>1, KeptNone
    <3>2. AllServers(e, l)
      BY <1>2, <1>3, <1>6, <2>1, SameAll DEF Keeps, Goes
    <3>3. QED
      BY <1>2, <3>1, <3>2, GoesReady, WholeStill DEF Keeps
  <2>3. CASE l = "master"
    <3>1. NoServers(e, "slave")
      BY <1>2, <1>3, <1>6, <2>1, <2>3, KeptNone
    <3>2. SomeServers(e, "slave")
      BY <2>2, <3>1, SomeOfNone
    <3>3. QED
      BY <1>6, <2>1, <2>2, <2>3, <3>2, SlaveProgress
  <2>4. CASE l = "slave"
    <3>1. AllServers(e, "master")
      BY <1>2, <1>3, <1>6, <2>1, <2>4, SameAll DEF Keeps, Goes
    <3>2. SomeFilters(e)
      BY <2>2, SomeOfNoFilters
    <3>3. QED
      BY <1>6, <2>1, <2>2, <2>4, <3>1, <3>2, FiltersProgress DEF Served
  <2>5. QED
    BY <2>3, <2>4
<1>7. QED
  BY <1>2, <1>4, <1>5, <1>6 DEF e

\* What Progress says of a job that is at a list.
LEMMA AtList ==
  ASSUME NEW j, j.stop = "no", NEW l \in {"master", "slave"}, j.step = l, Progress(j), ~j.bad
  PROVE  /\ SomeServers(j, l) /\ NoFilters(j) /\ (OnlyFirst(j, l) => j[l] = <<>>)
         /\ l = "master" => NoServers(j, "slave")
         /\ l = "slave" => AllServers(j, "master")
<1>1. CASE l = "master"
  BY <1>1 DEF Progress
<1>2. CASE l = "slave"
  BY <1>2 DEF Progress, OnlyFirst
<1>3. QED
  BY <1>1, <1>2

LEMMA NoListEnds ==
  ASSUME NEW j, Ready(j), NEW l \in {"master", "slave"}, SomeServers(j, l), ~IsSection(j, ListAt(j, l))
  PROVE  AllServers(j, l)
<1>1. j[l] = <<>>
  BY DEF SomeServers, IsObjectList
<1>2. ListedNames(j, ListAt(j, l)) = <<>>
  BY DEF ListedNames
<1>3. Names(<<>>) = <<>>
  <2>1. IsSeq(<<>>) /\ Len(<<>>) = 0
    BY DEF IsSeq
  <2>2. QED
    BY <2>1, NamesFollow
<1>4. QED
  BY <1>1, <1>2, <1>3 DEF AllServers

LEMMA FullListEnds ==
  ASSUME NEW j, Ready(j), Whole(j), NEW l \in {"master", "slave"}, SomeServers(j, l),
         IsObjectList(j, ListAt(j, l)), AtEnd(j, ListAt(j, l)), OnlyFirst(j, l) => j[l] = <<>>
  PROVE  AllServers(j, l)
<1> DEFINE keys == Keys(j, ListAt(j, l))
<1>1. IsSection(j, ListAt(j, l)) /\ IsSeq(keys)
  BY DEF IsObjectList, Ready
<1>2. IsSeq(j[l]) /\ Len(j[l]) = Len(keys) /\ \A i \in 1 .. Len(j[l]) : j[l][i].name = keys[i]
  BY DEF SomeServers, AtEnd
<1>3. ListedNames(j, ListAt(j, l)) = keys
  BY <1>1 DEF ListedNames
<1> HIDE DEF keys
<1>4. Names(j[l]) = keys
  BY <1>1, <1>2, NamesFollow
<1>5. OnlyFirst(j, l) => keys = <<>>
  <2> SUFFICES ASSUME OnlyFirst(j, l)
               PROVE  keys = <<>>
    OBVIOUS
  <2>1. Len(keys) = 0
    <3>1. Len(<<>>) = 0
      OBVIOUS
    <3>2. QED
      BY <1>2, <3>1
  <2>2. PICK S : keys \in Seq(S)
    BY <1>1 DEF IsSeq
  <2>3. QED
    BY <2>1, <2>2
<1>6. QED
  BY <1>3, <1>4, <1>5 DEF AllServers

\* The one server of a list that is no list of servers.
LEMMA LoneServer ==
  ASSUME NEW j, Ready(j), NEW l \in {"master", "slave"}, SomeServers(j, l),
         IsSection(j, ListAt(j, l)), ~IsObjectList(j, ListAt(j, l)),
         NEW k, Goes(j, k), NEW c, k[l] = Append(j[l], [name |-> "", cred |-> c])
  PROVE  AllServers(k, l)
<1>1. j[l] = <<>>
  BY DEF SomeServers
<1>2. Names(k[l]) = <<"">>
  <2> DEFINE e == [name |-> "", cred |-> c]
  <2>1. e.name = ""
    OBVIOUS
  <2> HIDE DEF e
  <2>2. Names(Append(<<>>, e)) = <<"">>
    BY <2>1, NamesOne
  <2>3. QED
    BY <1>1, <2>2 DEF e
<1>3. k.tree = j.tree /\ k.hosts = j.hosts
  BY DEF Goes
<1>4. ListedNames(k, ListAt(k, l)) = <<"">>
  <2>1. ListAt(k, l) = ListAt(j, l)
    BY <1>3 DEF ListAt
  <2>2. ListedNames(j, ListAt(j, l)) = <<"">>
    BY DEF ListedNames
  <2>3. QED
    BY <1>3, <2>1, <2>2, SameTree
<1> DEFINE names == <<"">>
<1>5. names[1] = "" /\ names = <<"">>
  OBVIOUS
<1>6. QED
  BY <1>2, <1>4, <1>5 DEF AllServers

LEMMA AdvanceGoes ==
  ASSUME NEW j, Ready(j), NEW paths
  PROVE  /\ Goes(j, Advance(j, paths)) /\ Ready(Advance(j, paths))
         /\ \A f \in JobFields \ {"cur"} : Advance(j, paths)[f] = j[f]
         /\ \A p \in DOMAIN j.cur \ paths : Advance(j, paths).cur[p] = j.cur[p]
<1> DEFINE k == Advance(j, paths)
<1>1. Goes(j, k) /\ (\A f \in JobFields \ {"cur"} : k[f] = j[f])
      /\ \A p \in DOMAIN j.cur \ paths : k.cur[p] = j.cur[p]
  BY DEF Ready, Goes, JobFields, Advance, AtEnd
<1> HIDE DEF k
<1>2. Ready(k)
  BY <1>1, GoesReady
<1>3. QED
  BY <1>1, <1>2 DEF k

LEMMA EndGoes ==
  ASSUME NEW k, Ready(k), NEW l \in {"master", "slave"}
  PROVE  Goes(k, EndOfList(k, l)) /\ Goes(k, AfterServer(k, l))
<1> DEFINE e == EndOfList(k, l)
<1>1. DOMAIN e = JobFields /\ e.step \in Steps /\ \A f \in JobFields \ {"stop", "step"} : e[f] = k[f]
  BY DEF EndOfList, Ends, Ready, JobFields, Steps
<1> HIDE DEF e
<1>2. Goes(k, e)
  BY <1>1, EndsWell DEF Keeps
<1>3. Goes(k, k)
  BY ReadsItself, ReadsKeeps DEF Keeps
<1>4. AfterServer(k, l) = k \/ AfterServer(k, l) = e
  BY DEF AfterServer, e
<1>5. QED
  BY <1>2, <1>3, <1>4 DEF e

\* The path of a server.
LEMMA ServerPath ==
  ASSUME NEW j, Ready(j), NEW l, NEW key
  PROVE  /\ IsSeq(ListAt(j, l)) /\ Len(ListAt(j, l)) > 1
         /\ IsSeq(Append(ListAt(j, l), key)) /\ Len(Append(ListAt(j, l), key)) > 1
<1>1. IsSeq(ListAt(j, l)) /\ Len(ListAt(j, l)) = 2
  BY ListPaths
<1> DEFINE p == ListAt(j, l)
<1> HIDE DEF p
<1>2. IsSeq(p) /\ Len(p) = 2
  BY <1>1 DEF p
<1>3. IsSeq(Append(p, key)) /\ Len(Append(p, key)) = Len(p) + 1
  BY <1>2, SeqAppend
<1>4. Len(Append(p, key)) = 3
  BY <1>2, <1>3
<1>5. QED
  BY <1>2, <1>3, <1>4 DEF p

LEMMA NextServerGoes ==
  ASSUME NEW j, Ready(j), j.stop = "no", NEW l \in {"master", "slave"}
  PROVE  Goes(j, NextServer(j, l))
<1> DEFINE p == ListAt(j, l)
           lone == AddServer(j, l, p, "")
           i == Advance(j, {p})
           key == CurrentKey(j, p)
           s == AddServer(i, l, Append(p, key), key)
<1>1. NextServer(j, l) \in {EndOfList(j, l), EndOfList(lone, l), AfterServer(s, l)}
  BY DEF NextServer, ListAt
<1>2. Goes(j, lone) /\ Ready(lone)
  <2>1. Serves(j, lone, l, "")
    BY ServerPath, AddServerServes
  <2> HIDE DEF lone
  <2>2. QED
    BY <2>1, ServesKeeps, GoesReady DEF Keeps
<1>3. Goes(j, i) /\ Ready(i) /\ i.stop = "no"
  BY AdvanceGoes DEF JobFields
<1>4. IsSeq(Append(p, key)) /\ Len(Append(p, key)) > 1
  BY ServerPath
<1> HIDE DEF i, key, p, lone
<1>5. Goes(i, s) /\ Ready(s)
  <2>1. Serves(i, s, l, key)
    BY <1>3, <1>4, AddServerServes
  <2> HIDE DEF s
  <2>2. QED
    BY <1>3, <2>1, ServesKeeps, GoesReady DEF Keeps
<1> HIDE DEF s
<1>6. Goes(j, s)
  BY <1>3, <1>5, GoesOn
<1>7. Goes(j, EndOfList(j, l)) /\ Goes(j, EndOfList(lone, l)) /\ Goes(j, AfterServer(s, l))
  BY <1>2, <1>5, <1>6, EndGoes, GoesOn
<1>8. QED
  BY <1>1, <1>7

LEMMA LoneProgress ==
  ASSUME NEW j, Ready(j), Whole(j), j.stop = "no", NEW l \in {"master", "slave"}, j.step = l, Progress(j),
         IsSection(j, ListAt(j, l)), ~IsObjectList(j, ListAt(j, l))
  PROVE  Progress(EndOfList(AddServer(j, l, ListAt(j, l), ""), l))
<1> DEFINE s == AddServer(j, l, ListAt(j, l), "")
<1>1. Serves(j, s, l, "")
  BY ServerPath, AddServerServes
<1> HIDE DEF s
<1>2. Keeps(j, s) /\ Goes(j, s) /\ Ready(s) /\ Whole(s)
  BY <1>1, ServesKeeps, GoesReady, WholeStill DEF Keeps
<1>3. /\ s.filters = j.filters /\ (\A m \in {"master", "slave"} \ {l} : s[m] = j[m]) /\ s.step = l
      /\ (j.bad => s.bad) /\ s.stop \in {"no", "fatal"}
      /\ s.stop = "no" /\ ~s.bad => \E c : s[l] = Append(j[l], [name |-> "", cred |-> c])
  BY <1>1 DEF Serves
<1>4. ASSUME s.stop = "no", ~s.bad
      PROVE  /\ AllServers(s, l) /\ NoFilters(s)
             /\ l = "master" => NoServers(s, "slave")
             /\ l = "slave" => AllServers(s, "master")
  <2>1. /\ SomeServers(j, l) /\ NoFilters(j)
        /\ l = "master" => NoServers(j, "slave")
        /\ l = "slave" => AllServers(j, "master")
    BY <1>3, <1>4, AtList
  <2>2. AllServers(s, l)
    BY <1>2, <1>3, <1>4, <2>1, LoneServer
  <2>3. NoFilters(s) /\ (l = "master" => NoServers(s, "slave"))
    BY <1>2, <1>3, <2>1, KeptNone
  <2>4. l = "slave" => AllServers(s, "master")
    BY <1>2, <1>3, <2>1, SameAll DEF Goes
  <2>5. QED
    BY <2>2, <2>3, <2>4
<1>5. Progress(EndOfList(s, l))
  BY <1>2, <1>3, <1>4, EndProgress
<1>6. QED
  BY <1>5 DEF s

\* One more server of a list has been tried.
LEMMA MoreServers ==
  ASSUME NEW j, Ready(j), Whole(j), NEW l \in {"master", "slave"}, SomeServers(j, l),
         IsObjectList(j, ListAt(j, l)), ~AtEnd(j, ListAt(j, l)),
         NEW k, Goes(j, k), k.cur[ListAt(j, l)] = j.cur[ListAt(j, l)] + 1,
         NEW c, k[l] = Append(j[l], [name |-> CurrentKey(j, ListAt(j, l)), cred |-> c])
  PROVE  SomeServers(k, l) /\ (OnlyFirst(j, l) /\ j[l] = <<>> => AllServers(k, l))
<1> DEFINE p == ListAt(j, l)
           keys == Keys(j, p)
           e == [name |-> CurrentKey(j, p), cred |-> c]
           n == Len(j[l])
<1>1. k.tree = j.tree /\ k.hosts = j.hosts /\ k.env = j.env
  BY DEF Goes
<1>2. ListAt(k, l) = p /\ IsObjectList(k, p) /\ Keys(k, p) = keys /\ ListedNames(k, p) = keys
  <2>1. ListAt(k, l) = p
    BY <1>1 DEF ListAt
  <2>2. IsObjectList(k, p) /\ Keys(k, p) = keys
    BY <1>1, SameTree
  <2>3. ListedNames(k, p) = keys
    BY <2>2 DEF ListedNames, IsObjectList
  <2>4. QED
    BY <2>1, <2>2, <2>3
<1>3. /\ IsSeq(j[l]) /\ n = j.cur[p] /\ n \in Nat
      /\ \A i \in 1 .. n : j[l][i].name = keys[i]
  <2>1. IsSeq(j[l]) /\ n = j.cur[p] /\ \A i \in 1 .. n : j[l][i].name = keys[i]
    BY DEF SomeServers
  <2>2. n \in Nat
    BY <2>1, SeqAppend
  <2>3. QED
    BY <2>1, <2>2
<1>4. e.name = keys[n + 1]
  BY <1>3 DEF CurrentKey
<1> HIDE DEF e
<1>5. /\ IsSeq(k[l]) /\ Len(k[l]) = n + 1 /\ k[l][n + 1] = e
      /\ \A i \in 1 .. n : k[l][i] = j[l][i]
  <2>1. k[l] = Append(j[l], e)
    BY DEF e
  <2>2. QED
    BY <1>3, <2>1, SeqAppend
<1>6. \A i \in 1 .. n + 1 : k[l][i].name = keys[i]
  <2> SUFFICES ASSUME NEW i \in 1 .. n + 1
               PROVE  k[l][i].name = keys[i]
    OBVIOUS
  <2> HIDE DEF n, keys
  <2>1. CASE i = n + 1
    BY <1>4, <1>5, <2>1
  <2>2. CASE i # n + 1
    <3>1. i \in 1 .. n
      BY <1>3, <2>2
    <3>2. QED
      BY <1>3, <1>5, <3>1
  <2>3. QED
    BY <2>1, <2>2
<1>7. SomeServers(k, l)
  <2>1. k.cur[p] = n + 1
    BY <1>3
  <2>2. QED
    BY <1>2, <1>5, <1>6, <2>1 DEF SomeServers
<1>8. ASSUME OnlyFirst(j, l), j[l] = <<>>
      PROVE  AllServers(k, l)
  <2>1. Names(k[l]) = <<keys[1]>>
    <3>1. n = 0
      BY <1>8
    <3>2. e.name = keys[1]
      BY <1>4, <3>1
    <3>3. k[l] = Append(<<>>, e)
      BY <1>8 DEF e
    <3>4. QED
      BY <3>2, <3>3, NamesOne
  <2>2. keys # <<>>
    <3>1. n = 0 /\ n # Len(keys)
      BY <1>3, <1>8 DEF AtEnd
    <3>2. QED
      BY <3>1
  <2>3. OnlyFirst(k, l)
    BY <1>1, <1>8 DEF OnlyFirst
  <2>4. QED
    BY <1>2, <2>1, <2>2, <2>3 DEF AllServers
<1>9. QED
  BY <1>7, <1>8

LEMMA MasterProgress ==
  ASSUME NEW j, j.stop = "no", j.step = "master", SomeServers(j, "master"), NoServers(j, "slave"), NoFilters(j),
         OnlyFirst(j, "master") => j.master = <<>>
  PROVE  Progress(j)
  BY DEF Progress

LEMMA ServerProgress ==
  ASSUME NEW j, Ready(j), Whole(j), j.stop = "no", NEW l \in {"master", "slave"}, j.step = l, Progress(j),
         IsObjectList(j, ListAt(j, l)), ~AtEnd(j, ListAt(j, l))
  PROVE  LET p == ListAt(j, l)
             key == CurrentKey(j, p)
         IN Progress(AfterServer(AddServer(Advance(j, {p}), l, Append(p, key), key), l))
<1> DEFINE p == ListAt(j, l)
           key == CurrentKey(j, p)
           i == Advance(j, {p})
           s == AddServer(i, l, Append(p, key), key)
<1>1. /\ Goes(j, i) /\ Ready(i) /\ Whole(i)
      /\ \A f \in JobFields \ {"cur"} : i[f] = j[f]
      /\ \A q \in DOMAIN j.cur : q # p => i.cur[q] = j.cur[q]
  <2>1. Goes(j, i) /\ Ready(i) /\ (\A f \in JobFields \ {"cur"} : i[f] = j[f])
        /\ \A q \in DOMAIN j.cur \ {p} : i.cur[q] = j.cur[q]
    BY AdvanceGoes
  <2> HIDE DEF i
  <2>2. QED
    BY <2>1, WholeStill
<1>2. p \in DOMAIN j.cur /\ IsList(p) /\ i.cur[p] = j.cur[p] + 1
  <2>1. p \in DOMAIN j.cur
    BY Placed DEF IsObjectList
  <2>2. IsList(p)
    BY ListsAreLists
  <2>3. i.cur[p] = j.cur[p] + 1
    BY <2>1 DEF Advance, Ready, JobFields
  <2>4. QED
    BY <2>1, <2>2, <2>3
<1>3. IsSeq(Append(p, key)) /\ Len(Append(p, key)) > 1
  BY ServerPath
<1>4. i.stop = "no" /\ i.filters = j.filters /\ i["master"] = j["master"] /\ i["slave"] = j["slave"]
      /\ i.step = l /\ (j.bad => i.bad)
  BY <1>1 DEF JobFields
<1> HIDE DEF i, p, key
<1>5. Serves(i, s, l, key)
  BY <1>1, <1>3, <1>4, AddServerServes
<1> HIDE DEF s
<1>6. Keeps(i, s) /\ Goes(j, s) /\ Ready(s) /\ Whole(s)
  BY <1>1, <1>5, ServesKeeps, GoesOn, GoesReady, WholeStill DEF Keeps
<1>7. /\ s.filters = i.filters /\ (\A m \in {"master", "slave"} \ {l} : s[m] = i[m]) /\ s.step = l
      /\ (j.bad => s.bad) /\ s.stop \in {"no", "fatal"}
      /\ s.stop = "no" /\ ~s.bad => \E c : s[l] = Append(i[l], [name |-> key, cred |-> c])
  BY <1>4, <1>5 DEF Serves
<1>8. ASSUME s.stop = "no", ~s.bad
      PROVE  /\ SomeServers(s, l) /\ NoFilters(s) /\ (OnlyFirst(j, l) => AllServers(s, l))
             /\ l = "master" => NoServers(s, "slave")
             /\ l = "slave" => AllServers(s, "master")
  <2>1. /\ SomeServers(j, l) /\ NoFilters(j) /\ (OnlyFirst(j, l) => j[l] = <<>>)
        /\ l = "master" => NoServers(j, "slave")
        /\ l = "slave" => AllServers(j, "master")
    BY <1>7, <1>8, AtList
  <2>2. PICK c : s[l] = Append(j[l], [name |-> key, cred |-> c])
    BY <1>4, <1>7, <1>8
  <2>3. s.cur[p] = j.cur[p] + 1
    <3>1. p \in DOMAIN i.cur
      BY <1>1, <1>2 DEF Goes
    <3>2. QED
      BY <1>2, <1>6, <3>1 DEF Keeps
  <2>4. SomeServers(s, l) /\ (OnlyFirst(j, l) => AllServers(s, l))
    BY <1>6, <2>1, <2>2, <2>3, MoreServers DEF p, key
  <2>5. NoFilters(i) /\ (l = "master" => NoServers(i, "slave"))
    <3>1. FiltersAt(j) # p /\ FiltersAt(i) = FiltersAt(j)
      BY <1>1, ListsAreLists, SamePaths DEF Goes, p
    <3>2. NoFilters(i)
      BY <1>1, <1>4, <2>1, <3>1 DEF NoFilters, Untouched, Goes
    <3>3. ASSUME l = "master"
          PROVE  NoServers(i, "slave")
      <4>1. ListAt(j, "slave") # p /\ ListAt(i, "slave") = ListAt(j, "slave")
        BY <1>1, <3>3, ListsAreLists, SamePaths DEF Goes, p
      <4>2. QED
        BY <1>1, <1>4, <2>1, <3>3, <4>1 DEF NoServers, Untouched, Goes
    <3>4. QED
      BY <3>2, <3>3
  <2>6. NoFilters(s) /\ (l = "master" => NoServers(s, "slave"))
    BY <1>1, <1>6, <1>7, <2>5, KeptNone
  <2>7. l = "slave" => AllServers(s, "master")
    BY <1>4, <1>6, <1>7, <2>1, SameAll DEF Goes
  <2>8. QED
    BY <2>4, <2>6, <2>7
<1>9. OnlyFirst(s, l) = OnlyFirst(j, l) /\ (OnlyFirst(j, l) <=> l = "master" /\ ~s.env.multiMaster)
  BY <1>6 DEF Goes, OnlyFirst
<1>10. ASSUME OnlyFirst(j, l)
       PROVE  Progress(AfterServer(s, l))
  <2>1. AfterServer(s, l) = EndOfList(s, l)
    BY <1>9, <1>10 DEF AfterServer
  <2>2. Progress(EndOfList(s, l))
    BY <1>6, <1>7, <1>8, <1>10, EndProgress
  <2>3. QED
    BY <2>1, <2>2
<1>11. ASSUME ~OnlyFirst(j, l)
       PROVE  Progress(AfterServer(s, l))
  <2>1. AfterServer(s, l) = s
    BY <1>9, <1>11 DEF AfterServer
  <2>2. CASE s.stop = "fatal"
    BY <2>1, <2>2, StoppedProgress
  <2>3. CASE s.stop = "no" /\ s.bad
    <3>1. Progress(s)
      BY <1>7, <2>3 DEF Progress
    <3>2. QED
      BY <2>1, <3>1
  <2>4. CASE s.stop = "no" /\ ~s.bad
    <3>1. CASE l = "master"
      BY <1>7, <1>8, <1>9, <1>11, <2>1, <2>4, <3>1, MasterProgress
    <3>2. CASE l = "slave"
      BY <1>7, <1>8, <2>1, <2>4, <3>2, SlaveProgress
    <3>3. QED
      BY <3>1, <3>2
  <2>5. QED
    BY <1>7, <2>2, <2>3, <2>4
<1>12. Progress(AfterServer(s, l))
  BY <1>10, <1>11
<1>13. QED
  BY <1>12 DEF s, i, p, key

LEMMA NextServerProgress ==
  ASSUME NEW j, Ready(j), Whole(j), j.stop = "no", NEW l \in {"master", "slave"}, j.step = l, Progress(j)
  PROVE  Progress(NextServer(j, l))
<1> DEFINE p == ListAt(j, l)
<1>1. ASSUME ~IsSection(j, p) \/ (IsObjectList(j, p) /\ AtEnd(j, p))
      PROVE  Progress(EndOfList(j, l))
  <2>1. ASSUME ~j.bad
        PROVE  /\ AllServers(j, l) /\ NoFilters(j)
               /\ l = "master" => NoServers(j, "slave")
               /\ l = "slave" => AllServers(j, "master")
    <3>1. /\ SomeServers(j, l) /\ NoFilters(j) /\ (OnlyFirst(j, l) => j[l] = <<>>)
          /\ l = "master" => NoServers(j, "slave")
          /\ l = "slave" => AllServers(j, "master")
      BY <2>1, AtList
    <3>2. AllServers(j, l)
      BY <1>1, <3>1, NoListEnds, FullListEnds
    <3>3. QED
      BY <3>1, <3>2
  <2>2. QED
    BY <2>1, EndProgress
<1>2. CASE ~IsSection(j, p)
  BY <1>1, <1>2 DEF NextServer, ListAt
<1>3. CASE IsSection(j, p) /\ ~IsObjectList(j, p)
  BY <1>3, LoneProgress DEF NextServer, ListAt
<1>4. CASE IsObjectList(j, p) /\ AtEnd(j, p)
  BY <1>1, <1>4 DEF NextServer, ListAt
<1>5. CASE IsSection(j, p) /\ IsObjectList(j, p) /\ ~AtEnd(j, p)
  BY <1>5, ServerProgress DEF NextServer, ListAt
<1>6. QED
  BY <1>2, <1>3, <1>4, <1>5

(* The filters.                                                            *)
Adds(j, k, name) ==
  /\ Keeps(j, k)
  /\ k.step = j.step /\ k.master = j.master /\ k.slave = j.slave
  /\ k.stop \in {"no", "fatal", "FAIL"}
  /\ k.stop = "no" =>
       /\ name \in DOMAIN Multi
       /\ j.filters = <<>> \/ Multi[Last(j.filters).name]
       /\ \E d : k.filters = Append(j.filters, [name |-> name, data |-> d])

LEMMA EndsAdds ==
  ASSUME NEW j, Ready(j), NEW name
  PROVE  Adds(j, Ends(j, "FAIL"), name)
<1> DEFINE k == Ends(j, "FAIL")
<1>1. DOMAIN k = JobFields /\ k.step = j.step /\ k.stop = "FAIL"
      /\ \A f \in JobFields \ {"stop", "step", "filters", "made", "urls", "err"} : k[f] = j[f]
  BY DEF Ends, Ready, JobFields
<1> HIDE DEF k
<1>2. Keeps(j, k)
  BY <1>1, EndsWell DEF Ready
<1>3. Adds(j, k, name)
  BY <1>1, <1>2 DEF Adds, JobFields
<1>4. QED
  BY <1>3 DEF k

LEMMA AddFilterAdds ==
  ASSUME NEW j, Ready(j), j.stop = "no", NEW name, NEW p, Deep(p) \/ (p = Null /\ name = "random")
  PROVE  Adds(j, AddFilter(j, name, p), name)
<1> DEFINE c == Construct(j, name, p)
           entry == [name |-> name, data |-> c.made]
           k == [c EXCEPT !.filters = Append(@, entry), !.made = Null]
<1>1. CASE name \notin DOMAIN Multi \/ (j.filters # <<>> /\ ~Multi[Last(j.filters).name])
  <2>1. AddFilter(j, name, p) = Ends(j, "FAIL")
    BY <1>1 DEF AddFilter
  <2>2. QED
    BY <2>1, EndsAdds
<1>2. CASE name \in DOMAIN Multi /\ (j.filters = <<>> \/ Multi[Last(j.filters).name])
  <2>1. AddFilter(j, name, p) = IF c.stop # "no" THEN c ELSE k
    BY <1>2 DEF AddFilter, Constructed
  <2>2. Reads(j, c)
    BY <1>2, ConstructReads
  <2>3. Keeps(j, c) /\ Ready(c)
    BY <2>2, ReadsKeeps, ReadyStill
  <2> HIDE DEF c, entry
  <2>4. CASE c.stop # "no"
    BY <2>1, <2>2, <2>3, <2>4 DEF Adds, Reads
  <2>5. CASE c.stop = "no"
    <3>1. /\ DOMAIN k = JobFields /\ k.step = c.step /\ k.stop = c.stop
          /\ k.master = c.master /\ k.slave = c.slave
          /\ \A f \in JobFields \ {"stop", "step", "filters", "made", "urls", "err"} : k[f] = c[f]
          /\ k.filters = Append(c.filters, entry)
      BY <2>3 DEF Ready, JobFields
    <3> HIDE DEF k
    <3>2. Keeps(c, k)
      BY <2>3, <3>1, EndsWell DEF Ready
    <3>3. Keeps(j, k)
      BY <2>3, <3>2, KeepsOn
    <3>4. c.step = j.step /\ c.master = j.master /\ c.slave = j.slave /\ c.filters = j.filters
      BY <2>2 DEF Reads
    <3>5. \E d : k.filters = Append(j.filters, [name |-> name, data |-> d])
      BY <3>1, <3>4 DEF entry
    <3>6. Adds(j, k, name)
      BY <1>2, <2>5, <3>1, <3>3, <3>4, <3>5 DEF Adds
    <3>7. QED
      BY <2>1, <2>5, <3>6
  <2>6. QED
    BY <2>4, <2>5
<1>3. QED
  BY <1>1, <1>2

LEMMA FiltersDoneKeeps ==
  ASSUME NEW j, Ready(j)
  PROVE  /\ Keeps(j, FiltersDone(j))
         /\ FiltersDone(j).filters = j.filters /\ FiltersDone(j).master = j.master
         /\ FiltersDone(j).slave = j.slave /\ FiltersDone(j).stop = j.stop
         /\ j.stop = "no" => FiltersDone(j).step = "strategy"
<1> DEFINE k == FiltersDone(j)
<1>1. /\ DOMAIN k = JobFields /\ k.step \in Steps
      /\ \A f \in JobFields \ {"step"} : k[f] = j[f]
      /\ j.stop = "no" => k.step = "strategy"
  BY DEF FiltersDone, Ready, JobFields, Steps
<1> HIDE DEF k
<1>2. Keeps(j, k)
  BY <1>1, EndsWell
<1>3. k.filters = j.filters /\ k.master = j.master /\ k.slave = j.slave /\ k.stop = j.stop
  BY <1>1 DEF JobFields
<1>4. QED
  BY <1>1, <1>2, <1>3 DEF k

\* The path of a filter.
LEMMA FilterPath ==
  ASSUME NEW j, Ready(j), NEW key
  PROVE  Deep(Append(FiltersAt(j), key))
<1> DEFINE p == FiltersAt(j)
<1>1. IsSeq(p) /\ Len(p) = 2
  BY ListPaths
<1> HIDE DEF p
<1>2. IsSeq(Append(p, key)) /\ Len(Append(p, key)) = Len(p) + 1
  BY <1>1, SeqAppend
<1>3. Len(Append(p, key)) = 3
  BY <1>1, <1>2
<1> DEFINE q == Append(p, key)
<1> HIDE DEF q
<1>4. IsSeq(q) /\ Len(q) = 3 => Deep(q)
  BY DEF Deep
<1>5. QED
  BY <1>2, <1>3, <1>4 DEF p, q

LEMMA StrategyProgress ==
  ASSUME NEW j, j.stop = "no", j.step = "strategy", Served(j), AllFilters(j)
  PROVE  Progress(j)
  BY DEF Progress

LEMMA NextFilterGoes ==
  ASSUME NEW j, Ready(j), j.stop = "no"
  PROVE  Goes(j, NextFilter(j))
<1> DEFINE p == FiltersAt(j)
           i == Advance(j, {p})
           key == CurrentKey(j, p)
           entry == Append(p, key)
           name == IF key \in ToSet(Index) THEN Node(j, entry).str ELSE key
           random == AddFilter(j, "random", Null)
           named == AddFilter(i, name, entry)
<1>1. NextFilter(j) \in {FiltersDone(random), Ends(j, "FAIL"), FiltersDone(j), Ends(i, "FAIL"), named}
  BY DEF NextFilter, FiltersAt
<1>2. Goes(j, i) /\ Ready(i) /\ i.stop = "no"
  BY AdvanceGoes DEF JobFields
<1>3. Deep(entry)
  BY FilterPath
<1> HIDE DEF i, entry, name
<1>4. Goes(j, random) /\ Ready(random)
  <2>1. Adds(j, random, "random")
    BY AddFilterAdds
  <2> HIDE DEF random
  <2>2. QED
    BY <2>1, GoesReady DEF Adds, Keeps
<1> HIDE DEF random
<1>5. Goes(j, FiltersDone(random)) /\ Goes(j, FiltersDone(j))
  BY <1>4, FiltersDoneKeeps, GoesOn DEF Keeps
<1>6. Goes(j, Ends(j, "FAIL")) /\ Goes(i, Ends(i, "FAIL")) /\ Goes(i, named)
  BY <1>2, <1>3, EndsAdds, AddFilterAdds DEF Adds, Keeps
<1>7. Goes(j, Ends(i, "FAIL")) /\ Goes(j, named)
  BY <1>2, <1>6, GoesOn
<1>8. QED
  BY <1>1, <1>5, <1>6, <1>7

LEMMA EmptyIsEnd ==
  ASSUME NEW j, Ready(j), IsSection(j, FiltersAt(j)), AtEnd(j, FiltersAt(j)), SomeFilters(j), j.filters = <<>>
  PROVE  Keys(j, FiltersAt(j)) = <<>>
<1> DEFINE keys == Keys(j, FiltersAt(j))
<1>1. IsSeq(keys)
  BY DEF Ready
<1>2. Len(keys) = 0
  <2>1. Len(j.filters) = Len(keys)
    BY DEF SomeFilters, AtEnd
  <2>2. QED
    BY <2>1
<1>3. PICK S : keys \in Seq(S)
  BY <1>1 DEF IsSeq
<1> HIDE DEF keys
<1>4. keys = <<>>
  BY <1>2, <1>3
<1>5. QED
  BY <1>4 DEF keys

LEMMA DefaultFilter ==
  ASSUME NEW j, Ready(j), Whole(j), j.stop = "no", j.step = "filters", Progress(j),
         ~IsSection(j, FiltersAt(j)) \/ (AtEnd(j, FiltersAt(j)) /\ j.filters = <<>>)
  PROVE  Progress(FiltersDone(AddFilter(j, "random", Null)))
<1> DEFINE a == AddFilter(j, "random", Null)
           k == FiltersDone(a)
<1>1. Served(j) /\ SomeFilters(j)
  BY DEF Progress
<1>2. j.filters = <<>> /\ ListedFilters(j) = <<"random">>
  <2>1. j.filters = <<>>
    BY <1>1 DEF SomeFilters
  <2>2. ~IsSection(j, FiltersAt(j)) \/ Keys(j, FiltersAt(j)) = <<>>
    BY <1>1, <2>1, EmptyIsEnd
  <2>3. QED
    BY <2>1, <2>2 DEF ListedFilters, FiltersAt
<1>3. Adds(j, a, "random")
  BY AddFilterAdds
<1> HIDE DEF a
<1>4. Keeps(j, a) /\ Ready(a)
  BY <1>3, GoesReady DEF Adds, Keeps
<1>5. /\ Keeps(a, k) /\ k.filters = a.filters /\ k.master = a.master /\ k.slave = a.slave /\ k.stop = a.stop
      /\ a.stop = "no" => k.step = "strategy"
  BY <1>4, FiltersDoneKeeps
<1> HIDE DEF k
<1>6. CASE a.stop # "no"
  <2>1. k.stop \in {"fatal", "FAIL"}
    BY <1>3, <1>5, <1>6 DEF Adds
  <2>2. Progress(k)
    BY <2>1, StoppedProgress
  <2>3. QED
    BY <2>2 DEF k, a
<1>7. CASE a.stop = "no"
  <2>1. PICK d : a.filters = Append(<<>>, [name |-> "random", data |-> d])
    BY <1>2, <1>3, <1>7 DEF Adds
  <2> DEFINE e == [name |-> "random", data |-> d]
  <2>2. e.name = "random"
    OBVIOUS
  <2>3. a.filters = Append(<<>>, e)
    BY <2>1
  <2> HIDE DEF e
  <2>4. Names(a.filters) = <<"random">>
    BY <2>2, <2>3, NamesOne
  <2>5. \A i \in DOMAIN a.filters : Multi[a.filters[i].name] = (i < Len(a.filters))
    <3>1. Len(a.filters) = 1 /\ a.filters[1] = e /\ DOMAIN a.filters = {1}
      BY <2>3, SeqOnly
    <3>2. Multi[e.name] = FALSE
      BY <2>2 DEF Multi
    <3>3. Multi[a.filters[1].name] = FALSE /\ (1 < Len(a.filters)) = FALSE
      BY <3>1, <3>2
    <3>4. Multi[a.filters[1].name] = (1 < Len(a.filters))
      BY <3>3
    <3>5. QED
      BY <3>1, <3>4
  <2>6. ListedFilters(a) = <<"random">>
    BY <1>2, <1>4, SameFilterNames DEF Keeps, Goes
  <2>7. AllFilters(a)
    BY <2>4, <2>5, <2>6 DEF AllFilters
  <2>8. AllFilters(k)
    BY <1>5, <2>7, SameFilters DEF Keeps
  <2>9. Served(k)
    <3>1. Served(a)
      BY <1>1, <1>3, <1>4, SameServed DEF Adds, Keeps
    <3>2. QED
      BY <1>5, <3>1, SameServed DEF Keeps
  <2>10. Progress(k)
    BY <1>5, <1>7, <2>8, <2>9, StrategyProgress
  <2>11. QED
    BY <2>10 DEF k, a
<1>8. QED
  BY <1>6, <1>7

LEMMA LastFilter ==
  ASSUME NEW j, Ready(j), Whole(j), j.stop = "no", j.step = "filters", Progress(j),
         IsSection(j, FiltersAt(j)), AtEnd(j, FiltersAt(j)), j.filters # <<>>, ~Multi[Last(j.filters).name]
  PROVE  Progress(FiltersDone(j))
<1> DEFINE k == FiltersDone(j)
           keys == Keys(j, FiltersAt(j))
           n == Len(j.filters)
<1>1. Served(j) /\ SomeFilters(j)
  BY DEF Progress
<1>2. /\ Keeps(j, k) /\ k.filters = j.filters /\ k.master = j.master /\ k.slave = j.slave /\ k.stop = j.stop
      /\ k.step = "strategy"
  BY FiltersDoneKeeps
<1>3. IsSeq(keys)
  BY DEF Ready
<1>4. /\ IsSeq(j.filters) /\ n = Len(keys)
      /\ \A i \in 1 .. n : j.filters[i].name = FilterName(j, keys[i])
      /\ \A i \in 1 .. n : /\ j.filters[i].name \in DOMAIN Multi
                           /\ i < n => Multi[j.filters[i].name]
  BY <1>1 DEF SomeFilters, AtEnd
<1>5. PICK S : j.filters \in Seq(S)
  BY <1>4 DEF IsSeq
<1>6. n \in Nat /\ n # 0 /\ DOMAIN j.filters = 1 .. n /\ Last(j.filters) = j.filters[n]
  BY <1>5 DEF Last
<1>7. keys # <<>>
  BY <1>4, <1>6
<1>8. ListedFilters(j) = [i \in 1 .. Len(keys) |-> FilterName(j, keys[i])]
  BY <1>7 DEF ListedFilters, FilterName, FiltersAt
<1>9. Names(j.filters) = ListedFilters(j)
  <2>1. Names(j.filters) = [i \in 1 .. n |-> j.filters[i].name]
    BY <1>6 DEF Names
  <2>2. QED
    BY <1>4, <1>8, <2>1
<1> HIDE DEF keys, n
<1>10. \A i \in 1 .. n : Multi[j.filters[i].name] = (i < n)
  <2> SUFFICES ASSUME NEW i \in 1 .. n
               PROVE  Multi[j.filters[i].name] = (i < n)
    OBVIOUS
  <2>1. \A x \in DOMAIN Multi : Multi[x] \in BOOLEAN
    <3>1. DOMAIN Multi = {"roundrobin", "random", "user", "user_multi", "table", "quality_of_service", "node_groups"}
      BY DEF Multi
    <3>2. /\ Multi["roundrobin"] = FALSE /\ Multi["random"] = FALSE /\ Multi["user"] = FALSE
          /\ Multi["user_multi"] = TRUE /\ Multi["table"] = TRUE
          /\ Multi["quality_of_service"] = TRUE /\ Multi["node_groups"] = TRUE
      BY DEF Multi
    <3>3. QED
      BY <3>1, <3>2
  <2>2. Multi[j.filters[i].name] \in BOOLEAN
    BY <1>4, <2>1
  <2>3. CASE i = n
    <3>1. ~Multi[j.filters[i].name] /\ ~(i < n)
      BY <1>6, <2>3
    <3>2. QED
      BY <2>2, <3>1
  <2>4. CASE i # n
    <3>1. i < n
      BY <1>6, <2>4
    <3>2. Multi[j.filters[i].name]
      BY <1>4, <3>1
    <3>3. QED
      BY <2>2, <3>1, <3>2
  <2>5. QED
    BY <2>3, <2>4
<1>11. AllFilters(j)
  BY <1>6, <1>9, <1>10 DEF AllFilters, n
<1> HIDE DEF k
<1>12. AllFilters(k) /\ Served(k)
  BY <1>1, <1>2, <1>11, SameFilters, SameServed DEF Keeps
<1>13. Progress(k)
  BY <1>2, <1>12, StrategyProgress
<1>14. QED
  BY <1>13 DEF k

\* One more filter has been added.
LEMMA MoreFilters ==
  ASSUME NEW j, Ready(j), Whole(j), SomeFilters(j), IsSection(j, FiltersAt(j)),
         NEW k, Goes(j, k), k.cur[FiltersAt(j)] = j.cur[FiltersAt(j)] + 1,
         NEW name, name = FilterName(j, CurrentKey(j, FiltersAt(j))), name \in DOMAIN Multi,
         j.filters = <<>> \/ Multi[Last(j.filters).name],
         NEW d, k.filters = Append(j.filters, [name |-> name, data |-> d])
  PROVE  SomeFilters(k)
<1> DEFINE p == FiltersAt(j)
           keys == Keys(j, p)
           e == [name |-> name, data |-> d]
           n == Len(j.filters)
<1>1. k.tree = j.tree /\ k.section = j.section
  BY DEF Goes
<1>2. FiltersAt(k) = p /\ IsSection(k, p) /\ Keys(k, p) = keys /\ \A key : FilterName(k, key) = FilterName(j, key)
  <2>1. FiltersAt(k) = p
    BY <1>1 DEF FiltersAt
  <2>2. IsSection(k, p) /\ Keys(k, p) = keys
    BY <1>1, SameTree
  <2>3. \A key : FilterName(k, key) = FilterName(j, key)
    BY <1>1, SameFilterNames
  <2>4. QED
    BY <2>1, <2>2, <2>3
<1>3. /\ IsSeq(j.filters) /\ n = j.cur[p]
      /\ \A i \in 1 .. n : j.filters[i].name = FilterName(j, keys[i])
      /\ \A i \in 1 .. n : j.filters[i].name \in DOMAIN Multi /\ (i < n => Multi[j.filters[i].name])
  BY DEF SomeFilters
<1>4. n \in Nat /\ (n # 0 => Last(j.filters) = j.filters[n]) /\ (j.filters = <<>> => n = 0)
  <2>1. PICK S : j.filters \in Seq(S)
    BY <1>3 DEF IsSeq
  <2>2. QED
    BY <2>1 DEF Last
<1>5. e.name = FilterName(j, keys[n + 1]) /\ e.name = name
  BY <1>3 DEF CurrentKey
<1> HIDE DEF e
<1>6. /\ IsSeq(k.filters) /\ Len(k.filters) = n + 1 /\ k.filters[n + 1] = e
      /\ \A i \in 1 .. n : k.filters[i] = j.filters[i]
  <2>1. k.filters = Append(j.filters, e)
    BY DEF e
  <2>2. QED
    BY <1>3, <2>1, SeqAppend
<1>7. ASSUME NEW i \in 1 .. n + 1
      PROVE  /\ k.filters[i].name = FilterName(j, keys[i])
             /\ k.filters[i].name \in DOMAIN Multi
             /\ i < n + 1 => Multi[k.filters[i].name]
  <2> HIDE DEF n, keys
  <2>1. CASE i = n + 1
    <3>1. k.filters[i] = e /\ ~(i < n + 1)
      BY <1>4, <1>6, <2>1
    <3>2. QED
      BY <1>5, <2>1, <3>1
  <2>2. CASE i # n + 1
    <3>1. i \in 1 .. n /\ n # 0
      BY <1>4, <2>2
    <3>2. k.filters[i] = j.filters[i]
      BY <1>6, <3>1
    <3>3. Multi[j.filters[i].name]
      <4>1. CASE i = n
        BY <1>4, <3>1, <4>1
      <4>2. CASE i # n
        <5>1. i < n
          BY <1>4, <3>1, <4>2
        <5>2. QED
          BY <1>3, <3>1, <5>1
      <4>3. QED
        BY <4>1, <4>2
    <3>4. QED
      BY <1>3, <3>1, <3>2, <3>3
  <2>3. QED
    BY <2>1, <2>2
<1>8. k.cur[p] = n + 1
  BY <1>3
<1>9. QED
  BY <1>2, <1>6, <1>7, <1>8 DEF SomeFilters

LEMMA NamedFilter ==
  ASSUME NEW j, Ready(j), Whole(j), j.stop = "no", j.step = "filters", Progress(j),
         IsSection(j, FiltersAt(j)), ~AtEnd(j, FiltersAt(j))
  PROVE  LET p == FiltersAt(j)
             key == CurrentKey(j, p)
         IN Progress(AddFilter(Advance(j, {p}), FilterName(j, key), Append(p, key)))
<1> DEFINE p == FiltersAt(j)
           key == CurrentKey(j, p)
           i == Advance(j, {p})
           name == FilterName(j, key)
           entry == Append(p, key)
           k == AddFilter(i, name, entry)
<1>1. /\ Goes(j, i) /\ Ready(i)
      /\ \A f \in JobFields \ {"cur"} : i[f] = j[f]
  BY AdvanceGoes
<1>2. p \in DOMAIN j.cur /\ IsList(p) /\ i.cur[p] = j.cur[p] + 1
  <2>1. p \in DOMAIN j.cur
    BY Placed
  <2>2. IsList(p)
    BY ListsAreLists
  <2>3. i.cur[p] = j.cur[p] + 1
    BY <2>1 DEF Advance, Ready, JobFields
  <2>4. QED
    BY <2>1, <2>2, <2>3
<1>3. Deep(entry)
  BY FilterPath
<1>4. i.stop = "no" /\ i.filters = j.filters /\ i.master = j.master /\ i.slave = j.slave /\ i.step = "filters"
  BY <1>1 DEF JobFields
<1> HIDE DEF i, entry, name
<1>5. Adds(i, k, name)
  BY <1>1, <1>3, <1>4, AddFilterAdds
<1> HIDE DEF k
<1>6. Keeps(i, k) /\ Goes(j, k) /\ k.step = "filters" /\ k.master = j.master /\ k.slave = j.slave
  BY <1>1, <1>4, <1>5, GoesOn DEF Adds, Keeps
<1>7. CASE k.stop # "no"
  <2>1. k.stop \in {"fatal", "FAIL"}
    BY <1>5, <1>7 DEF Adds
  <2>2. Progress(k)
    BY <2>1, StoppedProgress
  <2>3. QED
    BY <2>2 DEF k, i, name, entry
<1>8. CASE k.stop = "no"
  <2>1. Served(j) /\ SomeFilters(j)
    BY DEF Progress
  <2>2. PICK d : k.filters = Append(j.filters, [name |-> name, data |-> d])
    BY <1>4, <1>5, <1>8 DEF Adds
  <2>3. name \in DOMAIN Multi /\ (j.filters = <<>> \/ Multi[Last(j.filters).name])
    BY <1>4, <1>5, <1>8 DEF Adds
  <2>4. k.cur[p] = j.cur[p] + 1
    BY <1>1, <1>2, <1>6 DEF Keeps, Goes
  <2>5. SomeFilters(k)
    BY <1>6, <2>1, <2>2, <2>3, <2>4, MoreFilters DEF name
  <2>6. Served(k)
    BY <1>6, <2>1, SameServed
  <2>7. Progress(k)
    BY <1>6, <1>8, <2>5, <2>6, FiltersProgress
  <2>8. QED
    BY <2>7 DEF k, i, name, entry
<1>9. QED
  BY <1>7, <1>8

LEMMA NextFilterProgress ==
  ASSUME NEW j, Ready(j), Whole(j), j.stop = "no", j.step = "filters", Progress(j)
  PROVE  Progress(NextFilter(j))
<1> DEFINE p == FiltersAt(j)
           i == Advance(j, {p})
           key == CurrentKey(j, p)
           entry == Append(p, key)
           named == AddFilter(i, FilterName(j, key), entry)
<1>1. CASE ~IsSection(j, p) \/ (AtEnd(j, p) /\ j.filters = <<>>)
  BY <1>1, DefaultFilter DEF NextFilter, FiltersAt
<1>2. CASE IsSection(j, p) /\ AtEnd(j, p) /\ j.filters # <<>>
  <2>1. NextFilter(j) = IF Multi[Last(j.filters).name] THEN Ends(j, "FAIL") ELSE FiltersDone(j)
    BY <1>2 DEF NextFilter, FiltersAt
  <2>2. Ends(j, "FAIL").stop = "FAIL"
    BY DEF Ends, Ready, JobFields
  <2>3. Progress(Ends(j, "FAIL"))
    BY <2>2, StoppedProgress
  <2>4. QED
    BY <1>2, <2>1, <2>3, LastFilter
<1>3. CASE IsSection(j, p) /\ ~AtEnd(j, p)
  <2>1. NextFilter(j) = IF key \in ToSet(Index) /\ IsSection(j, entry) THEN Ends(i, "FAIL") ELSE named
    BY <1>3 DEF NextFilter, FiltersAt, FilterName
  <2>2. Ends(i, "FAIL").stop = "FAIL"
    BY DEF Ends, Ready, JobFields, Advance
  <2>3. Progress(Ends(i, "FAIL"))
    BY <2>2, StoppedProgress
  <2>4. Progress(named)
    BY <1>3, NamedFilter
  <2>5. QED
    BY <2>1, <2>3, <2>4
<1>4. QED
  BY <1>1, <1>2, <1>3

LEMMA OptionsStep ==
  ASSUME NEW j, Ready(j), j.stop = "no"
  PROVE  Goes(j, LoadOptions(j)) /\ (Whole(j) /\ j.step = "options" /\ Progress(j) => Progress(LoadOptions(j)))
<1> DEFINE sub == <<"global_transaction_id_injection">>
           options == <<LazyOption>>
           a == ReadSection(j, sub, TrxOptions)
           b == Read(a, j.section, "opts", options)
           c == ReadCharset(b)
           k == [c EXCEPT !.step = "master"]
<1>1. LoadOptions(j) = OptionsRead(c)
  BY DEF LoadOptions
<1>2. SafeOptions(options)
  BY SafeOthers
<1> HIDE DEF options, sub
<1>3. Reads(j, a) /\ Ready(a) /\ a.section = j.section
  <2>1. Reads(j, a) /\ Ready(a)
    BY SafeTrx, SectionReads, ReadyStill
  <2> HIDE DEF a
  <2>2. QED
    BY <2>1 DEF Reads
<1> HIDE DEF a
<1>4. Reads(j, b) /\ Ready(b)
  BY <1>2, <1>3, SectionReads, ReadsOn
<1> HIDE DEF b
<1>5. Reads(j, c) /\ Ready(c)
  BY <1>4, CharsetReads, ReadsOn
<1> HIDE DEF c
<1>6. OptionsRead(c) = c \/ (c.stop = "no" /\ OptionsRead(c) \in {k, Fatal(c)})
  BY DEF OptionsRead
<1>7. Keeps(c, k) /\ k.step = "master" /\ k.stop = c.stop /\ k.env = c.env
      /\ k.filters = c.filters /\ k["master"] = c["master"] /\ k["slave"] = c["slave"]
  <2>1. DOMAIN k = JobFields /\ k.step = "master" /\ \A f \in JobFields \ {"step"} : k[f] = c[f]
    BY <1>5 DEF Ready, JobFields
  <2> HIDE DEF k
  <2>2. Keeps(c, k)
    BY <1>5, <2>1, EndsWell DEF Steps
  <2>3. QED
    BY <2>1, <2>2 DEF JobFields
<1> HIDE DEF k
<1>8. c.stop = "no" => Reads(j, Fatal(c))
  BY <1>5, ErrorReads, ReadsOn
<1>9. Goes(j, c) /\ Goes(j, k) /\ (c.stop = "no" => Goes(j, Fatal(c)))
  BY <1>5, <1>7, <1>8, ReadsKeeps, GoesOn DEF Keeps
<1>10. ASSUME Whole(j), j.step = "options", Progress(j)
       PROVE  Progress(c) /\ (c.stop = "no" => Progress(Fatal(c)) /\ Progress(k))
  <2>1. Progress(c) /\ (c.stop = "no" => Progress(Fatal(c)))
    BY <1>5, <1>8, <1>10, ReadsProgress
  <2>2. ASSUME c.stop = "no"
        PROVE  Progress(k)
    <3>1. NoServers(c, "master") /\ NoServers(c, "slave") /\ NoFilters(c)
      BY <1>5, <1>10, <2>1, <2>2 DEF Progress, Reads
    <3>2. NoServers(k, "master") /\ NoServers(k, "slave") /\ NoFilters(k)
      BY <1>5, <1>7, <3>1, KeptNone
    <3>3. Ready(k) /\ Whole(k)
      BY <1>9, <1>10, GoesReady, WholeStill
    <3>4. SomeServers(k, "master") /\ k.master = <<>>
      BY <3>2, <3>3, SomeOfNone DEF NoServers
    <3>5. QED
      BY <1>7, <2>2, <3>2, <3>4, MasterProgress
  <2>3. QED
    BY <2>1, <2>2
<1>11. QED
  BY <1>1, <1>6, <1>9, <1>10

LEMMA FabricStep ==
  ASSUME NEW j, Ready(j), j.stop = "no"
  PROVE  Goes(j, LoadFabric(j)) /\ (Whole(j) /\ j.step = "fabric" /\ Progress(j) => Progress(LoadFabric(j)))
<1> DEFINE f == Append(j.section, "fabric")
           hosts == Append(f, "hosts")
           ended == [j EXCEPT !.cur[f] = Len(Keys(j, f))]
           i == IF IsSection(j, f) THEN ended ELSE j
           unread == Remaining(j, hosts)
           urls == [n \in DOMAIN unread |-> FabricUrl(j, Append(hosts, unread[n]))]
           a == Read(i, j.section, "opts", FabricOptions)
           b == ReadCharset(a)
           c == [b EXCEPT !.cur[hosts] = Len(Keys(b, hosts))]
           k == [c EXCEPT !.urls = urls, !.step = "filters"]
<1>1. LoadFabric(j) = Fatal(i) \/ LoadFabric(j) = FabricRead(b, hosts, urls)
  BY DEF LoadFabric
<1>2. FabricRead(b, hosts, urls) = b \/ (b.stop = "no" /\ FabricRead(b, hosts, urls) \in {Fatal(c), k})
  BY DEF FabricRead
<1>3. ~IsList(f) /\ ~IsList(hosts)
  <2>1. PICK x : j.section = <<x>>
    BY DEF Ready
  <2>2. f = <<x, "fabric">> /\ IsSeq(f) /\ Len(f) = 2
    BY <2>1, OneBelow, Seq2
  <2>3. f[2] = "fabric"
    BY <2>2
  <2>4. Len(hosts) = 3
    <3> HIDE DEF f
    <3>1. Len(hosts) = Len(f) + 1
      BY <2>2, SeqAppend
    <3>2. QED
      BY <2>2, <3>1
  <2> HIDE DEF f, hosts
  <2>5. QED
    BY <2>3, <2>4 DEF IsList
<1>4. Reads(j, i) /\ i.stop = "no"
  <2>1. Reads(j, ended)
    BY <1>3, EndReads
  <2>2. ended.stop = "no"
    BY DEF Ready, JobFields
  <2> HIDE DEF ended
  <2>3. QED
    BY <2>1, <2>2, ReadsItself
<1> HIDE DEF i, f, hosts, urls
<1>5. Ready(i) /\ i.section = j.section
  BY <1>4, ReadyStill DEF Reads
<1>6. Reads(j, a) /\ Ready(a)
  BY <1>4, <1>5, SafeOthers, SectionReads, ReadsOn
<1> HIDE DEF a
<1>7. Reads(j, b) /\ Ready(b)
  BY <1>6, CharsetReads, ReadsOn
<1> HIDE DEF b
<1>8. Reads(j, c) /\ Ready(c) /\ c.stop = b.stop
  <2>1. Reads(b, c)
    BY <1>3, <1>7, EndReads
  <2>2. c.stop = b.stop
    BY <1>7 DEF Ready, JobFields
  <2> HIDE DEF c
  <2>3. QED
    BY <1>7, <2>1, <2>2, ReadsOn
<1> HIDE DEF c
<1>9. Reads(j, Fatal(i)) /\ (b.stop = "no" => Reads(j, Fatal(c)))
  BY <1>4, <1>5, <1>8, ErrorReads, ReadsOn
<1>10. Keeps(c, k) /\ k.step = "filters" /\ k.stop = c.stop /\ k.fabric = c.fabric
       /\ k.filters = c.filters /\ k.master = c.master /\ k.slave = c.slave
  <2>1. DOMAIN k = JobFields /\ k.step = "filters" /\ \A x \in JobFields \ {"step", "urls"} : k[x] = c[x]
    BY <1>8 DEF Ready, JobFields
  <2> HIDE DEF k
  <2>2. Keeps(c, k)
    BY <1>8, <2>1, EndsWell DEF Steps
  <2>3. QED
    BY <2>1, <2>2 DEF JobFields
<1> HIDE DEF k
<1>11. Goes(j, b) /\ Goes(j, k) /\ Goes(j, Fatal(i)) /\ (b.stop = "no" => Goes(j, Fatal(c)))
  BY <1>7, <1>8, <1>9, <1>10, ReadsKeeps, GoesOn DEF Keeps
<1>12. ASSUME Whole(j), j.step = "fabric", Progress(j)
       PROVE  Progress(b) /\ Progress(Fatal(i)) /\ (b.stop = "no" => Progress(Fatal(c)) /\ Progress(k))
  <2>1. Progress(b) /\ Progress(Fatal(i)) /\ Progress(c) /\ (b.stop = "no" => Progress(Fatal(c)))
    BY <1>7, <1>8, <1>9, <1>12, ReadsProgress
  <2>2. ASSUME b.stop = "no"
        PROVE  Progress(k)
    <3>1. NoFilters(c) /\ c.fabric
      BY <1>8, <1>12, <2>1, <2>2 DEF Progress, Reads
    <3>2. NoFilters(k)
      BY <1>8, <1>10, <3>1, KeptNone
    <3>3. Ready(k) /\ Whole(k)
      BY <1>11, <1>12, GoesReady, WholeStill
    <3>4. SomeFilters(k) /\ Served(k)
      BY <1>10, <3>1, <3>2, <3>3, SomeOfNoFilters DEF Served
    <3>5. QED
      BY <1>8, <1>10, <2>2, <3>4, FiltersProgress
  <2>3. QED
    BY <2>1, <2>2
<1>13. QED
  BY <1>1, <1>2, <1>11, <1>12

LEMMA FinishStep ==
  ASSUME NEW j, Ready(j), j.stop = "no"
  PROVE  Goes(j, Finish(j)) /\ (Whole(j) /\ j.step = "strategy" /\ Progress(j) => Progress(Finish(j)))
<1> DEFINE a == LoadStrategy(j)
           x == LoadXa(a)
           b == IF j.fabric THEN a ELSE x
<1>1. Finish(j) = Finished(b)
  BY DEF Finish
<1>2. Reads(j, a) /\ Ready(a)
  BY StrategyReads, ReadyStill
<1> HIDE DEF a
<1>3. Reads(j, x)
  BY <1>2, XaReads, ReadsOn
<1>4. Reads(j, b) /\ Ready(b)
  BY <1>2, <1>3, ReadyStill
<1> HIDE DEF b
<1> DEFINE k == Finished(b)
<1>5. /\ DOMAIN k = JobFields /\ \A f \in JobFields \ {"stop"} : k[f] = b[f]
      /\ (b.stop # "no" => k = b) /\ (b.stop = "no" => k.stop \in {"FAIL", "PASS"})
  BY <1>4 DEF Finished, Ends, Ready, JobFields
<1> HIDE DEF k
<1>6. Keeps(b, k)
  <2>1. k.step \in Steps
    BY <1>4, <1>5 DEF Ready, JobFields
  <2>2. QED
    BY <1>4, <1>5, <2>1, EndsWell
<1>7. Goes(j, k)
  BY <1>4, <1>6, ReadsKeeps, GoesOn DEF Keeps
<1>8. ASSUME Whole(j), j.step = "strategy", Progress(j)
      PROVE  Progress(k)
  <2>1. Progress(b)
    BY <1>4, <1>8, ReadsProgress
  <2>2. CASE b.stop # "no"
    BY <1>5, <2>1, <2>2
  <2>3. CASE b.stop = "no"
    <3>1. Served(b) /\ AllFilters(b)
      BY <1>4, <1>8, <2>1, <2>3 DEF Progress, Reads
    <3>2. k.filters = b.filters /\ k.master = b.master /\ k.slave = b.slave
      BY <1>5 DEF JobFields
    <3>3. Served(k) /\ AllFilters(k)
      BY <1>6, <3>1, <3>2, SameServed, SameFilters DEF Keeps
    <3>4. k.stop \in {"FAIL", "PASS"}
      BY <1>5, <2>3
    <3>5. QED
      BY <3>3, <3>4 DEF Progress
  <2>4. QED
    BY <2>2, <2>3
<1>9. QED
  BY <1>1, <1>7, <1>8 DEF k

LEMMA StepGoes ==
  ASSUME NEW j, Ready(j)
  PROVE  Goes(j, Step(j)) /\ Ready(Step(j))
<1>1. Goes(j, j)
  BY ReadsItself, ReadsKeeps DEF Keeps
<1>2. j.step \in {"options", "fabric", "master", "slave", "filters", "strategy"}
  BY DEF Ready, Steps
<1>3. Goes(j, Step(j))
  <2>1. CASE j.stop # "no"
    BY <1>1, <2>1 DEF Step
  <2>2. CASE j.stop = "no" /\ j.step = "options"
    BY <2>2, OptionsStep DEF Step
  <2>3. CASE j.stop = "no" /\ j.step = "fabric"
    BY <2>3, FabricStep DEF Step
  <2>4. CASE j.stop = "no" /\ j.step \in {"master", "slave"}
    BY <2>4, NextServerGoes DEF Step
  <2>5. CASE j.stop = "no" /\ j.step = "filters"
    BY <2>5, NextFilterGoes DEF Step
  <2>6. CASE j.stop = "no" /\ j.step = "strategy"
    BY <2>6, FinishStep DEF Step
  <2>7. QED
    BY <1>2, <2>1, <2>2, <2>3, <2>4, <2>5, <2>6
<1>4. QED
  BY <1>3, GoesReady

LEMMA StepProgress ==
  ASSUME NEW j, Ready(j), Whole(j), Progress(j)
  PROVE  Progress(Step(j))
<1>1. j.step \in {"options", "fabric", "master", "slave", "filters", "strategy"}
  BY DEF Ready, Steps
<1>2. CASE j.stop # "no"
  BY <1>2 DEF Step
<1>3. CASE j.stop = "no" /\ j.step = "options"
  BY <1>3, OptionsStep DEF Step
<1>4. CASE j.stop = "no" /\ j.step = "fabric"
  BY <1>4, FabricStep DEF Step
<1>5. CASE j.stop = "no" /\ j.step \in {"master", "slave"}
  BY <1>5, NextServerProgress DEF Step
<1>6. CASE j.stop = "no" /\ j.step = "filters"
  BY <1>6, NextFilterProgress DEF Step
<1>7. CASE j.stop = "no" /\ j.step = "strategy"
  BY <1>7, FinishStep DEF Step
<1>8. QED
  BY <1>1, <1>2, <1>3, <1>4, <1>5, <1>6, <1>7

(* The tree a connect sees: the configuration file and the files of        *)
(* config_dir, which have no path in common.                               *)
IsRoot(s) == \E x : s = <<x>>

LEMMA TreeParts ==
  ASSUME NEW f \in DOMAIN Files
  PROVE  /\ DOMAIN Trees[f] = DOMAIN Files[f] \cup DOMAIN HostTree
         /\ \A p \in DOMAIN Files[f] : p \notin DOMAIN HostTree /\ Trees[f][p] = Files[f][p]
         /\ \A p \in DOMAIN HostTree : Trees[f][p] = HostTree[p]
         /\ \A p \in DOMAIN Trees[f] : IsArray(Trees[f][p]) => IsSeq(Trees[f][p].keys)
<1>1. \A p \in DOMAIN Files[f] : p \notin DOMAIN HostTree
  BY ConfigurationAssumption
<1>2. Trees[f] = Beside(Files[f], HostTree)
  BY DEF Trees
<1>3. /\ DOMAIN Trees[f] = DOMAIN Files[f] \cup DOMAIN HostTree
      /\ \A p \in DOMAIN Files[f] : Trees[f][p] = Files[f][p]
      /\ \A p \in DOMAIN HostTree : Trees[f][p] = HostTree[p]
  BY <1>1, <1>2 DEF Beside
<1>4. /\ \A p \in DOMAIN Files[f] : IsArray(Files[f][p]) => Files[f][p].keys \in Seq(STRING)
      /\ \A p \in DOMAIN HostTree : IsArray(HostTree[p]) => HostTree[p].keys \in Seq(STRING)
  BY ConfigurationAssumption DEF IsTree
<1>5. QED
  BY <1>1, <1>3, <1>4 DEF IsSeq

LEMMA StartHas ==
  ASSUME NEW tree
  PROVE  /\ \A p : p \in DOMAIN Start(tree) <=> p \in DOMAIN tree /\ IsArray(tree[p])
         /\ \A p \in DOMAIN Start(tree) : Start(tree)[p] = 0
  BY DEF Start

LEMMA StartParts ==
  ASSUME NEW f \in DOMAIN Files
  PROVE  /\ DOMAIN Start(Trees[f]) = DOMAIN Start(Files[f]) \cup DOMAIN Start(HostTree)
         /\ \A p \in DOMAIN Start(Files[f]) : p \notin DOMAIN Start(HostTree)
         /\ \A p \in DOMAIN Start(Trees[f]) : p \in DOMAIN Trees[f] /\ IsArray(Trees[f][p])
         /\ \A p \in DOMAIN Trees[f] : IsArray(Trees[f][p]) => p \in DOMAIN Start(Trees[f])
<1>1. /\ DOMAIN Trees[f] = DOMAIN Files[f] \cup DOMAIN HostTree
      /\ \A p \in DOMAIN Files[f] : p \notin DOMAIN HostTree /\ Trees[f][p] = Files[f][p]
      /\ \A p \in DOMAIN HostTree : Trees[f][p] = HostTree[p]
  BY TreeParts
<1>2. \A tree, p : p \in DOMAIN Start(tree) <=> p \in DOMAIN tree /\ IsArray(tree[p])
  BY StartHas
<1>3. \A p : p \in DOMAIN Start(Trees[f]) <=> p \in DOMAIN Start(Files[f]) \cup DOMAIN Start(HostTree)
  BY <1>1, <1>2
<1>4. QED
  BY <1>1, <1>2, <1>3

LEMMA PrefixRoot ==
  ASSUME NEW x, NEW p \in Seq(STRING), IsPrefix(<<x>>, p)
  PROVE  Len(p) > 0 /\ p[1] = x
<1>1. Len(<<x>>) = 1 /\ <<x>>[1] = x
  OBVIOUS
<1>2. Len(p) >= 1 /\ SubSeq(<<x>>, 1, 1) = SubSeq(p, 1, 1)
  BY <1>1 DEF IsPrefix
<1>3. SubSeq(p, 1, 1)[1] = p[1]
  BY <1>2
<1>4. SubSeq(<<x>>, 1, 1)[1] = x
  <2> DEFINE s == <<x>>
             S == {x}
  <2>1. s \in Seq(S) /\ Len(s) = 1 /\ s[1] = x
    OBVIOUS
  <2> HIDE DEF s, S
  <2>2. SubSeq(s, 1, 1)[1] = x
    BY <2>1
  <2>3. QED
    BY <2>2 DEF s
<1>5. QED
  BY <1>2, <1>3, <1>4

\* A path lies in one section.
LEMMA OneRoot ==
  ASSUME NEW r, NEW s, IsRoot(r), IsRoot(s), NEW p \in Seq(STRING), IsPrefix(r, p), IsPrefix(s, p)
  PROVE  r = s
  BY PrefixRoot DEF IsRoot

\* What has entries in the configuration file has its section there.
LEMMA RootExists ==
  ASSUME NEW f \in DOMAIN Files, NEW s, IsRoot(s), NEW p, p \in DOMAIN Start(Files[f]), IsPrefix(s, p)
  PROVE  s \in DOMAIN Start(Files[f])
<1>1. p \in DOMAIN Files[f] /\ IsArray(Files[f][p]) /\ p \in Seq(STRING)
  BY ConfigurationAssumption DEF Start, IsTree
<1>2. PICK x : s = <<x>>
  BY DEF IsRoot
<1>3. Len(p) > 0 /\ p[1] = x /\ Len(p) \in Nat
  BY <1>1, <1>2, PrefixRoot
<1>4. CASE Len(p) > 1
  <2>1. <<p[1]>> \in DOMAIN Files[f] /\ IsArray(Files[f][<<p[1]>>])
    BY <1>1, <1>4, ConfigurationAssumption
  <2>2. <<x>> \in DOMAIN Files[f] /\ IsArray(Files[f][<<x>>])
    BY <1>3, <2>1
  <2>3. s \in DOMAIN Files[f] /\ IsArray(Files[f][s])
    BY <1>2, <2>2
  <2>4. \A q : q \in DOMAIN Start(Files[f]) <=> q \in DOMAIN Files[f] /\ IsArray(Files[f][q])
    BY StartHas
  <2>5. QED
    BY <2>3, <2>4
<1>5. CASE Len(p) = 1
  <2>1. p = <<x>>
    BY <1>1, <1>3, <1>5
  <2>2. p \in DOMAIN Start(Files[f])
    OBVIOUS
  <2>3. QED
    BY <1>2, <2>1, <2>2
<1>6. Len(p) > 1 \/ Len(p) = 1
  <2>1. \A n \in Nat : n > 0 => n > 1 \/ n = 1
    OBVIOUS
  <2>2. QED
    BY <1>3, <2>1
<1>7. QED
  BY <1>4, <1>5, <1>6

(* Positions in all the arrays of a tree.                                  *)
PositionsIn(tree, positions) ==
  /\ DOMAIN positions = DOMAIN Start(tree)
  /\ positions \in [DOMAIN positions -> Nat]
  /\ \A p \in DOMAIN positions : positions[p] <= Len(tree[p].keys)

(* A job between its steps, of a connect in environment e that reads the   *)
(* configuration file f.                                                   *)
IsJob(j, e, f) ==
  /\ DOMAIN j = JobFields
  /\ j.env = e /\ j.file = f /\ j.step \in Steps
  /\ j.tree = <<>> /\ j.cur = <<>>
  /\ IsRoot(j.section) /\ IsRoot(j.hosts)

LEMMA StartPlaced ==
  ASSUME NEW tree, \A p \in DOMAIN tree : IsArray(tree[p]) => IsSeq(tree[p].keys)
  PROVE  PositionsIn(tree, Start(tree))
<1>1. \A p \in DOMAIN Start(tree) : p \in DOMAIN tree /\ IsArray(tree[p]) /\ Start(tree)[p] = 0
  BY StartHas
<1>2. \A p \in DOMAIN Start(tree) : Len(tree[p].keys) \in Nat
  BY <1>1 DEF IsSeq
<1>3. Start(tree) = [p \in DOMAIN Start(tree) |-> Start(tree)[p]]
  BY DEF Start
<1>4. QED
  BY <1>1, <1>2, <1>3 DEF PositionsIn

LEMMA StartsPlaced ==
  ASSUME NEW f \in DOMAIN Files
  PROVE  /\ PositionsIn(Files[f], Start(Files[f])) /\ PositionsIn(HostTree, Start(HostTree))
         /\ PositionsIn(Trees[f], Start(Trees[f]))
<1>1. /\ \A p \in DOMAIN Files[f] : IsArray(Files[f][p]) => IsSeq(Files[f][p].keys)
      /\ \A p \in DOMAIN HostTree : IsArray(HostTree[p]) => IsSeq(HostTree[p].keys)
  BY ConfigurationAssumption DEF IsTree, IsSeq
<1>2. \A p \in DOMAIN Trees[f] : IsArray(Trees[f][p]) => IsSeq(Trees[f][p].keys)
  BY TreeParts
<1>3. QED
  BY <1>1, <1>2, StartPlaced

LEMMA BesidePlaced ==
  ASSUME NEW f \in DOMAIN Files, NEW c, PositionsIn(Files[f], c), NEW o, PositionsIn(HostTree, o)
  PROVE  /\ PositionsIn(Trees[f], Beside(c, o))
         /\ \A p \in DOMAIN c : Beside(c, o)[p] = c[p] /\ p \notin DOMAIN o
         /\ \A p \in DOMAIN o : Beside(c, o)[p] = o[p]
         /\ DOMAIN Beside(c, o) = DOMAIN c \cup DOMAIN o
<1>1. DOMAIN c = DOMAIN Start(Files[f]) /\ DOMAIN o = DOMAIN Start(HostTree)
  BY DEF PositionsIn
<1>2. /\ DOMAIN Start(Trees[f]) = DOMAIN c \cup DOMAIN o
      /\ \A p \in DOMAIN c : p \notin DOMAIN o
  BY <1>1, StartParts
<1>3. /\ \A p \in DOMAIN c : p \in DOMAIN Files[f]
      /\ \A p \in DOMAIN o : p \in DOMAIN HostTree
  BY <1>1, StartHas
<1>4. /\ \A p \in DOMAIN c : Trees[f][p] = Files[f][p]
      /\ \A p \in DOMAIN o : Trees[f][p] = HostTree[p]
  BY <1>3, TreeParts
<1> DEFINE b == Beside(c, o)
<1>5. /\ b = [p \in DOMAIN b |-> b[p]] /\ DOMAIN b = DOMAIN c \cup DOMAIN o
      /\ \A p \in DOMAIN c : b[p] = c[p]
      /\ \A p \in DOMAIN o : b[p] = o[p]
  BY <1>2 DEF Beside
<1> HIDE DEF b
<1>6. PositionsIn(Trees[f], b)
  <2>1. \A p \in DOMAIN c : c[p] \in Nat /\ c[p] <= Len(Files[f][p].keys)
    BY DEF PositionsIn
  <2>2. \A p \in DOMAIN o : o[p] \in Nat /\ o[p] <= Len(HostTree[p].keys)
    BY DEF PositionsIn
  <2>3. \A p \in DOMAIN b : b[p] \in Nat /\ b[p] <= Len(Trees[f][p].keys)
    BY <1>4, <1>5, <2>1, <2>2
  <2>4. QED
    BY <1>2, <1>5, <2>3 DEF PositionsIn
<1>7. QED
  BY <1>2, <1>5, <1>6 DEF b

LEMMA WithReady ==
  ASSUME NEW f \in DOMAIN Files, NEW e, NEW j, IsJob(j, e, f),
         NEW positions, PositionsIn(Trees[f], positions)
  PROVE  LET w == With(j, positions) IN
         /\ Ready(w) /\ Whole(w)
         /\ w.tree = Trees[f] /\ \A n \in JobFields \ {"tree", "cur"} : w[n] = j[n]
         /\ \A p : Within(w, p) = Within(j, p)
         /\ DOMAIN w.cur = {p \in DOMAIN positions : Within(j, p)}
         /\ \A p \in DOMAIN w.cur : w.cur[p] = positions[p]
<1> DEFINE w == With(j, positions)
<1>1. /\ DOMAIN w = JobFields /\ w.tree = Trees[f]
      /\ \A n \in JobFields \ {"tree", "cur"} : w[n] = j[n]
      /\ w.cur = Restrict(positions, {p \in DOMAIN positions : Within(j, p)})
  BY DEF With, IsJob, JobFields
<1> HIDE DEF w
<1>2. /\ DOMAIN w.cur = {p \in DOMAIN positions : Within(j, p)}
      /\ \A p \in DOMAIN w.cur : w.cur[p] = positions[p]
      /\ w.cur = [p \in DOMAIN w.cur |-> w.cur[p]]
  BY <1>1 DEF Restrict
<1>3. w.section = j.section /\ w.hosts = j.hosts /\ w.step = j.step
  BY <1>1 DEF JobFields
<1>4. \A p : Within(w, p) = Within(j, p)
  BY <1>3 DEF Within
<1>5. \A p : IsSection(w, p) <=> p \in DOMAIN positions
  <2>1. \A p : p \in DOMAIN Start(Trees[f]) <=> p \in DOMAIN Trees[f] /\ IsArray(Trees[f][p])
    BY StartHas
  <2>2. QED
    BY <1>1, <2>1 DEF IsSection, Exists, Node, PositionsIn
<1>6. \A p : IsSection(w, p) => IsSeq(Keys(w, p))
  BY <1>1, TreeParts DEF IsSection, Exists, Node, Keys
<1>7. Whole(w)
  BY <1>2, <1>4, <1>5 DEF Whole
<1>8. \A p \in DOMAIN w.cur : w.cur[p] \in Nat /\ w.cur[p] <= Len(Keys(w, p))
  BY <1>1, <1>2 DEF PositionsIn, Keys, Node
<1>9. Ready(w)
  <2>1. w.cur \in [DOMAIN w.cur -> Nat]
    BY <1>2, <1>8
  <2>2. \A p \in DOMAIN w.cur : IsSection(w, p) /\ w.cur[p] <= Len(Keys(w, p))
    BY <1>2, <1>5, <1>8
  <2>3. w.step \in Steps /\ (\E x : w.section = <<x>>) /\ (\E x : w.hosts = <<x>>)
    BY <1>3 DEF IsJob, IsRoot
  <2>4. QED
    BY <1>1, <1>6, <2>1, <2>2, <2>3 DEF Ready
<1>10. QED
  BY <1>1, <1>2, <1>4, <1>7, <1>9 DEF w

\* Two connects that see the same positions see the same.
LEMMA SameView ==
  ASSUME NEW j, NEW a, NEW b, DOMAIN a = DOMAIN b, \A p \in DOMAIN a : Within(j, p) => a[p] = b[p]
  PROVE  With(j, a) = With(j, b)
<1>1. Restrict(a, {p \in DOMAIN a : Within(j, p)}) = Restrict(b, {p \in DOMAIN b : Within(j, p)})
  BY DEF Restrict
<1>2. QED
  BY <1>1 DEF With

LEMMA KeptPlaced ==
  ASSUME NEW tree, NEW positions, PositionsIn(tree, positions), NEW k,
         \A p \in DOMAIN k.cur : p \in DOMAIN positions => k.cur[p] \in Nat /\ k.cur[p] <= Len(tree[p].keys)
  PROVE  /\ PositionsIn(tree, Kept(positions, k))
         /\ DOMAIN Kept(positions, k) = DOMAIN positions
         /\ \A p \in DOMAIN positions :
              Kept(positions, k)[p] = IF p \in DOMAIN k.cur THEN k.cur[p] ELSE positions[p]
<1> DEFINE q == Kept(positions, k)
<1>1. /\ q = [p \in DOMAIN q |-> q[p]] /\ DOMAIN q = DOMAIN positions
      /\ \A p \in DOMAIN positions : q[p] = IF p \in DOMAIN k.cur THEN k.cur[p] ELSE positions[p]
  BY DEF Kept
<1> HIDE DEF q
<1>2. \A p \in DOMAIN q : q[p] \in Nat /\ q[p] <= Len(tree[p].keys)
  BY <1>1 DEF PositionsIn
<1>3. PositionsIn(tree, q)
  BY <1>1, <1>2 DEF PositionsIn
<1>4. QED
  BY <1>1, <1>3 DEF q

LEMMA PartedJob ==
  ASSUME NEW k, Ready(k)
  PROVE  /\ IsJob(Parted(k), k.env, k.file)
         /\ DOMAIN Parted(k) = JobFields
         /\ \A n \in JobFields \ {"tree", "cur"} : Parted(k)[n] = k[n]
<1> DEFINE d == Parted(k)
<1>1. DOMAIN k = JobFields
  BY DEF Ready
<1>2. /\ DOMAIN d = JobFields /\ \A n \in JobFields \ {"tree", "cur"} : d[n] = k[n]
      /\ d.tree = <<>> /\ d.cur = <<>>
  BY <1>1 DEF Parted, JobFields
<1> HIDE DEF d
<1>3. d.env = k.env /\ d.file = k.file /\ d.step = k.step /\ d.section = k.section /\ d.hosts = k.hosts
  BY <1>2 DEF JobFields
<1>4. IsJob(d, k.env, k.file)
  BY <1>2, <1>3 DEF Ready, IsJob, IsRoot
<1>5. QED
  BY <1>2, <1>4 DEF d

\* What a job saw before its step, it sees after it.
LEMMA PartedSees ==
  ASSUME NEW f \in DOMAIN Files, NEW e, NEW j, IsJob(j, e, f),
         NEW positions, PositionsIn(Trees[f], positions), NEW k, Goes(With(j, positions), k)
  PROVE  \A n \in JobFields : With(Parted(k), Kept(positions, k))[n] = k[n]
<1> DEFINE w == With(j, positions)
           d == Parted(k)
           q == Kept(positions, k)
           v == With(d, q)
<1>1. /\ Ready(w) /\ w.tree = Trees[f]
      /\ (\A n \in JobFields \ {"tree", "cur"} : w[n] = j[n])
      /\ DOMAIN w.cur = {p \in DOMAIN positions : Within(j, p)}
  BY WithReady
<1> HIDE DEF w
<1>2. Goes(w, k)
  BY DEF w
<1>3. Ready(k) /\ k.tree = Trees[f] /\ k.section = w.section /\ k.hosts = w.hosts
      /\ DOMAIN k.cur = DOMAIN w.cur /\ k.file = w.file
  BY <1>1, <1>2, GoesReady DEF Goes
<1>4. w.section = j.section /\ w.hosts = j.hosts /\ w.file = j.file /\ j.file = f
  BY <1>1 DEF JobFields, IsJob
<1>5. IsJob(d, k.env, k.file) /\ DOMAIN d = JobFields /\ \A n \in JobFields \ {"tree", "cur"} : d[n] = k[n]
  BY <1>3, PartedJob
<1>6. \A p : Within(d, p) = Within(j, p)
  BY <1>3, <1>4, <1>5 DEF Within, JobFields
<1>7. /\ DOMAIN q = DOMAIN positions
      /\ \A p \in DOMAIN positions : q[p] = IF p \in DOMAIN k.cur THEN k.cur[p] ELSE positions[p]
  BY DEF Kept
<1> HIDE DEF d, q
<1>8. /\ DOMAIN v = JobFields /\ v.tree = Trees[d.file]
      /\ (\A n \in JobFields \ {"tree", "cur"} : v[n] = d[n])
      /\ v.cur = Restrict(q, {p \in DOMAIN q : Within(d, p)})
      /\ v = [n \in DOMAIN v |-> v[n]]
  BY <1>5 DEF With, JobFields
<1>9. v.cur = k.cur
  <2>1. {p \in DOMAIN q : Within(d, p)} = DOMAIN k.cur
    BY <1>1, <1>3, <1>6, <1>7
  <2>2. v.cur = [p \in DOMAIN k.cur |-> k.cur[p]]
    BY <1>7, <1>8, <2>1 DEF Restrict
  <2>3. k.cur = [p \in DOMAIN k.cur |-> k.cur[p]]
    BY <1>3 DEF Ready
  <2>4. QED
    BY <2>2, <2>3
<1>10. v.tree = k.tree
  BY <1>3, <1>4, <1>5, <1>8 DEF JobFields
<1> HIDE DEF v
<1>11. \A n \in JobFields : v[n] = k[n]
  BY <1>5, <1>8, <1>9, <1>10
<1>12. QED
  BY <1>11 DEF v, d, q

LEMMA SameProgress ==
  ASSUME NEW j, NEW k, \A n \in JobFields : k[n] = j[n], Progress(j)
  PROVE  Progress(k)
<1>1. /\ k.tree = j.tree /\ k.hosts = j.hosts /\ k.section = j.section /\ k.cur = j.cur /\ k.env = j.env
      /\ k.stop = j.stop /\ k.step = j.step /\ k.fabric = j.fabric /\ k.bad = j.bad /\ k.err = j.err
      /\ k.filters = j.filters /\ k.master = j.master /\ k["master"] = j["master"] /\ k["slave"] = j["slave"]
  BY DEF JobFields
<1>2. /\ \A l : ListAt(k, l) = ListAt(j, l)
      /\ FiltersAt(k) = FiltersAt(j)
      /\ \A p : (IsSection(k, p) = IsSection(j, p)) /\ (IsObjectList(k, p) = IsObjectList(j, p))
      /\ \A p : Keys(k, p) = Keys(j, p)
  BY <1>1, SamePaths, SameTree
<1>3. /\ \A key : FilterName(k, key) = FilterName(j, key)
      /\ ListedFilters(k) = ListedFilters(j)
  BY <1>1, SameFilterNames
<1>4. /\ NoServers(j, "master") => NoServers(k, "master")
      /\ NoServers(j, "slave") => NoServers(k, "slave")
      /\ NoFilters(j) => NoFilters(k)
  BY <1>1, <1>2 DEF NoServers, NoFilters, Untouched
<1>5. /\ SomeServers(j, "master") => SomeServers(k, "master")
      /\ SomeServers(j, "slave") => SomeServers(k, "slave")
  BY <1>1, <1>2 DEF SomeServers
<1>6. SomeFilters(j) => SomeFilters(k)
  BY <1>1, <1>2, <1>3 DEF SomeFilters
<1>7. AllFilters(j) => AllFilters(k)
  BY <1>1, <1>3 DEF AllFilters
<1>8. /\ AllServers(j, "master") => AllServers(k, "master")
      /\ AllServers(j, "slave") => AllServers(k, "slave")
  BY <1>1, SameAll
<1>9. Served(j) => Served(k)
  BY <1>1, <1>8 DEF Served
<1>10. OnlyFirst(k, "master") = OnlyFirst(j, "master")
  BY <1>1 DEF OnlyFirst
<1>11. QED
  BY <1>1, <1>4, <1>5, <1>6, <1>7, <1>8, <1>9, <1>10 DEF Progress

(* A connect that opens its section, before it reads it.                   *)
Opens(j, clean) == [Opened(j) EXCEPT !.clean = clean]

LEMMA GroupPath ==
  ASSUME NEW j, Ready(j)
  PROVE  ~IsList(Append(j.section, "hosts_group"))
<1>1. PICK x : j.section = <<x>>
  BY DEF Ready
<1>2. Append(j.section, "hosts_group") = <<x, "hosts_group">>
  BY <1>1, OneBelow
<1>3. <<x, "hosts_group">>[2] = "hosts_group"
  OBVIOUS
<1>4. QED
  BY <1>2, <1>3 DEF IsList

LEMMA OpensReady ==
  ASSUME NEW j, Ready(j), NEW clean
  PROVE  /\ Ready(Opens(j, clean))
         /\ Opens(j, clean).hosts = Opened(j).hosts /\ Opens(j, clean).cur = Opened(j).cur
         /\ Opens(j, clean).clean = clean
         /\ \A n \in JobFields \ {"cur", "hosts", "clean"} : Opens(j, clean)[n] = j[n]
         /\ Opens(j, clean).cur \in [DOMAIN j.cur -> Nat]
         /\ \A p \in DOMAIN j.cur : /\ Opens(j, clean).cur[p] <= Len(Keys(j, p))
                                    /\ IsList(p) => Opens(j, clean).cur[p] = j.cur[p]
<1> DEFINE group == Append(j.section, "hosts_group")
           a == Advance(j, {group})
           o == Opened(j)
           k == Opens(j, clean)
<1>1. /\ Goes(j, a) /\ Ready(a) /\ (\A n \in JobFields \ {"cur"} : a[n] = j[n])
      /\ \A p \in DOMAIN j.cur : p # group => a.cur[p] = j.cur[p]
  BY AdvanceGoes
<1>2. ~IsList(group)
  BY GroupPath
<1>3. IsRoot(HostsOf(j))
  <2>1. HostsOf(j) = j.section \/ \E x : HostsOf(j) = <<x>>
    BY DEF HostsOf
  <2>2. QED
    BY <2>1 DEF Ready, IsRoot
<1>4. o = j \/ o = [a EXCEPT !.hosts = HostsOf(j)]
  BY DEF Opened
<1> HIDE DEF a, group
<1>5. /\ DOMAIN o = JobFields /\ o.cur \in [DOMAIN j.cur -> Nat] /\ IsRoot(o.hosts)
      /\ \A n \in JobFields \ {"cur", "hosts"} : o[n] = j[n]
      /\ \A p \in DOMAIN j.cur : /\ o.cur[p] <= Len(Keys(j, p))
                                 /\ IsList(p) => o.cur[p] = j.cur[p]
  <2>1. CASE o = j
    BY <2>1 DEF Ready, IsRoot
  <2>2. CASE o = [a EXCEPT !.hosts = HostsOf(j)]
    <3>1. /\ DOMAIN o = JobFields /\ o.hosts = HostsOf(j)
          /\ \A n \in JobFields \ {"hosts"} : o[n] = a[n]
      BY <1>1, <2>2 DEF Ready, JobFields
    <3>2. o.cur = a.cur
      BY <3>1 DEF JobFields
    <3>3. a.cur \in [DOMAIN j.cur -> Nat] /\ \A p \in DOMAIN j.cur : a.cur[p] <= Len(Keys(j, p))
      BY <1>1 DEF Goes
    <3>4. QED
      BY <1>1, <1>2, <1>3, <3>1, <3>2, <3>3
  <2>3. QED
    BY <1>4, <2>1, <2>2
<1> HIDE DEF o
<1>6. /\ DOMAIN k = JobFields /\ k.clean = clean
      /\ \A n \in JobFields \ {"clean"} : k[n] = o[n]
  BY <1>5 DEF Opens, o, JobFields
<1> HIDE DEF k
<1>7. k.cur = o.cur /\ k.hosts = o.hosts /\ k.tree = j.tree /\ k.step = j.step /\ k.section = j.section
  BY <1>5, <1>6 DEF JobFields
<1>8. \A p : (IsSection(k, p) = IsSection(j, p)) /\ Keys(k, p) = Keys(j, p)
  BY <1>7, SameTree
<1>9. Ready(k)
  <2>1. \A p \in DOMAIN k.cur : IsSection(k, p) /\ k.cur[p] <= Len(Keys(k, p))
    BY <1>5, <1>7, <1>8 DEF Ready
  <2>2. \A p : IsSection(k, p) => IsSeq(Keys(k, p))
    BY <1>8 DEF Ready
  <2>3. k.step \in Steps /\ (\E x : k.section = <<x>>) /\ (\E x : k.hosts = <<x>>)
    BY <1>5, <1>7 DEF Ready, IsRoot
  <2>4. QED
    BY <1>5, <1>6, <1>7, <2>1, <2>2, <2>3 DEF Ready
<1>10. QED
  BY <1>5, <1>6, <1>7, <1>9 DEF k, o

\* A connect that has read nothing.
LEMMA FirstProgress ==
  ASSUME NEW j, Ready(j), j.stop = "no", j.step = IF j.fabric THEN "fabric" ELSE "options",
         j.master = <<>>, j.slave = <<>>, j.filters = <<>>,
         \A p \in DOMAIN j.cur : IsList(p) => j.cur[p] = 0
  PROVE  Progress(j)
<1>1. /\ Untouched(j, ListAt(j, "master")) /\ Untouched(j, ListAt(j, "slave"))
      /\ Untouched(j, FiltersAt(j))
  BY ListsAreLists DEF Untouched
<1>2. j["master"] = <<>> /\ j["slave"] = <<>>
  OBVIOUS
<1>3. NoServers(j, "master") /\ NoServers(j, "slave") /\ NoFilters(j)
  BY <1>1, <1>2 DEF NoServers, NoFilters
<1>4. QED
  BY <1>3 DEF Progress

LEMMA JobStarts ==
  ASSUME NEW e, NEW f, NEW s, IsRoot(s)
  PROVE  LET j == Job(e, f, s) IN
         /\ IsJob(j, e, f) /\ j.section = s /\ j.hosts = s /\ j.stop = "no" /\ j.clean
         /\ j.step = IF j.fabric THEN "fabric" ELSE "options"
         /\ j.master = <<>> /\ j.slave = <<>> /\ j.filters = <<>>
<1> DEFINE fabric == Append(s, "fabric") \in DOMAIN Trees[f]
           j == Job(e, f, s)
<1>1. /\ DOMAIN j = JobFields
      /\ j.env = e /\ j.file = f /\ j.tree = <<>> /\ j.cur = <<>> /\ j.section = s /\ j.hosts = s
      /\ j.fabric = fabric /\ j.clean = TRUE /\ j.step = IF fabric THEN "fabric" ELSE "options"
      /\ j.master = <<>> /\ j.slave = <<>> /\ j.filters = <<>> /\ j.stop = "no"
  <2> DEFINE new == Append(s, "fabric") \in DOMAIN Trees[f]
  <2> HIDE DEF new
  <2>1. (Append(s, "fabric") \in DOMAIN Trees[f]) = new
    BY DEF new
  <2>2. QED
    BY <2>1 DEF Job, JobFields, fabric
<1> HIDE DEF fabric, j
<1>2. j.step \in Steps
  BY <1>1 DEF Steps
<1>3. IsJob(j, e, f)
  BY <1>1, <1>2 DEF IsJob
<1>4. QED
  BY <1>1, <1>3 DEF j

----------------------------------------------------------------------------
(* The inductive invariant *)

ThreadFields == {"pc", "host", "ret", "job", "own", "startup", "ref", "fresh"}

ThreadTypes(t) ==
  /\ DOMAIN thr[t] = ThreadFields
  /\ thr[t].pc \in {"idle", "lock", "load", "returned", "dead"}
  /\ PositionsIn(HostTree, thr[t].own)
  /\ thr[t].pc # "load" => thr[t].own = Start(HostTree)

Types ==
  /\ env \in Envs /\ disk \in DOMAIN Files /\ loaded \in DOMAIN Files
  /\ PositionsIn(Files[loaded], cursor)
  /\ lock \in Threads \cup {Null}
  /\ \A s \in left : IsRoot(s)
  /\ DOMAIN thr = Threads
  /\ \A t \in Threads : ThreadTypes(t)

\* A connect that waits for the lock has read nothing, and neither has its reference.
Waiting(t) ==
  thr[t].pc = "lock" =>
    /\ IsRoot(thr[t].job.section) /\ thr[t].job = Job(env, loaded, thr[t].job.section)
    /\ thr[t].ref = thr[t].job /\ thr[t].fresh = Start(Trees[loaded])

\* A connect that reads, and its reference, have not left the tree.
Reading(t) ==
  thr[t].pc = "load" =>
    /\ IsJob(thr[t].job, env, loaded) /\ IsJob(thr[t].ref, env, loaded)
    /\ PositionsIn(Trees[loaded], thr[t].fresh)
    /\ Progress(With(thr[t].ref, thr[t].fresh))

\* Unless it came upon a section that was left unrewound it sees what its reference sees.
Alike(t) ==
  thr[t].pc = "load" /\ thr[t].job.clean =>
    /\ thr[t].job = thr[t].ref
    /\ \A p \in DOMAIN thr[t].fresh :
         Within(thr[t].job, p) => Beside(cursor, thr[t].own)[p] = thr[t].fresh[p]

\* And it has returned what its reference has: all of its section.
Returned(t) ==
  /\ thr[t].pc = "returned" /\ thr[t].job # Null /\ thr[t].job.clean => thr[t].job = thr[t].ref
  /\ thr[t].pc = "returned" /\ thr[t].ret = "PASS" => DOMAIN thr[t].job = JobFields
  /\ thr[t].pc = "returned" /\ thr[t].ret = "PASS" /\ thr[t].job.clean /\ ~thr[t].job.err =>
       LET j == With(thr[t].job, <<>>) IN Served(j) /\ AllFilters(j) /\ j.env = env

\* What is read of the shared tree is read by the holder of the lock, or the only thread.
Locking ==
  /\ lock \in Threads => env.zts /\ thr[lock].pc \in {"load", "dead"}
  /\ \A t \in Threads :
       env.zts /\ thr[t].pc = "load" /\ NeedsLock(thr[t].job) => lock = t
  /\ ~env.zts => \A t, u \in Threads : t # u => thr[t].pc = "idle" \/ thr[u].pc = "idle"

\* A position that is not at its start is one that a connect reads, or left.
Accounted ==
  \A p \in DOMAIN cursor : cursor[p] # 0 =>
    \/ \E s \in left : IsPrefix(s, p)
    \/ \E t \in Threads : thr[t].pc = "load" /\ Within(thr[t].job, p)

IInv ==
  /\ Types /\ Locking /\ Accounted
  /\ \A t \in Threads : Waiting(t) /\ Reading(t) /\ Alike(t) /\ Returned(t)

----------------------------------------------------------------------------

LEMMA NullApart == Null \notin Threads /\ Null \notin {"dead", "FAIL", "plain"}
  BY ConfigurationAssumption

LEMMA PathsAreSeqs ==
  ASSUME NEW f \in DOMAIN Files
  PROVE  /\ \A p \in DOMAIN Start(Files[f]) : p \in Seq(STRING)
         /\ \A p \in DOMAIN Start(HostTree) : p \in Seq(STRING)
<1>1. /\ \A p \in DOMAIN Files[f] : p \in Seq(STRING)
      /\ \A p \in DOMAIN HostTree : p \in Seq(STRING)
  BY ConfigurationAssumption DEF IsTree
<1>2. QED
  BY <1>1, StartHas

\* A section of the shared tree that a job reads is one for which it needs the lock.
LEMMA ReadsShared ==
  ASSUME loaded \in DOMAIN Files, DOMAIN cursor = DOMAIN Start(Files[loaded]),
         NEW j, IsRoot(j.section), IsRoot(j.hosts), NEW p \in DOMAIN cursor, Within(j, p)
  PROVE  NeedsLock(j) /\ \E s \in {j.section, j.hosts} : IsPrefix(s, p) /\ Shared(s)
<1>1. PICK s \in {j.section, j.hosts} : IsPrefix(s, p)
  BY DEF Within
<1>2. s \in DOMAIN cursor
  BY <1>1, RootExists
<1>3. QED
  BY <1>1, <1>2 DEF NeedsLock, Shared

LEMMA HoldsLock ==
  ASSUME Types, Locking, NEW u \in Threads, Reading(u), thr[u].pc = "load",
         NEW p \in DOMAIN cursor, Within(thr[u].job, p)
  PROVE  env.zts => lock = u
<1>1. IsRoot(thr[u].job.section) /\ IsRoot(thr[u].job.hosts)
  BY DEF Reading, IsJob
<1>2. NeedsLock(thr[u].job)
  BY <1>1, ReadsShared DEF Types, PositionsIn
<1>3. QED
  BY <1>2 DEF Locking

\* Two connects that read do not read the same.
LEMMA ReadersApart ==
  ASSUME Types, Locking, NEW t \in Threads, NEW u \in Threads, t # u, Reading(t), Reading(u),
         thr[t].pc = "load", thr[u].pc = "load", NEW p \in DOMAIN cursor
  PROVE  ~(Within(thr[t].job, p) /\ Within(thr[u].job, p))
<1>1. CASE env.zts
  BY <1>1, HoldsLock
<1>2. CASE ~env.zts
  BY <1>2 DEF Locking
<1>3. QED
  BY <1>1, <1>2

\* Nobody reads what a connect may lock.
LEMMA NobodyReads ==
  ASSUME Types, Locking, NEW t \in Threads, NEW u \in Threads, Reading(u), thr[t].pc = "lock",
         thr[u].pc = "load", MayLock, NEW p \in DOMAIN cursor
  PROVE  ~Within(thr[u].job, p)
<1>1. t # u
  OBVIOUS
<1>2. CASE env.zts
  BY <1>2, HoldsLock, NullApart DEF MayLock
<1>3. CASE ~env.zts
  BY <1>1, <1>3 DEF Locking
<1>4. QED
  BY <1>2, <1>3

\* The other threads, in a step that leaves them and the shared tree's version alone.
LEMMA OthersStay ==
  ASSUME NEW u \in Threads, thr'[u] = thr[u], env' = env, loaded' = loaded,
         ThreadTypes(u), Waiting(u), Reading(u), Returned(u)
  PROVE  ThreadTypes(u)' /\ Waiting(u)' /\ Reading(u)' /\ Returned(u)'
<1>1. ThreadTypes(u)'
  BY DEF ThreadTypes
<1>2. Waiting(u)'
  BY DEF Waiting
<1>3. Reading(u)'
  BY DEF Reading
<1>4. Returned(u)'
  BY DEF Returned
<1>5. QED
  BY <1>1, <1>2, <1>3, <1>4

LEMMA OthersAlike ==
  ASSUME NEW u \in Threads, thr'[u] = thr[u], Alike(u), Reading(u), Types,
         DOMAIN cursor' = DOMAIN cursor,
         thr[u].pc = "load" => \A p \in DOMAIN cursor : Within(thr[u].job, p) => cursor'[p] = cursor[p]
  PROVE  Alike(u)'
<1> SUFFICES ASSUME thr[u].pc = "load", thr[u].job.clean
             PROVE  /\ thr[u].job = thr[u].ref
                    /\ \A p \in DOMAIN thr[u].fresh :
                         Within(thr[u].job, p) => Beside(cursor', thr[u].own)[p] = thr[u].fresh[p]
  BY DEF Alike
<1>1. ASSUME NEW p \in DOMAIN thr[u].fresh, Within(thr[u].job, p)
      PROVE  Beside(cursor', thr[u].own)[p] = thr[u].fresh[p]
  <2>1. Beside(cursor, thr[u].own)[p] = thr[u].fresh[p]
    BY <1>1 DEF Alike
  <2>2. p \in DOMAIN cursor \cup DOMAIN thr[u].own
    <3>1. DOMAIN thr[u].fresh = DOMAIN Start(Trees[loaded]) /\ DOMAIN thr[u].own = DOMAIN Start(HostTree)
      BY DEF Reading, Types, ThreadTypes, PositionsIn
    <3>2. QED
      BY <1>1, <3>1, StartParts DEF Types, PositionsIn
  <2>3. Beside(cursor', thr[u].own)[p] = Beside(cursor, thr[u].own)[p]
    BY <1>1, <2>2 DEF Beside
  <2>4. QED
    BY <2>1, <2>3
<1>2. QED
  BY <1>1 DEF Alike

LEMMA InitInv ==
  ASSUME Init
  PROVE  IInv
<1>1. env \in Envs /\ disk \in DOMAIN Files /\ loaded = disk /\ cursor = Start(Files[disk])
      /\ left = {} /\ lock = Null /\ DOMAIN thr = Threads
      /\ \A t \in Threads : thr[t] = [Idle EXCEPT !.startup = DOMAIN Files[disk] = {}]
  BY DEF Init
<1>2. \A t \in Threads : DOMAIN thr[t] = ThreadFields /\ thr[t].pc = "idle" /\ thr[t].own = Start(HostTree)
  BY <1>1 DEF Idle, ThreadFields
<1>3. PositionsIn(Files[disk], Start(Files[disk])) /\ PositionsIn(HostTree, Start(HostTree))
  BY <1>1, StartsPlaced
<1>4. Types
  BY <1>1, <1>2, <1>3 DEF Types, ThreadTypes
<1>5. Locking
  BY <1>1, <1>2, NullApart DEF Locking
<1>6. Accounted
  BY <1>1, StartHas DEF Accounted
<1>7. \A t \in Threads : Waiting(t) /\ Reading(t) /\ Alike(t) /\ Returned(t)
  BY <1>2 DEF Waiting, Reading, Alike, Returned
<1>8. QED
  BY <1>4, <1>5, <1>6, <1>7 DEF IInv

LEMMA StillInv ==
  ASSUME IInv, disk' \in DOMAIN Files, UNCHANGED <<env, loaded, cursor, left, lock, thr>>
  PROVE  IInv'
<1>1. Types'
  BY DEF IInv, Types, ThreadTypes
<1>2. Locking' /\ Accounted'
  BY DEF IInv, Locking, Accounted, NeedsLock, Shared
<1>3. \A t \in Threads : Waiting(t)' /\ Reading(t)' /\ Alike(t)' /\ Returned(t)'
  BY DEF IInv, Waiting, Reading, Alike, Returned
<1>4. QED
  BY <1>1, <1>2, <1>3 DEF IInv

LEMMA RequestInv ==
  ASSUME IInv, NEW t \in Threads, NewRequest(t), "quiet" \in Discipline
  PROVE  IInv'
<1> DEFINE startup == IF disk = loaded THEN thr[t].startup ELSE DOMAIN Files[disk] = {}
           new == [Idle EXCEPT !.startup = startup]
<1>1. /\ thr' = [thr EXCEPT ![t] = new]
      /\ env' = env /\ disk' = disk /\ lock' = lock /\ loaded' = disk
  BY DEF NewRequest
<1>2. DOMAIN new = ThreadFields /\ new.pc = "idle" /\ new.own = Start(HostTree)
  BY DEF Idle, ThreadFields
<1> HIDE DEF new, startup
<1>3. /\ DOMAIN thr' = Threads /\ thr'[t] = new
      /\ \A u \in Threads : u # t => thr'[u] = thr[u]
  BY <1>1 DEF IInv, Types
<1>4. Waiting(t)' /\ Reading(t)' /\ Alike(t)' /\ Returned(t)' /\ ThreadTypes(t)'
  BY <1>1, <1>2, <1>3, StartsPlaced DEF Waiting, Reading, Alike, Returned, ThreadTypes, IInv, Types
<1>5. thr[t].pc # "load" /\ thr[t].pc # "lock" /\ (lock = Null \/ ~env.zts)
  BY DEF NewRequest, MayLock
<1>6. lock \notin Threads
  BY <1>5, NullApart DEF IInv, Locking
<1>7. CASE disk = loaded
  <2>1. cursor' = cursor /\ left' = left /\ loaded' = loaded
    BY <1>1, <1>7 DEF NewRequest
  <2>2. ASSUME NEW u \in Threads, u # t
        PROVE  ThreadTypes(u)' /\ Waiting(u)' /\ Reading(u)' /\ Returned(u)' /\ Alike(u)'
    <3>1. ThreadTypes(u)' /\ Waiting(u)' /\ Reading(u)' /\ Returned(u)'
      BY <1>1, <1>3, <2>1, <2>2, OthersStay DEF IInv, Types
    <3>2. Alike(u)'
      BY <1>3, <2>1, <2>2 DEF IInv, Alike
    <3>3. QED
      BY <3>1, <3>2
  <2>3. Types'
    BY <1>1, <1>3, <1>4, <2>1, <2>2 DEF IInv, Types
  <2>4. Locking'
    BY <1>1, <1>2, <1>3, <1>6, <2>1 DEF IInv, Locking, NeedsLock, Shared
  <2>5. Accounted'
    <3>1. ASSUME NEW p \in DOMAIN cursor, cursor[p] # 0, NEW u \in Threads, thr[u].pc = "load",
                 Within(thr[u].job, p)
          PROVE  thr'[u].pc = "load" /\ Within(thr'[u].job, p)
      BY <1>3, <1>5, <3>1
    <3>2. QED
      BY <2>1, <3>1 DEF IInv, Accounted
  <2>6. QED
    BY <1>4, <2>2, <2>3, <2>4, <2>5 DEF IInv
<1>8. CASE disk # loaded
  <2>1. cursor' = Start(Files[disk]) /\ left' = {} /\ \A u \in Threads : thr[u].pc \notin {"lock", "load"}
    BY <1>1, <1>5, <1>8 DEF NewRequest
  <2>2. ASSUME NEW u \in Threads, u # t
        PROVE  ThreadTypes(u)' /\ Waiting(u)' /\ Reading(u)' /\ Returned(u)' /\ Alike(u)'
    <3>1. ThreadTypes(u)'
      BY <1>3, <2>2 DEF IInv, Types, ThreadTypes
    <3>2. Waiting(u)' /\ Reading(u)' /\ Alike(u)'
      BY <1>3, <2>1, <2>2 DEF Waiting, Reading, Alike
    <3>3. Returned(u)'
      BY <1>1, <1>3, <2>2 DEF IInv, Returned
    <3>4. QED
      BY <3>1, <3>2, <3>3
  <2>3. Types'
    BY <1>1, <1>3, <1>4, <2>1, <2>2, StartsPlaced DEF IInv, Types
  <2>4. Locking'
    BY <1>1, <1>2, <1>3, <1>6, <2>1 DEF IInv, Locking
  <2>5. Accounted'
    BY <2>1, StartHas DEF Accounted
  <2>6. QED
    BY <1>4, <2>2, <2>3, <2>4, <2>5 DEF IInv
<1>9. QED
  BY <1>7, <1>8

LEMMA SectionIsRoot ==
  ASSUME NEW f \in DOMAIN Files, NEW h, SectionOf(f, h) # Null
  PROVE  IsRoot(SectionOf(f, h))
<1>1. CASE h \in DOMAIN HostFile
  <2>1. Len(HostFile[h]) = 1 /\ HostFile[h] \in Seq(STRING)
    BY <1>1, ConfigurationAssumption DEF IsTree
  <2>2. HostFile[h] = <<HostFile[h][1]>>
    BY <2>1
  <2>3. QED
    BY <1>1, <2>2 DEF SectionOf, IsRoot
<1>2. CASE h \notin DOMAIN HostFile
  BY <1>2 DEF SectionOf, IsRoot
<1>3. QED
  BY <1>1, <1>2

LEMMA ConnectInv ==
  ASSUME IInv, NEW t \in Threads, NEW h, Connect(t, h)
  PROVE  IInv'
<1> DEFINE ret == Outcome(t, h)
           job == IF ret # Null THEN Null ELSE Job(env, loaded, SectionOf(loaded, h))
           pc == IF ret = Null THEN "lock" ELSE IF ret = "dead" THEN "dead" ELSE "returned"
           fresh == IF ret # Null THEN <<>> ELSE Start(Trees[loaded])
<1>1. /\ thr' = [thr EXCEPT ![t].pc = pc, ![t].host = h, ![t].ret = ret, ![t].job = job,
                            ![t].ref = job, ![t].fresh = fresh]
      /\ env' = env /\ disk' = disk /\ lock' = lock /\ loaded' = loaded /\ cursor' = cursor /\ left' = left
  BY DEF Connect
<1>2. ret = Null => IsRoot(SectionOf(loaded, h))
  BY NullApart, SectionIsRoot DEF Outcome, IInv, Types
<1>3. ret \in {Null, "dead", "FAIL", "plain"}
  BY DEF Outcome
<1>4. pc \in {"lock", "dead", "returned"} /\ (pc = "lock" <=> ret = Null) /\ (pc = "returned" => ret # "PASS")
  BY <1>3
<1>5. ret = Null => job = Job(env, loaded, SectionOf(loaded, h)) /\ fresh = Start(Trees[loaded])
  OBVIOUS
<1>6. ret # Null => job = Null
  OBVIOUS
<1> HIDE DEF pc, job, fresh, ret
<1>7. /\ DOMAIN thr' = Threads
      /\ DOMAIN thr'[t] = ThreadFields /\ thr'[t].pc = pc /\ thr'[t].ret = ret /\ thr'[t].job = job
      /\ thr'[t].ref = job /\ thr'[t].fresh = fresh /\ thr'[t].own = thr[t].own
      /\ \A u \in Threads : u # t => thr'[u] = thr[u]
  BY <1>1 DEF IInv, Types, ThreadTypes, ThreadFields
<1>8. thr[t].pc \in {"idle", "returned"} /\ Runs(t)
  BY DEF Connect
<1>9. ThreadTypes(t)'
  BY <1>4, <1>7, <1>8 DEF IInv, Types, ThreadTypes
<1>10. Waiting(t)'
  <2>1. ASSUME ret = Null
        PROVE  IsRoot(job.section) /\ job = Job(env, loaded, job.section)
    <3>1. job.section = SectionOf(loaded, h)
      BY <1>2, <1>5, <2>1, JobStarts
    <3>2. QED
      BY <1>2, <1>5, <2>1, <3>1
  <2>2. QED
    BY <1>1, <1>4, <1>5, <1>7, <2>1 DEF Waiting
<1>11. Reading(t)' /\ Alike(t)' /\ Returned(t)'
  BY <1>4, <1>6, <1>7 DEF Reading, Alike, Returned
<1>12. ASSUME NEW u \in Threads, u # t
       PROVE  ThreadTypes(u)' /\ Waiting(u)' /\ Reading(u)' /\ Returned(u)' /\ Alike(u)'
  <2>1. ThreadTypes(u)' /\ Waiting(u)' /\ Reading(u)' /\ Returned(u)'
    BY <1>1, <1>7, <1>12, OthersStay DEF IInv, Types
  <2>2. Alike(u)'
    BY <1>1, <1>7, <1>12 DEF IInv, Alike
  <2>3. QED
    BY <2>1, <2>2
<1>13. Types'
  BY <1>1, <1>7, <1>9, <1>12 DEF IInv, Types
<1>14. Locking'
  <2>1. lock \in Threads => lock # t
    BY <1>8 DEF IInv, Locking
  <2>2. lock' \in Threads => env'.zts /\ thr'[lock'].pc \in {"load", "dead"}
    BY <1>1, <1>7, <2>1 DEF IInv, Locking
  <2>3. ASSUME NEW u \in Threads
        PROVE  (env.zts /\ thr[u].pc = "load" /\ NeedsLock(thr[u].job) => lock = u)'
    BY <1>1, <1>4, <1>7 DEF IInv, Locking, NeedsLock, Shared
  <2>4. ~env'.zts => \A a, u \in Threads : a # u => thr'[a].pc = "idle" \/ thr'[u].pc = "idle"
    BY <1>1, <1>7, <1>8 DEF IInv, Locking, Runs
  <2>5. QED
    BY <2>2, <2>3, <2>4 DEF Locking
<1>15. Accounted'
  <2>1. ASSUME NEW p \in DOMAIN cursor, cursor[p] # 0, NEW u \in Threads, thr[u].pc = "load",
               Within(thr[u].job, p)
        PROVE  thr'[u].pc = "load" /\ Within(thr'[u].job, p)
    BY <1>7, <1>8, <2>1
  <2>2. QED
    BY <1>1, <2>1 DEF IInv, Accounted
<1>16. QED
  BY <1>10, <1>11, <1>12, <1>13, <1>14, <1>15 DEF IInv

\* What a connect that goes on does to the shared tree and to its own record.
LEMMA KeepDoes ==
  ASSUME Types, NEW t \in Threads, NEW k, NEW r, Keep(t, k, r), env' = env, loaded' = loaded,
         PositionsIn(Trees[loaded], thr[t].fresh),
         Ready(k), k.tree = Trees[loaded], k.env = env, k.file = loaded,
         Ready(r), r.tree = Trees[loaded], r.env = env, r.file = loaded
  PROVE  /\ DOMAIN thr' = Threads /\ \A u \in Threads : u # t => thr'[u] = thr[u]
         /\ thr'[t].pc = "load" /\ thr'[t].job = Parted(k) /\ thr'[t].ref = Parted(r)
         /\ thr'[t].own = Kept(thr[t].own, k) /\ thr'[t].fresh = Kept(thr[t].fresh, r)
         /\ IsJob(thr'[t].job, env, loaded) /\ IsJob(thr'[t].ref, env, loaded)
         /\ PositionsIn(Files[loaded], cursor') /\ PositionsIn(HostTree, thr'[t].own)
         /\ PositionsIn(Trees[loaded], thr'[t].fresh)
         /\ DOMAIN cursor' = DOMAIN cursor /\ DOMAIN thr'[t].own = DOMAIN thr[t].own
         /\ DOMAIN thr'[t].fresh = DOMAIN thr[t].fresh
         /\ \A p \in DOMAIN cursor : cursor'[p] = IF p \in DOMAIN k.cur THEN k.cur[p] ELSE cursor[p]
         /\ \A p \in DOMAIN thr[t].own :
              thr'[t].own[p] = IF p \in DOMAIN k.cur THEN k.cur[p] ELSE thr[t].own[p]
         /\ \A p \in DOMAIN thr[t].fresh :
              thr'[t].fresh[p] = IF p \in DOMAIN r.cur THEN r.cur[p] ELSE thr[t].fresh[p]
         /\ ThreadTypes(t)' /\ Waiting(t)' /\ Returned(t)'
<1>1. /\ DOMAIN thr' = Threads /\ \A u \in Threads : u # t => thr'[u] = thr[u]
      /\ thr'[t].pc = "load" /\ thr'[t].job = Parted(k) /\ thr'[t].ref = Parted(r)
      /\ thr'[t].own = Kept(thr[t].own, k) /\ thr'[t].fresh = Kept(thr[t].fresh, r)
      /\ DOMAIN thr'[t] = ThreadFields /\ cursor' = Kept(cursor, k)
  BY DEF Keep, Types, ThreadTypes, ThreadFields
<1>2. IsJob(Parted(k), env, loaded) /\ IsJob(Parted(r), env, loaded)
  BY PartedJob
<1>3. loaded \in DOMAIN Files /\ PositionsIn(Files[loaded], cursor) /\ PositionsIn(HostTree, thr[t].own)
  BY DEF Types, ThreadTypes
<1>4. /\ \A p \in DOMAIN k.cur : k.cur[p] \in Nat /\ k.cur[p] <= Len(Trees[loaded][p].keys)
      /\ \A p \in DOMAIN r.cur : r.cur[p] \in Nat /\ r.cur[p] <= Len(Trees[loaded][p].keys)
  BY DEF Ready, Keys, Node
<1>5. /\ \A p \in DOMAIN cursor : Trees[loaded][p] = Files[loaded][p]
      /\ \A p \in DOMAIN thr[t].own : Trees[loaded][p] = HostTree[p]
  <2>1. /\ \A p \in DOMAIN cursor : p \in DOMAIN Files[loaded]
        /\ \A p \in DOMAIN thr[t].own : p \in DOMAIN HostTree
    BY <1>3, StartHas DEF PositionsIn
  <2>2. QED
    BY <1>3, <2>1, TreeParts
<1>6. /\ PositionsIn(Files[loaded], Kept(cursor, k)) /\ DOMAIN Kept(cursor, k) = DOMAIN cursor
      /\ \A p \in DOMAIN cursor :
           Kept(cursor, k)[p] = IF p \in DOMAIN k.cur THEN k.cur[p] ELSE cursor[p]
  <2>1. \A p \in DOMAIN k.cur : p \in DOMAIN cursor =>
          k.cur[p] \in Nat /\ k.cur[p] <= Len(Files[loaded][p].keys)
    BY <1>4, <1>5
  <2>2. QED
    BY <1>3, <2>1, KeptPlaced
<1>7. /\ PositionsIn(HostTree, Kept(thr[t].own, k)) /\ DOMAIN Kept(thr[t].own, k) = DOMAIN thr[t].own
      /\ \A p \in DOMAIN thr[t].own :
           Kept(thr[t].own, k)[p] = IF p \in DOMAIN k.cur THEN k.cur[p] ELSE thr[t].own[p]
  <2>1. \A p \in DOMAIN k.cur : p \in DOMAIN thr[t].own =>
          k.cur[p] \in Nat /\ k.cur[p] <= Len(HostTree[p].keys)
    BY <1>4, <1>5
  <2>2. QED
    BY <1>3, <2>1, KeptPlaced
<1>8. /\ PositionsIn(Trees[loaded], Kept(thr[t].fresh, r))
      /\ DOMAIN Kept(thr[t].fresh, r) = DOMAIN thr[t].fresh
      /\ \A p \in DOMAIN thr[t].fresh :
           Kept(thr[t].fresh, r)[p] = IF p \in DOMAIN r.cur THEN r.cur[p] ELSE thr[t].fresh[p]
  BY <1>4, KeptPlaced
<1>9. /\ PositionsIn(Files[loaded], cursor') /\ DOMAIN cursor' = DOMAIN cursor
      /\ \A p \in DOMAIN cursor : cursor'[p] = IF p \in DOMAIN k.cur THEN k.cur[p] ELSE cursor[p]
  BY <1>1, <1>6
<1>10. /\ PositionsIn(HostTree, thr'[t].own) /\ DOMAIN thr'[t].own = DOMAIN thr[t].own
       /\ \A p \in DOMAIN thr[t].own :
            thr'[t].own[p] = IF p \in DOMAIN k.cur THEN k.cur[p] ELSE thr[t].own[p]
  BY <1>1, <1>7
<1>11. /\ PositionsIn(Trees[loaded], thr'[t].fresh) /\ DOMAIN thr'[t].fresh = DOMAIN thr[t].fresh
       /\ \A p \in DOMAIN thr[t].fresh :
            thr'[t].fresh[p] = IF p \in DOMAIN r.cur THEN r.cur[p] ELSE thr[t].fresh[p]
  BY <1>1, <1>8
<1>12. IsJob(thr'[t].job, env, loaded) /\ IsJob(thr'[t].ref, env, loaded)
  BY <1>1, <1>2
<1>13. ThreadTypes(t)'
  BY <1>1, <1>10 DEF ThreadTypes
<1>14. Waiting(t)' /\ Returned(t)'
  BY <1>1 DEF Waiting, Returned
<1>15. QED
  BY <1>1, <1>9, <1>10, <1>11, <1>12, <1>13, <1>14

\* The other connects, when what t has read is not what they read.
LEMMA KeepOthers ==
  ASSUME IInv, NEW t \in Threads, NEW k, NEW r, Keep(t, k, r), env' = env, loaded' = loaded,
         DOMAIN thr' = Threads, \A u \in Threads : u # t => thr'[u] = thr[u],
         DOMAIN cursor' = DOMAIN cursor,
         \A p \in DOMAIN cursor : cursor'[p] = IF p \in DOMAIN k.cur THEN k.cur[p] ELSE cursor[p],
         \A u \in Threads : u # t /\ thr[u].pc = "load" =>
           \A p \in DOMAIN k.cur : p \in DOMAIN cursor => ~Within(thr[u].job, p)
  PROVE  \A u \in Threads : u # t =>
           ThreadTypes(u)' /\ Waiting(u)' /\ Reading(u)' /\ Returned(u)' /\ Alike(u)'
<1> SUFFICES ASSUME NEW u \in Threads, u # t
             PROVE  ThreadTypes(u)' /\ Waiting(u)' /\ Reading(u)' /\ Returned(u)' /\ Alike(u)'
  OBVIOUS
<1>1. thr'[u] = thr[u]
  OBVIOUS
<1>2. ThreadTypes(u)' /\ Waiting(u)' /\ Reading(u)' /\ Returned(u)'
  BY <1>1, OthersStay DEF IInv, Types
<1>3. thr[u].pc = "load" => \A p \in DOMAIN cursor : Within(thr[u].job, p) => cursor'[p] = cursor[p]
  OBVIOUS
<1>4. Alike(u)'
  BY <1>1, <1>3, OthersAlike DEF IInv
<1>5. QED
  BY <1>2, <1>4

LEMMA LoadInv ==
  ASSUME IInv, NEW t \in Threads, Load(t)
  PROVE  IInv'
<1> DEFINE w == Current(t)
           v == Reference(t)
           k == Step(w)
           r == Step(v)
           all == Beside(cursor, thr[t].own)
<1>1. /\ thr[t].pc = "load" /\ Keep(t, k, r)
      /\ env' = env /\ disk' = disk /\ loaded' = loaded /\ left' = left /\ lock' = lock
  BY DEF Load
<1>2. /\ w = With(thr[t].job, all) /\ v = With(thr[t].ref, thr[t].fresh)
      /\ IsJob(thr[t].job, env, loaded) /\ IsJob(thr[t].ref, env, loaded)
      /\ PositionsIn(Trees[loaded], thr[t].fresh) /\ Progress(With(thr[t].ref, thr[t].fresh))
      /\ loaded \in DOMAIN Files /\ PositionsIn(Files[loaded], cursor) /\ PositionsIn(HostTree, thr[t].own)
  BY <1>1 DEF IInv, Reading, Types, ThreadTypes, Current, Reference
<1>3. /\ PositionsIn(Trees[loaded], all) /\ DOMAIN all = DOMAIN cursor \cup DOMAIN thr[t].own
      /\ \A p \in DOMAIN cursor : all[p] = cursor[p] /\ p \notin DOMAIN thr[t].own
      /\ \A p \in DOMAIN thr[t].own : all[p] = thr[t].own[p]
  <2>1. loaded \in DOMAIN Files /\ PositionsIn(Files[loaded], cursor) /\ PositionsIn(HostTree, thr[t].own)
    BY <1>2
  <2>2. QED
    BY <2>1, BesidePlaced
<1> HIDE DEF all
<1>4. /\ Ready(w) /\ Whole(w) /\ w.tree = Trees[loaded]
      /\ \A n \in JobFields \ {"tree", "cur"} : w[n] = thr[t].job[n]
      /\ DOMAIN w.cur = {p \in DOMAIN all : Within(thr[t].job, p)}
  BY <1>2, <1>3, WithReady
<1>5. /\ Ready(v) /\ Whole(v) /\ v.tree = Trees[loaded]
      /\ \A n \in JobFields \ {"tree", "cur"} : v[n] = thr[t].ref[n]
      /\ DOMAIN v.cur = {p \in DOMAIN thr[t].fresh : Within(thr[t].ref, p)}
  BY <1>2, WithReady
<1>6. Progress(v)
  BY <1>2
<1>7. thr[t].job.clean => thr[t].job = thr[t].ref /\ w = v
  <2>1. ASSUME thr[t].job.clean
        PROVE  thr[t].job = thr[t].ref /\ \A p \in DOMAIN all : Within(thr[t].job, p) => all[p] = thr[t].fresh[p]
    BY <1>1, <1>2, <1>3, <2>1 DEF IInv, Alike, PositionsIn, all
  <2>2. DOMAIN all = DOMAIN thr[t].fresh
    BY <1>2, <1>3 DEF PositionsIn
  <2>3. QED
    BY <1>2, <2>1, <2>2, SameView
<1> HIDE DEF w, v
<1>8. Goes(w, k) /\ Ready(k) /\ Goes(v, r) /\ Ready(r)
  BY <1>4, <1>5, StepGoes
<1>9. Progress(r)
  BY <1>5, <1>6, StepProgress
<1>10. thr[t].job.clean => k = r
  BY <1>7
<1> HIDE DEF k, r
<1>11. /\ k.tree = Trees[loaded] /\ k.env = env /\ k.file = loaded
       /\ k.section = thr[t].job.section /\ k.hosts = thr[t].job.hosts /\ k.clean = thr[t].job.clean
       /\ DOMAIN k.cur = {p \in DOMAIN all : Within(thr[t].job, p)}
  BY <1>2, <1>4, <1>8 DEF Goes, IsJob, JobFields
<1>12. r.tree = Trees[loaded] /\ r.env = env /\ r.file = loaded
  BY <1>2, <1>5, <1>8 DEF Goes, IsJob, JobFields
<1>13. /\ DOMAIN thr' = Threads /\ \A u \in Threads : u # t => thr'[u] = thr[u]
       /\ thr'[t].pc = "load" /\ thr'[t].job = Parted(k) /\ thr'[t].ref = Parted(r)
       /\ thr'[t].own = Kept(thr[t].own, k) /\ thr'[t].fresh = Kept(thr[t].fresh, r)
       /\ IsJob(thr'[t].job, env, loaded) /\ IsJob(thr'[t].ref, env, loaded)
       /\ PositionsIn(Files[loaded], cursor') /\ PositionsIn(HostTree, thr'[t].own)
       /\ PositionsIn(Trees[loaded], thr'[t].fresh)
       /\ DOMAIN cursor' = DOMAIN cursor /\ DOMAIN thr'[t].own = DOMAIN thr[t].own
       /\ DOMAIN thr'[t].fresh = DOMAIN thr[t].fresh
       /\ \A p \in DOMAIN cursor : cursor'[p] = IF p \in DOMAIN k.cur THEN k.cur[p] ELSE cursor[p]
       /\ \A p \in DOMAIN thr[t].own :
            thr'[t].own[p] = IF p \in DOMAIN k.cur THEN k.cur[p] ELSE thr[t].own[p]
       /\ \A p \in DOMAIN thr[t].fresh :
            thr'[t].fresh[p] = IF p \in DOMAIN r.cur THEN r.cur[p] ELSE thr[t].fresh[p]
       /\ ThreadTypes(t)' /\ Waiting(t)' /\ Returned(t)'
  BY <1>1, <1>2, <1>8, <1>11, <1>12, KeepDoes DEF IInv
<1>14. /\ thr'[t].job.section = thr[t].job.section /\ thr'[t].job.hosts = thr[t].job.hosts
       /\ thr'[t].job.clean = thr[t].job.clean
       /\ \A p : Within(thr'[t].job, p) = Within(thr[t].job, p)
  <2>1. \A n \in JobFields \ {"tree", "cur"} : thr'[t].job[n] = k[n]
    BY <1>8, <1>13, PartedJob
  <2>2. QED
    BY <1>11, <2>1 DEF JobFields, Within
<1>15. \A u \in Threads : u # t /\ thr[u].pc = "load" =>
         \A p \in DOMAIN k.cur : p \in DOMAIN cursor => ~Within(thr[u].job, p)
  BY <1>1, <1>11, ReadersApart DEF IInv
<1>16. \A u \in Threads : u # t =>
         ThreadTypes(u)' /\ Waiting(u)' /\ Reading(u)' /\ Returned(u)' /\ Alike(u)'
  BY <1>1, <1>13, <1>15, KeepOthers
<1>17. Reading(t)'
  <2>1. Goes(With(thr[t].ref, thr[t].fresh), r)
    BY <1>8 DEF v, Reference
  <2>2. \A n \in JobFields : With(Parted(r), Kept(thr[t].fresh, r))[n] = r[n]
    BY <1>2, <2>1, PartedSees
  <2>3. Progress(With(Parted(r), Kept(thr[t].fresh, r)))
    BY <1>9, <2>2, SameProgress
  <2>4. QED
    BY <1>1, <1>13, <2>3 DEF Reading
<1>18. Alike(t)'
  <2>1. ASSUME thr[t].job.clean, NEW p \in DOMAIN thr[t].fresh, Within(thr[t].job, p)
        PROVE  Beside(cursor', thr'[t].own)[p] = thr'[t].fresh[p]
    <3>1. k = r /\ DOMAIN all = DOMAIN thr[t].fresh
      BY <1>2, <1>3, <1>10, <2>1 DEF PositionsIn
    <3>2. p \in DOMAIN k.cur
      BY <1>11, <2>1, <3>1
    <3>3. thr'[t].fresh[p] = k.cur[p]
      BY <1>13, <2>1, <3>1, <3>2
    <3>4. p \in DOMAIN cursor \cup DOMAIN thr[t].own
      BY <1>3, <2>1, <3>1
    <3>5. Beside(cursor', thr'[t].own)[p] = k.cur[p]
      BY <1>13, <3>2, <3>4 DEF Beside
    <3>6. QED
      BY <3>3, <3>5
  <2>2. thr[t].job.clean => thr'[t].job = thr'[t].ref
    BY <1>10, <1>13
  <2>3. QED
    BY <1>13, <1>14, <2>1, <2>2 DEF Alike
<1>19. Types'
  BY <1>1, <1>13, <1>16 DEF IInv, Types
<1>20. Locking'
  BY <1>1, <1>13, <1>14 DEF IInv, Locking, NeedsLock, Shared
<1>21. Accounted'
  <2>1. ASSUME NEW p \in DOMAIN cursor, cursor'[p] # 0
        PROVE  \/ \E s \in left : IsPrefix(s, p)
               \/ \E u \in Threads : thr'[u].pc = "load" /\ Within(thr'[u].job, p)
    <3>1. CASE p \in DOMAIN k.cur
      BY <1>11, <1>13, <1>14, <3>1
    <3>2. CASE p \notin DOMAIN k.cur
      <4>1. cursor[p] # 0
        BY <1>13, <2>1, <3>2
      <4>2. \A u \in Threads : thr[u].pc = "load" /\ Within(thr[u].job, p) =>
              thr'[u].pc = "load" /\ Within(thr'[u].job, p)
        BY <1>13, <1>14
      <4>3. QED
        BY <4>1, <4>2 DEF IInv, Accounted
    <3>3. QED
      BY <3>1, <3>2
  <2>2. QED
    BY <1>1, <1>13, <2>1 DEF Accounted
<1>22. QED
  BY <1>13, <1>16, <1>17, <1>18, <1>19, <1>20, <1>21 DEF IInv

LEMMA OpenInv ==
  ASSUME IInv, NEW t \in Threads, Open(t)
  PROVE  IInv'
<1> DEFINE job == thr[t].job
           start == thr[t].fresh
           all == Beside(cursor, thr[t].own)
           w == Current(t)
           v == Reference(t)
           c == {Opened(w).section, Opened(w).hosts} \cap left = {}
           k == Opens(w, c)
           r == Opens(v, c)
<1>1. /\ thr[t].pc = "lock" /\ Keep(t, k, r)
      /\ NeedsLock(Opened(w)) => MayLock
      /\ lock' = IF NeedsLock(Opened(w)) THEN IF env.zts THEN t ELSE Null ELSE lock
      /\ env' = env /\ disk' = disk /\ loaded' = loaded /\ left' = left
  BY DEF Open, Opens, HoldBy
<1>2. /\ loaded \in DOMAIN Files /\ PositionsIn(Files[loaded], cursor) /\ PositionsIn(HostTree, thr[t].own)
      /\ thr[t].own = Start(HostTree) /\ thr[t].ref = job /\ start = Start(Trees[loaded])
      /\ IsRoot(job.section) /\ job = Job(env, loaded, job.section)
  BY <1>1 DEF IInv, Types, ThreadTypes, Waiting
<1>3. /\ IsJob(job, env, loaded) /\ job.hosts = job.section /\ job.stop = "no"
      /\ job.step = IF job.fabric THEN "fabric" ELSE "options"
      /\ job.master = <<>> /\ job.slave = <<>> /\ job.filters = <<>>
  BY <1>2, JobStarts
<1>4. PositionsIn(Trees[loaded], start) /\ \A p \in DOMAIN start : start[p] = 0
  BY <1>2, StartsPlaced, StartHas
<1>5. /\ PositionsIn(Trees[loaded], all) /\ DOMAIN all = DOMAIN cursor \cup DOMAIN thr[t].own
      /\ \A p \in DOMAIN cursor : all[p] = cursor[p] /\ p \notin DOMAIN thr[t].own
      /\ \A p \in DOMAIN thr[t].own : all[p] = thr[t].own[p]
  <2>1. loaded \in DOMAIN Files /\ PositionsIn(Files[loaded], cursor) /\ PositionsIn(HostTree, thr[t].own)
    BY <1>2
  <2>2. QED
    BY <2>1, BesidePlaced
<1>6. w = With(job, all) /\ v = With(job, start)
  BY <1>2 DEF Current, Reference
<1> HIDE DEF job, start, all, w, v, c
<1>7. \A p \in DOMAIN thr[t].own : all[p] = 0
  BY <1>2, <1>5, StartHas
<1>8. DOMAIN all = DOMAIN start
  BY <1>4, <1>5 DEF PositionsIn
<1>9. /\ Ready(w) /\ w.tree = Trees[loaded]
      /\ \A n \in JobFields \ {"tree", "cur"} : w[n] = job[n]
      /\ DOMAIN w.cur = {p \in DOMAIN all : Within(job, p)}
  BY <1>2, <1>3, <1>5, <1>6, WithReady
<1>10. /\ Ready(v) /\ v.tree = Trees[loaded]
       /\ (\A n \in JobFields \ {"tree", "cur"} : v[n] = job[n])
       /\ DOMAIN v.cur = {p \in DOMAIN start : Within(job, p)}
       /\ \A p \in DOMAIN v.cur : v.cur[p] = start[p]
  BY <1>2, <1>3, <1>4, <1>6, WithReady
<1>11. /\ Ready(k) /\ k.clean = c /\ k.hosts = Opened(w).hosts
       /\ (\A n \in JobFields \ {"cur", "hosts", "clean"} : k[n] = w[n])
       /\ k.cur \in [DOMAIN w.cur -> Nat]
  <2>1. Ready(w)
    BY <1>9
  <2> HIDE DEF k
  <2>2. \A x : /\ Ready(Opens(w, x)) /\ Opens(w, x).clean = x /\ Opens(w, x).hosts = Opened(w).hosts
               /\ (\A n \in JobFields \ {"cur", "hosts", "clean"} : Opens(w, x)[n] = w[n])
               /\ Opens(w, x).cur \in [DOMAIN w.cur -> Nat]
    BY <2>1, OpensReady
  <2>3. k = Opens(w, c)
    BY DEF k
  <2>4. QED
    BY <2>2, <2>3
<1>12. /\ Ready(r) /\ r.clean = c
       /\ (\A n \in JobFields \ {"cur", "hosts", "clean"} : r[n] = v[n])
       /\ r.cur \in [DOMAIN v.cur -> Nat]
       /\ \A p \in DOMAIN v.cur : IsList(p) => r.cur[p] = v.cur[p]
  <2>1. Ready(v)
    BY <1>10
  <2> HIDE DEF r
  <2>2. \A x : /\ Ready(Opens(v, x)) /\ Opens(v, x).clean = x
               /\ (\A n \in JobFields \ {"cur", "hosts", "clean"} : Opens(v, x)[n] = v[n])
               /\ Opens(v, x).cur \in [DOMAIN v.cur -> Nat]
               /\ \A p \in DOMAIN v.cur : IsList(p) => Opens(v, x).cur[p] = v.cur[p]
    BY <2>1, OpensReady
  <2>3. r = Opens(v, c)
    BY DEF r
  <2>4. QED
    BY <2>2, <2>3
<1>13. Opened(w).section = job.section
  <2>1. \A x : Opens(w, x).section = w.section
    BY <1>9, OpensReady DEF JobFields
  <2>2. \A x : Opens(w, x).section = Opened(w).section
    BY DEF Opens
  <2>3. QED
    BY <1>9, <2>1, <2>2 DEF JobFields
<1>14. w = v => k = r
  OBVIOUS
<1> HIDE DEF k, r
<1>15. /\ k.tree = Trees[loaded] /\ k.env = env /\ k.file = loaded /\ k.section = job.section
       /\ DOMAIN k.cur = {p \in DOMAIN all : Within(job, p)}
  BY <1>3, <1>9, <1>11 DEF IsJob, JobFields
<1>16. /\ r.tree = Trees[loaded] /\ r.env = env /\ r.file = loaded
       /\ DOMAIN r.cur = {p \in DOMAIN start : Within(job, p)}
  BY <1>3, <1>10, <1>12 DEF IsJob, JobFields
<1>17. (NeedsLock(k) => MayLock) /\ lock' = IF NeedsLock(k) THEN IF env.zts THEN t ELSE Null ELSE lock
  BY <1>1, <1>11, <1>13, <1>15 DEF NeedsLock
<1>18. IsRoot(k.section) /\ IsRoot(k.hosts)
  BY <1>11 DEF Ready, IsRoot
<1>19. \A p : Within(job, p) => Within(k, p)
  BY <1>3, <1>15 DEF Within
<1>20. \A p \in DOMAIN cursor : Within(k, p) => \A u \in Threads : thr[u].pc = "load" => ~Within(thr[u].job, p)
  <2>1. \A p \in DOMAIN cursor : Within(k, p) => NeedsLock(k)
    BY <1>2, <1>18, ReadsShared DEF PositionsIn
  <2>2. QED
    BY <1>1, <1>17, <2>1, NobodyReads DEF IInv
<1>21. c => \A p \in DOMAIN cursor : Within(k, p) => cursor[p] = 0
  <2>1. ASSUME c, NEW p \in DOMAIN cursor, Within(k, p), cursor[p] # 0
        PROVE  FALSE
    <3>1. PICK s \in left : IsPrefix(s, p)
      BY <1>20, <2>1 DEF IInv, Accounted
    <3>2. PICK x \in {k.section, k.hosts} : IsPrefix(x, p)
      BY <2>1 DEF Within
    <3>3. p \in Seq(STRING) /\ IsRoot(s) /\ IsRoot(x)
      BY <1>2, <1>18, <3>1, <3>2, PathsAreSeqs DEF IInv, Types, PositionsIn
    <3>4. s = x
      BY <3>1, <3>2, <3>3, OneRoot
    <3>5. QED
      BY <1>11, <1>13, <1>15, <2>1, <3>4 DEF c
  <2>2. QED
    BY <2>1
<1>22. c => \A p \in DOMAIN all : Within(k, p) => all[p] = 0
  BY <1>5, <1>7, <1>21
<1>23. c => k = r
  <2>1. ASSUME c
        PROVE  \A p \in DOMAIN all : Within(job, p) => all[p] = start[p]
    BY <1>4, <1>8, <1>19, <1>22, <2>1
  <2>2. c => w = v
    BY <1>6, <1>8, <2>1, SameView
  <2>3. QED
    BY <1>14, <2>2
<1>24. /\ DOMAIN thr' = Threads /\ \A u \in Threads : u # t => thr'[u] = thr[u]
       /\ thr'[t].pc = "load" /\ thr'[t].job = Parted(k) /\ thr'[t].ref = Parted(r)
       /\ thr'[t].own = Kept(thr[t].own, k) /\ thr'[t].fresh = Kept(thr[t].fresh, r)
       /\ IsJob(thr'[t].job, env, loaded) /\ IsJob(thr'[t].ref, env, loaded)
       /\ PositionsIn(Files[loaded], cursor') /\ PositionsIn(HostTree, thr'[t].own)
       /\ PositionsIn(Trees[loaded], thr'[t].fresh)
       /\ DOMAIN cursor' = DOMAIN cursor /\ DOMAIN thr'[t].own = DOMAIN thr[t].own
       /\ DOMAIN thr'[t].fresh = DOMAIN thr[t].fresh
       /\ \A p \in DOMAIN cursor : cursor'[p] = IF p \in DOMAIN k.cur THEN k.cur[p] ELSE cursor[p]
       /\ \A p \in DOMAIN thr[t].own :
            thr'[t].own[p] = IF p \in DOMAIN k.cur THEN k.cur[p] ELSE thr[t].own[p]
       /\ \A p \in DOMAIN thr[t].fresh :
            thr'[t].fresh[p] = IF p \in DOMAIN r.cur THEN r.cur[p] ELSE thr[t].fresh[p]
       /\ ThreadTypes(t)' /\ Waiting(t)' /\ Returned(t)'
  <2>1. PositionsIn(Trees[loaded], thr[t].fresh)
    BY <1>4 DEF start
  <2>2. Types /\ Keep(t, k, r) /\ env' = env /\ loaded' = loaded
    BY <1>1 DEF IInv, k, r
  <2>3. QED
    BY <1>11, <1>12, <1>15, <1>16, <2>1, <2>2, KeepDoes
<1>25. /\ \A n \in JobFields \ {"tree", "cur"} : thr'[t].job[n] = k[n] /\ thr'[t].ref[n] = r[n]
       /\ thr'[t].job.section = k.section /\ thr'[t].job.hosts = k.hosts /\ thr'[t].job.clean = c
       /\ \A p : Within(thr'[t].job, p) = Within(k, p)
  <2>1. \A n \in JobFields \ {"tree", "cur"} : thr'[t].job[n] = k[n] /\ thr'[t].ref[n] = r[n]
    BY <1>11, <1>12, <1>24, PartedJob
  <2>2. QED
    BY <1>11, <2>1 DEF JobFields, Within
<1>26. \A u \in Threads : u # t =>
         ThreadTypes(u)' /\ Waiting(u)' /\ Reading(u)' /\ Returned(u)' /\ Alike(u)'
  <2>1. \A u \in Threads : u # t /\ thr[u].pc = "load" =>
          \A p \in DOMAIN k.cur : p \in DOMAIN cursor => ~Within(thr[u].job, p)
    BY <1>15, <1>19, <1>20
  <2>2. Keep(t, k, r)
    BY <1>1 DEF k, r
  <2>3. QED
    BY <1>1, <1>24, <2>1, <2>2, KeepOthers
<1>27. Reading(t)'
  <2> DEFINE x == With(thr'[t].ref, thr'[t].fresh)
  <2>1. /\ Ready(x) /\ \A n \in JobFields \ {"tree", "cur"} : x[n] = thr'[t].ref[n]
        /\ DOMAIN x.cur = {p \in DOMAIN thr'[t].fresh : Within(thr'[t].ref, p)}
        /\ \A p \in DOMAIN x.cur : x.cur[p] = thr'[t].fresh[p]
    BY <1>2, <1>24, WithReady
  <2> HIDE DEF x
  <2>2. x.stop = "no" /\ x.fabric = job.fabric /\ x.step = job.step /\ x.master = <<>> /\ x.slave = <<>>
        /\ x.filters = <<>>
    BY <1>3, <1>10, <1>12, <1>25, <2>1 DEF JobFields
  <2>3. \A p \in DOMAIN x.cur : IsList(p) => x.cur[p] = 0
    <3>1. ASSUME NEW p \in DOMAIN x.cur, IsList(p)
          PROVE  x.cur[p] = 0
      <4>1. p \in DOMAIN start /\ x.cur[p] = IF p \in DOMAIN r.cur THEN r.cur[p] ELSE start[p]
        BY <1>24, <2>1, <3>1 DEF start
      <4>2. start[p] = 0
        BY <1>4, <4>1
      <4>3. p \in DOMAIN r.cur => r.cur[p] = start[p]
        BY <1>10, <1>12, <3>1
      <4>4. QED
        BY <4>1, <4>2, <4>3
    <3>2. QED
      BY <3>1
  <2>4. Progress(x)
    BY <1>3, <2>1, <2>2, <2>3, FirstProgress
  <2>5. QED
    BY <1>1, <1>24, <2>4 DEF Reading, x
<1>28. Alike(t)'
  <2>1. ASSUME c, NEW p \in DOMAIN start, Within(k, p)
        PROVE  Beside(cursor', thr'[t].own)[p] = thr'[t].fresh[p]
    <3>1. k = r /\ all[p] = 0 /\ start[p] = 0 /\ p \in DOMAIN cursor \cup DOMAIN thr[t].own
      BY <1>4, <1>5, <1>8, <1>22, <1>23, <2>1
    <3>2. thr'[t].fresh[p] = IF p \in DOMAIN k.cur THEN k.cur[p] ELSE 0
      BY <1>24, <2>1, <3>1 DEF start
    <3>3. Beside(cursor', thr'[t].own)[p] = IF p \in DOMAIN k.cur THEN k.cur[p] ELSE all[p]
      BY <1>5, <1>24, <3>1 DEF Beside
    <3>4. QED
      BY <3>1, <3>2, <3>3
  <2>2. c => thr'[t].job = thr'[t].ref
    BY <1>23, <1>24
  <2>3. DOMAIN thr'[t].fresh = DOMAIN start
    BY <1>24 DEF start
  <2>4. QED
    BY <1>24, <1>25, <2>1, <2>2, <2>3 DEF Alike
<1>29. Types'
  <2>1. lock' \in Threads \cup {Null}
    BY <1>17 DEF IInv, Types
  <2>2. QED
    BY <1>1, <1>24, <1>26, <2>1 DEF IInv, Types
<1>30. Locking'
  <2>1. lock \in Threads => lock # t
    BY <1>1 DEF IInv, Locking
  <2>2. lock' \in Threads => env.zts /\ thr'[lock'].pc \in {"load", "dead"}
    BY <1>17, <1>24, <2>1, NullApart DEF IInv, Locking
  <2>3. ASSUME NEW u \in Threads, env.zts, thr'[u].pc = "load",
               thr'[u].job.section \in DOMAIN cursor \/ thr'[u].job.hosts \in DOMAIN cursor
        PROVE  lock' = u
    <3>1. CASE u = t
      BY <1>17, <1>25, <2>3, <3>1 DEF NeedsLock, Shared
    <3>2. CASE u # t
      <4>1. lock = u
        BY <1>24, <2>3, <3>2 DEF IInv, Locking, NeedsLock, Shared
      <4>2. ~NeedsLock(k)
        BY <1>17, <2>3, <4>1, NullApart DEF MayLock
      <4>3. QED
        BY <1>17, <4>1, <4>2
    <3>3. QED
      BY <3>1, <3>2
  <2>4. ~env.zts => \A a, u \in Threads : a # u => thr'[a].pc = "idle" \/ thr'[u].pc = "idle"
    BY <1>1, <1>24 DEF IInv, Locking
  <2>5. QED
    BY <1>1, <1>24, <2>2, <2>3, <2>4 DEF Locking, NeedsLock, Shared
<1>31. Accounted'
  <2>1. ASSUME NEW p \in DOMAIN cursor, cursor'[p] # 0
        PROVE  \/ \E s \in left : IsPrefix(s, p)
               \/ \E u \in Threads : thr'[u].pc = "load" /\ Within(thr'[u].job, p)
    <3>1. CASE p \in DOMAIN k.cur
      BY <1>15, <1>19, <1>24, <1>25, <3>1
    <3>2. CASE p \notin DOMAIN k.cur
      <4>1. cursor[p] # 0
        BY <1>24, <2>1, <3>2
      <4>2. \A u \in Threads : thr[u].pc = "load" => thr'[u] = thr[u]
        BY <1>1, <1>24
      <4>3. QED
        BY <4>1, <4>2 DEF IInv, Accounted
    <3>3. QED
      BY <3>1, <3>2
  <2>2. QED
    BY <1>1, <1>24, <2>1 DEF Accounted
<1>32. QED
  BY <1>24, <1>26, <1>27, <1>28, <1>29, <1>30, <1>31 DEF IInv

\* A job that has ended well has what its section lists, wherever the positions are.
LEMMA ListedOf ==
  ASSUME NEW j, NEW k, \A n \in JobFields \ {"cur"} : k[n] = j[n], Progress(j), j.stop = "PASS", ~j.err
  PROVE  Served(k) /\ AllFilters(k)
<1>1. /\ k.tree = j.tree /\ k.hosts = j.hosts /\ k.section = j.section /\ k.env = j.env
      /\ k.fabric = j.fabric /\ k.filters = j.filters
      /\ k["master"] = j["master"] /\ k["slave"] = j["slave"]
  BY DEF JobFields
<1>2. Served(j) /\ AllFilters(j)
  BY DEF Progress
<1>3. Served(k)
  BY <1>1, <1>2, SameAll DEF Served
<1>4. AllFilters(k)
  BY <1>1, <1>2, SameFilterNames DEF AllFilters
<1>5. QED
  BY <1>3, <1>4

LEMMA RewoundPlaced ==
  ASSUME NEW tree, NEW positions, PositionsIn(tree, positions), NEW j,
         \A p \in DOMAIN tree : IsArray(tree[p]) => IsSeq(tree[p].keys)
  PROVE  LET q == Rewound(Rewound(positions, j.hosts), j.section) IN
         /\ PositionsIn(tree, q) /\ DOMAIN q = DOMAIN positions
         /\ \A p \in DOMAIN positions : q[p] = IF Within(j, p) THEN 0 ELSE positions[p]
<1> DEFINE q == Rewound(Rewound(positions, j.hosts), j.section)
<1>1. /\ DOMAIN q = DOMAIN positions /\ q = [p \in DOMAIN q |-> q[p]]
      /\ \A p \in DOMAIN positions : q[p] = IF Within(j, p) THEN 0 ELSE positions[p]
  BY DEF Rewound, Within
<1> HIDE DEF q
<1>2. \A p \in DOMAIN positions : positions[p] \in Nat /\ positions[p] <= Len(tree[p].keys)
  BY DEF PositionsIn
<1>3. \A p \in DOMAIN positions : Len(tree[p].keys) \in Nat
  <2>1. \A p \in DOMAIN positions : p \in DOMAIN tree /\ IsArray(tree[p])
    BY StartHas DEF PositionsIn
  <2>2. QED
    BY <2>1 DEF IsSeq
<1>4. \A p \in DOMAIN q : q[p] \in Nat /\ q[p] <= Len(tree[p].keys)
  BY <1>1, <1>2, <1>3
<1>5. PositionsIn(tree, q)
  BY <1>1, <1>4 DEF PositionsIn
<1>6. QED
  BY <1>1, <1>5 DEF q

LEMMA ReturnInv ==
  ASSUME IInv, NEW t \in Threads, Return(t)
  PROVE  IInv'
<1> DEFINE job == thr[t].job
<1>1. /\ thr[t].pc = "load" /\ job.stop \in {"PASS", "FAIL"}
      /\ cursor' = Rewound(Rewound(cursor, job.hosts), job.section)
      /\ lock' = IF lock = t THEN Null ELSE lock
      /\ thr' = [thr EXCEPT ![t].pc = "returned", ![t].ret = job.stop,
                            ![t].own = Start(HostTree), ![t].fresh = <<>>]
      /\ env' = env /\ disk' = disk /\ loaded' = loaded /\ left' = left
  BY DEF Return
<1>2. /\ DOMAIN thr' = Threads /\ \A u \in Threads : u # t => thr'[u] = thr[u]
      /\ DOMAIN thr'[t] = ThreadFields /\ thr'[t].pc = "returned" /\ thr'[t].ret = job.stop
      /\ thr'[t].own = Start(HostTree) /\ thr'[t].job = job /\ thr'[t].ref = thr[t].ref
  BY <1>1 DEF IInv, Types, ThreadTypes, ThreadFields
<1>3. /\ loaded \in DOMAIN Files /\ PositionsIn(Files[loaded], cursor)
      /\ IsJob(job, env, loaded) /\ IsJob(thr[t].ref, env, loaded)
      /\ PositionsIn(Trees[loaded], thr[t].fresh) /\ Progress(With(thr[t].ref, thr[t].fresh))
  BY <1>1 DEF IInv, Reading, Types
<1> HIDE DEF job
<1>4. /\ PositionsIn(Files[loaded], cursor') /\ DOMAIN cursor' = DOMAIN cursor
      /\ \A p \in DOMAIN cursor : cursor'[p] = IF Within(job, p) THEN 0 ELSE cursor[p]
  <2>1. \A p \in DOMAIN Files[loaded] : IsArray(Files[loaded][p]) => IsSeq(Files[loaded][p].keys)
    BY <1>3, ConfigurationAssumption DEF IsTree, IsSeq
  <2>2. QED
    BY <1>1, <1>3, <2>1, RewoundPlaced
<1>5. ThreadTypes(t)' /\ Waiting(t)' /\ Reading(t)' /\ Alike(t)'
  BY <1>2, StartsPlaced DEF ThreadTypes, Waiting, Reading, Alike, IInv, Types
<1>6. Returned(t)'
  <2>1. job.clean => job = thr[t].ref
    BY <1>1 DEF IInv, Alike, job
  <2>2. ASSUME job.stop = "PASS", job.clean, ~job.err
        PROVE  Served(With(job, <<>>)) /\ AllFilters(With(job, <<>>)) /\ With(job, <<>>).env = env
    <3> DEFINE j == With(thr[t].ref, thr[t].fresh)
               k == With(job, <<>>)
    <3>1. j.tree = Trees[loaded] /\ \A n \in JobFields \ {"tree", "cur"} : j[n] = thr[t].ref[n]
      BY <1>3, WithReady
    <3>2. k.tree = Trees[loaded] /\ \A n \in JobFields \ {"tree", "cur"} : k[n] = job[n]
      BY <1>3 DEF With, IsJob, JobFields
    <3>3. Progress(j)
      BY <1>3
    <3> HIDE DEF j, k
    <3>4. \A n \in JobFields \ {"cur"} : k[n] = j[n]
      BY <2>1, <2>2, <3>1, <3>2
    <3>5. j.stop = "PASS" /\ ~j.err
      BY <2>1, <2>2, <3>1 DEF JobFields
    <3>6. Served(k) /\ AllFilters(k)
      BY <3>3, <3>4, <3>5, ListedOf
    <3>7. k.env = env
      BY <1>3, <3>2 DEF IsJob, JobFields
    <3>8. QED
      BY <3>6, <3>7 DEF k
  <2>3. DOMAIN job = JobFields
    BY <1>3 DEF IsJob
  <2>4. QED
    BY <1>1, <1>2, <2>1, <2>2, <2>3 DEF Returned
<1>7. ASSUME NEW u \in Threads, u # t
      PROVE  ThreadTypes(u)' /\ Waiting(u)' /\ Reading(u)' /\ Returned(u)' /\ Alike(u)'
  <2>1. thr'[u] = thr[u]
    BY <1>2, <1>7
  <2>2. ThreadTypes(u)' /\ Waiting(u)' /\ Reading(u)' /\ Returned(u)'
    BY <1>1, <2>1, OthersStay DEF IInv, Types
  <2>3. thr[u].pc = "load" => \A p \in DOMAIN cursor : Within(thr[u].job, p) => cursor'[p] = cursor[p]
    <3>1. thr[u].pc = "load" => \A p \in DOMAIN cursor : Within(thr[u].job, p) => ~Within(job, p)
      BY <1>1, <1>7, ReadersApart DEF IInv, job
    <3>2. QED
      BY <1>4, <3>1
  <2>4. Alike(u)'
    BY <1>4, <2>1, <2>3, OthersAlike DEF IInv
  <2>5. QED
    BY <2>2, <2>4
<1>8. Types'
  <2>1. lock' \in Threads \cup {Null}
    BY <1>1 DEF IInv, Types
  <2>2. QED
    BY <1>1, <1>2, <1>4, <1>5, <1>7, <2>1 DEF IInv, Types
<1>9. Locking'
  <2>1. lock' \in Threads => env.zts /\ thr'[lock'].pc \in {"load", "dead"}
    BY <1>1, <1>2, NullApart DEF IInv, Locking
  <2>2. ASSUME NEW u \in Threads, env.zts, thr'[u].pc = "load",
               thr'[u].job.section \in DOMAIN cursor \/ thr'[u].job.hosts \in DOMAIN cursor
        PROVE  lock' = u
    <3>1. u # t /\ thr'[u] = thr[u]
      BY <1>2, <2>2
    <3>2. lock = u
      BY <2>2, <3>1 DEF IInv, Locking, NeedsLock, Shared
    <3>3. QED
      BY <1>1, <3>1, <3>2
  <2>3. ~env.zts => \A a, u \in Threads : a # u => thr'[a].pc = "idle" \/ thr'[u].pc = "idle"
    BY <1>1, <1>2 DEF IInv, Locking
  <2>4. QED
    BY <1>1, <1>4, <2>1, <2>2, <2>3 DEF Locking, NeedsLock, Shared
<1>10. Accounted'
  <2>1. ASSUME NEW p \in DOMAIN cursor, cursor'[p] # 0
        PROVE  \/ \E s \in left : IsPrefix(s, p)
               \/ \E u \in Threads : thr'[u].pc = "load" /\ Within(thr'[u].job, p)
    <3>1. cursor[p] # 0 /\ ~Within(job, p)
      BY <1>4, <2>1
    <3>2. \A u \in Threads : thr[u].pc = "load" /\ Within(thr[u].job, p) => thr'[u] = thr[u]
      BY <1>2, <3>1 DEF job
    <3>3. QED
      BY <3>1, <3>2 DEF IInv, Accounted
  <2>2. QED
    BY <1>1, <1>4, <2>1 DEF Accounted
<1>11. QED
  BY <1>5, <1>6, <1>7, <1>8, <1>9, <1>10 DEF IInv

LEMMA AbortInv ==
  ASSUME IInv, NEW t \in Threads, Abort(t)
  PROVE  IInv'
<1> DEFINE job == thr[t].job
<1>1. /\ thr[t].pc = "load"
      /\ left' = left \cup {p \in {job.section, job.hosts} : Shared(p)}
      /\ thr' = [thr EXCEPT ![t].pc = "dead", ![t].ret = "fatal",
                            ![t].own = Start(HostTree), ![t].fresh = <<>>]
      /\ env' = env /\ disk' = disk /\ loaded' = loaded /\ cursor' = cursor /\ lock' = lock
  BY DEF Abort
<1>2. /\ DOMAIN thr' = Threads /\ \A u \in Threads : u # t => thr'[u] = thr[u]
      /\ DOMAIN thr'[t] = ThreadFields /\ thr'[t].pc = "dead" /\ thr'[t].own = Start(HostTree)
  BY <1>1 DEF IInv, Types, ThreadTypes, ThreadFields
<1>3. loaded \in DOMAIN Files /\ PositionsIn(Files[loaded], cursor) /\ IsJob(job, env, loaded)
  BY <1>1 DEF IInv, Reading, Types
<1> HIDE DEF job
<1>4. ThreadTypes(t)' /\ Waiting(t)' /\ Reading(t)' /\ Alike(t)' /\ Returned(t)'
  BY <1>2, StartsPlaced DEF ThreadTypes, Waiting, Reading, Alike, Returned, IInv, Types
<1>5. ASSUME NEW u \in Threads, u # t
      PROVE  ThreadTypes(u)' /\ Waiting(u)' /\ Reading(u)' /\ Returned(u)' /\ Alike(u)'
  <2>1. thr'[u] = thr[u]
    BY <1>2, <1>5
  <2>2. ThreadTypes(u)' /\ Waiting(u)' /\ Reading(u)' /\ Returned(u)'
    BY <1>1, <2>1, OthersStay DEF IInv, Types
  <2>3. Alike(u)'
    <3>1. cursor' = cursor /\ Alike(u)
      BY <1>1 DEF IInv
    <3>2. QED
      BY <2>1, <3>1 DEF Alike
  <2>4. QED
    BY <2>2, <2>3
<1>6. Types'
  <2>1. \A s \in left' : IsRoot(s)
    BY <1>1, <1>3 DEF IInv, Types, IsJob
  <2>2. QED
    BY <1>1, <1>2, <1>4, <1>5, <2>1 DEF IInv, Types
<1>7. Locking'
  BY <1>1, <1>2 DEF IInv, Locking, NeedsLock, Shared
<1>8. Accounted'
  <2>1. ASSUME NEW p \in DOMAIN cursor, cursor[p] # 0
        PROVE  \/ \E s \in left' : IsPrefix(s, p)
               \/ \E u \in Threads : thr'[u].pc = "load" /\ Within(thr'[u].job, p)
    <3>1. CASE \E s \in left : IsPrefix(s, p)
      BY <1>1, <3>1
    <3>2. CASE \E u \in Threads : u # t /\ thr[u].pc = "load" /\ Within(thr[u].job, p)
      BY <1>2, <3>2
    <3>3. CASE Within(job, p)
      <4>1. \E s \in {job.section, job.hosts} : IsPrefix(s, p) /\ Shared(s)
        BY <1>3, <3>3, ReadsShared DEF IsJob, PositionsIn
      <4>2. QED
        BY <1>1, <4>1
    <3>4. QED
      BY <2>1, <3>1, <3>2, <3>3 DEF IInv, Accounted, job
  <2>2. QED
    BY <1>1, <2>1 DEF Accounted
<1>9. QED
  BY <1>4, <1>5, <1>6, <1>7, <1>8 DEF IInv

(* The inductive invariant holds of every run in which the configuration   *)
(* file is only parsed anew when no other request is connecting.           *)
THEOREM InvariantHolds ==
  ASSUME "quiet" \in Discipline
  PROVE  Spec => []IInv
<1>1. Init => IInv
  BY InitInv
<1>2. IInv /\ [Next]_vars => IInv'
  <2> SUFFICES ASSUME IInv, [Next]_vars
               PROVE  IInv'
    OBVIOUS
  <2>1. CASE ChangeFile
    BY <2>1, StillInv DEF ChangeFile
  <2>2. ASSUME NEW t \in Threads, NewRequest(t)
        PROVE  IInv'
    BY <2>2, RequestInv
  <2>3. ASSUME NEW t \in Threads, NEW h \in Hosts, Connect(t, h)
        PROVE  IInv'
    BY <2>3, ConnectInv
  <2>4. ASSUME NEW t \in Threads, Open(t)
        PROVE  IInv'
    BY <2>4, OpenInv
  <2>5. ASSUME NEW t \in Threads, Load(t)
        PROVE  IInv'
    BY <2>5, LoadInv
  <2>6. ASSUME NEW t \in Threads, Return(t)
        PROVE  IInv'
    BY <2>6, ReturnInv
  <2>7. ASSUME NEW t \in Threads, Abort(t)
        PROVE  IInv'
    BY <2>7, AbortInv
  <2>8. CASE UNCHANGED vars
    BY <2>8, StillInv DEF vars, counters, IInv, Types
  <2>9. QED
    BY <2>1, <2>2, <2>3, <2>4, <2>5, <2>6, <2>7, <2>8 DEF Next
<1>3. QED
  BY <1>1, <1>2, PTL DEF Spec

(* Every position of the shared tree is inside its array, the lock is held *)
(* by a connect or by one a fatal error killed, and a tree nobody reads is *)
(* rewound where no fatal error left it (mysqlnd_ms.c:3718-3778).          *)
THEOREM ConfigurationTypeCorrect ==
  ASSUME "quiet" \in Discipline
  PROVE  Spec => []TypeOK
<1>1. IInv => TypeOK
  <2> SUFFICES ASSUME IInv
               PROVE  TypeOK
    OBVIOUS
  <2>1. disk \in DOMAIN Files /\ loaded \in DOMAIN Files /\ DOMAIN cursor = DOMAIN Start(Files[loaded])
    BY DEF IInv, Types, PositionsIn
  <2>2. \A p \in DOMAIN cursor : cursor[p] \in 0 .. Len(Files[loaded][p].keys)
    <3>1. \A p \in DOMAIN cursor : cursor[p] \in Nat /\ cursor[p] <= Len(Files[loaded][p].keys)
      BY DEF IInv, Types, PositionsIn
    <3>2. \A p \in DOMAIN cursor : Len(Files[loaded][p].keys) \in Nat
      BY <2>1, StartHas, ConfigurationAssumption DEF IsTree
    <3>3. QED
      BY <3>1, <3>2
  <2>3. \A t \in Threads : thr[t].pc \in {"idle", "lock", "load", "returned", "dead"}
    BY DEF IInv, Types, ThreadTypes
  <2>4. lock \in Threads => env.zts /\ thr[lock].pc \in {"load", "dead"}
    BY DEF IInv, Locking
  <2>5. (\A t \in Threads : thr[t].pc # "load") =>
          \A p \in DOMAIN cursor : cursor[p] # 0 => \E s \in left : IsPrefix(s, p)
    BY DEF IInv, Accounted
  <2>6. QED
    BY <2>1, <2>2, <2>3, <2>4, <2>5 DEF TypeOK
<1>2. QED
  BY <1>1, InvariantHolds, PTL

(* What a connect gets from the configuration does not depend on the       *)
(* connects before it or beside it, unless a fatal error left its section  *)
(* as it was (mysqlnd_ms.c:3718-3778).                                     *)
THEOREM HandlesAreAsConfigured ==
  ASSUME "quiet" \in Discipline
  PROVE  Spec => []AsConfigured
<1>1. IInv => AsConfigured
  BY DEF IInv, Returned, AsConfigured
<1>2. QED
  BY <1>1, InvariantHolds, PTL

(* A connect that succeeds and in which no error was swallowed has every   *)
(* server and every filter of its section in the order of the file, and    *)
(* exactly its last filter picks one server (mysqlnd_ms_switch.c:371-380). *)
THEOREM HandlesAreAsListed ==
  ASSUME "quiet" \in Discipline
  PROVE  Spec => []AsListed
<1>1. IInv => AsListed
  <2> SUFFICES ASSUME IInv, NEW t \in Threads, thr[t].pc = "returned", thr[t].ret = "PASS",
                      With(thr[t].job, <<>>).clean, ~With(thr[t].job, <<>>).err
               PROVE  LET j == With(thr[t].job, <<>>) IN
                      /\ Names(j.filters) = ListedFilters(j)
                      /\ \A i \in DOMAIN j.filters : Multi[j.filters[i].name] = (i < Len(j.filters))
                      /\ ~j.fabric =>
                           LET masters == ListedNames(j, Append(j.hosts, "master")) IN
                           /\ Names(j.slave) = ListedNames(j, Append(j.hosts, "slave"))
                           /\ Names(j.master) = IF env.multiMaster \/ masters = <<>> THEN masters
                                                ELSE <<masters[1]>>
    BY DEF AsListed
  <2> DEFINE j == With(thr[t].job, <<>>)
  <2>1. thr[t].job.clean /\ ~thr[t].job.err
    BY DEF With, JobFields, IInv, Returned
  <2>2. Served(j) /\ AllFilters(j) /\ j.env = env
    BY <2>1 DEF IInv, Returned
  <2> HIDE DEF j
  <2>3. Names(j.filters) = ListedFilters(j) /\ \A i \in DOMAIN j.filters : Multi[j.filters[i].name] = (i < Len(j.filters))
    BY <2>2 DEF AllFilters
  <2>4. ASSUME ~j.fabric
        PROVE  LET masters == ListedNames(j, Append(j.hosts, "master")) IN
               /\ Names(j.slave) = ListedNames(j, Append(j.hosts, "slave"))
               /\ Names(j.master) = IF env.multiMaster \/ masters = <<>> THEN masters
                                    ELSE <<masters[1]>>
    <3>1. AllServers(j, "slave") /\ AllServers(j, "master")
      BY <2>2, <2>4 DEF Served
    <3>2. j["master"] = j.master /\ j["slave"] = j.slave
      OBVIOUS
    <3>3. Names(j.slave) = ListedNames(j, Append(j.hosts, "slave"))
      BY <3>1, <3>2 DEF AllServers, OnlyFirst, ListAt
    <3>4. QED
      BY <2>2, <3>1, <3>2, <3>3 DEF AllServers, OnlyFirst, ListAt
  <2>5. QED
    BY <2>3, <2>4 DEF j
<1>2. QED
  BY <1>1, InvariantHolds, PTL
=============================================================================

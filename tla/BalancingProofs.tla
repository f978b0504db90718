--------------------------- MODULE BalancingProofs ---------------------------
(* Round robin, random and weights, for any lists of servers, any weights   *)
(* and any number of calls: proofs of the properties that the run balancing *)
(* checks for two masters and three slaves.                                 *)
EXTENDS Balancing, FiniteSetTheorems, TLAPS

(* A list without repetitions has as many servers as positions.            *)
LEMMA ListSize ==
  ASSUME NEW S, NEW list \in Seq(S), IsInjective(list)
  PROVE  /\ ToSet(list) \subseteq S /\ IsFiniteSet(ToSet(list))
         /\ Cardinality(ToSet(list)) = Len(list)
         /\ \A i \in 1 .. Len(list) : list[i] \in ToSet(list)
         /\ \A s \in ToSet(list) : \E i \in 1 .. Len(list) : s = list[i]
<1>1. list \in Bijection(1 .. Len(list), ToSet(list))
  BY DEF ToSet, Bijection, Injection, Surjection, IsInjective
<1>2. Len(list) \in Nat
  OBVIOUS
<1>3. IsFiniteSet(1 .. Len(list)) /\ Cardinality(1 .. Len(list)) = Len(list)
  BY <1>2, FS_Interval, SMTT(30)
<1>4. ExistsBijection(1 .. Len(list), ToSet(list))
  BY <1>1 DEF ExistsBijection
<1>5. /\ ToSet(list) \subseteq S
      /\ \A i \in 1 .. Len(list) : list[i] \in ToSet(list)
      /\ \A s \in ToSet(list) : \E i \in 1 .. Len(list) : s = list[i]
  BY DEF ToSet
<1> QED
  BY <1>3, <1>4, <1>5, FS_Bijection

(* Every context is a list of servers without repetitions.                 *)
LEMMA ContextList ==
  ASSUME setting \in Settings, NEW x \in Contexts
  PROVE  x[2] \in Seq(Servers) /\ IsInjective(x[2])
<1>1. PICK lists \in setting.lists, role \in {"master", "slave"} : x = <<role, lists[role]>>
  BY DEF Contexts
<1>2. lists \in [master : Seq(Servers), slave : Seq(Servers)]
      /\ IsInjective(lists.master) /\ IsInjective(lists.slave)
  <2>1. setting \in Settings /\ setting \in Setting
    BY BalancingAssumption
  <2>2. lists \in [master : Seq(Servers), slave : Seq(Servers)]
    BY <1>1, <2>1 DEF Setting
  <2> QED
    BY <2>1, <2>2, BalancingAssumption
<1> QED
  BY <1>1, <1>2

(* Where a call is, and what it searches.                                  *)
LEMMA Searching ==
  ASSUME StateInv, call.pc # "idle"
  PROVE  /\ call.lists \in setting.lists /\ call.pc \in {"master", "slave"}
         /\ Context \in Contexts /\ Context[2] = call.lists[call.pc]
         /\ call.lists[call.pc] \in Seq(Servers) /\ IsInjective(call.lists[call.pc])
         /\ Len(call.lists[call.pc]) \in Nat \ {0}
         /\ List \subseteq Servers /\ IsFiniteSet(List)
         /\ Cardinality(List) = Len(call.lists[call.pc])
<1>1. call.lists \in setting.lists /\ call.pc \in {"master", "slave"}
      /\ call.lists[call.pc] # <<>>
  BY DEF StateInv, Call
<1>2. Context \in Contexts /\ Context[2] = call.lists[call.pc]
  BY <1>1 DEF Context, Contexts
<1>3. call.lists[call.pc] \in Seq(Servers) /\ IsInjective(call.lists[call.pc])
  BY <1>2, ContextList DEF StateInv
<1>4. Len(call.lists[call.pc]) \in Nat \ {0}
  BY <1>1, <1>3
<1> QED
  BY <1>1, <1>2, <1>3, <1>4, ListSize DEF List

(* The lists of a call, and the contexts that go with them.                *)
LEMMA ListsOf ==
  ASSUME StateInv, NEW lists \in setting.lists, NEW role \in {"master", "slave"}
  PROVE  /\ <<role, lists[role]>> \in Contexts
         /\ lists[role] \in Seq(Servers) /\ IsInjective(lists[role])
         /\ ToSet(lists[role]) \subseteq Servers /\ IsFiniteSet(ToSet(lists[role]))
         /\ Cardinality(ToSet(lists[role])) = Len(lists[role])
         /\ lists[role] # <<>> => Len(lists[role]) \in Nat \ {0} /\ ToSet(lists[role]) # {}
         /\ lists[role] = <<>> => ToSet(lists[role]) = {}
<1>1. <<role, lists[role]>> \in Contexts
  BY DEF Contexts
<1>2. lists[role] \in Seq(Servers) /\ IsInjective(lists[role])
  BY <1>1, ContextList DEF StateInv
<1>3. lists[role] # <<>> => Len(lists[role]) \in Nat \ {0}
  BY <1>2
<1>4. lists[role] # <<>> => lists[role][1] \in ToSet(lists[role])
  BY <1>2, <1>3, ListSize
<1>5. lists[role] = <<>> => ToSet(lists[role]) = {}
  BY DEF ToSet
<1> QED
  BY <1>1, <1>2, <1>3, <1>4, <1>5, ListSize

----------------------------------------------------------------------------
(* What a call becomes that ends, or goes to another list.                 *)

\* The call has ended with this connection.
EndsWith(c, e, connection) ==
  e.pc = "idle" /\ e.tries = c.tries /\ e.connection = connection

\* The call begins to search the list.
Starts(c, e, role) ==
  /\ e.pc = role /\ c.lists[role] # <<>> /\ e.left = ToSet(c.lists[role])
  /\ e.retries = 0 /\ e.tries = 0

SameCall(c, e) ==
  e \in Call /\ e.lists = c.lists /\ e.role = c.role /\ e.tried = c.tried

Restarted(c, role, left) ==
  [c EXCEPT !.pc = role, !.left = left, !.retries = 0, !.tries = 0, !.connection = Null]

(* A search starts with the whole list.                                    *)
LEMMA Restart ==
  ASSUME NEW c \in Call, NEW role \in {"master", "slave"}, NEW left \in SUBSET Servers
  PROVE  /\ SameCall(c, Restarted(c, role, left))
         /\ Restarted(c, role, left).pc = role /\ Restarted(c, role, left).left = left
         /\ Restarted(c, role, left).retries = 0 /\ Restarted(c, role, left).tries = 0
<1> DEFINE e == Restarted(c, role, left)
<1>1. e \in Call
  BY DEF Restarted, Call
<1>2. e.pc = role /\ e.left = left /\ e.retries = 0
  BY DEF Restarted, Call
<1>3. e.tries = 0 /\ e.lists = c.lists
  BY DEF Restarted, Call
<1>4. e.role = c.role /\ e.tried = c.tried
  BY DEF Restarted, Call
<1> QED
  BY <1>1, <1>2, <1>3, <1>4 DEF SameCall

(* A list is not searched if it is empty or a server was selected from it. *)
LEMMA SearchResult ==
  ASSUME StateInv, NEW c \in Call, c.lists \in setting.lists, NEW role \in {"master", "slave"}
  PROVE  /\ SameCall(c, Search(c, role))
         /\ \/ c.lists[role] = <<>> /\ EndsWith(c, Search(c, role), Null)
            \/ \E s \in Servers : /\ s = sticky[<<role, c.lists[role]>>]
                                  /\ EndsWith(c, Search(c, role), s)
            \/ Starts(c, Search(c, role), role)
<1> DEFINE list == c.lists[role]
           selected == IF list = <<>> THEN Null ELSE sticky[<<role, list>>]
<1>1. <<role, list>> \in Contexts /\ ToSet(list) \subseteq Servers
  BY ListsOf
<1>2. selected \in Servers \cup {Null} /\ (list = <<>> => selected = Null)
  BY <1>1 DEF StateInv
<1>3. list # <<>> => selected = sticky[<<role, list>>]
  OBVIOUS
<1>4. CASE list = <<>> \/ selected # Null
  <2>1. Search(c, role) = [c EXCEPT !.pc = "idle", !.connection = selected]
    BY <1>4 DEF Search, Returned
  <2> HIDE DEF selected, list
  <2>2. SameCall(c, Search(c, role)) /\ EndsWith(c, Search(c, role), selected)
    BY <1>2, <2>1 DEF SameCall, EndsWith, Call
  <2> QED
    BY <1>2, <1>3, <1>4, <2>2 DEF list
<1>5. CASE list # <<>> /\ selected = Null
  <2>1. Search(c, role) = Restarted(c, role, ToSet(list))
    BY <1>5 DEF Search, Restarted
  <2> QED
    BY <1>1, <1>5, <2>1, Restart DEF Starts
<1> QED
  BY <1>4, <1>5

(* At the end of the slaves come the masters, unless failover is disabled. *)
LEMMA EndResult ==
  ASSUME StateInv, NEW c \in Call, c.lists \in setting.lists, c.pc \in {"master", "slave"}
  PROVE  /\ SameCall(c, EndOfList(c))
         /\ \/ /\ \E r \in {Null, c.connection} : EndsWith(c, EndOfList(c), r)
               /\ c.pc = "slave" /\ setting.strategy = "loop_before_master" =>
                    c.lists.master = <<>>
            \/ /\ c.pc = "slave"
               /\ \E s \in Servers : /\ s = sticky[<<"master", c.lists["master"]>>]
                                     /\ EndsWith(c, EndOfList(c), s)
            \/ c.pc = "slave" /\ Starts(c, EndOfList(c), "master")
<1> DEFINE result == IF setting.filter = "random"
                        /\ (c.pc = "master" \/ setting.strategy = "disabled")
                     THEN Null ELSE c.connection
           stays == \/ setting.strategy = "disabled"
                    \/ setting.strategy = "loop_before_master" /\ c.lists.master = <<>>
<1>1. result \in {Null, c.connection} /\ result \in Servers \cup {Null}
  BY DEF Call
<1>2. CASE c.pc = "master" \/ (stays /\ ~(result = Null /\ c.allow))
  <2>1. EndOfList(c) = [c EXCEPT !.pc = "idle", !.connection = result]
    BY <1>2 DEF EndOfList, Returned
  <2>2. c.pc = "slave" /\ setting.strategy = "loop_before_master" => c.lists.master = <<>>
    BY <1>2
  <2> HIDE DEF result, stays
  <2>3. SameCall(c, EndOfList(c)) /\ EndsWith(c, EndOfList(c), result)
    BY <1>1, <2>1 DEF SameCall, EndsWith, Call
  <2> QED
    BY <1>1, <2>2, <2>3
<1>3. CASE c.pc = "slave" /\ ~(stays /\ ~(result = Null /\ c.allow))
  <2>1. EndOfList(c) = Search(c, "master")
    BY <1>3 DEF EndOfList
  <2>2. c.lists.master = c.lists["master"]
    BY ListsOf, BalancingAssumption DEF StateInv, Setting
  <2> QED
    BY <1>3, <2>1, <2>2, SearchResult
<1> QED
  BY <1>2, <1>3

----------------------------------------------------------------------------
(* What a step of a call looks at and tries.                               *)

Looked(s) == [call EXCEPT !.retries = @ + 1, !.connection = s]

Attempted(s) == [Looked(s) EXCEPT !.tried = @ \cup {s}, !.tries = @ + 1]

\* The call has looked at s, and this is what it has tried and the attempts it has made.
LooksAt(s, e, tried, tries) ==
  /\ e \in Call /\ e.pc = call.pc /\ e.lists = call.lists /\ e.role = call.role
  /\ e.retries = call.retries + 1 /\ e.connection = s
  /\ e.tried = tried /\ e.tries = tries

(* Looking at a server counts as a retry, trying it as an attempt.         *)
LEMMA LookingAt ==
  ASSUME StateInv, NEW s \in Servers
  PROVE  /\ LooksAt(s, Looked(s), call.tried, call.tries)
         /\ LooksAt(s, Attempted(s), call.tried \cup {s}, call.tries + 1)
         /\ Looked(s).left = call.left /\ Attempted(s).left = call.left
<1>1. call \in Call /\ call.retries + 1 \in Nat /\ call.tries + 1 \in Nat
  BY DEF StateInv, Call
<1>2. Looked(s) \in Call
  BY <1>1 DEF Looked, Call
<1>3. /\ LooksAt(s, Looked(s), call.tried, call.tries) /\ Looked(s).left = call.left
  BY <1>1, <1>2 DEF Looked, LooksAt, Call
<1>4. Attempted(s) \in Call
  <2>1. Looked(s).tries + 1 \in Nat /\ Looked(s).tried \cup {s} \in SUBSET Servers
    BY <1>2 DEF Call
  <2> QED
    BY <1>2, <2>1 DEF Attempted, Call
<1>5. /\ Attempted(s).tried = Looked(s).tried \cup {s}
      /\ Attempted(s).tries = Looked(s).tries + 1
  BY <1>2 DEF Attempted, Call
<1>6. /\ Attempted(s).pc = Looked(s).pc /\ Attempted(s).lists = Looked(s).lists
      /\ Attempted(s).role = Looked(s).role /\ Attempted(s).left = Looked(s).left
  BY <1>2 DEF Attempted, Call
<1>7. Attempted(s).retries = Looked(s).retries /\ Attempted(s).connection = s
  BY <1>2, <1>3 DEF Attempted, Call, LooksAt
<1> QED
  BY <1>3, <1>4, <1>5, <1>6, <1>7 DEF LooksAt

(* The server is taken from those that are left.                           *)
LEMMA Leaving ==
  ASSUME NEW c \in Call, NEW s, NEW tried, NEW tries
  PROVE  /\ Without(c, s).left = c.left \ {s}
         /\ LooksAt(s, c, tried, tries) => LooksAt(s, Without(c, s), tried, tries)
<1>1. Without(c, s) \in Call
  BY DEF Without, Call
<1>2. /\ Without(c, s).left = c.left \ {s} /\ Without(c, s).pc = c.pc
      /\ Without(c, s).lists = c.lists /\ Without(c, s).role = c.role
  BY DEF Without, Call
<1>3. /\ Without(c, s).retries = c.retries /\ Without(c, s).connection = c.connection
      /\ Without(c, s).tried = c.tried /\ Without(c, s).tries = c.tries
  BY DEF Without, Call
<1> QED
  BY <1>1, <1>2, <1>3 DEF LooksAt

(* A connection is returned.                                               *)
LEMMA Returning ==
  ASSUME NEW c \in Call, NEW result \in Servers \cup {Null}
  PROVE  SameCall(c, Returned(c, result)) /\ EndsWith(c, Returned(c, result), result)
  BY DEF Returned, SameCall, EndsWith, Call

\* Nothing is left of the list after s.
ListExhausted(s) ==
  IF setting.filter = "random" THEN call.left \ {s} = {}
  ELSE call.retries + 1 >= Len(call.lists[call.pc])

\* Of s it is known that it cannot be used, or that it can.
Known(s) ==
  /\ call'.lists = call.lists /\ call'.role = call.role
  /\ call.tried \subseteq call'.tried /\ s \in call'.tried \cup failed'

\* The search goes on in the same list.
GoesOn(s) ==
  /\ Known(s) /\ call'.pc = call.pc /\ call'.left = call.left \ {s}
  /\ call'.retries = call.retries + 1 /\ Continues(call')
  /\ \/ call'.tries = call.tries
     \/ /\ call'.tries = call.tries + 1
        /\ setting.strategy = "loop_before_master"
        /\ setting.maxRetries = 0 \/ call.retries + 1 <= setting.maxRetries

\* The search ends.
Ends(s) ==
  /\ Known(s) /\ call'.pc = "idle" /\ call'.tries <= call.tries + 1
  /\ \/ call'.connection \in opened'
     \/ Thorough => ListExhausted(s) /\ (call.pc = "slave" => call.lists.master = <<>>)

\* The search goes on in the list of masters.
ToMasters(s) ==
  /\ Known(s) /\ call.pc = "slave" /\ Starts(call, call', "master")
  /\ Thorough => ListExhausted(s)

(* A list that has come to its end.                                        *)
LEMMA AtEnd ==
  ASSUME StateInv, TypeOK, call.pc # "idle", NEW s \in Servers, NEW e, NEW tried, NEW tries,
         LooksAt(s, e, tried, tries), call' = EndOfList(e), opened \subseteq opened',
         call.tried \subseteq tried, s \in tried \cup failed',
         tries \in Nat, tries <= call.tries + 1, Thorough => ListExhausted(s)
  PROVE  call' \in Call /\ (Ends(s) \/ ToMasters(s))
<1>1. e \in Call /\ e.lists \in setting.lists /\ e.pc \in {"master", "slave"}
      /\ e.pc = call.pc /\ e.lists = call.lists /\ call.tries \in Nat
  BY Searching DEF LooksAt, StateInv, Call
<1>2. call' \in Call /\ Known(s)
  BY <1>1, EndResult DEF SameCall, Known, LooksAt
<1>3. ASSUME NEW r, EndsWith(e, call', r),
             e.pc = "slave" /\ setting.strategy = "loop_before_master" => e.lists.master = <<>>
      PROVE  Ends(s)
  BY <1>1, <1>2, <1>3 DEF EndsWith, Ends, LooksAt, Thorough
<1>4. ASSUME NEW r \in Servers, r = sticky[<<"master", e.lists["master"]>>],
             EndsWith(e, call', r)
      PROVE  Ends(s)
  <2>1. <<"master", e.lists["master"]>> \in Contexts
    BY <1>1, ListsOf
  <2>2. r \in opened
    BY <1>4, <2>1, BalancingAssumption DEF TypeOK
  <2> QED
    BY <1>1, <1>2, <1>4, <2>2 DEF EndsWith, Ends, LooksAt
<1>5. ASSUME e.pc = "slave", Starts(e, call', "master") PROVE ToMasters(s)
  BY <1>1, <1>2, <1>5 DEF ToMasters, Starts
<1> QED
  BY <1>1, <1>2, <1>3, <1>4, <1>5, EndResult

(* Whose turn it is belongs to the list; the random filter draws from what *)
(* is left of it.                                                          *)
LEMMA CandidateInList ==
  ASSUME StateInv, SearchInv, TypeOK, call.pc # "idle", NEW s \in Candidates
  PROVE  s \in List /\ (setting.filter = "random" => s \in call.left)
<1>1. /\ call.left \subseteq List /\ pos[Context] \in Nat
      /\ call.lists[call.pc] \in Seq(Servers) /\ Len(call.lists[call.pc]) \in Nat \ {0}
      /\ pos[Context] + 1 \in 1 .. Len(call.lists[call.pc])
  <2>1. /\ Context \in Contexts /\ Context[2] = call.lists[call.pc]
        /\ call.lists[call.pc] \in Seq(Servers) /\ Len(call.lists[call.pc]) \in Nat \ {0}
    BY Searching
  <2>2. pos[Context] \in Nat
    BY <2>1 DEF StateInv
  <2> QED
    BY <2>1, <2>2 DEF SearchInv, TypeOK
<1>2. call.lists[call.pc][pos[Context] + 1] \in List
  BY <1>1 DEF List, ToSet
<1> QED
  BY <1>1, <1>2 DEF Candidates, Drawn, Heaviest

(* If only one server is left, nothing is left after it.                   *)
LEMMA LastOne ==
  ASSUME NEW S, IsFiniteSet(S), NEW s \in S, ~(Cardinality(S) > 1)
  PROVE  S \ {s} = {}
<1>1. IsFiniteSet(S \ {s}) /\ Cardinality(S \ {s}) = Cardinality(S) - 1
  BY FS_RemoveElement
<1>2. Cardinality(S) \in Nat /\ Cardinality(S \ {s}) \in Nat
  BY <1>1, FS_CardinalityType
<1>3. Cardinality(S \ {s}) = 0
  BY <1>1, <1>2
<1> QED
  BY <1>1, <1>3, FS_EmptySet

(* A server that is looked at is used, or the search goes on, or ends.     *)
LEMMA TryOutcome ==
  ASSUME StateInv, SearchInv, TypeOK, NEW s \in Servers, Try(s)
  PROVE  /\ call.pc # "idle" /\ s \in List /\ call' \in Call /\ opened \subseteq opened'
         /\ failed \subseteq failed'
         /\ GoesOn(s) \/ Ends(s) \/ ToMasters(s)
<1> DEFINE c == Looked(s)
           d == Attempted(s)
<1>1. /\ call.pc # "idle" /\ s \in Candidates
      /\ Skip(s, c) \/ Use(s, c) \/ CannotUse(s, c)
  BY DEF Try, Looked
<1>2. s \in List /\ (setting.filter = "random" => s \in call.left)
      /\ IsFiniteSet(call.left)
  BY <1>1, CandidateInList, Searching, FS_Subset DEF SearchInv
<1>3. /\ LooksAt(s, c, call.tried, call.tries) /\ c.left = call.left /\ c \in Call
      /\ LooksAt(s, d, call.tried \cup {s}, call.tries + 1) /\ d.left = call.left /\ d \in Call
      /\ call.tries \in Nat /\ call.retries \in Nat /\ call.tries + 1 \in Nat
  BY LookingAt DEF LooksAt, StateInv, Call
<1> HIDE DEF c, d
<1>4. /\ LooksAt(s, Without(c, s), call.tried, call.tries)
      /\ LooksAt(s, Without(d, s), call.tried \cup {s}, call.tries + 1)
      /\ Without(c, s).left = call.left \ {s} /\ Without(d, s).left = call.left \ {s}
  BY <1>3, Leaving
<1>5. ASSUME NEW e, NEW tried, NEW tries, LooksAt(s, e, tried, tries),
             e.left = call.left \ {s}, ~Continues(e)
      PROVE  ListExhausted(s)
  <2>1. CASE setting.filter = "random"
    BY <1>5, <2>1 DEF Continues, ListExhausted
  <2>2. CASE setting.filter # "random"
    BY <1>3, <1>5, <2>2, Searching DEF Continues, ListExhausted, LooksAt
  <2> QED
    BY <2>1, <2>2
<1>6. CASE Skip(s, c)
  <2>1. s \in failed /\ UNCHANGED <<opened, failed>> /\ call' = NextInList(Without(c, s))
    BY <1>6 DEF Skip, Remembered
  <2>2. CASE Continues(Without(c, s))
    BY <1>1, <1>2, <1>3, <1>4, <2>1, <2>2 DEF NextInList, GoesOn, Known, LooksAt
  <2>3. CASE ~Continues(Without(c, s))
    <3>1. call' = EndOfList(Without(c, s)) /\ ListExhausted(s)
      BY <1>4, <1>5, <2>1, <2>3 DEF NextInList
    <3> QED
      BY <1>1, <1>2, <1>3, <1>4, <2>1, <3>1, AtEnd
  <2> QED
    BY <2>2, <2>3
<1>7. CASE Use(s, c)
  <2> DEFINE u == [c EXCEPT !.tried = @ \cup {s}]
  <2>1. /\ opened' = opened \cup {s} /\ UNCHANGED failed
        /\ call' = Returned(u, s)
    BY <1>7 DEF Use
  <2>2. /\ u \in Call /\ u.lists = c.lists /\ u.role = c.role /\ u.tries = c.tries
        /\ u.tried = c.tried \cup {s}
    BY <1>3 DEF Call
  <2> HIDE DEF u
  <2>3. SameCall(u, call') /\ EndsWith(u, call', s)
    BY <2>1, <2>2, Returning
  <2>4. Ends(s)
    BY <1>3, <2>1, <2>2, <2>3 DEF Ends, Known, SameCall, EndsWith, LooksAt
  <2> QED
    BY <1>1, <1>2, <2>1, <2>3, <2>4 DEF SameCall
<1>8. CASE CannotUse(s, c)
  <2>1. /\ failed \subseteq failed' /\ UNCHANGED opened
        /\ call' = IF MayRetry(c) THEN NextInList(Without(d, s))
                   ELSE IF c.pc = "master" \/ setting.strategy = "disabled" THEN Returned(d, s)
                   ELSE EndOfList(d)
    BY <1>8 DEF CannotUse, Attempted, c, d
  <2>2. CASE MayRetry(c) /\ Continues(Without(d, s))
    <3>1. /\ setting.strategy = "loop_before_master"
          /\ setting.maxRetries = 0 \/ call.retries + 1 <= setting.maxRetries
      BY <1>3, <2>2 DEF MayRetry, LooksAt
    <3> QED
      BY <1>1, <1>2, <1>3, <1>4, <2>1, <2>2, <3>1 DEF NextInList, GoesOn, Known, LooksAt
  <2>3. CASE MayRetry(c) /\ ~Continues(Without(d, s))
    <3>1. call' = EndOfList(Without(d, s)) /\ ListExhausted(s)
      BY <1>4, <1>5, <2>1, <2>3 DEF NextInList
    <3> QED
      BY <1>1, <1>2, <1>3, <1>4, <2>1, <3>1, AtEnd
  <2>4. CASE ~MayRetry(c) /\ (c.pc = "master" \/ setting.strategy = "disabled")
    <3>1. SameCall(d, call') /\ EndsWith(d, call', s)
      BY <1>3, <2>1, <2>4, Returning
    <3>2. Thorough => call.pc = "master" /\ ListExhausted(s)
      <4>1. Thorough => /\ call.pc = "master" /\ setting.filter = "random"
                        /\ ~(Cardinality(call.left) > 1)
        BY <1>3, <2>4 DEF Thorough, MayRetry, LooksAt
      <4> QED
        BY <1>2, <4>1, LastOne DEF ListExhausted
    <3>3. Ends(s)
      BY <1>3, <3>1, <3>2 DEF Ends, Known, SameCall, EndsWith, LooksAt
    <3> QED
      BY <1>1, <1>2, <2>1, <3>1, <3>3 DEF SameCall
  <2>5. CASE ~MayRetry(c) /\ ~(c.pc = "master" \/ setting.strategy = "disabled")
    <3>1. call' = EndOfList(d) /\ ~Thorough
      BY <1>3, <2>1, <2>5 DEF Thorough, MayRetry
    <3> QED
      BY <1>1, <1>2, <1>3, <2>1, <3>1, AtEnd
  <2> QED
    BY <2>2, <2>3, <2>4, <2>5
<1> QED
  BY <1>1, <1>6, <1>7, <1>8

\* A call that has begun: it has a list to search, or has ended already.
Begins(lists, role) ==
  /\ call' \in Call /\ call'.lists = lists /\ call'.role = role /\ call'.tried = {}
  /\ \/ /\ call'.pc = "idle" /\ call'.tries = 0
        /\ \/ call'.connection \in opened
           \/ Thorough => ToSet(lists.master) = {} /\ (role = "slave" => ToSet(lists.slave) = {})
     \/ /\ lists[call'.pc] # <<>> /\ call'.left = ToSet(lists[call'.pc])
        /\ call'.retries = 0 /\ call'.tries = 0
        /\ \/ call'.pc = role
           \/ role = "slave" /\ call'.pc = "master" /\ ToSet(lists.slave) = {}

(* A statement begins with the list it asks for, or with the masters if    *)
(* there is no slave.                                                      *)
LEMMA BeginOutcome ==
  ASSUME StateInv, TypeOK, NEW lists \in setting.lists, NEW role \in {"master", "slave"},
         NEW allow \in BOOLEAN, Begin(lists, role, allow)
  PROVE  Begins(lists, role)
<1> DEFINE c == [pc |-> "idle", role |-> role, lists |-> lists, allow |-> allow, left |-> {},
                 retries |-> 0, connection |-> Null, tried |-> {}, tries |-> 0]
<1>1. /\ c \in Call /\ c.lists = lists /\ c.role = role /\ c.tried = {} /\ c.tries = 0
      /\ c.pc = "idle"
  BY DEF Call
<1>2. lists["slave"] = lists.slave /\ lists["master"] = lists.master
  BY BalancingAssumption DEF StateInv, Setting
<1>3. call' = IF role = "slave" /\ lists.slave = <<>>
              THEN IF allow \/ setting.strategy # "disabled" THEN Search(c, "master")
                   ELSE Returned(c, Null)
              ELSE Search(c, role)
  BY DEF Begin
<1> HIDE DEF c
<1>4. ASSUME NEW which \in {"master", "slave"}, call' = Search(c, which),
             which = role \/ (role = "slave" /\ which = "master" /\ lists.slave = <<>>),
             lists[role] # <<>> \/ role = "master" \/ which = "master"
      PROVE  Begins(lists, role)
  <2>1. /\ call' \in Call /\ call'.lists = lists /\ call'.role = role /\ call'.tried = {}
    BY <1>1, <1>4, SearchResult DEF SameCall
  <2>2. role = "slave" /\ which = "master" => ToSet(lists.slave) = {}
    BY <1>2, <1>4, ListsOf
  <2>3. CASE lists[which] = <<>> /\ EndsWith(c, call', Null)
    <3>1. which = "master" /\ ToSet(lists.master) = {}
      BY <1>2, <1>4, <2>3, ListsOf
    <3> QED
      BY <1>1, <2>1, <2>2, <2>3, <3>1 DEF EndsWith, Begins
  <2>4. ASSUME NEW r \in Servers, r = sticky[<<which, lists[which]>>], EndsWith(c, call', r)
        PROVE  Begins(lists, role)
    <3>1. r \in opened
      BY <2>4, ListsOf, BalancingAssumption DEF TypeOK
    <3> QED
      BY <1>1, <2>1, <2>4, <3>1 DEF EndsWith, Begins
  <2>5. CASE Starts(c, call', which)
    BY <1>1, <1>4, <2>1, <2>2, <2>5 DEF Starts, Begins
  <2> QED
    BY <1>1, <1>4, <2>3, <2>4, <2>5, SearchResult
<1>5. CASE role = "slave" /\ lists.slave = <<>> /\ ~allow /\ setting.strategy = "disabled"
  <2>1. SameCall(c, call') /\ EndsWith(c, call', Null)
    BY <1>1, <1>3, <1>5, Returning
  <2> QED
    BY <1>1, <1>5, <2>1 DEF SameCall, EndsWith, Begins, Thorough
<1> QED
  BY <1>2, <1>3, <1>4, <1>5

----------------------------------------------------------------------------
(* The turns of round robin.                                               *)

\* The position after p in a list of n.
NextPosition(p, n) == IF p + 1 = n THEN 0 ELSE p + 1

(* The position moves on cyclically.                                       *)
LEMMA Cyclic ==
  ASSUME NEW n \in Nat \ {0}, NEW p \in 0 .. n - 1
  PROVE  (p + 1) % n = NextPosition(p, n) /\ NextPosition(p, n) \in 0 .. n - 1
  BY DEF NextPosition

(* A turn moves the position of the list and counts, for the server and in *)
(* this list only.                                                         *)
LEMMA TurnOutcome ==
  ASSUME StateInv, TypeOK, call.pc # "idle", NEW s \in List, Turn(s)
  PROVE  /\ pos' \in [Contexts -> Nat] /\ resets' \in [Contexts -> Nat]
         /\ turns' = [x \in Contexts |-> turns'[x]]
         /\ \A x \in Contexts : turns'[x] \in [ToSet(x[2]) -> Nat]
         /\ \A x \in Contexts \ {Context} :
              pos'[x] = pos[x] /\ turns'[x] = turns[x] /\ resets'[x] = resets[x]
         /\ pos'[Context] = NextPosition(pos[Context], Len(call.lists[call.pc]))
         /\ turns'[Context][s] = turns[Context][s] + 1
         /\ \A u \in List \ {s} : turns'[Context][u] = turns[Context][u]
<1>1. /\ Context \in Contexts /\ ToSet(Context[2]) = List
      /\ Cardinality(List) = Len(call.lists[call.pc]) /\ Len(call.lists[call.pc]) \in Nat \ {0}
  BY Searching DEF List
<1>2. pos[Context] \in 0 .. Len(call.lists[call.pc]) - 1
  BY <1>1, Searching, SMTT(30) DEF TypeOK, StateInv
<1>3. pos' = [pos EXCEPT ![Context] = NextPosition(pos[Context], Len(call.lists[call.pc]))]
  <2> DEFINE n == Cardinality(List)
             p == pos[Context]
  <2>1. n \in Nat \ {0} /\ p \in 0 .. n - 1 /\ n = Len(call.lists[call.pc])
    BY <1>1, <1>2
  <2>2. pos' = [pos EXCEPT ![Context] = (p + 1) % n]
    BY DEF Turn
  <2> HIDE DEF n, p
  <2>3. (p + 1) % n = NextPosition(p, n)
    BY <2>1, Cyclic
  <2>4. pos' = [pos EXCEPT ![Context] = NextPosition(p, n)]
    BY <2>2, <2>3
  <2> QED
    BY <2>1, <2>4 DEF p
<1>4. NextPosition(pos[Context], Len(call.lists[call.pc])) \in Nat
  BY <1>1, <1>2 DEF NextPosition
<1>5. /\ turns' = [turns EXCEPT ![Context][s] = @ + 1]
      /\ resets' = [resets EXCEPT ![Context] = @ + 1] \/ resets' = resets
  BY DEF Turn, StateInv
<1>6. /\ pos' \in [Contexts -> Nat] /\ resets' \in [Contexts -> Nat]
      /\ pos'[Context] = NextPosition(pos[Context], Len(call.lists[call.pc]))
      /\ \A x \in Contexts \ {Context} : pos'[x] = pos[x] /\ resets'[x] = resets[x]
  <2>1. pos \in [Contexts -> Nat] /\ resets \in [Contexts -> Nat]
    BY DEF StateInv
  <2>2. /\ resets' \in [Contexts -> Nat]
        /\ \A x \in Contexts \ {Context} : resets'[x] = resets[x]
    BY <1>1, <1>5, <2>1
  <2> QED
    BY <1>1, <1>3, <1>4, <2>1, <2>2
<1>7. /\ turns' = [x \in Contexts |-> turns'[x]]
      /\ turns'[Context] = [turns[Context] EXCEPT ![s] = @ + 1]
      /\ \A x \in Contexts \ {Context} : turns'[x] = turns[x]
  BY <1>1, <1>5 DEF StateInv
<1>8. /\ turns[Context] \in [List -> Nat]
      /\ turns'[Context] \in [List -> Nat]
      /\ turns'[Context][s] = turns[Context][s] + 1
      /\ \A u \in List \ {s} : turns'[Context][u] = turns[Context][u]
  BY <1>1, <1>7 DEF StateInv
<1> QED
  BY <1>1, <1>6, <1>7, <1>8 DEF StateInv

(* The position that was looked at joins those behind.                     *)
LEMMA BehindStep ==
  ASSUME NEW n \in Nat \ {0}, NEW p \in 0 .. n - 1, NEW r \in Nat, r < n, NEW i \in 0 .. n - 1
  PROVE  /\ Behind(i, NextPosition(p, n), r + 1, n) <=> (Behind(i, p, r, n) \/ i = p)
         /\ ~Behind(i, p, 0, n)
  BY DEF Behind, NextPosition

(* A search that starts has the whole list before it.                      *)
LEMMA StartsWhole ==
  ASSUME StateInv, TypeOK, NEW lists \in setting.lists, NEW role \in {"master", "slave"},
         lists[role] # <<>>, call'.pc = role, call'.lists = lists,
         call'.left = ToSet(lists[role]), call'.retries = 0, UNCHANGED setting,
         \A x \in Contexts : \/ pos'[x] = pos[x]
                             \/ pos'[x] \in 0 .. Len(x[2]) - 1
  PROVE  SearchInv'
<1> DEFINE list == lists[role]
           x == <<role, list>>
<1>1. /\ x \in Contexts /\ list \in Seq(Servers) /\ IsInjective(list)
      /\ Cardinality(ToSet(list)) = Len(list) /\ Len(list) \in Nat \ {0} /\ ToSet(list) # {}
      /\ x[2] = list
  BY ListsOf
<1>2. pos'[x] \in 0 .. Len(list) - 1
  BY <1>1 DEF TypeOK, StateInv
<1>3. \A i \in 0 .. Len(list) - 1 : list[i + 1] \in ToSet(list)
  <2>1. \A i \in 0 .. Len(list) - 1 : i + 1 \in 1 .. Len(list)
    BY <1>1
  <2> QED
    BY <1>1, <2>1, ListSize
<1>4. \A i \in 0 .. Len(list) - 1 : ~Behind(i, pos'[x], 0, Len(list))
  BY <1>1, <1>2 DEF Behind
<1>5. call'.lists[call'.pc] = list /\ Context' = x /\ List' = ToSet(list)
  BY DEF Context, List
<1> QED
  BY <1>1, <1>3, <1>4, <1>5, SMTT(30) DEF SearchInv

(* A call that goes on has a server left to try.                           *)
LEMMA SearchGoesOn ==
  ASSUME StateInv, TypeOK, SearchInv, NEW s \in Servers, Try(s), GoesOn(s)
  PROVE  SearchInv'
<1> DEFINE list == call.lists[call.pc]
           n == Len(list)
<1>1. /\ call.pc # "idle" /\ s \in List /\ s \in Candidates /\ UNCHANGED setting
      /\ IF setting.filter = "roundrobin" THEN Turn(s) ELSE NoTurn
  BY TryOutcome DEF Try
<1>2. /\ Context \in Contexts /\ list \in Seq(Servers) /\ IsInjective(list) /\ n \in Nat \ {0}
      /\ List = ToSet(list) /\ IsFiniteSet(List) /\ pos[Context] \in 0 .. n - 1
  BY <1>1, Searching, SMTT(30) DEF List, TypeOK, StateInv
<1>3. /\ Context' = Context /\ List' = List /\ call'.lists[call'.pc] = list
      /\ call'.left = call.left \ {s} /\ call'.retries = call.retries + 1
      /\ call'.left \subseteq List /\ Continues(call') /\ call.retries \in Nat
      /\ call'.pc # "idle"
  BY <1>1 DEF GoesOn, Known, Context, List, SearchInv, StateInv, Call
<1> HIDE DEF list, n
<1>4. CASE setting.filter = "random"
  BY <1>1, <1>3, <1>4 DEF Continues, SearchInv
<1>5. CASE setting.filter = "roundrobin"
  <2>1. /\ call.retries < n /\ Cardinality(call.left) >= n - call.retries
        /\ call.left \subseteq List /\ IsFiniteSet(call.left) /\ Cardinality(call.left) \in Nat
    BY <1>1, <1>2, <1>5, FS_Subset, FS_CardinalityType DEF SearchInv, list, n
  <2>2. call'.retries < n
    BY <1>3, <1>5 DEF Continues, n
  <2>3. /\ IsFiniteSet(call'.left) /\ Cardinality(call'.left) \in Nat
        /\ Cardinality(call'.left) >= Cardinality(call.left) - 1
    <3>1. /\ IsFiniteSet(call.left \ {s})
          /\ Cardinality(call.left \ {s}) =
               IF s \in call.left THEN Cardinality(call.left) - 1 ELSE Cardinality(call.left)
      BY <2>1, FS_RemoveElement
    <3>2. Cardinality(call.left \ {s}) \in Nat
      BY <3>1, FS_CardinalityType
    <3> QED
      BY <1>3, <2>1, <3>1, <3>2
  <2>4. Cardinality(call'.left) >= n - call'.retries /\ call'.left # {}
    BY <1>2, <1>3, <2>1, <2>2, <2>3, FS_EmptySet
  <2>5. ASSUME ~setting.weighted, NEW i \in 0 .. n - 1
        PROVE  list[i + 1] \in call'.left
                 <=> ~Behind(i, pos'[Context], call'.retries, n)
    <3>1. s = list[pos[Context] + 1]
      BY <1>1, <1>5, <2>5 DEF Candidates, list
    <3>2. list[i + 1] = s <=> i = pos[Context]
      BY <1>2, <2>5, <3>1 DEF IsInjective, n
    <3>3. list[i + 1] \in call.left <=> ~Behind(i, pos[Context], call.retries, n)
      BY <1>1, <1>5, <2>5 DEF SearchInv, list, n
    <3>4. pos'[Context] = NextPosition(pos[Context], n)
      BY <1>1, <1>5, TurnOutcome DEF list, n
    <3>5. Behind(i, NextPosition(pos[Context], n), call.retries + 1, n)
            <=> (Behind(i, pos[Context], call.retries, n) \/ i = pos[Context])
      BY <1>2, <1>3, <2>1, <2>5, BehindStep
    <3> QED
      BY <1>3, <3>2, <3>3, <3>4, <3>5
  <2> QED
    BY <1>1, <1>3, <1>5, <2>2, <2>4, <2>5 DEF SearchInv, list, n
<1> QED
  BY <1>4, <1>5, BalancingAssumption DEF StateInv, Setting

(* A server's weight is counted down or restored.                          *)
LEMMA WeightsStep ==
  ASSUME StateInv, TypeOK, call.pc # "idle", NEW s \in List, Turn(s)
  PROVE  /\ current' \in [Servers -> Nat]
         /\ \A u \in Servers : current'[u] \in 0 .. Weight[u]
<1>1. /\ current \in [Servers -> Nat] /\ s \in Servers
      /\ \A u \in Servers : current[u] \in 0 .. Weight[u] /\ Weight[u] \in Nat
  <2>1. Weight \in [Servers -> 0 .. MaxWeight]
    BY BalancingAssumption
  <2> QED
    BY <2>1, Searching DEF StateInv, TypeOK
<1>2. CASE current' = current
  BY <1>1, <1>2
<1>3. CASE current' = [u \in Servers |-> IF u \in List THEN Weight[u] ELSE current[u]]
  BY <1>1, <1>3
<1>4. CASE current[s] # 0 /\ current' = [current EXCEPT ![s] = @ - 1]
  <2>1. current[s] - 1 \in Nat /\ current[s] - 1 \in 0 .. Weight[s]
    BY <1>1, <1>4
  <2> QED
    BY <1>1, <1>4, <2>1
<1> QED
  BY <1>2, <1>3, <1>4 DEF Turn

(* What a step leaves as it is.                                            *)
LEMMA Unchanged ==
  ASSUME UNCHANGED setting
  PROVE  Contexts' = Contexts /\ Call' = Call /\ Thorough' = Thorough
         /\ \A x : Alone(x)' <=> Alone(x)
  BY DEF Contexts, Call, Thorough, Alone

(* The state of the filter stays well formed.                              *)
LEMMA StateStep ==
  ASSUME StateInv, SearchInv, TypeOK, [Next]_vars
  PROVE  StateInv'
<1>1. CASE UNCHANGED vars
  BY <1>1, Unchanged DEF StateInv, vars, kept
<1>2. ASSUME NEW s \in Servers, Toggle(s) PROVE StateInv'
  BY <1>2, Unchanged DEF StateInv, Toggle, kept
<1>3. ASSUME NEW lists \in setting.lists, NEW role \in {"master", "slave"},
             NEW allow \in BOOLEAN, Begin(lists, role, allow)
      PROVE  StateInv'
  <2>1. Begins(lists, role) /\ UNCHANGED <<setting, up, opened, failed, kept>>
    BY <1>3, BeginOutcome DEF Begin
  <2>2. role # Null
    BY BalancingAssumption
  <2> QED
    BY <1>3, <2>1, <2>2, Unchanged DEF StateInv, Begins, kept
<1>4. ASSUME NEW s \in Servers, Try(s) PROVE StateInv'
  <2>1. /\ call.pc # "idle" /\ s \in List /\ call' \in Call
        /\ opened \subseteq opened'
        /\ GoesOn(s) \/ Ends(s) \/ ToMasters(s)
    BY <1>4, TryOutcome
  <2>2. UNCHANGED <<setting, up>> /\ (IF setting.filter = "roundrobin" THEN Turn(s) ELSE NoTurn)
    BY <1>4 DEF Try
  <2>3. /\ pos' \in [Contexts -> Nat] /\ resets' \in [Contexts -> Nat]
        /\ turns' = [x \in Contexts |-> turns'[x]]
        /\ \A x \in Contexts : turns'[x] \in [ToSet(x[2]) -> Nat]
        /\ current' \in [Servers -> Nat]
    BY <2>1, <2>2, TurnOutcome, WeightsStep DEF NoTurn, StateInv
  <2>4. /\ opened' \in SUBSET Servers /\ failed' \in SUBSET Servers
        /\ sticky' \in [Contexts -> Servers \cup {Null}]
        /\ ~setting.remember => failed' = {}
    <3>1. Context \in Contexts
      BY <2>1, Searching
    <3> QED
      BY <1>4, <3>1 DEF Try, Skip, Use, CannotUse, StateInv
  <2>5. /\ call'.role # Null => call'.lists \in setting.lists
        /\ call'.pc # "idle" => call'.role # Null /\ call'.lists[call'.pc] # <<>>
        /\ call'.pc = "slave" => call'.role = "slave"
    BY <2>1 DEF GoesOn, Ends, ToMasters, Starts, Known, StateInv
  <2> QED
    BY <2>1, <2>2, <2>3, <2>4, <2>5, Unchanged DEF StateInv
<1> QED
  BY <1>1, <1>2, <1>3, <1>4 DEF Next

(* A call that goes on has servers left to try, in whatever list it is.    *)
LEMMA SearchStep ==
  ASSUME StateInv, SearchInv, TypeOK, [Next]_vars
  PROVE  SearchInv'
<1>1. CASE UNCHANGED vars
  BY <1>1 DEF SearchInv, vars, kept, List, Context
<1>2. ASSUME NEW s \in Servers, Toggle(s) PROVE SearchInv'
  BY <1>2 DEF SearchInv, Toggle, kept, List, Context
<1>3. ASSUME NEW lists \in setting.lists, NEW role \in {"master", "slave"},
             NEW allow \in BOOLEAN, Begin(lists, role, allow)
      PROVE  SearchInv'
  <2>1. Begins(lists, role) /\ UNCHANGED <<setting, pos>>
    BY <1>3, BeginOutcome DEF Begin, kept
  <2>2. CASE call'.pc = "idle"
    BY <2>2 DEF SearchInv
  <2>3. CASE call'.pc # "idle"
    <3>1. /\ call'.pc \in {"master", "slave"} /\ lists[call'.pc] # <<>>
          /\ call'.left = ToSet(lists[call'.pc]) /\ call'.retries = 0 /\ call'.lists = lists
      BY <2>1, <2>3 DEF Begins
    <3> QED
      BY <2>1, <3>1, StartsWhole
  <2> QED
    BY <2>2, <2>3
<1>4. ASSUME NEW s \in Servers, Try(s) PROVE SearchInv'
  <2>1. call.pc # "idle" /\ s \in List /\ (GoesOn(s) \/ Ends(s) \/ ToMasters(s))
    BY <1>4, TryOutcome
  <2>2. CASE Ends(s)
    BY <2>2 DEF Ends, SearchInv
  <2>3. CASE GoesOn(s)
    BY <1>4, <2>3, SearchGoesOn
  <2>4. CASE ToMasters(s)
    <3>1. /\ call.lists \in setting.lists /\ call.lists["master"] # <<>>
          /\ call'.pc = "master" /\ call'.left = ToSet(call.lists["master"])
          /\ call'.retries = 0 /\ call'.lists = call.lists
      BY <2>1, <2>4, Searching DEF ToMasters, Starts, Known
    <3>2. /\ UNCHANGED setting
          /\ IF setting.filter = "roundrobin" THEN Turn(s) ELSE NoTurn
      BY <1>4 DEF Try
    <3>3. ASSUME NEW x \in Contexts
          PROVE  pos'[x] = pos[x] \/ pos'[x] \in 0 .. Len(x[2]) - 1
      <4>1. CASE NoTurn
        BY <4>1 DEF NoTurn
      <4>2. CASE Turn(s) /\ x # Context
        BY <2>1, <4>2, TurnOutcome
      <4>3. CASE Turn(s) /\ x = Context
        <5>1. /\ x[2] = call.lists[call.pc] /\ Len(x[2]) \in Nat \ {0}
              /\ pos[x] \in 0 .. Len(x[2]) - 1
          BY <2>1, <4>3, Searching DEF TypeOK, StateInv
        <5>2. pos'[x] = NextPosition(pos[x], Len(x[2]))
          BY <2>1, <4>3, <5>1, TurnOutcome
        <5> QED
          BY <5>1, <5>2 DEF NextPosition
      <4> QED
        BY <3>2, <4>1, <4>2, <4>3
    <3> QED
      BY <3>1, <3>2, <3>3, StartsWhole
  <2> QED
    BY <2>1, <2>2, <2>3, <2>4
<1> QED
  BY <1>1, <1>2, <1>3, <1>4 DEF Next

(* Positions, weights and memories stay what they are meant to be.         *)
LEMMA TypeStep ==
  ASSUME StateInv, SearchInv, TypeOK, [Next]_vars
  PROVE  TypeOK'
<1>0. call'.pc # "idle" => call'.left # {} /\ call'.left \subseteq List'
  BY SearchStep DEF SearchInv
<1>1. CASE UNCHANGED <<setting, kept, opened, failed>>
  BY <1>0, <1>1, Unchanged DEF TypeOK, kept
<1>2. ASSUME NEW s \in Servers, Try(s) PROVE TypeOK'
  <2>1. call.pc # "idle" /\ s \in List /\ opened \subseteq opened'
    BY <1>2, TryOutcome
  <2>2. UNCHANGED setting /\ (IF setting.filter = "roundrobin" THEN Turn(s) ELSE NoTurn)
    BY <1>2 DEF Try
  <2>3. \A u \in Servers : current'[u] \in 0 .. Weight[u]
    BY <2>1, <2>2, WeightsStep DEF NoTurn, TypeOK
  <2>4. ASSUME NEW x \in Contexts
        PROVE  pos'[x] = 0 \/ pos'[x] \in 1 .. Len(x[2]) - 1
    <3>1. CASE NoTurn \/ (Turn(s) /\ x # Context)
      BY <2>1, <3>1, TurnOutcome DEF NoTurn, TypeOK
    <3>2. CASE Turn(s) /\ x = Context
      <4>1. /\ x[2] = call.lists[call.pc] /\ Len(x[2]) \in Nat \ {0}
            /\ pos[x] \in 0 .. Len(x[2]) - 1
        BY <2>1, <3>2, Searching DEF TypeOK, StateInv
      <4>2. pos'[x] = NextPosition(pos[x], Len(x[2]))
        BY <2>1, <3>2, <4>1, TurnOutcome
      <4> QED
        BY <4>1, <4>2 DEF NextPosition
    <3> QED
      BY <2>2, <3>1, <3>2
  <2>5. /\ failed' \cap opened' = {}
        /\ \A x \in Contexts : sticky'[x] # Null => sticky'[x] \in opened'
    <3>1. Context \in Contexts /\ sticky \in [Contexts -> Servers \cup {Null}]
      BY <2>1, Searching DEF StateInv
    <3> QED
      BY <1>2, <2>1, <3>1, ZenonT(30) DEF Try, Skip, Use, CannotUse, Remembered, TypeOK, StateInv
  <2> QED
    BY <1>0, <2>2, <2>3, <2>4, <2>5, Unchanged DEF TypeOK
<1> QED
  BY <1>1, <1>2 DEF Next, vars, Begin, Toggle

(* The attempts of a call stay within the limit.                           *)
LEMMA TriesStep ==
  ASSUME StateInv, SearchInv, TypeOK, TriesInv, AttemptsBounded, [Next]_vars
  PROVE  TriesInv' /\ AttemptsBounded'
<1>0. /\ call \in Call /\ call.tries \in Nat /\ call.retries \in Nat
      /\ setting.maxRetries \in Nat
  <2>1. setting \in Setting
    BY BalancingAssumption DEF StateInv
  <2> QED
    BY <2>1 DEF StateInv, Call, Setting
<1>1. CASE UNCHANGED <<setting, call>>
  BY <1>1 DEF TriesInv, AttemptsBounded
<1>2. ASSUME NEW lists \in setting.lists, NEW role \in {"master", "slave"},
             NEW allow \in BOOLEAN, Begin(lists, role, allow)
      PROVE  TriesInv' /\ AttemptsBounded'
  <2>1. /\ call'.tries = 0 /\ (call'.pc # "idle" => call'.retries = 0) /\ UNCHANGED setting
    BY <1>2, BeginOutcome DEF Begins, Begin
  <2> QED
    BY <1>0, <2>1 DEF TriesInv, AttemptsBounded
<1>3. ASSUME NEW s \in Servers, Try(s) PROVE TriesInv' /\ AttemptsBounded'
  <2>1. /\ call.pc # "idle" /\ UNCHANGED setting
        /\ GoesOn(s) \/ Ends(s) \/ ToMasters(s)
        /\ call' \in Call
    BY <1>3, TryOutcome DEF Try
  <2>2. call'.tries \in Nat
    BY <2>1 DEF Call
  <2>3. CASE GoesOn(s)
    BY <1>0, <2>1, <2>2, <2>3 DEF GoesOn, TriesInv, AttemptsBounded
  <2>4. CASE Ends(s)
    BY <1>0, <2>1, <2>2, <2>4 DEF Ends, TriesInv, AttemptsBounded
  <2>5. CASE ToMasters(s)
    BY <1>0, <2>1, <2>5 DEF ToMasters, Starts, TriesInv, AttemptsBounded
  <2> QED
    BY <2>1, <2>3, <2>4, <2>5
<1> QED
  BY <1>1, <1>2, <1>3 DEF Next, vars, Toggle

(* When a thorough call comes to the end of a list only the server it has  *)
(* just looked at was left: round robin has been at every position.        *)
LEMMA OnlyThisOneLeft ==
  ASSUME StateInv, SearchInv, TypeOK, Thorough, NEW s \in Servers, Try(s), ListExhausted(s)
  PROVE  call.left \ {s} = {}
<1>1. call.pc # "idle" /\ s \in Candidates
  BY DEF Try
<1>2. CASE setting.filter = "random"
  BY <1>2 DEF ListExhausted
<1>3. CASE setting.filter # "random"
  <2> DEFINE list == call.lists[call.pc]
             n == Len(list)
             p == pos[Context]
  <2>1. /\ setting.filter = "roundrobin" /\ ~setting.weighted
    BY <1>3, BalancingAssumption DEF Thorough, StateInv, Setting
  <2>2. /\ list \in Seq(Servers) /\ n \in Nat \ {0} /\ p \in 0 .. n - 1 /\ List = ToSet(list)
        /\ IsInjective(list) /\ call.left \subseteq List /\ call.retries \in Nat
    <3>1. /\ Context \in Contexts /\ Context[2] = list
          /\ list \in Seq(Servers) /\ n \in Nat \ {0} /\ IsInjective(list)
      BY <1>1, Searching
    <3>2. p \in 0 .. n - 1
      BY <3>1 DEF TypeOK, StateInv
    <3> QED
      BY <1>1, <3>1, <3>2 DEF SearchInv, StateInv, List, Call
  <2>3. call.retries = n - 1
    <3>1. call.retries < n /\ call.retries + 1 >= n
      BY <1>1, <1>3, <2>1 DEF SearchInv, ListExhausted
    <3> QED
      BY <2>2, <3>1
  <2>4. s = list[p + 1]
    BY <1>1, <2>1 DEF Candidates
  <2>5. \A i \in 0 .. n - 1 : list[i + 1] \in call.left <=> ~Behind(i, p, call.retries, n)
    BY <1>1, <2>1 DEF SearchInv
  <2> HIDE DEF list, n, p
  <2>6. ASSUME NEW u \in call.left PROVE u = s
    <3>1. PICK k \in 1 .. Len(list) : u = list[k]
      BY <2>2, ListSize
    <3>2. k - 1 \in 0 .. n - 1 /\ (k - 1) + 1 = k
      BY <2>2, <3>1 DEF n
    <3>3. ~Behind(k - 1, p, n - 1, n)
      BY <2>3, <2>5, <2>6, <3>1, <3>2
    <3>4. k - 1 = p
      BY <2>2, <3>2, <3>3 DEF Behind
    <3> QED
      BY <2>4, <3>1, <3>2, <3>4
  <2> QED
    BY <2>6
<1> QED
  BY <1>2, <1>3

(* A thorough call ends without a connection only when it has tried all.   *)
LEMMA TestedStep ==
  ASSUME StateInv, SearchInv, TypeOK, TestedInv, AllAlternativesTested, [Next]_vars
  PROVE  TestedInv' /\ AllAlternativesTested'
<1>1. CASE UNCHANGED <<setting, call, opened, failed>>
  BY <1>1 DEF TestedInv, AllAlternativesTested, Thorough, Done, Searched, List
<1>2. ASSUME NEW lists \in setting.lists, NEW role \in {"master", "slave"},
             NEW allow \in BOOLEAN, Begin(lists, role, allow)
      PROVE  TestedInv' /\ AllAlternativesTested'
  <2>1. Begins(lists, role) /\ UNCHANGED <<setting, opened, failed>>
    BY <1>2, BeginOutcome DEF Begin
  <2>2. TestedInv'
    BY <2>1, BalancingAssumption DEF Begins, TestedInv, Thorough, List
  <2>3. AllAlternativesTested'
    BY <2>1 DEF Begins, AllAlternativesTested, Thorough, Done, Searched
  <2> QED
    BY <2>2, <2>3
<1>3. ASSUME NEW s \in Servers, Try(s) PROVE TestedInv' /\ AllAlternativesTested'
  <2>1. /\ call.pc # "idle" /\ s \in List /\ UNCHANGED setting /\ failed \subseteq failed'
        /\ GoesOn(s) \/ Ends(s) \/ ToMasters(s)
    BY <1>3, TryOutcome DEF Try
  <2>2. /\ call.lists["slave"] = call.lists.slave /\ call.lists["master"] = call.lists.master
        /\ call.pc \in {"master", "slave"} /\ call.role \in {"master", "slave"}
        /\ call.pc = "slave" => call.role = "slave"
    <3>1. call.lists \in [master : Seq(Servers), slave : Seq(Servers)]
      BY <2>1, Searching, BalancingAssumption DEF StateInv, Setting
    <3> QED
      BY <2>1, <3>1, Searching DEF StateInv, Call
  <2>3. CASE GoesOn(s)
    <3>1. List' = List /\ call'.pc # "idle"
      BY <2>1, <2>3 DEF GoesOn, Known, List
    <3> QED
      BY <2>1, <2>3, <3>1
         DEF GoesOn, Known, TestedInv, AllAlternativesTested, Thorough, Done
  <2>4. Thorough /\ ListExhausted(s) =>
          /\ List \subseteq call'.tried \cup failed'
          /\ call.role = "slave" /\ call.pc = "master" =>
               ToSet(call.lists.slave) \subseteq call'.tried \cup failed'
    <3> SUFFICES ASSUME Thorough, ListExhausted(s)
                 PROVE  /\ List \subseteq call'.tried \cup failed'
                        /\ call.role = "slave" /\ call.pc = "master" =>
                             ToSet(call.lists.slave) \subseteq call'.tried \cup failed'
      OBVIOUS
    <3>1. call.left \ {s} = {}
      BY <1>3, OnlyThisOneLeft
    <3>2. Known(s)
      BY <2>1 DEF GoesOn, Ends, ToMasters
    <3> QED
      BY <2>1, <3>1, <3>2 DEF Known, TestedInv
  <2>5. CASE Ends(s)
    <3>1. TestedInv'
      BY <2>5 DEF Ends, TestedInv
    <3>2. ASSUME Thorough, call'.connection \notin opened'
          PROVE  Searched' \subseteq call'.tried \cup failed'
      <4>1. /\ ListExhausted(s) /\ (call.pc = "slave" => call.lists.master = <<>>)
            /\ call'.lists = call.lists /\ call'.role = call.role
        BY <2>5, <3>2 DEF Ends, Known
      <4>2. call.pc = "slave" => ToSet(call.lists.master) = {}
        BY <4>1 DEF ToSet
      <4>3. List = IF call.pc = "slave" THEN ToSet(call.lists.slave) ELSE ToSet(call.lists.master)
        BY <2>2 DEF List
      <4> QED
        BY <2>2, <2>4, <3>2, <4>1, <4>2, <4>3 DEF Searched
    <3>3. AllAlternativesTested'
      BY <2>1, <3>2 DEF AllAlternativesTested, Thorough
    <3> QED
      BY <3>1, <3>3
  <2>6. CASE ToMasters(s)
    <3>1. /\ call.pc = "slave" /\ call'.pc = "master" /\ call'.lists = call.lists
          /\ call'.left = ToSet(call.lists["master"]) /\ List' = call'.left
          /\ Thorough => ListExhausted(s)
      BY <2>6 DEF ToMasters, Starts, Known, List
    <3>2. List = ToSet(call.lists.slave)
      BY <2>2, <3>1 DEF List
    <3>3. TestedInv'
      BY <2>1, <2>4, <3>1, <3>2 DEF TestedInv, Thorough
    <3>4. AllAlternativesTested'
      BY <3>1 DEF AllAlternativesTested, Done
    <3> QED
      BY <3>3, <3>4
  <2> QED
    BY <2>1, <2>3, <2>5, <2>6
<1> QED
  BY <1>1, <1>2, <1>3 DEF Next, vars, Toggle

(* The turns of a list that is searched: without weights they go round,    *)
(* with weights they make up for what is counted down.                     *)
LEMMA TurnsOfThis ==
  ASSUME StateInv, TypeOK, TurnsInv, setting.filter = "roundrobin", UNCHANGED setting,
         call.pc # "idle", NEW s \in Candidates, s \in List, Turn(s)
  PROVE  IF ~setting.weighted
         THEN \A i, j \in DOMAIN Context[2] :
                turns'[Context][Context[2][i]] + (IF j <= pos'[Context] THEN 1 ELSE 0)
                  = turns'[Context][Context[2][j]] + (IF i <= pos'[Context] THEN 1 ELSE 0)
         ELSE Alone(Context) => \A u \in List :
                /\ turns'[Context][u] + current'[u] >= (resets'[Context] + 1) * Weight[u]
                /\ turns'[Context][u] + current'[u]
                     <= (resets'[Context] + 1) * Weight[u] + resets'[Context]
<1> DEFINE x == Context
           list == call.lists[call.pc]
           n == Len(list)
           p == pos[Context]
<1>1. /\ x \in Contexts /\ x[2] = list /\ list \in Seq(Servers) /\ IsInjective(list)
      /\ n \in Nat \ {0} /\ List = ToSet(list) /\ List \subseteq Servers
  BY Searching DEF List
<1>2. /\ p \in 0 .. n - 1 /\ turns[x] \in [List -> Nat] /\ resets[x] \in Nat
  BY <1>1, SMTT(30) DEF TypeOK, StateInv
<1>3. /\ pos'[x] = NextPosition(p, n)
      /\ \A u \in List : turns'[x][u] = turns[x][u] + (IF u = s THEN 1 ELSE 0)
  BY <1>1, <1>2, TurnOutcome
<1>4. CASE ~setting.weighted
  <2>1. s = list[p + 1]
    BY <1>4 DEF Candidates
  <2>2. \A i, j \in 1 .. n :
          turns[x][list[i]] + (IF j <= p THEN 1 ELSE 0)
            = turns[x][list[j]] + (IF i <= p THEN 1 ELSE 0)
    BY <1>1, <1>4, SMTT(30) DEF TurnsInv
  <2> HIDE DEF x, list, n, p
  <2>3. ASSUME NEW i \in 1 .. n
        PROVE  /\ turns'[x][list[i]] = turns[x][list[i]] + (IF i = p + 1 THEN 1 ELSE 0)
               /\ turns[x][list[i]] \in Nat
    <3>1. list[i] \in List
      BY <1>1, ListSize DEF n
    <3>2. list[i] = s <=> i = p + 1
      BY <1>1, <1>2, <2>1 DEF IsInjective, n
    <3> QED
      BY <1>2, <1>3, <3>1, <3>2
  <2>4. ASSUME NEW i \in 1 .. n, NEW j \in 1 .. n
        PROVE  turns'[x][list[i]] + (IF j <= pos'[x] THEN 1 ELSE 0)
                 = turns'[x][list[j]] + (IF i <= pos'[x] THEN 1 ELSE 0)
    <3>1. /\ turns'[x][list[i]] = turns[x][list[i]] + (IF i = p + 1 THEN 1 ELSE 0)
          /\ turns'[x][list[j]] = turns[x][list[j]] + (IF j = p + 1 THEN 1 ELSE 0)
          /\ turns[x][list[i]] \in Nat /\ turns[x][list[j]] \in Nat
      BY <2>3
    <3>2. turns[x][list[i]] + (IF j <= p THEN 1 ELSE 0)
            = turns[x][list[j]] + (IF i <= p THEN 1 ELSE 0)
      BY <2>2
    <3>3. pos'[x] = IF p + 1 = n THEN 0 ELSE p + 1
      BY <1>3 DEF NextPosition
    <3> QED
      BY <1>1, <1>2, <3>1, <3>2, <3>3, SMTT(30)
  <2> QED
    BY <1>1, <1>4, <2>4 DEF x, n
<1>5. CASE setting.weighted
  <2>1. \A u \in List : /\ current[u] \in Nat /\ Weight[u] \in Nat /\ current[u] <= current[s]
                        /\ turns[x][u] \in Nat
    <3>1. Weight \in [Servers -> 0 .. MaxWeight]
      BY BalancingAssumption
    <3> QED
      BY <1>1, <1>2, <1>5, <3>1 DEF StateInv, TypeOK, Candidates, Heaviest
  <2>2. CASE current[s] = 0
    <3>1. /\ \A u \in List : current'[u] = Weight[u] /\ current[u] = 0
          /\ resets'[x] = resets[x] + 1
      BY <1>1, <1>5, <2>1, <2>2 DEF Turn, StateInv
    <3>2. ASSUME Alone(x), NEW u \in List
          PROVE  /\ turns'[x][u] + current'[u] >= (resets'[x] + 1) * Weight[u]
                 /\ turns'[x][u] + current'[u] <= (resets'[x] + 1) * Weight[u] + resets'[x]
      <4> DEFINE r == resets[x]
                 w == Weight[u]
                 t == turns[x][u]
      <4>1. r \in Nat /\ w \in Nat /\ t \in Nat
        BY <1>2, <2>1
      <4>2. t >= (r + 1) * w /\ t <= (r + 1) * w + r
        BY <1>1, <1>5, <2>1, <3>1, <3>2 DEF TurnsInv
      <4>3. turns'[x][u] \in {t, t + 1} /\ current'[u] = w /\ resets'[x] = r + 1
        BY <1>3, <2>1, <3>1
      <4> HIDE DEF r, w, t
      <4>4. (r + 1 + 1) * w = (r + 1) * w + w /\ (r + 1) * w \in Nat
        BY <4>1
      <4>5. /\ turns'[x][u] + current'[u] >= (resets'[x] + 1) * w
            /\ turns'[x][u] + current'[u] <= (resets'[x] + 1) * w + resets'[x]
        BY <4>1, <4>2, <4>3, <4>4
      <4> QED
        BY <4>5 DEF w
    <3> QED
      BY <1>5, <3>2
  <2>3. CASE current[s] # 0
    <3>1. /\ \A u \in List : turns'[x][u] + current'[u] = turns[x][u] + current[u]
          /\ resets'[x] = resets[x]
      <4>1. /\ current' = [current EXCEPT ![s] = @ - 1]
            /\ current \in [Servers -> Nat] /\ resets \in [Contexts -> Nat]
            /\ resets'[x] = resets[x]
        BY <1>1, <1>5, <2>3 DEF Turn, StateInv
      <4>2. \A u \in List : current'[u] = IF u = s THEN current[s] - 1 ELSE current[u]
        BY <1>1, <4>1
      <4> QED
        BY <1>3, <2>1, <4>1, <4>2
    <3> QED
      BY <1>1, <1>5, <3>1 DEF TurnsInv
  <2> QED
    BY <2>2, <2>3
<1> QED
  BY <1>4, <1>5

(* Every list keeps its turns, whatever the other lists do.                *)
LEMMA TurnsStep ==
  ASSUME StateInv, SearchInv, TypeOK, TurnsInv, [Next]_vars
  PROVE  TurnsInv'
<1>1. CASE UNCHANGED <<setting, kept>>
  BY <1>1, Unchanged DEF TurnsInv, kept
<1>2. ASSUME NEW s \in Servers, Try(s) PROVE TurnsInv'
  <2>1. /\ call.pc # "idle" /\ s \in List /\ s \in Candidates /\ UNCHANGED setting
        /\ IF setting.filter = "roundrobin" THEN Turn(s) ELSE NoTurn
    BY <1>2, TryOutcome DEF Try
  <2>2. CASE setting.filter # "roundrobin"
    BY <2>1, <2>2 DEF TurnsInv
  <2>3. CASE setting.filter = "roundrobin" /\ Turn(s)
    <3>1. Context \in Contexts /\ ToSet(Context[2]) = List
      BY <2>1, Searching DEF List
    <3>2. ASSUME NEW x \in Contexts \ {Context}, setting.weighted, Alone(x),
                 NEW u \in ToSet(x[2])
          PROVE  current'[u] = current[u]
      <4>1. u \notin List /\ u \in Servers
        BY <3>1, <3>2, ContextList, ListSize DEF Alone, StateInv
      <4>2. \/ current' = current
            \/ current' = [v \in Servers |-> IF v \in List THEN Weight[v] ELSE current[v]]
            \/ current' = [current EXCEPT ![s] = @ - 1]
        BY <2>3 DEF Turn
      <4> QED
        BY <2>1, <4>1, <4>2 DEF StateInv
    <3>3. ASSUME NEW x \in Contexts \ {Context}
          PROVE  pos'[x] = pos[x] /\ turns'[x] = turns[x] /\ resets'[x] = resets[x]
      BY <2>1, <2>3, TurnOutcome
    <3>4. Contexts' = Contexts /\ \A x : Alone(x)' <=> Alone(x)
      BY <2>1, Unchanged
    <3>5. ASSUME NEW x \in Contexts, ~setting.weighted
          PROVE  \A i, j \in DOMAIN x[2] :
                   turns'[x][x[2][i]] + (IF j <= pos'[x] THEN 1 ELSE 0)
                     = turns'[x][x[2][j]] + (IF i <= pos'[x] THEN 1 ELSE 0)
      <4>1. CASE x = Context
        BY <2>1, <2>3, <3>5, <4>1, TurnsOfThis
      <4>2. CASE x # Context
        BY <2>3, <3>3, <3>5, <4>2 DEF TurnsInv
      <4> QED
        BY <4>1, <4>2
    <3>6. ASSUME NEW x \in Contexts, setting.weighted, Alone(x), NEW u \in ToSet(x[2])
          PROVE  /\ turns'[x][u] + current'[u] >= (resets'[x] + 1) * Weight[u]
                 /\ turns'[x][u] + current'[u] <= (resets'[x] + 1) * Weight[u] + resets'[x]
      <4>1. CASE x = Context
        BY <2>1, <2>3, <3>1, <3>6, <4>1, TurnsOfThis
      <4>2. CASE x # Context
        BY <2>3, <3>2, <3>3, <3>6, <4>2 DEF TurnsInv
      <4> QED
        BY <4>1, <4>2
    <3> QED
      BY <2>1, <3>4, <3>5, <3>6 DEF TurnsInv
  <2> QED
    BY <2>1, <2>2, <2>3
<1> QED
  BY <1>1, <1>2 DEF Next, vars, Begin, Toggle

(* At the beginning nothing is remembered and all weights are there.       *)
LEMMA InvInit ==
  ASSUME Init
  PROVE  Inv
<1>1. /\ Weight \in [Servers -> 0 .. MaxWeight] /\ setting \in Setting
      /\ \A s \in Servers : Weight[s] \in Nat /\ Weight[s] \in 0 .. Weight[s]
  BY BalancingAssumption DEF Init
<1>2. /\ call.pc = "idle" /\ call.role = Null /\ call \in Call /\ call.tries = 0
  BY <1>1 DEF Init, Call
<1>3. StateInv
  BY <1>1, <1>2 DEF Init, StateInv
<1>4. TypeOK
  BY <1>1, <1>2 DEF Init, TypeOK
<1>5. SearchInv /\ TriesInv /\ TestedInv
  BY <1>2 DEF SearchInv, TriesInv, TestedInv
<1>6. TurnsInv
  <2>1. ASSUME NEW x \in Contexts, NEW i \in DOMAIN x[2], NEW j \in DOMAIN x[2]
        PROVE  turns[x][x[2][i]] + (IF j <= pos[x] THEN 1 ELSE 0)
                 = turns[x][x[2][j]] + (IF i <= pos[x] THEN 1 ELSE 0)
    <3>1. x[2] \in Seq(Servers) /\ IsInjective(x[2])
      BY ContextList DEF Init
    <3>2. i \in 1 .. Len(x[2]) /\ j \in 1 .. Len(x[2])
      BY <3>1
    <3>3. x[2][i] \in ToSet(x[2]) /\ x[2][j] \in ToSet(x[2])
      BY <3>1, <3>2, ListSize
    <3>4. pos[x] = 0 /\ turns[x][x[2][i]] = 0 /\ turns[x][x[2][j]] = 0
      BY <3>3 DEF Init
    <3> QED
      BY <3>2, <3>4
  <2>2. ASSUME NEW x \in Contexts, NEW s \in ToSet(x[2])
        PROVE  /\ turns[x][s] + current[s] >= (resets[x] + 1) * Weight[s]
               /\ turns[x][s] + current[s] <= (resets[x] + 1) * Weight[s] + resets[x]
    <3>1. s \in Servers
      BY ContextList, ListSize DEF Init
    <3>2. turns[x][s] = 0 /\ current[s] = Weight[s] /\ resets[x] = 0 /\ Weight[s] \in Nat
      BY <1>1, <3>1 DEF Init
    <3> QED
      BY <3>2
  <2> QED
    BY <2>1, <2>2 DEF TurnsInv
<1>7. AllAlternativesTested
  BY <1>2 DEF AllAlternativesTested, Done
<1>8. AttemptsBounded
  BY <1>1, <1>2 DEF AttemptsBounded, Setting
<1> QED
  BY <1>3, <1>4, <1>5, <1>6, <1>7, <1>8 DEF Inv

----------------------------------------------------------------------------
(* The invariant of the filters, which the following theorems rest on:     *)
(* what a call has tried, what it may still try, and the turns it counts.  *)
THEOREM BalancingInvariance == Spec => []Inv
<1>1. Init => Inv
  BY InvInit
<1>2. Inv /\ [Next]_vars => Inv'
  BY StateStep, SearchStep, TypeStep, TriesStep, TestedStep, TurnsStep DEF Inv
<1> QED
  BY <1>1, <1>2, PTL DEF Spec

(* No position is outside its list and no weight above what was            *)
(* configured; what was remembered as failed is not connected.             *)
THEOREM PositionsAndWeights == Spec => []TypeOK
<1>1. Inv => TypeOK
  BY DEF Inv
<1> QED
  BY <1>1, BalancingInvariance, PTL

(* A statement stays without a connection only when all it may use has     *)
(* been tried, for every list and whatever servers come and go.            *)
THEOREM EveryServerTried == Spec => []AllAlternativesTested
<1>1. Inv => AllAlternativesTested
  BY DEF Inv
<1> QED
  BY <1>1, BalancingInvariance, PTL

(* A list costs a statement one failing attempt, and max_retries more with *)
(* loop_before_master.                                                     *)
THEOREM AttemptsLimited == Spec => []AttemptsBounded
<1>1. Inv => AttemptsBounded
  BY DEF Inv
<1> QED
  BY <1>1, BalancingInvariance, PTL

(* Round robin is fair for ever: without weights no server of a list gets  *)
(* two turns more than another, with weights each gets its share.          *)
THEOREM RoundRobinIsFair == Spec => []FairTurns
<1>1. Inv => FairTurns
  <2> SUFFICES ASSUME Inv, setting.filter = "roundrobin", NEW x \in Contexts,
                      NEW s \in ToSet(x[2])
               PROVE  IF ~setting.weighted
                      THEN \A u \in ToSet(x[2]) : turns[x][s] <= turns[x][u] + 1
                      ELSE Alone(x) =>
                        /\ turns[x][s] >= resets[x] * Weight[s]
                        /\ turns[x][s] <= (resets[x] + 1) * Weight[s] + resets[x]
    BY DEF FairTurns
  <2>1. /\ x[2] \in Seq(Servers) /\ IsInjective(x[2]) /\ turns[x] \in [ToSet(x[2]) -> Nat]
        /\ resets[x] \in Nat /\ DOMAIN x[2] = 1 .. Len(x[2])
    BY ContextList DEF Inv, StateInv
  <2>2. CASE ~setting.weighted
    <3>1. ASSUME NEW u \in ToSet(x[2]) PROVE turns[x][s] <= turns[x][u] + 1
      <4>1. PICK i \in DOMAIN x[2], j \in DOMAIN x[2] : s = x[2][i] /\ u = x[2][j]
        BY DEF ToSet
      <4>2. turns[x][s] + (IF j <= pos[x] THEN 1 ELSE 0)
              = turns[x][u] + (IF i <= pos[x] THEN 1 ELSE 0)
        BY <2>2, <4>1 DEF Inv, TurnsInv
      <4> QED
        BY <2>1, <4>2
    <3> QED
      BY <2>2, <3>1
  <2>3. CASE setting.weighted /\ Alone(x)
    <3> DEFINE r == resets[x]
               w == Weight[s]
               t == turns[x][s]
               c == current[s]
    <3>1. s \in Servers /\ Weight \in [Servers -> 0 .. MaxWeight]
      BY <2>1, ListSize, BalancingAssumption
    <3>2. r \in Nat /\ w \in Nat /\ t \in Nat /\ c \in 0 .. w
      BY <2>1, <3>1 DEF Inv, TypeOK
    <3>3. t + c >= (r + 1) * w /\ t + c <= (r + 1) * w + r
      BY <2>3 DEF Inv, TurnsInv
    <3> HIDE DEF r, w, t, c
    <3>4. (r + 1) * w = r * w + w /\ r * w \in Nat
      BY <3>2
    <3>5. t >= r * w /\ t <= (r + 1) * w + r
      BY <3>2, <3>3, <3>4
    <3> QED
      BY <2>3, <3>5 DEF r, w, t
  <2> QED
    BY <2>2, <2>3
<1> QED
  BY <1>1, BalancingInvariance, PTL
=============================================================================

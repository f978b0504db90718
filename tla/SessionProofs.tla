---------------------------- MODULE SessionProofs ----------------------------
(***************************************************************************)
(* What Session promises about transactions, for any lists of masters and  *)
(* slaves, any configurations and any faults: proofs of the properties     *)
(* that the run session checks for three servers.                          *)
(***************************************************************************)
EXTENDS Session, FiniteSetTheorems, TLAPS

(* The handle's own connection is a master, and the connection that ends a *)
(* transaction is a server.                                                *)
LEMMA Targets ==
  /\ Proxy \in Master /\ Master \subseteq Server /\ Slave \subseteq Server
  /\ None \notin Server /\ Settings \subseteq Setting
  /\ TypeOK => Target \in Server /\ conf \in Setting
<1>1. Proxy \in Master
  <2>1. Masters \in Seq(Master) /\ Masters # <<>>
    BY ConstantsAssumption
  <2>2. 1 \in DOMAIN Masters
    BY <2>1
  <2> QED
    BY <2>2 DEF Proxy, Master, ToSet
<1>2. Master \subseteq Server /\ Slave \subseteq Server
  BY DEF Server
<1>3. None \notin Server /\ Settings \subseteq Setting
  BY ConstantsAssumption
<1>4. TypeOK => Target \in Server /\ conf \in Setting
  BY <1>1, <1>2, <1>3 DEF TypeOK, Strategies, Target
<1> QED
  BY <1>1, <1>2, <1>3, <1>4

(* What a statement sent to a server changes: that server's session and    *)
(* connection, and nothing else.                                           *)
LEMMA Sent ==
  ASSUME TypeOK, NEW c \in Server, NEW o, NEW effect \in SessionState, Send(c, o, effect)
  PROVE  /\ session' \in [Server -> SessionState]
         /\ link' \in [Server -> {"alloced", "ready", "quit"}]
         /\ \A d \in Server : d # c => session'[d] = session[d] /\ link'[d] = link[d]
         /\ \/ o = "ok" /\ link[c] = "ready" /\ link'[c] = "ready" /\ session'[c] = effect
            \/ /\ o = "lost" /\ link[c] = "ready" /\ link'[c] = "quit"
               /\ session'[c] = Closed(session[c])
            \/ o = "refused" /\ session'[c] = session[c] /\ link'[c] = link[c]
<1>1. session \in [Server -> SessionState] /\ link \in [Server -> {"alloced", "ready", "quit"}]
  BY DEF TypeOK
<1>2. Closed(session[c]) \in SessionState
  BY <1>1 DEF Closed, SessionState
<1>3. CASE o = "ok"
  BY <1>1, <1>3 DEF Send
<1>4. CASE o = "lost"
  BY <1>1, <1>2, <1>4 DEF Send
<1>5. CASE o = "refused"
  BY <1>1, <1>5 DEF Send
<1> QED
  BY <1>3, <1>4, <1>5 DEF Send

(* The effects of the statements are states of a session.                  *)
LEMMA Effects ==
  ASSUME NEW s \in SessionState
  PROVE  /\ Closed(s) \in SessionState /\ Executed(s) \in SessionState
         /\ \A mode \in BOOLEAN : WithAutocommit(s, mode) \in SessionState
         /\ \A mode \in {"none", "rw", "ro"} :
               [s EXCEPT !.trx = mode, !.dirty = FALSE] \in SessionState
  BY DEF Closed, Executed, WithAutocommit, SessionState

(* Without a transaction the plugin may pick another server.               *)
LEMMA Unpinned ==
  ASSUME NEW s \in Strategies
  PROVE  /\ NoTransaction(s) \in Strategies
         /\ ~NoTransaction(s).in_transaction /\ ~NoTransaction(s).trx_stop_switching
         /\ ~NoTransaction(s).trx_read_only
         /\ NoTransaction(s).trx_begin_required = s.trx_begin_required
         /\ NoTransaction(s).last_used_conn = s.last_used_conn
  BY DEF NoTransaction, Strategies

(* The connection that is returned is the last one used, and within a      *)
(* transaction there is no switching after it.                             *)
LEMMA Pinning ==
  ASSUME TypeOK
  PROVE  /\ Picked \in Strategies
         /\ Picked.in_transaction = stgy.in_transaction
         /\ Picked.trx_stop_switching = (stgy.trx_stop_switching \/ stgy.in_transaction)
         /\ Picked.trx_read_only = stgy.trx_read_only
         /\ Picked.trx_begin_required = stgy.trx_begin_required
         /\ Picked.trx_begin_mode = stgy.trx_begin_mode
         /\ Picked.last_used_conn = IF call.conn = None THEN Proxy ELSE call.conn
<1>1. stgy \in Strategies /\ call \in Call
  BY DEF TypeOK
<1>2. (IF call.conn = None THEN Proxy ELSE call.conn) \in Server \union {None}
  BY <1>1, Targets DEF Call
<1>3. (stgy.trx_stop_switching \/ stgy.in_transaction) \in BOOLEAN
  OBVIOUS
<1> QED
  BY <1>1, <1>2, <1>3 DEF Picked, Strategies

(* A begin only sets flags: BEGIN itself is still to be sent.              *)
LEMMA Beginning ==
  ASSUME NEW s \in Strategies, NEW mode \in {"rw", "ro"}
  PROVE  /\ Begun(s, mode) \in Strategies
         /\ Begun(s, mode).in_transaction /\ ~Begun(s, mode).trx_stop_switching
         /\ Begun(s, mode).trx_begin_required /\ Begun(s, mode).trx_begin_mode = mode
         /\ Begun(s, mode).trx_read_only = (mode = "ro")
         /\ Begun(s, mode).last_used_conn = s.last_used_conn
<1>1. (mode = "ro") \in BOOLEAN
  OBVIOUS
<1> QED
  BY <1>1 DEF Begun, Strategies

(* Autocommit turned on ends what the flags call a transaction, and turned *)
(* off begins one.                                                         *)
LEMMA Flagged ==
  ASSUME NEW s \in Strategies, NEW mode \in BOOLEAN
  PROVE  /\ Flags(s, mode) \in Strategies
         /\ mode => Flags(s, mode) = NoTransaction(s)
         /\ ~mode => /\ Flags(s, mode).in_transaction
                     /\ Flags(s, mode).trx_stop_switching = s.trx_stop_switching
                     /\ Flags(s, mode).trx_read_only = s.trx_read_only
                     /\ Flags(s, mode).trx_begin_required = s.trx_begin_required
                     /\ Flags(s, mode).trx_begin_mode = s.trx_begin_mode
                     /\ Flags(s, mode).last_used_conn = s.last_used_conn
<1>1. CASE mode
  BY <1>1, Unpinned DEF Flags
<1>2. CASE ~mode
  BY <1>2 DEF Flags, Strategies
<1> QED
  BY <1>1, <1>2

(* The end of a transaction releases the connection; with autocommit off   *)
(* the next statement begins another transaction.                          *)
LEMMA Releasing ==
  ASSUME TypeOK, NEW o
  PROVE  /\ AfterEnd(o) \in Strategies
         /\ o # "ok" => AfterEnd(o) = stgy
         /\ o = "ok" /\ ~off[Target] => AfterEnd(o) = NoTransaction(stgy)
         /\ o = "ok" /\ off[Target] =>
              /\ AfterEnd(o).in_transaction = stgy.in_transaction
              /\ AfterEnd(o).trx_stop_switching =
                   (stgy.trx_stop_switching /\ ~stgy.in_transaction)
              /\ AfterEnd(o).trx_read_only = stgy.trx_read_only
              /\ AfterEnd(o).trx_begin_required = stgy.trx_begin_required
              /\ AfterEnd(o).trx_begin_mode = stgy.trx_begin_mode
              /\ AfterEnd(o).last_used_conn = stgy.last_used_conn
<1>1. stgy \in Strategies /\ (stgy.trx_stop_switching /\ ~stgy.in_transaction) \in BOOLEAN
  BY DEF TypeOK
<1>2. CASE o # "ok"
  BY <1>1, <1>2 DEF AfterEnd
<1>3. CASE o = "ok" /\ ~off[Target]
  BY <1>1, <1>3, Unpinned DEF AfterEnd, Released
<1>4. CASE o = "ok" /\ off[Target]
  BY <1>1, <1>4 DEF AfterEnd, Released, Strategies
<1> QED
  BY <1>2, <1>3, <1>4

(* The filter tries another candidate.                                     *)
LEMMA Tried ==
  ASSUME TypeOK, NEW c \in Server, Another(c)
  PROVE  call' \in Call /\ call'.left = call.left \ {c} /\ call'.conn = c
<1>1. call \in Call /\ call.left \ {c} \in SUBSET Server /\ call.tries + 1 \in Nat
  BY DEF TypeOK, Call
<1> QED
  BY <1>1 DEF Another, Call

(* The filter returns the connection it has found.                         *)
LEMMA Returned ==
  ASSUME TypeOK, NEW c \in Server \union {None}, NEW good \in BOOLEAN, Return(c, good)
  PROVE  call' \in Call /\ call'.conn = c /\ call'.good = good
  BY DEF TypeOK, Return, Call

(* The filter starts with the whole list of candidates.                    *)
LEMMA Listing ==
  ASSUME NEW list \in SUBSET Server
  PROVE  /\ Candidates(list) \in Call
         /\ Candidates(list).left = list /\ Candidates(list).conn = None
  BY DEF Candidates, NoCall, Call

(* Within a transaction the filter has nothing to look for.                *)
LEMMA Nothing ==
  /\ NoCall \in Call /\ NoCall.conn = None
  /\ TypeOK => LET pinned == [NoCall EXCEPT !.conn = stgy.last_used_conn, !.good = TRUE]
               IN  pinned \in Call /\ pinned.conn = stgy.last_used_conn
  BY DEF TypeOK, NoCall, Call, Strategies

(* Autocommit is set on every connection, or on some of them.              *)
LEMMA OnAllTypes ==
  ASSUME TypeOK, NEW s \in Strategies, NEW ended, NEW gone, NEW mode \in BOOLEAN,
         SetOnAll(s, ended, gone, mode)
  PROVE  /\ link' \in [Server -> {"alloced", "ready", "quit"}]
         /\ session' \in [Server -> SessionState]
         /\ off' \in [Server -> BOOLEAN]
         /\ stgy' \in Strategies
         /\ app' \in Application
<1>1. PICK refused \in SUBSET Server, lost \in SUBSET Server :
        /\ link' = [c \in Server |-> IF c \in lost \union gone THEN "quit" ELSE link[c]]
        /\ session' = [c \in Server |->
             LET was == IF c \in ended \union lost \union gone
                        THEN Closed(session[c]) ELSE session[c]
             IN  IF c \in refused \/ link'[c] = "quit" THEN was ELSE WithAutocommit(was, mode)]
        /\ \/ /\ off' = [c \in Server |-> IF link'[c] = "quit" THEN off[c] ELSE ~mode]
              /\ stgy' = IF link'[Proxy] = "quit" THEN s ELSE Flags(s, mode)
              /\ app' = IF mode THEN [mode |-> "none", auto |-> "on", ran |-> {}, sound |-> TRUE]
                        ELSE IF app.auto = "on"
                        THEN [mode |-> "none", auto |-> "off", ran |-> {}, sound |-> TRUE]
                        ELSE app
           \/ /\ stgy' = s
              /\ app' = [app EXCEPT !.auto = "unknown", !.sound = FALSE]
              /\ UNCHANGED off
  BY DEF SetOnAll
<1>2. link' \in [Server -> {"alloced", "ready", "quit"}]
  BY <1>1 DEF TypeOK
<1>3. session' \in [Server -> SessionState]
  <2>1. ASSUME NEW c \in Server
        PROVE  /\ session[c] \in SessionState /\ Closed(session[c]) \in SessionState
               /\ WithAutocommit(session[c], mode) \in SessionState
               /\ WithAutocommit(Closed(session[c]), mode) \in SessionState
    <3>1. session[c] \in SessionState
      BY DEF TypeOK
    <3>2. Closed(session[c]) \in SessionState
      BY <3>1, Effects
    <3> QED
      BY <3>1, <3>2, Effects
  <2> QED
    BY <1>1, <2>1
<1>4. off' \in [Server -> BOOLEAN]
  BY <1>1 DEF TypeOK
<1>5. stgy' \in Strategies
  BY <1>1, Flagged
<1>6. app' \in Application
  <2>1. app \in Application
    BY DEF TypeOK
  <2>2. \A auto \in {"on", "off"} :
          [mode |-> "none", auto |-> auto, ran |-> {}, sound |-> TRUE] \in Application
    BY DEF Application
  <2>3. [app EXCEPT !.auto = "unknown", !.sound = FALSE] \in Application
    BY <2>1 DEF Application
  <2> QED
    BY <1>1, <2>1, <2>2, <2>3
<1> QED
  BY <1>2, <1>3, <1>4, <1>5, <1>6

(* No statement and no call takes a variable out of its type.              *)
LEMMA TypeStep ==
  ASSUME TypeOK, [Next]_vars
  PROVE  TypeOK'
<1>0. /\ TypeOK /\ stgy \in Strategies /\ call \in Call
      /\ Slave \in SUBSET Server /\ Master \in SUBSET Server
      /\ call.conn \in Server \union {None} /\ app \in Application
      /\ once \in [{"master", "slave"} -> Server \union {None}]
      /\ link \in [Server -> {"alloced", "ready", "quit"}]
  BY Targets DEF TypeOK, Call
<1>1. ASSUME NEW which \in {"slave", "master"}, NEW forced \in BOOLEAN, Query(which, forced)
      PROVE  TypeOK'
  <2>1. stgy' \in Strategies
    BY <1>0, <1>1 DEF Query, Strategies
  <2>2. call' \in Call
    BY <1>0, <1>1, Listing, Nothing DEF Query
  <2> QED
    BY <1>1, <2>1, <2>2 DEF Query, TypeOK
<1>2. ASSUME NEW role \in {"slave", "master"}, UseOnce(role) PROVE TypeOK'
  <2>1. call' \in Call /\ pc' = "return"
    BY <1>0, <1>2, Returned DEF UseOnce, Return
  <2> QED
    BY <1>2, <2>1 DEF UseOnce, TypeOK
<1>3. ASSUME NEW role \in {"slave", "master"}, Exhausted(role) PROVE TypeOK'
  <2>1. \/ ToMaster \/ Return(call.conn, FALSE) \/ Return(None, FALSE)
    BY <1>3 DEF Exhausted
  <2>2. call' \in Call /\ pc' \in {"master", "return"}
    BY <1>0, <2>1, Returned, Listing DEF ToMaster, Return
  <2> QED
    BY <1>3, <2>2 DEF Exhausted, TypeOK
<1>4. ASSUME NEW role \in {"slave", "master"}, NEW c \in Server, SkipFailed(role, c)
      PROVE  TypeOK'
  <2>1. call' \in Call /\ pc' = role /\ pc = role
    BY <1>0, <1>4, Tried DEF SkipFailed, Trying
  <2> QED
    BY <1>4, <2>1 DEF SkipFailed, TypeOK
<1>5. ASSUME NEW role \in {"slave", "master"}, NEW c \in Server, Use(role, c) PROVE TypeOK'
  <2>1. call' \in Call /\ pc' = "return"
    BY <1>0, <1>5, Returned DEF Use, Return
  <2> QED
    BY <1>5, <2>1 DEF Use, TypeOK
<1>6. ASSUME NEW role \in {"slave", "master"}, NEW c \in Server, ConnectFails(role, c)
      PROVE  TypeOK'
  <2>1. \/ (Another(c) /\ UNCHANGED pc) \/ ToMaster \/ Return(c, FALSE)
    BY <1>6 DEF ConnectFails
  <2>2. call' \in Call /\ pc' \in {"slave", "master", "return"}
    BY <1>0, <1>6, <2>1, Tried, Returned, Listing DEF ConnectFails, Trying, ToMaster, Return
  <2>3. stgy' \in Strategies
    BY <1>0, <1>6 DEF ConnectFails, Strategies
  <2> QED
    BY <1>6, <2>2, <2>3 DEF ConnectFails, TypeOK
<1>7. [app EXCEPT !.sound = @ /\ ~InTrx] \in Application
  BY <1>0 DEF Application
<1>8. CASE ReturnConnection
  <2>1. stgy' \in Strategies
    BY <1>8, Pinning DEF ReturnConnection
  <2>2. call' \in Call /\ app' \in Application /\ pc' \in {"run", "user"}
        /\ (pc' = "run" => call'.conn # None)
    BY <1>0, <1>7, <1>8, Nothing DEF ReturnConnection, Proceeds, Fails
  <2> QED
    BY <1>8, <2>1, <2>2 DEF ReturnConnection, TypeOK
<1>9. CASE SendBegin
  <2> DEFINE begun == [Picked EXCEPT !.trx_begin_required = FALSE, !.trx_begin_mode = "rw"]
             effect == [session[call.conn] EXCEPT !.trx = stgy.trx_begin_mode, !.dirty = FALSE]
  <2>1. call.conn \in Server
    BY <1>0, <1>9 DEF SendBegin, BeginDelayed
  <2>2. begun \in Strategies
    BY Pinning DEF Strategies
  <2>3. effect \in SessionState
    BY <1>0, <2>1, Effects DEF Strategies, TypeOK
  <2>4. PICK o : /\ Send(call.conn, o, effect)
                 /\ stgy' = IF o = "ok" THEN begun ELSE NoTransaction(begun)
                 /\ Proceeds(call.good /\ o = "ok")
    BY <1>9 DEF SendBegin
  <2> HIDE DEF begun, effect
  <2>5. /\ session' \in [Server -> SessionState]
        /\ link' \in [Server -> {"alloced", "ready", "quit"}]
    BY <2>1, <2>3, <2>4, Sent
  <2>6. stgy' \in Strategies
    BY <2>2, <2>4, Unpinned
  <2>7. call' \in Call /\ app' \in Application /\ pc' \in {"run", "user"}
        /\ (pc' = "run" => call'.conn # None)
    BY <1>0, <1>7, <1>9, <2>4, Nothing DEF SendBegin, BeginDelayed, Proceeds, Fails
  <2> QED
    BY <1>9, <2>5, <2>6, <2>7 DEF SendBegin, TypeOK
<1>10. CASE Run
  <2>1. call.conn \in Server /\ session[call.conn] \in SessionState
    BY <1>0, <1>10 DEF Run, TypeOK
  <2>2. PICK o : /\ Send(call.conn, o, Executed(session[call.conn]))
                 /\ IF o = "ok"
                    THEN /\ pc' = "user" /\ call' = NoCall
                         /\ app' = [app EXCEPT !.ran = IF InTrx THEN @ \union {call.conn} ELSE @]
                    ELSE Fails
    BY <1>10 DEF Run
  <2>3. /\ session' \in [Server -> SessionState]
        /\ link' \in [Server -> {"alloced", "ready", "quit"}]
    BY <2>1, <2>2, Sent, Effects
  <2>4. pc' = "user" /\ call' \in Call
    BY <2>2, Nothing DEF Fails
  <2>5. app' \in Application
    BY <1>0, <1>7, <2>1, <2>2 DEF Fails, Application
  <2> QED
    BY <1>10, <2>3, <2>4, <2>5 DEF Run, TypeOK
<1>11. ASSUME NEW o, EndOnServer(o)
       PROVE  /\ session' \in [Server -> SessionState]
              /\ link' \in [Server -> {"alloced", "ready", "quit"}]
  <2>1. Target \in Server /\ Closed(session[Target]) \in SessionState
    BY Targets, Effects DEF TypeOK
  <2> QED
    BY <1>11, <2>1, Sent DEF EndOnServer
<1>12. CASE CommitOrRollback
  <2>1. app' \in Application
    BY <1>0, <1>12 DEF CommitOrRollback, Application
  <2>2. stgy' \in Strategies
    BY <1>12, Releasing DEF CommitOrRollback
  <2> QED
    BY <1>11, <1>12, <2>1, <2>2 DEF CommitOrRollback, TypeOK
<1>13. ASSUME NEW mode \in {"rw", "ro"}, TxBegin(mode) PROVE TypeOK'
  <2>1. app' \in Application
    BY <1>0, <1>13 DEF TxBegin, Application
  <2>2. stgy' \in Strategies
    BY <1>0, <1>13, Releasing, Beginning DEF TxBegin
  <2>3. /\ session' \in [Server -> SessionState]
        /\ link' \in [Server -> {"alloced", "ready", "quit"}]
    BY <1>11, <1>13 DEF TxBegin, TypeOK
  <2> QED
    BY <1>13, <2>1, <2>2, <2>3 DEF TxBegin, TypeOK
<1>14. ASSUME NEW mode \in BOOLEAN, SetAutocommit(mode) PROVE TypeOK'
  <2>1. /\ link' \in [Server -> {"alloced", "ready", "quit"}]
        /\ session' \in [Server -> SessionState]
        /\ off' \in [Server -> BOOLEAN]
        /\ stgy' \in Strategies
        /\ app' \in Application
    <3>1. CASE \E o : /\ EndOnServer(o) /\ UNCHANGED <<stgy, off>>
                      /\ app' = [app EXCEPT !.auto = "unknown", !.sound = FALSE]
      BY <1>0, <1>11, <3>1 DEF TypeOK, Application
    <3>2. CASE \E s \in Strategies : \E ended, gone : SetOnAll(s, ended, gone, mode)
      BY <3>2, OnAllTypes
    <3>3. \A o : AfterEnd(o) \in Strategies
      BY Releasing
    <3> QED
      BY <1>0, <1>14, <3>1, <3>2, <3>3 DEF SetAutocommit
  <2> QED
    BY <1>14, <2>1 DEF SetAutocommit, TypeOK
<1>15. CASE UNCHANGED vars
  BY <1>15 DEF vars, TypeOK
<1> QED
  BY <1>1, <1>2, <1>3, <1>4, <1>5, <1>6, <1>8, <1>9, <1>10, <1>12, <1>13, <1>14, <1>15
     DEF Next

-----------------------------------------------------------------------------
(* What a step leaves alone that looks for a connection: the flags of the  *)
(* transaction.                                                            *)
SameFlags ==
  /\ stgy'.in_transaction = stgy.in_transaction
  /\ stgy'.trx_stop_switching = stgy.trx_stop_switching
  /\ stgy'.trx_read_only = stgy.trx_read_only
  /\ stgy'.trx_begin_required = stgy.trx_begin_required
  /\ stgy'.trx_begin_mode = stgy.trx_begin_mode
  /\ stgy'.last_used_conn = stgy.last_used_conn

(* A search for a connection changes nothing the transaction depends on.   *)
LEMMA Searching ==
  ASSUME Inv, SameFlags, UNCHANGED <<app, session, off>>,
         \A c \in Server : link'[c] = "alloced" => link[c] = "alloced"
  PROVE  FlagInv' /\ OpenInv' /\ WorkInv'
<1> USE DEF Inv, SameFlags
<1>1. FlagInv'
  BY DEF FlagInv
<1>2. OpenInv'
  <2>1. stgy.trx_stop_switching => stgy.last_used_conn \in Server
    BY DEF FlagInv, TypeOK, Strategies
  <2> QED
    BY <2>1 DEF OpenInv
<1>3. WorkInv'
  BY DEF WorkInv, Trusted, InTrx
<1> QED
  BY <1>1, <1>2, <1>3

(* The filter looks for a connection where it is allowed to.               *)
LEMMA FilterStep ==
  ASSUME Inv,
         \/ \E which \in {"slave", "master"}, forced \in BOOLEAN : Query(which, forced)
         \/ \E role \in {"slave", "master"} : UseOnce(role) \/ Exhausted(role)
         \/ \E role \in {"slave", "master"}, c \in Server :
              SkipFailed(role, c) \/ Use(role, c) \/ ConnectFails(role, c)
  PROVE  FlagInv' /\ OpenInv' /\ PickInv' /\ WorkInv'
<1>0. /\ TypeOK /\ PickInv /\ stgy \in Strategies /\ call \in Call
      /\ Slave \in SUBSET Server /\ Master \in SUBSET Server /\ None \notin Server
      /\ call.conn \in Server \union {None} /\ call.left \in SUBSET Server
      /\ once \in [{"master", "slave"} -> Server \union {None}]
      /\ link \in [Server -> {"alloced", "ready", "quit"}]
  BY Targets DEF Inv, TypeOK, Call
<1>1. ASSUME NEW which \in {"slave", "master"}, NEW forced \in BOOLEAN, Query(which, forced)
      PROVE  SameFlags /\ UNCHANGED <<app, session, off, link>> /\ PickInv'
  <2>1. SameFlags
    BY <1>0, <1>1 DEF Query, SameFlags, Strategies
  <2>2. CASE Which(which, forced) = "slave" /\ pc' = "slave"
    <3>1. ~stgy.trx_stop_switching /\ (stgy.in_transaction => stgy.trx_read_only)
      BY <1>0, <2>2 DEF Which, Pinned, Inv, FlagInv
    <3> QED
      BY <1>0, <1>1, <2>1, <2>2, <3>1 DEF Query, PickInv, SameFlags
  <2>3. CASE Which(which, forced) = "master" /\ pc' = "master" /\ call' = Candidates(Master)
    <3>1. ~stgy.trx_stop_switching
      BY <1>0, <2>3 DEF Which, Pinned, Inv, FlagInv
    <3> QED
      BY <1>0, <1>1, <2>1, <2>3, <3>1, Listing DEF Query, PickInv, SameFlags
  <2>4. CASE /\ Which(which, forced) = "last_used" /\ pc' = "return"
             /\ call' = [NoCall EXCEPT !.conn = stgy.last_used_conn, !.good = TRUE]
    <3>1. stgy.trx_stop_switching /\ call'.conn = stgy.last_used_conn
      BY <1>0, <2>4, Nothing DEF Which, Pinned
    <3> QED
      BY <1>0, <1>1, <2>1, <2>4, <3>1 DEF Query, PickInv, SameFlags
  <2> QED
    BY <1>1, <2>1, <2>2, <2>3, <2>4 DEF Query
<1>2. ASSUME NEW role \in {"slave", "master"}, UseOnce(role)
      PROVE  SameFlags /\ UNCHANGED <<app, session, off, link>> /\ PickInv'
  <2>1. pc' = "return" /\ call'.conn = once[role] /\ pc = role /\ UNCHANGED <<stgy, once>>
    BY <1>0, <1>2, Returned DEF UseOnce, Return
  <2> QED
    BY <1>0, <1>2, <2>1 DEF UseOnce, PickInv, SameFlags
<1>3. ASSUME NEW role \in {"slave", "master"}, Exhausted(role)
      PROVE  SameFlags /\ UNCHANGED <<app, session, off, link>> /\ PickInv'
  <2>1. \/ ToMaster \/ Return(call.conn, FALSE) \/ Return(None, FALSE)
    BY <1>3 DEF Exhausted
  <2>2. CASE ToMaster
    <3>1. pc' = "master" /\ call'.left = Master /\ call'.conn = None
      BY <1>0, <2>2, Listing DEF ToMaster
    <3> QED
      BY <1>0, <1>3, <3>1 DEF Exhausted, PickInv, SameFlags
  <2>3. CASE Return(call.conn, FALSE) \/ Return(None, FALSE)
    <3>1. pc' = "return" /\ call'.conn \in {None, call.conn}
      BY <1>0, <2>3, Returned DEF Return
    <3> QED
      BY <1>0, <1>3, <3>1 DEF Exhausted, PickInv, SameFlags
  <2> QED
    BY <2>1, <2>2, <2>3
<1>4. ASSUME NEW role \in {"slave", "master"}, NEW c \in Server, SkipFailed(role, c)
      PROVE  SameFlags /\ UNCHANGED <<app, session, off, link>> /\ PickInv'
  <2>1. /\ pc' = role /\ pc = role /\ c \in call.left
        /\ call'.left = call.left \ {c} /\ call'.conn = c
    BY <1>0, <1>4, Tried DEF SkipFailed, Trying
  <2> QED
    BY <1>0, <1>4, <2>1 DEF SkipFailed, PickInv, SameFlags
<1>5. ASSUME NEW role \in {"slave", "master"}, NEW c \in Server, Use(role, c)
      PROVE  /\ SameFlags /\ UNCHANGED <<app, session, off>> /\ PickInv'
             /\ \A d \in Server : link'[d] = "alloced" => link[d] = "alloced"
  <2>1. /\ pc' = "return" /\ pc = role /\ c \in call.left /\ call'.conn = c
        /\ \/ once' = once \/ once' = [once EXCEPT ![role] = c]
    BY <1>0, <1>5, Returned DEF Use, Trying, Return
  <2> QED
    BY <1>0, <1>5, <2>1 DEF Use, PickInv, SameFlags
<1>6. ASSUME NEW role \in {"slave", "master"}, NEW c \in Server, ConnectFails(role, c)
      PROVE  SameFlags /\ UNCHANGED <<app, session, off, link>> /\ PickInv'
  <2>1. SameFlags
    BY <1>0, <1>6 DEF ConnectFails, SameFlags, Strategies
  <2>2. pc = role /\ c \in call.left /\ UNCHANGED once
    BY <1>6 DEF ConnectFails, Trying
  <2>3. CASE Another(c) /\ UNCHANGED pc
    <3>1. call'.left = call.left \ {c} /\ call'.conn = c
      BY <1>0, <2>3, Tried
    <3> QED
      BY <1>0, <2>1, <2>2, <2>3, <3>1, <1>6 DEF ConnectFails, PickInv, SameFlags
  <2>4. CASE ToMaster
    <3>1. pc' = "master" /\ call'.left = Master /\ call'.conn = None
      BY <1>0, <2>4, Listing DEF ToMaster
    <3> QED
      BY <1>0, <2>1, <2>2, <3>1, <1>6 DEF ConnectFails, PickInv, SameFlags
  <2>5. CASE Return(c, FALSE)
    <3>1. pc' = "return" /\ call'.conn = c
      BY <1>0, <2>5, Returned DEF Return
    <3> QED
      BY <1>0, <2>1, <2>2, <3>1, <1>6 DEF ConnectFails, PickInv, SameFlags
  <2> QED
    BY <1>6, <2>1, <2>3, <2>4, <2>5 DEF ConnectFails
<1> QED
  BY <1>1, <1>2, <1>3, <1>4, <1>5, <1>6, Searching

(* What an answer to the application does to what it knows.                *)
LEMMA Knowledge ==
  ASSUME TypeOK
  PROVE  LET a == [app EXCEPT !.sound = @ /\ ~InTrx]
         IN  /\ a \in Application /\ a.mode = app.mode /\ a.auto = app.auto
             /\ a.ran = app.ran /\ a.sound = (app.sound /\ ~InTrx)
<1>1. app \in Application /\ (app.sound /\ ~InTrx) \in BOOLEAN
  BY DEF TypeOK
<1> QED
  BY <1>1 DEF Application

(* A connection is returned without a BEGIN: either none was found, or no  *)
(* transaction waits for its BEGIN.                                        *)
LEMMA ReturnStep ==
  ASSUME Inv, ReturnConnection
  PROVE  FlagInv' /\ OpenInv' /\ PickInv' /\ WorkInv'
<1> DEFINE failed == [app EXCEPT !.sound = @ /\ ~InTrx]
<1>0. /\ TypeOK /\ FlagInv /\ OpenInv /\ PickInv /\ WorkInv
      /\ stgy \in Strategies /\ call \in Call /\ app \in Application
      /\ Proxy \in Master /\ None \notin Server /\ Master \subseteq Server
      /\ call.conn \in Server \union {None}
      /\ session \in [Server -> SessionState]
  BY Targets DEF Inv, TypeOK, Call
<1>1. /\ pc = "return" /\ stgy' = Picked /\ UNCHANGED <<off, link, once, session>>
      /\ ~(call.conn # None /\ stgy.in_transaction /\ stgy.trx_begin_required)
      /\ \/ /\ call.conn # None /\ pc' = "run" /\ UNCHANGED <<call, app>>
         \/ pc' = "user" /\ app' = failed
  BY DEF ReturnConnection, BeginDelayed, Proceeds, Fails
<1>2. /\ stgy'.in_transaction = stgy.in_transaction
      /\ stgy'.trx_stop_switching = (stgy.trx_stop_switching \/ stgy.in_transaction)
      /\ stgy'.trx_read_only = stgy.trx_read_only
      /\ stgy'.trx_begin_required = stgy.trx_begin_required
      /\ stgy'.trx_begin_mode = stgy.trx_begin_mode
      /\ stgy'.last_used_conn = IF call.conn = None THEN Proxy ELSE call.conn
  BY <1>0, <1>1, Pinning
<1>3. /\ failed \in Application /\ failed.mode = app.mode /\ failed.auto = app.auto
      /\ failed.ran = app.ran /\ failed.sound = (app.sound /\ ~InTrx)
  BY <1>0, Knowledge
<1> HIDE DEF failed
<1>4. /\ app'.mode = app.mode /\ app'.auto = app.auto /\ app'.ran = app.ran
      /\ app'.sound => app.sound
      /\ app'.sound /\ InTrx => call.conn # None
  BY <1>1, <1>3
<1>5. stgy.trx_stop_switching => stgy'.last_used_conn = stgy.last_used_conn
  BY <1>0, <1>1, <1>2 DEF PickInv, FlagInv
<1>6. FlagInv'
  BY <1>0, <1>1, <1>2, <1>4 DEF FlagInv
<1>7. OpenInv'
  BY <1>0, <1>1, <1>2, <1>4, <1>5 DEF OpenInv, FlagInv
<1>8. PickInv'
  BY <1>0, <1>1, <1>2, <1>5 DEF PickInv, FlagInv
<1>9. WorkInv'
  BY <1>0, <1>1, <1>2, <1>4, <1>5 DEF WorkInv, FlagInv, OpenInv, Trusted, InTrx
<1> QED
  BY <1>6, <1>7, <1>8, <1>9

(* BEGIN reaches the server that was picked, and no other one has a        *)
(* transaction open; or it does not, and the application is told.          *)
LEMMA BeginStep ==
  ASSUME Inv, SendBegin
  PROVE  FlagInv' /\ OpenInv' /\ PickInv' /\ WorkInv'
<1> DEFINE failed == [app EXCEPT !.sound = @ /\ ~InTrx]
           begun == [Picked EXCEPT !.trx_begin_required = FALSE, !.trx_begin_mode = "rw"]
           c == call.conn
           effect == [session[c] EXCEPT !.trx = stgy.trx_begin_mode, !.dirty = FALSE]
<1>0. /\ TypeOK /\ FlagInv /\ OpenInv /\ PickInv /\ WorkInv
      /\ stgy \in Strategies /\ call \in Call /\ app \in Application
      /\ None \notin Server /\ Master \subseteq Server
      /\ session \in [Server -> SessionState]
      /\ link \in [Server -> {"alloced", "ready", "quit"}]
  BY Targets DEF Inv, TypeOK, Call
<1>1. /\ c \in Server /\ stgy.in_transaction /\ stgy.trx_begin_required /\ pc = "return"
      /\ UNCHANGED <<off, once>>
  BY <1>0 DEF SendBegin, BeginDelayed, Call
<1>2. /\ effect \in SessionState /\ effect.trx = stgy.trx_begin_mode /\ ~effect.dirty
      /\ effect.autocommit = session[c].autocommit
  BY <1>0, <1>1, ZenonT(30) DEF SessionState, Strategies
<1>3. /\ begun \in Strategies /\ begun.in_transaction /\ begun.trx_stop_switching
      /\ begun.trx_read_only = stgy.trx_read_only /\ ~begun.trx_begin_required
      /\ begun.last_used_conn = c
  BY <1>0, <1>1, Pinning DEF Strategies
<1>4. /\ failed \in Application /\ failed.mode = app.mode /\ failed.auto = app.auto
      /\ failed.ran = app.ran /\ failed.sound = (app.sound /\ ~InTrx)
  BY <1>0, Knowledge
<1>5. PICK o : /\ Send(c, o, effect)
               /\ stgy' = IF o = "ok" THEN begun ELSE NoTransaction(begun)
               /\ \/ /\ o = "ok" /\ pc' = "run" /\ UNCHANGED <<call, app>>
                  \/ pc' = "user" /\ app' = failed
  BY DEF SendBegin, Proceeds, Fails
<1> HIDE DEF failed, begun, effect
<1>6. /\ ~NoTransaction(begun).in_transaction /\ ~NoTransaction(begun).trx_stop_switching
      /\ ~NoTransaction(begun).trx_read_only /\ ~NoTransaction(begun).trx_begin_required
      /\ NoTransaction(begun).last_used_conn = c
  BY <1>3, Unpinned
<1>7. /\ \A d \in Server : d # c => session'[d] = session[d] /\ link'[d] = link[d]
      /\ \/ o = "ok" /\ link[c] = "ready" /\ link'[c] = "ready" /\ session'[c] = effect
         \/ /\ o = "lost" /\ link'[c] = "quit" /\ session'[c] = Closed(session[c])
         \/ o = "refused" /\ session'[c] = session[c] /\ link'[c] = link[c]
  BY <1>0, <1>1, <1>2, <1>5, Sent
<1>8. /\ Closed(session[c]).trx = "none" /\ ~Closed(session[c]).dirty
      /\ Closed(session[c]).autocommit = session[c].autocommit
  BY <1>0, <1>1 DEF Closed, SessionState
<1>9. /\ app.mode # "none" /\ app.auto = "on" /\ InTrx /\ app.ran = {}
      /\ stgy.trx_begin_mode = app.mode
      /\ \A d \in Server : session[d].autocommit /\ session[d].trx = "none" /\ ~session[d].dirty
  BY <1>0, <1>1 DEF FlagInv, OpenInv, InTrx
<1>10. /\ app'.mode = app.mode /\ app'.auto = app.auto /\ app'.ran = app.ran
       /\ app'.sound => o = "ok"
  BY <1>4, <1>5, <1>9
<1>11. /\ \A d \in Server : session'[d].autocommit /\ ~session'[d].dirty
       /\ \A d \in Server : d # c \/ o # "ok" => session'[d].trx = "none"
       /\ o = "ok" => session'[c].trx = app.mode
  BY <1>2, <1>7, <1>8, <1>9
<1>12. FlagInv'
  BY <1>0, <1>1, <1>3, <1>5, <1>6, <1>9, <1>10, <1>11 DEF FlagInv
<1>13. OpenInv'
  BY <1>0, <1>1, <1>3, <1>5, <1>6, <1>7, <1>9, <1>10, <1>11 DEF OpenInv
<1>14. PickInv'
  BY <1>0, <1>1, <1>3, <1>5, <1>6 DEF PickInv
<1>15. WorkInv'
  BY <1>1, <1>3, <1>5, <1>9, <1>10, <1>11 DEF WorkInv, Trusted, InTrx
<1> QED
  BY <1>12, <1>13, <1>14, <1>15

(* The statement itself, on the connection that was used last.             *)
LEMMA RunStep ==
  ASSUME Inv, Run
  PROVE  FlagInv' /\ OpenInv' /\ PickInv' /\ WorkInv'
<1> DEFINE failed == [app EXCEPT !.sound = @ /\ ~InTrx]
           ran == [app EXCEPT !.ran = IF InTrx THEN @ \union {call.conn} ELSE @]
           c == call.conn
           s == session[c]
<1>0. /\ TypeOK /\ FlagInv /\ OpenInv /\ PickInv /\ WorkInv
      /\ stgy \in Strategies /\ call \in Call /\ app \in Application
      /\ None \notin Server /\ Master \subseteq Server
      /\ session \in [Server -> SessionState]
      /\ link \in [Server -> {"alloced", "ready", "quit"}]
  BY Targets DEF Inv, TypeOK, Call
<1>1. /\ c \in Server /\ pc = "run" /\ c = stgy.last_used_conn
      /\ stgy.in_transaction => stgy.trx_stop_switching /\ ~stgy.trx_begin_required
      /\ UNCHANGED <<stgy, off, once>> /\ pc' = "user"
  BY <1>0 DEF Run, Fails, TypeOK, Call, PickInv
<1>2. /\ Executed(s) \in SessionState /\ Executed(s).autocommit = s.autocommit
      /\ Executed(s).trx = IF s.trx = "none" /\ ~s.autocommit THEN "rw" ELSE s.trx
      /\ s.trx = "none" /\ s.autocommit => Executed(s) = s
      /\ Executed(s).dirty => Executed(s).trx = "rw" \/ s.dirty
  BY <1>0, <1>1, ZenonT(30) DEF Executed, SessionState
<1>3. /\ failed \in Application /\ failed.mode = app.mode /\ failed.auto = app.auto
      /\ failed.ran = app.ran /\ failed.sound = (app.sound /\ ~InTrx)
  BY <1>0, Knowledge
<1>4. /\ ran.mode = app.mode /\ ran.auto = app.auto /\ ran.sound = app.sound
      /\ ran.ran = IF InTrx THEN app.ran \union {c} ELSE app.ran
  BY <1>0 DEF Application
<1>5. PICK o : Send(c, o, Executed(s)) /\ (IF o = "ok" THEN app' = ran ELSE app' = failed)
  <2>1. PICK o : /\ Send(c, o, Executed(s))
                 /\ IF o = "ok"
                    THEN /\ pc' = "user" /\ call' = NoCall
                         /\ app' = ran
                    ELSE Fails
    BY DEF Run
  <2>2. IF o = "ok" THEN app' = ran ELSE app' = failed
    BY <2>1 DEF Fails
  <2> QED
    BY <2>1, <2>2
<1> HIDE DEF failed, ran
<1>6. /\ \A d \in Server : d # c => session'[d] = session[d] /\ link'[d] = link[d]
      /\ \/ o = "ok" /\ link[c] = "ready" /\ link'[c] = "ready" /\ session'[c] = Executed(s)
         \/ /\ o = "lost" /\ link'[c] = "quit" /\ session'[c] = Closed(s)
         \/ o = "refused" /\ session'[c] = s /\ link'[c] = link[c]
  BY <1>0, <1>1, <1>2, <1>5, Sent
<1>7. Closed(s).trx = "none" /\ ~Closed(s).dirty /\ Closed(s).autocommit = s.autocommit
  BY <1>0, <1>1 DEF Closed, SessionState
<1>8. \A d \in Server :
        /\ session'[d].autocommit = session[d].autocommit
        /\ session'[d].trx # "none" =>
              session[d].trx # "none" \/ (d = c /\ ~session[d].autocommit)
        /\ session'[d].trx \in {session[d].trx, "none", "rw"}
        /\ session'[d].trx = "ro" => session[d].trx = "ro"
        /\ session'[d].dirty => session'[d].trx = "rw"
  <2>1. ASSUME NEW d \in Server, d # c PROVE session'[d] = session[d]
    BY <1>6, <2>1
  <2>2. s.dirty => s.trx = "rw"
    BY <1>0, <1>1 DEF OpenInv
  <2>3. /\ session'[c].autocommit = s.autocommit
        /\ session'[c].trx # "none" => s.trx # "none" \/ ~s.autocommit
        /\ session'[c].trx \in {s.trx, "none", "rw"}
        /\ session'[c].dirty => session'[c].trx = "rw"
    <3>1. CASE session'[c] = Executed(s)
      BY <1>2, <2>2, <3>1
    <3>2. CASE session'[c] = Closed(s)
      BY <1>7, <3>2
    <3>3. CASE session'[c] = s
      BY <2>2, <3>3
    <3> QED
      BY <1>6, <3>1, <3>2, <3>3
  <2> QED
    BY <1>0, <2>1, <2>3 DEF OpenInv
<1>9. /\ app'.mode = app.mode /\ app'.auto = app.auto
      /\ app'.sound => app.sound
      /\ app'.ran = IF o = "ok" /\ InTrx THEN app.ran \union {c} ELSE app.ran
      /\ app'.sound /\ InTrx => o = "ok"
  BY <1>3, <1>4, <1>5
<1>10. FlagInv'
  BY <1>0, <1>1, <1>8, <1>9 DEF FlagInv, InTrx
<1>11. OpenInv'
  BY <1>0, <1>1, <1>6, <1>7, <1>8, <1>9 DEF OpenInv, FlagInv
<1>12. PickInv'
  BY <1>0, <1>1 DEF PickInv
<1>13. WorkInv'
  <2> SUFFICES ASSUME Trusted' PROVE WorkInv'
    BY DEF WorkInv
  <2>1. Trusted /\ (InTrx => o = "ok")
    BY <1>9 DEF Trusted
  <2>2. CASE ~InTrx
    <3>1. \A d \in Server : session[d].autocommit /\ session[d].trx = "none"
      BY <1>0, <2>1, <2>2 DEF FlagInv, OpenInv, Trusted, InTrx, Application
    <3>2. \A d \in Server : session'[d].trx = "none" /\ ~session'[d].dirty
      BY <1>0, <1>1, <1>2, <1>6, <1>7, <3>1 DEF OpenInv
    <3> QED
      BY <1>0, <1>1, <1>9, <2>1, <2>2, <3>2 DEF WorkInv, InTrx
  <2>3. CASE InTrx
    <3>1. stgy.in_transaction /\ stgy.trx_stop_switching /\ ~stgy.trx_begin_required
      BY <1>0, <1>1, <2>1, <2>3 DEF FlagInv, InTrx, Trusted
    <3>2. app'.ran = {c} /\ c = stgy'.last_used_conn
      BY <1>0, <1>1, <1>9, <2>1, <2>3 DEF WorkInv
    <3>3. app.mode # "none" => session'[c].trx = app.mode
      BY <1>0, <1>1, <1>2, <1>6, <2>1, <2>3, <3>1 DEF WorkInv
    <3>4. app.auto = "off" => session'[c].trx = "rw"
      <4>1. app.auto = "off" => ~s.autocommit /\ s.trx \in {"none", "rw"}
        BY <1>0, <1>1 DEF FlagInv, OpenInv, SessionState
      <4> QED
        BY <1>2, <1>6, <2>1, <2>3, <4>1
    <3>5. \A d \in Server : session'[d].dirty => d \in app'.ran
      BY <1>0, <1>6, <1>9, <2>1, <3>2 DEF WorkInv
    <3> QED
      BY <1>1, <1>9, <2>3, <3>1, <3>2, <3>3, <3>4, <3>5 DEF WorkInv, InTrx
  <2> QED
    BY <2>2, <2>3
<1> QED
  BY <1>10, <1>11, <1>12, <1>13

(* What the end of a transaction leaves of a server's session, and what it *)
(* leaves of all of them if it succeeds.                                   *)
Ended(d) ==
  /\ session'[d].autocommit = session[d].autocommit
  /\ session'[d].trx \in {session[d].trx, "none"}
  /\ session'[d].dirty => session[d].dirty /\ session'[d].trx = "rw"
  /\ (link'[d] = "alloced") <=> (link[d] = "alloced")

AllEnded ==
  \A d \in Server : (session[d].autocommit \/ app.auto = "off") =>
    session'[d].trx = "none" /\ ~session'[d].dirty

(* The end of a transaction reaches the one server that has it open.       *)
LEMMA Ending ==
  ASSUME Inv, NEW o \in EndOutcome, EndOnServer(o)
  PROVE  /\ \A d \in Server : Ended(d)
         /\ Succeeds(o) => AllEnded
         /\ o = "skipped" => link[Target] = "alloced" /\ UNCHANGED session
<1>0. /\ TypeOK /\ OpenInv /\ FlagInv
      /\ Target \in Server /\ None \notin Server
      /\ session \in [Server -> SessionState]
      /\ link \in [Server -> {"alloced", "ready", "quit"}]
  BY Targets DEF Inv, TypeOK
<1>1. /\ Closed(session[Target]).trx = "none" /\ ~Closed(session[Target]).dirty
      /\ Closed(session[Target]).autocommit = session[Target].autocommit
      /\ Closed(session[Target]) \in SessionState
  BY <1>0 DEF Closed, SessionState
<1>2. /\ \A d \in Server : d # Target => session'[d] = session[d] /\ link'[d] = link[d]
      /\ \/ /\ o \in {"ok", "not_injected"} /\ link[Target] = "ready" /\ link'[Target] = "ready"
            /\ session'[Target] = Closed(session[Target])
         \/ /\ o = "lost" /\ link[Target] = "ready" /\ link'[Target] = "quit"
            /\ session'[Target] = Closed(session[Target])
         \/ /\ o \in {"refused", "skipped"} /\ session'[Target] = session[Target]
            /\ link'[Target] = link[Target]
      /\ session' \in [Server -> SessionState]
  BY <1>0, <1>1, Sent DEF EndOnServer
<1>3. o = "skipped" => link[Target] = "alloced" /\ UNCHANGED session
  <2>1. o = "skipped" => link[Target] = "alloced"
    BY DEF EndOutcome, Answers, Outcome
  <2>2. o = "skipped" => \A d \in Server : session'[d] = session[d]
    BY <1>2
  <2> QED
    BY <1>0, <1>2, <2>1, <2>2
<1>4. \A d \in Server : Ended(d)
  BY <1>0, <1>1, <1>2 DEF OpenInv, Ended
<1>5. ASSUME NEW d \in Server, session[d].autocommit \/ app.auto = "off", Succeeds(o)
      PROVE  session'[d].trx = "none"
  <2>1. session[d].trx # "none" => d = Target
    BY <1>0, <1>5 DEF OpenInv, Target
  <2>2. CASE d # Target
    BY <1>2, <2>1, <2>2
  <2>3. CASE d = Target
    BY <1>0, <1>1, <1>2, <1>3, <1>5, <2>3 DEF OpenInv, Succeeds
  <2> QED
    BY <2>2, <2>3
<1> QED
  BY <1>3, <1>4, <1>5 DEF Ended, AllEnded

(* What is assumed of the application: it calls begin, autocommit, commit  *)
(* and rollback in turn, and opens a new handle when a connection breaks;  *)
(* and of the plugin, that it does not hide a failure (revealed).          *)
Disciplined == {"flat", "nonempty", "reopen", "revealed"} \subseteq Discipline

(* Commit and rollback, if they succeed, leave no transaction behind.      *)
LEMMA CommitStep ==
  ASSUME Inv, CommitOrRollback, Disciplined
  PROVE  FlagInv' /\ OpenInv' /\ PickInv' /\ WorkInv'
<1>0. /\ TypeOK /\ FlagInv /\ OpenInv /\ PickInv /\ WorkInv
      /\ stgy \in Strategies /\ call \in Call /\ app \in Application
      /\ Target \in Server /\ None \notin Server
      /\ session \in [Server -> SessionState]
      /\ link \in [Server -> {"alloced", "ready", "quit"}]
  BY Targets DEF Inv, TypeOK
<1>1. /\ pc = "user" /\ InTrx /\ ~stgy.trx_begin_required
      /\ UNCHANGED <<off, once, pc, call>>
  BY DEF CommitOrRollback, Calls, Disciplined
<1>2. PICK o \in EndOutcome :
        /\ EndOnServer(o)
        /\ stgy' = AfterEnd(o)
        /\ app' = IF Succeeds(o)
                  THEN [app EXCEPT !.mode = "none", !.ran = {}, !.sound = TRUE]
                  ELSE [app EXCEPT !.sound = FALSE]
  BY DEF CommitOrRollback
<1>3. /\ app'.auto = app.auto
      /\ Succeeds(o) => app'.mode = "none" /\ app'.ran = {}
      /\ ~Succeeds(o) => app'.mode = app.mode /\ app'.ran = app.ran /\ ~app'.sound
  BY <1>0, <1>2 DEF Application
<1>4. app.auto = "on" => app.mode # "none"
  BY <1>0, <1>1 DEF InTrx, Application
<1>5. CASE o = "ok"
  <2>1. Succeeds(o)
    BY <1>5 DEF Succeeds
  <2>2. /\ app.auto = "on" => ~off[Target]
        /\ app.auto = "off" => off[Target]
    BY <1>0 DEF FlagInv
  <2>3. /\ ~stgy'.trx_begin_required
        /\ stgy'.in_transaction => stgy.in_transaction /\ off[Target]
        /\ off[Target] => stgy'.in_transaction = stgy.in_transaction
        /\ ~stgy'.trx_stop_switching
        /\ stgy'.trx_read_only => stgy.trx_read_only /\ off[Target]
    BY <1>0, <1>1, <1>2, <1>5, Releasing, Unpinned, ZenonT(30) DEF FlagInv
  <2>4. app.auto = "off" => app.mode = "none"
    BY <1>0 DEF FlagInv
  <2>5. AllEnded /\ \A d \in Server : Ended(d)
    BY <1>2, <2>1, Ending
  <2>6. FlagInv'
    BY <1>0, <1>1, <1>3, <1>4, <2>1, <2>2, <2>3, <2>4, <2>5 DEF FlagInv, Ended, AllEnded
  <2>7. OpenInv'
    BY <1>0, <1>3, <2>1, <2>3, <2>5 DEF OpenInv, Ended, AllEnded
  <2>8. PickInv'
    BY <1>0, <1>1, <2>3 DEF PickInv
  <2>9. WorkInv'
    BY <1>0, <1>3, <2>1, <2>3, <2>5 DEF Ended, AllEnded, WorkInv, Trusted, FlagInv, Application
  <2> QED
    BY <2>6, <2>7, <2>8, <2>9
<1>6. CASE o # "ok"
  <2>1. stgy' = stgy
    BY <1>2, <1>6 DEF AfterEnd
  <2>2. (Succeeds(o) => AllEnded) /\ \A d \in Server : Ended(d)
    BY <1>2, Ending
  <2>3. Succeeds(o) => link[Target] = "alloced"
    BY <1>2, <1>6, Ending DEF Succeeds
  <2>4. Succeeds(o) /\ app.mode # "none" => ~stgy.in_transaction
    <3>1. stgy.last_used_conn # None => Target = stgy.last_used_conn
      BY DEF Target
    <3> QED
      BY <1>0, <1>1, <2>3, <3>1 DEF OpenInv, FlagInv
  <2>5. FlagInv'
    BY <1>0, <1>1, <1>3, <1>4, <2>1, <2>2, <2>4 DEF FlagInv, Ended, AllEnded
  <2>6. OpenInv'
    <3>1. stgy.trx_stop_switching => stgy.last_used_conn \in Server
      BY <1>0 DEF FlagInv, Strategies
    <3> QED
      BY <1>0, <1>3, <2>1, <2>2, <3>1 DEF OpenInv, Ended, AllEnded
  <2>7. PickInv'
    BY <1>0, <1>1, <2>1 DEF PickInv
  <2>8. WorkInv'
    BY <1>0, <1>3, <2>1, <2>2 DEF Ended, AllEnded, WorkInv, Trusted, FlagInv, Application
  <2> QED
    BY <2>5, <2>6, <2>7, <2>8
<1> QED
  BY <1>5, <1>6

(* A transaction that begins when nothing is open.                         *)
LEMMA FreshTransaction ==
  ASSUME Inv, NEW s \in Strategies, NEW mode \in {"rw", "ro"}, stgy' = Begun(s, mode),
         app' = [app EXCEPT !.mode = mode, !.ran = {}, !.sound = TRUE],
         app.auto = "on", pc = "user", UNCHANGED <<off, once, pc, call>>,
         \A d \in Server : /\ session'[d].autocommit /\ ~session'[d].dirty
                           /\ session'[d].trx = "none"
  PROVE  FlagInv' /\ OpenInv' /\ PickInv' /\ WorkInv'
<1>0. FlagInv /\ PickInv /\ app \in Application /\ None \notin Server
  BY Targets DEF Inv, TypeOK
<1>1. app'.mode = mode /\ app'.auto = "on" /\ app'.ran = {}
  BY <1>0 DEF Application
<1>2. /\ stgy'.in_transaction /\ ~stgy'.trx_stop_switching /\ stgy'.trx_begin_required
      /\ stgy'.trx_begin_mode = mode /\ stgy'.trx_read_only = (mode = "ro")
  BY Beginning
<1>3. FlagInv'
  BY <1>0, <1>1, <1>2 DEF FlagInv
<1>4. OpenInv'
  BY <1>1, <1>2 DEF OpenInv
<1>5. PickInv'
  BY <1>0, <1>2 DEF PickInv
<1>6. WorkInv'
  BY <1>1, <1>2 DEF WorkInv
<1> QED
  BY <1>3, <1>4, <1>5, <1>6

(* A begin finds no transaction open, or ends it first.                    *)
LEMMA TxBeginStep ==
  ASSUME Inv, Disciplined, NEW mode \in {"rw", "ro"}, TxBegin(mode)
  PROVE  FlagInv' /\ OpenInv' /\ PickInv' /\ WorkInv'
<1>0. /\ TypeOK /\ FlagInv /\ OpenInv /\ PickInv /\ WorkInv
      /\ stgy \in Strategies /\ app \in Application /\ Target \in Server
  BY Targets DEF Inv, TypeOK
<1>1. /\ pc = "user" /\ app.auto = "on" /\ (app.mode = "none" \/ conf.gtid)
      /\ UNCHANGED <<off, once, pc, call>>
  BY DEF TxBegin, Calls, Disciplined
<1>2. \A d \in Server : session[d].autocommit
  BY <1>0, <1>1 DEF FlagInv
<1>3. CASE /\ ~(conf.gtid /\ stgy.in_transaction) /\ UNCHANGED <<link, session>>
           /\ stgy' = Begun(stgy, mode)
           /\ app' = [app EXCEPT !.mode = mode, !.ran = {}, !.sound = TRUE]
  <2>1. ~stgy.in_transaction /\ ~stgy.trx_stop_switching
    BY <1>0, <1>1, <1>3 DEF FlagInv
  <2>2. \A d \in Server : session[d].trx = "none" /\ ~session[d].dirty
    BY <1>0, <1>2, <2>1 DEF OpenInv
  <2> QED
    BY <1>0, <1>1, <1>2, <1>3, <2>2, FreshTransaction
<1>4. ASSUME NEW o \in EndOutcome, EndOnServer(o), Succeeds(o), stgy' = Begun(AfterEnd(o), mode),
             app' = [app EXCEPT !.mode = mode, !.ran = {}, !.sound = TRUE]
      PROVE  FlagInv' /\ OpenInv' /\ PickInv' /\ WorkInv'
  <2>1. AllEnded /\ \A d \in Server : Ended(d)
    BY <1>4, Ending
  <2>2. \A d \in Server : /\ session'[d].autocommit /\ ~session'[d].dirty
                          /\ session'[d].trx = "none"
    BY <1>2, <2>1 DEF AllEnded, Ended
  <2>3. AfterEnd(o) \in Strategies
    BY <1>0, Releasing
  <2> QED
    BY <1>1, <1>4, <2>2, <2>3, FreshTransaction
<1>5. ASSUME NEW o \in EndOutcome, EndOnServer(o), stgy' = stgy,
             app' = [app EXCEPT !.sound = FALSE]
      PROVE  FlagInv' /\ OpenInv' /\ PickInv' /\ WorkInv'
  <2>1. \A d \in Server : Ended(d)
    BY <1>5, Ending
  <2>2. app'.mode = app.mode /\ app'.auto = app.auto /\ app'.ran = app.ran /\ ~app'.sound
    BY <1>0, <1>5 DEF Application
  <2>3. FlagInv'
    BY <1>0, <1>1, <1>5, <2>1, <2>2 DEF FlagInv, Ended
  <2>4. OpenInv'
    <3>1. stgy.trx_stop_switching => stgy.last_used_conn \in Server
      BY <1>0 DEF FlagInv, Strategies
    <3> QED
      BY <1>0, <1>5, <2>1, <2>2, <3>1 DEF OpenInv, Ended
  <2>5. PickInv'
    BY <1>0, <1>1, <1>5 DEF PickInv
  <2>6. WorkInv'
    BY <2>2 DEF WorkInv, Trusted
  <2> QED
    BY <2>3, <2>4, <2>5, <2>6
<1>6. "revealed" \in Discipline
  BY DEF Disciplined
<1> QED
  BY <1>3, <1>4, <1>5, <1>6 DEF TxBegin

(* A session outside a transaction that begin has opened: it has something *)
(* open only with autocommit off.                                          *)
Plain(s) ==
  /\ s \in SessionState
  /\ s.autocommit => s.trx = "none"
  /\ s.dirty => s.trx = "rw"
  /\ ~s.autocommit => s.trx # "ro"

(* It stays one when it is closed or its autocommit mode is set.           *)
LEMMA StaysPlain ==
  ASSUME NEW s, Plain(s), NEW mode \in BOOLEAN
  PROVE  /\ Plain(Closed(s)) /\ Closed(s).trx = "none"
         /\ Plain(WithAutocommit(s, mode))
         /\ mode => WithAutocommit(s, mode).autocommit
         /\ ~mode => ~WithAutocommit(s, mode).autocommit
         /\ s.trx = "none" => WithAutocommit(s, mode).trx = "none"
         /\ ~mode /\ ~s.autocommit => WithAutocommit(s, mode) = s
  BY DEF Plain, Closed, WithAutocommit, SessionState

(* What the handle's flags are when autocommit is set: no begin waits.     *)
Quiet(s) ==
  /\ s \in Strategies /\ ~s.trx_begin_required
  /\ s.trx_stop_switching => s.in_transaction /\ s.last_used_conn # None
  /\ s.trx_stop_switching /\ ~s.trx_read_only => s.last_used_conn \in Master
  /\ s.trx_read_only => s.in_transaction

(* Autocommit is set on every connection, or the application is told that  *)
(* it is not; what a server still has open then is the server's own doing. *)
LEMMA OnAllStep ==
  ASSUME Inv, Disciplined, NEW s, Quiet(s), NEW ended, NEW gone, NEW mode \in BOOLEAN,
         SetOnAll(s, ended, gone, mode), mode \/ (s = stgy /\ ended = {}),
         pc = "user", app.mode = "none", \A c \in Server : link[c] # "quit",
         UNCHANGED <<once, pc, call>>
  PROVE  FlagInv' /\ OpenInv' /\ PickInv' /\ WorkInv'
<1> DEFINE was(c) == IF c \in ended THEN Closed(session[c]) ELSE session[c]
<1>0. /\ TypeOK /\ FlagInv /\ OpenInv /\ PickInv /\ WorkInv /\ s \in Strategies
      /\ stgy \in Strategies /\ app \in Application /\ Proxy \in Server /\ None \notin Server
      /\ session \in [Server -> SessionState]
  BY Targets DEF Inv, TypeOK, Quiet
<1>1. ASSUME NEW c \in Server
      PROVE  /\ Plain(session[c]) /\ Plain(was(c))
             /\ link[c] = "alloced" => was(c).trx = "none"
             /\ ended = {} => was(c) = session[c]
             /\ was(c).autocommit = session[c].autocommit
  <2>1. Plain(session[c]) /\ (link[c] = "alloced" => session[c].trx = "none")
    BY <1>0 DEF OpenInv, Plain
  <2>2. Closed(session[c]).autocommit = session[c].autocommit
    BY <1>0 DEF Closed, SessionState
  <2> QED
    BY <2>1, <2>2, StaysPlain
<1>2. PICK refused \in SUBSET Server, lost \in SUBSET Server :
        /\ Result(refused \union lost) <=> (refused \union lost = {})
        /\ gone = {}
        /\ link' = [c \in Server |-> IF c \in lost \union gone THEN "quit" ELSE link[c]]
        /\ session' = [c \in Server |->
             LET left == IF c \in ended \union lost \union gone THEN Closed(session[c]) ELSE session[c]
             IN  IF c \in refused \/ link'[c] = "quit" THEN left ELSE WithAutocommit(left, mode)]
        /\ IF Result(refused \union lost)
           THEN /\ off' = [c \in Server |-> IF link'[c] = "quit" THEN off[c] ELSE ~mode]
                /\ stgy' = IF link'[Proxy] = "quit" THEN s ELSE Flags(s, mode)
                /\ app' = IF mode THEN [mode |-> "none", auto |-> "on", ran |-> {}, sound |-> TRUE]
                          ELSE IF app.auto = "on"
                          THEN [mode |-> "none", auto |-> "off", ran |-> {}, sound |-> TRUE]
                          ELSE app
           ELSE /\ stgy' = s
                /\ app' = [app EXCEPT !.auto = "unknown", !.sound = FALSE]
                /\ UNCHANGED off
  BY DEF SetOnAll, Disciplined
<1>3. ASSUME NEW c \in Server
      PROVE  /\ Plain(session'[c])
             /\ link'[c] = "alloced" => session'[c].trx = "none"
             /\ refused = {} /\ lost = {} => session'[c] = WithAutocommit(was(c), mode)
  <2> DEFINE left == IF c \in lost THEN Closed(session[c]) ELSE was(c)
  <2>1. session'[c] = IF c \in refused \/ link'[c] = "quit" THEN left
                      ELSE WithAutocommit(left, mode)
    BY <1>2 DEF was
  <2>2. Plain(left) /\ (link[c] = "alloced" => left.trx = "none")
    BY <1>1, StaysPlain
  <2>3. link'[c] = "alloced" => link[c] = "alloced"
    BY <1>2
  <2>4. refused = {} /\ lost = {} => left = was(c) /\ link'[c] # "quit"
    BY <1>2
  <2> HIDE DEF left
  <2>5. Plain(session'[c]) /\ (link'[c] = "alloced" => session'[c].trx = "none")
    BY <2>1, <2>2, <2>3, StaysPlain
  <2> QED
    BY <2>1, <2>4, <2>5
<1> HIDE DEF was
<1>4. CASE ~Result(refused \union lost)
  <2>1. /\ stgy' = s /\ UNCHANGED off
        /\ app'.mode = "none" /\ app'.auto = "unknown" /\ ~app'.sound
    BY <1>0, <1>2, <1>4 DEF Application
  <2>2. FlagInv'
    BY <2>1 DEF FlagInv, Quiet
  <2>3. OpenInv'
    BY <1>3, <2>1 DEF OpenInv, Plain
  <2>4. PickInv'
    BY <1>0, <2>1 DEF PickInv, Quiet
  <2>5. WorkInv'
    BY <2>1 DEF WorkInv, Trusted
  <2> QED
    BY <2>2, <2>3, <2>4, <2>5
<1>5. CASE Result(refused \union lost)
  <2>1. /\ \A c \in Server : /\ link'[c] # "quit"
                             /\ mode => ~off'[c]
                             /\ ~mode => off'[c]
                             /\ session'[c] = WithAutocommit(was(c), mode)
        /\ stgy' = Flags(s, mode)
    BY <1>0, <1>2, <1>3, <1>5
  <2>2. CASE mode
    <3>0. app'.mode = "none" /\ app'.auto = "on" /\ app'.ran = {}
      BY <1>2, <1>5, <2>2
    <3>1. stgy' = NoTransaction(s)
      BY <2>1, <2>2 DEF Flags
    <3>2. /\ ~stgy'.in_transaction /\ ~stgy'.trx_stop_switching /\ ~stgy'.trx_read_only
          /\ ~stgy'.trx_begin_required
      BY <1>0, <3>1, Unpinned DEF Quiet
    <3>3. ASSUME NEW c \in Server
          PROVE  session'[c].autocommit /\ Plain(session'[c]) /\ ~off'[c]
      <4>1. Plain(was(c)) /\ session'[c] = WithAutocommit(was(c), mode)
        BY <1>1, <2>1
      <4>2. WithAutocommit(was(c), mode).autocommit
        BY <2>2, <4>1, StaysPlain
      <4> QED
        BY <1>3, <2>1, <2>2, <4>1, <4>2
    <3>4. FlagInv'
      BY <3>0, <3>2, <3>3 DEF FlagInv
    <3>5. OpenInv'
      BY <3>0, <3>2, <3>3 DEF OpenInv, Plain
    <3>6. PickInv'
      BY <1>0, <3>2 DEF PickInv
    <3>7. WorkInv'
      BY <3>0, <3>3 DEF WorkInv, Plain
    <3> QED
      BY <3>4, <3>5, <3>6, <3>7
  <2>3. CASE ~mode
    <3>1. /\ stgy'.in_transaction
          /\ stgy'.trx_stop_switching = stgy.trx_stop_switching
          /\ stgy'.trx_read_only = stgy.trx_read_only
          /\ ~stgy'.trx_begin_required
          /\ stgy'.last_used_conn = stgy.last_used_conn
      BY <1>0, <2>1, <2>3, Flagged DEF Quiet
    <3>2. ASSUME NEW c \in Server
          PROVE  /\ ~session'[c].autocommit /\ off'[c]
                 /\ session[c].autocommit => session'[c].trx = "none"
                 /\ ~session[c].autocommit => session'[c] = session[c]
      BY <1>1, <2>1, <2>3, StaysPlain DEF Plain
    <3>3. CASE app.auto = "on"
      <4>1. /\ app'.mode = "none" /\ app'.auto = "off" /\ app'.ran = {}
        BY <1>2, <1>5, <2>3, <3>3
      <4>2. ~stgy.trx_stop_switching /\ ~stgy.trx_read_only
        BY <1>0, <3>3 DEF FlagInv
      <4>3. \A c \in Server : session'[c].trx = "none" /\ ~session'[c].dirty
        BY <1>0, <1>3, <3>2, <3>3 DEF FlagInv, Plain
      <4>4. FlagInv'
        BY <3>1, <3>2, <4>1, <4>2 DEF FlagInv
      <4>5. OpenInv'
        BY <4>1, <4>3 DEF OpenInv
      <4>6. PickInv'
        BY <1>0, <3>1, <4>2 DEF PickInv
      <4>7. WorkInv'
        BY <4>1, <4>3 DEF WorkInv
      <4> QED
        BY <4>4, <4>5, <4>6, <4>7
    <3>4. CASE app.auto # "on"
      <4>1. app' = app
        BY <1>2, <1>5, <2>3, <3>4
      <4>2. FlagInv'
        BY <1>0, <3>1, <3>2, <3>4, <4>1 DEF FlagInv
      <4>3. app.auto = "off" => \A c \in Server : session'[c] = session[c]
        BY <1>0, <3>2 DEF FlagInv
      <4>4. OpenInv'
        BY <1>0, <1>3, <3>1, <3>2, <4>1, <4>3 DEF OpenInv, Plain, Quiet
      <4>5. PickInv'
        BY <1>0, <3>1 DEF PickInv
      <4>6. WorkInv'
        <5>1. CASE ~Trusted
          BY <4>1, <5>1 DEF WorkInv, Trusted
        <5>2. CASE Trusted
          <6>1. app.auto = "off" /\ app.ran \subseteq Server
            BY <1>0, <3>4, <5>2 DEF Trusted, Application
          <6> QED
            BY <1>0, <3>1, <4>1, <4>3, <5>2, <6>1 DEF WorkInv, InTrx
        <5> QED
          BY <5>1, <5>2
      <4> QED
        BY <4>2, <4>4, <4>5, <4>6
    <3> QED
      BY <3>3, <3>4
  <2> QED
    BY <2>2, <2>3
<1> QED
  BY <1>4, <1>5

(* Autocommit is set outside a transaction that begin has opened, after an *)
(* implicit commit where GTIDs are injected.                               *)
LEMMA SetAutocommitStep ==
  ASSUME Inv, Disciplined, NEW mode \in BOOLEAN, SetAutocommit(mode)
  PROVE  FlagInv' /\ OpenInv' /\ PickInv' /\ WorkInv'
<1>0. /\ TypeOK /\ FlagInv /\ OpenInv /\ PickInv /\ WorkInv
      /\ stgy \in Strategies /\ app \in Application /\ Target \in Server
  BY Targets DEF Inv, TypeOK
<1>1. /\ pc = "user" /\ app.mode = "none" /\ \A c \in Server : link[c] # "quit"
      /\ UNCHANGED <<once, pc, call>>
  BY DEF SetAutocommit, Calls, Disciplined
<1>2. Quiet(stgy)
  BY <1>0, <1>1 DEF Quiet, FlagInv, PickInv
<1>3. CASE SetOnAll(stgy, {}, {}, mode)
  BY <1>1, <1>2, <1>3, OnAllStep
<1>4. ASSUME mode, NEW o \in EndOutcome, NEW ended, NEW gone,
             SetOnAll(AfterEnd(o), ended, gone, mode)
      PROVE  FlagInv' /\ OpenInv' /\ PickInv' /\ WorkInv'
  <2>1. Quiet(AfterEnd(o))
    <3>1. CASE o # "ok"
      BY <1>0, <1>2, <3>1, Releasing
    <3>2. CASE o = "ok" /\ ~off[Target]
      BY <1>0, <1>2, <3>2, Releasing, Unpinned DEF Quiet
    <3>3. CASE o = "ok" /\ off[Target]
      BY <1>0, <1>2, <3>3, Releasing DEF Quiet
    <3> QED
      BY <3>1, <3>2, <3>3
  <2> QED
    BY <1>1, <1>4, <2>1, OnAllStep
<1>5. ASSUME NEW o \in EndOutcome, EndOnServer(o), UNCHANGED <<stgy, off>>,
             app' = [app EXCEPT !.auto = "unknown", !.sound = FALSE]
      PROVE  FlagInv' /\ OpenInv' /\ PickInv' /\ WorkInv'
  <2>1. \A d \in Server : Ended(d)
    BY <1>5, Ending
  <2>2. app'.mode = "none" /\ app'.auto = "unknown" /\ ~app'.sound
    BY <1>0, <1>1, <1>5 DEF Application
  <2>3. FlagInv'
    BY <1>0, <1>2, <1>5, <2>2 DEF FlagInv, Quiet
  <2>4. OpenInv'
    BY <1>0, <1>1, <2>1, <2>2 DEF OpenInv, Ended
  <2>5. PickInv'
    BY <1>0, <1>1, <1>5 DEF PickInv
  <2>6. WorkInv'
    BY <2>2 DEF WorkInv, Trusted
  <2> QED
    BY <2>3, <2>4, <2>5, <2>6
<1> QED
  BY <1>3, <1>4, <1>5 DEF SetAutocommit

(* Every step of the system keeps the invariant.                           *)
LEMMA InvStep ==
  ASSUME Inv, Disciplined, [Next]_vars
  PROVE  Inv'
<1>1. TypeOK'
  BY TypeStep DEF Inv
<1>2. CASE UNCHANGED vars
  <2>1. FlagInv' /\ OpenInv'
    BY <1>2 DEF vars, Inv, FlagInv, OpenInv
  <2>2. PickInv' /\ WorkInv'
    BY <1>2 DEF vars, Inv, PickInv, WorkInv, Trusted, InTrx
  <2> QED
    BY <1>1, <2>1, <2>2 DEF Inv
<1>3. CASE Next
  BY <1>1, <1>3, FilterStep, ReturnStep, BeginStep, RunStep, CommitStep, TxBeginStep,
     SetAutocommitStep DEF Next, Inv
<1> QED
  BY <1>2, <1>3

(* A new handle satisfies the invariant: nothing has been used yet.        *)
LEMMA InvInit ==
  ASSUME Init
  PROVE  Inv
<1>1. TypeOK
  <2>1. conf \in Settings /\ pc = "user" /\ call \in Call
    BY Nothing DEF Init
  <2>2. stgy \in Strategies /\ app \in Application
    BY DEF Init, Strategies, Application
  <2>3. session \in [Server -> SessionState]
    BY DEF Init, SessionState
  <2>4. /\ off \in [Server -> BOOLEAN] /\ link \in [Server -> {"alloced", "ready", "quit"}]
        /\ once \in [{"master", "slave"} -> Server \union {None}]
    BY DEF Init
  <2> QED
    BY <2>1, <2>2, <2>3, <2>4 DEF TypeOK
<1>2. FlagInv /\ OpenInv
  BY DEF Init, FlagInv, OpenInv
<1>3. PickInv /\ WorkInv
  BY DEF Init, PickInv, WorkInv
<1> QED
  BY <1>1, <1>2, <1>3 DEF Inv

-----------------------------------------------------------------------------
(* The state of a handle, of its filters and of its servers' sessions      *)
(* stays well formed, whatever the application does and whatever fails.    *)
THEOREM SessionTypeCorrect == Spec => []TypeOK
<1>1. Init => TypeOK
  BY InvInit DEF Inv
<1>2. TypeOK /\ [Next]_vars => TypeOK'
  BY TypeStep
<1> QED
  BY <1>1, <1>2, PTL DEF Spec

(* The invariant the following theorems rest on: how the flags of the      *)
(* plugin, the sessions of the servers and what the application has been   *)
(* told have to do with each other.                                        *)
THEOREM SessionInvariance ==
  ASSUME Disciplined
  PROVE  Spec => []Inv
<1>1. Init => Inv
  BY InvInit
<1>2. Inv /\ [Next]_vars => Inv'
  BY InvStep
<1> QED
  BY <1>1, <1>2, PTL DEF Spec

(* With trx_stickiness all the statements of a transaction are executed by *)
(* one server, whatever connection fails, and however late it is opened.   *)
THEOREM OneServerPerTransaction ==
  ASSUME Disciplined
  PROVE  Spec => []OneServer
<1>1. Inv => OneServer
  <2> SUFFICES ASSUME Inv, Trusted, InTrx PROVE Cardinality(app.ran) <= 1
    BY DEF OneServer
  <2>1. app.ran = {} \/ app.ran = {stgy.last_used_conn}
    BY DEF Inv, WorkInv
  <2>2. Cardinality({}) = 0 /\ Cardinality({stgy.last_used_conn}) = 1
    BY FS_EmptySet, FS_Singleton
  <2> QED
    BY <2>1, <2>2
<1> QED
  BY <1>1, SessionInvariance, PTL

(* What a statement of a transaction has done can be undone: the server    *)
(* has the transaction open, in the mode the application has asked for.    *)
THEOREM TransactionsCanBeUndone ==
  ASSUME Disciplined
  PROVE  Spec => []CanBeUndone
<1>1. Inv => CanBeUndone
  <2> SUFFICES ASSUME Inv, Trusted, InTrx, NEW c \in app.ran
               PROVE  session[c].trx = IF app.mode = "none" THEN "rw" ELSE app.mode
    BY DEF CanBeUndone
  <2>1. c = stgy.last_used_conn /\ (app.mode # "none" => ~stgy.trx_begin_required)
    BY DEF Inv, WorkInv, FlagInv
  <2> QED
    BY <2>1 DEF Inv, WorkInv, InTrx
<1> QED
  BY <1>1, SessionInvariance, PTL

(* Only a server that executed a statement of the current transaction has  *)
(* work that is not committed.                                             *)
THEOREM NoWorkLeftOpen ==
  ASSUME Disciplined
  PROVE  Spec => []NothingLeftOpen
<1>1. Inv => NothingLeftOpen
  BY DEF Inv, WorkInv, NothingLeftOpen
<1> QED
  BY <1>1, SessionInvariance, PTL

(* A transaction that may write is executed by a master.                   *)
THEOREM WritersUseMasters ==
  ASSUME Disciplined
  PROVE  Spec => []WritesOnMaster
<1>1. Inv => WritesOnMaster
  BY DEF Inv, WorkInv, FlagInv, PickInv, WritesOnMaster, Trusted
<1> QED
  BY <1>1, SessionInvariance, PTL

(* What a step that loses uncommitted work tells the application: that its *)
(* transaction has ended, or that something has failed.                    *)
LEMMA WorkIsKept ==
  ASSUME Inv, Disciplined, [Next]_vars, Trusted, Trusted',
         NEW c \in Server, session[c].dirty, ~session'[c].dirty
  PROVE  app'.ran = {}
<1>0. /\ app \in Application /\ call \in Call /\ session \in [Server -> SessionState]
      /\ WorkInv /\ FlagInv /\ OpenInv /\ None \notin Server
      /\ app'.sound /\ app'.auto # "unknown"
  BY Targets DEF Inv, TypeOK, Trusted
<1>1. session' # session
  BY <1>0
<1>2. CASE SendBegin
  <2>1. stgy.trx_begin_required
    BY <1>2 DEF SendBegin, BeginDelayed
  <2> QED
    BY <1>0, <2>1 DEF WorkInv, FlagInv
<1>3. CASE Run
  <2> DEFINE s == session[call.conn]
  <2>1. call.conn \in Server
    BY <1>0, <1>3 DEF Run, Inv, TypeOK, Call
  <2>2. /\ Executed(s) \in SessionState
        /\ s.dirty => Executed(s).dirty
    BY <1>0, <2>1, ZenonT(30) DEF Executed, SessionState, OpenInv
  <2>3. PICK o : Send(call.conn, o, Executed(s)) /\ (o # "ok" => Fails)
    BY <1>3 DEF Run
  <2>4. o # "ok"
    BY <2>1, <2>2, <2>3, <1>0, Sent DEF Inv
  <2>5. app'.sound = (app.sound /\ ~InTrx) /\ app'.ran = app.ran
    BY <1>0, <2>3, <2>4, Knowledge DEF Fails, Inv
  <2> QED
    BY <1>0, <2>5 DEF WorkInv
<1>4. CASE CommitOrRollback
  <2>1. \/ app' = [app EXCEPT !.mode = "none", !.ran = {}, !.sound = TRUE]
        \/ app' = [app EXCEPT !.sound = FALSE]
    BY <1>4 DEF CommitOrRollback
  <2> QED
    BY <1>0, <2>1 DEF Application
<1>5. ASSUME NEW mode \in {"rw", "ro"}, TxBegin(mode) PROVE app'.ran = {}
  <2>1. \/ app' = [app EXCEPT !.mode = mode, !.ran = {}, !.sound = TRUE]
        \/ app' = [app EXCEPT !.sound = FALSE]
    BY <1>5 DEF TxBegin
  <2> QED
    BY <1>0, <2>1 DEF Application
<1>6. ASSUME NEW mode \in BOOLEAN, SetAutocommit(mode) PROVE app'.ran = {}
  <2>1. CASE app' = [app EXCEPT !.auto = "unknown", !.sound = FALSE]
    BY <1>0, <2>1 DEF Application
  <2>2. CASE \E auto \in {"on", "off"} :
               app' = [mode |-> "none", auto |-> auto, ran |-> {}, sound |-> TRUE]
    BY <2>2
  <2>3. app' # [app EXCEPT !.auto = "unknown", !.sound = FALSE]
    BY <1>0, <2>1 DEF Application
  <2>4. ASSUME NEW s, NEW ended, NEW gone, SetOnAll(s, ended, gone, mode), mode \/ ended = {}
        PROVE  app'.ran = {}
    <3>1. PICK refused \in SUBSET Server, lost \in SUBSET Server :
            /\ Result(refused \union lost) <=> (refused \union lost = {})
            /\ session' = [d \in Server |->
                 LET was == IF d \in ended \union lost \union gone
                            THEN Closed(session[d]) ELSE session[d]
                 IN  IF d \in refused \/ link'[d] = "quit" THEN was ELSE WithAutocommit(was, mode)]
            /\ gone = {}
            /\ IF Result(refused \union lost)
               THEN app' = IF mode
                           THEN [mode |-> "none", auto |-> "on", ran |-> {}, sound |-> TRUE]
                           ELSE IF app.auto = "on"
                           THEN [mode |-> "none", auto |-> "off", ran |-> {}, sound |-> TRUE]
                           ELSE app
               ELSE app' = [app EXCEPT !.auto = "unknown", !.sound = FALSE]
      BY <2>4 DEF SetOnAll, Disciplined
    <3>2. Result(refused \union lost) /\ refused = {} /\ lost = {}
      BY <2>3, <3>1
    <3>3. CASE mode \/ app.auto = "on"
      BY <2>2, <3>1, <3>2, <3>3
    <3>4. CASE ~mode /\ app.auto # "on"
      <4>1. session'[c] \in {session[c], WithAutocommit(session[c], mode)}
        BY <2>4, <3>1, <3>2, <3>4
      <4>2. session[c] \in SessionState
        BY <1>0
      <4>3. WithAutocommit(session[c], mode).dirty = session[c].dirty
        BY <3>4, <4>2 DEF WithAutocommit, SessionState
      <4> QED
        BY <4>1, <4>3
    <3> QED
      BY <3>3, <3>4
  <2> QED
    BY <1>6, <2>1, <2>4 DEF SetAutocommit
<1> QED
  BY <1>1, <1>2, <1>3, <1>4, <1>5, <1>6
     DEF Next, vars, Query, UseOnce, Exhausted, SkipFailed, Use, ConnectFails, ReturnConnection

(* Nothing but the application ends a transaction: no late or repeated     *)
(* BEGIN and no autocommit commits what has been executed half way.        *)
THEOREM OnlyTheApplicationEnds ==
  ASSUME Disciplined
  PROVE  Spec => EndedByApplication
<1>1. Inv /\ [Next]_vars =>
        [Trusted /\ Trusted' => \A c \in Server :
           session[c].dirty /\ ~session'[c].dirty => app'.ran = {}]_vars
  BY WorkIsKept
<1> QED
  BY <1>1, SessionInvariance, PTL DEF Spec, EndedByApplication
=============================================================================

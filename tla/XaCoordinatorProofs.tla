------------------------ MODULE XaCoordinatorProofs ------------------------
(***************************************************************************)
(* The coordinator keeps its promises for any number of connections, with  *)
(* or without a state store, over every fault; a decision once taken       *)
(* stands; and the coordinator implements AtomicCommit: proofs about       *)
(* XaCoordinator.                                                          *)
(***************************************************************************)
EXTENDS XaCoordinator, TLAPS

(* The members of the enumerations, for proofs that keep the sets folded.  *)
LEMMA Members ==
  /\ {"user", "add", "run", "warn", "close", "gone"} \subseteq Phase
  /\ Walks \union Monitors \union Finishes \subseteq Phase
  /\ {"END", "PREPARE", "COMMIT", "RELEASE", "ROLLBACK", "ROLLBACK_AGAIN"} \subseteq Walks
  /\ {"MON_IDLE", "MON_PREPARED", "MON_COMMIT", "MON_ROLLBACK"} \subseteq Monitors
  /\ {"FINISH_SUCCESS", "FINISH_FAILURE"} \subseteq Finishes
  /\ {"XA_NON_EXISTING", "XA_ACTIVE", "XA_IDLE", "XA_PREPARED", "XA_COMMIT",
      "XA_ROLLBACK"} \subseteq XaState
  /\ {"active", "idle", "prepared", "committed", "aborted"} \subseteq Branch
  /\ {"XA_NON_EXISTING", "XA_COMMIT", "XA_ROLLBACK"} \subseteq Intents
  /\ {"none", "committed", "commit_failed", "rolled_back", "rollback_failed"} \subseteq Answers
  BY DEF Phase, Walks, Monitors, Finishes, XaState, Branch, Intents, Answers

(* No action takes a variable out of its type. *)
LEMMA TypeStep ==
  ASSUME TypeOK, [Next]_vars
  PROVE  TypeOK'
<1> USE Members DEF TypeOK
<1>1. CASE Begin
  BY <1>1 DEF Begin, StoreCall, callVars, serverVars
<1>2. CASE LocalTransaction
  BY <1>2 DEF LocalTransaction, callVars, serverVars, storeVars
<1>3. CASE Commit
  BY <1>3 DEF Commit, Walk, serverVars, storeVars
<1>4. CASE Rollback
  BY <1>4 DEF Rollback, Walk, serverVars, storeVars
<1>5. CASE Close
  BY <1>5 DEF Close, Walk, serverVars, storeVars
<1>6. ASSUME NEW c \in Conn, InjectQuery(c) PROVE TypeOK'
  BY <1>6 DEF InjectQuery, Query, After, Detached, trxVars, storeVars
<1>7. ASSUME NEW c \in Conn, ExecuteStatement(c) PROVE TypeOK'
  BY <1>7 DEF ExecuteStatement, callVars, trxVars, storeVars
<1>8. CASE AddParticipant
  <2>1. \/ participants' = participants /\ pstate' = pstate /\ pc' = "user"
           /\ next' = None
        \/ /\ participants' = Append(participants, next)
           /\ pstate' = [pstate EXCEPT ![next] = "XA_ACTIVE"]
           /\ pc' = "run" /\ next' = next
    BY <1>8 DEF AddParticipant
  <2>2. next \in Conn
    BY <1>8 DEF AddParticipant
  <2>3. participants' \in Seq(Conn) /\ pstate' \in [Conn -> XaState]
    <3>1. participants \in Seq(Conn) /\ pstate \in [Conn -> XaState]
      OBVIOUS
    <3>2. participants' \in Seq(Conn)
      BY <2>1, <2>2, <3>1
    <3>3. pstate' \in [Conn -> XaState]
      BY <2>1, <2>2, <3>1
    <3> QED
      BY <3>2, <3>3
  <2>4. partState' \in [Conn -> XaState \union {"absent"}]
    BY <1>8 DEF AddParticipant
  <2>5. links' \in SUBSET (Conn \union {Store})
    BY <1>8 DEF AddParticipant, StoreWrite, StoreCall
  <2>6. pc' \in Phase /\ next' \in Conn \union {None} /\ (pc' = "run" => next' \in Conn)
    BY <2>1, <2>2
  <2> QED
    BY <1>8, <2>1, <2>3, <2>4, <2>5, <2>6 DEF AddParticipant, serverVars
<1>9. CASE RunQuery
  BY <1>9 DEF RunQuery, trxVars, storeVars
<1>10. CASE SkipParticipant
  BY <1>10 DEF SkipParticipant, trxVars, serverVars, storeVars
<1>11. CASE QueryParticipant
  BY <1>11 DEF QueryParticipant, Query, After, Detached, trxVars, storeVars
<1>12. CASE RecordParticipant
  <2>1. PICK s \in XaState : s = To(pc)
    BY DEF To
  <2>2. partState' \in [Conn -> XaState \union {"absent"}]
    <3>1. \/ partState' = partState
          \/ partState' = [partState EXCEPT ![participants[cur]] = s]
      BY <1>12, <2>1 DEF RecordParticipant
    <3> QED
      BY <3>1
  <2>3. pstate' \in [Conn -> XaState]
    <3>1. pstate' = pstate \/ pstate' = [pstate EXCEPT ![participants[cur]] = s]
      BY <1>12, <2>1 DEF RecordParticipant
    <3> QED
      BY <3>1
  <2>4. links' \in SUBSET (Conn \union {Store})
    BY <1>12 DEF RecordParticipant, StoreWrite, StoreCall
  <2> QED
    BY <1>12, <2>2, <2>3, <2>4 DEF RecordParticipant, serverVars
<1>13. CASE ParticipantFailure
  <2>1. partHealth' \in [Conn -> {"OK", "CLIENT_ERROR", "GC_DONE"}]
    BY <1>13 DEF ParticipantFailure
  <2>2. links' \in SUBSET (Conn \union {Store})
    BY <1>13 DEF ParticipantFailure, StoreWrite, StoreCall
  <2> QED
    BY <1>13, <2>1, <2>2 DEF ParticipantFailure, trxVars, serverVars
<1>14. CASE EndWalk
  BY <1>14 DEF EndWalk, Walk, AfterWalk, AfterEnd, AfterPrepare, AfterCommit,
               AfterRollback, AfterSecondRollback, trxVars, serverVars, storeVars
<1>15. CASE MonitorChangeState
  BY <1>15 DEF MonitorChangeState, Walk, AfterMonitor, Target, StoreWrite, StoreCall,
               serverVars
<1>16. CASE Finish
  BY <1>16 DEF Finish, MarkFinished, Answer, StoreWrite, StoreCall, serverVars
<1>17. CASE WarnStore
  BY <1>17 DEF WarnStore, MarkFinished, StoreWrite, StoreCall, trxVars, serverVars
<1>18. CASE Disconnect
  BY <1>18 DEF Disconnect, Forget, LoseAllConnections, Detached, storeVars
<1>19. ASSUME NEW c \in Conn, LoseConnection(c) PROVE TypeOK'
  BY <1>19 DEF LoseConnection, Detached, callVars, trxVars, storeVars
<1>20. CASE LoseStore
  BY <1>20 DEF LoseStore, callVars, trxVars, serverVars, storeVars
<1>21. CASE Crash
  BY <1>21 DEF Crash, Forget, LoseAllConnections, Detached, storeVars
<1>22. CASE UNCHANGED vars
  BY <1>22 DEF vars, callVars, trxVars, serverVars, storeVars
<1> QED
  BY <1>1, <1>2, <1>3, <1>4, <1>5, <1>6, <1>7, <1>8, <1>9, <1>10, <1>11, <1>12,
     <1>13, <1>14, <1>15, <1>16, <1>17, <1>18, <1>19, <1>20, <1>21, <1>22
     DEF Next, Application, Plugin, Faults

(* AddParticipant adds one element to the list, or nothing.                *)
LEMMA Added ==
  ASSUME TypeOK, AddParticipant
  PROVE  /\ next \in Conn
         /\ \/ /\ pc' = "user"
               /\ UNCHANGED <<participants, pstate>>
            \/ /\ pc' = "run" /\ next' = next
               /\ \A i \in Position' : \/ i \in Position /\ participants'[i] = participants[i]
                                       \/ i = Len(participants) + 1 /\ participants'[i] = next
               /\ next \in Listed'
               /\ pstate' = [pstate EXCEPT ![next] = "XA_ACTIVE"]
<1>1. next \in Conn
  BY DEF TypeOK, AddParticipant
<1>2. CASE UNCHANGED <<participants, pstate>> /\ pc' = "user"
  BY <1>1, <1>2
<1>3. CASE /\ participants' = Append(participants, next)
           /\ pstate' = [pstate EXCEPT ![next] = "XA_ACTIVE"]
           /\ pc' = "run" /\ next' = next
  <2>1. participants \in Seq(Conn)
    BY DEF TypeOK
  <2>2. ASSUME NEW i \in Position'
        PROVE  \/ i \in Position /\ participants'[i] = participants[i]
               \/ i = Len(participants) + 1 /\ participants'[i] = next
    <3>1. i \in 1..(Len(participants) + 1)
      BY <1>1, <1>3, <2>1 DEF Position
    <3>2. CASE i = Len(participants) + 1
      BY <1>1, <1>3, <2>1, <3>2
    <3>3. CASE i \in 1..Len(participants)
      BY <1>1, <1>3, <2>1, <3>3 DEF Position
    <3> QED
      BY <2>1, <3>1, <3>2, <3>3
  <2>3. Len(participants) + 1 \in Position' /\ participants'[Len(participants) + 1] = next
    BY <1>1, <1>3, <2>1 DEF Position
  <2>4. next \in Listed'
    BY <2>3 DEF Listed
  <2> QED
    BY <1>1, <1>3, <2>2, <2>4
<1> QED
  BY <1>2, <1>3 DEF AddParticipant

(* The connections in the list are the old ones and perhaps the new one. *)
LEMMA AddedSet ==
  ASSUME TypeOK, AddParticipant
  PROVE  Listed \subseteq Listed' /\ Listed' \subseteq Listed \union {next}
<1>1. CASE UNCHANGED participants
  BY <1>1 DEF Listed, Position
<1>2. CASE participants' = Append(participants, next)
  <2>1. participants \in Seq(Conn) /\ next \in Conn
    BY Added DEF TypeOK
  <2>2. \A i \in Position : i \in Position' /\ participants'[i] = participants[i]
    BY <1>2, <2>1 DEF Position
  <2>3. \A i \in Position' : \/ i \in Position /\ participants'[i] = participants[i]
                            \/ participants'[i] = next
    <3>1. pc' = "run"
      BY <1>2, <2>1, Added
    <3> QED
      BY <3>1, Added
  <2> QED
    BY <2>2, <2>3 DEF Listed
<1> QED
  BY <1>1, <1>2 DEF AddParticipant

(* ControlInv is inductive by itself. *)
LEMMA ControlStep ==
  ASSUME TypeOK, ControlInv, [Next]_vars
  PROVE  ControlInv'
<1>1. CASE Begin
  BY <1>1 DEF ControlInv, On, Begin, callVars, Applied
<1>2. CASE LocalTransaction
  BY <1>2 DEF ControlInv, On, LocalTransaction, callVars, storeVars
<1>3. CASE Commit
  BY <1>3 DEF ControlInv, On, Commit, Walk, storeVars
<1>4. CASE Rollback
  BY <1>4 DEF ControlInv, On, Rollback, Walk, storeVars
<1>5. CASE Close
  BY <1>5 DEF ControlInv, On, Walks, Monitors, Finishes, Close, Walk, storeVars
<1>6. ASSUME NEW c \in Conn, InjectQuery(c) PROVE ControlInv'
  BY <1>6 DEF ControlInv, On, Walks, Monitors, Finishes, InjectQuery, trxVars, storeVars
<1>7. ASSUME NEW c \in Conn, ExecuteStatement(c) PROVE ControlInv'
  BY <1>7 DEF ControlInv, On, ExecuteStatement, callVars, trxVars, storeVars
<1>8. CASE AddParticipant
  BY <1>8 DEF ControlInv, On, Walks, Monitors, Finishes, AddParticipant
<1>9. CASE RunQuery
  BY <1>9 DEF ControlInv, On, Walks, Monitors, Finishes, RunQuery, trxVars, storeVars
<1>10. CASE SkipParticipant
  BY <1>10 DEF ControlInv, On, SkipParticipant, trxVars, storeVars
<1>11. CASE QueryParticipant
  BY <1>11 DEF ControlInv, On, QueryParticipant, trxVars, storeVars
<1>12. CASE RecordParticipant
  BY <1>12 DEF ControlInv, On, RecordParticipant
<1>13. CASE ParticipantFailure
  BY <1>13 DEF ControlInv, On, ParticipantFailure, trxVars
<1>14. CASE EndWalk
  BY <1>14 DEF ControlInv, On, EndWalk, Walk, AfterWalk, AfterEnd, AfterPrepare,
               AfterCommit, AfterRollback, AfterSecondRollback, trxVars, storeVars
<1>15. CASE MonitorChangeState
  BY <1>15 DEF ControlInv, On, MonitorChangeState, Walk, AfterMonitor, Target
<1>16. CASE Finish
  BY <1>16 DEF ControlInv, On, Walks, Monitors, Finish, Finishes, Written, MarkFinished
<1>17. CASE WarnStore
  BY <1>17 DEF ControlInv, On, Walks, Monitors, Finishes, WarnStore, trxVars, Written,
               MarkFinished
<1>18. CASE Disconnect
  BY <1>18 DEF ControlInv, On, Walks, Monitors, Finishes, Disconnect, Forget, storeVars
<1>19. ASSUME NEW c \in Conn, LoseConnection(c) PROVE ControlInv'
  BY <1>19 DEF ControlInv, On, LoseConnection, callVars, trxVars, storeVars
<1>20. CASE LoseStore
  BY <1>20 DEF ControlInv, On, LoseStore, callVars, trxVars, storeVars
<1>21. CASE Crash
  BY <1>21 DEF ControlInv, On, Walks, Monitors, Finishes, Crash, Forget, storeVars
<1>22. CASE UNCHANGED vars
  BY <1>22 DEF ControlInv, On, vars, callVars, trxVars, storeVars
<1> QED
  BY <1>1, <1>2, <1>3, <1>4, <1>5, <1>6, <1>7, <1>8, <1>9, <1>10, <1>11, <1>12, <1>13,
     <1>14, <1>15, <1>16, <1>17, <1>18, <1>19, <1>20, <1>21, <1>22
  DEF Next, Application, Plugin, Faults

(* So is ListInv: only AddParticipant extends the list. *)
LEMMA ListStep ==
  ASSUME TypeOK, ControlInv, ListInv, [Next]_vars
  PROVE  ListInv'
<1>1. CASE Begin
  BY <1>1 DEF ListInv, Position, Begin, callVars
<1>2. CASE LocalTransaction
  BY <1>2 DEF ListInv, Position, LocalTransaction, callVars
<1>3. CASE Commit
  BY <1>3 DEF ListInv, Position, Commit, Walk
<1>4. CASE Rollback
  BY <1>4 DEF ListInv, Position, Rollback, Walk
<1>5. CASE Close
  BY <1>5 DEF ListInv, Position, Walks, Close, Walk
<1>6. ASSUME NEW c \in Conn, InjectQuery(c) PROVE ListInv'
  BY <1>6 DEF ControlInv, ListInv, Position, Listed, Walks, InjectQuery, trxVars
<1>7. ASSUME NEW c \in Conn, ExecuteStatement(c) PROVE ListInv'
  BY <1>7 DEF ListInv, Position, ExecuteStatement, callVars, trxVars
<1>8. CASE AddParticipant
  <2>1. CASE pc' = "user" /\ UNCHANGED participants
    BY <2>1 DEF ListInv, Position, Walks
  <2>2. CASE /\ pc' = "run" /\ next' = next
             /\ \A i \in Position' : \/ i \in Position /\ participants'[i] = participants[i]
                                     \/ i = Len(participants) + 1 /\ participants'[i] = next
             /\ next \in Listed'
    <3>1. \A i \in Position : participants[i] # next
      BY <1>8, <1>8 DEF AddParticipant, ListInv, Listed
    <3>2. \A i, j \in Position' : participants'[i] = participants'[j] => i = j
      BY <2>2, <3>1 DEF ListInv
    <3> QED
      BY <2>2, <3>2 DEF ListInv, Walks
  <2> QED
    BY <1>8, Added, <2>1, <2>2
<1>9. CASE RunQuery
  BY <1>9 DEF ListInv, Position, Walks, RunQuery, trxVars
<1>10. CASE SkipParticipant
  BY <1>10 DEF ListInv, Position, Walks, SkipParticipant, Visiting, trxVars
<1>11. CASE QueryParticipant
  BY <1>11 DEF ListInv, Position, Walks, QueryParticipant, Visiting, trxVars
<1>12. CASE RecordParticipant
  BY <1>12 DEF ListInv, Position, Walks, RecordParticipant, Visiting
<1>13. CASE ParticipantFailure
  BY <1>13 DEF ListInv, Position, Walks, ParticipantFailure, Visiting, trxVars
<1>14. CASE EndWalk
  BY <1>14 DEF ListInv, Position, EndWalk, Walk, AfterWalk, AfterEnd, AfterPrepare,
               AfterCommit, AfterRollback, AfterSecondRollback, trxVars
<1>15. CASE MonitorChangeState
  BY <1>15 DEF ListInv, Position, MonitorChangeState, Walk, AfterMonitor
<1>16. CASE Finish
  BY <1>16 DEF ListInv, Position, Walks, Finish
<1>17. CASE WarnStore
  BY <1>17 DEF ListInv, Position, Walks, WarnStore, trxVars
<1>18. CASE Disconnect
  BY <1>18 DEF ListInv, Position, Disconnect, Forget
<1>19. ASSUME NEW c \in Conn, LoseConnection(c) PROVE ListInv'
  BY <1>19 DEF ListInv, Position, Listed, LoseConnection, callVars, trxVars
<1>20. CASE LoseStore
  BY <1>20 DEF ListInv, Position, Listed, LoseStore, callVars, trxVars
<1>21. CASE Crash
  BY <1>21 DEF ListInv, Position, Crash, Forget
<1>22. CASE UNCHANGED vars
  BY <1>22 DEF ListInv, Position, Listed, vars, callVars, trxVars
<1> QED
  BY <1>1, <1>2, <1>3, <1>4, <1>5, <1>6, <1>7, <1>8, <1>9, <1>10, <1>11, <1>12, <1>13,
     <1>14, <1>15, <1>16, <1>17, <1>18, <1>19, <1>20, <1>21, <1>22
  DEF Next, Application, Plugin, Faults

(* The phases follow each other: each finds every participant in the state *)
(* the one before has left.                                                *)
LEMMA PhaseStep ==
  ASSUME TypeOK, ControlInv, ListInv, PhaseInv, [Next]_vars
  PROVE  PhaseInv'
<1>1. CASE Begin
  BY <1>1 DEF PhaseInv, Position, All, Begin, callVars
<1>2. CASE LocalTransaction
  BY <1>2 DEF PhaseInv, Position, All, LocalTransaction, callVars
<1>3. CASE Commit
  BY <1>3 DEF PhaseInv, Position, Ahead, Behind, All, Commit, Walk
<1>4. CASE Rollback
  BY <1>4 DEF PhaseInv, Position, Ahead, Behind, All, Rollback, Walk
<1>5. CASE Close
  BY <1>5 DEF PhaseInv, Position, Ahead, Behind, All, Close, Walk
<1>6. ASSUME NEW c \in Conn, InjectQuery(c) PROVE PhaseInv'
  BY <1>6 DEF PhaseInv, Position, All, InjectQuery, trxVars
<1>7. ASSUME NEW c \in Conn, ExecuteStatement(c) PROVE PhaseInv'
  BY <1>7 DEF PhaseInv, Position, All, ExecuteStatement, callVars, trxVars
<1>8. CASE AddParticipant
  <2>1. CASE pc' = "user" /\ UNCHANGED <<participants, pstate>>
    BY <1>8, <2>1 DEF PhaseInv, Position, All, AddParticipant
  <2>2. CASE /\ pc' = "run" /\ next' = next
             /\ \A i \in Position' : \/ i \in Position /\ participants'[i] = participants[i]
                                     \/ i = Len(participants) + 1 /\ participants'[i] = next
             /\ pstate' = [pstate EXCEPT ![next] = "XA_ACTIVE"]
    <3>1. \A i \in Position : participants[i] \in Conn /\ pstate[participants[i]] = "XA_ACTIVE"
      BY <1>8, <1>8 DEF AddParticipant, PhaseInv, All, TypeOK, Position
    <3>2. pstate' = [pstate EXCEPT ![next] = "XA_ACTIVE"] /\ pstate \in [Conn -> XaState]
      BY <2>2 DEF TypeOK
    <3>3. \A c \in Conn : c = next \/ pstate[c] = "XA_ACTIVE" => pstate'[c] = "XA_ACTIVE"
      BY <3>2
    <3>4. \A i \in Position' : pstate'[participants'[i]] = "XA_ACTIVE"
      BY <2>2, <3>1, <3>3, <1>8, Added
    <3> QED
      BY <2>2, <3>4 DEF PhaseInv, All
  <2> QED
    BY <1>8, Added, <2>1, <2>2
<1>9. CASE RunQuery
  BY <1>9 DEF PhaseInv, Position, All, RunQuery, trxVars
<1>10. CASE SkipParticipant
  <2>1. /\ UNCHANGED <<pc, ret, participants, pstate>>
        /\ cur' = cur + 1 /\ cur \in Position
        /\ pstate[participants[cur]] \notin From(pc)
    BY <1>10, <1>10 DEF SkipParticipant, Visiting, trxVars
  <2>2. pc \in {"END", "PREPARE", "COMMIT", "ROLLBACK"} => FALSE
    <3> SUFFICES ASSUME pc \in {"END", "PREPARE", "COMMIT", "ROLLBACK"} PROVE FALSE
      OBVIOUS
    <3>1. cur >= cur /\ cur \in Nat
      BY DEF TypeOK
    <3> QED
      BY <2>1, <3>1 DEF PhaseInv, Ahead, From
  <2>3. pc \in {"RELEASE", "ROLLBACK_AGAIN"}
    BY <1>10, <2>2 DEF SkipParticipant, Visiting, Walks
  <2> QED
    BY <2>1, <2>3 DEF PhaseInv
<1>11. CASE QueryParticipant
  BY <1>11 DEF PhaseInv, Position, Ahead, Behind, All, QueryParticipant, trxVars
<1>12. CASE RecordParticipant
  <2>1. /\ UNCHANGED <<pc, participants>>
        /\ cur' = cur + 1 /\ cur \in Position
        /\ \/ pstate' = [pstate EXCEPT ![participants[cur]] = To(pc)] /\ ret' = ret
           \/ pstate' = pstate /\ ret' = "FAIL"
    BY <1>12, <1>12 DEF RecordParticipant, Visiting, trxVars
  <2>2. \A i \in Position : participants[i] \in Conn
    BY DEF TypeOK, Position
  <2>3. \A i \in Position : i # cur => participants[i] # participants[cur]
    BY <2>1 DEF ListInv
  <2>4. \A i \in Position : i # cur => pstate'[participants[i]] = pstate[participants[i]]
    BY <2>1, <2>2, <2>3 DEF TypeOK
  <2>5. ret' = "PASS" => ret = "PASS" /\ pstate'[participants[cur]] = To(pc)
    BY <2>1, <2>2 DEF TypeOK
  <2>6. ASSUME NEW s, Ahead(s) PROVE Ahead(s)'
    BY <2>1, <2>4, <2>6 DEF Ahead, Position, TypeOK
  <2>7. ASSUME NEW s, Behind(s), s = To(pc) PROVE Behind(s)'
    BY <2>1, <2>4, <2>5, <2>7 DEF Behind, Position, TypeOK
  <2>8. pc' = pc /\ pc \in Walks
    BY <1>12, <2>1 DEF RecordParticipant, Visiting
  <2> QED
    BY <2>6, <2>7, <2>8 DEF PhaseInv, To, Walks
<1>13. CASE ParticipantFailure
  BY <1>13 DEF PhaseInv, Position, Ahead, Behind, All, ParticipantFailure, Visiting,
               trxVars
<1>14. CASE EndWalk
  BY <1>14 DEF PhaseInv, Position, Behind, All, EndWalk, Walk, AfterWalk, AfterEnd,
               AfterPrepare, AfterCommit, AfterRollback, AfterSecondRollback, trxVars
<1>15. CASE MonitorChangeState
  BY <1>15 DEF PhaseInv, Position, Ahead, Behind, All, MonitorChangeState, Walk,
               AfterMonitor
<1>16. CASE Finish
  BY <1>16 DEF PhaseInv, Position, All, Finish
<1>17. CASE WarnStore
  BY <1>17 DEF PhaseInv, WarnStore
<1>18. CASE Disconnect
  BY <1>18 DEF PhaseInv, Disconnect, Forget
<1>19. ASSUME NEW c \in Conn, LoseConnection(c) PROVE PhaseInv'
  BY <1>19 DEF PhaseInv, Position, Ahead, Behind, All, LoseConnection, callVars, trxVars
<1>20. CASE LoseStore
  BY <1>20 DEF PhaseInv, Position, Ahead, Behind, All, LoseStore, callVars, trxVars
<1>21. CASE Crash
  BY <1>21 DEF PhaseInv, Crash, Forget
<1>22. CASE UNCHANGED vars
  BY <1>22 DEF PhaseInv, Position, Ahead, Behind, All, vars, callVars, trxVars
<1> QED
  BY <1>1, <1>2, <1>3, <1>4, <1>5, <1>6, <1>7, <1>8, <1>9, <1>10, <1>11, <1>12, <1>13,
     <1>14, <1>15, <1>16, <1>17, <1>18, <1>19, <1>20, <1>21, <1>22
  DEF Next, Application, Plugin, Faults

(* The client never believes a participant further than it is.             *)
LEMMA ParticipantStep ==
  ASSUME TypeOK, ControlInv, ListInv, PhaseInv, ParticipantInv, [Next]_vars
  PROVE  ParticipantInv'
<1>1. CASE Begin
  BY <1>1 DEF ParticipantInv, Position, Begin, callVars, serverVars
<1>2. CASE LocalTransaction
  BY <1>2 DEF ParticipantInv, Position, LocalTransaction, callVars, serverVars
<1>3. CASE Commit
  BY <1>3 DEF ParticipantInv, Position, Commit, Walk, serverVars
<1>4. CASE Rollback
  BY <1>4 DEF ParticipantInv, Position, Rollback, Walk, serverVars
<1>5. CASE Close
  BY <1>5 DEF ParticipantInv, Position, Walks, Close, Walk, serverVars
<1>6. ASSUME NEW c \in Conn, InjectQuery(c) PROVE ParticipantInv'
  BY <1>6 DEF TypeOK, ParticipantInv, Position, Walks, InjectQuery, trxVars, Query,
              Before
<1>7. ASSUME NEW c \in Conn, ExecuteStatement(c) PROVE ParticipantInv'
  BY <1>7 DEF ParticipantInv, Position, ExecuteStatement, callVars, trxVars
<1>8. CASE AddParticipant
  <2>1. pc' \in {"user", "run"}
    BY <1>8, <1>8 DEF AddParticipant
  <2>2. \A i \in Position' : pstate'[participants'[i]] = "XA_ACTIVE"
    BY <2>1, PhaseStep DEF PhaseInv, All
  <2> QED
    BY <2>1, <2>2 DEF ParticipantInv, Walks
<1>9. CASE RunQuery
  BY <1>9 DEF ParticipantInv, Position, Walks, RunQuery, trxVars
<1>10. CASE SkipParticipant
  BY <1>10 DEF ParticipantInv, Position, SkipParticipant, trxVars, serverVars
<1>11. CASE QueryParticipant
  BY <1>11 DEF TypeOK, ParticipantInv, Position, Walks, QueryParticipant, Visiting,
               trxVars, Query, Before, After, Command, Rollbacks
<1>12. CASE RecordParticipant
  BY <1>12 DEF ParticipantInv, Position, Walks, RecordParticipant, Visiting, serverVars,
               To
<1>13. CASE ParticipantFailure
  BY <1>13 DEF ParticipantInv, Position, ParticipantFailure, trxVars, serverVars
<1>14. CASE EndWalk
  BY <1>14 DEF ParticipantInv, Position, EndWalk, Walk, AfterWalk, AfterEnd,
               AfterPrepare, AfterCommit, AfterRollback, AfterSecondRollback, trxVars,
               serverVars
<1>15. CASE MonitorChangeState
  BY <1>15 DEF PhaseInv, ParticipantInv, Position, All, MonitorChangeState, Walk,
               AfterMonitor, serverVars
<1>16. CASE Finish
  BY <1>16 DEF ParticipantInv, Position, Walks, Finish
<1>17. CASE WarnStore
  BY <1>17 DEF ParticipantInv, Position, Walks, WarnStore, trxVars, serverVars
<1>18. CASE Disconnect
  BY <1>18 DEF ParticipantInv, Position, Disconnect, Forget
<1>19. ASSUME NEW c \in Conn, LoseConnection(c) PROVE ParticipantInv'
  BY <1>19 DEF ParticipantInv, Position, LoseConnection, callVars, trxVars, Detached
<1>20. CASE LoseStore
  BY <1>20 DEF ParticipantInv, Position, LoseStore, callVars, trxVars, serverVars
<1>21. CASE Crash
  BY <1>21 DEF ParticipantInv, Position, Crash, Forget
<1>22. CASE UNCHANGED vars
  BY <1>22 DEF ParticipantInv, Position, vars, callVars, trxVars, serverVars
<1> QED
  BY <1>1, <1>2, <1>3, <1>4, <1>5, <1>6, <1>7, <1>8, <1>9, <1>10, <1>11, <1>12, <1>13,
     <1>14, <1>15, <1>16, <1>17, <1>18, <1>19, <1>20, <1>21, <1>22
  DEF Next, Application, Plugin, Faults

(* A branch that is prepared stays so until the second phase begins.       *)
LEMMA PreparedStep ==
  ASSUME NEW S \in SUBSET Conn,
         TypeOK, ListInv, PhaseInv, PreparedInv(S), [Next]_vars
  PROVE  PreparedInv(S)'
<1>1. CASE Begin
  BY <1>1 DEF PreparedInv, Position, Begin, callVars, serverVars
<1>2. CASE LocalTransaction
  BY <1>2 DEF PreparedInv, Position, LocalTransaction, callVars, serverVars
<1>3. CASE Commit
  BY <1>3 DEF PreparedInv, Position, Commit, Walk, serverVars
<1>4. CASE Rollback
  BY <1>4 DEF PreparedInv, Position, Rollback, Walk, serverVars
<1>5. CASE Close
  BY <1>5 DEF PreparedInv, Position, Walks, Close, Walk, serverVars
<1>6. ASSUME NEW c \in Conn, InjectQuery(c) PROVE PreparedInv(S)'
  BY <1>6 DEF TypeOK, PreparedInv, Position, Walks, InjectQuery, trxVars, Query,
              Before
<1>7. ASSUME NEW c \in Conn, ExecuteStatement(c) PROVE PreparedInv(S)'
  BY <1>7 DEF PreparedInv, Position, ExecuteStatement, callVars, trxVars
<1>8. CASE AddParticipant
  BY <1>8 DEF PreparedInv, AddParticipant
<1>9. CASE RunQuery
  BY <1>9 DEF PreparedInv, Position, Walks, RunQuery, trxVars
<1>10. CASE SkipParticipant
  BY <1>10 DEF PreparedInv, Position, SkipParticipant, trxVars, serverVars
<1>11. CASE QueryParticipant
  BY <1>11 DEF TypeOK, PreparedInv, Position, Walks, QueryParticipant, Visiting,
               trxVars, Query, Before, After, Command, Rollbacks
<1>12. CASE RecordParticipant
  BY <1>12 DEF PreparedInv, Position, Walks, RecordParticipant, Visiting, serverVars,
               To
<1>13. CASE ParticipantFailure
  BY <1>13 DEF PreparedInv, Position, ParticipantFailure, trxVars, serverVars
<1>14. CASE EndWalk
  BY <1>14 DEF PreparedInv, Position, EndWalk, Walk, AfterWalk, AfterEnd,
               AfterPrepare, AfterCommit, AfterRollback, AfterSecondRollback, trxVars,
               serverVars
<1>15. CASE MonitorChangeState
  BY <1>15 DEF PhaseInv, PreparedInv, Position, All, MonitorChangeState, Walk,
               AfterMonitor, serverVars
<1>16. CASE Finish
  BY <1>16 DEF PreparedInv, Position, Walks, Finish
<1>17. CASE WarnStore
  BY <1>17 DEF PreparedInv, Position, Walks, WarnStore, trxVars, serverVars
<1>18. CASE Disconnect
  BY <1>18 DEF PreparedInv, Position, Disconnect, Forget
<1>19. ASSUME NEW c \in Conn, LoseConnection(c) PROVE PreparedInv(S)'
  BY <1>19 DEF PreparedInv, Position, LoseConnection, callVars, trxVars, Detached
<1>20. CASE LoseStore
  BY <1>20 DEF PreparedInv, Position, LoseStore, callVars, trxVars, serverVars
<1>21. CASE Crash
  BY <1>21 DEF PreparedInv, Position, Crash, Forget
<1>22. CASE UNCHANGED vars
  BY <1>22 DEF PreparedInv, Position, vars, callVars, trxVars, serverVars
<1> QED
  BY <1>1, <1>2, <1>3, <1>4, <1>5, <1>6, <1>7, <1>8, <1>9, <1>10, <1>11, <1>12, <1>13,
     <1>14, <1>15, <1>16, <1>17, <1>18, <1>19, <1>20, <1>21, <1>22
  DEF Next, Application, Plugin, Faults

(* Nobody commits before everybody is prepared, and nobody rolls back      *)
(* after.                                                                  *)
LEMMA DecisionStep ==
  ASSUME NEW S \in SUBSET Conn,
         TypeOK, ControlInv, ListInv, PhaseInv, ParticipantInv, PreparedInv(S),
         DecisionInv(S), [Next]_vars, ~PreparedStatements
  PROVE  DecisionInv(S)'
<1>1. CASE Begin
  BY <1>1 DEF DecisionInv, Position, Listed, Committed, Begin, callVars, serverVars
<1>2. CASE LocalTransaction
  BY <1>2 DEF DecisionInv, Position, Listed, Committed, LocalTransaction, callVars,
              serverVars
<1>3. CASE Commit
  BY <1>3 DEF ControlInv, DecisionInv, Position, Listed, Committed, Commit, Walk,
              serverVars
<1>4. CASE Rollback
  BY <1>4 DEF ControlInv, DecisionInv, Position, Listed, Committed, Rollback, Walk,
              serverVars
<1>5. CASE Close
  BY <1>5 DEF ControlInv, DecisionInv, Position, Listed, Committed, Undecided, Close,
              Walk, serverVars
<1>6. ASSUME NEW c \in Conn, InjectQuery(c) PROVE DecisionInv(S)'
  BY <1>6 DEF TypeOK, ControlInv, DecisionInv, Position, Listed, Committed, InjectQuery,
              trxVars, Query, After, Detached
<1>7. ASSUME NEW c \in Conn, ExecuteStatement(c) PROVE DecisionInv(S)'
  BY <1>7 DEF ControlInv, DecisionInv, Position, Listed, Committed, Undecided,
              ExecuteStatement, callVars, trxVars
<1>8. CASE AddParticipant
  <2>1. UNCHANGED <<branch, worked, answer, intend>> /\ pc' \in {"run", "user"}
    BY <1>8, <1>8 DEF AddParticipant, serverVars
  <2>2. Listed \subseteq Listed'
    BY <1>8, AddedSet
  <2> QED
    BY <1>8, <2>1, <2>2 DEF DecisionInv, AddParticipant, ControlInv, Committed,
                            Undecided
<1>9. CASE RunQuery
  BY <1>9 DEF ListInv, DecisionInv, Position, Listed, Committed, Undecided, RunQuery,
              trxVars
<1>10. CASE SkipParticipant
  BY <1>10 DEF DecisionInv, Position, Listed, Committed, SkipParticipant, trxVars,
               serverVars
<1>11. CASE QueryParticipant
  BY <1>11 DEF TypeOK, ControlInv, DecisionInv, Position, Listed, Walks, Committed,
               Undecided, QueryParticipant, Visiting, trxVars, Query, After, Detached,
               Command, Rollbacks
<1>12. CASE RecordParticipant
  BY <1>12 DEF DecisionInv, Position, Listed, Committed, RecordParticipant, serverVars
<1>13. CASE ParticipantFailure
  BY <1>13 DEF DecisionInv, Position, Listed, Committed, ParticipantFailure, trxVars,
               serverVars
<1>14. CASE EndWalk
  BY <1>14 DEF DecisionInv, Position, Listed, Committed, Undecided, EndWalk, Walk,
               AfterWalk, AfterEnd, AfterPrepare, AfterCommit, AfterRollback,
               AfterSecondRollback, trxVars, serverVars
<1>15. CASE MonitorChangeState
  BY <1>15 DEF ControlInv, PhaseInv, ParticipantInv, PreparedInv, DecisionInv, Position,
               Listed, All,
               Committed, Undecided, MonitorChangeState, Walk, AfterMonitor, serverVars
<1>16. CASE Finish
  BY <1>16 DEF DecisionInv, Committed, Undecided, Finish, serverVars, Answer
<1>17. CASE WarnStore
  BY <1>17 DEF DecisionInv, Position, Listed, Committed, Undecided, WarnStore, trxVars,
               serverVars
<1>18. CASE Disconnect
  BY <1>18 DEF TypeOK, DecisionInv, Committed, Undecided, Disconnect, Forget,
               LoseAllConnections, Detached
<1>19. ASSUME NEW c \in Conn, LoseConnection(c) PROVE DecisionInv(S)'
  BY <1>19 DEF DecisionInv, Position, Listed, Committed, LoseConnection, callVars,
               trxVars, Detached
<1>20. CASE LoseStore
  BY <1>20 DEF DecisionInv, Position, Listed, Committed, LoseStore, callVars, trxVars,
               serverVars
<1>21. CASE Crash
  BY <1>21 DEF TypeOK, DecisionInv, Committed, Undecided, Crash, Forget,
               LoseAllConnections, Detached
<1>22. CASE UNCHANGED vars
  BY <1>22 DEF DecisionInv, Position, Listed, Committed, vars, callVars, trxVars,
               serverVars
<1> QED
  BY <1>1, <1>2, <1>3, <1>4, <1>5, <1>6, <1>7, <1>8, <1>9, <1>10, <1>11, <1>12, <1>13,
     <1>14, <1>15, <1>16, <1>17, <1>18, <1>19, <1>20, <1>21, <1>22
  DEF Next, Application, Plugin, Faults

(* Prepared branches are listed.                                           *)
LEMMA RecordStep ==
  ASSUME TypeOK, ControlInv, ListInv, RecordInv, [Next]_vars
  PROVE  RecordInv'
<1>1. CASE Begin
  BY <1>1 DEF ControlInv, RecordInv, Position, Listed, Begin, serverVars
<1>2. CASE LocalTransaction
  BY <1>2 DEF RecordInv, Position, Listed, On, LocalTransaction, serverVars, storeVars
<1>3. CASE Commit
  BY <1>3 DEF RecordInv, Position, Listed, Commit, serverVars, storeVars
<1>4. CASE Rollback
  BY <1>4 DEF RecordInv, Position, Listed, Rollback, serverVars, storeVars
<1>5. CASE Close
  BY <1>5 DEF RecordInv, Position, Listed, On, Close, serverVars, storeVars
<1>6. ASSUME NEW c \in Conn, InjectQuery(c) PROVE RecordInv'
  BY <1>6 DEF TypeOK, RecordInv, Position, Listed, InjectQuery, trxVars, storeVars,
              Query, After, Detached
<1>7. ASSUME NEW c \in Conn, ExecuteStatement(c) PROVE RecordInv'
  BY <1>7 DEF RecordInv, Position, Listed, ExecuteStatement, trxVars, storeVars
<1>8. CASE AddParticipant
  <2>1. next \in Conn
    BY <1>8, Added
  <2>2. Listed \subseteq Listed' /\ Listed' \subseteq Listed \union {next}
    BY <1>8, AddedSet
  <2>3. StateStore => /\ next \in Listed' \ Listed => partState'[next] = "XA_ACTIVE"
                      /\ \A c \in Conn : c # next => partState'[c] = partState[c]
                      /\ partState[next] # "absent" => partState'[next] # "absent"
    <3>1. CASE participants' = participants
      BY <1>8, <2>1, <3>1 DEF AddParticipant, Written, Applied, StoreWrite, TypeOK,
                              Listed, Position
    <3>2. CASE StateStore => partState' = [partState EXCEPT ![next] = "XA_ACTIVE"]
      BY <2>1, <3>2 DEF TypeOK
    <3> QED
      BY <1>8, <3>1, <3>2 DEF AddParticipant, StoreWrite, Written, Applied
  <2>4. Listed \subseteq Conn
    BY DEF TypeOK, Listed, Position
  <2> QED
    BY <1>8, <2>1, <2>2, <2>3, <2>4 DEF RecordInv, AddParticipant, On, serverVars
<1>9. CASE RunQuery
  BY <1>9 DEF RecordInv, Position, Listed, On, RunQuery, trxVars, storeVars
<1>10. CASE SkipParticipant
  BY <1>10 DEF RecordInv, Position, Listed, On, SkipParticipant, trxVars, serverVars,
               storeVars
<1>11. CASE QueryParticipant
  BY <1>11 DEF TypeOK, RecordInv, Position, Listed, On, QueryParticipant, Visiting,
               trxVars, storeVars, Query
<1>12. CASE RecordParticipant
  BY <1>12 DEF RecordInv, Position, Listed, On, RecordParticipant, serverVars, To
<1>13. CASE ParticipantFailure
  BY <1>13 DEF RecordInv, Position, Listed, On, ParticipantFailure, trxVars, serverVars
<1>14. CASE EndWalk
  BY <1>14 DEF RecordInv, Position, Listed, On, EndWalk, AfterWalk, trxVars, serverVars,
               storeVars
<1>15. CASE MonitorChangeState
  BY <1>15 DEF RecordInv, Position, Listed, On, MonitorChangeState, Monitors, serverVars
<1>16. CASE Finish
  BY <1>16 DEF RecordInv, Position, Listed, On, Finish, Answer
<1>17. CASE WarnStore
  BY <1>17 DEF RecordInv, Position, Listed, On, WarnStore, trxVars, serverVars,
               MarkFinished
<1>18. CASE Disconnect
  BY <1>18 DEF RecordInv, Position, Listed, On, Disconnect, Forget
<1>19. ASSUME NEW c \in Conn, LoseConnection(c) PROVE RecordInv'
  BY <1>19 DEF RecordInv, Position, Listed, On, LoseConnection, callVars, trxVars,
               storeVars, Detached
<1>20. CASE LoseStore
  BY <1>20 DEF RecordInv, Position, Listed, On, LoseStore, callVars, trxVars,
               serverVars, storeVars
<1>21. CASE Crash
  BY <1>21 DEF RecordInv, Position, Listed, On, Crash, Forget
<1>22. CASE UNCHANGED vars
  BY <1>22 DEF RecordInv, Position, Listed, On, vars, callVars, trxVars, serverVars,
               storeVars
<1> QED
  BY <1>1, <1>2, <1>3, <1>4, <1>5, <1>6, <1>7, <1>8, <1>9, <1>10, <1>11, <1>12, <1>13,
     <1>14, <1>15, <1>16, <1>17, <1>18, <1>19, <1>20, <1>21, <1>22
  DEF Next, Application, Plugin, Faults

(* A transaction has its row before it begins, and a participant before it *)
(* is listed.                                                              *)
LEMMA RowsStep ==
  ASSUME TypeOK, ControlInv, ListInv, RowsInv, [Next]_vars
  PROVE  RowsInv'
<1>1. CASE Begin
  BY <1>1 DEF ControlInv, RowsInv, Position, Listed, On, Begin, StoreCall, Applied
<1>2. CASE LocalTransaction
  BY <1>2 DEF RowsInv, Position, Listed, On, LocalTransaction, serverVars, storeVars
<1>3. CASE Commit
  BY <1>3 DEF RowsInv, Position, Listed, Commit, serverVars, storeVars
<1>4. CASE Rollback
  BY <1>4 DEF RowsInv, Position, Listed, Rollback, serverVars, storeVars
<1>5. CASE Close
  BY <1>5 DEF RowsInv, Position, Listed, On, Close, serverVars, storeVars
<1>6. ASSUME NEW c \in Conn, InjectQuery(c) PROVE RowsInv'
  BY <1>6 DEF TypeOK, RowsInv, Position, Listed, InjectQuery, trxVars, storeVars,
              Query, After, Detached
<1>7. ASSUME NEW c \in Conn, ExecuteStatement(c) PROVE RowsInv'
  BY <1>7 DEF RowsInv, Position, Listed, ExecuteStatement, trxVars, storeVars
<1>8. CASE AddParticipant
  <2>1. next \in Conn
    BY <1>8, Added
  <2>2. Listed \subseteq Listed' /\ Listed' \subseteq Listed \union {next}
    BY <1>8, AddedSet
  <2>3. StateStore => /\ next \in Listed' \ Listed => partState'[next] = "XA_ACTIVE"
                      /\ \A c \in Conn : c # next => partState'[c] = partState[c]
                      /\ partState[next] # "absent" => partState'[next] # "absent"
    <3>1. CASE participants' = participants
      BY <1>8, <2>1, <3>1 DEF AddParticipant, Written, Applied, StoreWrite, TypeOK,
                              Listed, Position
    <3>2. CASE StateStore => partState' = [partState EXCEPT ![next] = "XA_ACTIVE"]
      BY <2>1, <3>2 DEF TypeOK
    <3> QED
      BY <1>8, <3>1, <3>2 DEF AddParticipant, StoreWrite, Written, Applied
  <2>4. Listed \subseteq Conn
    BY DEF TypeOK, Listed, Position
  <2> QED
    BY <1>8, <2>1, <2>2, <2>3, <2>4 DEF RowsInv, AddParticipant, On, serverVars
<1>9. CASE RunQuery
  BY <1>9 DEF RowsInv, Position, Listed, On, RunQuery, trxVars, storeVars
<1>10. CASE SkipParticipant
  BY <1>10 DEF RowsInv, Position, Listed, On, SkipParticipant, trxVars, serverVars,
               storeVars
<1>11. CASE QueryParticipant
  BY <1>11 DEF TypeOK, RowsInv, Position, Listed, On, QueryParticipant, Visiting,
               trxVars, storeVars, Query
<1>12. CASE RecordParticipant
  BY <1>12 DEF RowsInv, Position, Listed, On, RecordParticipant, serverVars, To
<1>13. CASE ParticipantFailure
  BY <1>13 DEF RowsInv, Position, Listed, On, ParticipantFailure, trxVars, serverVars
<1>14. CASE EndWalk
  BY <1>14 DEF RowsInv, Position, Listed, On, EndWalk, AfterWalk, trxVars, serverVars,
               storeVars
<1>15. CASE MonitorChangeState
  BY <1>15 DEF RowsInv, Position, Listed, On, MonitorChangeState, Target
<1>16. CASE Finish
  BY <1>16 DEF RowsInv, Position, Listed, On, Finish, Answer
<1>17. CASE WarnStore
  BY <1>17 DEF RowsInv, Position, Listed, On, WarnStore, trxVars, serverVars,
               MarkFinished
<1>18. CASE Disconnect
  BY <1>18 DEF RowsInv, Position, Listed, On, Disconnect, Forget
<1>19. ASSUME NEW c \in Conn, LoseConnection(c) PROVE RowsInv'
  BY <1>19 DEF RowsInv, Position, Listed, On, LoseConnection, callVars, trxVars,
               storeVars, Detached
<1>20. CASE LoseStore
  BY <1>20 DEF RowsInv, Position, Listed, On, LoseStore, callVars, trxVars,
               serverVars, storeVars
<1>21. CASE Crash
  BY <1>21 DEF RowsInv, Position, Listed, On, Crash, Forget
<1>22. CASE UNCHANGED vars
  BY <1>22 DEF RowsInv, Position, Listed, On, vars, callVars, trxVars, serverVars,
               storeVars
<1> QED
  BY <1>1, <1>2, <1>3, <1>4, <1>5, <1>6, <1>7, <1>8, <1>9, <1>10, <1>11, <1>12, <1>13,
     <1>14, <1>15, <1>16, <1>17, <1>18, <1>19, <1>20, <1>21, <1>22
  DEF Next, Application, Plugin, Faults

(* The answer of a call stays true: no branch it speaks of changes.        *)
LEMMA AnswerStep ==
  ASSUME NEW S \in SUBSET Conn,
         TypeOK, ControlInv, DecisionInv(S), AnswerIsTrue, [Next]_vars, ~PreparedStatements
  PROVE  AnswerIsTrue'
<1>1. CASE Begin
  BY <1>1 DEF AnswerIsTrue, Begin
<1>2. CASE LocalTransaction
  BY <1>2 DEF AnswerIsTrue, LocalTransaction, serverVars
<1>3. CASE Commit
  BY <1>3 DEF AnswerIsTrue, Commit, serverVars
<1>4. CASE Rollback
  BY <1>4 DEF AnswerIsTrue, Rollback, serverVars
<1>5. CASE Close
  BY <1>5 DEF AnswerIsTrue, Close, serverVars
<1>6. ASSUME NEW c \in Conn, InjectQuery(c) PROVE AnswerIsTrue'
  BY <1>6 DEF ControlInv, AnswerIsTrue, InjectQuery, trxVars
<1>7. ASSUME NEW c \in Conn, ExecuteStatement(c) PROVE AnswerIsTrue'
  BY <1>7 DEF ControlInv, AnswerIsTrue, ExecuteStatement, trxVars
<1>8. CASE AddParticipant
  BY <1>8 DEF AnswerIsTrue, AddParticipant, serverVars
<1>9. CASE RunQuery
  BY <1>9 DEF ControlInv, AnswerIsTrue, RunQuery, trxVars
<1>10. CASE SkipParticipant
  BY <1>10 DEF AnswerIsTrue, SkipParticipant, trxVars, serverVars
<1>11. CASE QueryParticipant
  BY <1>11 DEF ControlInv, AnswerIsTrue, Walks, QueryParticipant, Visiting, trxVars
<1>12. CASE RecordParticipant
  BY <1>12 DEF AnswerIsTrue, RecordParticipant, serverVars
<1>13. CASE ParticipantFailure
  BY <1>13 DEF AnswerIsTrue, ParticipantFailure, trxVars, serverVars
<1>14. CASE EndWalk
  BY <1>14 DEF AnswerIsTrue, EndWalk, trxVars, serverVars
<1>15. CASE MonitorChangeState
  BY <1>15 DEF AnswerIsTrue, MonitorChangeState, serverVars
<1>16. CASE Finish
  BY <1>16 DEF ControlInv, DecisionInv, AnswerIsTrue, Finish, serverVars, Answer
<1>17. CASE WarnStore
  BY <1>17 DEF AnswerIsTrue, WarnStore, trxVars, serverVars
<1>18. CASE Disconnect
  BY <1>18 DEF TypeOK, AnswerIsTrue, Disconnect, Forget, LoseAllConnections, Detached
<1>19. ASSUME NEW c \in Conn, LoseConnection(c) PROVE AnswerIsTrue'
  BY <1>19 DEF AnswerIsTrue, LoseConnection, trxVars, Detached
<1>20. CASE LoseStore
  BY <1>20 DEF AnswerIsTrue, LoseStore, trxVars, serverVars
<1>21. CASE Crash
  BY <1>21 DEF TypeOK, AnswerIsTrue, Crash, Forget, LoseAllConnections, Detached
<1>22. CASE UNCHANGED vars
  BY <1>22 DEF AnswerIsTrue, vars, trxVars, serverVars
<1> QED
  BY <1>1, <1>2, <1>3, <1>4, <1>5, <1>6, <1>7, <1>8, <1>9, <1>10, <1>11, <1>12, <1>13,
     <1>14, <1>15, <1>16, <1>17, <1>18, <1>19, <1>20, <1>21, <1>22
  DEF Next, Application, Plugin, Faults

(* The store is written after the server has answered.                     *)
LEMMA StoreStep ==
  ASSUME TypeOK, ParticipantInv, StoreNeverAhead, [Next]_vars
  PROVE  StoreNeverAhead'
<1>1. CASE Begin
  BY <1>1 DEF StoreNeverAhead, Begin, serverVars
<1>2. CASE LocalTransaction
  BY <1>2 DEF StoreNeverAhead, LocalTransaction, serverVars, storeVars
<1>3. CASE Commit
  BY <1>3 DEF StoreNeverAhead, Commit, serverVars, storeVars
<1>4. CASE Rollback
  BY <1>4 DEF StoreNeverAhead, Rollback, serverVars, storeVars
<1>5. CASE Close
  BY <1>5 DEF StoreNeverAhead, Close, serverVars, storeVars
<1>6. ASSUME NEW c \in Conn, InjectQuery(c) PROVE StoreNeverAhead'
  BY <1>6 DEF TypeOK, StoreNeverAhead, InjectQuery, storeVars, Query, Before
<1>7. ASSUME NEW c \in Conn, ExecuteStatement(c) PROVE StoreNeverAhead'
  BY <1>7 DEF StoreNeverAhead, ExecuteStatement, storeVars
<1>8. CASE AddParticipant
  BY <1>8 DEF StoreNeverAhead, AddParticipant, serverVars
<1>9. CASE RunQuery
  BY <1>9 DEF StoreNeverAhead, RunQuery, storeVars
<1>10. CASE SkipParticipant
  BY <1>10 DEF StoreNeverAhead, SkipParticipant, serverVars, storeVars
<1>11. CASE QueryParticipant
  BY <1>11 DEF TypeOK, StoreNeverAhead, QueryParticipant, storeVars, Query, Before,
               After, Detached
<1>12. CASE RecordParticipant
  BY <1>12 DEF ParticipantInv, StoreNeverAhead, Walks, RecordParticipant, Visiting,
               serverVars, To
<1>13. CASE ParticipantFailure
  BY <1>13 DEF StoreNeverAhead, ParticipantFailure, serverVars
<1>14. CASE EndWalk
  BY <1>14 DEF StoreNeverAhead, EndWalk, serverVars, storeVars
<1>15. CASE MonitorChangeState
  BY <1>15 DEF StoreNeverAhead, MonitorChangeState, serverVars
<1>16. CASE Finish
  BY <1>16 DEF StoreNeverAhead, Finish, serverVars
<1>17. CASE WarnStore
  BY <1>17 DEF StoreNeverAhead, WarnStore, serverVars
<1>18. CASE Disconnect
  BY <1>18 DEF StoreNeverAhead, Disconnect, Forget, LoseAllConnections, storeVars,
               Detached
<1>19. ASSUME NEW c \in Conn, LoseConnection(c) PROVE StoreNeverAhead'
  BY <1>19 DEF StoreNeverAhead, LoseConnection, storeVars, Detached
<1>20. CASE LoseStore
  BY <1>20 DEF StoreNeverAhead, LoseStore, serverVars, storeVars
<1>21. CASE Crash
  BY <1>21 DEF StoreNeverAhead, Crash, Forget, LoseAllConnections, storeVars, Detached
<1>22. CASE UNCHANGED vars
  BY <1>22 DEF StoreNeverAhead, vars, serverVars, storeVars
<1> QED
  BY <1>1, <1>2, <1>3, <1>4, <1>5, <1>6, <1>7, <1>8, <1>9, <1>10, <1>11, <1>12, <1>13,
     <1>14, <1>15, <1>16, <1>17, <1>18, <1>19, <1>20, <1>21, <1>22
  DEF Next, Application, Plugin, Faults

(* A transaction marked SUCCESS stays settled.                             *)
LEMMA SuccessStep ==
  ASSUME NEW S \in SUBSET Conn,
         TypeOK, ControlInv, DecisionInv(S), RecordInv, SuccessIsSettled, [Next]_vars,
         ~PreparedStatements
  PROVE  SuccessIsSettled'
<1>1. CASE Begin
  BY <1>1 DEF SuccessIsSettled, Begin, serverVars
<1>2. CASE LocalTransaction
  BY <1>2 DEF SuccessIsSettled, LocalTransaction, serverVars, storeVars
<1>3. CASE Commit
  BY <1>3 DEF SuccessIsSettled, Commit, serverVars, storeVars
<1>4. CASE Rollback
  BY <1>4 DEF SuccessIsSettled, Rollback, serverVars, storeVars
<1>5. CASE Close
  BY <1>5 DEF SuccessIsSettled, Close, serverVars, storeVars
<1>6. ASSUME NEW c \in Conn, InjectQuery(c) PROVE SuccessIsSettled'
  BY <1>6 DEF TypeOK, SuccessIsSettled, InjectQuery, storeVars, Query, Before, After,
              Detached
<1>7. ASSUME NEW c \in Conn, ExecuteStatement(c) PROVE SuccessIsSettled'
  BY <1>7 DEF RecordInv, SuccessIsSettled, ExecuteStatement, storeVars
<1>8. CASE AddParticipant
  BY <1>8 DEF SuccessIsSettled, AddParticipant, serverVars
<1>9. CASE RunQuery
  BY <1>9 DEF ControlInv, RecordInv, SuccessIsSettled, RunQuery, storeVars
<1>10. CASE SkipParticipant
  BY <1>10 DEF SuccessIsSettled, SkipParticipant, serverVars, storeVars
<1>11. CASE QueryParticipant
  BY <1>11 DEF ControlInv, RecordInv, SuccessIsSettled, Walks, QueryParticipant,
               Visiting, storeVars
<1>12. CASE RecordParticipant
  BY <1>12 DEF SuccessIsSettled, RecordParticipant, serverVars
<1>13. CASE ParticipantFailure
  BY <1>13 DEF SuccessIsSettled, ParticipantFailure, serverVars
<1>14. CASE EndWalk
  BY <1>14 DEF SuccessIsSettled, EndWalk, serverVars, storeVars
<1>15. CASE MonitorChangeState
  BY <1>15 DEF SuccessIsSettled, MonitorChangeState, serverVars
<1>16. CASE Finish
  BY <1>16 DEF ControlInv, DecisionInv, RecordInv, SuccessIsSettled, Finish, serverVars,
               MarkFinished
<1>17. CASE WarnStore
  BY <1>17 DEF SuccessIsSettled, WarnStore, serverVars, MarkFinished
<1>18. CASE Disconnect
  BY <1>18 DEF SuccessIsSettled, Disconnect, Forget, LoseAllConnections, storeVars,
               Detached
<1>19. ASSUME NEW c \in Conn, LoseConnection(c) PROVE SuccessIsSettled'
  BY <1>19 DEF SuccessIsSettled, LoseConnection, storeVars, Detached
<1>20. CASE LoseStore
  BY <1>20 DEF SuccessIsSettled, LoseStore, serverVars, storeVars
<1>21. CASE Crash
  BY <1>21 DEF SuccessIsSettled, Crash, Forget, LoseAllConnections, storeVars, Detached
<1>22. CASE UNCHANGED vars
  BY <1>22 DEF SuccessIsSettled, vars, serverVars, storeVars
<1> QED
  BY <1>1, <1>2, <1>3, <1>4, <1>5, <1>6, <1>7, <1>8, <1>9, <1>10, <1>11, <1>12, <1>13,
     <1>14, <1>15, <1>16, <1>17, <1>18, <1>19, <1>20, <1>21, <1>22
  DEF Next, Application, Plugin, Faults

(* A participant is recorded before its branch is prepared.                *)
LEMMA InDoubtStep ==
  ASSUME TypeOK, ControlInv, ListInv, RowsInv, InDoubtIsRecorded, [Next]_vars
  PROVE  InDoubtIsRecorded'
<1>1. CASE Begin
  BY <1>1 DEF InDoubtIsRecorded, Begin, serverVars
<1>2. CASE LocalTransaction
  BY <1>2 DEF InDoubtIsRecorded, LocalTransaction, serverVars, storeVars
<1>3. CASE Commit
  BY <1>3 DEF InDoubtIsRecorded, Commit, serverVars, storeVars
<1>4. CASE Rollback
  BY <1>4 DEF InDoubtIsRecorded, Rollback, serverVars, storeVars
<1>5. CASE Close
  BY <1>5 DEF InDoubtIsRecorded, Close, serverVars, storeVars
<1>6. ASSUME NEW c \in Conn, InjectQuery(c) PROVE InDoubtIsRecorded'
  BY <1>6 DEF TypeOK, InDoubtIsRecorded, InjectQuery, storeVars, Query, After, Detached
<1>7. ASSUME NEW c \in Conn, ExecuteStatement(c) PROVE InDoubtIsRecorded'
  BY <1>7 DEF InDoubtIsRecorded, ExecuteStatement, storeVars
<1>8. CASE AddParticipant
  BY <1>8 DEF InDoubtIsRecorded, AddParticipant, serverVars
<1>9. CASE RunQuery
  BY <1>9 DEF InDoubtIsRecorded, RunQuery, storeVars
<1>10. CASE SkipParticipant
  BY <1>10 DEF InDoubtIsRecorded, SkipParticipant, serverVars, storeVars
<1>11. CASE QueryParticipant
  BY <1>11 DEF TypeOK, ControlInv, RowsInv, InDoubtIsRecorded, Listed,
               QueryParticipant, Visiting, storeVars, Query, After, Detached, Command
<1>12. CASE RecordParticipant
  BY <1>12 DEF InDoubtIsRecorded, RecordParticipant, serverVars, To
<1>13. CASE ParticipantFailure
  BY <1>13 DEF InDoubtIsRecorded, ParticipantFailure, serverVars
<1>14. CASE EndWalk
  BY <1>14 DEF InDoubtIsRecorded, EndWalk, serverVars, storeVars
<1>15. CASE MonitorChangeState
  BY <1>15 DEF InDoubtIsRecorded, MonitorChangeState, serverVars, Target
<1>16. CASE Finish
  BY <1>16 DEF InDoubtIsRecorded, Finish, serverVars
<1>17. CASE WarnStore
  BY <1>17 DEF InDoubtIsRecorded, WarnStore, serverVars
<1>18. CASE Disconnect
  BY <1>18 DEF InDoubtIsRecorded, Disconnect, Forget, LoseAllConnections, storeVars,
               Detached
<1>19. ASSUME NEW c \in Conn, LoseConnection(c) PROVE InDoubtIsRecorded'
  BY <1>19 DEF InDoubtIsRecorded, LoseConnection, storeVars, Detached
<1>20. CASE LoseStore
  BY <1>20 DEF InDoubtIsRecorded, LoseStore, serverVars, storeVars
<1>21. CASE Crash
  BY <1>21 DEF InDoubtIsRecorded, Crash, Forget, LoseAllConnections, storeVars, Detached
<1>22. CASE UNCHANGED vars
  BY <1>22 DEF InDoubtIsRecorded, vars, serverVars, storeVars
<1> QED
  BY <1>1, <1>2, <1>3, <1>4, <1>5, <1>6, <1>7, <1>8, <1>9, <1>10, <1>11, <1>12, <1>13,
     <1>14, <1>15, <1>16, <1>17, <1>18, <1>19, <1>20, <1>21, <1>22
  DEF Next, Application, Plugin, Faults
-----------------------------------------------------------------------------
(* The initial state satisfies the invariant.                              *)
LEMMA InitInv == Init => Inv
<1> SUFFICES ASSUME Init PROVE Inv
  OBVIOUS
<1>1. Position = {} /\ Listed = {}
  BY DEF Init, Position, Listed
<1>2. TypeOK
  BY ConstantsAssumption DEF Init, TypeOK, Phase, Branch, XaState, Intents, Answers
<1>3. ControlInv /\ ListInv /\ PhaseInv /\ ParticipantInv /\ PreparedInv(Conn)
  BY <1>1 DEF Init, ControlInv, ListInv, PhaseInv, ParticipantInv, PreparedInv, All, On,
              Walks, Monitors, Finishes
<1>4. DecisionInv(Conn) /\ RecordInv /\ RowsInv
  BY <1>1 DEF Init, DecisionInv, RecordInv, RowsInv, On, Committed
<1>5. AnswerIsTrue /\ StoreNeverAhead /\ SuccessIsSettled /\ InDoubtIsRecorded
  BY DEF Init, AnswerIsTrue, StoreNeverAhead, SuccessIsSettled, InDoubtIsRecorded
<1> QED
  BY <1>2, <1>3, <1>4, <1>5 DEF Inv, AgreementInv

(* The parts of AgreementInv support each other, but none of them needs    *)
(* to know what the branches decide.                                       *)
LEMMA AgreementStep ==
  ASSUME AgreementInv, [Next]_vars
  PROVE  AgreementInv'
<1> USE DEF AgreementInv
<1>1. TypeOK'
  BY TypeStep
<1>2. ControlInv' /\ ListInv' /\ PhaseInv' /\ ParticipantInv' /\ PreparedInv(Conn)'
  BY ControlStep, ListStep, PhaseStep, ParticipantStep, PreparedStep
<1>3. RecordInv' /\ RowsInv' /\ StoreNeverAhead' /\ InDoubtIsRecorded'
  BY RecordStep, RowsStep, StoreStep, InDoubtStep
<1> QED
  BY <1>1, <1>2, <1>3

(* The rest does: a prepared statement, of which the coordinator does not  *)
(* hear, would let work be done where nobody commits it.                   *)
LEMMA InvStep ==
  ASSUME Inv, [Next]_vars, ~PreparedStatements
  PROVE  Inv'
<1> USE DEF Inv
<1>1. AgreementInv'
  BY AgreementStep
<1>2. DecisionInv(Conn)' /\ AnswerIsTrue' /\ SuccessIsSettled'
  BY DecisionStep, AnswerStep, SuccessStep DEF AgreementInv
<1> QED
  BY <1>1, <1>2

-----------------------------------------------------------------------------
(* The client, the servers and the state store agree in every state the    *)
(* system can reach, whatever statements the application runs.             *)
THEOREM Agreement == Spec => []AgreementInv
<1>1. AgreementInv /\ [Next]_vars => AgreementInv'
  BY AgreementStep
<1>2. Init => AgreementInv
  BY InitInv DEF Inv
<1> QED
  BY <1>1, <1>2, PTL DEF Spec

(* Every variable of the coordinator keeps its type: the walks, the states *)
(* of the participants and the rows of the store, for any connections.     *)
THEOREM TypeCorrect == Spec => []TypeOK
<1>1. AgreementInv => TypeOK
  BY DEF AgreementInv
<1> QED
  BY <1>1, Agreement, PTL

(* The tables of the state store lag behind the servers and are never      *)
(* ahead of them: participant_change_state runs after the XA statement.    *)
THEOREM StoreLags == Spec => []StoreNeverAhead
<1>1. AgreementInv => StoreNeverAhead
  BY DEF AgreementInv
<1> QED
  BY <1>1, Agreement, PTL

(* A branch that can outlive its client is known to the state store, where *)
(* the garbage collection looks for it: add_participant comes before any   *)
(* XA PREPARE.                                                             *)
THEOREM NothingUnrecorded == Spec => []InDoubtIsRecorded
<1>1. AgreementInv => InDoubtIsRecorded
  BY DEF AgreementInv
<1> QED
  BY <1>1, Agreement, PTL

(* The inductive invariant holds for an application that executes prepared *)
(* statements only on connections that take part in its transaction.       *)
THEOREM Invariance == ASSUME ~PreparedStatements PROVE Spec => []Inv
<1>1. Inv /\ [Next]_vars => Inv'
  BY InvStep
<1> QED
  BY <1>1, InitInv, PTL DEF Spec

(* No server commits while another one, on which a statement of the        *)
(* transaction ran, has rolled back: the two phases of                     *)
(* mysqlnd_ms_xa_monitor_direct_commit keep this over every fault.         *)
THEOREM AtomicOutcome == ASSUME ~PreparedStatements PROVE Spec => []AllOrNothing
<1>1. Inv => AllOrNothing
  BY DEF Inv, DecisionInv, Committed, AllOrNothing
<1> QED
  BY <1>1, Invariance, PTL

(* What mysqlnd_ms_xa_commit and mysqlnd_ms_xa_rollback tell the           *)
(* application is what has happened on the servers.                        *)
THEOREM TrueAnswers == ASSUME ~PreparedStatements PROVE Spec => []AnswerIsTrue
<1>1. Inv => AnswerIsTrue
  BY DEF Inv
<1> QED
  BY <1>1, Invariance, PTL

(* The garbage collection may delete a transaction that monitor_finish has *)
(* marked SUCCESS without a look at its participants.                      *)
THEOREM SafeToDelete == ASSUME ~PreparedStatements PROVE Spec => []SuccessIsSettled
<1>1. Inv => SuccessIsSettled
  BY DEF Inv
<1> QED
  BY <1>1, Invariance, PTL

-----------------------------------------------------------------------------
(* What the abstract specification sees of a branch.                       *)
LEMMA FateOf ==
  /\ \A b \in Branch : Fate(b) \in {"open", "prepared", "committed", "aborted"}
  /\ \A b \in Branch : Fate(b) = "committed" <=> b = "committed"
  /\ \A b \in Branch : Fate(b) = "prepared" <=> b = "prepared"
  /\ \A b \in Branch : Fate(b) = "aborted" <=> b = "aborted"
  /\ \A b \in Branch : Fate(b) = "open" <=> b \in {"none", "active", "idle"}
  BY DEF Fate, Branch

(* Branches that are forgotten together map to one abstract rollback.      *)
LEMMA AbortRefined ==
  ASSUME TypeOK, NEW D \in SUBSET Conn,
         \A c \in D : branch[c] \notin {"committed", "aborted"},
         Committed => D \intersect worked = {},
         branch' = [c \in Conn |-> IF c \in D THEN "aborted" ELSE branch[c]],
         UNCHANGED worked
  PROVE  Abstract!Next
<1>1. \A c \in D : Fate(branch[c]) \in {"open", "prepared"}
  BY FateOf DEF TypeOK, Branch
<1>2. Abstract!Committed => D \intersect worked = {}
  BY FateOf DEF TypeOK, Committed, Abstract!Committed
<1>3. [c \in Conn |-> Fate(branch'[c])]
        = [c \in Conn |-> IF c \in D THEN "aborted" ELSE Fate(branch[c])]
  BY DEF Fate
<1>4. Abstract!Abort(D)
  BY <1>1, <1>2, <1>3 DEF Abstract!Abort
<1> QED
  BY <1>4 DEF Abstract!Next

(* The same for a single branch.                                           *)
LEMMA OneAbortRefined ==
  ASSUME TypeOK, NEW c \in Conn,
         branch[c] \notin {"committed", "aborted"},
         Committed => c \notin worked,
         branch' = [branch EXCEPT ![c] = "aborted"],
         UNCHANGED worked
  PROVE  Abstract!Next
<1>1. branch' = [d \in Conn |-> IF d \in {c} THEN "aborted" ELSE branch[d]]
  BY DEF TypeOK
<1>2. {c} \in SUBSET Conn /\ \A d \in {c} : branch[d] \notin {"committed", "aborted"}
  OBVIOUS
<1>3. Committed => {c} \intersect worked = {}
  OBVIOUS
<1> QED
  BY <1>1, <1>2, <1>3, AbortRefined

(* XA BEGIN and XA END are invisible: the branch stays open.               *)
LEMMA SameFate ==
  ASSUME TypeOK, NEW c \in Conn, NEW b \in Branch, Fate(b) = Fate(branch[c]),
         branch' = [branch EXCEPT ![c] = b],
         UNCHANGED worked
  PROVE  UNCHANGED Abstract!vars
<1>1. \A d \in Conn : Fate(branch'[d]) = Fate(branch[d])
  BY DEF TypeOK
<1> QED
  BY <1>1 DEF Abstract!vars

(* XA PREPARE maps to the vote of a server.                                *)
LEMMA PrepareRefined ==
  ASSUME TypeOK, NEW c \in Conn, branch[c] = "idle",
         branch' = [branch EXCEPT ![c] = "prepared"],
         UNCHANGED worked
  PROVE  Abstract!Next
<1>1. \A d \in Conn : Fate(branch'[d]) = IF d = c THEN "prepared" ELSE Fate(branch[d])
  BY DEF TypeOK, Fate
<1>2. Fate(branch[c]) = "open"
  BY DEF Fate
<1>3. Abstract!Prepare(c)
  BY <1>1, <1>2 DEF Abstract!Prepare
<1> QED
  BY <1>3 DEF Abstract!Next

(* XA COMMIT maps to an abstract commit if all the work is prepared.       *)
LEMMA CommitRefined ==
  ASSUME TypeOK, NEW c \in Conn, branch[c] = "prepared",
         \A d \in worked : branch[d] \in {"prepared", "committed"},
         branch' = [branch EXCEPT ![c] = "committed"],
         UNCHANGED worked
  PROVE  Abstract!Next
<1>1. \A d \in Conn : Fate(branch'[d]) = IF d = c THEN "committed" ELSE Fate(branch[d])
  BY DEF TypeOK, Fate
<1>2. Fate(branch[c]) = "prepared"
  BY DEF Fate
<1>3. Abstract!AllReady
  BY DEF Abstract!AllReady, TypeOK, Fate
<1>4. Abstract!Commit(c)
  BY <1>1, <1>2, <1>3 DEF Abstract!Commit
<1> QED
  BY <1>4 DEF Abstract!Next

(* A statement in an active branch, or before one, maps to abstract work.  *)
LEMMA WorkRefined ==
  ASSUME TypeOK, NEW c \in Conn, branch[c] \in {"none", "active"}, ~Committed,
         worked' = worked \union {c},
         UNCHANGED branch
  PROVE  Abstract!Next
<1>1. Fate(branch[c]) = "open" 
  BY DEF Fate
<1>2. ~Abstract!Committed
  BY FateOf DEF TypeOK, Committed, Abstract!Committed
<1>3. Abstract!Work(c)
  BY <1>1, <1>2 DEF Abstract!Work
<1> QED
  BY <1>3 DEF Abstract!Next

(* The initial states map to initial states.                               *)
LEMMA InitRefined == Init => Abstract!Init
  BY DEF Init, Abstract!Init, Fate

(* Every step maps to an abstract step or changes nothing there.           *)
LEMMA StepRefined ==
  ASSUME Inv, [Next]_vars, ~PreparedStatements
  PROVE  [Abstract!Next]_(Abstract!vars)
<1> USE DEF Inv, AgreementInv
<1>1. CASE UNCHANGED <<branch, worked>>
  BY <1>1 DEF Abstract!vars
<1>2. ASSUME NEW c \in Conn, InjectQuery(c) PROVE Abstract!Next \/ UNCHANGED Abstract!vars
  <2>1. CASE UNCHANGED <<branch, worked>>
    BY <2>1, <1>1
  <2>2. CASE /\ branch[c] = "none" /\ branch' = [branch EXCEPT ![c] = "active"]
             /\ UNCHANGED worked
    <3>1. Fate("active") = Fate(branch[c]) /\ "active" \in Branch
      BY <2>2 DEF Fate, Branch
    <3> QED
      BY <2>2, <3>1, SameFate
  <2>3. CASE /\ branch[c] = "none" /\ branch' = [branch EXCEPT ![c] = "aborted"]
             /\ UNCHANGED worked
    <3>1. ~Committed
      BY <1>2 DEF InjectQuery, ControlInv, DecisionInv
    <3> QED
      BY <2>3, <3>1, OneAbortRefined
  <2> QED
    BY <1>2, <2>1, <2>2, <2>3 DEF InjectQuery, Query, Before, After, Detached
<1>3. CASE RunQuery
  <2>1. CASE branch[next] = "active" /\ worked' = worked \union {next}
    <3>1. next \in Conn /\ ~Committed /\ UNCHANGED branch
      BY <1>3 DEF RunQuery, TypeOK, DecisionInv, Undecided
    <3> QED
      BY <2>1, <3>1, WorkRefined
  <2> QED
    BY <1>3, <1>1, <2>1 DEF RunQuery
<1>4. CASE QueryParticipant
  <2> DEFINE c == participants[cur]
  <2>1. c \in Conn /\ c \in Listed /\ pc \in Walks /\ UNCHANGED worked
    BY <1>4 DEF QueryParticipant, Visiting, TypeOK, Position, Listed
  <2>2. PICK o \in Outcome : Query(c, Command(pc), o)
    BY <1>4 DEF QueryParticipant
  <2> HIDE DEF c
  <2>3. CASE UNCHANGED branch
    BY <2>1, <2>3, <1>1
  <2>4. CASE pc = "END" /\ branch[c] = "active" /\ branch' = [branch EXCEPT ![c] = "idle"]
    <3>1. Fate("idle") = Fate(branch[c]) /\ "idle" \in Branch
      BY <2>4 DEF Fate, Branch
    <3> QED
      BY <2>1, <2>4, <3>1, SameFate
  <2>5. CASE branch[c] = "idle" /\ branch' = [branch EXCEPT ![c] = "prepared"]
    BY <2>1, <2>5, PrepareRefined
  <2>6. CASE pc = "COMMIT" /\ branch[c] = "prepared" /\ branch' = [branch EXCEPT ![c] = "committed"]
    <3>1. \A d \in Listed : branch[d] \in {"prepared", "committed"}
      BY <2>6 DEF DecisionInv, TypeOK, Listed, Position
    <3>2. worked \subseteq Listed
      BY <2>6 DEF DecisionInv, ControlInv
    <3> QED
      BY <2>1, <2>6, <3>1, <3>2, CommitRefined
  <2>7. CASE /\ pc \in {"END", "ROLLBACK", "ROLLBACK_AGAIN"}
             /\ branch[c] \in {"active", "idle", "prepared"}
             /\ branch' = [branch EXCEPT ![c] = "aborted"]
    <3>1. ~Committed
      BY <2>7 DEF DecisionInv, Undecided
    <3> QED
      BY <2>1, <2>7, <3>1, OneAbortRefined
  <2>8. \/ UNCHANGED branch
        \/ /\ branch[c] \in Before(Command(pc))
           /\ \/ branch' = [branch EXCEPT ![c] = After(Command(pc))]
              \/ branch' = [branch EXCEPT ![c] = Detached(After(Command(pc)))]
    BY <2>2 DEF Query
  <2> QED
    BY <2>1, <2>3, <2>4, <2>5, <2>6, <2>7, <2>8
       DEF Walks, Command, Rollbacks, Before, After, Detached
<1>5. ASSUME NEW c \in Conn, LoseConnection(c) PROVE Abstract!Next \/ UNCHANGED Abstract!vars
  <2>1. CASE branch[c] \in {"active", "idle"}
    <3>1. branch' = [branch EXCEPT ![c] = "aborted"] /\ UNCHANGED worked
      BY <1>5, <2>1 DEF LoseConnection, Detached
    <3>2. Committed => c \notin worked
      BY <2>1 DEF DecisionInv
    <3> QED
      BY <2>1, <3>1, <3>2, OneAbortRefined
  <2>2. CASE branch[c] \notin {"active", "idle"}
    BY <1>1, <1>5, <2>2 DEF LoseConnection, Detached, TypeOK
  <2> QED
    BY <2>1, <2>2
<1>6. CASE Disconnect \/ Crash
  <2> DEFINE D == {c \in Conn : branch[c] \in {"active", "idle"}}
  <2>1. branch' = [c \in Conn |-> IF c \in D THEN "aborted" ELSE branch[c]] /\ UNCHANGED worked
    BY <1>6 DEF Disconnect, Crash, Forget, LoseAllConnections, Detached
  <2>2. Committed => D \intersect worked = {}
    BY DEF DecisionInv
  <2>3. D \in SUBSET Conn /\ \A c \in D : branch[c] \notin {"committed", "aborted"}
    OBVIOUS
  <2> HIDE DEF D
  <2> QED
    BY <2>1, <2>2, <2>3, AbortRefined
<1>7. \/ UNCHANGED <<branch, worked>> \/ RunQuery \/ QueryParticipant \/ Disconnect \/ Crash
      \/ \E c \in Conn : InjectQuery(c) \/ ExecuteStatement(c) \/ LoseConnection(c)
  <2>1. CASE Begin \/ LocalTransaction \/ Commit \/ Rollback \/ Close
    BY <2>1 DEF Begin, LocalTransaction, Commit, Rollback, Close, serverVars
  <2>2. CASE AddParticipant \/ SkipParticipant \/ RecordParticipant \/ ParticipantFailure
    BY <2>2 DEF AddParticipant, SkipParticipant, RecordParticipant, ParticipantFailure, serverVars
  <2>3. CASE EndWalk \/ MonitorChangeState \/ Finish \/ WarnStore \/ LoseStore
    BY <2>3 DEF EndWalk, MonitorChangeState, Finish, WarnStore, LoseStore, serverVars
  <2>4. CASE UNCHANGED vars
    BY <2>4 DEF vars, serverVars
  <2> QED
    BY <2>1, <2>2, <2>3, <2>4 DEF Next, Application, Plugin, Faults
<1>8. ASSUME NEW c \in Conn, ExecuteStatement(c) PROVE Abstract!Next \/ UNCHANGED Abstract!vars
  <2>1. ~Committed
    BY <1>8 DEF ExecuteStatement, ControlInv, DecisionInv
  <2> QED
    BY <1>8, <2>1, WorkRefined DEF ExecuteStatement, TypeOK
<1> QED
  BY <1>1, <1>2, <1>3, <1>4, <1>5, <1>6, <1>7, <1>8

(* Once a server has committed, no step undoes a prepared branch.          *)
LEMMA StandsStep ==
  ASSUME Inv, [Next]_vars, Committed, NEW c \in Conn, branch[c] = "prepared"
  PROVE  branch'[c] \in {"prepared", "committed"}
<1> USE DEF Inv, AgreementInv, TypeOK
<1>1. CASE UNCHANGED branch
  BY <1>1
<1>2. ASSUME NEW d \in Conn, InjectQuery(d) PROVE branch'[c] \in {"prepared", "committed"}
  BY <1>2 DEF InjectQuery, Query, Before
<1>3. CASE QueryParticipant
  <2>1. pc \notin Undecided
    BY DEF DecisionInv
  <2>2. pc \in {"COMMIT"}
    BY <1>3, <2>1 DEF QueryParticipant, Visiting, Walks, Undecided
  <2>3. Command(pc) = "COMMIT"
    BY <2>2 DEF Command, Rollbacks
  <2>4. PICK o \in Outcome : Query(participants[cur], "COMMIT", o)
    BY <1>3, <2>3 DEF QueryParticipant
  <2>5. participants[cur] \in Conn
    BY <1>3 DEF QueryParticipant, Visiting, Position
  <2> QED
    BY <2>4, <2>5 DEF Query, After, Detached
<1>4. CASE Disconnect \/ Crash \/ \E d \in Conn : LoseConnection(d)
  BY <1>4 DEF Disconnect, Crash, Forget, LoseAllConnections, LoseConnection, Detached
<1>5. \/ UNCHANGED branch \/ QueryParticipant \/ Disconnect \/ Crash
      \/ \E d \in Conn : InjectQuery(d) \/ LoseConnection(d)
  <2>1. CASE Begin \/ LocalTransaction \/ Commit \/ Rollback \/ Close
    BY <2>1 DEF Begin, LocalTransaction, Commit, Rollback, Close, serverVars
  <2>2. CASE AddParticipant \/ SkipParticipant \/ RecordParticipant \/ ParticipantFailure
    BY <2>2 DEF AddParticipant, SkipParticipant, RecordParticipant, ParticipantFailure, serverVars
  <2>3. CASE EndWalk \/ MonitorChangeState \/ Finish \/ WarnStore \/ LoseStore
    BY <2>3 DEF EndWalk, MonitorChangeState, Finish, WarnStore, LoseStore, serverVars
  <2>4. CASE UNCHANGED vars
    BY <2>4 DEF vars, serverVars
  <2>5. CASE RunQuery \/ \E d \in Conn : ExecuteStatement(d)
    BY <2>5 DEF RunQuery, ExecuteStatement
  <2> QED
    BY <2>1, <2>2, <2>3, <2>4, <2>5 DEF Next, Application, Plugin, Faults
<1> QED
  BY <1>1, <1>2, <1>3, <1>4, <1>5

-----------------------------------------------------------------------------
(* Once one server has committed, the others can only follow: neither the  *)
(* coordinator's error paths nor a fault takes a prepared branch back.     *)
THEOREM DecisionIsFinal == ASSUME ~PreparedStatements PROVE Spec => DecisionStands
<1>1. Inv /\ [Next]_vars
      => [Committed => \A c \in Conn :
            branch[c] = "prepared" => branch'[c] \in {"prepared", "committed"}]_vars
  BY StandsStep
<1> QED
  BY <1>1, Invariance, PTL DEF Spec, DecisionStands

(* Every behaviour of the coordinator, of its store and of the servers,    *)
(* with all their faults, is a behaviour of AtomicCommit.                  *)
THEOREM Refinement == ASSUME ~PreparedStatements PROVE Spec => ImplementsAtomicCommit
<1>1. Inv /\ [Next]_vars => [Abstract!Next]_(Abstract!vars)
  BY StepRefined
<1> QED
  BY <1>1, Invariance, InitRefined, PTL DEF Spec, Abstract!Spec, ImplementsAtomicCommit
=============================================================================

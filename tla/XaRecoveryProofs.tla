-------------------------- MODULE XaRecoveryProofs --------------------------
(***************************************************************************)
(* The garbage collection next to the coordinator, for any number of       *)
(* connections and of runs, and whether or not the transaction may time    *)
(* out while its client is at work: what it deletes is settled, and what   *)
(* it commits had been decided.  The steps of the coordinator are those of *)
(* XaCoordinatorProofs; the invariant is weaker, for rows may go and       *)
(* branches of Local may be resolved behind the coordinator's back.        *)
(***************************************************************************)
EXTENDS XaRecovery, XaCoordinatorProofs

(* A step of the garbage collection resolves prepared branches of Local    *)
(* only, and commits only if it must; it writes nothing about a            *)
(* participant's state, and a row it does not delete stays as it is.       *)
LEMMA GcEffect ==
  ASSUME GcTypeOK, Gc
  PROVE  /\ branch' \in [Conn -> Branch]
         /\ \A c \in Conn :
               \/ branch'[c] = branch[c]
               \/ /\ c \in Local /\ branch[c] = "prepared"
                  /\ branch'[c] = IF mustCommit THEN "committed" ELSE "aborted"
         /\ \/ UNCHANGED <<trxState, trxFinished, partState>>
            \/ /\ trxState' = "absent" /\ trxFinished' = "NO"
               /\ partState' = [c \in Conn |-> "absent"]
<1> USE Members DEF GcTypeOK, TypeOK
<1>1. CASE GcErase
  BY <1>1 DEF GcErase, DeleteRows
<1>2. CASE GcBegin
  BY <1>2 DEF GcBegin, storeVars
<1>3. CASE GcForgotten
  BY <1>3 DEF GcForgotten, storeVars
<1>4. CASE GcRecover
  BY <1>4 DEF GcRecover, storeVars
<1>5. CASE GcStart
  BY <1>5 DEF GcStart, storeVars
<1>6. CASE UNCHANGED storeVars /\ \E c \in Resolvable : Resolve(c)
  <2>1. PICK c \in Conn : /\ c \in Local /\ branch[c] = "prepared" /\ Resolve(c)
    BY <1>6, RecoveryAssumption DEF Resolvable
  <2> QED
    BY <1>6, <2>1 DEF Resolve, storeVars
<1>7. CASE GcGiveUp
  BY <1>7 DEF GcGiveUp, storeVars
<1>8. CASE GcFinish
  BY <1>8 DEF GcFinish, DeleteRows, CommitRows
<1>9. CASE UNCHANGED <<branch, storeVars>>
  BY <1>9 DEF storeVars
<1> QED
  BY <1>1, <1>2, <1>3, <1>4, <1>5, <1>6, <1>7, <1>8, <1>9
     DEF Gc, Collection, GcResolve, GcCrash

(* The rows of the participants still to look at are rows of the type.     *)
LEMMA FailedRows == ASSUME TypeOK PROVE Failed \in SUBSET Row
<1>1. ASSUME NEW c \in Conn, partState[c] # "absent", partHealth[c] # "GC_DONE"
      PROVE  [conn |-> c, state |-> partState[c], health |-> partHealth[c]] \in Row
  BY <1>1 DEF TypeOK, Row
<1> QED
  BY <1>1 DEF Failed

(* No step takes a variable of the garbage collection out of its type.     *)
LEMMA GcTypeStep ==
  ASSUME GcTypeOK, [GcNext]_allVars
  PROVE  GcTypeOK'
<1>0. runs \in Nat /\ MaxRuns \in Nat /\ runs <= MaxRuns
  BY RecoveryAssumption DEF GcTypeOK
<1>1. CASE [Next]_vars /\ UNCHANGED gcVars
  <2>1. TypeOK'
    BY <1>1, TypeStep DEF GcTypeOK
  <2> QED
    BY <1>1, <2>1 DEF GcTypeOK, gcVars
<1>2. CASE Gc /\ UNCHANGED <<callVars, trxVars, links, worked>>
  <2>1. /\ branch' \in [Conn -> Branch]
        /\ partState' \in [Conn -> XaState \union {"absent"}]
        /\ trxState' \in XaState \union {"absent"}
        /\ trxFinished' \in {"NO", "SUCCESS", "FAILURE"}
    BY <1>2, GcEffect DEF GcTypeOK, TypeOK
  <2>2. partHealth' \in [Conn -> {"OK", "CLIENT_ERROR", "GC_DONE"}]
    <3> USE DEF GcTypeOK, TypeOK
    <3>1. CASE CommitRows
      BY <3>1 DEF CommitRows
    <3>2. CASE DeleteRows
      BY <3>2 DEF DeleteRows
    <3> QED
      BY <1>2, <3>1, <3>2
         DEF Gc, Collection, GcErase, GcBegin, GcForgotten, GcRecover, GcStart, GcResolve,
             GcGiveUp, GcFinish, GcCrash, storeVars
  <2>3. TypeOK'
    BY <1>2, <2>1, <2>2 DEF GcTypeOK, TypeOK, callVars, trxVars
  <2>4. /\ gc' \in {"idle", "visit", "start", "resolve", "commit"}
        /\ todo' \in SUBSET Row
        /\ row' \in Row \union {NoRow}
        /\ gc' \in {"start", "resolve"} => row' \in Row
        /\ mustCommit' \in BOOLEAN
        /\ done' \in SUBSET Conn
        /\ runs' \in 0..MaxRuns
    <3> USE DEF GcTypeOK
    <3>1. CASE GcErase
      BY <1>0, <3>1 DEF GcErase
    <3>2. CASE GcBegin
      BY <1>0, <3>2, FailedRows DEF GcBegin, MustCommit
    <3>3. CASE GcForgotten
      BY <3>3 DEF GcForgotten, Visit, Row
    <3>4. CASE GcRecover
      BY <3>4 DEF GcRecover, Visit, Row
    <3>5. CASE GcStart
      BY <3>5 DEF GcStart, Row
    <3>6. CASE GcResolve
      BY <3>6 DEF GcResolve, Row
    <3>7. CASE GcGiveUp
      BY <3>7 DEF GcGiveUp
    <3>8. CASE GcFinish
      BY <3>8 DEF GcFinish, Reset
    <3>9. CASE GcCrash
      BY <3>9 DEF GcCrash, Reset
    <3> QED
      BY <1>2, <3>1, <3>2, <3>3, <3>4, <3>5, <3>6, <3>7, <3>8, <3>9 DEF Gc, Collection
  <2> QED
    BY <2>3, <2>4 DEF GcTypeOK
<1> QED
  BY <1>1, <1>2 DEF GcNext, allVars

(* A run that must commit has read a row in state XA_COMMIT, and the store *)
(* is not ahead of the servers.                                            *)
LEMMA RunStep ==
  ASSUME GcTypeOK, StoreNeverAhead, RunInv, [GcNext]_allVars
  PROVE  RunInv'
<1>1. ASSUME NEW c \in Conn, branch[c] = "committed" PROVE branch'[c] = "committed"
  <2>1. CASE Gc
    BY <1>1, <2>1, GcEffect
  <2>2. CASE [Next]_vars
    <3> USE DEF GcTypeOK, TypeOK
    <3>1. CASE QueryParticipant
      BY <1>1, <3>1 DEF QueryParticipant, Query, Before, Command, Walks, Visiting
    <3>2. ASSUME NEW d \in Conn, InjectQuery(d) PROVE branch'[c] = "committed"
      BY <1>1, <3>2 DEF InjectQuery, Query, Before
    <3>3. ASSUME NEW d \in Conn, LoseConnection(d) PROVE branch'[c] = "committed"
      BY <1>1, <3>3 DEF LoseConnection, Detached
    <3>4. CASE Crash \/ Disconnect
      BY <1>1, <3>4 DEF Crash, Disconnect, Forget, LoseAllConnections, Detached
    <3>5. CASE UNCHANGED branch
      BY <1>1, <3>5
    <3>6. \/ UNCHANGED branch \/ QueryParticipant \/ Crash \/ Disconnect
          \/ \E d \in Conn : InjectQuery(d) \/ LoseConnection(d)
      BY <2>2
         DEF Next, Application, Plugin, Faults, Begin, LocalTransaction, Commit, Rollback,
             Close, ExecuteStatement, AddParticipant, RunQuery, SkipParticipant,
             RecordParticipant, ParticipantFailure, EndWalk, MonitorChangeState, Finish,
             WarnStore, LoseStore, vars, serverVars
    <3> QED
      BY <3>1, <3>2, <3>3, <3>4, <3>5, <3>6
  <2> QED
    BY <2>1, <2>2 DEF GcNext, allVars
<1>2. Committed => Committed'
  BY <1>1 DEF Committed
<1>3. CASE UNCHANGED gcVars
  BY <1>2, <1>3 DEF RunInv, gcVars
<1>4. CASE GcBegin
  <2>1. MustCommit(Failed) => Committed
    <3> SUFFICES ASSUME MustCommit(Failed) PROVE Committed
      OBVIOUS
    <3>1. PICK c \in Conn : partState[c] = "XA_COMMIT"
      BY DEF MustCommit, Failed
    <3> QED
      BY <3>1 DEF StoreNeverAhead, Committed
  <2> QED
    BY <1>2, <1>4, <2>1 DEF GcBegin, RunInv
<1>5. CASE GcErase \/ GcFinish \/ GcCrash
  BY <1>2, <1>5 DEF GcErase, Idle, GcFinish, GcCrash, Reset, RunInv
<1>6. CASE GcForgotten \/ GcRecover
  BY <1>2, <1>6 DEF GcForgotten, GcRecover, Visit, RunInv, GcTypeOK
<1>7. CASE GcStart \/ GcResolve \/ GcGiveUp
  BY <1>2, <1>7 DEF GcStart, GcResolve, GcGiveUp, RunInv
<1> QED
  BY <1>3, <1>4, <1>5, <1>6, <1>7 DEF GcNext, Gc, Collection, allVars

(* The garbage collection disturbs no part of the invariant: it resolves   *)
(* only what is prepared, and only on connections of Local.                *)
LEMMA GcStep ==
  ASSUME RecoveryAgreementInv, Gc, UNCHANGED <<callVars, trxVars, links, worked>>
  PROVE  /\ ControlInv' /\ ListInv' /\ PhaseInv' /\ ParticipantInv'
         /\ PreparedInv(Conn \ Local)' /\ RecordInv' /\ StoreNeverAhead'
         /\ DecisionInv(Conn \ Local) => DecisionInv(Conn \ Local)'
         /\ SuccessIsSettled => SuccessIsSettled'
         /\ AnswerIsTrue => AnswerIsTrue'
<1> DEFINE S == Conn \ Local
<1>1. /\ UNCHANGED <<callVars, trxVars, links, worked>>
      /\ Position' = Position /\ Listed' = Listed /\ Listed \subseteq Conn
      /\ worked \subseteq Conn
  BY DEF trxVars, Position, Listed, RecoveryAgreementInv, GcTypeOK, TypeOK
<1>2. /\ \A c \in Conn :
           \/ branch'[c] = branch[c]
           \/ /\ c \notin S /\ branch[c] = "prepared"
              /\ branch'[c] = IF mustCommit THEN "committed" ELSE "aborted"
      /\ \/ UNCHANGED <<trxState, trxFinished, partState>>
         \/ /\ trxState' = "absent" /\ trxFinished' = "NO"
            /\ partState' = [c \in Conn |-> "absent"]
  BY GcEffect DEF RecoveryAgreementInv
<1>3. Committed' => Committed
  BY <1>2 DEF RecoveryAgreementInv, RunInv, Committed
<1> HIDE DEF S
<1>4. ControlInv' /\ ListInv' /\ PhaseInv'
  BY <1>1, <1>2 DEF RecoveryAgreementInv, ControlInv, ListInv, PhaseInv, Ahead, Behind, All, On,
                    callVars, trxVars
<1>5. ParticipantInv' /\ PreparedInv(S)'
  <2>1. PreparedInv(S)
    BY DEF RecoveryAgreementInv, S
  <2>2. \A i \in Position : participants[i] \in Conn
    BY DEF RecoveryAgreementInv, GcTypeOK, TypeOK, Position
  <2>3. \A i \in Position : LET c == participants[i] IN
           /\ branch[c] # "prepared" \/ c \in S => branch'[c] = branch[c]
           /\ branch[c] \in {"prepared", "committed", "aborted"}
                => branch'[c] \in {"prepared", "committed", "aborted"}
    BY <1>2, <2>2
  <2>4. ParticipantInv'
    BY <1>1, <2>3 DEF RecoveryAgreementInv, ParticipantInv, callVars, trxVars
  <2>5. PreparedInv(S)'
    BY <1>1, <2>1, <2>3 DEF RecoveryAgreementInv, ParticipantInv, PreparedInv, callVars, trxVars,
                            Walks, S
  <2> QED
    BY <2>4, <2>5
<1>6. RecordInv'
  BY <1>1, <1>2 DEF RecoveryAgreementInv, RecordInv, On, callVars, trxVars
<1>7. DecisionInv(S) => DecisionInv(S)'
  BY <1>1, <1>2, <1>3 DEF DecisionInv, callVars, trxVars
<1>8. StoreNeverAhead'
  BY <1>2 DEF RecoveryAgreementInv, StoreNeverAhead
<1>9. /\ SuccessIsSettled => SuccessIsSettled'
      /\ AnswerIsTrue => AnswerIsTrue'
  BY <1>1, <1>2 DEF SuccessIsSettled, AnswerIsTrue, trxVars
<1> QED
  BY <1>4, <1>5, <1>6, <1>7, <1>8, <1>9 DEF S

(* The parts that say nothing of what is decided are inductive, whatever   *)
(* statements the application runs.                                        *)
LEMMA RecoveryAgreementStep ==
  ASSUME RecoveryAgreementInv, [GcNext]_allVars
  PROVE  RecoveryAgreementInv'
<1>1. GcTypeOK' /\ RunInv'
  BY GcTypeStep, RunStep DEF RecoveryAgreementInv
<1>2. CASE Gc /\ UNCHANGED <<callVars, trxVars, links, worked>>
  BY <1>1, <1>2, GcStep DEF RecoveryAgreementInv
<1>3. CASE [Next]_vars
  <2> USE <1>3 DEF RecoveryAgreementInv, GcTypeOK
  <2>1. ControlInv' /\ ListInv' /\ PhaseInv' /\ ParticipantInv' /\ RecordInv'
    BY ControlStep, ListStep, PhaseStep, ParticipantStep, RecordStep
  <2>2. PreparedInv(Conn \ Local)'
    BY PreparedStep
  <2>3. StoreNeverAhead'
    BY StoreStep
  <2> QED
    BY <1>1, <2>1, <2>2, <2>3
<1> QED
  BY <1>2, <1>3 DEF GcNext, allVars

(* The rest is, as long as prepared statements run only on connections     *)
(* that take part.                                                         *)
LEMMA RecoveryStep ==
  ASSUME RecoveryInv, [GcNext]_allVars, ~PreparedStatements
  PROVE  RecoveryInv'
<1> USE DEF RecoveryInv
<1>1. RecoveryAgreementInv'
  BY RecoveryAgreementStep
<1>2. CASE Gc /\ UNCHANGED <<callVars, trxVars, links, worked>>
  BY <1>1, <1>2, GcStep
<1>3. CASE [Next]_vars
  <2> DEFINE S == Conn \ Local
  <2> USE <1>3 DEF RecoveryAgreementInv, GcTypeOK
  <2>1. S \in SUBSET Conn /\ PreparedInv(S) /\ DecisionInv(S)
    OBVIOUS
  <2> HIDE DEF S
  <2>2. DecisionInv(S)'
    BY <2>1, DecisionStep
  <2>3. SuccessIsSettled' /\ AnswerIsTrue'
    BY <2>1, SuccessStep, AnswerStep
  <2> QED
    BY <1>1, <2>2, <2>3 DEF S
<1> QED
  BY <1>2, <1>3 DEF GcNext, allVars

(* Nothing has run yet, neither a transaction nor the garbage collection.  *)
LEMMA RecoveryInit == GcInit => RecoveryInv
<1> SUFFICES ASSUME GcInit PROVE RecoveryInv
  OBVIOUS
<1>1. Inv
  BY InitInv DEF GcInit
<1>2. GcTypeOK /\ RunInv
  <2>1. TypeOK /\ gc = "idle" /\ todo = {} /\ row = NoRow /\ done = {} /\ runs \in 0..MaxRuns
    BY <1>1, RecoveryAssumption DEF Inv, AgreementInv, GcInit, Idle
  <2>2. mustCommit = FALSE
    BY DEF GcInit, Idle
  <2>3. GcTypeOK
    BY <2>1, <2>2 DEF GcTypeOK
  <2> QED
    BY <2>2, <2>3 DEF RunInv
<1>3. PreparedInv(Conn \ Local) /\ DecisionInv(Conn \ Local)
  BY <1>1 DEF GcInit, Init, Inv, AgreementInv, PreparedInv, DecisionInv, Listed
<1> QED
  BY <1>1, <1>2, <1>3 DEF Inv, AgreementInv, RecoveryAgreementInv, RecoveryInv

(* The garbage collection commits only if it must, and then all that is    *)
(* not committed yet is prepared: of its own branches there is one, and    *)
(* the coordinator's cannot be undone any more.                            *)
LEMMA CommitStep ==
  ASSUME RecoveryInv, [GcNext]_allVars, Gc,
         NEW c \in Conn, branch[c] = "prepared", branch'[c] = "committed"
  PROVE  Committed /\ \A d \in worked : branch[d] \in {"prepared", "committed"}
<1> USE DEF RecoveryInv, RecoveryAgreementInv
<1>1. c \in Local /\ mustCommit
  BY GcEffect
<1>2. Committed
  BY <1>1 DEF RunInv
<1>3. ASSUME NEW d \in worked PROVE branch[d] \in {"prepared", "committed"}
  <2>1. CASE d \in Local
    BY <1>1, <2>1, RecoveryAssumption
  <2>2. CASE d \in Conn \ Local
    BY <1>2, <2>2 DEF DecisionInv
  <2> QED
    BY <2>1, <2>2 DEF GcTypeOK, TypeOK
<1> QED
  BY <1>2, <1>3

-----------------------------------------------------------------------------
(* Every variable of the garbage collection keeps its type: the rows it    *)
(* visits are rows of the store, and it resolves and starts branches only  *)
(* for a row it has read.                                                  *)
THEOREM GcTypeCorrect == GcSpec => []GcTypeOK
<1>1. GcTypeOK /\ [GcNext]_allVars => GcTypeOK'
  BY GcTypeStep
<1>2. GcInit => GcTypeOK
  BY RecoveryInit DEF RecoveryInv, RecoveryAgreementInv
<1> QED
  BY <1>1, <1>2, PTL DEF GcSpec

(* The tables of the state store stay behind the servers while the garbage *)
(* collection deletes rows and resolves branches, and whatever statements  *)
(* the application runs: this is what its decision to commit rests on.     *)
THEOREM StoreLagsInRecovery == GcSpec => []StoreNeverAhead
<1>1. RecoveryAgreementInv /\ [GcNext]_allVars => RecoveryAgreementInv'
  BY RecoveryAgreementStep
<1>2. GcInit => RecoveryAgreementInv
  BY RecoveryInit DEF RecoveryInv
<1>3. RecoveryAgreementInv => StoreNeverAhead
  BY DEF RecoveryAgreementInv
<1> QED
  BY <1>1, <1>2, <1>3, PTL DEF GcSpec

(* The invariant of the coordinator and the garbage collection together,   *)
(* for an application whose prepared statements run only on connections    *)
(* that take part.                                                         *)
THEOREM RecoveryInvariance == ASSUME ~PreparedStatements PROVE GcSpec => []RecoveryInv
<1>1. RecoveryInv /\ [GcNext]_allVars => RecoveryInv'
  BY RecoveryStep
<1> QED
  BY <1>1, RecoveryInit, PTL DEF GcSpec

(* A transaction marked SUCCESS is settled on every server, so that        *)
(* mysqlnd_ms_xa_store_mysql_gc_all may delete it unseen, even if it times *)
(* out and the garbage collection comes between two steps of its client.   *)
THEOREM SafeToErase == ASSUME ~PreparedStatements PROVE GcSpec => []SuccessIsSettled
<1>1. RecoveryInv => SuccessIsSettled
  BY DEF RecoveryInv
<1> QED
  BY <1>1, RecoveryInvariance, PTL

(* What mysqlnd_ms_xa_commit and mysqlnd_ms_xa_rollback answered stays     *)
(* true: the garbage collection finds nothing prepared to resolve.         *)
THEOREM AnswersStand == ASSUME ~PreparedStatements PROVE GcSpec => []AnswerIsTrue
<1>1. RecoveryInv => AnswerIsTrue
  BY DEF RecoveryInv
<1> QED
  BY <1>1, RecoveryInvariance, PTL

(* The garbage collection commits a branch only if the commit had been     *)
(* decided, for any number of participants of which one is on the server   *)
(* of the store.                                                           *)
THEOREM CommitsAreDecided == ASSUME ~PreparedStatements PROVE GcSpec => CommitsFollow
<1>1. RecoveryInv /\ [GcNext]_allVars =>
         [\A c \in Conn : Gc /\ branch[c] = "prepared" /\ branch'[c] = "committed" =>
            Committed /\ \A d \in worked : branch[d] \in {"prepared", "committed"}]_allVars
  BY CommitStep
<1> QED
  BY <1>1, RecoveryInvariance, PTL DEF GcSpec, CommitsFollow
=============================================================================

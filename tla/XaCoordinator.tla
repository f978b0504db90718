--------------------------- MODULE XaCoordinator ---------------------------
(***************************************************************************)
(* The XA transaction coordinator of mysqlnd_ms_xa.c: one PHP process      *)
(* drives one global transaction over the connections the load balancer    *)
(* picks, and keeps a record of it in the MySQL state store of             *)
(* mysqlnd_ms_xa_store_mysql.c for the garbage collection to find.         *)
(*                                                                         *)
(* Every SQL statement sent to a participant and every statement sent to   *)
(* the state store is a step of its own: the two are never atomic.  A      *)
(* statement may be refused, and it may be executed although the client    *)
(* sees its connection break.  A connection may be lost, and the client    *)
(* may die, between any two steps.                                         *)
(*                                                                         *)
(* The column `intend' of the store's transaction table is left out, and   *)
(* with it monitor_failure, which writes nothing else: no code reads it.   *)
(***************************************************************************)
EXTENDS Integers, Sequences

CONSTANTS Conn,                \* the connections a query may be sent to
          Store,               \* the connection to the state store
          None,                \* no connection
          StateStore,          \* is a state store configured (xa_trx->gc)?
          RollbackOnClose,     \* the values the setting rollback_on_close may have
          PreparedStatements   \* may the application execute prepared statements
                               \* on connections that do not take part yet?

ASSUME ConstantsAssumption ==
          /\ Store \notin Conn
          /\ None \notin Conn
          /\ StateStore \in BOOLEAN
          /\ RollbackOnClose \subseteq BOOLEAN
          /\ PreparedStatements \in BOOLEAN

VARIABLES
  (* The client: st_mysqlnd_ms_xa_trx, and where it is in its code. *)
  pc,             \* "user": in the application; else the phase of a call
  step,           \* what is left to do for the participant of this round
  cur,            \* the position in the list of participants
  ret,            \* has the current walk of the list succeeded so far?
  next,           \* the connection a query has been routed to
  flags,          \* which of xa_trx->on, stgy.in_transaction and the
                  \* closing of the connection are true
  state,          \* xa_trx->state
  intend,         \* xa_trx->finish_transaction_intend
  participants,   \* xa_trx->participants
  pstate,         \* the states of the participants
  answer,         \* what the call that ended the transaction returned
  links,          \* the connections of the client that are alive
  (* The servers. *)
  branch,         \* the branch of the transaction on a server
  worked,         \* the servers on which one of its statements had an effect
  (* The state store. *)
  trxState,       \* the row of the transaction table: column state
  trxFinished,    \*                                   column finished
  partState,      \* the rows of the participant table: column state
  partHealth      \*                                    column health

callVars   == <<pc, step, cur, ret, next>>
trxVars    == <<flags, state, intend, participants, pstate, answer>>
serverVars == <<branch, worked>>
storeVars  == <<trxState, trxFinished, partState, partHealth>>
vars == <<callVars, trxVars, links, serverVars, storeVars>>

XaState == {"XA_NON_EXISTING", "XA_ACTIVE", "XA_IDLE", "XA_PREPARED",
            "XA_COMMIT", "XA_ROLLBACK"}

(* Walks of the list of participants. *)
Walks == {"END", "PREPARE", "COMMIT", "RELEASE", "ROLLBACK", "ROLLBACK_AGAIN"}
Monitors == {"MON_IDLE", "MON_PREPARED", "MON_COMMIT", "MON_ROLLBACK"}
Finishes == {"FINISH_SUCCESS", "FINISH_FAILURE"}
Phase == {"user", "add", "run", "warn", "close", "gone"}
            \union Walks \union Monitors \union Finishes

Branch == {"none", "active", "idle", "prepared", "committed", "aborted"}

Intents == {"XA_NON_EXISTING", "XA_COMMIT", "XA_ROLLBACK"}
Answers == {"none", "committed", "commit_failed", "rolled_back", "rollback_failed"}

TypeOK ==
  /\ pc \in Phase
  /\ step \in {"sql", "passed", "failed"}
  /\ cur \in Nat /\ cur >= 1
  /\ ret \in {"PASS", "FAIL"}
  /\ next \in Conn \union {None}
  /\ pc \in {"add", "run"} => next \in Conn
  /\ flags \in SUBSET {"on", "in_transaction", "closing"}
  /\ state \in XaState
  /\ intend \in Intents
  /\ participants \in Seq(Conn)
  /\ pstate \in [Conn -> XaState]
  /\ answer \in Answers
  /\ links \in SUBSET (Conn \union {Store})
  /\ branch \in [Conn -> Branch]
  /\ worked \in SUBSET Conn
  /\ trxState \in XaState \union {"absent"}
  /\ trxFinished \in {"NO", "SUCCESS", "FAILURE"}
  /\ partState \in [Conn -> XaState \union {"absent"}]
  /\ partHealth \in [Conn -> {"OK", "CLIENT_ERROR", "GC_DONE"}]

On == "on" \in flags
InTransaction == "in_transaction" \in flags
Closing == "closing" \in flags

Position == 1..Len(participants)
Listed == {participants[i] : i \in Position}

Init ==
  /\ pc = "user" /\ step = "sql" /\ cur = 1 /\ ret = "PASS" /\ next = None
  /\ flags = {}
  /\ state = "XA_NON_EXISTING"
  /\ intend = "XA_NON_EXISTING"
  /\ participants = <<>>
  /\ pstate = [c \in Conn |-> "XA_NON_EXISTING"]
  /\ answer = "none"
  /\ links = Conn \union {Store}
  /\ branch = [c \in Conn |-> "none"]
  /\ worked = {}
  /\ trxState = "absent" /\ trxFinished = "NO"
  /\ partState = [c \in Conn |-> "absent"]
  /\ partHealth = [c \in Conn |-> "OK"]

-----------------------------------------------------------------------------
(* What may become of a statement: it is executed and acknowledged, it is  *)
(* refused, or it is executed and the connection breaks before the client  *)
(* knows.                                                                  *)
Outcome == {"ok", "refused", "lost"}

(* The servers: MySQL's XA statements, the states of the branch each needs *)
(* and the one it leads to.                                                *)
Before(cmd) == IF cmd = "BEGIN" THEN {"none"} ELSE
               IF cmd = "END" THEN {"active"} ELSE
               IF cmd = "PREPARE" THEN {"idle"} ELSE
               IF cmd = "COMMIT" THEN {"prepared"} ELSE {"idle", "prepared"}
After(cmd) == IF cmd = "BEGIN" THEN "active" ELSE
              IF cmd = "END" THEN "idle" ELSE
              IF cmd = "PREPARE" THEN "prepared" ELSE
              IF cmd = "COMMIT" THEN "committed" ELSE "aborted"

(* A server forgets an unprepared branch with its connection, and keeps a  *)
(* prepared one (MySQL since 5.7.7).                                       *)
Detached(b) == IF b \in {"active", "idle"} THEN "aborted" ELSE b

Query(c, cmd, o) ==
  \/ /\ o = "ok"
     /\ c \in links /\ branch[c] \in Before(cmd)
     /\ branch' = [branch EXCEPT ![c] = After(cmd)]
     /\ UNCHANGED links
  \/ /\ o = "refused"
     /\ UNCHANGED <<branch, links>>
  \/ /\ o = "lost"
     /\ c \in links /\ branch[c] \in Before(cmd)
     /\ branch' = [branch EXCEPT ![c] = Detached(After(cmd))]
     /\ links' = links \ {c}

(* A network failure or a restart of the server. *)
LoseConnection(c) ==
  /\ c \in links
  /\ links' = links \ {c}
  /\ branch' = [branch EXCEPT ![c] = Detached(branch[c])]
  /\ UNCHANGED <<callVars, trxVars, worked, storeVars>>

LoseAllConnections ==
  /\ links' = {}
  /\ branch' = [c \in Conn |-> Detached(branch[c])]

(* The state store.  The connection is opened once and never again.        *)
StoreCall(o) ==
  IF StateStore
  THEN /\ o # "refused" => Store \in links
       /\ links' = IF o = "lost" THEN links \ {Store} ELSE links
  ELSE o = "ok" /\ UNCHANGED links

(* An UPDATE that finds no row of its own, or an INSERT that finds no row  *)
(* of the transaction to refer to, changes nothing and counts as failed.   *)
StoreWrite(o, row) ==
  /\ StoreCall(o)
  /\ StateStore /\ row = "absent" => o # "ok"

(* Does the statement change the tables? *)
Applied(o) == StateStore /\ o # "refused"
Written(o, row) == Applied(o) /\ row # "absent"

LoseStore ==
  /\ StateStore /\ Store \in links
  /\ links' = links \ {Store}
  /\ UNCHANGED <<callVars, trxVars, serverVars, storeVars>>

-----------------------------------------------------------------------------
(* mysqlnd_ms_xa_begin *)

(* The store opens a row for the transaction.  The change of state that    *)
(* follows, to XA_NON_EXISTING, is one the store does not write down: it   *)
(* cannot fail.  One transaction is modelled: a second one would have rows *)
(* of its own.                                                             *)
Begin ==
  /\ pc = "user" /\ ~On /\ ~InTransaction
  /\ answer = "none" /\ trxState = "absent"
  /\ \E o \in Outcome :
        /\ StoreCall(o)
        /\ trxState' = IF Applied(o) THEN "XA_NON_EXISTING" ELSE trxState
        /\ IF o = "ok" THEN flags' = flags \union {"on"} /\ state' = "XA_NON_EXISTING"
                       ELSE UNCHANGED <<flags, state>>
  /\ UNCHANGED <<callVars, intend, participants, pstate, answer, serverVars,
                 trxFinished, partState, partHealth>>

(* The application starts or ends a local transaction. *)
LocalTransaction ==
  /\ pc = "user"
  /\ flags' = IF InTransaction THEN flags \ {"in_transaction"}
              ELSE flags \union {"in_transaction"}
  /\ UNCHANGED <<callVars, state, intend, participants, pstate, answer, links,
                 serverVars, storeVars>>

-----------------------------------------------------------------------------
(* A query within the transaction. *)

(* The load balancer has picked connection c: XA BEGIN is injected if c    *)
(* does not take part yet.                                                 *)
InjectQuery(c) ==
  /\ pc = "user" /\ On /\ ~InTransaction
  /\ IF c \in Listed \/ state # "XA_NON_EXISTING"
     THEN /\ pc' = "run" /\ next' = c
          /\ UNCHANGED <<branch, links>>
     ELSE \E o \in Outcome :
             /\ Query(c, "BEGIN", o)
             /\ pc' = IF o = "ok" THEN "add" ELSE "user"
             /\ next' = IF o = "ok" THEN c ELSE next
  /\ UNCHANGED <<step, cur, ret, trxVars, worked, storeVars>>

(* The store learns of the participant.  If that fails the connection is   *)
(* not added to the list, though its branch has been started.              *)
AddParticipant ==
  /\ pc = "add"
  /\ \E o \in Outcome :
        /\ StoreWrite(o, trxState)
        /\ partState' = IF Written(o, trxState)
                        THEN [partState EXCEPT ![next] = "XA_ACTIVE"] ELSE partState
        /\ IF o = "ok"
           THEN /\ participants' = Append(participants, next)
                /\ pstate' = [pstate EXCEPT ![next] = "XA_ACTIVE"]
                /\ pc' = "run" /\ next' = next
           ELSE /\ pc' = "user" /\ next' = None
                /\ UNCHANGED <<participants, pstate>>
  /\ UNCHANGED <<step, cur, ret, flags, state, intend, answer, serverVars,
                 trxState, trxFinished, partHealth>>

(* The statement of the application: it works, fails, or its effect or its *)
(* failure is lost with the connection.                                    *)
RunQuery ==
  /\ pc = "run"
  /\ \/ /\ next \in links /\ branch[next] = "active"
        /\ worked' = worked \union {next}
     \/ UNCHANGED worked
  /\ pc' = "user" /\ next' = None
  /\ UNCHANGED <<step, cur, ret, trxVars, links, branch, storeVars>>

(* A prepared statement is sent to the connection it was prepared on: the  *)
(* coordinator does not hear of it, and where no branch is active it takes *)
(* effect at once.                                                         *)
ExecuteStatement(c) ==
  /\ pc = "user" /\ On
  /\ PreparedStatements \/ c \in Listed
  /\ c \in links /\ branch[c] \in {"none", "active"}
  /\ worked' = worked \union {c}
  /\ UNCHANGED <<callVars, trxVars, links, branch, storeVars>>

-----------------------------------------------------------------------------
(* mysqlnd_ms_xa_participants_change_state and mysqlnd_ms_xa_rollback: a   *)
(* walk of the list of participants that goes on over failures.            *)

WalkFromZero(phase) ==                                           \* a mutant
  pc' = phase /\ cur' = 0 /\ ret' = "PASS" /\ step' = "sql"

Walk(phase) == pc' = phase /\ cur' = 1 /\ ret' = "PASS" /\ step' = "sql"

Rollbacks == {"ROLLBACK", "ROLLBACK_AGAIN"}

(* The statement a walk sends, the participants it acts on, and the state  *)
(* it takes them to.                                                       *)
Command(walk) == IF walk = "RELEASE" THEN "PREPARE" ELSE
                 IF walk \in Rollbacks THEN "ROLLBACK" ELSE walk
From(walk) == IF walk = "END" THEN {"XA_ACTIVE"} ELSE
              IF walk \in {"PREPARE", "RELEASE"} THEN {"XA_IDLE"} ELSE
              IF walk = "COMMIT" THEN {"XA_PREPARED"}
              ELSE {"XA_IDLE", "XA_PREPARED", "XA_COMMIT"}
To(walk) == IF walk = "END" THEN "XA_IDLE" ELSE
            IF walk \in {"PREPARE", "RELEASE"} THEN "XA_PREPARED" ELSE
            IF walk = "COMMIT" THEN "XA_COMMIT" ELSE "XA_ROLLBACK"

Visiting == pc \in Walks /\ cur \in Position

SkipParticipant ==
  /\ Visiting /\ step = "sql"
  /\ pstate[participants[cur]] \notin From(pc)
  /\ cur' = cur + 1
  /\ UNCHANGED <<pc, step, ret, next, trxVars, links, serverVars, storeVars>>

QueryParticipantBlindly ==                                       \* a mutant
  /\ Visiting /\ step = "sql"
  /\ pstate[participants[cur]] \in From(pc)
  /\ \E o \in Outcome : Query(participants[cur], Command(pc), o)
  /\ step' = "passed"
  /\ UNCHANGED <<pc, cur, ret, next, trxVars, worked, storeVars>>

QueryParticipant ==
  /\ Visiting /\ step = "sql"
  /\ pstate[participants[cur]] \in From(pc)
  /\ \E o \in Outcome :
        /\ Query(participants[cur], Command(pc), o)
        /\ step' = IF o = "ok" THEN "passed" ELSE "failed"
  /\ UNCHANGED <<pc, cur, ret, next, trxVars, worked, storeVars>>

(* The statement has passed: the store is told first, and only if it       *)
(* confirms does the participant change state.                             *)
RecordParticipant ==
  /\ Visiting /\ step = "passed"
  /\ \E o \in Outcome :
        /\ StoreWrite(o, partState[participants[cur]])
        /\ partState' = IF Written(o, partState[participants[cur]])
                        THEN [partState EXCEPT ![participants[cur]] = To(pc)]
                        ELSE partState
        /\ pstate' = IF o = "ok" THEN [pstate EXCEPT ![participants[cur]] = To(pc)]
                     ELSE pstate
        /\ ret' = IF o = "ok" THEN ret ELSE "FAIL"
  /\ step' = "sql" /\ cur' = cur + 1
  /\ UNCHANGED <<pc, next, flags, state, intend, participants, answer, serverVars,
                 trxState, trxFinished, partHealth>>

(* The statement has failed: the store is told, and whether it listens     *)
(* makes no difference.                                                    *)
ParticipantFailure ==
  /\ Visiting /\ step = "failed"
  /\ \E o \in Outcome :
        /\ StoreWrite(o, partState[participants[cur]])
        /\ partHealth' = IF Written(o, partState[participants[cur]])
                         THEN [partHealth EXCEPT ![participants[cur]] = "CLIENT_ERROR"]
                         ELSE partHealth
  /\ ret' = "FAIL"
  /\ step' = "sql" /\ cur' = cur + 1
  /\ UNCHANGED <<pc, next, trxVars, serverVars, trxState, trxFinished, partState>>

(* Mutants: the result of a walk is ignored, or misread. *)
AfterPrepareAnyway == Walk("MON_PREPARED")
AfterCommitAnyway == Walk("MON_COMMIT")
AfterCommitRollBack == Walk(IF ret = "PASS" THEN "MON_COMMIT" ELSE "ROLLBACK_AGAIN")
AfterRollbackAnyway == Walk("MON_ROLLBACK")
UntilRolledBack == Walk(IF ret = "PASS" THEN "FINISH_FAILURE" ELSE "ROLLBACK_AGAIN")

(* Where a walk leads to. *)
AfterEnd == IF ret = "PASS" THEN Walk("MON_IDLE")
            ELSE Walk(IF intend = "XA_COMMIT" THEN "RELEASE" ELSE "ROLLBACK_AGAIN")
AfterPrepare == Walk(IF ret = "PASS" THEN "MON_PREPARED" ELSE "ROLLBACK_AGAIN")
AfterCommit == Walk(IF ret = "PASS" THEN "MON_COMMIT" ELSE "FINISH_FAILURE")
AfterRollback == Walk(IF ret = "PASS" THEN "MON_ROLLBACK" ELSE "ROLLBACK_AGAIN")
AfterSecondRollback == Walk("FINISH_FAILURE")

AfterWalk ==
  \/ pc = "END" /\ AfterEnd
  \/ pc = "RELEASE" /\ Walk("ROLLBACK_AGAIN")
  \/ pc = "PREPARE" /\ AfterPrepare
  \/ pc = "COMMIT" /\ AfterCommit
  \/ pc = "ROLLBACK" /\ AfterRollback
  \/ pc = "ROLLBACK_AGAIN" /\ AfterSecondRollback

EndWalk ==
  /\ pc \in Walks /\ cur = Len(participants) + 1
  /\ AfterWalk
  /\ UNCHANGED <<next, trxVars, links, serverVars, storeVars>>

-----------------------------------------------------------------------------
(* mysqlnd_ms_xa_monitor_change_state *)

Target == IF pc = "MON_IDLE" THEN "XA_IDLE" ELSE
          IF pc = "MON_PREPARED" THEN "XA_PREPARED" ELSE
          IF pc = "MON_COMMIT" THEN "XA_COMMIT" ELSE "XA_ROLLBACK"

(* The last change of state need not succeed.                              *)
AfterMonitor(o) ==
  \/ /\ pc = "MON_IDLE" /\ intend = "XA_COMMIT"
     /\ Walk(IF o = "ok" THEN "PREPARE" ELSE "RELEASE")
  \/ /\ pc = "MON_IDLE" /\ intend = "XA_ROLLBACK"
     /\ Walk(IF o = "ok" THEN "ROLLBACK" ELSE "ROLLBACK_AGAIN")
  \/ /\ pc = "MON_PREPARED"
     /\ Walk(IF o = "ok" THEN "COMMIT" ELSE "ROLLBACK_AGAIN")
  \/ /\ pc \in {"MON_COMMIT", "MON_ROLLBACK"}
     /\ Walk("FINISH_SUCCESS")

MonitorChangeState ==
  /\ pc \in Monitors
  /\ \E o \in Outcome :
        /\ StoreWrite(o, trxState)
        /\ trxState' = IF Written(o, trxState) THEN Target ELSE trxState
        /\ state' = IF o = "ok" THEN Target ELSE state
        /\ AfterMonitor(o)
  /\ UNCHANGED <<next, flags, intend, participants, pstate, answer,
                 serverVars, trxFinished, partState, partHealth>>

-----------------------------------------------------------------------------
(* mysqlnd_ms_xa_commit, mysqlnd_ms_xa_rollback and close *)

Commit ==
  /\ pc = "user" /\ On /\ state = "XA_NON_EXISTING"
  /\ intend' = "XA_COMMIT"
  /\ Walk(IF participants = <<>> THEN "MON_COMMIT" ELSE "END")
  /\ UNCHANGED <<next, flags, state, participants, pstate, answer, links,
                 serverVars, storeVars>>

Rollback ==
  /\ pc = "user" /\ On
  /\ intend' = "XA_ROLLBACK"
  /\ Walk("END")
  /\ UNCHANGED <<next, flags, state, participants, pstate, answer, links,
                 serverVars, storeVars>>

Answer == IF pc = "FINISH_SUCCESS"
          THEN IF intend = "XA_COMMIT" THEN "committed" ELSE "rolled_back"
          ELSE IF intend = "XA_COMMIT" THEN "commit_failed" ELSE "rollback_failed"

(* monitor_finish: mark the transaction for the garbage collection.        *)
MarkFinished(how) ==
  \E o \in Outcome :
     /\ StoreWrite(o, trxState)
     /\ trxFinished' = IF Written(o, trxState) THEN how ELSE trxFinished

(* The call returns, whatever the store answers, and the participants are  *)
(* forgotten.                                                              *)
Finish ==
  /\ pc \in Finishes
  /\ MarkFinished(IF pc = "FINISH_SUCCESS" THEN "SUCCESS" ELSE "FAILURE")
  /\ pc' = IF Closing THEN "close" ELSE "user"
  /\ intend' = "XA_NON_EXISTING"
  /\ flags' = flags \ {"on"}
  /\ participants' = <<>>
  /\ answer' = Answer
  /\ UNCHANGED <<step, cur, ret, next, state, pstate, serverVars,
                 trxState, partState, partHealth>>

(* The application closes the connection.  An open global transaction is   *)
(* rolled back, or left to the garbage collection.                         *)
Close ==
  /\ pc = "user"
  /\ flags' = flags \union {"closing"}
  /\ \E rollback_on_close \in RollbackOnClose :
        IF On /\ intend = "XA_NON_EXISTING" /\ rollback_on_close
        THEN Walk("END") /\ intend' = "XA_ROLLBACK"
        ELSE /\ pc' = IF On /\ intend = "XA_NON_EXISTING" THEN "warn" ELSE "close"
             /\ UNCHANGED <<step, cur, ret, intend>>
  /\ UNCHANGED <<next, state, participants, pstate, answer, links,
                 serverVars, storeVars>>

(* No automatic rollback: the store is told that the transaction failed.   *)
WarnStore ==
  /\ pc = "warn"
  /\ MarkFinished("FAILURE")
  /\ pc' = "close"
  /\ UNCHANGED <<step, cur, ret, next, trxVars, serverVars,
                 trxState, partState, partHealth>>

(* The memory of the client is gone, and its connections with it.          *)
Forget ==
  /\ pc' = "gone" /\ step' = "sql" /\ cur' = 1 /\ ret' = "PASS" /\ next' = None
  /\ flags' = {}
  /\ state' = "XA_NON_EXISTING" /\ intend' = "XA_NON_EXISTING"
  /\ participants' = <<>>
  /\ pstate' = [c \in Conn |-> "XA_NON_EXISTING"]
  /\ LoseAllConnections
  /\ UNCHANGED <<answer, worked, storeVars>>

(* close() frees the connections to the servers, also those that take part *)
(* in a transaction that is still open.                                    *)
Disconnect == pc = "close" /\ Forget

(* The PHP process dies.                                                   *)
Crash == pc # "gone" /\ Forget

-----------------------------------------------------------------------------

Application == \/ Begin \/ LocalTransaction \/ Commit \/ Rollback \/ Close
               \/ \E c \in Conn : InjectQuery(c) \/ ExecuteStatement(c)

Plugin == \/ AddParticipant \/ RunQuery
          \/ SkipParticipant \/ QueryParticipant
          \/ RecordParticipant \/ ParticipantFailure \/ EndWalk
          \/ MonitorChangeState \/ Finish \/ WarnStore \/ Disconnect

Faults == \/ \E c \in Conn : LoseConnection(c)
          \/ LoseStore
          \/ Crash

Next == Application \/ Plugin \/ Faults

Spec == Init /\ [][Next]_vars

(* A call into the plugin runs until it returns: every statement it waits  *)
(* for is answered, or the connection is reported broken.  Nothing makes   *)
(* the application call, and no fault has to happen.                       *)
FairSpec == Spec /\ WF_vars(Plugin)

-----------------------------------------------------------------------------
(* Properties.                                                             *)

Committed == \E c \in Conn : branch[c] = "committed"

(* All or nothing, as far as the coordinator itself goes: no server has    *)
(* committed while another one on which a statement of the transaction ran *)
(* has rolled back.  The two phases of mysqlnd_ms_xa_monitor_direct_commit *)
(* must keep this over lost connections, a lost state store and a crash.   *)
AllOrNothing == \A c, d \in Conn :
  ~(branch[c] = "committed" /\ d \in worked /\ branch[d] = "aborted")

(* mysqlnd_ms_xa_commit returns TRUE only if the transaction has committed *)
(* on every server on which one of its statements ran, and                 *)
(* mysqlnd_ms_xa_rollback returns TRUE only if it is gone from all.        *)
AnswerIsTrue == \A c \in worked :
  /\ answer = "committed" => branch[c] = "committed"
  /\ answer = "rolled_back" => branch[c] = "aborted"

(* The state store is written after the server has acknowledged: it may    *)
(* lag behind a server but is never ahead of it.  The garbage collection   *)
(* relies on this when it commits because of one row in state XA_COMMIT.   *)
StoreNeverAhead == \A c \in Conn :
  /\ partState[c] = "XA_COMMIT" => branch[c] = "committed"
  /\ partState[c] = "XA_ROLLBACK" => branch[c] = "aborted"
  /\ partState[c] = "XA_PREPARED" => branch[c] \in {"prepared", "committed", "aborted"}

(* A transaction marked SUCCESS is deleted by the garbage collection       *)
(* without a look at its participants: none of them may be in doubt, and   *)
(* none may still hold work that is not decided.                           *)
SuccessIsSettled == trxFinished = "SUCCESS" =>
  \A c \in Conn : /\ branch[c] # "prepared"
                  /\ c \in worked => branch[c] \in {"committed", "aborted"}

(* A branch that outlives its client has a row of its own in the store,    *)
(* under a row of the transaction: otherwise it would keep its locks for   *)
(* ever, and no garbage collection could know of it.                       *)
InDoubtIsRecorded == StateStore =>
  \A c \in Conn : branch[c] = "prepared" =>
                     trxState # "absent" /\ partState[c] # "absent"

(* Once a server has committed, no step of the coordinator, no fault and   *)
(* no call of the application undoes a prepared branch.                    *)
DecisionStands ==
  [][Committed => \A c \in Conn :
        branch[c] = "prepared" => branch'[c] \in {"prepared", "committed"}]_vars

(* A call into the plugin returns, however many statements fail on the     *)
(* way: the walks of the list are not repeated until they succeed.         *)
CallReturns == pc \notin {"user", "gone"} ~> pc \in {"user", "gone"}

(* The coordinator implements an atomic commit.                            *)
Fate(b) == IF b \in {"none", "active", "idle"} THEN "open" ELSE b

Abstract == INSTANCE AtomicCommit
              WITH fate <- [c \in Conn |-> Fate(branch[c])], worked <- worked

ImplementsAtomicCommit == Abstract!Spec

-----------------------------------------------------------------------------
(* Why it works: the inductive invariant behind the properties above.      *)

(* Phases in which no XA COMMIT has been sent. *)
Undecided == {"add", "run", "END", "RELEASE", "PREPARE", "ROLLBACK", "ROLLBACK_AGAIN",
              "MON_IDLE", "MON_PREPARED", "MON_ROLLBACK"}

(* Where a call can be, and what the client's variables say then. *)
ControlInv ==
  /\ ~On => participants = <<>>
  /\ On => answer = "none"
  /\ trxState = "absent" => trxFinished = "NO"
  /\ pc \notin {"user", "close", "gone"} => On
  /\ pc \in {"user", "add", "run"} /\ On => state = "XA_NON_EXISTING"
  /\ pc \in {"RELEASE", "PREPARE", "MON_PREPARED", "COMMIT", "MON_COMMIT"}
        => intend = "XA_COMMIT"
  /\ pc \in {"ROLLBACK", "MON_ROLLBACK"} => intend = "XA_ROLLBACK"
  /\ pc \in Walks \union Monitors \union Finishes => intend # "XA_NON_EXISTING"

(* The list names a connection once, and a walk stays inside it. *)
ListInv ==
  /\ \A i, j \in Position : participants[i] = participants[j] => i = j
  /\ pc \in Walks => cur <= Len(participants) + 1
  /\ pc = "add" => next \notin Listed
  /\ pc = "run" => next \in Listed

(* `All participants in our list are in ACTIVE = XA BEGIN sent state' when *)
(* the end begins; later phases find all of them in the state the phase    *)
(* before has left: `either all or nothing is the outcome'.                *)
Ahead(s) == \A i \in Position : i >= cur => pstate[participants[i]] = s
Behind(s) == ret = "PASS" => \A i \in Position : i < cur => pstate[participants[i]] = s
All(s) == \A i \in Position : pstate[participants[i]] = s

PhaseInv ==
  /\ pc \in {"user", "add", "run"} => All("XA_ACTIVE")
  /\ pc = "END" => Ahead("XA_ACTIVE") /\ Behind("XA_IDLE")
  /\ pc = "MON_IDLE" => All("XA_IDLE")
  /\ pc = "PREPARE" => Ahead("XA_IDLE") /\ Behind("XA_PREPARED")
  /\ pc = "MON_PREPARED" => All("XA_PREPARED")
  /\ pc = "COMMIT" => Ahead("XA_PREPARED") /\ Behind("XA_COMMIT")
  /\ pc = "MON_COMMIT" => All("XA_COMMIT")
  /\ pc = "ROLLBACK" => Ahead("XA_IDLE") /\ Behind("XA_ROLLBACK")
  /\ pc = "MON_ROLLBACK" => All("XA_ROLLBACK")

(* What a participant's state, once the client has set it, says about the  *)
(* branch on the server.                                                   *)
ParticipantInv ==
  /\ \A i \in Position :
        /\ pstate[participants[i]] = "XA_COMMIT" => branch[participants[i]] = "committed"
        /\ pstate[participants[i]] = "XA_ROLLBACK" => branch[participants[i]] = "aborted"
  /\ pc \in Walks /\ step = "passed" => cur \in Position /\
        LET b == branch[participants[cur]]
        IN  /\ pc \in {"PREPARE", "RELEASE"} => b \in {"prepared", "committed", "aborted"}
            /\ pc = "COMMIT" => b = "committed"
            /\ pc \in {"ROLLBACK", "ROLLBACK_AGAIN"} => b = "aborted"

(* A branch that has been prepared waits for the coordinator, on every     *)
(* connection of S: the ones that nobody but the coordinator resolves.     *)
PreparedInv(S) ==
  /\ pc \in {"PREPARE", "MON_PREPARED"} => \A i \in Position :
        participants[i] \in S /\ pstate[participants[i]] = "XA_PREPARED"
           => branch[participants[i]] = "prepared"
  /\ pc = "PREPARE" /\ step = "passed" /\ participants[cur] \in S
        => branch[participants[cur]] = "prepared"

(* Work is done on listed participants only; until the second phase nobody *)
(* has committed, and in it nobody of S can roll back any more.            *)
DecisionInv(S) ==
  /\ answer = "none" /\ pc # "gone" => worked \subseteq Listed
  /\ pc \in Undecided \/ (pc \in {"user", "warn"} /\ answer = "none") => ~Committed
  /\ pc \in {"COMMIT", "MON_COMMIT"}
        => \A c \in Listed \intersect S : branch[c] \in {"prepared", "committed"}
  /\ pc = "FINISH_SUCCESS" =>
        \A c \in Listed : branch[c] = IF intend = "XA_COMMIT" THEN "committed" ELSE "aborted"
  /\ Committed => \A c \in worked \intersect S : branch[c] \in {"prepared", "committed"}

(* Only listed participants are ever prepared; success is reported by the  *)
(* end of a transaction only.                                              *)
RecordInv ==
  /\ answer = "none" /\ pc # "gone" => \A c \in Conn : branch[c] = "prepared" => c \in Listed
  /\ trxFinished = "SUCCESS" => ~On

(* The transaction and its participants have rows in the store.            *)
RowsInv == StateStore =>
  /\ On => trxState # "absent"
  /\ \A c \in Listed : partState[c] # "absent"

(* The client, the servers and the store agree, whatever statements run.   *)
AgreementInv == /\ TypeOK /\ ControlInv /\ ListInv /\ PhaseInv
                /\ ParticipantInv /\ PreparedInv(Conn) /\ RecordInv /\ RowsInv
                /\ StoreNeverAhead /\ InDoubtIsRecorded

Inv == AgreementInv /\ DecisionInv(Conn) /\ AnswerIsTrue /\ SuccessIsSettled

-----------------------------------------------------------------------------
(* What the documentation says, and the code does not do.                  *)

(* XA-DISTRIBUTED-TRANSACTIONS.md, of the end of a transaction: `Any       *)
(* failure during this phase will cause an implicit rollback.'  At the     *)
(* least this says that after a commit that failed before any server has   *)
(* committed, no server that can still be reached holds the transaction.   *)
FailureRollsBack == answer = "commit_failed" /\ ~Committed =>
  \A c \in Conn : c \in worked \intersect links => branch[c] = "aborted"
=============================================================================

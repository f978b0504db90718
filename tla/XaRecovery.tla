----------------------------- MODULE XaRecovery -----------------------------
(***************************************************************************)
(* The garbage collection of mysqlnd_ms_xa_store_mysql.c next to the       *)
(* coordinator: another PHP process looks for global transactions that are *)
(* finished or have timed out, asks their participants for branches left   *)
(* behind, and deletes the rows when it is done.                           *)
(*                                                                         *)
(* A run is one transaction of the store: what it writes there is seen by  *)
(* others when it ends, and is undone if it dies.  What it does to the     *)
(* participants stands at once.  Runs exclude each other (FOR UPDATE), so  *)
(* there is one at a time, but the client may still be at work.            *)
(*                                                                         *)
(* The columns attempts and intend, the credentials and the schemes the    *)
(* garbage collection does not support are left out.                       *)
(***************************************************************************)
EXTENDS XaCoordinator

CONSTANTS Local,           \* the participant on the server that holds the store
          MayTimeOut,      \* can the transaction outlive its timeout?
          MaxRuns          \* bound: runs of the garbage collection

ASSUME RecoveryAssumption ==
          /\ StateStore
          /\ Local \subseteq Conn
          /\ \A c, d \in Local : c = d
          /\ MayTimeOut \in BOOLEAN
          /\ MaxRuns \in Nat

VARIABLES
  gc,                      \* where the garbage collection is
  todo,                    \* failed_participant_list: the rows still to visit
  row,                     \* the row that is, or was last, visited
  mustCommit,              \* was a participant recorded in state XA_COMMIT?
  done,                    \* rows set to GC_DONE, and locked, by this run
  runs                     \* how many runs have begun

gcVars == <<gc, todo, row, mustCommit, done, runs>>
allVars == <<vars, gcVars>>

Row == [conn : Conn, state : XaState, health : {"OK", "CLIENT_ERROR"}]
NoRow == [conn |-> None]

GcTypeOK ==
  /\ TypeOK
  /\ gc \in {"idle", "visit", "start", "resolve", "commit"}
  /\ todo \in SUBSET Row
  /\ row \in Row \union {NoRow}
  /\ gc \in {"start", "resolve"} => row \in Row
  /\ mustCommit \in BOOLEAN
  /\ done \in SUBSET Conn
  /\ runs \in 0..MaxRuns

Idle == gc = "idle" /\ todo = {} /\ row = NoRow /\ mustCommit = FALSE /\ done = {}

GcInit == Init /\ Idle /\ runs = 0

(* The rows of the transaction are gone, those of the participants with    *)
(* them.                                                                   *)
DeleteRows ==
  /\ trxState' = "absent" /\ trxFinished' = "NO"
  /\ partState' = [c \in Conn |-> "absent"]
  /\ partHealth' = [c \in Conn |-> "OK"]

(* The rows the run has changed become visible to others.                  *)
CommitRows ==
  /\ partHealth' = [c \in Conn |-> IF c \in done /\ partState[c] # "absent"
                                   THEN "GC_DONE" ELSE partHealth[c]]
  /\ UNCHANGED <<trxState, trxFinished, partState>>

AllRows ==                                                       \* a mutant
  {[conn |-> c, state |-> partState[c], health |-> partHealth[c]] :
     c \in {d \in Conn : partState[d] # "absent"}}

Failed == {[conn |-> c, state |-> partState[c], health |-> partHealth[c]] :
             c \in {d \in Conn : partState[d] # "absent" /\ partHealth[d] # "GC_DONE"}}

-----------------------------------------------------------------------------
(* mysqlnd_ms_xa_store_mysql_gc_all and do_gc_one: a transaction is chosen *)
(* and what the store knows of it is read in one snapshot.  A transaction  *)
(* marked SUCCESS, and one that lists no participant to look at, is erased *)
(* at once.                                                                *)
Collectable == trxState # "absent" /\ (trxFinished # "NO" \/ MayTimeOut)

GcErase ==
  /\ Idle /\ runs < MaxRuns
  /\ Collectable
  /\ trxFinished = "SUCCESS" \/ Failed = {}
  /\ DeleteRows
  /\ runs' = runs + 1
  /\ UNCHANGED <<gc, todo, row, mustCommit, done, branch>>

MustCommitPrepared(rows) ==                                      \* a mutant
  \E r \in rows : r.state \in {"XA_PREPARED", "XA_COMMIT"}

MustCommit(rows) == \E r \in rows : r.state = "XA_COMMIT"

GcBegin ==
  /\ Idle /\ runs < MaxRuns
  /\ Collectable
  /\ trxFinished # "SUCCESS" /\ Failed # {}
  /\ gc' = "visit" /\ runs' = runs + 1
  /\ todo' = Failed
  /\ mustCommit' = MustCommit(Failed)
  /\ UNCHANGED <<row, done, branch, storeVars>>

-----------------------------------------------------------------------------
(* mysqlnd_ms_xa_store_gc_participants *)

(* `Failed client or server': no garbage collection required. *)
Forgotten(r) == r.health # "OK" /\ r.state # "XA_PREPARED"

VisitAgain(r) == gc = "visit" /\ r \in todo /\ row' = r /\ UNCHANGED todo  \* a mutant

Visit(r) == /\ gc = "visit" /\ r \in todo
            /\ todo' = todo \ {r} /\ row' = r

GcForgotten ==
  /\ \E r \in todo : Visit(r) /\ Forgotten(r) /\ done' = done \union {r.conn}
  /\ UNCHANGED <<gc, mustCommit, runs, branch, storeVars>>

(* XA RECOVER on the server of the participant lists our branch if it is   *)
(* prepared, and perhaps those of others, which may be taken for ours: all *)
(* but the last digit of the identifier is compared.                       *)
GcRecover ==
  /\ \E r \in todo, others \in BOOLEAN :
        /\ Visit(r) /\ ~Forgotten(r)
        /\ \/ branch[r.conn] = "prepared" /\ gc' = "resolve" /\ UNCHANGED done
           \/ /\ branch[r.conn] # "prepared" /\ others
              /\ gc' \in {"visit", "resolve"} /\ UNCHANGED done
           \/ /\ branch[r.conn] # "prepared" /\ ~others
              /\ IF r.health = "OK" THEN gc' = "start" /\ UNCHANGED done
                 ELSE done' = done \union {r.conn} /\ UNCHANGED gc
  /\ UNCHANGED <<mustCommit, runs, branch, storeVars>>

(* XA START tells whether the client is still connected: the identifier    *)
(* is in use as long as there is a branch.                                 *)
GcStart ==
  /\ gc = "start" /\ gc' = "visit"
  /\ done' = IF branch[row.conn] \in {"active", "idle", "prepared"} THEN done
             ELSE done \union {row.conn}
  /\ UNCHANGED <<todo, row, mustCommit, runs, branch, storeVars>>

(* XA COMMIT or XA ROLLBACK is sent over the connection to the store: it   *)
(* finds a branch if the store's own server takes part, and only if no     *)
(* client holds it.                                                        *)
Resolvable == {c \in Local \ links : branch[c] = "prepared"}

Resolve(c) == branch' = [branch EXCEPT ![c] = IF mustCommit THEN "committed" ELSE "aborted"]

GcResolve ==
  /\ gc = "resolve" /\ gc' = "visit"
  /\ \E c \in Resolvable : Resolve(c)
  /\ done' = done \union {row.conn}
  /\ UNCHANGED <<todo, row, mustCommit, runs, storeVars>>

(* A participant cannot be reached, or a statement is refused: the rest of *)
(* the list is not visited.                                                *)
GcGiveUp ==
  /\ gc \in {"visit", "start", "resolve"}
  /\ gc' = "commit" /\ todo' = {}
  /\ UNCHANGED <<row, mustCommit, done, runs, branch, storeVars>>

(* `All participants happy?'  Then the transaction is deleted, else kept   *)
(* for another run.                                                        *)
Happy == row.conn \in done

Reset == gc' = "idle" /\ todo' = {} /\ row' = NoRow /\ mustCommit' = FALSE /\ done' = {}

GcFinish ==
  /\ \/ gc = "visit" /\ todo = {} /\ IF Happy THEN DeleteRows ELSE CommitRows
     \/ gc = "commit" /\ CommitRows
  /\ Reset
  /\ UNCHANGED <<runs, branch>>

(* The process dies, or loses the store: what it wrote there is undone, an *)
(* XA statement may have taken effect all the same.                        *)
GcCrash ==
  /\ gc # "idle"
  /\ \/ UNCHANGED branch
     \/ gc = "resolve" /\ \E c \in Resolvable : Resolve(c)
  /\ Reset
  /\ UNCHANGED <<runs, storeVars>>

-----------------------------------------------------------------------------
Collection == \/ GcErase \/ GcBegin \/ GcForgotten \/ GcRecover \/ GcStart
              \/ GcResolve \/ GcGiveUp \/ GcFinish

Gc == Collection \/ GcCrash

(* A statement of the client that writes a row the garbage collection has  *)
(* changed waits for the end of the run, or is refused.                    *)
RowLocks == \A c \in done : UNCHANGED <<partState[c], partHealth[c]>>

GcNext == \/ Next /\ RowLocks /\ UNCHANGED gcVars
          \/ Gc /\ UNCHANGED <<callVars, trxVars, links, worked>>

GcSpec == GcInit /\ [][GcNext]_allVars

(* A run of the garbage collection goes on until it ends, unless its       *)
(* process dies: every statement is answered, or its connection breaks.    *)
GcFairSpec == GcSpec /\ WF_allVars(Collection /\ UNCHANGED <<callVars, trxVars, links, worked>>)

-----------------------------------------------------------------------------
(* Properties.                                                             *)

(* The garbage collection commits a branch only if the commit had been     *)
(* decided: all the work of the transaction is prepared or committed, and  *)
(* a server has committed already.                                         *)
CommitsFollow ==
  [][\A c \in Conn : Gc /\ branch[c] = "prepared" /\ branch'[c] = "committed" =>
        Committed /\ \A d \in worked : branch[d] \in {"prepared", "committed"}]_allVars

(* A run that has begun ends, and lets go of the rows it has locked: it    *)
(* visits every row once, and gives up at the first that resists.          *)
CollectionEnds == gc # "idle" ~> gc = "idle"

(* Why CommitsFollow holds: what remains true of the coordinator's         *)
(* invariant when the garbage collection deletes rows and resolves         *)
(* branches behind its back.  That nobody undoes a commit is true only of  *)
(* the servers the garbage collection never changes, those not in Local;   *)
(* and it commits only where some server has committed before it.          *)
RunInv == mustCommit => Committed

RecoveryAgreementInv ==
  /\ GcTypeOK /\ ControlInv /\ ListInv /\ PhaseInv /\ ParticipantInv
  /\ PreparedInv(Conn \ Local) /\ RecordInv /\ StoreNeverAhead /\ RunInv

RecoveryInv == /\ RecoveryAgreementInv /\ DecisionInv(Conn \ Local)
               /\ AnswerIsTrue /\ SuccessIsSettled

(* What the comments of the garbage collection say, and the code does not  *)
(* do.                                                                     *)

(* `if there is a single participant in XA_COMMIT state already, we MUST   *)
(* commit': a branch of the transaction is not rolled back as long as the  *)
(* store has a participant recorded in that state.                         *)
RecordedCommitStands ==
  [][(\E c \in Conn : partState[c] = "XA_COMMIT") =>
        \A c \in Conn : branch[c] = "prepared" => branch'[c] # "aborted"]_allVars
=============================================================================

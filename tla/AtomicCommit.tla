---------------------------- MODULE AtomicCommit ----------------------------
(***************************************************************************)
(* What a global transaction of mysqlnd_ms promises its user, with no      *)
(* coordinator, no state store and no messages: a server that did work for *)
(* the transaction commits only if every server that did work for it is    *)
(* prepared or has committed, and is rolled back only as long as nobody    *)
(* has committed.  A server on which the transaction was merely opened,    *)
(* and where no statement of it has run, may be dropped at any time: there *)
(* is nothing to lose on it.                                               *)
(*                                                                         *)
(* XaCoordinator implements this specification.                            *)
(***************************************************************************)
CONSTANT Conn                  \* the servers (one connection to each)

VARIABLES fate,                \* what has become of the transaction on a server
          worked               \* did a statement of the transaction run there?

vars == <<fate, worked>>

Fate == {"open", "prepared", "committed", "aborted"}

TypeOK == /\ fate \in [Conn -> Fate]
          /\ worked \in SUBSET Conn

Committed == \E c \in Conn : fate[c] = "committed"

(* Every server with something to lose has voted for the commit. *)
AllReady == \A c \in worked : fate[c] \in {"prepared", "committed"}

Init == /\ fate = [c \in Conn |-> "open"]
        /\ worked = {}

Work(c) == /\ fate[c] = "open"
           /\ ~Committed
           /\ worked' = worked \union {c}
           /\ UNCHANGED fate

Prepare(c) == /\ fate[c] = "open"
              /\ fate' = [fate EXCEPT ![c] = "prepared"]
              /\ UNCHANGED worked

Commit(c) == /\ fate[c] = "prepared"
             /\ AllReady
             /\ fate' = [fate EXCEPT ![c] = "committed"]
             /\ UNCHANGED worked

(* The servers of D are rolled back together: a client that disappears     *)
(* loses all its connections at once.                                      *)
Abort(D) == /\ \A c \in D : fate[c] \in {"open", "prepared"}
            /\ Committed => D \intersect worked = {}
            /\ fate' = [c \in Conn |-> IF c \in D THEN "aborted" ELSE fate[c]]
            /\ UNCHANGED worked

Next == \/ \E c \in Conn : Work(c) \/ Prepare(c) \/ Commit(c)
        \/ \E D \in SUBSET Conn : Abort(D)

Spec == Init /\ [][Next]_vars

(* All or nothing: no server has committed the transaction while another   *)
(* one that did work for it has rolled it back.                            *)
Consistent == \A c, d \in Conn :
                 ~(fate[c] = "committed" /\ d \in worked /\ fate[d] = "aborted")
=============================================================================

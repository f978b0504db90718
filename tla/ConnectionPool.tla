--------------------------- MODULE ConnectionPool ---------------------------
(***************************************************************************)
(* The connection pool behind a handle of mysqlnd_ms: every connection the *)
(* handle has, which of them the filters may pick from, how many global    *)
(* transactions refer to each, and the session commands kept for replay on *)
(* connections that join later.  The operations are operators on a pool    *)
(* record, as the C functions work on a struct; they answer with the pool  *)
(* and, where the C function returns one, with a status.                   *)
(*                                                                         *)
(* An element stands for its MYSQLND_MS_LIST_DATA.                         *)
(***************************************************************************)
EXTENDS Integers, Sequences, FiniteSets, SequencesExt

CONSTANTS
  Element,  \* the connections a pool may hold
  Value     \* what the commands set

Role == {"master", "slave"}

\* The commands the pool keeps, by the function that dispatches them.
Command == {"select_db", "set_charset", "set_server_option",
            "set_client_option", "change_user", "ssl_set"}

NoEntry == [known |-> FALSE, active |-> FALSE, removed |-> FALSE, ref |-> 0]

Buffer == [key : Seq(Command \union Value), cmd : Command, value : Value]

Pool == [list : [Role -> Seq(Element)], active : [Role -> Seq(Element)],
         entry : [Element -> [known : BOOLEAN, active : BOOLEAN, removed : BOOLEAN, ref : Nat]],
         key : [Element -> Seq(Element \X BOOLEAN)],
         buffered_cmds : Seq(Buffer)]

EmptyPool ==
  [list   |-> [r \in Role |-> <<>>],  \* master_list, slave_list in their order
   active |-> [r \in Role |-> <<>>],  \* active_master_list, active_slave_list
   entry  |-> [e \in Element |-> NoEntry],
   key    |-> [e \in Element |-> <<>>],  \* pool_hash_key
   buffered_cmds |-> <<>>]

ActiveElements(pool) == ToSet(pool.active["master"]) \union ToSet(pool.active["slave"])

\* BEGIN_ITERATE_OVER_SERVER_LISTS: the masters, then the slaves.
ServerLists(pool) == pool.active["master"] \o pool.active["slave"]

RoleOf(pool, e) == CHOOSE r \in Role : e \in ToSet(pool.list[r])

-----------------------------------------------------------------------------

Add(pool, r, e, key) ==
  [pool EXCEPT !.list[r] = Append(@, e),
               !.active[r] = Append(@, e),
               !.entry[e] = [known |-> TRUE, active |-> TRUE, removed |-> FALSE, ref |-> 1],
               !.key[e] = key]

FlushActive(pool) ==
  [pool EXCEPT !.active = [r \in Role |-> <<>>],
               !.entry = [e \in Element |->
                            IF e \in ActiveElements(pool) THEN [@[e] EXCEPT !.active = FALSE]
                                                          ELSE @[e]]]

\* connection_exists: the elements with this key.  It is what they are hashed by.
Found(pool, key) ==
  {e \in ToSet(pool.list["master"]) \union ToSet(pool.list["slave"]) : pool.key[e] = key}

\* connection_reactivate.
Reactivated(pool, r, e) ==
  [pool EXCEPT !.entry[e].active = TRUE, !.active[r] = Append(@, e)]

\* connection_remove: an entry without references stays, as the key it is to
\* be deleted by is one byte too long, and the call fails.
Removed(pool, e) ==
  IF pool.entry[e].ref = 1 THEN [status |-> "FAIL", pool |-> pool]
  ELSE [status |-> "PASS", pool |-> [pool EXCEPT !.entry[e].removed = TRUE]]

AddReferenceToFirst(pool, e) ==
  [pool EXCEPT !.entry[(pool.list["master"] \o pool.list["slave"])[1]].ref = @ + 1]

AddReference(pool, e) == [pool EXCEPT !.entry[e].ref = @ + 1]

\* pool_free_reference, for n connections.  The loop returns from its first
\* round: whichever connection it is called for, the reference is taken from
\* the first of the pool, down to the pool's own.
FreeReferences(pool, n) ==
  LET all == pool.list["master"] \o pool.list["slave"]
  IN IF all = <<>> THEN pool
     ELSE [pool EXCEPT !.entry[all[1]].ref = IF @ > n THEN @ - n ELSE 1]

-----------------------------------------------------------------------------

\* What pool_get_buffered_entry looks for.  set_charset looks for, and adds,
\* an entry of select_db; a server option is told by its value; a client
\* option too, so that one with another value is another entry.
BufferKey(cmd, value) ==
  CASE cmd = "set_charset" -> <<"select_db">>
    [] cmd \in {"set_server_option", "set_client_option"} -> <<cmd, value>>
    [] OTHER -> <<cmd>>

Buffered(pool, key) == \E i \in DOMAIN pool.buffered_cmds : pool.buffered_cmds[i].key = key

\* An entry that is found is left as it is: the caller's pointer stays NULL.
Dispatch(pool, cmd, value) ==
  IF Buffered(pool, BufferKey(cmd, value)) THEN pool
    ELSE [pool EXCEPT !.buffered_cmds =
            Append(@, [key |-> BufferKey(cmd, value), cmd |-> cmd, value |-> value])]
=============================================================================

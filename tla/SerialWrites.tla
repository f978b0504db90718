----------------------------- MODULE SerialWrites -----------------------------
(***************************************************************************)
(* What write consistency promises to one context partition                *)
(* (docs/BOOK/CONCEPTS/SERVICE-LEVEL-AND-CONSISTENCY.md): its writes may   *)
(* go to any master, but a master that takes a write has all the writes    *)
(* before it.  So no two of them can conflict when they are replicated.    *)
(***************************************************************************)
EXTENDS Naturals

CONSTANT Master

VARIABLES written,  \* how many writes there have been
          applied   \* the writes a master has executed or replicated

vars == <<written, applied>>

TypeOK == /\ written \in Nat
          /\ applied \in [Master -> SUBSET (1 .. written)]

Init == /\ written = 0
        /\ applied = [m \in Master |-> {}]

Write(m) == /\ applied[m] = 1 .. written
            /\ written' = written + 1
            /\ applied' = [applied EXCEPT ![m] = @ \union {written + 1}]

Replicate(m) == /\ \E w \in 1 .. written :
                      applied' = [applied EXCEPT ![m] = @ \union {w}]
                /\ UNCHANGED written

Next == \E m \in Master : Write(m) \/ Replicate(m)

Spec == Init /\ [][Next]_vars
=============================================================================

------------------------------ MODULE PagePool ------------------------------
(***************************************************************************)
(* What the physical page allocator of memory.c promises its clients.      *)
(* A page is handed out only from the pool and comes back only from a      *)
(* client that holds it, a request is refused only when the pool is empty, *)
(* and the free-page count it publishes is the size of the pool.           *)
(***************************************************************************)
EXTENDS Integers, FiniteSets

CONSTANT NoPage     \* the answer to a request that was refused

VARIABLES
  open,     \* the pool has been stocked
  pool,     \* pages that can be handed out
  held,     \* pages that clients hold
  count,    \* the number of free pages the allocator publishes
  answer    \* the answer to the latest request

poolVars == <<open, pool, held, count, answer>>

Init ==
  /\ open = FALSE
  /\ pool = {}
  /\ held = {}
  /\ count = 0
  /\ answer = NoPage

\* Stocking happens once, before any request.
Stock ==
  /\ ~open
  /\ open' = TRUE
  /\ IsFiniteSet(pool')
  /\ count' = Cardinality(pool')
  /\ UNCHANGED <<held, answer>>

Take ==
  /\ open
  /\ \E p \in pool :
       /\ pool' = pool \ {p}
       /\ held' = held \cup {p}
       /\ answer' = p
  /\ count' = count - 1
  /\ UNCHANGED open

Refuse ==
  /\ open
  /\ pool = {}
  /\ answer' = NoPage
  /\ UNCHANGED <<open, pool, held, count>>

Give ==
  /\ open
  /\ \E p \in held :
       /\ held' = held \ {p}
       /\ pool' = pool \cup {p}
  /\ count' = count + 1
  /\ UNCHANGED <<open, answer>>

Next == Stock \/ Take \/ Refuse \/ Give

Spec == Init /\ [][Next]_poolVars
=============================================================================

------------------------------ MODULE Reconcile ------------------------------
(***************************************************************************)
(* What RouteManager.Sync promises, with nothing of how it does it: a      *)
(* caller takes the table as it is at one moment, and at a later moment    *)
(* the whole router switches to what that table asks for.                  *)
(***************************************************************************)
CONSTANTS
  Callers,      \* who may call Sync
  Tables,       \* what a read of the apps table can give
  Routing(_),   \* the router that a table asks for
  Blank         \* the router before the first call

VARIABLES
  table,  \* what a read of the table gives now
  taken,  \* the table each caller has taken: a set of none or one
  shown   \* the router: host -> handler

vars == <<table, taken, shown>>

Init ==
  /\ table \in Tables
  /\ taken = [c \in Callers |-> {}]
  /\ shown = Blank

Edit ==
  /\ table' \in Tables
  /\ UNCHANGED <<taken, shown>>

Take(c) ==
  /\ taken[c] = {}
  /\ taken' = [taken EXCEPT ![c] = {table}]
  /\ UNCHANGED <<table, shown>>

Switch(c) ==
  /\ \E t \in taken[c] : shown' = Routing(t)
  /\ taken' = [taken EXCEPT ![c] = {}]
  /\ UNCHANGED table

Next == Edit \/ \E c \in Callers : Take(c) \/ Switch(c)

Spec == Init /\ [][Next]_vars
=============================================================================

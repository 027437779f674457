----------------------------- MODULE SlotPool ------------------------------
(***************************************************************************)
(* What a connection table promises, with no table, no scan, no mutex and  *)
(* no threads: at most Capacity connections are served, a connection is    *)
(* served once between being accepted and being closed, and its descriptor *)
(* is not given to another one before it has been closed.                  *)
(***************************************************************************)
EXTENDS Naturals, FiniteSets

CONSTANTS Capacity, Conn

VARIABLES serving, closing

poolVars == <<serving, closing>>

Init == serving = {} /\ closing = {}

Join(c) ==
  /\ c \notin serving \cup closing
  /\ Cardinality(serving) < Capacity
  /\ serving' = serving \cup {c}
  /\ UNCHANGED closing

Leave(c) ==
  /\ c \in serving
  /\ serving' = serving \ {c}
  /\ closing' = closing \cup {c}

Close(c) ==
  /\ c \in closing
  /\ closing' = closing \ {c}
  /\ UNCHANGED serving

Next == \E c \in Conn : Join(c) \/ Leave(c) \/ Close(c)

Spec == Init /\ [][Next]_poolVars
=============================================================================

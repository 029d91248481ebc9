---------------------------- MODULE VersionedRow ----------------------------
(***************************************************************************)
(* What optimistic locking promises: whoever replaces a cell has looked at *)
(* exactly the value that is replaced, and replacing it is a single step.  *)
(***************************************************************************)
CONSTANTS Cells, Clients, Values, Free, Nothing

VARIABLES cells, views

Blind == [cell |-> Nothing, value |-> Nothing]

Init ==
  /\ cells \in [Cells -> {Free}]
  /\ views = [c \in Clients |-> Blind]

\* A client takes a look, or forgets what it has seen.
Look(c) ==
  /\ \/ \E i \in Cells : views' = [views EXCEPT ![c] = [cell |-> i, value |-> cells[i]]]
     \/ views' = [views EXCEPT ![c] = Blind]
  /\ UNCHANGED cells

Replace(c) ==
  LET i == views[c].cell IN
    /\ i \in Cells
    /\ views[c].value = cells[i]
    /\ cells'[i] \in Values
    /\ cells' = [cells EXCEPT ![i] = cells'[i]]
    /\ views' = [views EXCEPT ![c] = Blind]

Next == \E c \in Clients : Look(c) \/ Replace(c)

Spec == Init /\ [][Next]_<<cells, views>>
=============================================================================

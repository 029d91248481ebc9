-------------------------- MODULE SessionLifecycle --------------------------
(***************************************************************************)
(* What a refresh session promises whoever holds or revokes it, with no    *)
(* Redis, no requests and no clock: it is opened once, on terms that never *)
(* change; while it lives, every change of its secret is to one that was   *)
(* never stored before; and once it is closed it never lives again.        *)
(***************************************************************************)
CONSTANTS Sessions, Secrets, Terms, None

VARIABLES
  phase,    \* "none", "live" or "dead"
  terms,    \* of a live session: its user, creation and absolute expiry
  current,  \* of a live session: the secret it accepts
  spent     \* every secret that was ever stored

vars == <<phase, terms, current, spent>>

Init ==
  /\ phase = [s \in Sessions |-> "none"]
  /\ terms = [s \in Sessions |-> None]
  /\ current = [s \in Sessions |-> None]
  /\ spent = {}

Spend(x) == x \notin spent /\ spent' = spent \cup {x}

Open(s, x) ==
  /\ phase[s] = "none"
  /\ Spend(x)
  /\ phase' = [phase EXCEPT ![s] = "live"]
  /\ terms'[s] \in Terms
  /\ terms' = [terms EXCEPT ![s] = terms'[s]]
  /\ current' = [current EXCEPT ![s] = x]

Rotate(s, x) ==
  /\ phase[s] = "live"
  /\ Spend(x)
  /\ current' = [current EXCEPT ![s] = x]
  /\ UNCHANGED <<phase, terms>>

\* A secret is drawn for a session that is no longer live.
Waste(x) ==
  /\ Spend(x)
  /\ UNCHANGED <<phase, terms, current>>

\* Revocation, or expiry of every session in S at once.
Close(S) ==
  /\ \A s \in S : phase[s] = "live"
  /\ phase' = [s \in Sessions |-> IF s \in S THEN "dead" ELSE phase[s]]
  /\ terms' = [s \in Sessions |-> IF s \in S THEN None ELSE terms[s]]
  /\ current' = [s \in Sessions |-> IF s \in S THEN None ELSE current[s]]
  /\ UNCHANGED spent

Next ==
  \/ \E s \in Sessions, x \in Secrets : Open(s, x) \/ Rotate(s, x)
  \/ \E x \in Secrets : Waste(x)
  \/ \E S \in SUBSET Sessions : Close(S)

Spec == Init /\ [][Next]_vars
=============================================================================

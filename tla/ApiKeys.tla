------------------------------- MODULE ApiKeys ------------------------------
(***************************************************************************)
(* ApiKeyService.create (security/api_keys.py) over a repository whose     *)
(* insert may be refused, or stored and raise all the same, and an audit   *)
(* sink that may fail, which the service ignores.  A process that dies     *)
(* simply takes no further step.                                           *)
(***************************************************************************)

CONSTANTS
  KeyIds,       \* the keys generate_secret may make, each with a public id
  Creators      \* calls of create

VARIABLES
  stored,       \* the keys whose rows are in the table
  creations,    \* each call of create: how far it has come, and its key
  trail         \* what the audit sink has received

keyVars == <<stored, creations, trail>>

Records == [action : {"created", "create_failed"}, key : KeyIds]

ApiKeysTypeOK ==
  /\ stored \subseteq KeyIds
  /\ creations \in [Creators ->
       [step : {"insert", "created", "create_failed", "success_recorded",
                "failure_recorded", "returned", "raised"}, key : KeyIds]]
  /\ trail \subseteq Records

\* generate_secret has made a key for each call; two calls never share one unless
\* a test overrides it, and then the unique public_id refuses the second.
ApiKeysInit ==
  /\ stored = {}
  /\ creations \in [Creators -> [step : {"insert"}, key : KeyIds]]
  /\ trail = {}

Advances(c, from, to) ==
  /\ creations[c].step = from
  /\ creations' = [creations EXCEPT ![c].step = to]

\* repository.insert: an exception does not tell whether the row is stored.
InsertKey(c) ==
  LET key == creations[c].key IN
    /\ \/ /\ Advances(c, "insert", "created")
          /\ key \notin stored /\ stored' = stored \cup {key}
       \/ /\ Advances(c, "insert", "create_failed")
          /\ stored' \in {stored, stored \cup {key}}
    /\ UNCHANGED trail

\* Mutant: the record is written first, with what is expected to happen.
Record_Created(c) == [action |-> "created", key |-> creations[c].key]

\* The record of _record_success or _record_failure.
Record(c) == [action |-> creations[c].step, key |-> creations[c].key]

\* _record_success or _record_failure: _emit swallows what the sink raises.
EmitRecord(c) ==
  /\ \/ Advances(c, "created", "success_recorded")
     \/ Advances(c, "create_failed", "failure_recorded")
  /\ trail' \in {trail, trail \cup {Record(c)}}
  /\ UNCHANGED stored

\* Only then does create return the plaintext, or raise.
Return(c) ==
  /\ \/ Advances(c, "success_recorded", "returned")
     \/ Advances(c, "failure_recorded", "raised")
  /\ UNCHANGED <<stored, trail>>

ApiKeysNext == \E c \in Creators : InsertKey(c) \/ EmitRecord(c) \/ Return(c)

ApiKeysSpec == ApiKeysInit /\ [][ApiKeysNext]_keyVars

\* A call whose insert was accepted; whoever dies here stays here.
Inserted(c) == creations[c].step \in {"created", "success_recorded", "returned"}

\* One call at most returns the plaintext of a key, and only of a key that is stored.
\* The trail says `created` only of a stored key, made by a call whose insert was
\* accepted and which has the record behind it: it has returned the plaintext, or
\* will, or died on the way, so that nobody has the key (api_keys.py 69-80, 144-174).
TrailIsTrue ==
  /\ \A c \in Creators : creations[c].step = "returned" =>
       /\ creations[c].key \in stored
       /\ \A d \in Creators : creations[d] = creations[c] => d = c
  /\ \A r \in trail : r.action = "created" =>
       /\ r.key \in stored
       /\ \E c \in Creators : /\ creations[c].step \in {"success_recorded", "returned"}
                              /\ creations[c].key = r.key

\* The calls whose insert was accepted have a row each.
ApiKeysIInv ==
  /\ ApiKeysTypeOK
  /\ TrailIsTrue
  /\ \A c \in Creators : Inserted(c) =>
       /\ creations[c].key \in stored
       /\ \A d \in Creators : Inserted(d) /\ creations[d].key = creations[c].key => d = c
=============================================================================

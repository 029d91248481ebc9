--------------------------- MODULE ServiceEditing ---------------------------
(***************************************************************************)
(* Rows of mcp_service (db/models.py) edited by concurrent transactions    *)
(* through ServiceRepository.update_with_row_version (db/repository.py),   *)
(* inserted, soft-deleted and restored.                                    *)
(*                                                                         *)
(* A name is unique within a uniqueness_scope.  Live rows share the scope  *)
(* LIVE and each deleted row has a scope of its own, so that the name of a *)
(* deleted service can be used again.                                      *)
(***************************************************************************)
EXTENDS Naturals

CONSTANTS
  Services,     \* ids
  Names,        \* namespace_key and name_normalized
  Editors,      \* callers, each in a transaction of its own
  LIVE,
  Nothing,
  MaxVersion    \* bound on row_version

ASSUME ServiceEditingAssumption ==
  LIVE \notin Services /\ Nothing \notin Services /\ MaxVersion \in Nat

\* content stands for the public fields: it names the editor who wrote them.
Row == [name : Names, scope : Services \cup {LIVE}, deleted : BOOLEAN,
        version : Nat, content : Editors]
Free == [version |-> 0]

VARIABLES
  services,     \* the committed rows
  editors       \* each editor: the service, the row it read, the row it has written

serviceVars == <<services, editors>>

Editor == [step : {"read", "written"}, service : Services, seen : Row \cup {Free},
           row : Row \cup {Free}]
NoEdit == [step |-> "idle"]

ServiceEditingTypeOK ==
  /\ services \in [Services -> Row \cup {Free}]
  /\ editors \in [Editors -> Editor \cup {NoEdit}]

ServiceEditingInit ==
  /\ services = [s \in Services |-> Free]
  /\ editors = [e \in Editors |-> NoEdit]

\* Transactions that hold the lock of a row until they end.
Writes(e, s) == editors[e].step = "written" /\ editors[e].service = s
Locked(s) == \E e \in Editors : Writes(e, s)

----------------------------------------------------------------------------
(* Constraints of the table *)

\* Mutant: without the constraint m1_delete_001 adds.
ScopeConsistent_Off(row) == TRUE

\* ck_mcp_service_deleted_scope_consistency
ScopeConsistent(row) == row.deleted <=> row.scope # LIVE

SameKey(row, other) ==
  row # Free /\ other # Free /\ row.name = other.name /\ row.scope = other.scope

\* Mutant: the constraint is on the name among undeleted rows as others see them.
KeyFree_Committed(s, row) ==
  \A t \in Services \ {s} : ~SameKey(row, services[t])

\* uq_mcp_service_namespace_name_scope: a key that another transaction has just
\* written, or is about to give up, makes the writer wait for its end.
KeyFree(s, row) ==
  \A t \in Services \ {s} :
    /\ ~SameKey(row, services[t])
    /\ \A e \in Editors : Writes(e, t) => ~SameKey(row, editors[e].row)

KeyTaken(s, row) == \E t \in Services \ {s} : SameKey(row, services[t]) /\ ~Locked(t)

----------------------------------------------------------------------------
(* Transactions *)

Read(e, s) ==
  /\ editors[e].step = "idle"
  /\ editors' = [editors EXCEPT ![e] =
       [step |-> "read", service |-> s, seen |-> services[s], row |-> Free]]
  /\ UNCHANGED services

EndEdit(e) == editors' = [editors EXCEPT ![e] = NoEdit]

\* A statement writes the row, or the constraints refuse it and the transaction
\* ends with an IntegrityError.
Statement(e, s, row) ==
  \/ /\ ScopeConsistent(row) /\ KeyFree(s, row)
     /\ editors' = [editors EXCEPT ![e].step = "written", ![e].row = row]
  \/ /\ ~ScopeConsistent(row) \/ KeyTaken(s, row)
     /\ EndEdit(e)

\* Mutant: the version is left to the caller.
NextVersion_Same(row) == row.version

NextVersion(row) == row.version + 1

\* Mutants: an UPDATE by id alone, and one that finds deleted rows.
Current_Any(e, row) == ~row.deleted
Current_Deleted(e, row) == row.version = editors[e].seen.version

\* WHERE id = ... AND row_version = expected AND deleted_at IS NULL
Current(e, row) == row.version = editors[e].seen.version /\ ~row.deleted

\* update_with_row_version.  public_fields may set any column, among them those
\* of a soft delete; only row_version is taken out of them.
UpdateWithRowVersion(e, name, scope, deleted) ==
  LET s == editors[e].service row == services[s] IN
    /\ editors[e].step = "read" /\ editors[e].seen # Free
    /\ ~Locked(s)
    /\ \/ /\ Current(e, row) /\ row.version < MaxVersion
          /\ Statement(e, s, [name |-> name, scope |-> scope, deleted |-> deleted,
                              version |-> NextVersion(row), content |-> e])
       \/ ~Current(e, row) /\ EndEdit(e)
    /\ UNCHANGED services

\* INSERT of a new service, by a caller who found none with this id.
Insert(e, name) ==
  LET s == editors[e].service IN
    /\ editors[e].step = "read" /\ editors[e].seen = Free
    /\ ~Locked(s)
    /\ \/ /\ services[s] = Free
          /\ Statement(e, s, [name |-> name, scope |-> LIVE, deleted |-> FALSE,
                              version |-> 1, content |-> e])
       \/ services[s] # Free /\ EndEdit(e)
    /\ UNCHANGED services

\* Restoring: UPDATE ... WHERE id = ... AND deleted_at IS NOT NULL; the name may be
\* in use again by now.  That the version is compared too is as documented
\* (03-service-crud.md 436); the test that shows the statement is alone.
Restore(e) ==
  LET s == editors[e].service row == services[s] IN
    /\ editors[e].step = "read" /\ editors[e].seen # Free
    /\ ~Locked(s)
    /\ \/ /\ row.deleted /\ row.version = editors[e].seen.version
          /\ row.version < MaxVersion
          /\ Statement(e, s, [row EXCEPT !.scope = LIVE, !.deleted = FALSE,
                                         !.version = row.version + 1])
       \/ ~(row.deleted /\ row.version = editors[e].seen.version) /\ EndEdit(e)
    /\ UNCHANGED services

Commit(e) ==
  /\ editors[e].step = "written"
  /\ services' = [services EXCEPT ![editors[e].service] = editors[e].row]
  /\ EndEdit(e)

\* The caller gives up or dies, or the database breaks a deadlock.
Rollback(e) ==
  /\ editors[e].step # "idle"
  /\ EndEdit(e)
  /\ UNCHANGED services

ServiceEditingNext ==
  \E e \in Editors :
    \/ \E s \in Services : Read(e, s)
    \/ \E n \in Names :
         \/ Insert(e, n)
         \/ \E scope \in Services \cup {LIVE}, deleted \in BOOLEAN :
              UpdateWithRowVersion(e, n, scope, deleted)
    \/ Restore(e) \/ Commit(e) \/ Rollback(e)

ServiceEditingSpec == ServiceEditingInit /\ [][ServiceEditingNext]_serviceVars

----------------------------------------------------------------------------
(* Properties *)

\* No two services that are not deleted have the same name, whatever was created,
\* renamed, deleted and restored at once (models.py 160-165, 203-210).
LiveNamesUnique ==
  \A s, t \in Services :
    /\ services[s] # Free /\ services[t] # Free
    /\ ~services[s].deleted /\ ~services[t].deleted
    /\ services[s].name = services[t].name
    => s = t

\* An editor whose version matched replaces the row it read and no other: nothing
\* was written since by anyone, itself included (repository.py 3-6, 44-48).
NoLostUpdate ==
  [][\A e \in Editors, s \in Services :
       Writes(e, s) /\ services'[s] # services[s] => services[s] = editors[e].seen]_serviceVars

\* What was deleted comes back only by a restore: with the content it had, and
\* not by an edit that began before the deletion (repository.py 61).
DeletedAreNotEdited ==
  [][\A s \in Services :
       services[s] # Free /\ services[s].deleted /\ services'[s] # services[s] =>
         /\ ~services'[s].deleted
         /\ services'[s].content = services[s].content]_serviceVars

\* The promise: an editor sees a row until it commits, and replaces it in one step.
Views == [e \in Editors |->
  IF editors[e].step = "idle" THEN [cell |-> Nothing, value |-> Nothing]
  ELSE [cell |-> editors[e].service, value |-> editors[e].seen]]

Optimistic == INSTANCE VersionedRow
  WITH Cells <- Services, Clients <- Editors, Values <- Row,
       cells <- services, views <- Views

\* update_with_row_version implements optimistic locking (repository.py 38-48).
EditsAreAtomic == Optimistic!Spec

----------------------------------------------------------------------------
(* The inductive invariant *)

\* Of a deleted row nothing changes but that it is no longer deleted.
Restores(old, row) ==
  old # Free /\ old.deleted => ~row.deleted /\ row.content = old.content

\* A transaction that has written has its row to itself, and found it as read.
WriterIsAlone ==
  \A e \in Editors : editors[e].step = "written" =>
    LET s == editors[e].service IN
      /\ services[s] = editors[e].seen
      /\ editors[e].row \in Row
      /\ ScopeConsistent(editors[e].row)
      /\ editors[e].row.version = services[s].version + 1
      /\ Restores(services[s], editors[e].row)
      /\ \A d \in Editors : Writes(d, s) => d = e

\* No key is taken twice, among what is committed and what may yet be.
KeysUnique ==
  /\ \A s \in Services : services[s] # Free => ScopeConsistent(services[s])
  /\ \A s, t \in Services : s # t => ~SameKey(services[s], services[t])
  /\ \A e \in Editors, s, t \in Services : Writes(e, s) /\ s # t =>
       /\ ~SameKey(editors[e].row, services[t])
       /\ \A d \in Editors : Writes(d, t) => ~SameKey(editors[e].row, editors[d].row)

\* A version tells one state of the row: who knows the version knows the row.
VersionsTell ==
  \A e \in Editors : editors[e].step # "idle" =>
    LET seen == editors[e].seen row == services[editors[e].service] IN
      /\ seen.version <= row.version
      /\ seen.version = row.version => seen = row

ServiceEditingIInv ==
  ServiceEditingTypeOK /\ WriterIsAlone /\ KeysUnique /\ VersionsTell
=============================================================================

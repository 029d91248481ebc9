------------------------ MODULE ServiceEditingProofs ------------------------
(***************************************************************************)
(* Proofs about ServiceEditing, for any services, names and editors.       *)
(***************************************************************************)
EXTENDS ServiceEditing, TLAPS

USE ServiceEditingAssumption

----------------------------------------------------------------------------
(* What the actions do, in three kinds of steps *)

\* An editor's transaction ends and leaves the table as it is.
Gone(e) == EndEdit(e) /\ UNCHANGED services

\* A statement has written a row over the one the editor had read.
Wrote(e, row) ==
  LET s == editors[e].service IN
    /\ editors[e].step = "read"
    /\ editors' = [editors EXCEPT ![e].step = "written", ![e].row = row]
    /\ UNCHANGED services
    /\ services[s] = editors[e].seen
    /\ ~Locked(s)
    /\ row \in Row /\ row.version = services[s].version + 1
    /\ Restores(services[s], row)
    /\ ScopeConsistent(row) /\ KeyFree(s, row)

\* The absence of a row is not a row.
LEMMA FreeIsNoRow == Free \notin Row /\ Free.version = 0
<1>1. ASSUME Free \in Row PROVE FALSE
  <2>1. "name" \in DOMAIN Free
    BY <1>1 DEF Row
  <2> QED BY <2>1 DEF Free
<1> QED BY <1>1 DEF Free

\* A restored row is one.
LEMMA RestoredIsRow ==
  ASSUME NEW row \in Row
  PROVE  LET new == [row EXCEPT !.scope = LIVE, !.deleted = FALSE, !.version = row.version + 1]
         IN  new \in Row /\ new.version = row.version + 1 /\ Restores(row, new)
<1>1. row.version + 1 \in Nat
  BY DEF Row
<1> QED BY <1>1 DEF Row, Restores

LEMMA NoEditIsNoEditor == NoEdit \notin Editor /\ NoEdit.step = "idle"
BY DEF NoEdit, Editor

\* Who is not idle is an editor with a service.
LEMMA Busy ==
  ASSUME ServiceEditingTypeOK, NEW e \in Editors, editors[e].step # "idle"
  PROVE  /\ editors[e] \in Editor
         /\ editors[e].service \in Services
         /\ editors[e].seen \in Row \cup {Free}
         /\ editors[e].step \in {"read", "written"}
<1>1. editors[e] \in Editor
  BY NoEditIsNoEditor DEF ServiceEditingTypeOK
<1> QED BY <1>1 DEF Editor

\* Every step is of one of these kinds.
LEMMA Kinds ==
  ASSUME ServiceEditingTypeOK, VersionsTell, ServiceEditingNext
  PROVE  \E e \in Editors :
           \/ \E s \in Services : Read(e, s)
           \/ Gone(e) /\ editors[e].step # "idle"
           \/ \E row \in Row : Wrote(e, row)
           \/ Commit(e)
<1> DEFINE Kind(e) == \/ \E s \in Services : Read(e, s)
                      \/ Gone(e) /\ editors[e].step # "idle"
                      \/ \E row \in Row : Wrote(e, row)
                      \/ Commit(e)
<1>1. ASSUME NEW e \in Editors, editors[e].step = "read", NEW new,
             LET s == editors[e].service IN
               /\ services[s] = editors[e].seen
               /\ ~Locked(s)
               /\ new \in Row /\ new.version = services[s].version + 1
               /\ Restores(services[s], new)
               /\ Statement(e, s, new),
             UNCHANGED services
      PROVE  Kind(e)
  <2>1. CASE EndEdit(e)
    BY <1>1, <2>1 DEF Gone
  <2>2. CASE ~EndEdit(e)
    <3>1. Wrote(e, new)
      BY <1>1, <2>2 DEF Statement, Wrote
    <3> QED BY <1>1, <3>1
  <2> QED BY <2>1, <2>2
<1>2. PICK e \in Editors :
        \/ \E s \in Services : Read(e, s)
        \/ \E n \in Names :
             \/ Insert(e, n)
             \/ \E scope \in Services \cup {LIVE}, deleted \in BOOLEAN :
                  UpdateWithRowVersion(e, n, scope, deleted)
        \/ Restore(e) \/ Commit(e) \/ Rollback(e)
  BY DEF ServiceEditingNext
<1>3. ASSUME NEW n \in Names, Insert(e, n) PROVE Kind(e)
  <2> DEFINE s == editors[e].service
             new == [name |-> n, scope |-> LIVE, deleted |-> FALSE, version |-> 1, content |-> e]
  <2>1. CASE services[s] # Free
    BY <1>3, <2>1 DEF Insert, Gone
  <2>2. CASE services[s] = Free
    <3>1. new \in Row /\ new.version = services[s].version + 1 /\ Restores(services[s], new)
      BY <2>2, FreeIsNoRow DEF Row, Restores
    <3>2. editors[e].step = "read" /\ services[s] = editors[e].seen /\ ~Locked(s)
          /\ Statement(e, s, new) /\ UNCHANGED services
      BY <1>3, <2>2 DEF Insert
    <3> QED BY <1>1, <3>1, <3>2
  <2> QED BY <2>1, <2>2
<1>4. ASSUME NEW n \in Names, NEW scope \in Services \cup {LIVE}, NEW deleted \in BOOLEAN,
             UpdateWithRowVersion(e, n, scope, deleted)
      PROVE  Kind(e)
  <2> DEFINE s == editors[e].service
             row == services[s]
             new == [name |-> n, scope |-> scope, deleted |-> deleted,
                     version |-> NextVersion(row), content |-> e]
  <2>0. editors[e].step = "read" /\ editors[e].seen # Free /\ UNCHANGED services
    BY <1>4 DEF UpdateWithRowVersion
  <2>1. CASE ~Current(e, row)
    BY <1>4, <2>0, <2>1 DEF UpdateWithRowVersion, Gone
  <2>2. CASE Current(e, row)
    <3>1. s \in Services /\ row = editors[e].seen /\ row \in Row
      BY <2>0, <2>2, Busy DEF Current, VersionsTell, ServiceEditingTypeOK
    <3>2. new \in Row /\ new.version = row.version + 1 /\ Restores(row, new)
      BY <2>2, <3>1 DEF Row, NextVersion, Current, Restores
    <3>3. ~Locked(s) /\ Statement(e, s, new)
      BY <1>4, <2>2 DEF UpdateWithRowVersion
    <3> QED BY <1>1, <2>0, <3>1, <3>2, <3>3
  <2> QED BY <2>1, <2>2
<1>5. ASSUME Restore(e) PROVE Kind(e)
  <2> DEFINE s == editors[e].service
             row == services[s]
             new == [row EXCEPT !.scope = LIVE, !.deleted = FALSE, !.version = row.version + 1]
  <2>0. editors[e].step = "read" /\ editors[e].seen # Free /\ UNCHANGED services
    BY <1>5 DEF Restore
  <2>1. CASE ~(row.deleted /\ row.version = editors[e].seen.version)
    BY <1>5, <2>0, <2>1 DEF Restore, Gone
  <2>2. CASE row.deleted /\ row.version = editors[e].seen.version
    <3>1. s \in Services /\ row = editors[e].seen /\ row \in Row
      BY <2>0, <2>2, Busy DEF VersionsTell, ServiceEditingTypeOK
    <3>2. new \in Row /\ new.version = row.version + 1 /\ Restores(row, new)
      BY <3>1, RestoredIsRow
    <3>3. ~Locked(s) /\ Statement(e, s, new)
      BY <1>5, <2>2 DEF Restore
    <3> QED BY <1>1, <2>0, <3>1, <3>2, <3>3
  <2> QED BY <2>1, <2>2
<1>6. ASSUME Rollback(e) PROVE Kind(e)
  BY <1>6 DEF Rollback, Gone
<1> QED BY <1>2, <1>3, <1>4, <1>5, <1>6

----------------------------------------------------------------------------
(* The inductive invariant *)

LEMMA ServiceEditingInitIInv == ServiceEditingInit => ServiceEditingIInv
<1> SUFFICES ASSUME ServiceEditingInit PROVE ServiceEditingIInv
  OBVIOUS
<1>1. ServiceEditingTypeOK
  BY DEF ServiceEditingInit, ServiceEditingTypeOK
<1>2. \A e \in Editors : editors[e].step = "idle"
  BY NoEditIsNoEditor DEF ServiceEditingInit
<1>3. WriterIsAlone /\ VersionsTell
  BY <1>2 DEF WriterIsAlone, VersionsTell
<1>4. KeysUnique
  BY <1>2 DEF ServiceEditingInit, KeysUnique, SameKey, Writes
<1> QED BY <1>1, <1>3, <1>4 DEF ServiceEditingIInv

\* One transaction begins, or ends with nothing done.
LEMMA QuietStep ==
  ASSUME ServiceEditingIInv, NEW e \in Editors,
         (\E s \in Services : Read(e, s)) \/ Gone(e)
  PROVE  ServiceEditingIInv'
<1>1. PICK r : /\ editors' = [editors EXCEPT ![e] = r]
               /\ services' = services
               /\ r.step # "written"
               /\ \/ r = NoEdit
                  \/ /\ r \in Editor
                     /\ r.seen = services[r.service]
  <2>1. CASE Gone(e)
    BY <2>1, NoEditIsNoEditor DEF Gone, EndEdit
  <2>2. ASSUME NEW s \in Services, Read(e, s)
        PROVE  \E r : /\ editors' = [editors EXCEPT ![e] = r]
                      /\ services' = services
                      /\ r.step # "written"
                      /\ r \in Editor /\ r.seen = services[r.service]
    <3> DEFINE q == [step |-> "read", service |-> s, seen |-> services[s], row |-> Free]
    <3>1. q \in Editor
      BY DEF Editor, ServiceEditingIInv, ServiceEditingTypeOK
    <3>2. editors' = [editors EXCEPT ![e] = q] /\ services' = services
      BY <2>2 DEF Read
    <3>3. q.step # "written" /\ q.seen = services[q.service]
      OBVIOUS
    <3> HIDE DEF q
    <3> QED BY <3>1, <3>2, <3>3
  <2> QED BY <2>1, <2>2
<1>2. \A d \in Editors : editors'[d] = IF d = e THEN r ELSE editors[d]
  BY <1>1 DEF ServiceEditingIInv, ServiceEditingTypeOK
<1>3. ServiceEditingTypeOK'
  BY <1>1 DEF ServiceEditingIInv, ServiceEditingTypeOK
<1>4. \A d \in Editors, s \in Services : Writes(d, s)' => d # e /\ Writes(d, s)
  BY <1>1, <1>2 DEF Writes
<1>5. WriterIsAlone'
  BY <1>1, <1>2 DEF ServiceEditingIInv, WriterIsAlone, Restores, Writes, ScopeConsistent
<1>6. KeysUnique'
  BY <1>1, <1>2, <1>4 DEF ServiceEditingIInv, KeysUnique, SameKey, ScopeConsistent
<1>7. VersionsTell'
  <2> SUFFICES ASSUME NEW d \in Editors, editors'[d].step # "idle"
               PROVE  LET seen == editors'[d].seen row == services'[editors'[d].service] IN
                        /\ seen.version <= row.version
                        /\ seen.version = row.version => seen = row
    BY DEF VersionsTell
  <2>1. CASE d # e
    BY <1>1, <1>2, <2>1 DEF ServiceEditingIInv, VersionsTell
  <2>2. CASE d = e
    <3>1. editors'[d] = r /\ r \in Editor /\ r.seen = services[r.service]
      BY <1>1, <1>2, <2>2, NoEditIsNoEditor
    <3>2. r.seen.version \in Nat
      BY <3>1, FreeIsNoRow DEF Editor, Row
    <3> QED BY <1>1, <3>1, <3>2
  <2> QED BY <2>1, <2>2
<1> QED BY <1>3, <1>5, <1>6, <1>7 DEF ServiceEditingIInv

\* A statement writes a row that no other transaction and no other row contradicts.
LEMMA WroteStep ==
  ASSUME ServiceEditingIInv, NEW e \in Editors, NEW row \in Row, Wrote(e, row)
  PROVE  ServiceEditingIInv'
<1> DEFINE s == editors[e].service
<1>0. /\ ServiceEditingTypeOK /\ editors[e] \in Editor /\ s \in Services
      /\ editors[e].step = "read"
  BY Busy DEF ServiceEditingIInv, Wrote
<1>1. /\ services' = services
      /\ \A d \in Editors : d # e => editors'[d] = editors[d]
      /\ editors'[e] = [step |-> "written", service |-> s, seen |-> editors[e].seen, row |-> row]
  BY <1>0 DEF Wrote, ServiceEditingTypeOK, Editor
<1>2. ServiceEditingTypeOK'
  <2>1. editors'[e] \in Editor
    BY <1>0, <1>1 DEF Editor
  <2> QED BY <1>0, <1>1, <2>1 DEF ServiceEditingTypeOK, Wrote
<1>3. \A d \in Editors, t \in Services :
        Writes(d, t)' <=> IF d = e THEN t = s ELSE Writes(d, t)
  BY <1>1 DEF Writes
<1>4. WriterIsAlone'
  <2> SUFFICES ASSUME NEW d \in Editors, editors'[d].step = "written"
               PROVE  LET t == editors'[d].service IN
                        /\ services'[t] = editors'[d].seen
                        /\ editors'[d].row \in Row
                        /\ ScopeConsistent(editors'[d].row)
                        /\ editors'[d].row.version = services'[t].version + 1
                        /\ Restores(services'[t], editors'[d].row)
                        /\ \A c \in Editors :
                             editors'[c].step = "written" /\ editors'[c].service = t => c = d
    BY DEF WriterIsAlone, Restores, ScopeConsistent, Writes
  <2>1. CASE d = e
    <3>1. /\ services[s] = editors[e].seen
          /\ row.version = services[s].version + 1 /\ ScopeConsistent(row)
          /\ Restores(services[s], row)
      BY DEF Wrote
    <3>2. \A c \in Editors : ~(editors[c].step = "written" /\ editors[c].service = s)
      BY DEF Wrote, Locked, Writes
    <3>3. \A c \in Editors : editors'[c].step = "written" /\ editors'[c].service = s => c = e
      BY <1>1, <3>2
    <3>4. /\ editors'[d].service = s /\ editors'[d].row = row
          /\ editors'[d].seen = editors[e].seen /\ services' = services
      BY <1>1, <2>1
    <3> HIDE DEF s
    <3> QED BY <2>1, <3>1, <3>3, <3>4
  <2>2. CASE d # e
    <3>1. editors'[d] = editors[d] /\ editors[d].service \in Services
      BY <1>0, <1>1, <2>2, Busy
    <3>2. Writes(d, editors[d].service)
      BY <3>1 DEF Writes
    <3>3. editors[d].service # s
      BY <3>2 DEF Wrote, Locked
    <3> QED BY <1>1, <2>2, <3>1, <3>3 DEF ServiceEditingIInv, WriterIsAlone, Writes
  <2> QED BY <2>1, <2>2
<1>5. KeysUnique'
  <2>1. /\ \A t \in Services : services'[t] # Free => ScopeConsistent(services'[t])
        /\ \A t, u \in Services : t # u => ~SameKey(services'[t], services'[u])
    BY <1>1 DEF ServiceEditingIInv, KeysUnique
  <2>2. ASSUME NEW d \in Editors, NEW t \in Services, NEW u \in Services, Writes(d, t)', t # u
        PROVE  /\ ~SameKey(editors'[d].row, services'[u])
               /\ \A c \in Editors : Writes(c, u)' => ~SameKey(editors'[d].row, editors'[c].row)
    <3>1. CASE d = e
      <4>1. t = s /\ editors'[d].row = row /\ u # s
        BY <1>1, <1>3, <2>2, <3>1
      <4>2. ~SameKey(row, services[u])
        BY <4>1 DEF Wrote, KeyFree
      <4>3. \A c \in Editors : Writes(c, u) => ~SameKey(row, editors[c].row)
        BY <4>1 DEF Wrote, KeyFree
      <4>4. \A c \in Editors : Writes(c, u)' => Writes(c, u) /\ editors'[c] = editors[c]
        BY <1>1, <1>3, <4>1
      <4> QED BY <1>1, <4>1, <4>2, <4>3, <4>4
    <3>2. CASE d # e
      <4>1. Writes(d, t) /\ editors'[d] = editors[d]
        BY <1>1, <1>3, <2>2, <3>2
      <4>2. u = s => ~SameKey(editors[d].row, row)
        BY <2>2, <4>1 DEF Wrote, KeyFree, SameKey
      <4> QED BY <1>1, <1>3, <2>2, <4>1, <4>2 DEF ServiceEditingIInv, KeysUnique
    <3> QED BY <3>1, <3>2
  <2> QED BY <2>1, <2>2 DEF KeysUnique, SameKey, ScopeConsistent
<1>6. VersionsTell'
  <2>1. \A d \in Editors : /\ editors'[d].step # "idle" => editors[d].step # "idle"
                           /\ editors'[d].step # "idle" => editors'[d].seen = editors[d].seen
                           /\ editors'[d].step # "idle" => editors'[d].service = editors[d].service
    BY <1>0, <1>1
  <2> QED BY <1>1, <2>1 DEF ServiceEditingIInv, VersionsTell
<1> QED BY <1>2, <1>4, <1>5, <1>6 DEF ServiceEditingIInv

\* A commit puts a row of a new version where its editor had read the old one.
LEMMA CommitStep ==
  ASSUME ServiceEditingIInv, NEW e \in Editors, Commit(e)
  PROVE  ServiceEditingIInv'
<1> DEFINE s == editors[e].service
           row == editors[e].row
<1>0. /\ ServiceEditingTypeOK /\ s \in Services /\ Writes(e, s) /\ row \in Row
      /\ row.version = services[s].version + 1
      /\ services[s] \in Row \cup {Free} /\ services[s].version \in Nat
      /\ ScopeConsistent(row)
  <2>1. editors[e].step = "written" /\ ServiceEditingTypeOK /\ s \in Services
    BY Busy DEF ServiceEditingIInv, Commit
  <2>2. services[s] \in Row \cup {Free}
    BY <2>1 DEF ServiceEditingTypeOK
  <2>3. services[s].version \in Nat
    BY <2>2, FreeIsNoRow DEF Row
  <2> QED BY <2>1, <2>2, <2>3 DEF ServiceEditingIInv, WriterIsAlone, Writes
<1>1. /\ \A t \in Services : services'[t] = IF t = s THEN row ELSE services[t]
      /\ \A d \in Editors : editors'[d] = IF d = e THEN NoEdit ELSE editors[d]
  BY <1>0 DEF Commit, EndEdit, ServiceEditingTypeOK
<1>2. ServiceEditingTypeOK'
  BY <1>0 DEF Commit, EndEdit, ServiceEditingTypeOK
<1>3. \A d \in Editors, t \in Services : Writes(d, t)' => d # e /\ Writes(d, t) /\ t # s
  <2>1. \A d \in Editors : Writes(d, s) => d = e
    BY <1>0 DEF ServiceEditingIInv, WriterIsAlone, Writes
  <2> QED BY <1>1, <2>1, NoEditIsNoEditor DEF Writes
<1>4. WriterIsAlone'
  <2> SUFFICES ASSUME NEW d \in Editors, editors'[d].step = "written"
               PROVE  LET t == editors'[d].service IN
                        /\ services'[t] = editors'[d].seen
                        /\ editors'[d].row \in Row
                        /\ ScopeConsistent(editors'[d].row)
                        /\ editors'[d].row.version = services'[t].version + 1
                        /\ Restores(services'[t], editors'[d].row)
                        /\ \A c \in Editors :
                             editors'[c].step = "written" /\ editors'[c].service = t => c = d
    BY DEF WriterIsAlone, Restores, ScopeConsistent, Writes
  <2>1. d # e /\ editors'[d] = editors[d] /\ editors[d].service \in Services
    BY <1>0, <1>1, Busy, NoEditIsNoEditor
  <2>2. Writes(d, editors[d].service)'
    BY <2>1 DEF Writes
  <2>3. editors[d].service # s
    BY <1>3, <2>1, <2>2
  <2> QED BY <1>1, <2>1, <2>3, NoEditIsNoEditor DEF ServiceEditingIInv, WriterIsAlone, Writes
<1>5. KeysUnique'
  <2>1. ASSUME NEW t \in Services, services'[t] # Free PROVE ScopeConsistent(services'[t])
    BY <1>0, <1>1, <2>1 DEF ServiceEditingIInv, KeysUnique
  <2>2. ASSUME NEW t \in Services, NEW u \in Services, t # u
        PROVE  ~SameKey(services'[t], services'[u])
    BY <1>0, <1>1, <2>2 DEF ServiceEditingIInv, KeysUnique, SameKey
  <2>3. ASSUME NEW d \in Editors, NEW t \in Services, NEW u \in Services, Writes(d, t)', t # u
        PROVE  /\ ~SameKey(editors'[d].row, services'[u])
               /\ \A c \in Editors : Writes(c, u)' => ~SameKey(editors'[d].row, editors'[c].row)
    <3>1. Writes(d, t) /\ t # s /\ editors'[d] = editors[d]
      BY <1>1, <1>3, <2>3
    <3>2. ~SameKey(editors[d].row, row)
      BY <1>0, <3>1 DEF ServiceEditingIInv, KeysUnique
    <3>3. ~SameKey(editors[d].row, services'[u])
      BY <1>1, <2>3, <3>1, <3>2 DEF ServiceEditingIInv, KeysUnique
    <3>4. \A c \in Editors : Writes(c, u)' => Writes(c, u) /\ editors'[c] = editors[c]
      BY <1>1, <1>3
    <3> QED BY <2>3, <3>1, <3>3, <3>4 DEF ServiceEditingIInv, KeysUnique
  <2> QED BY <2>1, <2>2, <2>3 DEF KeysUnique, SameKey, ScopeConsistent
<1>6. VersionsTell'
  <2> SUFFICES ASSUME NEW d \in Editors, editors'[d].step # "idle"
               PROVE  LET seen == editors'[d].seen now == services'[editors'[d].service] IN
                        /\ seen.version <= now.version
                        /\ seen.version = now.version => seen = now
    BY DEF VersionsTell
  <2>1. d # e /\ editors'[d] = editors[d] /\ editors[d].service \in Services
        /\ editors[d].seen \in Row \cup {Free}
    BY <1>0, <1>1, Busy, NoEditIsNoEditor
  <2>2. editors[d].seen.version \in Nat
    BY <2>1, FreeIsNoRow DEF Row
  <2>3. /\ editors[d].seen.version <= services[editors[d].service].version
        /\ editors[d].seen.version = services[editors[d].service].version =>
             editors[d].seen = services[editors[d].service]
    BY <2>1 DEF ServiceEditingIInv, VersionsTell
  <2>4. CASE editors[d].service = s
    BY <1>0, <1>1, <2>1, <2>2, <2>3, <2>4
  <2>5. CASE editors[d].service # s
    BY <1>1, <2>1, <2>3, <2>5
  <2> QED BY <2>4, <2>5
<1> QED BY <1>2, <1>4, <1>5, <1>6 DEF ServiceEditingIInv

LEMMA ServiceEditingNextIInv ==
  ASSUME ServiceEditingIInv, [ServiceEditingNext]_serviceVars
  PROVE  ServiceEditingIInv'
<1>1. CASE UNCHANGED serviceVars
  BY <1>1 DEF serviceVars, ServiceEditingIInv, ServiceEditingTypeOK, WriterIsAlone, KeysUnique,
     VersionsTell, Restores, Writes, SameKey, ScopeConsistent
<1>2. CASE ServiceEditingNext
  <2>1. PICK e \in Editors :
           \/ \E s \in Services : Read(e, s)
           \/ Gone(e) /\ editors[e].step # "idle"
           \/ \E row \in Row : Wrote(e, row)
           \/ Commit(e)
    BY <1>2, Kinds DEF ServiceEditingIInv
  <2> QED BY <2>1, QuietStep, WroteStep, CommitStep
<1> QED BY <1>1, <1>2

\* The inductive invariant holds throughout.
THEOREM EditingInvariance == ServiceEditingSpec => []ServiceEditingIInv
<1> QED BY ServiceEditingInitIInv, ServiceEditingNextIInv, PTL DEF ServiceEditingSpec

----------------------------------------------------------------------------
(* What follows from it *)

\* The names of live services are unique, since live rows share one scope.
THEOREM NamesStayUnique == ServiceEditingSpec => []LiveNamesUnique
<1>1. ServiceEditingIInv => LiveNamesUnique
  <2> SUFFICES ASSUME ServiceEditingIInv, NEW s \in Services, NEW t \in Services,
                      services[s] # Free, services[t] # Free,
                      ~services[s].deleted, ~services[t].deleted,
                      services[s].name = services[t].name
               PROVE  s = t
    BY DEF LiveNamesUnique
  <2>1. services[s] \in Row /\ services[t] \in Row
    BY DEF ServiceEditingIInv, ServiceEditingTypeOK
  <2>2. services[s].scope = LIVE /\ services[t].scope = LIVE
    BY <2>1 DEF ServiceEditingIInv, KeysUnique, ScopeConsistent, Row
  <2> QED BY <2>2 DEF ServiceEditingIInv, KeysUnique, SameKey
<1> QED BY <1>1, EditingInvariance, PTL

\* A row changes only by the commit of an editor that has written it.
LEMMA ChangesAreCommits ==
  ASSUME ServiceEditingIInv, ServiceEditingNext, NEW s \in Services, services'[s] # services[s]
  PROVE  \E e \in Editors : /\ Commit(e) /\ Writes(e, s)
                            /\ services'[s] = editors[e].row
<1>1. PICK e \in Editors :
         \/ \E t \in Services : Read(e, t)
         \/ Gone(e) /\ editors[e].step # "idle"
         \/ \E row \in Row : Wrote(e, row)
         \/ Commit(e)
  BY Kinds DEF ServiceEditingIInv
<1>2. Commit(e)
  BY <1>1 DEF Read, Gone, Wrote
<1> QED BY <1>2 DEF Commit, Writes, ServiceEditingIInv, ServiceEditingTypeOK

\* Whoever replaces a row has read the row that is replaced.
THEOREM NoUpdateIsLost == ServiceEditingSpec => NoLostUpdate
<1>1. ASSUME ServiceEditingIInv, [ServiceEditingNext]_serviceVars
      PROVE  [\A e \in Editors, s \in Services :
                Writes(e, s) /\ services'[s] # services[s] =>
                  services[s] = editors[e].seen]_serviceVars
  BY <1>1 DEF ServiceEditingIInv, WriterIsAlone, Writes
<1> QED BY <1>1, EditingInvariance, PTL DEF ServiceEditingSpec, NoLostUpdate

\* A deleted row changes by a restore only.
THEOREM DeletedStayDeleted == ServiceEditingSpec => DeletedAreNotEdited
<1>1. ASSUME ServiceEditingIInv, [ServiceEditingNext]_serviceVars
      PROVE  [\A s \in Services :
                services[s] # Free /\ services[s].deleted /\ services'[s] # services[s] =>
                  /\ ~services'[s].deleted
                  /\ services'[s].content = services[s].content]_serviceVars
  <2> SUFFICES ASSUME ServiceEditingNext, NEW s \in Services, services[s] # Free,
                      services[s].deleted, services'[s] # services[s]
               PROVE  ~services'[s].deleted /\ services'[s].content = services[s].content
    BY <1>1 DEF serviceVars
  <2>1. PICK e \in Editors : Commit(e) /\ Writes(e, s) /\ services'[s] = editors[e].row
    BY <1>1, ChangesAreCommits
  <2> QED BY <1>1, <2>1 DEF ServiceEditingIInv, WriterIsAlone, Writes, Restores
<1> QED BY <1>1, EditingInvariance, PTL DEF ServiceEditingSpec, DeletedAreNotEdited

----------------------------------------------------------------------------
(* Optimistic locking *)

\* A row is looked at when it is read and when its editor gives up, and replaced
\* when it is committed; a statement shows in neither.
THEOREM EditingRefinement == ServiceEditingSpec => EditsAreAtomic
<1>1. ServiceEditingInit => Optimistic!Init
  <2> SUFFICES ASSUME ServiceEditingInit PROVE Optimistic!Init
    OBVIOUS
  <2>1. services \in [Services -> {Free}]
    BY DEF ServiceEditingInit
  <2>2. Views = [c \in Editors |-> Optimistic!Blind]
    BY NoEditIsNoEditor DEF ServiceEditingInit, Views, Optimistic!Blind
  <2> QED BY <2>1, <2>2 DEF Optimistic!Init
<1>2. ASSUME ServiceEditingIInv, [ServiceEditingNext]_serviceVars
      PROVE  [Optimistic!Next]_<<services, Views>>
  <2>1. CASE UNCHANGED serviceVars
    BY <2>1 DEF serviceVars, Views
  <2>2. CASE ServiceEditingNext
    <3>0. ServiceEditingTypeOK
      BY <1>2 DEF ServiceEditingIInv
    <3>1. PICK e \in Editors :
             \/ \E s \in Services : Read(e, s)
             \/ Gone(e) /\ editors[e].step # "idle"
             \/ \E row \in Row : Wrote(e, row)
             \/ Commit(e)
      BY <1>2, <2>2, Kinds DEF ServiceEditingIInv
    <3>2. ASSUME NEW s \in Services, Read(e, s) PROVE Optimistic!Look(e)
      <4>1. /\ editors' = [editors EXCEPT ![e] = [step |-> "read", service |-> s,
                             seen |-> services[s], row |-> Free]]
            /\ services' = services
        BY <3>2 DEF Read
      <4>2. Views' = [Views EXCEPT ![e] = [cell |-> s, value |-> services[s]]]
        BY <3>0, <4>1 DEF Views, ServiceEditingTypeOK
      <4> QED BY <4>1, <4>2 DEF Optimistic!Look
    <3>3. ASSUME Gone(e) PROVE Optimistic!Look(e)
      <4>1. editors' = [editors EXCEPT ![e] = NoEdit] /\ services' = services
        BY <3>3 DEF Gone, EndEdit
      <4>2. Views' = [Views EXCEPT ![e] = Optimistic!Blind]
        BY <3>0, <4>1, NoEditIsNoEditor DEF Views, ServiceEditingTypeOK, Optimistic!Blind
      <4> QED BY <4>1, <4>2 DEF Optimistic!Look
    <3>4. ASSUME NEW row \in Row, Wrote(e, row) PROVE UNCHANGED <<services, Views>>
      <4>1. editors[e] \in Editor /\ editors[e].step = "read"
        BY <3>0, <3>4, Busy DEF Wrote
      <4>2. /\ services' = services
            /\ \A d \in Editors : d # e => editors'[d] = editors[d]
            /\ editors'[e] = [step |-> "written", service |-> editors[e].service,
                              seen |-> editors[e].seen, row |-> row]
        BY <3>0, <3>4, <4>1 DEF Wrote, ServiceEditingTypeOK, Editor
      <4> QED BY <4>1, <4>2 DEF Views
    <3>5. ASSUME Commit(e) PROVE Optimistic!Replace(e)
      <4> DEFINE s == editors[e].service
      <4>1. /\ editors[e].step = "written" /\ s \in Services
            /\ services[s] = editors[e].seen /\ editors[e].row \in Row
        BY <1>2, <3>0, <3>5, Busy DEF Commit, ServiceEditingIInv, WriterIsAlone
      <4>2. /\ editors' = [editors EXCEPT ![e] = NoEdit]
            /\ services' = [services EXCEPT ![s] = editors[e].row]
        BY <3>5 DEF Commit, EndEdit
      <4>3. Views' = [Views EXCEPT ![e] = Optimistic!Blind]
        BY <3>0, <4>2, NoEditIsNoEditor DEF Views, ServiceEditingTypeOK, Optimistic!Blind
      <4>4. Views[e].cell = s /\ Views[e].value = services[s]
        <5>1. Views[e] = [cell |-> s, value |-> editors[e].seen]
          BY <4>1 DEF Views
        <5> QED BY <4>1, <5>1
      <4>5. services'[s] = editors[e].row
        BY <3>0, <4>1, <4>2 DEF ServiceEditingTypeOK
      <4>6. services'[s] \in Row /\ services' = [services EXCEPT ![s] = services'[s]]
        BY <4>1, <4>2, <4>5
      <4> HIDE DEF s
      <4> QED BY <4>1, <4>3, <4>4, <4>6 DEF Optimistic!Replace
    <3> QED BY <3>1, <3>2, <3>3, <3>4, <3>5 DEF Optimistic!Next
  <2> QED BY <1>2, <2>1, <2>2
<1> QED BY <1>1, <1>2, EditingInvariance, PTL
      DEF ServiceEditingSpec, EditsAreAtomic, Optimistic!Spec
=============================================================================

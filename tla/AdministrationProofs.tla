------------------------ MODULE AdministrationProofs ------------------------
(***************************************************************************)
(* Proofs about Administration, for any users, any number of installers    *)
(* and any number of concurrent calls of administrators.                   *)
(***************************************************************************)
EXTENDS Administration, TLAPS

USE AdministrationAssumption

----------------------------------------------------------------------------
(* Rows and calls *)

LEMMA NoAccountIsNoAccount == NoAccount \notin Account /\ NewAdmin \in Account
BY DEF NoAccount, Account, NewAdmin, Roles

\* A row that exists is an account, and one with a status exists.
LEMMA ExistingAccount ==
  ASSUME AdministrationTypeOK, NEW u \in Users
  PROVE  /\ Exists(u) <=> users[u] \in Account
         /\ users[u].status # "none" => Exists(u)
         /\ users[u].role # "none" => Exists(u)
BY NoAccountIsNoAccount DEF AdministrationTypeOK, Exists, NoAccount

Deciding == [step : {"decide"}, actor : Users, role : Roles, overtaken : BOOLEAN]
Writing == [step : {"write"}, request : Requests, target : Users, overtaken : BOOLEAN]

LEMMA CallShapes ==
  ASSUME AdministrationTypeOK, NEW c \in Admins
  PROVE  /\ calls[c].step = "decide" => calls[c] \in Deciding
         /\ calls[c].step = "write" => calls[c] \in Writing
         /\ calls[c].step \notin {"decide", "write"} => calls[c] = NoCall
<1>1. calls[c] \in Deciding \cup Writing \cup {NoCall}
  BY DEF AdministrationTypeOK, Call, Deciding, Writing
<1> QED BY <1>1 DEF Deciding, Writing, NoCall

\* To be overtaken changes nothing but the history field.
LEMMA OvertakenCall ==
  ASSUME AdministrationTypeOK, NEW c \in Admins
  PROVE  /\ Overtaken(c) \in Call \cup {NoCall}
         /\ Overtaken(c).step = calls[c].step
         /\ calls[c].step # "idle" => Overtaken(c).overtaken
         /\ calls[c].step = "write" => /\ Overtaken(c).request = calls[c].request
                                       /\ Overtaken(c).target = calls[c].target
<1>1. CASE calls[c].step = "decide"
  <2>1. calls[c] \in Deciding
    BY <1>1, CallShapes
  <2> QED BY <1>1, <2>1 DEF Deciding, Call, Overtaken
<1>2. CASE calls[c].step = "write"
  <2>1. calls[c] \in Writing
    BY <1>2, CallShapes
  <2> QED BY <1>2, <2>1 DEF Writing, Call, Overtaken
<1>3. CASE calls[c].step \notin {"decide", "write"}
  <2>1. calls[c] = NoCall
    BY <1>3, CallShapes
  <2> QED BY <1>3, <2>1 DEF NoCall, Overtaken
<1> QED BY <1>1, <1>2, <1>3

\* A change makes an account of an account, and so does a creation.
LEMMA ChangedAccount ==
  ASSUME NEW row, NEW request \in Requests, request # "create" => row \in Account
  PROVE  Changed(row, request) \in Account
BY DEF Changed, Requests, Account, Roles

----------------------------------------------------------------------------

LEMMA AdministrationInitIInv == AdministrationInit => AdministrationIInv
<1> SUFFICES ASSUME AdministrationInit PROVE AdministrationIInv
  OBVIOUS
<1>1. AdministrationTypeOK
  BY DEF AdministrationInit, AdministrationTypeOK, Install, InstallSteps
<1>2. \A i \in Installers : installs[i].step = "idle"
  BY DEF AdministrationInit
<1>3. \A c \in Admins : calls[c].step = "idle"
  BY DEF AdministrationInit, NoCall
<1> QED BY <1>1, <1>2, <1>3
        DEF AdministrationIInv, OneFirstAdmin, LastAdminRemains, InstallerIsAlone, FactsHold

----------------------------------------------------------------------------
(* Types *)

LEMMA AdministrationTypeStep ==
  ASSUME AdministrationIInv, AdministrationNext
  PROVE  AdministrationTypeOK'
<1>a. AdministrationTypeOK
  BY DEF AdministrationIInv
<1>1. ASSUME NEW i \in Installers, NEW u \in Users, InstallLock(i, u)
      PROVE  AdministrationTypeOK'
  <2>1. [step |-> "count", name |-> u] \in Install
    BY DEF Install, InstallSteps
  <2> QED BY <1>a, <1>1, <2>1 DEF AdministrationTypeOK, InstallLock, InstallVars
<1>2. ASSUME NEW i \in Installers, InstallStep(i) \/ InstallAbort(i)
      PROVE  AdministrationTypeOK'
  <2>1. \A s \in InstallSteps : /\ [installs[i] EXCEPT !.step = s] \in Install
                                /\ [step |-> s, name |-> Nobody] \in Install
    BY <1>a DEF AdministrationTypeOK, Install
  <2>2. installs' \in [Installers -> Install] /\ lockOwner' \in Installers \cup {Nobody}
    BY <1>a, <1>2, <2>1 DEF AdministrationTypeOK, InstallStep, InstallAbort, InstallCount,
       InstallInsert, InstallCommit, Goes, Ends, InstallSteps
  <2>3. users' \in [Users -> Account \cup {NoAccount}]
    BY <1>a, <1>2, NoAccountIsNoAccount DEF AdministrationTypeOK, InstallStep, InstallAbort,
       InstallCount, InstallInsert, InstallCommit
  <2>4. UNCHANGED InstallVars
    BY <1>2 DEF InstallStep, InstallAbort, InstallCount, InstallInsert, InstallCommit
  <2> QED BY <1>a, <2>2, <2>3, <2>4 DEF AdministrationTypeOK, InstallVars
<1>3. ASSUME NEW c \in Admins, NEW u \in Users, CallVerify(c, u)
      PROVE  AdministrationTypeOK'
  <2>1. users[u] \in Account
    BY <1>a, <1>3, ExistingAccount DEF CallVerify
  <2>2. [step |-> "decide", actor |-> u, role |-> users[u].role, overtaken |-> FALSE] \in Call
    BY <2>1 DEF Account, Call
  <2> QED BY <1>a, <1>3, <2>2 DEF AdministrationTypeOK, CallVerify, CallVars
<1>4. ASSUME NEW c \in Admins, NEW t \in Users, NEW q \in Requests, CallDecide(c, q, t)
      PROVE  AdministrationTypeOK'
  <2>1. calls[c] \in Deciding
    BY <1>a, <1>4, CallShapes DEF CallDecide
  <2>2. [step |-> "write", request |-> q, target |-> t, overtaken |-> calls[c].overtaken] \in Call
    BY <2>1 DEF Deciding, Call
  <2> QED BY <1>a, <1>4, <2>2 DEF AdministrationTypeOK, CallDecide, CallVars
<1>5. ASSUME NEW c \in Admins, CallEnd(c) PROVE AdministrationTypeOK'
  BY <1>a, <1>5 DEF AdministrationTypeOK, CallEnd, CallVars
<1>6. ASSUME NEW c \in Admins, CallWrite(c) PROVE AdministrationTypeOK'
  <2>1. calls[c] \in Writing
    BY <1>a, <1>6, CallShapes DEF CallWrite
  <2>2. calls[c].request # "create" => users[calls[c].target] \in Account
    BY <1>a, <1>6, <2>1, ExistingAccount DEF CallWrite, Writing, AdministrationIInv, FactsHold
  <2>3. Changed(users[calls[c].target], calls[c].request) \in Account
    BY <2>1, <2>2, ChangedAccount DEF Writing
  <2>4. users' \in [Users -> Account \cup {NoAccount}]
    BY <1>a, <1>6, <2>3 DEF AdministrationTypeOK, CallWrite
  <2>5. calls' \in [Admins -> Call \cup {NoCall}]
    BY <1>a, <1>6, OvertakenCall DEF CallWrite
  <2>6. raced' \in BOOLEAN
    BY <1>a, <1>6, <2>1 DEF AdministrationTypeOK, CallWrite, Writing
  <2> QED BY <1>a, <1>6, <2>4, <2>5, <2>6 DEF AdministrationTypeOK, CallWrite, CallVars
<1>7. ASSUME NEW u \in Users, NEW from \in {"active", "locked"}, NEW to \in {"active", "locked"},
             Lockout(u, from, to)
      PROVE  AdministrationTypeOK'
  <2>1. users[u] \in Account
    BY <1>a, <1>7, ExistingAccount DEF Lockout
  <2>2. [users[u] EXCEPT !.status = to] \in Account
    BY <2>1 DEF Account
  <2>3. calls' \in [Admins -> Call \cup {NoCall}]
    BY <1>a, <1>7, OvertakenCall DEF Lockout
  <2> QED BY <1>a, <1>7, <2>2, <2>3 DEF AdministrationTypeOK, Lockout, CallVars
<1> QED BY <1>1, <1>2, <1>3, <1>4, <1>5, <1>6, <1>7 DEF AdministrationNext, CallStep

----------------------------------------------------------------------------
(* What the steps have in common *)

\* Nobody is ever removed, and what a call or a lockout leaves is an account.
LEMMA ExistingStay ==
  ASSUME AdministrationIInv, AdministrationNext, NEW u \in Users, Exists(u)
  PROVE  Exists(u)'
<1>1. ASSUME NEW i \in Installers, InstallCommit(i) PROVE Exists(u)'
  <2>1. users'[u] \in {users[u], NewAdmin}
    BY <1>1 DEF InstallCommit, AdministrationIInv, AdministrationTypeOK
  <2> QED BY <2>1, NoAccountIsNoAccount DEF Exists
<1>2. ASSUME NEW c \in Admins, CallWrite(c) PROVE Exists(u)'
  <2>1. calls[c] \in Writing
    BY <1>2, CallShapes DEF CallWrite, AdministrationIInv
  <2>2. Changed(users[u], calls[c].request) \in Account
    BY <2>1, ExistingAccount, ChangedAccount DEF AdministrationIInv, Writing
  <2>3. users'[u] \in {users[u], Changed(users[u], calls[c].request)}
    BY <1>2 DEF CallWrite, AdministrationIInv, AdministrationTypeOK
  <2> QED BY <2>2, <2>3, NoAccountIsNoAccount DEF Exists
<1>3. ASSUME NEW v \in Users, NEW from \in {"active", "locked"}, NEW to \in {"active", "locked"},
             Lockout(v, from, to)
      PROVE  Exists(u)'
  <2>1. [users[u] EXCEPT !.status = to] \in Account
    BY ExistingAccount DEF AdministrationIInv, Account
  <2>2. users'[u] \in {users[u], [users[u] EXCEPT !.status = to]}
    BY <1>3 DEF Lockout, AdministrationIInv, AdministrationTypeOK
  <2> QED BY <2>1, <2>2, NoAccountIsNoAccount DEF Exists
<1>4. CASE users' = users
  BY <1>4 DEF Exists
<1> QED BY <1>1, <1>2, <1>3, <1>4
        DEF AdministrationNext, CallStep, InstallStep, InstallAbort, InstallLock, InstallCount,
            InstallInsert, CallVerify, CallDecide, CallEnd

\* The steps of calls and of the lockout, as the installers see them: somebody
\* exists already, and only a create that nobody is about to commit adds a user.
LEMMA OthersStep ==
  ASSUME AdministrationIInv,
         \/ \E c \in Admins : CallStep(c)
         \/ \E u \in Users, from, to \in {"active", "locked"} : Lockout(u, from, to)
  PROVE  /\ UNCHANGED CallVars
         /\ users' = users \/ \E u \in Users : Exists(u)
         /\ \A u \in Users : ~Exists(u) /\ Exists(u)' => ~Pending(u)
<1>1. ASSUME NEW c \in Admins, CallStep(c), ~CallWrite(c)
      PROVE  UNCHANGED CallVars /\ users' = users
  BY <1>1 DEF CallStep, CallVerify, CallDecide, CallEnd
<1>2. ASSUME NEW c \in Admins, CallWrite(c)
      PROVE  /\ UNCHANGED CallVars
             /\ \E u \in Users : Exists(u)
             /\ \A u \in Users : ~Exists(u) /\ Exists(u)' => ~Pending(u)
  <2>1. calls[c] \in Writing
    BY <1>2, CallShapes DEF CallWrite, AdministrationIInv
  <2>2. \E u \in Users : Exists(u)
    BY <1>2 DEF CallWrite, AdministrationIInv, FactsHold
  <2>3. calls[c].request # "create" => Exists(calls[c].target)
    BY <1>2 DEF CallWrite, AdministrationIInv, FactsHold
  <2>4. \A u \in Users \ {calls[c].target} : users'[u] = users[u]
    BY <1>2 DEF CallWrite, AdministrationIInv, AdministrationTypeOK
  <2>5. calls[c].request = "create" => ~Pending(calls[c].target)
    BY <1>2 DEF CallWrite
  <2> QED BY <1>2, <2>2, <2>3, <2>4, <2>5 DEF CallWrite, Exists
<1>3. ASSUME NEW u \in Users, NEW from \in {"active", "locked"}, NEW to \in {"active", "locked"},
             Lockout(u, from, to)
      PROVE  /\ UNCHANGED CallVars
             /\ \E v \in Users : Exists(v)
             /\ \A v \in Users : ~Exists(v) /\ Exists(v)' => ~Pending(v)
  <2>1. Exists(u)
    BY <1>3, ExistingAccount DEF Lockout, AdministrationIInv
  <2>2. \A v \in Users \ {u} : users'[v] = users[v]
    BY <1>3 DEF Lockout, AdministrationIInv, AdministrationTypeOK
  <2> QED BY <1>3, <2>1, <2>2 DEF Lockout, Exists
<1>4. ASSUME users' = users PROVE \A u \in Users : Exists(u)' <=> Exists(u)
  BY <1>4 DEF Exists
<1> QED BY <1>1, <1>2, <1>3, <1>4

----------------------------------------------------------------------------
(* The installers *)

LEMMA AloneStep ==
  ASSUME AdministrationIInv, AdministrationNext
  PROVE  InstallerIsAlone'
<1> USE DEF AdministrationIInv, AdministrationTypeOK
<1>1. ASSUME NEW i \in Installers, NEW u \in Users, InstallLock(i, u)
      PROVE  InstallerIsAlone'
  <2>1. \A j \in Installers \ {i} : installs'[j] = installs[j]
    BY <1>1 DEF InstallLock
  <2>2. installs'[i].step = "count" /\ installs'[i].name = u
    BY <1>1 DEF InstallLock
  <2>3. seeded => /\ lockOwner' = i
                  /\ \A j \in Installers : installs[j].step \notin {"count", "insert", "commit"}
    BY <1>1 DEF InstallLock, InstallerIsAlone
  <2>4. UNCHANGED <<seeded, users>> /\ (~seeded => lockOwner' = lockOwner)
    BY <1>1 DEF InstallLock, InstallVars
  <2> QED BY <2>1, <2>2, <2>3, <2>4 DEF InstallerIsAlone, Exists
<1>2. ASSUME NEW i \in Installers, NEW to \in {"insert", "commit"},
             NEW from \in {"count", "insert"},
             Goes(i, from, to), UNCHANGED <<seeded, users, lockOwner>>,
             seeded => \A u \in Users : ~Exists(u),
             to = "commit" => ~Exists(installs[i].name) /\ ~Pending(installs[i].name)
      PROVE  InstallerIsAlone'
  <2>1. \A j \in Installers \ {i} : installs'[j] = installs[j]
    BY <1>2 DEF Goes
  <2>2. installs'[i].step = to /\ installs'[i].name = installs[i].name
    BY <1>2 DEF Goes, Install
  <2>3. installs[i].name \in Users /\ (seeded => lockOwner = i)
    BY <1>2 DEF Goes, InstallerIsAlone
  <2>4. to = "commit" => \A j \in Installers :
          installs[j].step = "commit" => installs[j].name # installs[i].name
    BY <1>2 DEF Pending
  <2>5. \A j \in Installers \ {i} : installs'[j].step = "commit" =>
          ~Exists(installs[j].name) /\ (to = "commit" => installs[j].name # installs[i].name)
    BY <2>1, <2>4 DEF InstallerIsAlone
  <2>6. \A u : Exists(u)' <=> Exists(u)
    BY <1>2 DEF Exists
  <2>7. ASSUME NEW j \in Installers PROVE
         /\ seeded' /\ installs'[j].step \in {"count", "insert", "commit"} => lockOwner' = j
         /\ seeded' /\ installs'[j].step \in {"insert", "commit"} => \A u \in Users : ~Exists(u)'
         /\ installs'[j].step \in {"count", "insert", "commit"} => installs'[j].name \in Users
    BY <1>2, <2>1, <2>2, <2>3, <2>6 DEF InstallerIsAlone
  <2>8. ASSUME NEW j \in Installers, installs'[j].step = "commit",
               NEW name, name = installs'[j].name PROVE
         /\ ~Exists(name)'
         /\ \A k \in Installers :
              installs'[k].step = "commit" /\ installs'[k].name = name => k = j
    BY <1>2, <2>1, <2>2, <2>5, <2>6, <2>8 DEF InstallerIsAlone
  <2> QED BY <2>7, <2>8 DEF InstallerIsAlone
<1>3. ASSUME NEW i \in Installers, NEW from, NEW outcome \in {"idle", "created", "rejected"},
             Ends(i, from, outcome), UNCHANGED seeded,
             \/ users' = users
             \/ installs[i].step = "commit" /\ \A u \in Users \ {installs[i].name} :
                                                  users'[u] = users[u]
      PROVE  InstallerIsAlone'
  <2>1. \A j \in Installers \ {i} : installs'[j] = installs[j]
    BY <1>3 DEF Ends
  <2>2. installs'[i].step = outcome
    BY <1>3 DEF Ends
  <2>3. \A j \in Installers \ {i} : lockOwner = j => lockOwner' = j
    BY <1>3 DEF Ends
  <2>4. ASSUME NEW j \in Installers \ {i}, seeded, installs[j].step \in {"insert", "commit"}
        PROVE  users' = users
    BY <1>3, <2>4 DEF InstallerIsAlone
  <2>5. ASSUME NEW j \in Installers \ {i}, installs[j].step = "commit",
               NEW name, name = installs[j].name
        PROVE  ~Exists(name)'
    BY <1>3, <2>5 DEF InstallerIsAlone, Exists
  <2>6. ASSUME NEW j \in Installers PROVE
         /\ seeded' /\ installs'[j].step \in {"count", "insert", "commit"} => lockOwner' = j
         /\ seeded' /\ installs'[j].step \in {"insert", "commit"} => \A u \in Users : ~Exists(u)'
         /\ installs'[j].step \in {"count", "insert", "commit"} => installs'[j].name \in Users
    BY <1>3, <2>1, <2>2, <2>3, <2>4 DEF InstallerIsAlone, Exists
  <2>7. ASSUME NEW j \in Installers, installs'[j].step = "commit",
               NEW name, name = installs'[j].name PROVE
         /\ ~Exists(name)'
         /\ \A k \in Installers :
              installs'[k].step = "commit" /\ installs'[k].name = name => k = j
    <3>1. j # i /\ installs'[j] = installs[j]
      BY <2>1, <2>2, <2>7
    <3> QED BY <2>1, <2>2, <2>5, <2>7, <3>1 DEF InstallerIsAlone
  <2> QED BY <2>6, <2>7 DEF InstallerIsAlone
<1>4. ASSUME NEW i \in Installers, InstallCount(i) PROVE InstallerIsAlone'
  BY <1>4, <1>2, <1>3 DEF InstallCount, InstallVars
<1>5. ASSUME NEW i \in Installers, InstallInsert(i) PROVE InstallerIsAlone'
  <2>1. seeded => \A u \in Users : ~Exists(u)
    BY <1>5 DEF InstallInsert, InstallerIsAlone
  <2> QED BY <1>5, <1>2, <1>3, <2>1 DEF InstallInsert, InstallVars
<1>6. ASSUME NEW i \in Installers, InstallCommit(i) PROVE InstallerIsAlone'
  <2>1. \A u \in Users \ {installs[i].name} : users'[u] = users[u]
    BY <1>6 DEF InstallCommit
  <2>2. installs[i].step = "commit"
    BY <1>6 DEF InstallCommit, Ends
  <2> QED BY <1>6, <1>3, <2>1, <2>2 DEF InstallCommit, InstallVars
<1>7. ASSUME NEW i \in Installers, InstallAbort(i) PROVE InstallerIsAlone'
  BY <1>7, <1>3 DEF InstallAbort, InstallVars
<1>8. ASSUME \/ \E c \in Admins : CallStep(c)
             \/ \E u \in Users, from, to \in {"active", "locked"} : Lockout(u, from, to)
      PROVE  InstallerIsAlone'
  <2>1. UNCHANGED <<seeded, lockOwner, installs>>
    BY <1>8, OthersStep DEF CallVars
  <2>2. seeded /\ (\E i \in Installers : installs[i].step \in {"insert", "commit"}) =>
          users' = users
    BY <1>8, OthersStep DEF InstallerIsAlone
  <2>3. ASSUME NEW i \in Installers, installs[i].step = "commit",
               NEW name, name = installs[i].name
        PROVE  ~Exists(name)'
    BY <1>8, <2>3, OthersStep DEF InstallerIsAlone, Pending
  <2>4. ASSUME NEW i \in Installers PROVE
         /\ seeded' /\ installs'[i].step \in {"count", "insert", "commit"} => lockOwner' = i
         /\ seeded' /\ installs'[i].step \in {"insert", "commit"} => \A u \in Users : ~Exists(u)'
         /\ installs'[i].step \in {"count", "insert", "commit"} => installs'[i].name \in Users
    BY <2>1, <2>2 DEF InstallerIsAlone, Exists
  <2> QED BY <2>1, <2>3, <2>4 DEF InstallerIsAlone
<1> QED BY <1>1, <1>4, <1>5, <1>6, <1>7, <1>8 DEF AdministrationNext, InstallStep

LEMMA OneFirstStep ==
  ASSUME AdministrationIInv, AdministrationNext
  PROVE  OneFirstAdmin'
<1> USE DEF AdministrationIInv, AdministrationTypeOK
<1>1. (\E u \in Users : Exists(u)) => \E u \in Users : Exists(u)'
  BY ExistingStay
<1>2. ASSUME NEW i \in Installers, InstallCommit(i) PROVE OneFirstAdmin'
  <2>1. installs[i].name \in Users /\ installs[i].step = "commit"
    BY <1>2 DEF InstallCommit, Ends, InstallerIsAlone
  <2>2. users'[installs[i].name] = NewAdmin
    BY <1>2, <2>1 DEF InstallCommit
  <2>3. \E u \in Users : users'[u] # NoAccount
    BY <2>1, <2>2, NoAccountIsNoAccount
  <2>4. seeded => \A j \in Installers : installs[j].step # "created"
    BY <2>1 DEF InstallerIsAlone, OneFirstAdmin
  <2>5. \A j \in Installers \ {i} : installs'[j] = installs[j]
    BY <1>2 DEF InstallCommit, Ends
  <2>6. seeded' = seeded
    BY <1>2 DEF InstallCommit, InstallVars
  <2> QED BY <2>3, <2>4, <2>5, <2>6 DEF OneFirstAdmin, Exists
<1>3. ASSUME UNCHANGED seeded,
             \A i \in Installers :
               /\ installs'[i].step = "created" => installs[i].step = "created"
               /\ installs'[i].step = "rejected" =>
                    installs[i].step = "rejected" \/ \E u \in Users : Exists(u)
      PROVE  OneFirstAdmin'
  BY <1>1, <1>3 DEF OneFirstAdmin
<1>4. ASSUME NEW i \in Installers,
             InstallCount(i) \/ InstallInsert(i) \/ InstallAbort(i)
               \/ \E u \in Users : InstallLock(i, u)
      PROVE  OneFirstAdmin'
  <2>1. seeded' = seeded /\ \A j \in Installers \ {i} : installs'[j] = installs[j]
    BY <1>4 DEF InstallCount, InstallInsert, InstallAbort, InstallLock, InstallVars, Goes, Ends
  <2>2. installs'[i].step # "created"
    BY <1>4 DEF InstallCount, InstallInsert, InstallAbort, InstallLock, Goes, Ends, Install
  <2>3. installs'[i].step = "rejected" => \E u \in Users : Exists(u)
    BY <1>4 DEF InstallCount, InstallInsert, InstallAbort, InstallLock, Goes, Ends, Install
  <2> QED BY <1>3, <2>1, <2>2, <2>3
<1>5. ASSUME \/ \E c \in Admins : CallStep(c)
             \/ \E u \in Users, from, to \in {"active", "locked"} : Lockout(u, from, to)
      PROVE  OneFirstAdmin'
  BY <1>3, <1>5, OthersStep DEF CallVars
<1> QED BY <1>2, <1>4, <1>5 DEF AdministrationNext, InstallStep

----------------------------------------------------------------------------
(* The calls *)

LEMMA FactsStep ==
  ASSUME AdministrationIInv, AdministrationNext
  PROVE  FactsHold'
<1> USE DEF AdministrationIInv, AdministrationTypeOK
<1>1. (\E u \in Users : Exists(u)) => \E u \in Users : Exists(u)'
  BY ExistingStay
<1>2. ASSUME UNCHANGED <<users, calls>> PROVE FactsHold'
  BY <1>2 DEF FactsHold, Exists, ActiveAdmins
<1>3. ASSUME NEW i \in Installers, InstallCommit(i) PROVE FactsHold'
  <2> DEFINE name == installs[i].name
  <2>1. name \in Users /\ ~Exists(name)
    BY <1>3 DEF InstallCommit, Ends, InstallerIsAlone
  <2>2. /\ users'[name] = NewAdmin
        /\ \A u \in Users \ {name} : users'[u] = users[u]
    BY <1>3, <2>1 DEF InstallCommit
  <2>3. ActiveAdmins' = ActiveAdmins \cup {name}
    BY <2>1, <2>2 DEF ActiveAdmins
  <2>4. calls' = calls
    BY <1>3 DEF InstallCommit, InstallVars
  <2>5. name \notin ActiveAdmins
    BY <2>1, NoAccountIsNoAccount DEF ActiveAdmins, Exists, NewAdmin, NoAccount
  <2> HIDE DEF name
  <2>6. ASSUME NEW c \in Admins, calls[c].step = "decide", ~calls[c].overtaken,
               NEW u, u = calls[c].actor
        PROVE  users'[u] = [role |-> calls[c].role, status |-> "active"]
    <3>1. users[u] = [role |-> calls[c].role, status |-> "active"]
      BY <2>6 DEF FactsHold
    <3>2. u \in Users
      BY <2>6, CallShapes DEF Deciding
    <3>3. u # name
      BY <2>1, <3>1 DEF Exists, NoAccount
    <3> QED BY <2>2, <3>1, <3>2, <3>3
  <2>7. ASSUME NEW c \in Admins, calls[c].step = "write", ~calls[c].overtaken,
               calls[c].request \in {"disable", "demote"}, NEW u, u = calls[c].target
        PROVE  ~(users'[u] = NewAdmin /\ (ActiveAdmins \cup {name}) \ {u} = {})
    <3>1. ActiveAdmins # {} /\ ~(users[u] = NewAdmin /\ ActiveAdmins \ {u} = {})
      BY <2>7 DEF FactsHold, WouldRemoveLastActiveAdmin
    <3>2. u \in Users
      BY <2>7, CallShapes DEF Writing
    <3> QED BY <2>2, <2>5, <3>1, <3>2
  <2>8. ASSUME NEW c \in Admins, calls[c].step = "write", calls[c].request # "create",
               NEW u, u = calls[c].target
        PROVE  Exists(u)'
    <3>1. u \in Users
      BY <2>8, CallShapes DEF Writing
    <3> QED BY <2>8, <3>1, ExistingStay DEF FactsHold
  <2> QED BY <1>1, <2>3, <2>4, <2>6, <2>7, <2>8 DEF FactsHold, WouldRemoveLastActiveAdmin
<1>4. ASSUME NEW c \in Admins, NEW u \in Users, CallVerify(c, u) PROVE FactsHold'
  <2>1. users[u] \in Account /\ Exists(u) /\ users[u].status = "active"
    BY <1>4, ExistingAccount DEF CallVerify
  <2>2. /\ calls'[c].step = "decide" /\ calls'[c].actor = u
        /\ calls'[c].role = users[u].role
    BY <1>4 DEF CallVerify
  <2>3. users[u] = [role |-> users[u].role, status |-> "active"]
    BY <2>1 DEF Account
  <2>4. \A d \in Admins \ {c} : calls'[d] = calls[d]
    BY <1>4 DEF CallVerify
  <2>5. users' = users
    BY <1>4 DEF CallVerify
  <2> QED BY <2>1, <2>2, <2>3, <2>4, <2>5 DEF FactsHold, Exists, ActiveAdmins
<1>5. ASSUME NEW c \in Admins, NEW t \in Users, NEW q \in Requests, CallDecide(c, q, t)
      PROVE  FactsHold'
  <2>1. calls[c] \in Deciding /\ calls[c].step = "decide"
    BY <1>5, CallShapes DEF CallDecide
  <2>2. /\ calls'[c].step = "write" /\ calls'[c].request = q /\ calls'[c].target = t
        /\ calls'[c].overtaken = calls[c].overtaken
    BY <1>5 DEF CallDecide
  <2>3. q # "create" => Exists(t)
    BY <1>5 DEF CallDecide
  <2>4. calls[c].role = "admin" /\
        (q \in {"disable", "demote"} => ~WouldRemoveLastActiveAdmin(t, users[t], ActiveAdmins))
    BY <1>5 DEF CallDecide, Allowed, HasCapability
  <2>5. ~calls[c].overtaken => ActiveAdmins # {}
    BY <2>1, <2>4 DEF FactsHold, ActiveAdmins, NewAdmin, Deciding
  <2>6. (\E u \in Users : Exists(u))
    BY <2>1 DEF FactsHold
  <2>7. \A d \in Admins \ {c} : calls'[d] = calls[d]
    BY <1>5 DEF CallDecide
  <2>8. users' = users
    BY <1>5 DEF CallDecide
  <2>9. ActiveAdmins' = ActiveAdmins /\ \A u : Exists(u)' <=> Exists(u)
    BY <2>8 DEF ActiveAdmins, Exists
  <2> QED BY <2>2, <2>3, <2>4, <2>5, <2>6, <2>7, <2>8, <2>9
          DEF FactsHold, Exists, WouldRemoveLastActiveAdmin
<1>6. ASSUME NEW c \in Admins, CallEnd(c) PROVE FactsHold'
  <2>1. calls'[c] = NoCall /\ \A d \in Admins \ {c} : calls'[d] = calls[d]
    BY <1>6 DEF CallEnd
  <2>2. users' = users /\ NoCall.step = "idle"
    BY <1>6 DEF CallEnd, NoCall
  <2> QED BY <2>1, <2>2 DEF FactsHold, Exists, ActiveAdmins
<1>7. ASSUME \A d \in Admins : calls'[d] \in {NoCall, Overtaken(d)} PROVE FactsHold'
  <2>1. ASSUME NEW d \in Admins, calls'[d].step # "idle"
        PROVE  /\ calls[d].step # "idle" /\ calls'[d].overtaken
               /\ calls'[d].step = "write" => /\ calls[d].step = "write"
                                              /\ calls'[d].request = calls[d].request
                                              /\ calls'[d].target = calls[d].target
    BY <1>7, <2>1, OvertakenCall DEF NoCall
  <2>2. ASSUME NEW d \in Admins, calls'[d].step = "write", calls'[d].request # "create",
               NEW u, u = calls'[d].target
        PROVE  Exists(u)'
    <3>1. u \in Users /\ Exists(u)
      BY <2>1, <2>2, CallShapes DEF Writing, FactsHold
    <3> QED BY <3>1, ExistingStay
  <2> QED BY <1>1, <2>1, <2>2 DEF FactsHold
<1>8. ASSUME NEW c \in Admins, CallWrite(c) PROVE FactsHold'
  BY <1>7, <1>8 DEF CallWrite
<1>9. ASSUME NEW u \in Users, NEW from \in {"active", "locked"}, NEW to \in {"active", "locked"},
             Lockout(u, from, to)
      PROVE  FactsHold'
  BY <1>7, <1>9 DEF Lockout
<1> QED BY <1>2, <1>3, <1>4, <1>5, <1>6, <1>8, <1>9
        DEF AdministrationNext, InstallStep, InstallAbort, InstallLock, InstallCount,
            InstallInsert, InstallVars, CallStep

LEMMA LastAdminStep ==
  ASSUME AdministrationIInv, AdministrationNext
  PROVE  LastAdminRemains'
<1> USE DEF AdministrationIInv, AdministrationTypeOK
<1>1. ASSUME NEW i \in Installers, InstallCommit(i) PROVE LastAdminRemains'
  <2>1. installs[i].name \in Users
    BY <1>1 DEF InstallCommit, Ends, InstallerIsAlone
  <2>2. users'[installs[i].name] = NewAdmin
    BY <1>1, <2>1 DEF InstallCommit
  <2>3. \E u \in Users : users'[u].role = "admin" /\ users'[u].status # "disabled"
    BY <2>1, <2>2 DEF NewAdmin
  <2> QED BY <2>3 DEF LastAdminRemains, LastingAdmins
<1>2. ASSUME NEW c \in Admins, CallWrite(c), ~raced' PROVE LastingAdmins' # {}
  <2> DEFINE t == calls[c].target
             q == calls[c].request
  <2>1. calls[c] \in Writing /\ calls[c].step = "write"
    BY <1>2, CallShapes DEF CallWrite
  <2>2. ~calls[c].overtaken
    BY <1>2 DEF CallWrite
  <2>3. /\ ActiveAdmins # {}
        /\ q \in {"disable", "demote"} => ~(users[t] = NewAdmin /\ ActiveAdmins \ {t} = {})
    BY <2>1, <2>2 DEF FactsHold, WouldRemoveLastActiveAdmin
  <2>4. q \in {"create", "enable", "disable", "promote", "demote"} /\ t \in Users
    BY <2>1 DEF Writing, Requests
  <2>5. users'[t] = Changed(users[t], q) /\ \A u \in Users \ {t} : users'[u] = users[u]
    BY <1>2, <2>4 DEF CallWrite
  <2>6. q = "create" => users[t] = NoAccount
    BY <1>2 DEF CallWrite, Exists
  <2> HIDE DEF t, q
  <2>7. PICK a \in Users : users[a] = NewAdmin /\ (q \in {"disable", "demote"} => a # t)
    BY <2>3 DEF ActiveAdmins
  <2>8. users'[a].role = "admin" /\ users'[a].status = "active"
    <3>1. CASE a # t
      BY <2>5, <2>7, <3>1 DEF NewAdmin
    <3>2. CASE a = t
      <4>1. q \in {"enable", "promote"}
        BY <2>4, <2>6, <2>7, <3>2 DEF NewAdmin, NoAccount
      <4> QED BY <2>5, <2>7, <3>2, <4>1 DEF Changed, NewAdmin
    <3> QED BY <3>1, <3>2
  <2> QED BY <2>7, <2>8 DEF LastingAdmins
<1>3. ASSUME NEW u \in Users, NEW from \in {"active", "locked"}, NEW to \in {"active", "locked"},
             Lockout(u, from, to)
      PROVE  LastingAdmins' = LastingAdmins
  <2>1. users[u] \in Account /\ users[u].status # "disabled"
    BY <1>3, ExistingAccount DEF Lockout
  <2>2. users'[u] = [users[u] EXCEPT !.status = to] /\ \A v \in Users \ {u} : users'[v] = users[v]
    BY <1>3 DEF Lockout
  <2>3. users'[u].role = users[u].role /\ users'[u].status # "disabled"
    BY <2>1, <2>2 DEF Account
  <2> QED BY <2>1, <2>2, <2>3 DEF LastingAdmins
<1>4. ASSUME LastingAdmins' = LastingAdmins, raced' = raced,
             \A i \in Installers : installs'[i].step = "created" => installs[i].step = "created"
      PROVE  LastAdminRemains'
  BY <1>4 DEF LastAdminRemains
<1>5. users' = users => LastingAdmins' = LastingAdmins
  BY DEF LastingAdmins
<1>6. ASSUME NEW i \in Installers,
             InstallCount(i) \/ InstallInsert(i) \/ InstallAbort(i)
               \/ \E u \in Users : InstallLock(i, u)
      PROVE  LastAdminRemains'
  <2>1. UNCHANGED <<users, raced>> /\ \A j \in Installers \ {i} : installs'[j] = installs[j]
    BY <1>6 DEF InstallCount, InstallInsert, InstallAbort, InstallLock, InstallVars, Goes, Ends
  <2>2. installs'[i].step # "created"
    BY <1>6 DEF InstallCount, InstallInsert, InstallAbort, InstallLock, Goes, Ends, Install
  <2> QED BY <1>4, <1>5, <2>1, <2>2
<1>7. ASSUME NEW c \in Admins, CallStep(c), ~CallWrite(c) PROVE LastAdminRemains'
  <2>1. UNCHANGED <<users, raced, installs>>
    BY <1>7 DEF CallStep, CallVerify, CallDecide, CallEnd, CallVars
  <2> QED BY <1>4, <1>5, <2>1
<1>8. ASSUME NEW u \in Users, NEW from \in {"active", "locked"}, NEW to \in {"active", "locked"},
             Lockout(u, from, to)
      PROVE  LastAdminRemains'
  BY <1>3, <1>4, <1>8 DEF Lockout, CallVars
<1> QED BY <1>1, <1>2, <1>6, <1>7, <1>8 DEF AdministrationNext, InstallStep, LastAdminRemains

----------------------------------------------------------------------------
(* The theorems *)

LEMMA AdministrationNextIInv == AdministrationIInv /\ [AdministrationNext]_adminVars => AdministrationIInv'
<1> SUFFICES ASSUME AdministrationIInv, [AdministrationNext]_adminVars
             PROVE  AdministrationIInv'
  OBVIOUS
<1>1. CASE AdministrationNext
  BY <1>1, AdministrationTypeStep, OneFirstStep, LastAdminStep, AloneStep, FactsStep DEF AdministrationIInv
<1>2. CASE UNCHANGED adminVars
  BY <1>2 DEF adminVars, AdministrationIInv, AdministrationTypeOK, OneFirstAdmin,
     LastAdminRemains, InstallerIsAlone, FactsHold, Exists, ActiveAdmins, LastingAdmins
<1> QED BY <1>1, <1>2

\* An installer past the row lock is alone and finds no user, and a call that
\* nothing has overtaken still knows what it decided on.
THEOREM AdministrationInvariance == AdministrationSpec => []AdministrationIInv
<1> QED BY AdministrationInitIInv, AdministrationNextIInv, PTL DEF AdministrationSpec

\* However many installers run at once, at most one creates an admin if the lock
\* row is there, and who is told that there is one already is told the truth.
THEOREM OneAdminIsInstalled == AdministrationSpec => []OneFirstAdmin
<1>1. AdministrationIInv => OneFirstAdmin
  BY DEF AdministrationIInv
<1> QED BY <1>1, AdministrationInvariance, PTL

\* Calls that nothing overtakes between their reading and their writing leave an
\* admin who is not disabled.
THEOREM AnAdminRemains == AdministrationSpec => []LastAdminRemains
<1>1. AdministrationIInv => LastAdminRemains
  BY DEF AdministrationIInv
<1> QED BY <1>1, AdministrationInvariance, PTL
=============================================================================

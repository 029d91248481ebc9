--------------------------- MODULE Administration ---------------------------
(***************************************************************************)
(* Who administers an installation: bootstrap_first_admin, run by several  *)
(* installers at once (auth/bootstrap.py), and the global role rules of    *)
(* auth/rbac.py, asked by concurrent calls of administrators.              *)
(*                                                                         *)
(* rbac.py holds no state: a call reads the actor (verify_access_jwt), the *)
(* target and the list of active admins, asks, and then writes.  Between   *)
(* these steps other calls, and the login lockout, change the same rows.   *)
(***************************************************************************)

CONSTANTS
  Users,        \* rows the user table may come to hold
  Installers,   \* callers of bootstrap_first_admin
  Admins,       \* callers of the administration functions
  Nobody

ASSUME AdministrationAssumption == Nobody \notin Users \cup Installers

Roles == {"admin", "user"}
Account == [role : Roles, status : {"active", "locked", "disabled"}]
NoAccount == [role |-> "none", status |-> "none"]
\* Mutant: the status is left to the column's default, which there is none of.
NewAdmin_NoStatus == [role |-> "admin", status |-> "none"]

NewAdmin == [role |-> "admin", status |-> "active"]

\* What an administrator may ask; the first needs the target to be absent.
Requests == {"create", "enable", "disable", "promote", "demote"}

VARIABLES
  users,       \* the committed user table
  seeded,      \* whether bootstrap_lock has the row its migration inserts
  lockOwner,   \* installer whose transaction has that row locked, or Nobody
  installs,    \* each installer: its step and the username it was given
  calls,       \* each administrator's call: its step and what it has read
  raced        \* history: a call has written after what it read had changed

adminVars == <<users, seeded, lockOwner, installs, calls, raced>>

InstallSteps == {"idle", "count", "insert", "commit", "created", "rejected"}
Install == [step : InstallSteps, name : Users \cup {Nobody}]

\* overtaken is a history field: the table has changed since the actor was read.
Call == [step : {"decide"}, actor : Users, role : Roles, overtaken : BOOLEAN]
        \cup [step : {"write"}, request : Requests, target : Users, overtaken : BOOLEAN]
NoCall == [step |-> "idle"]

AdministrationTypeOK ==
  /\ users \in [Users -> Account \cup {NoAccount}]
  /\ seeded \in BOOLEAN
  /\ lockOwner \in Installers \cup {Nobody}
  /\ installs \in [Installers -> Install]
  /\ calls \in [Admins -> Call \cup {NoCall}]
  /\ raced \in BOOLEAN

AdministrationInit ==
  /\ users = [u \in Users |-> NoAccount]
  /\ seeded \in BOOLEAN
  /\ lockOwner = Nobody
  /\ installs = [i \in Installers |-> [step |-> "idle", name |-> Nobody]]
  /\ calls = [c \in Admins |-> NoCall]
  /\ raced = FALSE

Exists(u) == users[u] # NoAccount
ActiveAdmins == {u \in Users : users[u] = NewAdmin}
\* Those an expired lock gives back: a lock ends by itself, disabling does not.
LastingAdmins == {u \in Users : users[u].role = "admin" /\ users[u].status # "disabled"}

\* An uncommitted row keeps others from inserting the same username.
Pending(u) == \E i \in Installers : installs[i].step = "commit" /\ installs[i].name = u

----------------------------------------------------------------------------
(* bootstrap_first_admin, and the transaction its caller opened *)

InstallVars == <<calls, raced, seeded>>

Goes(i, from, to) ==
  /\ installs[i].step = from
  /\ installs' = [installs EXCEPT ![i].step = to]

\* The transaction ends, with a commit or not, and with it the row lock.
Ends(i, from, outcome) ==
  /\ installs[i].step \in from
  /\ installs' = [installs EXCEPT ![i] = [step |-> outcome, name |-> Nobody]]
  /\ lockOwner' = IF lockOwner = i THEN Nobody ELSE lockOwner

\* Mutant: the row is read without FOR UPDATE.
InstallLock_Plain(i, u) ==
  /\ installs[i].step = "idle"
  /\ installs' = [installs EXCEPT ![i] = [step |-> "count", name |-> u]]
  /\ UNCHANGED <<users, lockOwner, InstallVars>>

\* SELECT ... FOR UPDATE locks the seeded row; of an absent row it locks nothing.
InstallLock(i, u) ==
  /\ installs[i].step = "idle"
  /\ installs' = [installs EXCEPT ![i] = [step |-> "count", name |-> u]]
  /\ seeded => lockOwner = Nobody
  /\ lockOwner' = IF seeded THEN i ELSE lockOwner
  /\ UNCHANGED <<users, InstallVars>>

\* AlreadyInitializedError leaves the caller's transaction, which rolls back.
InstallCount(i) ==
  /\ \/ /\ \A u \in Users : ~Exists(u)
        /\ Goes(i, "count", "insert")
        /\ UNCHANGED lockOwner
     \/ /\ \E u \in Users : Exists(u)
        /\ Ends(i, {"count"}, "rejected")
  /\ UNCHANGED <<users, InstallVars>>

\* The flush: an IntegrityError if the username is taken.
InstallInsert(i) ==
  /\ installs[i].step = "insert"
  /\ ~Pending(installs[i].name)
  /\ \/ /\ ~Exists(installs[i].name)
        /\ Goes(i, "insert", "commit")
        /\ UNCHANGED lockOwner
     \/ /\ Exists(installs[i].name)
        /\ Ends(i, {"insert"}, "idle")
  /\ UNCHANGED <<users, InstallVars>>

InstallCommit(i) ==
  /\ Ends(i, {"commit"}, "created")
  /\ users' = [users EXCEPT ![installs[i].name] = NewAdmin]
  /\ UNCHANGED InstallVars

\* The process dies or the database fails: the transaction is rolled back, and the
\* installer may try again.
InstallAbort(i) ==
  /\ Ends(i, {"count", "insert", "commit"}, "idle")
  /\ UNCHANGED <<users, InstallVars>>

InstallStep(i) ==
  InstallCount(i) \/ InstallInsert(i) \/ InstallCommit(i)

----------------------------------------------------------------------------
(* auth/rbac.py *)

\* has_capability, for the capabilities in Requests; all are the admins'.
HasCapability(role, status) == status = "active" /\ role = "admin"

\* Mutant: an empty list of admins is taken for `somebody is left'.
WouldRemoveLastActiveAdmin_Off(target, row, admins) ==
  row = NewAdmin /\ admins = {}

\* _would_remove_last_active_admin
WouldRemoveLastActiveAdmin(target, row, admins) ==
  row = NewAdmin /\ admins \ {target} = {}

\* authorize, authorize_disable_user, authorize_enable_user and
\* authorize_change_global_role
Allowed(request, role, status, target, row, admins) ==
  /\ HasCapability(role, status)
  /\ request \in {"disable", "demote"} => ~WouldRemoveLastActiveAdmin(target, row, admins)

----------------------------------------------------------------------------
(* A call of an administrator *)

CallVars == <<seeded, lockOwner, installs>>

\* verify_access_jwt reads the actor's row and refuses anyone not active.
CallVerify(c, actor) ==
  /\ calls[c].step = "idle"
  /\ users[actor].status = "active"
  /\ calls' = [calls EXCEPT ![c] =
       [step |-> "decide", actor |-> actor, role |-> users[actor].role, overtaken |-> FALSE]]
  /\ UNCHANGED <<users, raced, CallVars>>

\* The caller reads target and active admins and asks.
CallDecide(c, request, target) ==
  /\ calls[c].step = "decide"
  /\ Exists(target) <=> request # "create"
  /\ Allowed(request, calls[c].role, "active", target, users[target], ActiveAdmins)
  /\ calls' = [calls EXCEPT ![c] = [step |-> "write", request |-> request, target |-> target,
                                    overtaken |-> calls[c].overtaken]]
  /\ UNCHANGED <<users, raced, CallVars>>

\* A refusal, a target that is not what was expected, or a failure ends the call.
CallEnd(c) ==
  /\ calls[c].step # "idle"
  /\ calls' = [calls EXCEPT ![c] = NoCall]
  /\ UNCHANGED <<users, raced, CallVars>>

\* The row after the caller's UPDATE of one column, or its INSERT.
Changed(row, request) ==
  CASE request = "create"  -> [role |-> "user", status |-> "active"]
    [] request = "enable"  -> [row EXCEPT !.status = "active"]
    [] request = "disable" -> [row EXCEPT !.status = "disabled"]
    [] request = "promote" -> [row EXCEPT !.role = "admin"]
    [] request = "demote"  -> [row EXCEPT !.role = "user"]

\* The calls that have read users before this change.
Overtaken(c) ==
  IF calls[c].step = "idle" THEN NoCall ELSE [calls[c] EXCEPT !.overtaken = TRUE]

\* An INSERT of a username that exists by now is an IntegrityError: CallEnd.
CallWrite(c) ==
  /\ calls[c].step = "write"
  /\ LET call == calls[c] IN
       /\ call.request = "create" => ~Exists(call.target) /\ ~Pending(call.target)
       /\ users' = [users EXCEPT ![call.target] = Changed(@, call.request)]
       /\ raced' = (raced \/ call.overtaken)
       /\ calls' = [d \in Admins |-> IF d = c THEN NoCall ELSE Overtaken(d)]
  /\ UNCHANGED CallVars

\* The login lockout locks an account and gives it back (auth/lockout.py).
Lockout(u, from, to) ==
  /\ <<from, to>> \in {<<"active", "locked">>, <<"locked", "active">>}
  /\ users[u].status = from
  /\ users' = [users EXCEPT ![u].status = to]
  /\ calls' = [d \in Admins |-> Overtaken(d)]
  /\ UNCHANGED <<raced, CallVars>>

CallStep(c) ==
  \/ \E u \in Users : CallVerify(c, u)
  \/ \E t \in Users, q \in Requests : CallDecide(c, q, t)
  \/ CallWrite(c) \/ CallEnd(c)

AdministrationNext ==
  \/ \E i \in Installers :
       InstallStep(i) \/ InstallAbort(i) \/ \E u \in Users : InstallLock(i, u)
  \/ \E c \in Admins : CallStep(c)
  \/ \E u \in Users, from, to \in {"active", "locked"} : Lockout(u, from, to)

AdministrationSpec == AdministrationInit /\ [][AdministrationNext]_adminVars

----------------------------------------------------------------------------
(* Properties *)

\* However many installers run at once, at most one creates an admin, and one is
\* told that the installation has an admin only if it has (bootstrap.py 10-23,
\* test_bootstrap.py 237: "never zero and never two").  Needs the seeded row.
OneFirstAdmin ==
  /\ seeded => \A i, j \in Installers :
       installs[i].step = "created" /\ installs[j].step = "created" => i = j
  /\ \A i \in Installers : installs[i].step \in {"created", "rejected"} =>
       \E u \in Users : Exists(u)

\* An installation keeps an admin who is not disabled unless a call wrote after
\* other calls or a lockout had changed what it decided on (rbac.py 5-8, 126-136).
LastAdminRemains ==
  (\E i \in Installers : installs[i].step = "created") /\ ~raced => LastingAdmins # {}

----------------------------------------------------------------------------
(* The inductive invariant *)

\* A transaction past FOR UPDATE has the lock, and finds no user once it has
\* counted none; a row waiting for its commit has its username to itself.
InstallerIsAlone ==
  \A i \in Installers :
    /\ seeded /\ installs[i].step \in {"count", "insert", "commit"} => lockOwner = i
    /\ seeded /\ installs[i].step \in {"insert", "commit"} => \A u \in Users : ~Exists(u)
    /\ installs[i].step \in {"count", "insert", "commit"} => installs[i].name \in Users
    /\ installs[i].step = "commit" =>
         /\ ~Exists(installs[i].name)
         /\ \A j \in Installers :
              installs[j].step = "commit" /\ installs[j].name = installs[i].name => j = i

\* Nobody calls before there is a user, and who is to be changed exists; what a call
\* that nothing has overtaken read of its actor is still so, and if it is about to
\* remove an active admin it leaves another.
FactsHold ==
  \A c \in Admins : calls[c].step # "idle" =>
    /\ \E u \in Users : Exists(u)
    /\ calls[c].step = "decide" /\ ~calls[c].overtaken =>
         users[calls[c].actor] = [role |-> calls[c].role, status |-> "active"]
    /\ calls[c].step = "write" /\ calls[c].request # "create" => Exists(calls[c].target)
    /\ calls[c].step = "write" /\ ~calls[c].overtaken =>
         /\ ActiveAdmins # {}
         /\ calls[c].request \in {"disable", "demote"} =>
              ~WouldRemoveLastActiveAdmin(calls[c].target, users[calls[c].target], ActiveAdmins)

AdministrationIInv ==
  /\ AdministrationTypeOK
  /\ OneFirstAdmin
  /\ LastAdminRemains
  /\ InstallerIsAlone
  /\ FactsHold
=============================================================================

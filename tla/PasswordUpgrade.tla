--------------------------- MODULE PasswordUpgrade --------------------------
(***************************************************************************)
(* verify_and_migrate_password (auth/password_migration.py): a login that  *)
(* finds a bcrypt hash replaces it by an Argon2id hash of the password it  *)
(* was given.  It works on the row its caller has loaded, and the caller   *)
(* commits later; in between the password may be changed.                  *)
(***************************************************************************)

CONSTANTS Passwords, Logins, NoLogin

ASSUME PasswordUpgradeAssumption == NoLogin \notin Logins

VARIABLES
  hash,       \* password_hash as committed: its scheme, and what it is a hash of
  chosen,     \* history: the password the user has
  logins,     \* each login: its step, what it loaded and what it was given
  rowLock,    \* the login that has locked the row
  locking     \* whether logins load the row FOR UPDATE, as auth/lockout.py does

upgradeVars == <<hash, chosen, logins, rowLock, locking>>

Hash == [scheme : {"bcrypt", "argon2id"}, password : Passwords]
Argon2id(p) == [scheme |-> "argon2id", password |-> p]
LoginCall == [step : {"loaded", "verified"}, seen : Hash, password : Passwords]
NoLoginCall == [step |-> "none"]

PasswordUpgradeTypeOK ==
  /\ hash \in Hash /\ chosen \in Passwords
  /\ logins \in [Logins -> LoginCall \cup {NoLoginCall}]
  /\ rowLock \in Logins \cup {NoLogin}
  /\ locking \in BOOLEAN

PasswordUpgradeInit ==
  /\ hash \in Hash /\ chosen = hash.password
  /\ logins = [l \in Logins |-> NoLoginCall]
  /\ rowLock = NoLogin
  /\ locking \in BOOLEAN

\* Nobody else has the row locked.
MayWrite(l) == rowLock \in {NoLogin, l}

\* Mutant: who means to lock the row reads it without waiting for it.
LoadRow_Plain(l, p) ==
  /\ logins[l].step = "none"
  /\ logins' = [logins EXCEPT ![l] = [step |-> "loaded", seen |-> hash, password |-> p]]
  /\ UNCHANGED <<hash, chosen, rowLock, locking>>

LoadRow(l, p) ==
  /\ logins[l].step = "none"
  /\ locking => rowLock = NoLogin
  /\ rowLock' = IF locking THEN l ELSE rowLock
  /\ logins' = [logins EXCEPT ![l] = [step |-> "loaded", seen |-> hash, password |-> p]]
  /\ UNCHANGED <<hash, chosen, locking>>

\* The caller's transaction ends.
EndLogin(l) ==
  /\ logins' = [logins EXCEPT ![l] = NoLoginCall]
  /\ rowLock' = IF rowLock = l THEN NoLogin ELSE rowLock

\* Mutant: any password is good enough for a hash of the old scheme.
Matches_Argon2idOnly(l) ==
  logins[l].seen.scheme = "argon2id" => logins[l].seen.password = logins[l].password

\* bcrypt.checkpw or verify_password, with the hash that was loaded.
Matches(l) == logins[l].seen.password = logins[l].password

\* A mismatch raises PasswordVerificationError out of the transaction.
Verify(l) ==
  /\ logins[l].step = "loaded"
  /\ \/ /\ Matches(l)
        /\ logins' = [logins EXCEPT ![l].step = "verified"]
        /\ UNCHANGED rowLock
     \/ ~Matches(l) /\ EndLogin(l)
  /\ UNCHANGED <<hash, chosen, locking>>

\* The unit of work writes password_hash if it was assigned, and nothing else.
CommitLogin(l) ==
  /\ logins[l].step = "verified"
  /\ \/ /\ logins[l].seen.scheme = "bcrypt"
        /\ MayWrite(l)
        /\ hash' = Argon2id(logins[l].password)
     \/ logins[l].seen.scheme = "argon2id" /\ UNCHANGED hash
  /\ EndLogin(l)
  /\ UNCHANGED <<chosen, locking>>

AbortLogin(l) ==
  /\ logins[l].step # "none"
  /\ EndLogin(l)
  /\ UNCHANGED <<hash, chosen, locking>>

\* The user or an administrator sets a password (hash_password).
ChoosePassword(p) ==
  /\ MayWrite(NoLogin)
  /\ hash' = Argon2id(p)
  /\ chosen' = p
  /\ UNCHANGED <<logins, rowLock, locking>>

PasswordUpgradeNext ==
  \/ \E l \in Logins :
       Verify(l) \/ CommitLogin(l) \/ AbortLogin(l) \/ \E p \in Passwords : LoadRow(l, p)
  \/ \E p \in Passwords : ChoosePassword(p)

PasswordUpgradeSpec == PasswordUpgradeInit /\ [][PasswordUpgradeNext]_upgradeVars

\* An upgrade changes the scheme and never the password, however it overlaps with
\* other logins and changes of password, if logins lock the row they load: without
\* the lock it brings an old password back (password_migration.py 58-64).
UpgradeKeepsPassword == locking => hash.password = chosen

\* With or without the lock, a login brings an old password back only if it did not
\* lock the row and the row was written after it had loaded it: no login changes the
\* password of a row that is as it found it, whatever it was given
\* (password_migration.py 58-66).
OnlyStaleUpgradesRevert ==
  [][\A l \in Logins : CommitLogin(l) /\ hash'.password # hash.password =>
       ~locking /\ logins[l].seen # hash]_upgradeVars

\* A login that has the row has it for itself and as it is, and has verified what it
\* will write.
PasswordUpgradeIInv ==
  /\ PasswordUpgradeTypeOK
  /\ UpgradeKeepsPassword
  /\ \A l \in Logins : logins[l].step # "none" =>
       /\ locking => rowLock = l /\ logins[l].seen = hash
       /\ logins[l].step = "verified" => Matches(l)
=============================================================================

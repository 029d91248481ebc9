-------------------------- MODULE RefreshSessions --------------------------
(***************************************************************************)
(* The admin refresh sessions of backend/src/litemcp/auth: login           *)
(* (session.py), rotation and reuse detection (refresh.py), logout         *)
(* (logout.py), over one shared Redis and the users table.                 *)
(*                                                                         *)
(* Every call of one of those functions is a request.  A request is a      *)
(* little process whose steps are its awaits (or its blocking client       *)
(* calls): between two of them any other request may run.  A request that  *)
(* never takes its next step is one whose worker crashed or whose Redis or *)
(* database call failed: every such function lets the exception end it.    *)
(*                                                                         *)
(* Random values are modelled by who drew them.  The session id and the    *)
(* first secret of a session are named by the login request that drew      *)
(* them, a rotated secret by the rotation that drew it; SHA-256 is         *)
(* injective on them, so a stored hash is the secret it was computed from. *)
(***************************************************************************)
EXTENDS Naturals

CONSTANTS
  Requests,        \* calls of login, rotate and logout
  Reliable,        \* those whose Redis and database calls all return
  Users,           \* admin users
  Forged,          \* a secret nobody drew
  None,            \* an absent key, field or value
  IdleTtl,         \* ADMIN_REFRESH_IDLE_TTL_SECONDS, in ticks
  AbsoluteTtl,     \* ADMIN_REFRESH_ABSOLUTE_TTL_SECONDS, in ticks
  TicksPerSecond,  \* resolution of the clock: EXPIRE counts whole seconds
  MaxTime          \* bound on the clock

ASSUME RequestsAssumption ==
  /\ Reliable \subseteq Requests
  /\ Forged \notin Requests
  /\ None \notin Requests \cup Users \cup Nat \cup {Forged}

\* core/config.py requires both TTLs to be positive and compares them to nothing.
ASSUME TtlAssumption ==
  /\ IdleTtl \in Nat \ {0}
  /\ AbsoluteTtl \in Nat \ {0}
  /\ TicksPerSecond \in Nat \ {0}
  /\ MaxTime \in Nat

\* The fields only create_login_session writes.
LoginFields == [user : Users, created : Nat, absolute : Nat]

\* The hash under admin_session:<id> and its Redis expiry.  `login' is None
\* when the key holds only the three fields a rotation writes.
SessionHash ==
  [login : LoginFields \cup {None}, secret : Requests,
   idle : Nat, expireAt : Nat \cup {None}]

ASSUME NoneAssumption == None \notin LoginFields \cup SessionHash

LoginSteps  == {"login_pipe", "login_done"}
\* A rotation that has not yet written, one that has.
BeforeHset  == {"rot_exists", "rot_read", "rot_hset"}
AfterHset   == {"rot_confirm", "rot_lost", "rot_expire", "rot_load",
                "rot_rejected", "rot_mint", "rot_done"}
ReuseSteps  == {"reuse_del", "reuse_srem", "reuse_audit", "reuse_done"}
LogoutSteps == {"cur_get", "cur_wrongtype"}
AllSteps    == {"all_members", "all_del", "all_audit", "all_done"}

Labels == {"idle", "refused"} \cup LoginSteps \cup BeforeHset \cup AfterHset
            \cup ReuseSteps \cup LogoutSteps \cup AllSteps

VARIABLES
  clock,      \* the one clock Redis and the application agree on
  session,    \* Redis: session id -> hash, or None
  members,    \* Redis: user -> the set user_sessions:<user>
  active,     \* users.status = "active"
  pwChanged,  \* users.password_changed_at
  pc,         \* what each request does next, or how it ended
  target,     \* session id the request addresses
  presented,  \* secret half of the refresh token it was given
  owner,      \* user it was called for (login, logout everywhere)
  moment,     \* the instant it captured on entry
  seen,       \* login fields a rotation copied out of the hash
  listed,     \* what a logout-everywhere read from user_sessions
  todo        \* the part of it not yet deleted

redis    == <<session, members>>
database == <<active, pwChanged>>
args     == <<target, presented, owner, moment>>
locals   == <<seen, listed, todo>>
vars     == <<clock, redis, database, pc, args, locals>>

----------------------------------------------------------------------------

TypeOK ==
  /\ clock \in Nat
  /\ session \in [Requests -> SessionHash \cup {None}]
  /\ members \in [Users -> SUBSET Requests]
  /\ active \in [Users -> BOOLEAN]
  /\ pwChanged \in [Users -> Nat]
  /\ pc \in [Requests -> Labels]
  /\ target \in [Requests -> Requests \cup {None}]
  /\ presented \in [Requests -> Requests \cup {Forged, None}]
  /\ owner \in [Requests -> Users \cup {None}]
  /\ moment \in [Requests -> Nat]
  /\ seen \in [Requests -> LoginFields \cup {None}]
  /\ listed \in [Requests -> SUBSET Requests]
  /\ todo \in [Requests -> SUBSET Requests]

Init ==
  /\ clock = 0
  /\ session = [s \in Requests |-> None]
  /\ members = [u \in Users |-> {}]
  /\ active = [u \in Users |-> TRUE]
  /\ pwChanged = [u \in Users |-> 0]
  /\ pc = [r \in Requests |-> "idle"]
  /\ target = [r \in Requests |-> None]
  /\ presented = [r \in Requests |-> None]
  /\ owner = [r \in Requests |-> None]
  /\ moment = [r \in Requests |-> 0]
  /\ seen = [r \in Requests |-> None]
  /\ listed = [r \in Requests |-> {}]
  /\ todo = [r \in Requests |-> {}]

\* All six fields are there: the only hashes rotate_refresh_token accepts.
Usable(s) == session[s] # None /\ session[s].login # None

\* Secret x of session s has been returned to a client.
Issued(s, x) ==
  \/ x = s /\ pc[s] = "login_done"
  \/ x \in Requests /\ target[x] = s /\ pc[x] = "rot_done"

Goto(r, from, to) ==
  /\ pc[r] = from
  /\ pc' = [pc EXCEPT ![r] = to]

----------------------------------------------------------------------------
(* create_login_session *)

\* The caller has checked the password of an active user; the access token
\* and both secrets are computed before the first await.
LoginStart(r, u) ==
  /\ active[u]
  /\ Goto(r, "idle", "login_pipe")
  /\ owner' = [owner EXCEPT ![r] = u]
  /\ moment' = [moment EXCEPT ![r] = clock]
  /\ UNCHANGED <<clock, redis, database, target, presented, locals>>

\* HSET, EXPIRE and SADD run as one MULTI/EXEC.  The set gets no expiry.
LoginPipe(r) ==
  LET fields == [user     |-> owner[r],
                 created  |-> moment[r],
                 absolute |-> moment[r] + AbsoluteTtl]
  IN /\ Goto(r, "login_pipe", "login_done")
     /\ session' = [session EXCEPT ![r] =
          [login |-> fields, secret |-> r, idle |-> moment[r] + IdleTtl,
           expireAt |-> clock + AbsoluteTtl]]
     /\ members' = [members EXCEPT ![owner[r]] = @ \cup {r}]
     /\ UNCHANGED <<clock, database, args, locals>>

----------------------------------------------------------------------------
(* rotate_refresh_token *)

\* Mutant: the two halves of the token are swapped.
RotateStart_SwappedHalves(r, s, x) ==
  /\ x = Forged \/ Issued(s, x)
  /\ Goto(r, "idle", "rot_exists")
  /\ target' = [target EXCEPT ![r] = x]
  /\ presented' = [presented EXCEPT ![r] = s]
  /\ moment' = [moment EXCEPT ![r] = clock]
  /\ UNCHANGED <<clock, redis, database, owner, locals>>

RotateStart(r, s, x) ==
  /\ x = Forged \/ Issued(s, x)
  /\ Goto(r, "idle", "rot_exists")
  /\ target' = [target EXCEPT ![r] = s]
  /\ presented' = [presented EXCEPT ![r] = x]
  /\ moment' = [moment EXCEPT ![r] = clock]
  /\ UNCHANGED <<clock, redis, database, owner, locals>>

RotateExists(r) ==
  /\ Goto(r, "rot_exists",
          IF session[target[r]] = None THEN "refused" ELSE "rot_read")
  /\ UNCHANGED <<clock, redis, database, args, locals>>

\* The hash has every field, and neither expiry lies at or before `moment'.
Accepts(r) ==
  /\ Usable(target[r])
  /\ moment[r] < session[target[r]].login.absolute
  /\ moment[r] < session[target[r]].idle

RotateReadRefused(r) ==
  /\ Goto(r, "rot_read", "refused")
  /\ ~Accepts(r)
  /\ UNCHANGED <<clock, redis, database, args, locals>>

RotateReadMismatch(r) ==
  /\ Goto(r, "rot_read", "reuse_del")
  /\ Accepts(r)
  /\ session[target[r]].secret # presented[r]
  /\ seen' = [seen EXCEPT ![r] = session[target[r]].login]
  /\ UNCHANGED <<clock, redis, database, args, listed, todo>>

RotateReadMatch(r) ==
  /\ Goto(r, "rot_read", "rot_hset")
  /\ Accepts(r)
  /\ session[target[r]].secret = presented[r]
  /\ seen' = [seen EXCEPT ![r] = session[target[r]].login]
  /\ UNCHANGED <<clock, redis, database, args, listed, todo>>

\* Mutant: the idle expiry is not clipped.
NextIdle_Unclipped(r) == moment[r] + IdleTtl

NextIdle(r) ==
  IF moment[r] + IdleTtl <= seen[r].absolute
    THEN moment[r] + IdleTtl ELSE seen[r].absolute

\* Mutant: the hash is written back whole, as it was read.
RotateHset_WholeHash(r) ==
  /\ Goto(r, "rot_hset", "rot_confirm")
  /\ session' = [session EXCEPT ![target[r]] =
       [login |-> seen[r], secret |-> r, idle |-> NextIdle(r),
        expireAt |-> IF @ = None THEN None ELSE @.expireAt]]
  /\ UNCHANGED <<clock, members, database, args, locals>>

\* Mutant: the absolute expiry rolls on with every rotation.
RotateHset_RollingAbsolute(r) ==
  /\ Goto(r, "rot_hset", "rot_confirm")
  /\ session' = [session EXCEPT ![target[r]] =
       IF Usable(target[r])
         THEN [@ EXCEPT !.secret = r, !.idle = NextIdle(r),
                        !.login.absolute = moment[r] + AbsoluteTtl]
         ELSE @]
  /\ UNCHANGED <<clock, members, database, args, locals>>

\* Mutant: the new hash is left out of the mapping.
RotateHset_KeepsSecret(r) ==
  /\ Goto(r, "rot_hset", "rot_confirm")
  /\ session' = [session EXCEPT ![target[r]] =
       IF @ = None THEN None ELSE [@ EXCEPT !.idle = NextIdle(r)]]
  /\ UNCHANGED <<clock, members, database, args, locals>>

\* HSET writes three fields and creates the key, without expiry, if it is gone.
RotateHset(r) ==
  /\ Goto(r, "rot_hset", "rot_confirm")
  /\ session' = [session EXCEPT ![target[r]] =
       IF @ = None
         THEN [login |-> None, secret |-> r, idle |-> NextIdle(r),
               expireAt |-> None]
         ELSE [@ EXCEPT !.secret = r, !.idle = NextIdle(r)]]
  /\ UNCHANGED <<clock, members, database, args, locals>>

OwnsHash(r) == session[target[r]] # None /\ session[target[r]].secret = r

\* Mutant: a rotation that lost the hash writes again instead of failing.
RotateConfirm_Retries(r) ==
  /\ Goto(r, "rot_confirm", IF OwnsHash(r) THEN "rot_expire" ELSE "rot_hset")
  /\ UNCHANGED <<clock, redis, database, args, locals>>

RotateConfirm(r) ==
  /\ Goto(r, "rot_confirm", IF OwnsHash(r) THEN "rot_expire" ELSE "rot_lost")
  /\ UNCHANGED <<clock, redis, database, args, locals>>

\* max(1, int(seconds from `moment' to the absolute expiry)), in ticks
RemainingAbsolute(until, from) ==
  LET whole == (until - from) \div TicksPerSecond
  IN TicksPerSecond * (IF whole >= 1 THEN whole ELSE 1)

\* Mutant: the key is kept for the idle TTL only.
RotateExpire_IdleTtl(r) ==
  /\ Goto(r, "rot_expire", "rot_load")
  /\ session' = [session EXCEPT ![target[r]] =
       IF @ = None THEN None ELSE [@ EXCEPT !.expireAt = clock + IdleTtl]]
  /\ UNCHANGED <<clock, members, database, args, locals>>

RotateExpire(r) ==
  /\ Goto(r, "rot_expire", "rot_load")
  /\ session' = [session EXCEPT ![target[r]] =
       IF @ = None THEN None
       ELSE [@ EXCEPT !.expireAt =
               clock + RemainingAbsolute(seen[r].absolute, moment[r])]]
  /\ UNCHANGED <<clock, members, database, args, locals>>

MayMint(r) ==
  /\ active[seen[r].user]
  /\ seen[r].created >= pwChanged[seen[r].user]

\* _load_user reads the row and closes its database session before returning.
RotateLoadUser(r) ==
  /\ Goto(r, "rot_load", IF MayMint(r) THEN "rot_mint" ELSE "rot_rejected")
  /\ UNCHANGED <<clock, redis, database, args, locals>>

RotateMint(r) ==
  /\ Goto(r, "rot_mint", "rot_done")
  /\ UNCHANGED <<clock, redis, database, args, locals>>

----------------------------------------------------------------------------
(* _revoke_refresh_family_on_reuse *)

ReuseDel(r) ==
  /\ Goto(r, "reuse_del", "reuse_srem")
  /\ session' = [session EXCEPT ![target[r]] = None]
  /\ UNCHANGED <<clock, members, database, args, locals>>

\* Mutant: the family is revoked and nothing is audited.
ReuseSrem_SkipsAudit(r) ==
  /\ Goto(r, "reuse_srem", "refused")
  /\ members' = [members EXCEPT ![seen[r].user] = @ \ {target[r]}]
  /\ UNCHANGED <<clock, session, database, args, locals>>

ReuseSrem(r) ==
  /\ Goto(r, "reuse_srem", "reuse_audit")
  /\ members' = [members EXCEPT ![seen[r].user] = @ \ {target[r]}]
  /\ UNCHANGED <<clock, session, database, args, locals>>

\* The audit row is committed; the caller then sees RefreshSecretMismatch.
ReuseAudit(r) ==
  /\ Goto(r, "reuse_audit", "reuse_done")
  /\ UNCHANGED <<clock, redis, database, args, locals>>

----------------------------------------------------------------------------
(* logout_current_session, logout_all_sessions *)

CurrentStart(r, s, x) ==
  /\ x = Forged \/ Issued(s, x)
  /\ Goto(r, "idle", "cur_get")
  /\ target' = [target EXCEPT ![r] = s]
  /\ presented' = [presented EXCEPT ![r] = x]
  /\ UNCHANGED <<clock, redis, database, owner, moment, locals>>

\* GET of a key that holds a hash is a WRONGTYPE error, and every key that
\* login or rotation writes holds a hash: the DEL, SREM and audit that follow
\* the GET are never reached.
CurrentGet(r) ==
  /\ Goto(r, "cur_get",
          IF session[target[r]] = None THEN "refused" ELSE "cur_wrongtype")
  /\ UNCHANGED <<clock, redis, database, args, locals>>

AllStart(r, u) ==
  /\ Goto(r, "idle", "all_members")
  /\ owner' = [owner EXCEPT ![r] = u]
  /\ UNCHANGED <<clock, redis, database, target, presented, moment, locals>>

AllMembers(r) ==
  /\ Goto(r, "all_members", "all_del")
  /\ listed' = [listed EXCEPT ![r] = members[owner[r]]]
  /\ todo' = [todo EXCEPT ![r] = members[owner[r]]]
  /\ UNCHANGED <<clock, redis, database, args, seen>>

AllDel(r, s) ==
  /\ pc[r] = "all_del"
  /\ s \in todo[r]
  /\ session' = [session EXCEPT ![s] = None]
  /\ todo' = [todo EXCEPT ![r] = @ \ {s}]
  /\ UNCHANGED <<clock, members, database, pc, args, seen, listed>>

\* Mutant: the set is dropped before the sessions in it are deleted.
AllDelSet_Early(r) ==
  /\ Goto(r, "all_del", "all_audit")
  /\ members' = [members EXCEPT ![owner[r]] = {}]
  /\ UNCHANGED <<clock, session, database, args, locals>>

AllDelSet(r) ==
  /\ todo[r] = {}
  /\ Goto(r, "all_del", "all_audit")
  /\ members' = [members EXCEPT ![owner[r]] = {}]
  /\ UNCHANGED <<clock, session, database, args, locals>>

AllAudit(r) ==
  /\ Goto(r, "all_audit", "all_done")
  /\ UNCHANGED <<clock, redis, database, args, locals>>

----------------------------------------------------------------------------
(* Time, and the rest of the application *)

\* Redis drops a key the instant its expiry is reached.
Expired(s, t) ==
  session[s] # None /\ session[s].expireAt # None /\ session[s].expireAt <= t

Tick ==
  /\ clock < MaxTime
  /\ clock' = clock + 1
  /\ session' = [s \in Requests |->
                   IF Expired(s, clock + 1) THEN None ELSE session[s]]
  /\ UNCHANGED <<members, database, pc, args, locals>>

\* Whatever changes a password sets password_changed_at to the current time.
ChangePassword(u) ==
  /\ pwChanged' = [pwChanged EXCEPT ![u] = clock]
  /\ UNCHANGED <<clock, redis, active, pc, args, locals>>

\* The account is disabled, locked, or made active again.
SetStatus(u) ==
  /\ active' = [active EXCEPT ![u] = ~@]
  /\ UNCHANGED <<clock, redis, pwChanged, pc, args, locals>>

----------------------------------------------------------------------------

Start(r) ==
  \/ \E u \in Users : LoginStart(r, u)
  \/ \E s \in Requests, x \in Requests \cup {Forged} : RotateStart(r, s, x)
  \/ \E s \in Requests, x \in Requests \cup {Forged} : CurrentStart(r, s, x)
  \/ \E u \in Users : AllStart(r, u)

RotateStep(r) ==
  \/ RotateExists(r)
  \/ RotateReadRefused(r)
  \/ RotateReadMismatch(r)
  \/ RotateReadMatch(r)
  \/ RotateHset(r)
  \/ RotateConfirm(r)
  \/ RotateExpire(r)
  \/ RotateLoadUser(r)
  \/ RotateMint(r)

ReuseStep(r) == ReuseDel(r) \/ ReuseSrem(r) \/ ReuseAudit(r)

AllStep(r) ==
  \/ AllMembers(r)
  \/ \E s \in Requests : AllDel(r, s)
  \/ AllDelSet(r)
  \/ AllAudit(r)

\* What a request does once it has been called.
Step(r) ==
  \/ LoginPipe(r)
  \/ RotateStep(r)
  \/ ReuseStep(r)
  \/ CurrentGet(r)
  \/ AllStep(r)

Environment ==
  \/ Tick
  \/ \E u \in Users : ChangePassword(u)
  \/ \E u \in Users : SetStatus(u)

Next == \/ \E r \in Requests : Start(r) \/ Step(r)
        \/ Environment

Spec == Init /\ [][Next]_vars

\* Only requests whose calls return are promised to go on; nothing makes a
\* client call, the clock advance or an account change.
FairSpec == Spec /\ \A r \in Reliable : WF_vars(Step(r))

----------------------------------------------------------------------------
(* Properties *)

\* Some rotation has replaced secret x of session s.
Retired(s, x) ==
  \E q \in Requests : target[q] = s /\ presented[q] = x /\ pc[q] \in AfterHset

\* Reuse detection, or a logout everywhere, has deleted session s.
RevokedByReuse(s) ==
  \E q \in Requests : target[q] = s /\ pc[q] \in ReuseSteps \ {"reuse_del"}

RevokedByLogout(s) ==
  \E q \in Requests : pc[q] \in AllSteps /\ s \in listed[q] \ todo[q]

\* A family revoked for reuse, or a session a logout everywhere has deleted,
\* is never again one that rotate_refresh_token accepts, whatever rotations
\* were under way when its key was deleted: their HSET may bring the key back,
\* but not the fields of the login (refresh.py 269-276, 306-313).
RevokedIsUnusable ==
  \A s \in Requests : RevokedByReuse(s) \/ RevokedByLogout(s) => ~Usable(s)

\* A usable session is in its user's user_sessions set, so that a logout
\* everywhere will find it, unless it logged in after the SMEMBERS and before
\* the DEL of a logout everywhere of that user (session.py 119-139,
\* logout.py 175-178): nothing else loses it.
OnlyLogoutRaceUnlists ==
  \A s \in Requests :
    Usable(s) /\ s \notin members[session[s].login.user] =>
      \E r \in Requests :
        /\ pc[r] \in {"all_audit", "all_done"}
        /\ owner[r] = session[s].login.user
        /\ s \notin listed[r]

\* Redis keeps a usable session until its absolute expiry, less at most the
\* second that EXPIRE rounds off, however late the EXPIRE of a rotation runs
\* and whoever else rotates (session.py 134, refresh.py 318-319).
UsableLastsUntilAbsolute ==
  \A s \in Requests : Usable(s) =>
    /\ session[s].expireAt # None
    /\ session[s].expireAt + TicksPerSecond > session[s].login.absolute

\* With an idle TTL within the absolute one, no order of the HSETs of
\* overlapping rotations sets an idle expiry past the absolute expiry
\* (session.py 113-116, refresh.py 297).
IdleWithinAbsolute ==
  IdleTtl <= AbsoluteTtl =>
    \A s \in Requests : Usable(s) => session[s].idle <= session[s].login.absolute

\* A rotation that reads the session after another one replaced the secret it
\* presents does not get to write: replay is refused, and only a rotation
\* already past its HGETALL can still succeed (refresh.py 283-294).
ReplayRefused ==
  [][\A r \in Requests :
       pc[r] = "rot_read" /\ pc'[r] = "rot_hset" =>
         ~Retired(target[r], presented[r])]_vars

----------------------------------------------------------------------------
(* Why they hold *)

\* What session s was opened with, as its login request still remembers it.
OpenedWith(s) == [user |-> owner[s], created |-> moment[s],
                  absolute |-> moment[s] + AbsoluteTtl]

TokenSteps == BeforeHset \cup AfterHset \cup ReuseSteps \cup LogoutSteps

\* A request that goes past its first step has the arguments it needs, and a
\* secret it presents was returned by a call that has ended.
ArgumentsGiven ==
  \A r \in Requests :
    /\ moment[r] <= clock
    /\ pc[r] \in LoginSteps \cup AllSteps => owner[r] \in Users
    /\ pc[r] \in TokenSteps =>
         /\ target[r] \in Requests
         /\ presented[r] # None
         /\ presented[r] # Forged =>
              pc[presented[r]] \in {"login_done", "rot_done"}

\* Only a login makes a session usable, once, and nothing alters its fields.
UsableAsOpened ==
  \A s \in Requests :
    Usable(s) => pc[s] = "login_done" /\ session[s].login = OpenedWith(s)

\* What a rotation remembers of the hash is still true of its session.
SeenAsOpened ==
  \A r \in Requests :
    pc[r] \in {"rot_hset"} \cup AfterHset \cup ReuseSteps =>
      /\ pc[target[r]] = "login_done"
      /\ seen[r] = OpenedWith(target[r])
      /\ moment[r] < seen[r].absolute

\* user_sessions, and every copy of it, holds sessions that have been opened.
ListedAsOpened ==
  /\ \A u \in Users : \A s \in members[u] : pc[s] = "login_done" /\ owner[s] = u
  /\ \A r \in Requests :
       /\ todo[r] \subseteq listed[r]
       /\ \A s \in listed[r] : pc[s] = "login_done"
       /\ pc[r] \notin AllSteps \/ pc[r] = "all_members" => listed[r] = {}
       /\ pc[r] \in {"all_audit", "all_done"} => todo[r] = {}

\* A secret that a rotation replaced is not what a usable session stores.
RetiredNotStored ==
  \A s \in Requests :
    Usable(s) => ~Retired(s, session[s].secret)

\* The inductive invariant: it holds initially, every step preserves it, and
\* each safety property above follows from it.
IInv ==
  /\ TypeOK
  /\ ArgumentsGiven
  /\ UsableAsOpened
  /\ SeenAsOpened
  /\ ListedAsOpened
  /\ RevokedIsUnusable
  /\ OnlyLogoutRaceUnlists
  /\ UsableLastsUntilAbsolute
  /\ IdleWithinAbsolute
  /\ RetiredNotStored

----------------------------------------------------------------------------

(* The life of a session, as SessionLifecycle describes it *)

Phase ==
  [s \in Requests |-> IF pc[s] # "login_done" THEN "none"
                      ELSE IF Usable(s) THEN "live" ELSE "dead"]

LiveTerms == [s \in Requests |-> IF Usable(s) THEN session[s].login ELSE None]

LiveSecret == [s \in Requests |-> IF Usable(s) THEN session[s].secret ELSE None]

Stored == {q \in Requests : pc[q] = "login_done" \/ pc[q] \in AfterHset}

Lifecycle == INSTANCE SessionLifecycle WITH
  Sessions <- Requests, Secrets <- Requests, Terms <- LoginFields,
  phase <- Phase, terms <- LiveTerms, current <- LiveSecret, spent <- Stored

\* Login, rotation, reuse detection, logout and expiry, interleaved in any
\* way, implement SessionLifecycle: sessions never come back to life, their
\* user, creation and absolute expiry never change, no old secret returns.
ImplementsLifecycle == Lifecycle!Spec

----------------------------------------------------------------------------

Ended == {"refused", "login_done", "rot_lost", "rot_rejected", "rot_done",
          "reuse_done", "cur_wrongtype", "all_done"}

\* Whatever other requests and the clock do, a call whose Redis and database
\* operations return comes to an end.
CallsReturn ==
  \A r \in Reliable : (pc[r] # "idle") ~> (pc[r] \in Ended)

\* A rotation that finds a foreign secret ends with the family unusable for
\* good and the reuse in the audit log (refresh.py 283-294).
ReuseIsAudited ==
  \A r \in Reliable :
    (pc[r] = "reuse_del") ~> [](pc[r] = "reuse_done" /\ ~Usable(target[r]))

----------------------------------------------------------------------------
(* What the repository says and the code does not do *)

\* "prove that only one old token can succeed": at most one rotation
\* succeeds for a given secret of a session (docs/architecture/02-admin-auth.md
\* 474, refresh.py 303-305).
OneMintPerSecret ==
  \A q, r \in Requests :
    pc[q] = "rot_done" /\ pc[r] = "rot_done" /\ target[q] = target[r]
      /\ presented[q] = presented[r] => q = r

\* After a reuse has deleted the session no token is issued for it any more
\* (docs/architecture/02-admin-auth.md 268).
NoMintAfterRevocation ==
  [][\A r \in Requests :
       pc[r] = "rot_mint" /\ pc'[r] = "rot_done" =>
         ~RevokedByReuse(target[r])]_vars

\* "Revoke every refresh session for user_id": when a logout everywhere drops
\* the user_sessions set no session in it is alive (logout.py 171).
LogoutAllLeavesNone ==
  [][\A r \in Requests :
       pc[r] = "all_del" /\ pc'[r] = "all_audit" =>
         \A s \in members[owner[r]] : ~Usable(s)]_vars

\* "Revoke the refresh session identified by opaque_token": a logout that
\* presents the stored secret revokes the session (logout.py 127).
LogoutRevokes ==
  [][\A r \in Requests :
       pc[r] = "cur_get" /\ pc'[r] # "cur_get" /\ Usable(target[r])
         /\ session[target[r]].secret = presented[r] =>
           ~Usable(target[r])']_vars
=============================================================================

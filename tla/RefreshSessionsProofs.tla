----------------------- MODULE RefreshSessionsProofs -----------------------
(***************************************************************************)
(* Proofs about RefreshSessions, for any number of requests and users and  *)
(* any TTLs.                                                               *)
(***************************************************************************)
EXTENDS RefreshSessions, TLAPS

USE RequestsAssumption, TtlAssumption, NoneAssumption

----------------------------------------------------------------------------

\* What EXPIRE is given is a number of whole seconds, at least one, that
\* reaches the absolute expiry but for a fraction of a second.
LEMMA RemainingBounds ==
  ASSUME NEW until \in Nat, NEW from \in Nat, from < until
  PROVE  /\ RemainingAbsolute(until, from) \in Nat
         /\ from + RemainingAbsolute(until, from) + TicksPerSecond > until
<1> DEFINE d == until - from
           whole == d \div TicksPerSecond
<1>1. d \in Nat
  OBVIOUS
<1>2. whole \in Nat /\ TicksPerSecond * whole + TicksPerSecond > d
  BY <1>1, SMT
<1> QED BY <1>1, <1>2, SMT DEF RemainingAbsolute

\* A fresh system satisfies the inductive invariant.
LEMMA InitIInv == Init => IInv
<1> SUFFICES ASSUME Init PROVE IInv
  OBVIOUS
<1>1. TypeOK
  BY DEF Init, TypeOK, Labels
<1>2. \A s \in Requests : ~Usable(s)
  BY DEF Init, Usable
<1>3. \A r \in Requests : pc[r] = "idle" /\ listed[r] = {} /\ todo[r] = {} /\ moment[r] = 0
  BY DEF Init
<1>4. ArgumentsGiven /\ SeenAsOpened
  BY <1>3 DEF Init, ArgumentsGiven, SeenAsOpened, TokenSteps, LoginSteps, AllSteps,
     BeforeHset, AfterHset, ReuseSteps, LogoutSteps
<1>5. ListedAsOpened
  BY <1>3 DEF Init, ListedAsOpened
<1> QED BY <1>1, <1>2, <1>4, <1>5 DEF IInv, UsableAsOpened, RevokedIsUnusable,
     OnlyLogoutRaceUnlists, UsableLastsUntilAbsolute, IdleWithinAbsolute, RetiredNotStored

\* A rotation that has accepted the hash remembers well-formed login fields.
LEMMA SeenWellFormed ==
  ASSUME TypeOK, ArgumentsGiven, SeenAsOpened, NEW r \in Requests,
         pc[r] \in {"rot_hset"} \cup AfterHset \cup ReuseSteps
  PROVE  /\ target[r] \in Requests
         /\ seen[r] \in LoginFields
         /\ seen[r].user \in Users
         /\ seen[r].created \in Nat
         /\ seen[r].absolute \in Nat
         /\ moment[r] \in Nat
         /\ moment[r] < seen[r].absolute
<1>1. target[r] \in Requests
  BY DEF ArgumentsGiven, TokenSteps, BeforeHset
<1>2. seen[r] = OpenedWith(target[r]) /\ moment[r] < seen[r].absolute
  BY DEF SeenAsOpened
<1>3. seen[r] # None
  BY <1>1, <1>2, NoneAssumption DEF TypeOK, ArgumentsGiven, SeenAsOpened, OpenedWith, LoginSteps, LoginFields
<1>4. seen[r] \in LoginFields
  BY <1>3 DEF TypeOK
<1> QED BY <1>1, <1>2, <1>4 DEF TypeOK, LoginFields

\* Every step keeps the variables in their types.
LEMMA TypeStep ==
  ASSUME TypeOK, ArgumentsGiven, SeenAsOpened, [Next]_vars
  PROVE  TypeOK'
<1> USE DEF TypeOK, Labels, Goto
<1>1. CASE UNCHANGED vars
  BY <1>1 DEF vars, redis, database, args, locals
<1>2. ASSUME NEW r \in Requests, NEW u \in Users, LoginStart(r, u) PROVE TypeOK'
  BY <1>2 DEF LoginStart, redis, database, args, locals, LoginSteps
<1>3. ASSUME NEW r \in Requests, LoginPipe(r) PROVE TypeOK'
  <2>1. owner[r] \in Users /\ moment[r] \in Nat
    BY <1>3 DEF LoginPipe, ArgumentsGiven, LoginSteps
  <2>2. session' \in [Requests -> SessionHash \cup {None}]
    BY <2>1, <1>3 DEF LoginPipe, SessionHash, LoginFields
  <2>3. members' \in [Users -> SUBSET Requests]
    BY <1>3 DEF LoginPipe
  <2> QED BY <2>2, <2>3, <1>3 DEF LoginPipe, database, args, locals, LoginSteps
<1>4. ASSUME NEW r \in Requests, NEW s \in Requests, NEW x \in Requests \cup {Forged}, RotateStart(r, s, x) PROVE TypeOK'
  BY <1>4 DEF RotateStart, redis, database, args, locals, BeforeHset
<1>5. ASSUME NEW r \in Requests, RotateExists(r) PROVE TypeOK'
  BY <1>5 DEF RotateExists, redis, database, args, locals, BeforeHset
<1>6. ASSUME NEW r \in Requests, RotateReadRefused(r) PROVE TypeOK'
  BY <1>6 DEF RotateReadRefused, redis, database, args, locals
<1>7. ASSUME NEW r \in Requests, RotateReadMismatch(r) PROVE TypeOK'
  <2>1. target[r] \in Requests
    BY <1>7 DEF RotateReadMismatch, ArgumentsGiven, TokenSteps, BeforeHset
  <2>2. session[target[r]].login \in LoginFields
    BY <2>1, <1>7 DEF RotateReadMismatch, Accepts, Usable, SessionHash
  <2> QED BY <2>2, <1>7 DEF RotateReadMismatch, redis, database, args, ReuseSteps
<1>8. ASSUME NEW r \in Requests, RotateReadMatch(r) PROVE TypeOK'
  <2>1. target[r] \in Requests
    BY <1>8 DEF RotateReadMatch, ArgumentsGiven, TokenSteps, BeforeHset
  <2>2. session[target[r]].login \in LoginFields
    BY <2>1, <1>8 DEF RotateReadMatch, Accepts, Usable, SessionHash
  <2> QED BY <2>2, <1>8 DEF RotateReadMatch, redis, database, args, BeforeHset
<1>9. ASSUME NEW r \in Requests, RotateHset(r) PROVE TypeOK'
  <2>1. NextIdle(r) \in Nat
    BY <1>9, SeenWellFormed DEF RotateHset, NextIdle
  <2>2. target[r] \in Requests
    BY <1>9, SeenWellFormed DEF RotateHset
  <2>3. CASE session[target[r]] = None
    BY <2>1, <2>2, <2>3, <1>9 DEF RotateHset, SessionHash, database, args, locals, AfterHset
  <2>4. CASE session[target[r]] # None
    <3>1. session[target[r]] \in SessionHash
      BY <2>2, <2>4
    <3>2. [session[target[r]] EXCEPT !.secret = r, !.idle = NextIdle(r)] \in SessionHash
      BY <2>1, <3>1 DEF SessionHash
    <3> QED BY <2>2, <2>4, <3>2, <1>9 DEF RotateHset, database, args, locals, AfterHset
  <2> QED BY <2>3, <2>4
<1>10. ASSUME NEW r \in Requests, RotateConfirm(r) PROVE TypeOK'
  BY <1>10 DEF RotateConfirm, redis, database, args, locals, AfterHset
<1>11. ASSUME NEW r \in Requests, RotateExpire(r) PROVE TypeOK'
  <2>1. RemainingAbsolute(seen[r].absolute, moment[r]) \in Nat
    BY <1>11, RemainingBounds, SeenWellFormed DEF RotateExpire, AfterHset
  <2>2. session' \in [Requests -> SessionHash \cup {None}]
    BY <2>1, <1>11, SeenWellFormed DEF RotateExpire, SessionHash, AfterHset
  <2> QED BY <2>2, <1>11 DEF RotateExpire, database, args, locals, AfterHset
<1>12. ASSUME NEW r \in Requests, RotateLoadUser(r) PROVE TypeOK'
  BY <1>12 DEF RotateLoadUser, redis, database, args, locals, AfterHset
<1>13. ASSUME NEW r \in Requests, RotateMint(r) PROVE TypeOK'
  BY <1>13 DEF RotateMint, redis, database, args, locals, AfterHset
<1>14. ASSUME NEW r \in Requests, ReuseDel(r) PROVE TypeOK'
  BY <1>14 DEF ReuseDel, redis, database, args, locals, ReuseSteps
<1>15. ASSUME NEW r \in Requests, ReuseSrem(r) PROVE TypeOK'
  BY <1>15 DEF ReuseSrem, redis, database, args, locals, ReuseSteps
<1>16. ASSUME NEW r \in Requests, ReuseAudit(r) PROVE TypeOK'
  BY <1>16 DEF ReuseAudit, redis, database, args, locals, ReuseSteps
<1>17. ASSUME NEW r \in Requests, NEW s \in Requests, NEW x \in Requests \cup {Forged}, CurrentStart(r, s, x) PROVE TypeOK'
  BY <1>17 DEF CurrentStart, redis, database, args, locals, LogoutSteps
<1>18. ASSUME NEW r \in Requests, CurrentGet(r) PROVE TypeOK'
  BY <1>18 DEF CurrentGet, redis, database, args, locals, LogoutSteps
<1>19. ASSUME NEW r \in Requests, NEW u \in Users, AllStart(r, u) PROVE TypeOK'
  BY <1>19 DEF AllStart, redis, database, args, locals, AllSteps
<1>20. ASSUME NEW r \in Requests, AllMembers(r) PROVE TypeOK'
  BY <1>20 DEF AllMembers, redis, database, args, locals, ArgumentsGiven, AllSteps
<1>21. ASSUME NEW r \in Requests, NEW s \in Requests, AllDel(r, s) PROVE TypeOK'
  BY <1>21 DEF AllDel, redis, database, args, locals
<1>22. ASSUME NEW r \in Requests, AllDelSet(r) PROVE TypeOK'
  BY <1>22 DEF AllDelSet, redis, database, args, locals, AllSteps
<1>23. ASSUME NEW r \in Requests, AllAudit(r) PROVE TypeOK'
  BY <1>23 DEF AllAudit, redis, database, args, locals, AllSteps
<1>24. ASSUME Tick PROVE TypeOK'
  BY <1>24 DEF Tick, redis, database, args, locals
<1>25. ASSUME NEW u \in Users, ChangePassword(u) PROVE TypeOK'
  BY <1>25 DEF ChangePassword, redis, database, args, locals
<1>26. ASSUME NEW u \in Users, SetStatus(u) PROVE TypeOK'
  BY <1>26 DEF SetStatus, redis, database, args, locals
<1> QED BY <1>1, <1>2, <1>3, <1>4, <1>5, <1>6, <1>7, <1>8, <1>9, <1>10, <1>11, <1>12, <1>13, <1>14, <1>15, <1>16, <1>17, <1>18, <1>19, <1>20, <1>21, <1>22, <1>23, <1>24, <1>25, <1>26 DEF Next, Start, Step, RotateStep, ReuseStep, AllStep, Environment

----------------------------------------------------------------------------
(* Every step preserves the inductive invariant, conjunct by conjunct *)

\* The steps that change nothing but where their request stands.
QuietStep(r) ==
  \/ RotateExists(r)
  \/ RotateReadRefused(r)
  \/ RotateConfirm(r)
  \/ RotateLoadUser(r)
  \/ RotateMint(r)
  \/ ReuseAudit(r)
  \/ CurrentGet(r)
  \/ AllAudit(r)

\* A started request keeps its arguments, and what it presents stays issued.
LEMMA ArgumentsStep ==
  ASSUME IInv, [Next]_vars
  PROVE  ArgumentsGiven'
<1> USE DEF IInv, TypeOK, Goto, redis, database, args, locals, LoginSteps, BeforeHset,
            AfterHset, ReuseSteps, LogoutSteps, AllSteps, ArgumentsGiven,
            TokenSteps, Issued
<1>1. ASSUME UNCHANGED <<clock, redis, pc, args, locals>>
      PROVE  ArgumentsGiven'
  BY <1>1
<1>2. ASSUME NEW r \in Requests,
             \/ QuietStep(r)
             \/ RotateReadMismatch(r)
             \/ RotateReadMatch(r)
             \/ RotateHset(r)
             \/ RotateExpire(r)
             \/ ReuseDel(r)
             \/ ReuseSrem(r)
             \/ AllMembers(r)
             \/ \E s \in Requests : AllDel(r, s)
             \/ AllDelSet(r)
      PROVE  ArgumentsGiven'
  BY <1>2 DEF QuietStep, RotateExists, RotateReadRefused, RotateConfirm, RotateLoadUser,
            RotateMint, ReuseAudit, CurrentGet, AllAudit, RotateReadMismatch,
            RotateReadMatch, RotateHset, RotateExpire, ReuseDel, ReuseSrem,
            AllMembers, AllDel, AllDelSet
<1>3. ASSUME NEW r \in Requests, NEW u \in Users, LoginStart(r, u)
      PROVE  ArgumentsGiven'
  BY <1>3 DEF LoginStart
<1>4. ASSUME NEW r \in Requests, NEW s \in Requests, NEW x \in Requests \cup {Forged}, RotateStart(r, s, x)
      PROVE  ArgumentsGiven'
  BY <1>4 DEF RotateStart
<1>5. ASSUME NEW r \in Requests, NEW s \in Requests, NEW x \in Requests \cup {Forged}, CurrentStart(r, s, x)
      PROVE  ArgumentsGiven'
  BY <1>5 DEF CurrentStart
<1>6. ASSUME NEW r \in Requests, NEW u \in Users, AllStart(r, u)
      PROVE  ArgumentsGiven'
  BY <1>6 DEF AllStart
<1>7. ASSUME NEW r \in Requests, LoginPipe(r)
      PROVE  ArgumentsGiven'
  BY <1>7 DEF LoginPipe
<1>8. ASSUME Tick
      PROVE  ArgumentsGiven'
  BY <1>8 DEF Tick
<1> QED BY <1>1, <1>2, <1>3, <1>4, <1>5, <1>6, <1>7, <1>8
        DEF Next, Start, Step, RotateStep, ReuseStep, AllStep, Environment,
            ChangePassword, SetStatus, QuietStep, vars

\* Nothing but its login makes a session usable or alters what it was opened with.
LEMMA UsableStep ==
  ASSUME IInv, [Next]_vars
  PROVE  UsableAsOpened'
<1> USE DEF IInv, TypeOK, Goto, redis, database, args, locals, LoginSteps, BeforeHset,
            AfterHset, ReuseSteps, LogoutSteps, AllSteps, UsableAsOpened,
            Usable, OpenedWith, Expired
<1>1. ASSUME UNCHANGED <<clock, redis, pc, args, locals>>
      PROVE  UsableAsOpened'
  BY <1>1
<1>2. ASSUME NEW r \in Requests,
             \/ QuietStep(r)
             \/ RotateReadMismatch(r)
             \/ RotateReadMatch(r)
             \/ ReuseSrem(r)
             \/ AllMembers(r)
             \/ AllDelSet(r)
      PROVE  UsableAsOpened'
  BY <1>2 DEF QuietStep, RotateExists, RotateReadRefused, RotateConfirm, RotateLoadUser,
            RotateMint, ReuseAudit, CurrentGet, AllAudit, RotateReadMismatch,
            RotateReadMatch, ReuseSrem, AllMembers, AllDelSet
<1>3. ASSUME NEW r \in Requests, NEW u \in Users, LoginStart(r, u)
      PROVE  UsableAsOpened'
  BY <1>3 DEF LoginStart
<1>4. ASSUME NEW r \in Requests, NEW s \in Requests, NEW x \in Requests \cup {Forged}, RotateStart(r, s, x)
      PROVE  UsableAsOpened'
  BY <1>4 DEF RotateStart
<1>5. ASSUME NEW r \in Requests, NEW s \in Requests, NEW x \in Requests \cup {Forged}, CurrentStart(r, s, x)
      PROVE  UsableAsOpened'
  BY <1>5 DEF CurrentStart
<1>6. ASSUME NEW r \in Requests, NEW u \in Users, AllStart(r, u)
      PROVE  UsableAsOpened'
  BY <1>6 DEF AllStart
<1>7. ASSUME NEW r \in Requests, LoginPipe(r)
      PROVE  UsableAsOpened'
  BY <1>7 DEF LoginPipe
<1>8. ASSUME NEW r \in Requests, RotateHset(r)
      PROVE  UsableAsOpened'
  BY <1>8 DEF RotateHset
<1>9. ASSUME NEW r \in Requests, RotateExpire(r)
      PROVE  UsableAsOpened'
  BY <1>9 DEF RotateExpire
<1>10. ASSUME NEW r \in Requests, ReuseDel(r)
      PROVE  UsableAsOpened'
  BY <1>10 DEF ReuseDel
<1>11. ASSUME NEW r \in Requests, NEW s \in Requests, AllDel(r, s)
      PROVE  UsableAsOpened'
  BY <1>11 DEF AllDel
<1>12. ASSUME Tick
      PROVE  UsableAsOpened'
  BY <1>12 DEF Tick
<1> QED BY <1>1, <1>2, <1>3, <1>4, <1>5, <1>6, <1>7, <1>8, <1>9, <1>10, <1>11, <1>12
        DEF Next, Start, Step, RotateStep, ReuseStep, AllStep, Environment,
            ChangePassword, SetStatus, QuietStep, vars

\* The copy a rotation made of the login fields stays true.
LEMMA SeenStep ==
  ASSUME IInv, [Next]_vars
  PROVE  SeenAsOpened'
<1> USE DEF IInv, TypeOK, Goto, redis, database, args, locals, LoginSteps, BeforeHset,
            AfterHset, ReuseSteps, LogoutSteps, AllSteps, SeenAsOpened,
            UsableAsOpened, ArgumentsGiven, TokenSteps, Accepts, Usable,
            OpenedWith
<1>1. ASSUME UNCHANGED <<clock, redis, pc, args, locals>>
      PROVE  SeenAsOpened'
  BY <1>1
<1>2. ASSUME NEW r \in Requests,
             \/ QuietStep(r)
             \/ RotateHset(r)
             \/ RotateExpire(r)
             \/ ReuseDel(r)
             \/ ReuseSrem(r)
             \/ AllMembers(r)
             \/ \E s \in Requests : AllDel(r, s)
             \/ AllDelSet(r)
      PROVE  SeenAsOpened'
  BY <1>2 DEF QuietStep, RotateExists, RotateReadRefused, RotateConfirm, RotateLoadUser,
            RotateMint, ReuseAudit, CurrentGet, AllAudit, RotateHset,
            RotateExpire, ReuseDel, ReuseSrem, AllMembers, AllDel, AllDelSet
<1>3. ASSUME NEW r \in Requests, NEW u \in Users, LoginStart(r, u)
      PROVE  SeenAsOpened'
  BY <1>3 DEF LoginStart
<1>4. ASSUME NEW r \in Requests, NEW s \in Requests, NEW x \in Requests \cup {Forged}, RotateStart(r, s, x)
      PROVE  SeenAsOpened'
  BY <1>4 DEF RotateStart
<1>5. ASSUME NEW r \in Requests, NEW s \in Requests, NEW x \in Requests \cup {Forged}, CurrentStart(r, s, x)
      PROVE  SeenAsOpened'
  BY <1>5 DEF CurrentStart
<1>6. ASSUME NEW r \in Requests, NEW u \in Users, AllStart(r, u)
      PROVE  SeenAsOpened'
  BY <1>6 DEF AllStart
<1>7. ASSUME NEW r \in Requests, LoginPipe(r)
      PROVE  SeenAsOpened'
  BY <1>7 DEF LoginPipe
<1>8. ASSUME NEW r \in Requests, RotateReadMismatch(r)
      PROVE  SeenAsOpened'
  BY <1>8 DEF RotateReadMismatch
<1>9. ASSUME NEW r \in Requests, RotateReadMatch(r)
      PROVE  SeenAsOpened'
  BY <1>9 DEF RotateReadMatch
<1>10. ASSUME Tick
      PROVE  SeenAsOpened'
  BY <1>10 DEF Tick
<1> QED BY <1>1, <1>2, <1>3, <1>4, <1>5, <1>6, <1>7, <1>8, <1>9, <1>10
        DEF Next, Start, Step, RotateStep, ReuseStep, AllStep, Environment,
            ChangePassword, SetStatus, QuietStep, vars

\* user_sessions sets and their copies hold opened sessions only.
LEMMA ListedStep ==
  ASSUME IInv, [Next]_vars
  PROVE  ListedAsOpened'
<1> USE DEF IInv, TypeOK, Goto, redis, database, args, locals, LoginSteps, BeforeHset,
            AfterHset, ReuseSteps, LogoutSteps, AllSteps, ListedAsOpened,
            ArgumentsGiven
<1>1. ASSUME UNCHANGED <<clock, redis, pc, args, locals>>
      PROVE  ListedAsOpened'
  BY <1>1
<1>2. ASSUME NEW r \in Requests,
             \/ QuietStep(r)
             \/ RotateReadMismatch(r)
             \/ RotateReadMatch(r)
             \/ RotateHset(r)
             \/ RotateExpire(r)
             \/ ReuseDel(r)
      PROVE  ListedAsOpened'
  BY <1>2 DEF QuietStep, RotateExists, RotateReadRefused, RotateConfirm, RotateLoadUser,
            RotateMint, ReuseAudit, CurrentGet, AllAudit, RotateReadMismatch,
            RotateReadMatch, RotateHset, RotateExpire, ReuseDel
<1>3. ASSUME NEW r \in Requests, NEW u \in Users, LoginStart(r, u)
      PROVE  ListedAsOpened'
  BY <1>3 DEF LoginStart
<1>4. ASSUME NEW r \in Requests, NEW s \in Requests, NEW x \in Requests \cup {Forged}, RotateStart(r, s, x)
      PROVE  ListedAsOpened'
  BY <1>4 DEF RotateStart
<1>5. ASSUME NEW r \in Requests, NEW s \in Requests, NEW x \in Requests \cup {Forged}, CurrentStart(r, s, x)
      PROVE  ListedAsOpened'
  BY <1>5 DEF CurrentStart
<1>6. ASSUME NEW r \in Requests, NEW u \in Users, AllStart(r, u)
      PROVE  ListedAsOpened'
  BY <1>6 DEF AllStart
<1>7. ASSUME NEW r \in Requests, LoginPipe(r)
      PROVE  ListedAsOpened'
  BY <1>7 DEF LoginPipe
<1>8. ASSUME NEW r \in Requests, ReuseSrem(r)
      PROVE  ListedAsOpened'
  BY <1>8 DEF ReuseSrem
<1>9. ASSUME NEW r \in Requests, AllMembers(r)
      PROVE  ListedAsOpened'
  BY <1>9 DEF AllMembers
<1>10. ASSUME NEW r \in Requests, NEW s \in Requests, AllDel(r, s)
      PROVE  ListedAsOpened'
  BY <1>10 DEF AllDel
<1>11. ASSUME NEW r \in Requests, AllDelSet(r)
      PROVE  ListedAsOpened'
  BY <1>11 DEF AllDelSet
<1>12. ASSUME Tick
      PROVE  ListedAsOpened'
  BY <1>12 DEF Tick
<1> QED BY <1>1, <1>2, <1>3, <1>4, <1>5, <1>6, <1>7, <1>8, <1>9, <1>10, <1>11, <1>12
        DEF Next, Start, Step, RotateStep, ReuseStep, AllStep, Environment,
            ChangePassword, SetStatus, QuietStep, vars

\* A deleted session stays unusable.
LEMMA RevokedStep ==
  ASSUME IInv, [Next]_vars
  PROVE  RevokedIsUnusable'
<1> USE DEF IInv, TypeOK, Goto, redis, database, args, locals, LoginSteps, BeforeHset,
            AfterHset, ReuseSteps, LogoutSteps, AllSteps, RevokedIsUnusable,
            RevokedByReuse, RevokedByLogout, UsableAsOpened, SeenAsOpened,
            ListedAsOpened, ArgumentsGiven, TokenSteps, Usable, Expired
<1>1. ASSUME UNCHANGED <<clock, redis, pc, args, locals>>
      PROVE  RevokedIsUnusable'
  BY <1>1
<1>2. ASSUME NEW r \in Requests,
             \/ QuietStep(r)
             \/ RotateReadMismatch(r)
             \/ RotateReadMatch(r)
             \/ ReuseSrem(r)
             \/ AllDelSet(r)
      PROVE  RevokedIsUnusable'
  BY <1>2 DEF QuietStep, RotateExists, RotateReadRefused, RotateConfirm, RotateLoadUser,
            RotateMint, ReuseAudit, CurrentGet, AllAudit, RotateReadMismatch,
            RotateReadMatch, ReuseSrem, AllDelSet
<1>3. ASSUME NEW r \in Requests, NEW u \in Users, LoginStart(r, u)
      PROVE  RevokedIsUnusable'
  BY <1>3 DEF LoginStart
<1>4. ASSUME NEW r \in Requests, NEW s \in Requests, NEW x \in Requests \cup {Forged}, RotateStart(r, s, x)
      PROVE  RevokedIsUnusable'
  BY SMTT(30), <1>4 DEF RotateStart
<1>5. ASSUME NEW r \in Requests, NEW s \in Requests, NEW x \in Requests \cup {Forged}, CurrentStart(r, s, x)
      PROVE  RevokedIsUnusable'
  BY SMTT(30), <1>5 DEF CurrentStart
<1>6. ASSUME NEW r \in Requests, NEW u \in Users, AllStart(r, u)
      PROVE  RevokedIsUnusable'
  BY <1>6 DEF AllStart
<1>7. ASSUME NEW r \in Requests, LoginPipe(r)
      PROVE  RevokedIsUnusable'
  BY <1>7 DEF LoginPipe
<1>8. ASSUME NEW r \in Requests, RotateHset(r)
      PROVE  RevokedIsUnusable'
  BY <1>8 DEF RotateHset
<1>9. ASSUME NEW r \in Requests, RotateExpire(r)
      PROVE  RevokedIsUnusable'
  BY <1>9 DEF RotateExpire
<1>10. ASSUME NEW r \in Requests, ReuseDel(r)
      PROVE  RevokedIsUnusable'
  BY <1>10 DEF ReuseDel
<1>11. ASSUME NEW r \in Requests, NEW s \in Requests, AllDel(r, s)
      PROVE  RevokedIsUnusable'
  BY <1>11 DEF AllDel
<1>12. ASSUME Tick
      PROVE  RevokedIsUnusable'
  BY <1>12 DEF Tick
<1>13. ASSUME NEW r \in Requests, AllMembers(r)
      PROVE  RevokedIsUnusable'
  BY <1>13 DEF AllMembers
<1> QED BY <1>1, <1>2, <1>3, <1>4, <1>5, <1>6, <1>7, <1>8, <1>9, <1>10, <1>11, <1>12,
           <1>13
        DEF Next, Start, Step, RotateStep, ReuseStep, AllStep, Environment,
            ChangePassword, SetStatus, QuietStep, vars

\* Only a logout everywhere drops a usable session from its set.
LEMMA UnlistedStep ==
  ASSUME IInv, [Next]_vars
  PROVE  OnlyLogoutRaceUnlists'
<1> USE DEF IInv, TypeOK, Goto, redis, database, args, locals, LoginSteps, BeforeHset,
            AfterHset, ReuseSteps, LogoutSteps, AllSteps,
            OnlyLogoutRaceUnlists, RevokedIsUnusable, RevokedByReuse,
            RevokedByLogout, UsableAsOpened, SeenAsOpened, ListedAsOpened,
            ArgumentsGiven, TokenSteps, Usable, OpenedWith, Expired
<1>1. ASSUME UNCHANGED <<clock, redis, pc, args, locals>>
      PROVE  OnlyLogoutRaceUnlists'
  BY <1>1
<1>2. ASSUME NEW r \in Requests,
             \/ QuietStep(r)
      PROVE  OnlyLogoutRaceUnlists'
  BY SMTT(30), <1>2 DEF QuietStep, RotateExists, RotateReadRefused, RotateConfirm, RotateLoadUser,
            RotateMint, ReuseAudit, CurrentGet, AllAudit
<1>3. ASSUME NEW r \in Requests, RotateReadMismatch(r)
      PROVE  OnlyLogoutRaceUnlists'
  BY <1>3 DEF RotateReadMismatch
<1>4. ASSUME NEW r \in Requests, RotateReadMatch(r)
      PROVE  OnlyLogoutRaceUnlists'
  BY <1>4 DEF RotateReadMatch
<1>5. ASSUME NEW r \in Requests, NEW u \in Users, LoginStart(r, u)
      PROVE  OnlyLogoutRaceUnlists'
  BY <1>5 DEF LoginStart
<1>6. ASSUME NEW r \in Requests, NEW s \in Requests, NEW x \in Requests \cup {Forged}, RotateStart(r, s, x)
      PROVE  OnlyLogoutRaceUnlists'
  BY <1>6 DEF RotateStart
<1>7. ASSUME NEW r \in Requests, NEW s \in Requests, NEW x \in Requests \cup {Forged}, CurrentStart(r, s, x)
      PROVE  OnlyLogoutRaceUnlists'
  BY <1>7 DEF CurrentStart
<1>8. ASSUME NEW r \in Requests, NEW u \in Users, AllStart(r, u)
      PROVE  OnlyLogoutRaceUnlists'
  BY <1>8 DEF AllStart
<1>9. ASSUME NEW r \in Requests, LoginPipe(r)
      PROVE  OnlyLogoutRaceUnlists'
  BY SMTT(30), <1>9 DEF LoginPipe
<1>10. ASSUME NEW r \in Requests, RotateHset(r)
      PROVE  OnlyLogoutRaceUnlists'
  BY SMTT(30), <1>10 DEF RotateHset
<1>11. ASSUME NEW r \in Requests, RotateExpire(r)
      PROVE  OnlyLogoutRaceUnlists'
  BY SMTT(30), <1>11 DEF RotateExpire
<1>12. ASSUME NEW r \in Requests, ReuseDel(r)
      PROVE  OnlyLogoutRaceUnlists'
  BY <1>12 DEF ReuseDel
<1>13. ASSUME NEW r \in Requests, NEW s \in Requests, AllDel(r, s)
      PROVE  OnlyLogoutRaceUnlists'
  BY <1>13 DEF AllDel
<1>14. ASSUME Tick
      PROVE  OnlyLogoutRaceUnlists'
  BY <1>14 DEF Tick
<1>15. ASSUME NEW r \in Requests, ReuseSrem(r)
      PROVE  OnlyLogoutRaceUnlists'
  BY <1>15 DEF ReuseSrem
<1>16. ASSUME NEW r \in Requests, AllMembers(r)
      PROVE  OnlyLogoutRaceUnlists'
  BY <1>16 DEF AllMembers
<1>17. ASSUME NEW r \in Requests, AllDelSet(r)
      PROVE  OnlyLogoutRaceUnlists'
  BY <1>17 DEF AllDelSet
<1> QED BY <1>1, <1>2, <1>3, <1>4, <1>5, <1>6, <1>7, <1>8, <1>9, <1>10, <1>11, <1>12,
           <1>13, <1>14, <1>15, <1>16, <1>17
        DEF Next, Start, Step, RotateStep, ReuseStep, AllStep, Environment,
            ChangePassword, SetStatus, QuietStep, vars

\* No step gives a usable session a Redis expiry that ends it early.
LEMMA LastsStep ==
  ASSUME IInv, [Next]_vars
  PROVE  UsableLastsUntilAbsolute'
<1> USE DEF IInv, TypeOK, Goto, redis, database, args, locals, LoginSteps, BeforeHset,
            AfterHset, ReuseSteps, LogoutSteps, AllSteps,
            UsableLastsUntilAbsolute, UsableAsOpened, SeenAsOpened,
            ArgumentsGiven, TokenSteps, Usable, OpenedWith, Expired
<1>1. ASSUME UNCHANGED <<clock, redis, pc, args, locals>>
      PROVE  UsableLastsUntilAbsolute'
  BY <1>1
<1>2. ASSUME NEW r \in Requests,
             \/ QuietStep(r)
             \/ \E u \in Users : LoginStart(r, u)
             \/ \E s \in Requests, x \in Requests \cup {Forged} : RotateStart(r, s, x)
             \/ RotateReadMismatch(r)
             \/ RotateReadMatch(r)
             \/ ReuseSrem(r)
             \/ \E s \in Requests, x \in Requests \cup {Forged} : CurrentStart(r, s, x)
             \/ \E u \in Users : AllStart(r, u)
             \/ AllMembers(r)
             \/ AllDelSet(r)
      PROVE  UsableLastsUntilAbsolute'
  BY <1>2 DEF QuietStep, RotateExists, RotateReadRefused, RotateConfirm, RotateLoadUser,
            RotateMint, ReuseAudit, CurrentGet, AllAudit, LoginStart,
            RotateStart, RotateReadMismatch, RotateReadMatch, ReuseSrem,
            CurrentStart, AllStart, AllMembers, AllDelSet
<1>3. ASSUME NEW r \in Requests, LoginPipe(r)
      PROVE  UsableLastsUntilAbsolute'
  BY <1>3 DEF LoginPipe
<1>4. ASSUME NEW r \in Requests, RotateHset(r)
      PROVE  UsableLastsUntilAbsolute'
  BY <1>4 DEF RotateHset
<1>5. ASSUME NEW r \in Requests, RotateExpire(r)
      PROVE  UsableLastsUntilAbsolute'
  <2>1. /\ target[r] \in Requests
        /\ moment[r] <= clock
        /\ clock + RemainingAbsolute(seen[r].absolute, moment[r]) \in Nat
        /\ clock + RemainingAbsolute(seen[r].absolute, moment[r]) + TicksPerSecond
             > seen[r].absolute
    BY <1>5, SeenWellFormed, RemainingBounds DEF RotateExpire
  <2>2. Usable(target[r]) => session[target[r]].login = seen[r]
    BY <1>5, <2>1 DEF RotateExpire
  <2> QED BY <1>5, <2>1, <2>2 DEF RotateExpire
<1>6. ASSUME NEW r \in Requests, ReuseDel(r)
      PROVE  UsableLastsUntilAbsolute'
  BY <1>6 DEF ReuseDel
<1>7. ASSUME NEW r \in Requests, NEW s \in Requests, AllDel(r, s)
      PROVE  UsableLastsUntilAbsolute'
  BY <1>7 DEF AllDel
<1>8. ASSUME Tick
      PROVE  UsableLastsUntilAbsolute'
  BY <1>8 DEF Tick
<1> QED BY <1>1, <1>2, <1>3, <1>4, <1>5, <1>6, <1>7, <1>8
        DEF Next, Start, Step, RotateStep, ReuseStep, AllStep, Environment,
            ChangePassword, SetStatus, QuietStep, vars

\* No step sets an idle expiry past the absolute one.
LEMMA IdleStep ==
  ASSUME IInv, [Next]_vars
  PROVE  IdleWithinAbsolute'
<1> USE DEF IInv, TypeOK, Goto, redis, database, args, locals, LoginSteps, BeforeHset,
            AfterHset, ReuseSteps, LogoutSteps, AllSteps, IdleWithinAbsolute,
            UsableAsOpened, SeenAsOpened, ArgumentsGiven, TokenSteps, Usable,
            OpenedWith, Expired, NextIdle
<1>1. ASSUME UNCHANGED <<clock, redis, pc, args, locals>>
      PROVE  IdleWithinAbsolute'
  BY <1>1
<1>2. ASSUME NEW r \in Requests,
             \/ QuietStep(r)
             \/ \E u \in Users : LoginStart(r, u)
             \/ \E s \in Requests, x \in Requests \cup {Forged} : RotateStart(r, s, x)
             \/ RotateReadMismatch(r)
             \/ RotateReadMatch(r)
             \/ ReuseSrem(r)
             \/ \E s \in Requests, x \in Requests \cup {Forged} : CurrentStart(r, s, x)
             \/ \E u \in Users : AllStart(r, u)
             \/ AllMembers(r)
             \/ AllDelSet(r)
      PROVE  IdleWithinAbsolute'
  BY <1>2 DEF QuietStep, RotateExists, RotateReadRefused, RotateConfirm, RotateLoadUser,
            RotateMint, ReuseAudit, CurrentGet, AllAudit, LoginStart,
            RotateStart, RotateReadMismatch, RotateReadMatch, ReuseSrem,
            CurrentStart, AllStart, AllMembers, AllDelSet
<1>3. ASSUME NEW r \in Requests, LoginPipe(r)
      PROVE  IdleWithinAbsolute'
  BY <1>3 DEF LoginPipe
<1>4. ASSUME NEW r \in Requests, RotateHset(r)
      PROVE  IdleWithinAbsolute'
  BY <1>4 DEF RotateHset
<1>5. ASSUME NEW r \in Requests, RotateExpire(r)
      PROVE  IdleWithinAbsolute'
  BY <1>5 DEF RotateExpire
<1>6. ASSUME NEW r \in Requests, ReuseDel(r)
      PROVE  IdleWithinAbsolute'
  BY <1>6 DEF ReuseDel
<1>7. ASSUME NEW r \in Requests, NEW s \in Requests, AllDel(r, s)
      PROVE  IdleWithinAbsolute'
  BY <1>7 DEF AllDel
<1>8. ASSUME Tick
      PROVE  IdleWithinAbsolute'
  BY <1>8 DEF Tick
<1> QED BY <1>1, <1>2, <1>3, <1>4, <1>5, <1>6, <1>7, <1>8
        DEF Next, Start, Step, RotateStep, ReuseStep, AllStep, Environment,
            ChangePassword, SetStatus, QuietStep, vars

\* The secret a step stores is none that a rotation replaced.
LEMMA RetiredStep ==
  ASSUME IInv, [Next]_vars
  PROVE  RetiredNotStored'
<1> USE DEF IInv, TypeOK, Goto, redis, database, args, locals, LoginSteps, BeforeHset,
            AfterHset, ReuseSteps, LogoutSteps, AllSteps, RetiredNotStored,
            Retired, UsableAsOpened, SeenAsOpened, ArgumentsGiven, TokenSteps,
            Usable, OpenedWith, Expired, Accepts
<1>1. ASSUME UNCHANGED <<clock, redis, pc, args, locals>>
      PROVE  RetiredNotStored'
  BY <1>1
<1>2. ASSUME NEW r \in Requests,
             \/ QuietStep(r)
             \/ RotateReadMismatch(r)
             \/ RotateReadMatch(r)
             \/ ReuseSrem(r)
             \/ AllMembers(r)
             \/ AllDelSet(r)
      PROVE  RetiredNotStored'
  BY <1>2 DEF QuietStep, RotateExists, RotateReadRefused, RotateConfirm, RotateLoadUser,
            RotateMint, ReuseAudit, CurrentGet, AllAudit, RotateReadMismatch,
            RotateReadMatch, ReuseSrem, AllMembers, AllDelSet
<1>3. ASSUME NEW r \in Requests, NEW u \in Users, LoginStart(r, u)
      PROVE  RetiredNotStored'
  BY <1>3 DEF LoginStart
<1>4. ASSUME NEW r \in Requests, NEW s \in Requests, NEW x \in Requests \cup {Forged}, RotateStart(r, s, x)
      PROVE  RetiredNotStored'
  BY <1>4 DEF RotateStart
<1>5. ASSUME NEW r \in Requests, NEW s \in Requests, NEW x \in Requests \cup {Forged}, CurrentStart(r, s, x)
      PROVE  RetiredNotStored'
  BY <1>5 DEF CurrentStart
<1>6. ASSUME NEW r \in Requests, NEW u \in Users, AllStart(r, u)
      PROVE  RetiredNotStored'
  BY <1>6 DEF AllStart
<1>7. ASSUME NEW r \in Requests, LoginPipe(r)
      PROVE  RetiredNotStored'
  BY <1>7 DEF LoginPipe
<1>8. ASSUME NEW r \in Requests, RotateHset(r)
      PROVE  RetiredNotStored'
  BY <1>8 DEF RotateHset
<1>9. ASSUME NEW r \in Requests, RotateExpire(r)
      PROVE  RetiredNotStored'
  BY <1>9 DEF RotateExpire
<1>10. ASSUME NEW r \in Requests, ReuseDel(r)
      PROVE  RetiredNotStored'
  BY <1>10 DEF ReuseDel
<1>11. ASSUME NEW r \in Requests, NEW s \in Requests, AllDel(r, s)
      PROVE  RetiredNotStored'
  BY <1>11 DEF AllDel
<1>12. ASSUME Tick
      PROVE  RetiredNotStored'
  BY <1>12 DEF Tick
<1> QED BY <1>1, <1>2, <1>3, <1>4, <1>5, <1>6, <1>7, <1>8, <1>9, <1>10, <1>11, <1>12
        DEF Next, Start, Step, RotateStep, ReuseStep, AllStep, Environment,
            ChangePassword, SetStatus, QuietStep, vars

----------------------------------------------------------------------------
(* The theorems *)

\* In every reachable state the inductive invariant holds.
THEOREM Invariance == Spec => []IInv
<1>1. IInv /\ [Next]_vars => IInv'
  <2> SUFFICES ASSUME IInv, [Next]_vars PROVE IInv'
    OBVIOUS
  <2>1. TypeOK'
    BY TypeStep DEF IInv
  <2> QED BY <2>1, ArgumentsStep, UsableStep, SeenStep, ListedStep, RevokedStep,
             UnlistedStep, LastsStep, IdleStep, RetiredStep DEF IInv
<1> QED BY InitIInv, <1>1, PTL DEF Spec

\* Every variable keeps its type.
THEOREM TypeCorrect == Spec => []TypeOK
<1>1. IInv => TypeOK
  BY DEF IInv
<1> QED BY <1>1, Invariance, PTL

\* Once reuse detection or a logout everywhere has deleted a session's key, no
\* interleaving with rotations, logins or expiry makes the session usable again.
THEOREM RevocationIsFinal == Spec => []RevokedIsUnusable
<1>1. IInv => RevokedIsUnusable
  BY DEF IInv
<1> QED BY <1>1, Invariance, PTL

\* A usable session missing from its user's set logged in during a logout
\* everywhere of that user.
THEOREM IndexIsLostOnlyByRace == Spec => []OnlyLogoutRaceUnlists
<1>1. IInv => OnlyLogoutRaceUnlists
  BY DEF IInv
<1> QED BY <1>1, Invariance, PTL

\* Redis never drops a usable session more than a rounding second early.
THEOREM NoEarlyExpiry == Spec => []UsableLastsUntilAbsolute
<1>1. IInv => UsableLastsUntilAbsolute
  BY DEF IInv
<1> QED BY <1>1, Invariance, PTL

\* The idle expiry never passes the absolute one.
THEOREM IdleIsClipped == Spec => []IdleWithinAbsolute
<1>1. IInv => IdleWithinAbsolute
  BY DEF IInv
<1> QED BY <1>1, Invariance, PTL

\* A rotation that reads the hash after the secret it presents was replaced
\* does not go on to write.
THEOREM ReplaysAreRefused == Spec => ReplayRefused
<1>1. IInv /\ [Next]_vars =>
        [\A r \in Requests :
           pc[r] = "rot_read" /\ pc'[r] = "rot_hset" =>
             ~Retired(target[r], presented[r])]_vars
  <2> SUFFICES ASSUME IInv, Next, NEW q \in Requests,
                      pc[q] = "rot_read", pc'[q] = "rot_hset"
               PROVE  ~Retired(target[q], presented[q])
    BY DEF IInv
  <2>1. RotateReadMatch(q)
    <3> USE DEF Goto, IInv, TypeOK
    <3>1. ~Environment
      BY DEF Environment, Tick, ChangePassword, SetStatus
    <3>2. PICK r \in Requests : Start(r) \/ Step(r)
      BY <3>1 DEF Next
    <3>3. ~Start(r)
      BY DEF Start, LoginStart, RotateStart, CurrentStart, AllStart
    <3>4. ~(LoginPipe(r) \/ ReuseStep(r) \/ CurrentGet(r) \/ AllStep(r))
      BY DEF LoginPipe, ReuseStep, ReuseDel, ReuseSrem, ReuseAudit, CurrentGet,
             AllStep, AllMembers, AllDel, AllDelSet, AllAudit
    <3>5. RotateStep(r)
      BY <3>2, <3>3, <3>4 DEF Step
    <3> QED BY <3>5
        DEF RotateStep, RotateExists, RotateReadRefused, RotateReadMismatch,
            RotateReadMatch, RotateHset, RotateConfirm, RotateExpire,
            RotateLoadUser, RotateMint
  <2>2. target[q] \in Requests
    BY DEF IInv, ArgumentsGiven, TokenSteps, BeforeHset
  <2> QED BY <2>1, <2>2 DEF RotateReadMatch, Accepts, IInv, RetiredNotStored
<1> QED BY <1>1, Invariance, PTL DEF Spec, ReplayRefused

----------------------------------------------------------------------------
(* The implementation of SessionLifecycle *)

\* The initial states are initial states of SessionLifecycle.
LEMMA InitRefines == Init => Lifecycle!Init
  BY DEF Init, Lifecycle!Init, Phase, LiveTerms, LiveSecret, Stored, Usable, AfterHset

\* A step that leaves every mapped variable as it is.
LEMMA StutterRefines ==
  ASSUME \A s \in Requests :
           /\ (pc'[s] = "login_done") <=> (pc[s] = "login_done")
           /\ (pc'[s] \in AfterHset) <=> (pc[s] \in AfterHset)
           /\ Usable(s)' <=> Usable(s)
           /\ Usable(s) => /\ session'[s].login = session[s].login
                           /\ session'[s].secret = session[s].secret
  PROVE  UNCHANGED Lifecycle!vars
<1>1. Phase' = Phase
  BY DEF Phase
<1>2. LiveTerms' = LiveTerms
  BY DEF LiveTerms
<1>3. LiveSecret' = LiveSecret
  BY DEF LiveSecret
<1>4. Stored' = Stored
  BY DEF Stored
<1> QED BY <1>1, <1>2, <1>3, <1>4 DEF Lifecycle!vars

\* A step that deletes the keys of the sessions in S closes those in use.
LEMMA DeleteRefines ==
  ASSUME IInv, NEW S \in SUBSET Requests,
         \A s \in Requests :
           /\ (pc'[s] = "login_done") <=> (pc[s] = "login_done")
           /\ (pc'[s] \in AfterHset) <=> (pc[s] \in AfterHset)
           /\ session'[s] = IF s \in S THEN None ELSE session[s]
  PROVE  Lifecycle!Next
<1> DEFINE T == {s \in S : Usable(s)}
<1>1. \A s \in Requests : Usable(s) => pc[s] = "login_done"
  BY DEF IInv, UsableAsOpened
<1>2. \A s \in Requests : Usable(s)' <=> Usable(s) /\ s \notin S
  BY DEF Usable
<1>3. \A s \in T : Phase[s] = "live"
  BY <1>1 DEF Phase
<1>4. Phase' = [s \in Requests |-> IF s \in T THEN "dead" ELSE Phase[s]]
  BY <1>1, <1>2 DEF Phase
<1>5. LiveTerms' = [s \in Requests |-> IF s \in T THEN None ELSE LiveTerms[s]]
  BY <1>2 DEF LiveTerms
<1>6. LiveSecret' = [s \in Requests |-> IF s \in T THEN None ELSE LiveSecret[s]]
  BY <1>2 DEF LiveSecret
<1>7. Stored' = Stored
  BY DEF Stored
<1>8. Lifecycle!Close(T)
  BY <1>3, <1>4, <1>5, <1>6, <1>7 DEF Lifecycle!Close
<1> QED BY <1>8 DEF Lifecycle!Next

\* A login opens its session with the secret it drew.
LEMMA LoginRefines ==
  ASSUME IInv, NEW r \in Requests, LoginPipe(r)
  PROVE  Lifecycle!Next
<1> USE DEF IInv, TypeOK, Goto, LoginPipe
<1>1. ~Usable(r) /\ Usable(r)'
  <2>1. ~Usable(r)
    BY DEF UsableAsOpened
  <2>2. session'[r].login \in LoginFields
    BY DEF ArgumentsGiven, LoginSteps, LoginFields
  <2>3. session'[r] \in SessionHash
    BY <2>2 DEF SessionHash
  <2> QED BY <2>1, <2>2, <2>3, NoneAssumption DEF Usable
<1>2. \A s \in Requests \ {r} : session'[s] = session[s] /\ pc'[s] = pc[s]
  OBVIOUS
<1>3. Phase[r] = "none" /\ Phase' = [Phase EXCEPT ![r] = "live"]
  BY <1>1, <1>2 DEF Phase, Usable
<1>4. /\ LiveTerms'[r] \in LoginFields
      /\ LiveTerms' = [LiveTerms EXCEPT ![r] = LiveTerms'[r]]
  <2>1. session'[r].login \in LoginFields
    BY DEF ArgumentsGiven, LoginSteps, LoginFields
  <2> QED BY <1>1, <1>2, <2>1 DEF LiveTerms, Usable
<1>5. LiveSecret' = [LiveSecret EXCEPT ![r] = r]
  BY <1>1, <1>2 DEF LiveSecret, Usable
<1>6. r \notin Stored /\ Stored' = Stored \cup {r}
  BY <1>2 DEF Stored, AfterHset
<1>7. Lifecycle!Open(r, r)
  BY <1>3, <1>4, <1>5, <1>6 DEF Lifecycle!Open, Lifecycle!Spend
<1> QED BY <1>7 DEF Lifecycle!Next

\* The next idle expiry of a rotation that may write is a time.
LEMMA NextIdleInNat ==
  ASSUME IInv, NEW r \in Requests, RotateHset(r)
  PROVE  NextIdle(r) \in Nat
BY SeenWellFormed DEF NextIdle, RotateHset, Goto, IInv, TypeOK

\* The HSET of a rotation replaces the secret of a live session, and wastes
\* the one it drew on a dead session.
LEMMA HsetRefines ==
  ASSUME IInv, NEW r \in Requests, RotateHset(r)
  PROVE  Lifecycle!Next
<1> USE DEF IInv, TypeOK, Goto, RotateHset, args
<1>1. target[r] \in Requests /\ pc[target[r]] = "login_done"
  BY SeenWellFormed DEF SeenAsOpened
<1>2. \A s \in Requests :
        /\ s # target[r] => session'[s] = session[s]
        /\ (pc'[s] = "login_done") <=> (pc[s] = "login_done")
  OBVIOUS
<1>3. r \notin Stored /\ Stored' = Stored \cup {r}
  BY DEF Stored, AfterHset
<1>4. CASE Usable(target[r])
  <2>1. /\ session'[target[r]].login = session[target[r]].login
        /\ session'[target[r]].secret = r
        /\ Usable(target[r])'
    <3>1. session[target[r]] \in SessionHash
      BY <1>1, <1>4 DEF Usable
    <3>2. session'[target[r]] =
            [session[target[r]] EXCEPT !.secret = r, !.idle = NextIdle(r)]
      BY <1>1, <1>4 DEF Usable
    <3>3. /\ session'[target[r]].login = session[target[r]].login
          /\ session'[target[r]].secret = r
      BY <3>1, <3>2 DEF SessionHash
    <3>4. NextIdle(r) \in Nat
      BY NextIdleInNat
    <3>5. [session[target[r]] EXCEPT !.secret = r, !.idle = NextIdle(r)]
            \in SessionHash
      BY <3>1, <3>4 DEF SessionHash
    <3>6. session'[target[r]] # None
      BY <3>2, <3>5, NoneAssumption
    <3> QED BY <1>4, <3>3, <3>6 DEF Usable
  <2>2. \A s \in Requests : Usable(s)' <=> Usable(s)
    <3> TAKE s \in Requests
    <3>1. CASE s = target[r]
      BY <1>4, <2>1, <3>1
    <3>2. CASE s # target[r]
      BY <1>2, <3>2 DEF Usable
    <3> QED BY <3>1, <3>2
  <2>3. Phase' = Phase /\ Phase[target[r]] = "live"
    BY <1>1, <1>2, <1>4, <2>2 DEF Phase
  <2>4. LiveTerms' = LiveTerms
    BY <1>2, <2>1, <2>2 DEF LiveTerms
  <2>5. LiveSecret' = [LiveSecret EXCEPT ![target[r]] = r]
    <3>1. \A s \in Requests : LiveSecret'[s] =
            IF s = target[r] THEN r ELSE LiveSecret[s]
      BY <1>2, <2>1, <2>2 DEF LiveSecret
    <3> QED BY <1>1, <3>1 DEF LiveSecret
  <2>6. Lifecycle!Rotate(target[r], r)
    BY <1>3, <2>3, <2>4, <2>5 DEF Lifecycle!Rotate, Lifecycle!Spend
  <2> QED BY <1>1, <2>6 DEF Lifecycle!Next
<1>5. CASE ~Usable(target[r])
  <2>1. ~Usable(target[r])'
    <3>1. CASE session[target[r]] = None
      BY <1>1, <3>1 DEF Usable
    <3>2. CASE session[target[r]] # None
      <4>1. session[target[r]] \in SessionHash
        BY <1>1, <3>2
      <4>2. session'[target[r]].login = session[target[r]].login
        BY <1>1, <3>2, <4>1 DEF SessionHash
      <4> QED BY <1>5, <3>2, <4>2 DEF Usable
    <3> QED BY <3>1, <3>2
  <2>2. \A s \in Requests : Usable(s)' <=> Usable(s)
    <3> TAKE s \in Requests
    <3>1. CASE s = target[r]
      BY <1>5, <2>1, <3>1
    <3>2. CASE s # target[r]
      BY <1>2, <3>2 DEF Usable
    <3> QED BY <3>1, <3>2
  <2>3. Phase' = Phase
    BY <1>2, <2>2 DEF Phase
  <2>4. LiveTerms' = LiveTerms /\ LiveSecret' = LiveSecret
    BY <1>2, <1>5, <2>2 DEF LiveTerms, LiveSecret
  <2>5. Lifecycle!Waste(r)
    BY <1>3, <2>3, <2>4 DEF Lifecycle!Waste, Lifecycle!Spend
  <2> QED BY <2>5 DEF Lifecycle!Next
<1> QED BY <1>4, <1>5

\* Every step opens, rotates, wastes or closes a session of SessionLifecycle, or
\* leaves it as it is.
LEMMA StepRefines == IInv /\ [Next]_vars => [Lifecycle!Next]_(Lifecycle!vars)
<1> SUFFICES ASSUME IInv, [Next]_vars
             PROVE  Lifecycle!Next \/ UNCHANGED Lifecycle!vars
  OBVIOUS
<1> USE DEF IInv, TypeOK, Goto, redis, database, args, locals, LoginSteps,
            BeforeHset, AfterHset, ReuseSteps, LogoutSteps, AllSteps
<1>1. ASSUME UNCHANGED <<pc, session>>
      PROVE  UNCHANGED Lifecycle!vars
  <2>1. \A s \in Requests : Usable(s)' <=> Usable(s)
    BY <1>1 DEF Usable
  <2> QED BY <1>1, <2>1, StutterRefines
<1>2. ASSUME NEW r \in Requests, UNCHANGED session,
             \/ QuietStep(r)
             \/ Start(r)
             \/ RotateReadMismatch(r) \/ RotateReadMatch(r)
             \/ ReuseSrem(r)
             \/ AllMembers(r) \/ AllDelSet(r)
      PROVE  UNCHANGED Lifecycle!vars
  <2>1. \A s \in Requests : Usable(s)' <=> Usable(s)
    BY <1>2 DEF Usable
  <2>2. \A s \in Requests :
          /\ (pc'[s] = "login_done") <=> (pc[s] = "login_done")
          /\ (pc'[s] \in AfterHset) <=> (pc[s] \in AfterHset)
    BY <1>2 DEF QuietStep, RotateExists, RotateReadRefused, RotateConfirm,
            RotateLoadUser, RotateMint, ReuseAudit, CurrentGet, AllAudit, Start,
            LoginStart, RotateStart, CurrentStart, AllStart, RotateReadMismatch,
            RotateReadMatch, ReuseSrem, AllMembers, AllDelSet
  <2> QED BY <1>2, <2>1, <2>2, StutterRefines
<1>3. ASSUME NEW r \in Requests, LoginPipe(r) PROVE Lifecycle!Next
  BY <1>3, LoginRefines
<1>4. ASSUME NEW r \in Requests, RotateHset(r) PROVE Lifecycle!Next
  BY <1>4, HsetRefines
<1>5. ASSUME NEW r \in Requests, RotateExpire(r) PROVE UNCHANGED Lifecycle!vars
  <2>1. target[r] \in Requests
    BY <1>5, SeenWellFormed DEF RotateExpire
  <2>2. \A s \in Requests :
          /\ session[s] = None <=> session'[s] = None
          /\ session[s] # None => /\ session'[s].login = session[s].login
                                  /\ session'[s].secret = session[s].secret
    <3> TAKE s \in Requests
    <3> DEFINE until == clock + RemainingAbsolute(seen[r].absolute, moment[r])
    <3>1. until \in Nat
      BY <1>5, SeenWellFormed, RemainingBounds DEF RotateExpire
    <3>2. CASE s # target[r] \/ session[s] = None
      BY <1>5, <2>1, <3>2 DEF RotateExpire
    <3>3. CASE s = target[r] /\ session[s] # None
      <4>1. session[s] \in SessionHash
        BY <3>3
      <4>2. session'[s] = [session[s] EXCEPT !.expireAt = until]
        BY <1>5, <3>3 DEF RotateExpire
      <4> HIDE DEF until
      <4>3. session'[s] \in SessionHash
        BY <3>1, <4>1, <4>2 DEF SessionHash
      <4> QED BY <3>3, <4>1, <4>2, <4>3, NoneAssumption DEF SessionHash
    <3> QED BY <3>2, <3>3
  <2>3. \A s \in Requests : Usable(s)' <=> Usable(s)
    BY <2>2 DEF Usable
  <2>4. \A s \in Requests :
          /\ (pc'[s] = "login_done") <=> (pc[s] = "login_done")
          /\ (pc'[s] \in AfterHset) <=> (pc[s] \in AfterHset)
    BY <1>5 DEF RotateExpire
  <2> QED BY <2>2, <2>3, <2>4, StutterRefines DEF Usable
<1>6. ASSUME NEW r \in Requests, ReuseDel(r) PROVE Lifecycle!Next
  <2>1. target[r] \in Requests
    BY <1>6, SeenWellFormed DEF ReuseDel
  <2> QED BY <1>6, <2>1, DeleteRefines, {target[r]} \in SUBSET Requests DEF ReuseDel
<1>7. ASSUME NEW r \in Requests, NEW s \in Requests, AllDel(r, s)
      PROVE  Lifecycle!Next
  BY <1>7, DeleteRefines, {s} \in SUBSET Requests DEF AllDel
<1>8. ASSUME Tick PROVE Lifecycle!Next
  <2> DEFINE S == {s \in Requests : Expired(s, clock + 1)}
  <2>1. \A s \in Requests : session'[s] = IF s \in S THEN None ELSE session[s]
    BY <1>8 DEF Tick
  <2>2. UNCHANGED pc
    BY <1>8 DEF Tick
  <2>3. \A s \in Requests : /\ (pc'[s] = "login_done") <=> (pc[s] = "login_done")
                            /\ (pc'[s] \in AfterHset) <=> (pc[s] \in AfterHset)
    BY <2>2
  <2>4. S \in SUBSET Requests
    OBVIOUS
  <2> HIDE DEF S
  <2> QED BY <2>1, <2>3, <2>4, DeleteRefines
<1>9. ASSUME NEW r \in Requests,
             QuietStep(r) \/ Start(r) \/ RotateReadMismatch(r) \/ RotateReadMatch(r)
               \/ ReuseSrem(r) \/ AllMembers(r) \/ AllDelSet(r)
      PROVE  UNCHANGED session
  BY <1>9 DEF QuietStep, RotateExists, RotateReadRefused, RotateConfirm,
            RotateLoadUser, RotateMint, ReuseAudit, CurrentGet, AllAudit, Start,
            LoginStart, RotateStart, CurrentStart, AllStart, RotateReadMismatch,
            RotateReadMatch, ReuseSrem, AllMembers, AllDelSet
<1> QED BY <1>1, <1>2, <1>3, <1>4, <1>5, <1>6, <1>7, <1>8, <1>9
        DEF Next, Step, RotateStep, ReuseStep, AllStep, Environment,
            ChangePassword, SetStatus, QuietStep, vars

\* Login, rotation, reuse detection, logout and expiry implement the abstract
\* life of a session.
THEOREM Refinement == Spec => ImplementsLifecycle
<1> QED BY InitRefines, StepRefines, Invariance, PTL
        DEF Spec, ImplementsLifecycle, Lifecycle!Spec
=============================================================================

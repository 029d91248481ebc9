---------------------------- MODULE LoginLockout ----------------------------
(***************************************************************************)
(* The login lockout of backend/src/litemcp/auth/lockout.py on one row of  *)
(* the users table: prepare_login_attempt, a password check outside the    *)
(* module, then record_login_failure or record_login_success.              *)
(*                                                                         *)
(* Each of the three locks the row with SELECT ... FOR UPDATE in a         *)
(* transaction its caller opened.  The code leaves the caller three ways   *)
(* to do that, and `mode' says which one is used:                          *)
(*   "joined"    one transaction spans the attempt;                        *)
(*   "separate"  each call has a session and a transaction of its own, as  *)
(*               in tests/auth/test_login_lockout.py;                      *)
(*   "reused"    each call has a transaction of its own in one session of  *)
(*               AsyncSessionFactory, whose expire_on_commit=False leaves  *)
(*               the User loaded by the first call in the identity map: a  *)
(*               later SELECT ... FOR UPDATE locks the row and returns     *)
(*               that object as it was (db/session.py 55-59).              *)
(***************************************************************************)
EXTENDS Naturals, FiniteSets

CONSTANTS
  Attempts,     \* login attempts on this account
  Modes,        \* the ways to use transactions that are considered
  None,         \* an absent value
  Threshold,    \* admin_login_failure_threshold
  Window,       \* admin_login_failure_window_seconds, in clock ticks
  LockTime,     \* admin_lock_seconds, in clock ticks
  MaxTime       \* bound on the clock

\* The columns the module uses.  `strikes' is not a column: it remembers which
\* failures were recorded, and when, since the counters were last cleared.
Row == [status  : {"active", "locked", "disabled"},
        count   : Nat,
        window  : Nat \cup {None},
        until   : Nat \cup {None},
        strikes : SUBSET (Attempts \X Nat)]

ASSUME LockoutAssumption ==
  /\ Modes \subseteq {"joined", "separate", "reused"}
  /\ None \notin Attempts \cup Nat \cup Row
  /\ Threshold \in Nat \ {0}
  /\ Window \in Nat \ {0}
  /\ LockTime \in Nat \ {0}
  /\ MaxTime \in Nat

Labels == {"idle", "prepare", "verify", "failure", "success",
           "denied", "rejected", "accepted", "aborted"}

VARIABLES
  clock,   \* _now_utc(), the same for every worker
  mode,    \* how the caller uses transactions
  row,     \* the committed row
  holder,  \* attempt whose transaction has the row lock, or None
  draft,   \* the User object in each attempt's session, None if not loaded
  pc       \* what each attempt does next, or how it ended

vars == <<clock, mode, row, holder, draft, pc>>

\* Every variable has its type; read afresh, a count comes with its window and
\* a locked account with the time its lock ends (lockout.py 64-68, 116-124).
TypeOK ==
  /\ clock \in Nat
  /\ mode \in Modes
  /\ row \in Row
  /\ holder \in Attempts \cup {None}
  /\ draft \in [Attempts -> Row \cup {None}]
  /\ pc \in [Attempts -> Labels]
  /\ mode # "reused" => /\ row.count = 0 <=> row.window = None
                        /\ row.status = "locked" => row.until # None

Fresh == [status |-> "active", count |-> 0, window |-> None, until |-> None,
          strikes |-> {}]

Init ==
  /\ clock = 0
  /\ mode \in Modes
  /\ row = Fresh
  /\ holder = None
  /\ draft = [a \in Attempts |-> None]
  /\ pc = [a \in Attempts |-> "idle"]

----------------------------------------------------------------------------
(* The functions of the module, on the row they have locked *)

\* Mutant: the observation window goes on.
Cleared_KeepsWindow(r) == [Fresh EXCEPT !.window = r.window]

\* _clear_lockout_state
Cleared(r) == Fresh

\* Mutant: the lock counts as over while it lasts.
LockIsStillActive_Inverted(r) == r.until # None /\ r.until < clock

\* _lock_is_still_active
LockIsStillActive(r) == r.until # None /\ r.until > clock

\* Mutant: only the lock is looked at.
MayVerify_IgnoresDisabled(r) == r.status = "locked" => ~LockIsStillActive(r)

MayVerify(r) ==
  /\ r.status # "disabled"
  /\ r.status = "locked" => ~LockIsStillActive(r)

Prepared(r) == IF r.status = "locked" THEN Cleared(r) ELSE r

\* Mutant: a failure after the window has ended is added to the old ones.
WindowOver_Never(r) == r.window = None

WindowOver(r) == r.window = None \/ clock - r.window >= Window

\* Mutant: the account locks only above the threshold.
AfterFailure_OffByOne(r, a) ==
  LET count == IF WindowOver(r) THEN 1 ELSE r.count + 1
      locks == count > Threshold
  IN [status  |-> IF locks THEN "locked" ELSE r.status,
      count   |-> count,
      window  |-> IF WindowOver(r) THEN clock ELSE r.window,
      until   |-> IF locks THEN clock + LockTime ELSE r.until,
      strikes |-> r.strikes \cup {<<a, clock>>}]

\* record_login_failure: it does not look at the status it overwrites.
AfterFailure(r, a) ==
  LET count == IF WindowOver(r) THEN 1 ELSE r.count + 1
      locks == count >= Threshold
  IN [status  |-> IF locks THEN "locked" ELSE r.status,
      count   |-> count,
      window  |-> IF WindowOver(r) THEN clock ELSE r.window,
      until   |-> IF locks THEN clock + LockTime ELSE r.until,
      strikes |-> r.strikes \cup {<<a, clock>>}]

----------------------------------------------------------------------------
(* Attempts *)

Goto(a, from, to) ==
  /\ pc[a] = from
  /\ pc' = [pc EXCEPT ![a] = to]

\* The unit of work writes the columns whose value has changed since the object
\* was loaded as `old'.
Flush(old, new) ==
  LET Written(column) == IF new[column] = old[column] THEN row[column]
                                                      ELSE new[column]
  IN [status  |-> Written("status"),
      count   |-> Written("count"),
      window  |-> Written("window"),
      until   |-> Written("until"),
      strikes |-> IF old.strikes \subseteq new.strikes
                    THEN row.strikes \cup (new.strikes \ old.strikes)
                    ELSE new.strikes]

\* Attempt a commits its object as new, the lock is released, and the object
\* outlives the transaction if the session does.
Commit(a, new) ==
  /\ row' = Flush(IF mode = "joined" THEN row ELSE draft[a], new)
  /\ holder' = None
  /\ draft' = [draft EXCEPT ![a] = IF mode = "reused" THEN new ELSE None]

Start(a) ==
  /\ Goto(a, "idle", "prepare")
  /\ UNCHANGED <<clock, mode, row, holder, draft>>

\* Mutant: the row is read without FOR UPDATE, so nobody waits.
LockRow_NoWait(a) ==
  /\ holder # a
  /\ pc[a] \in {"prepare", "failure", "success"}
  /\ holder' = a
  /\ draft' = [draft EXCEPT ![a] = IF draft[a] = None THEN row ELSE draft[a]]
  /\ UNCHANGED <<clock, mode, row, pc>>

\* _lock_user: SELECT ... FOR UPDATE waits for the lock and reads the committed
\* row, which does not refresh an object the session already has.
LockRow(a) ==
  /\ holder = None
  /\ pc[a] \in {"prepare", "failure", "success"}
  /\ holder' = a
  /\ draft' = [draft EXCEPT ![a] = IF draft[a] = None THEN row ELSE draft[a]]
  /\ UNCHANGED <<clock, mode, row, pc>>

\* Mutant: a refused attempt keeps its transaction open.
Deny_KeepsLock(a) ==
  /\ holder = a
  /\ ~MayVerify(draft[a])
  /\ Goto(a, "prepare", "denied")
  /\ UNCHANGED <<clock, mode, row, holder, draft>>

Deny(a) ==
  /\ holder = a
  /\ ~MayVerify(draft[a])
  /\ Goto(a, "prepare", "denied")
  /\ Commit(a, draft[a])
  /\ UNCHANGED <<clock, mode>>

\* Mutant: the transaction is ended before the password is checked.
Admit_EndsTransaction(a) ==
  /\ holder = a
  /\ MayVerify(draft[a])
  /\ Goto(a, "prepare", "verify")
  /\ Commit(a, Prepared(draft[a]))
  /\ UNCHANGED <<clock, mode>>

\* An expired lock is cleared; a joined attempt keeps its transaction open.
Admit(a) ==
  /\ holder = a
  /\ MayVerify(draft[a])
  /\ Goto(a, "prepare", "verify")
  /\ IF mode = "joined"
       THEN /\ draft' = [draft EXCEPT ![a] = Prepared(draft[a])]
            /\ UNCHANGED <<row, holder>>
       ELSE Commit(a, Prepared(draft[a]))
  /\ UNCHANGED <<clock, mode>>

\* The password is right or wrong; upgrading its hash touches no column of Row.
Verify(a) ==
  /\ Goto(a, "verify", "success") \/ Goto(a, "verify", "failure")
  /\ UNCHANGED <<clock, mode, row, holder, draft>>

RecordFailure(a) ==
  /\ holder = a
  /\ Goto(a, "failure", "rejected")
  /\ Commit(a, AfterFailure(draft[a], a))
  /\ UNCHANGED <<clock, mode>>

\* record_login_success: it does not look at the status it overwrites.
RecordSuccess(a) ==
  /\ holder = a
  /\ Goto(a, "success", "accepted")
  /\ Commit(a, Cleared(draft[a]))
  /\ UNCHANGED <<clock, mode>>

\* The worker or its connection dies, and the transaction is rolled back.
Abort(a) ==
  /\ holder = a
  /\ pc' = [pc EXCEPT ![a] = "aborted"]
  /\ holder' = None
  /\ draft' = [draft EXCEPT ![a] = None]
  /\ UNCHANGED <<clock, mode, row>>

----------------------------------------------------------------------------
(* The rest of the application *)

\* An administrator disables the account; the UPDATE waits for the row lock.
Disable ==
  /\ holder = None
  /\ row' = [row EXCEPT !.status = "disabled"]
  /\ UNCHANGED <<clock, mode, holder, draft, pc>>

Tick ==
  /\ clock < MaxTime
  /\ clock' = clock + 1
  /\ UNCHANGED <<mode, row, holder, draft, pc>>

----------------------------------------------------------------------------

Step(a) ==
  \/ LockRow(a)
  \/ Deny(a)
  \/ Admit(a)
  \/ Verify(a)
  \/ RecordFailure(a)
  \/ RecordSuccess(a)

Next == \/ \E a \in Attempts : Start(a) \/ Step(a) \/ Abort(a)
        \/ Disable
        \/ Tick

Spec == Init /\ [][Next]_vars
FairSpec == Spec /\ \A a \in Attempts : WF_vars(Step(a))

----------------------------------------------------------------------------
(* Properties *)

\* The count is that of the failures recorded within the observation window
\* since the counters were cleared: concurrent failures are never dropped
\* (lockout.py 57-61, 111-120).
CountIsExact ==
  row.count = Cardinality(
    {f \in row.strikes : /\ row.window # None
                         /\ f[2] >= row.window
                         /\ f[2] < row.window + Window})

\* Enough failures within a window leave the account closed, whatever its other
\* attempts are about to record (lockout.py 122-124).
ThresholdCloses == row.count >= Threshold => row.status # "active"

\* "Only while status = active is a password checked"
\* (docs/architecture/02-admin-auth.md 106), when one transaction spans the
\* attempt: neither a lock nor an administrator gets in between.
ChecksOnlyActive ==
  mode = "joined" =>
    \A a \in Attempts :
      pc[a] \in {"verify", "failure", "success"} =>
        /\ row.status # "disabled"
        /\ row.status = "locked" => row.until <= clock

\* When one transaction spans the attempt no login brings a disabled account
\* back, by success or by way of a lock (lockout.py 6-8).
DisabledIsFinalIfJoined ==
  [][mode = "joined" /\ row.status = "disabled" => row'.status = "disabled"]_vars

\* When one transaction spans the attempt an account leaves the locked state
\* by login only once its lock has run out (lockout.py 92-98).
UnlocksOnlyWhenDueIfJoined ==
  [][mode = "joined" /\ row.status = "locked" /\ row'.status = "active" =>
       row.until <= clock]_vars

\* A transaction holds the object it works on, and without a reused session that
\* object is the committed row, with an ended lock already cleared in it.
DraftsAreCurrent ==
  /\ \A a \in Attempts : holder = a =>
       /\ draft[a] # None
       /\ pc[a] \in {"prepare", "verify", "failure", "success"}
  /\ mode # "reused" => \A a \in Attempts : draft[a] # None =>
       /\ holder = a
       /\ draft[a] = IF mode = "joined" /\ pc[a] # "prepare" THEN Prepared(row)
                                                             ELSE row

\* A joined attempt keeps the row lock from its admission on.
AdmittedHoldsLock ==
  mode = "joined" =>
    \A a \in Attempts : pc[a] \in {"verify", "failure", "success"} => holder = a

\* A strike belongs to an attempt that has ended and lies before the window's end.
StrikesArePast ==
  /\ IsFiniteSet(row.strikes)
  /\ row.window # None => row.window <= clock
  /\ \A f \in row.strikes : /\ pc[f[1]] = "rejected"
                            /\ row.window # None
                            /\ f[2] <= clock
                            /\ f[2] < row.window + Window

\* The inductive invariant of the lockout: what each transaction may rely on, and
\* that a count is exact, unless calls share a session.
IInv ==
  /\ TypeOK
  /\ DraftsAreCurrent
  /\ AdmittedHoldsLock
  /\ ChecksOnlyActive
  /\ mode # "reused" => StrikesArePast /\ CountIsExact /\ ThresholdCloses

\* Row locks never hold anyone up for good: every attempt comes to an end.
AttemptsEnd ==
  \A a \in Attempts :
    (pc[a] # "idle") ~> (pc[a] \in {"denied", "rejected", "accepted", "aborted"})

\* "disabled outranks lock expiry and must never be auto-reactivated"
\* (lockout.py 6-8).
DisabledIsFinal ==
  [][row.status = "disabled" => row'.status = "disabled"]_vars
=============================================================================

------------------------- MODULE LoginLockoutProofs -------------------------
(* The invariants of LoginLockout hold for any number of attempts, any     *)
(* threshold and any lengths of the window and of the lock.                *)
EXTENDS LoginLockout, FiniteSetTheorems, TLAPS

\* An absent object is not a row.
LEMMA NoneIsNoRow == None \notin Row /\ None \notin Nat /\ None \notin Attempts
BY LockoutAssumption

\* The functions of the module turn rows into rows.
LEMMA FunctionsOnRows ==
  ASSUME NEW r \in Row, NEW a \in Attempts, clock \in Nat
  PROVE  /\ Fresh \in Row
         /\ Prepared(r) \in Row
         /\ Cleared(r) \in Row
         /\ AfterFailure(r, a) \in Row
<1>1. Fresh \in Row
  BY DEF Row, Fresh
<1>2. AfterFailure(r, a) \in Row
  <2>1. r.count + 1 \in Nat /\ clock + LockTime \in Nat
    BY LockoutAssumption DEF Row
  <2>2. r.strikes \cup {<<a, clock>>} \in SUBSET (Attempts \X Nat)
    BY DEF Row
  <2> QED
    BY <2>1, <2>2 DEF AfterFailure, Row
<1> QED
  BY <1>1, <1>2 DEF Prepared, Cleared

\* What the unit of work writes is a row.
LEMMA FlushIsRow ==
  ASSUME row \in Row, NEW old \in Row, NEW new \in Row
  PROVE  Flush(old, new) \in Row
BY DEF Flush, Row

\* If the object was current, the unit of work writes it as it is.
LEMMA FlushIsWrite ==
  ASSUME row \in Row, NEW new \in Row
  PROVE  Flush(row, new) = new
<1>1. row.strikes \subseteq new.strikes =>
        row.strikes \cup (new.strikes \ row.strikes) = new.strikes
  OBVIOUS
<1>2. new = [status |-> new.status, count |-> new.count, window |-> new.window,
             until |-> new.until, strikes |-> new.strikes]
  BY DEF Row
<1> QED
  BY <1>1, <1>2 DEF Flush

\* The initial states satisfy the invariant.
LEMMA InitInvariant == Init => IInv
<1> SUFFICES ASSUME Init PROVE IInv
  OBVIOUS
<1>1. TypeOK
  BY LockoutAssumption DEF Init, TypeOK, Fresh, Row, Labels
<1>2. DraftsAreCurrent /\ AdmittedHoldsLock /\ ChecksOnlyActive
  BY LockoutAssumption
     DEF Init, DraftsAreCurrent, AdmittedHoldsLock, ChecksOnlyActive
<1>3. StrikesArePast /\ IsFiniteSet({}) /\ Cardinality({}) = 0
  BY FS_EmptySet DEF Init, StrikesArePast, Fresh
<1>4. CountIsExact /\ ThresholdCloses
  <2>1. {f \in row.strikes : /\ row.window # None
                             /\ f[2] >= row.window
                             /\ f[2] < row.window + Window} = {}
    BY DEF Init, Fresh
  <2> QED
    BY <1>3, <2>1, LockoutAssumption DEF Init, Fresh, CountIsExact, ThresholdCloses
<1> QED
  BY <1>1, <1>2, <1>3, <1>4 DEF IInv

----------------------------------------------------------------------------

\* The failures that count for row r.
InWindow(r) == {f \in r.strikes : /\ r.window # None
                                  /\ f[2] >= r.window
                                  /\ f[2] < r.window + Window}

\* What StrikesArePast and CountIsExact say of a row that attempt a, which has
\* not failed yet, has in its session.
Counted(r, a) ==
  /\ IsFiniteSet(r.strikes)
  /\ r.window # None => r.window <= clock
  /\ \A f \in r.strikes : /\ f[1] # a
                          /\ r.window # None
                          /\ f[2] <= clock
                          /\ f[2] < r.window + Window
  /\ r.count = Cardinality(InWindow(r))

\* A cleared row counts nothing.
LEMMA FreshIsCounted ==
  ASSUME NEW a \in Attempts
  PROVE  Counted(Fresh, a)
<1>1. InWindow(Fresh) = {} /\ Fresh.strikes = {} /\ Fresh.window = None /\ Fresh.count = 0
  BY DEF InWindow, Fresh
<1> QED
  BY <1>1, FS_EmptySet DEF Counted

\* record_login_failure counts the failure it records and none that is outside
\* the window.
LEMMA FailureIsCounted ==
  ASSUME clock \in Nat, NEW r \in Row, NEW a \in Attempts, Counted(r, a),
         NEW n, n = AfterFailure(r, a)
  PROVE  /\ IsFiniteSet(n.strikes)
         /\ n.strikes = r.strikes \cup {<<a, clock>>}
         /\ n.window \in Nat /\ n.window <= clock
         /\ \A f \in n.strikes : f[2] <= clock /\ f[2] < n.window + Window
         /\ n.count = Cardinality(InWindow(n))
<1> DEFINE e == <<a, clock>>
<1>0. Window \in Nat \ {0} /\ LockTime \in Nat
  BY LockoutAssumption
<1>1. /\ n.strikes = r.strikes \cup {e}
      /\ n.window = IF WindowOver(r) THEN clock ELSE r.window
      /\ n.count = IF WindowOver(r) THEN 1 ELSE r.count + 1
  BY DEF AfterFailure
<1>2. IsFiniteSet(n.strikes)
  <2>1. IsFiniteSet(r.strikes) /\ IsFiniteSet(r.strikes \cup {e})
    BY FS_AddElement DEF Counted
  <2> QED
    BY <1>1, <2>1
<1>3. /\ r.strikes \subseteq Attempts \X Nat
      /\ r.count \in Nat
      /\ r.window \in Nat \cup {None}
  BY DEF Row
<1>4. \A f \in r.strikes : f[1] # a /\ f[2] \in Nat /\ f[2] <= clock
                           /\ r.window # None /\ f[2] < r.window + Window
  BY <1>3 DEF Counted
<1>5. e[1] = a /\ e[2] = clock
  OBVIOUS
<1>6. CASE WindowOver(r)
  <2>1. \A f \in r.strikes : f[2] < clock
    <3> SUFFICES ASSUME NEW f \in r.strikes PROVE f[2] < clock
      OBVIOUS
    <3>1. r.window \in Nat /\ clock - r.window >= Window
      BY <1>3, <1>4, <1>6 DEF WindowOver
    <3> QED
      BY <3>1, <1>0, <1>4
  <2>2. n.window = clock /\ n.count = 1
    BY <1>1, <1>6
  <2>3. \A f \in n.strikes : f[2] <= clock /\ f[2] < n.window + Window
    BY <2>1, <2>2, <1>0, <1>1, <1>4, <1>5
  <2>4. InWindow(n) = {e}
    <3>1. \A f \in r.strikes : ~(f[2] >= clock)
      BY <2>1, <1>4
    <3>2. clock # None /\ clock >= clock /\ clock < clock + Window
      BY <1>0, NoneIsNoRow
    <3>3. \A f : f \in InWindow(n) <=> f = e
      BY <3>1, <3>2, <2>2, <1>1, <1>5 DEF InWindow
    <3> QED
      BY <3>3
  <2> QED
    <3>1. n.window \in Nat /\ n.window <= clock
      BY <2>2
    <3>2. Cardinality(InWindow(n)) = n.count
      BY <2>2, <2>4, FS_Singleton
    <3> QED
      BY <1>1, <1>2, <2>3, <3>1, <3>2
<1>7. CASE ~WindowOver(r)
  <2>1. /\ r.window \in Nat
        /\ r.window <= clock
        /\ clock < r.window + Window
    BY <1>0, <1>3, <1>7 DEF WindowOver, Counted
  <2>2. n.window = r.window /\ n.count = r.count + 1
    BY <1>1, <1>7
  <2>3. \A f \in n.strikes : f[2] <= clock /\ f[2] < n.window + Window
    BY <2>1, <2>2, <1>1, <1>4, <1>5
  <2>4. InWindow(n) = InWindow(r) \cup {e}
    <3>1. r.window # None /\ e[2] >= r.window /\ e[2] < r.window + Window
      BY <2>1, <1>5, NoneIsNoRow
    <3>2. \A f : f \in InWindow(n) <=> f \in InWindow(r) \/ f = e
      BY <3>1, <2>2, <1>1 DEF InWindow
    <3> QED
      BY <3>2
  <2>5. e \notin InWindow(r)
    BY <1>4, <1>5 DEF InWindow
  <2>6. IsFiniteSet(InWindow(r))
    BY FS_Subset DEF InWindow, Counted
  <2>7. Cardinality(InWindow(n)) = r.count + 1
    BY <2>4, <2>5, <2>6, FS_AddElement DEF Counted
  <2> QED
    BY <1>1, <1>2, <2>1, <2>2, <2>3, <2>7
<1> QED
  BY <1>6, <1>7
----------------------------------------------------------------------------

\* The part of the invariant that speaks of counters.
Counting == mode # "reused" => StrikesArePast /\ CountIsExact /\ ThresholdCloses

\* The object a transaction holds is a row, and the committed one or what
\* prepare_login_attempt made of it.
LEMMA DraftIsRow ==
  ASSUME IInv, NEW a \in Attempts, holder = a
  PROVE  /\ clock \in Nat /\ row \in Row /\ draft[a] \in Row
         /\ mode = "separate" => draft[a] = row
         /\ mode = "joined" => draft[a] \in {row, Prepared(row)}
BY NoneIsNoRow DEF IInv, TypeOK, DraftsAreCurrent

\* What a commit leaves: a row, no lock, and no objects but in reused sessions.
LEMMA CommitLeaves ==
  ASSUME IInv, NEW a \in Attempts, holder = a, NEW new \in Row, Commit(a, new)
  PROVE  /\ row' \in Row
         /\ holder' = None
         /\ draft' \in [Attempts -> Row \cup {None}]
         /\ mode # "reused" => row' = new /\ \A b \in Attempts : draft'[b] = None
<1>1. draft \in [Attempts -> Row \cup {None}] /\ mode \in Modes
  BY DEF IInv, TypeOK
<1>2. mode \in {"joined", "separate", "reused"}
  BY <1>1, LockoutAssumption
<1>3. row' \in Row
  <2>1. (IF mode = "joined" THEN row ELSE draft[a]) \in Row
    BY DraftIsRow
  <2> QED
    BY <2>1, DraftIsRow, FlushIsRow DEF Commit
<1>4. mode # "reused" => row' = new
  <2> SUFFICES ASSUME mode # "reused" PROVE row' = new
    OBVIOUS
  <2>1. (IF mode = "joined" THEN row ELSE draft[a]) = row
    BY <1>2, DraftIsRow
  <2>2. Flush(row, new) = new
    BY DraftIsRow, FlushIsWrite
  <2> QED
    BY <2>1, <2>2 DEF Commit
<1>5. mode # "reused" => \A b \in Attempts : draft'[b] = None
  BY <1>1 DEF IInv, DraftsAreCurrent, Commit
<1> QED
  BY <1>1, <1>3, <1>4, <1>5 DEF Commit

\* The counters stay right while the row does and no rejected attempt goes on.
LEMMA SameRowCounts ==
  ASSUME IInv, row' = row, mode' = mode, clock \in Nat, clock' \in Nat, clock <= clock',
         \A a \in Attempts : pc[a] = "rejected" => pc'[a] = "rejected"
  PROVE  Counting'
<1> SUFFICES ASSUME mode # "reused"
             PROVE  StrikesArePast' /\ CountIsExact' /\ ThresholdCloses'
  BY DEF Counting
<1>1. /\ StrikesArePast /\ CountIsExact /\ ThresholdCloses
      /\ row \in Row
  BY DEF IInv, TypeOK
<1>2. /\ row.strikes \subseteq Attempts \X Nat
      /\ row.window \in Nat \cup {None}
  BY <1>1 DEF Row
<1>3. StrikesArePast'
  BY <1>1, <1>2 DEF StrikesArePast
<1> QED
  BY <1>1, <1>3 DEF CountIsExact, ThresholdCloses

\* The counters are right of a cleared row.
LEMMA ClearedCounts ==
  ASSUME row' = Fresh
  PROVE  Counting'
<1>1. /\ Fresh.strikes = {} /\ Fresh.window = None
      /\ Fresh.count = 0 /\ 0 < Threshold /\ Threshold \in Nat
  BY LockoutAssumption DEF Fresh
<1>2. IsFiniteSet({}) /\ Cardinality({}) = 0
  BY FS_EmptySet
<1>3. StrikesArePast'
  BY <1>1, <1>2 DEF StrikesArePast
<1>4. {f \in row'.strikes : /\ row'.window # None
                            /\ f[2] >= row'.window
                            /\ f[2] < row'.window + Window} = {}
  BY <1>1
<1>5. CountIsExact'
  BY <1>1, <1>2, <1>4 DEF CountIsExact
<1> QED
  BY <1>1, <1>3, <1>5 DEF Counting, ThresholdCloses

\* The counters are right when a failure has been recorded.
LEMMA FailureCounts ==
  ASSUME IInv, NEW a \in Attempts, RecordFailure(a)
  PROVE  Counting'
<1> SUFFICES ASSUME mode # "reused"
             PROVE  StrikesArePast' /\ CountIsExact' /\ ThresholdCloses'
  BY DEF Counting, RecordFailure
<1>1. /\ holder = a /\ pc[a] = "failure" /\ clock' = clock
      /\ pc' = [pc EXCEPT ![a] = "rejected"]
      /\ pc \in [Attempts -> Labels]
      /\ mode \in {"joined", "separate"}
  BY LockoutAssumption DEF RecordFailure, Goto, IInv, TypeOK
<1>2. /\ clock \in Nat /\ row \in Row /\ draft[a] \in Row
      /\ draft[a] \in {row, Fresh}
  BY <1>1, DraftIsRow DEF Prepared, Cleared
<1>3. row' = AfterFailure(draft[a], a)
  BY <1>1, <1>2, FunctionsOnRows, CommitLeaves DEF RecordFailure
<1>4. \A f \in row.strikes : f \in Attempts \X Nat /\ pc[f[1]] = "rejected"
  BY <1>2 DEF IInv, StrikesArePast, Row
<1>5. Counted(row, a)
  BY <1>1, <1>4 DEF IInv, StrikesArePast, CountIsExact, Counted, InWindow
<1>6. Counted(draft[a], a)
  BY <1>2, <1>5, FreshIsCounted
<1>7. /\ IsFiniteSet(row'.strikes)
      /\ row'.strikes = draft[a].strikes \cup {<<a, clock>>}
      /\ row'.window \in Nat /\ row'.window <= clock
      /\ \A f \in row'.strikes : f[2] <= clock /\ f[2] < row'.window + Window
      /\ row'.count = Cardinality(InWindow(row'))
  BY <1>2, <1>3, <1>6, FailureIsCounted
<1>8. \A f \in row'.strikes : pc'[f[1]] = "rejected"
  <2>1. \A f \in draft[a].strikes : f \in Attempts \X Nat /\ pc[f[1]] = "rejected"
    BY <1>2, <1>4 DEF Fresh
  <2>2. \A f \in draft[a].strikes : pc'[f[1]] = "rejected"
    BY <1>1, <2>1
  <2> QED
    BY <1>1, <1>7, <2>2
<1>9. StrikesArePast'
  BY <1>1, <1>7, <1>8, NoneIsNoRow DEF StrikesArePast
<1>10. CountIsExact'
  BY <1>7 DEF CountIsExact, InWindow
<1>11. ThresholdCloses'
  <2>1. /\ row'.count >= Threshold => row'.status = "locked"
    BY <1>3 DEF AfterFailure
  <2> QED
    BY <2>1 DEF ThresholdCloses
<1> QED
  BY <1>9, <1>10, <1>11
----------------------------------------------------------------------------

\* What the invariant says of an admitted joined attempt, in one place.
LEMMA AdmittedRow ==
  ASSUME IInv, mode = "joined", NEW a \in Attempts,
         pc[a] \in {"verify", "failure", "success"}
  PROVE  /\ holder = a
         /\ row.status # "disabled"
         /\ row.status = "locked" => row.until <= clock
BY DEF IInv, AdmittedHoldsLock, ChecksOnlyActive

\* Steps that touch neither the row nor the lock nor an object keep the invariant.
LEMMA LocalSteps ==
  ASSUME IInv, NEW a \in Attempts, Start(a) \/ Verify(a) \/ Tick
  PROVE  IInv'
<1>1. /\ row' = row /\ mode' = mode /\ holder' = holder /\ draft' = draft
      /\ clock \in Nat /\ clock' \in Nat /\ clock <= clock'
  BY DEF Start, Verify, Tick, IInv, TypeOK
<1>2. /\ pc \in [Attempts -> Labels] /\ pc' \in [Attempts -> Labels]
      /\ \A b \in Attempts : pc[b] = "rejected" => pc'[b] = "rejected"
      /\ \A b \in Attempts : pc'[b] \in {"verify", "failure", "success"} =>
           pc[b] \in {"verify", "failure", "success"}
      /\ \A b \in Attempts : pc[b] \in {"prepare", "verify", "failure", "success"} =>
           /\ pc'[b] \in {"prepare", "verify", "failure", "success"}
           /\ pc'[b] = "prepare" <=> pc[b] = "prepare"
  BY DEF Start, Verify, Tick, Goto, IInv, TypeOK, Labels
<1>3. TypeOK'
  BY <1>1, <1>2 DEF IInv, TypeOK
<1>4. DraftsAreCurrent'
  BY <1>1, <1>2 DEF IInv, DraftsAreCurrent, Prepared, Cleared
<1>5. AdmittedHoldsLock'
  BY <1>1, <1>2 DEF IInv, AdmittedHoldsLock
<1>6. ChecksOnlyActive'
  <2>1. row.status = "locked" /\ mode = "joined" => row.until \in Nat
    BY DEF IInv, TypeOK, Row
  <2> QED
    BY <1>1, <1>2, <2>1 DEF IInv, ChecksOnlyActive
<1>7. Counting'
  BY <1>1, <1>2, SameRowCounts
<1> QED
  BY <1>3, <1>4, <1>5, <1>6, <1>7 DEF IInv, Counting

\* Taking the lock of an unlocked row keeps the invariant.
LEMMA LockRowStep ==
  ASSUME IInv, NEW a \in Attempts, LockRow(a)
  PROVE  IInv'
<1>1. /\ row' = row /\ mode' = mode /\ clock' = clock /\ pc' = pc
      /\ holder = None /\ holder' = a
      /\ pc[a] \in {"prepare", "failure", "success"}
      /\ draft' = [draft EXCEPT ![a] = IF draft[a] = None THEN row ELSE draft[a]]
  BY DEF LockRow
<1>2. /\ row \in Row /\ clock \in Nat
      /\ draft \in [Attempts -> Row \cup {None}]
  BY DEF IInv, TypeOK
<1>3. TypeOK'
  BY <1>1, <1>2 DEF IInv, TypeOK
<1>4. mode # "reused" => \A b \in Attempts : draft[b] = None
  BY <1>1, NoneIsNoRow DEF IInv, DraftsAreCurrent
<1>5. mode = "joined" => pc[a] = "prepare"
  BY <1>1, NoneIsNoRow DEF IInv, AdmittedHoldsLock
<1>6. DraftsAreCurrent'
  BY <1>1, <1>2, <1>4, <1>5, NoneIsNoRow DEF DraftsAreCurrent
<1>7. AdmittedHoldsLock'
  BY <1>1, NoneIsNoRow DEF IInv, AdmittedHoldsLock
<1>8. ChecksOnlyActive'
  BY <1>1 DEF IInv, ChecksOnlyActive
<1>9. Counting'
  BY <1>1, <1>2, SameRowCounts
<1> QED
  BY <1>3, <1>6, <1>7, <1>8, <1>9 DEF IInv, Counting

\* The type of a row that was read afresh: count and window come together.
Paired(r) == /\ r.count = 0 <=> r.window = None
             /\ r.status = "locked" => r.until # None

\* The functions of the module keep count and window together.
LEMMA FunctionsKeepPairs ==
  ASSUME clock \in Nat, NEW r \in Row, NEW a \in Attempts, Paired(r)
  PROVE  Paired(Fresh) /\ Paired(Prepared(r)) /\ Paired(AfterFailure(r, a))
<1>1. Paired(Fresh)
  BY DEF Paired, Fresh
<1>2. LockTime \in Nat /\ clock + LockTime # None /\ clock # None
  BY LockoutAssumption, NoneIsNoRow
<1>3. r.count \in Nat /\ r.count + 1 # 0
  BY DEF Row
<1> QED
  BY <1>1, <1>2, <1>3 DEF Paired, Prepared, Cleared, AfterFailure, WindowOver

\* A transaction that ends, and leaves its attempt outside of a transaction, keeps
\* the invariant if what it writes is sound.
LEMMA EndOfTransaction ==
  ASSUME IInv, NEW a \in Attempts, holder = a, NEW new \in Row, Commit(a, new),
         clock' = clock, mode' = mode,
         pc' \in [Attempts -> Labels],
         \A b \in Attempts \ {a} : pc'[b] = pc[b],
         mode = "joined" => pc'[a] \notin {"verify", "failure", "success"},
         mode # "reused" => Paired(new),
         Counting'
  PROVE  IInv'
<1>1. /\ row' \in Row
      /\ holder' = None
      /\ draft' \in [Attempts -> Row \cup {None}]
      /\ mode # "reused" => row' = new /\ \A b \in Attempts : draft'[b] = None
  BY CommitLeaves
<1>2. TypeOK'
  BY <1>1 DEF IInv, TypeOK, Paired
<1>3. DraftsAreCurrent'
  BY <1>1, NoneIsNoRow DEF DraftsAreCurrent
<1>4. mode = "joined" =>
        \A b \in Attempts : pc'[b] \notin {"verify", "failure", "success"}
  BY AdmittedRow
<1>5. AdmittedHoldsLock' /\ ChecksOnlyActive'
  BY <1>4 DEF AdmittedHoldsLock, ChecksOnlyActive
<1> QED
  BY <1>2, <1>3, <1>5 DEF IInv, Counting

\* A refusal keeps the invariant.
LEMMA DenyStep ==
  ASSUME IInv, NEW a \in Attempts, Deny(a)
  PROVE  IInv' /\ (mode = "joined" => row' = row)
<1>1. /\ holder = a /\ pc[a] = "prepare" /\ Commit(a, draft[a])
      /\ clock' = clock /\ mode' = mode
      /\ pc' = [pc EXCEPT ![a] = "denied"]
      /\ pc \in [Attempts -> Labels] /\ mode \in {"joined", "separate", "reused"}
  BY LockoutAssumption DEF Deny, Goto, IInv, TypeOK
<1>2. /\ clock \in Nat /\ row \in Row /\ draft[a] \in Row
      /\ mode # "reused" => draft[a] = row
  BY <1>1, DraftIsRow, NoneIsNoRow DEF IInv, DraftsAreCurrent
<1>3. mode # "reused" => row' = row /\ Paired(draft[a])
  BY <1>1, <1>2, CommitLeaves DEF IInv, TypeOK, Paired
<1>4. Counting'
  BY <1>1, <1>2, <1>3, SameRowCounts DEF Counting
<1>5. pc' \in [Attempts -> Labels]
  BY <1>1 DEF Labels
<1> QED
  BY <1>1, <1>2, <1>3, <1>4, <1>5, EndOfTransaction

\* An admission keeps the invariant, and writes nothing if the attempt is joined.
LEMMA AdmitStep ==
  ASSUME IInv, NEW a \in Attempts, Admit(a)
  PROVE  IInv' /\ (mode = "joined" => row' = row)
<1>1. /\ holder = a /\ pc[a] = "prepare" /\ MayVerify(draft[a])
      /\ clock' = clock /\ mode' = mode
      /\ pc' = [pc EXCEPT ![a] = "verify"]
      /\ pc \in [Attempts -> Labels] /\ mode \in {"joined", "separate", "reused"}
  BY LockoutAssumption DEF Admit, Goto, IInv, TypeOK
<1>2. /\ clock \in Nat /\ row \in Row /\ draft[a] \in Row
      /\ mode # "reused" => draft[a] = row
  BY <1>1, DraftIsRow, NoneIsNoRow DEF IInv, DraftsAreCurrent
<1>3. pc' \in [Attempts -> Labels]
  BY <1>1 DEF Labels
<1>4. CASE mode = "joined"
  <2>1. /\ row' = row /\ holder' = holder
        /\ draft' = [draft EXCEPT ![a] = Prepared(row)]
    BY <1>2, <1>4 DEF Admit
  <2>2. /\ row.status # "disabled"
        /\ row.status = "locked" => row.until <= clock
    BY <1>1, <1>2, <1>4 DEF MayVerify, LockIsStillActive, Row, IInv, TypeOK
  <2>3. TypeOK'
    BY <1>1, <1>2, <1>3, <2>1, FunctionsOnRows DEF IInv, TypeOK
  <2>4. \A b \in Attempts \ {a} : draft[b] = None
    BY <1>1, <1>4 DEF IInv, DraftsAreCurrent
  <2>5. DraftsAreCurrent'
    <3>1. Prepared(row) \in Row /\ Prepared(row)' = Prepared(row)
      BY <1>2, <2>1, FunctionsOnRows DEF Prepared, Cleared
    <3>2. /\ draft'[a] = Prepared(row) /\ \A b \in Attempts \ {a} : draft'[b] = None
          /\ pc'[a] = "verify"
      BY <1>1, <2>1, <2>4 DEF IInv, TypeOK
    <3> QED
      BY <1>1, <1>4, <2>1, <3>1, <3>2, NoneIsNoRow DEF DraftsAreCurrent
  <2>6. AdmittedHoldsLock'
    BY <1>1, <1>4, <2>1 DEF IInv, AdmittedHoldsLock
  <2>7. ChecksOnlyActive'
    BY <1>1, <2>1, <2>2 DEF ChecksOnlyActive
  <2>8. Counting'
    BY <1>1, <1>2, <2>1, SameRowCounts
  <2> QED
    BY <2>1, <2>3, <2>5, <2>6, <2>7, <2>8 DEF IInv, Counting
<1>5. CASE mode # "joined"
  <2>1. Commit(a, Prepared(draft[a])) /\ Prepared(draft[a]) \in Row
    BY <1>2, <1>5, FunctionsOnRows DEF Admit
  <2>2. mode # "reused" => row' \in {row, Fresh}
    BY <1>1, <1>2, <2>1, CommitLeaves DEF Prepared, Cleared
  <2>3. Counting'
    BY <1>1, <1>2, <2>2, SameRowCounts, ClearedCounts DEF Counting
  <2>4. mode # "reused" => Paired(Prepared(draft[a]))
    BY <1>2, FunctionsKeepPairs DEF IInv, TypeOK, Paired
  <2> QED
    BY <1>1, <1>3, <1>5, <2>1, <2>3, <2>4, EndOfTransaction
<1> QED
  BY <1>4, <1>5

\* A recorded failure keeps the invariant.
LEMMA RecordFailureStep ==
  ASSUME IInv, NEW a \in Attempts, RecordFailure(a)
  PROVE  IInv'
<1>1. /\ holder = a /\ pc[a] = "failure" /\ Commit(a, AfterFailure(draft[a], a))
      /\ clock' = clock /\ mode' = mode
      /\ pc' = [pc EXCEPT ![a] = "rejected"]
      /\ pc \in [Attempts -> Labels] /\ mode \in {"joined", "separate", "reused"}
  BY LockoutAssumption DEF RecordFailure, Goto, IInv, TypeOK
<1>2. /\ clock \in Nat /\ row \in Row /\ draft[a] \in Row
      /\ mode # "reused" => draft[a] \in {row, Prepared(row)}
  BY <1>1, DraftIsRow
<1>3. mode # "reused" => Paired(draft[a])
  BY <1>2, FunctionsKeepPairs DEF IInv, TypeOK, Paired
<1>4. /\ AfterFailure(draft[a], a) \in Row
      /\ mode # "reused" => Paired(AfterFailure(draft[a], a))
  BY <1>2, <1>3, FunctionsOnRows, FunctionsKeepPairs
<1>5. pc' \in [Attempts -> Labels]
  BY <1>1 DEF Labels
<1>6. Counting'
  BY FailureCounts
<1> QED
  BY <1>1, <1>4, <1>5, <1>6, EndOfTransaction

\* A recorded success keeps the invariant.
LEMMA RecordSuccessStep ==
  ASSUME IInv, NEW a \in Attempts, RecordSuccess(a)
  PROVE  IInv'
<1>1. /\ holder = a /\ pc[a] = "success" /\ Commit(a, Fresh)
      /\ clock' = clock /\ mode' = mode
      /\ pc' = [pc EXCEPT ![a] = "accepted"]
      /\ pc \in [Attempts -> Labels]
  BY DEF RecordSuccess, Cleared, Goto, IInv, TypeOK
<1>2. /\ clock \in Nat /\ row \in Row /\ Fresh \in Row
  BY <1>1, DraftIsRow, FunctionsOnRows
<1>3. Paired(Fresh)
  BY DEF Paired, Fresh
<1>4. Counting'
  BY <1>1, <1>2, CommitLeaves, ClearedCounts DEF Counting
<1>5. pc' \in [Attempts -> Labels]
  BY <1>1 DEF Labels
<1> QED
  BY <1>1, <1>2, <1>3, <1>4, <1>5, EndOfTransaction

\* A rollback keeps the invariant.
LEMMA AbortStep ==
  ASSUME IInv, NEW a \in Attempts, Abort(a)
  PROVE  IInv'
<1>1. /\ holder = a /\ holder' = None /\ row' = row /\ clock' = clock /\ mode' = mode
      /\ draft' = [draft EXCEPT ![a] = None]
      /\ pc' = [pc EXCEPT ![a] = "aborted"]
      /\ pc[a] \in {"prepare", "verify", "failure", "success"}
  BY DEF Abort, IInv, DraftsAreCurrent
<1>2. /\ pc \in [Attempts -> Labels] /\ clock \in Nat
      /\ draft \in [Attempts -> Row \cup {None}]
  BY DEF IInv, TypeOK
<1>3. TypeOK'
  BY <1>1, <1>2 DEF IInv, TypeOK, Labels
<1>4. DraftsAreCurrent'
  BY <1>1, <1>2, NoneIsNoRow DEF IInv, DraftsAreCurrent
<1>5. mode = "joined" =>
        \A b \in Attempts : pc'[b] \notin {"verify", "failure", "success"}
  BY <1>1, <1>2, AdmittedRow
<1>6. AdmittedHoldsLock' /\ ChecksOnlyActive'
  BY <1>1, <1>5 DEF AdmittedHoldsLock, ChecksOnlyActive
<1>7. Counting'
  BY <1>1, <1>2, SameRowCounts
<1> QED
  BY <1>3, <1>4, <1>6, <1>7 DEF IInv, Counting

\* Disabling the account keeps the invariant.
LEMMA DisableStep ==
  ASSUME IInv, Disable
  PROVE  IInv'
<1>1. /\ holder = None /\ holder' = None /\ mode' = mode /\ clock' = clock
      /\ draft' = draft /\ pc' = pc
      /\ row' = [row EXCEPT !.status = "disabled"]
      /\ row \in Row
  BY DEF Disable, IInv, TypeOK
<1>2. /\ row' \in Row /\ row'.status = "disabled"
      /\ row'.count = row.count /\ row'.window = row.window
      /\ row'.until = row.until /\ row'.strikes = row.strikes
  BY <1>1 DEF Row
<1>3. TypeOK'
  BY <1>1, <1>2 DEF IInv, TypeOK
<1>4. DraftsAreCurrent'
  BY <1>1, NoneIsNoRow DEF IInv, DraftsAreCurrent
<1>5. AdmittedHoldsLock' /\ ChecksOnlyActive'
  BY <1>1, NoneIsNoRow DEF IInv, AdmittedHoldsLock, ChecksOnlyActive
<1>6. mode # "reused" => StrikesArePast'
  BY <1>1, <1>2 DEF IInv, StrikesArePast
<1>7. mode # "reused" => CountIsExact' /\ ThresholdCloses'
  BY <1>2 DEF IInv, CountIsExact, ThresholdCloses
<1> QED
  BY <1>1, <1>3, <1>4, <1>5, <1>6, <1>7 DEF IInv

\* Every step keeps the invariant.
LEMMA StepInvariant == IInv /\ [Next]_vars => IInv'
<1> SUFFICES ASSUME IInv, [Next]_vars PROVE IInv'
  OBVIOUS
<1>1. ASSUME NEW a \in Attempts, Start(a) \/ Step(a) \/ Abort(a)
      PROVE  IInv'
  BY <1>1, LocalSteps, LockRowStep, DenyStep, AdmitStep, RecordFailureStep,
     RecordSuccessStep, AbortStep DEF Step
<1>2. CASE Disable
  BY <1>2, DisableStep
<1>3. CASE Tick
  <2>1. CASE Attempts = {}
    <3>1. /\ row' = row /\ mode' = mode /\ holder' = holder /\ draft' = draft /\ pc' = pc
          /\ clock \in Nat /\ clock' \in Nat /\ clock <= clock'
      BY <1>3 DEF Tick, IInv, TypeOK
    <3>2. TypeOK'
      BY <3>1 DEF IInv, TypeOK
    <3>3. DraftsAreCurrent' /\ AdmittedHoldsLock' /\ ChecksOnlyActive'
      BY <2>1 DEF DraftsAreCurrent, AdmittedHoldsLock, ChecksOnlyActive
    <3>4. Counting'
      BY <3>1, SameRowCounts
    <3> QED
      BY <3>2, <3>3, <3>4 DEF IInv, Counting
  <2>2. CASE \E a \in Attempts : TRUE
    BY <1>3, <2>2, LocalSteps
  <2> QED
    BY <2>1, <2>2
<1>4. CASE UNCHANGED vars
  <2>1. /\ row' = row /\ mode' = mode /\ holder' = holder /\ draft' = draft
        /\ pc' = pc /\ clock' = clock /\ clock \in Nat
    BY <1>4 DEF vars, IInv, TypeOK
  <2>2. TypeOK' /\ DraftsAreCurrent' /\ AdmittedHoldsLock' /\ ChecksOnlyActive'
    BY <2>1 DEF IInv, TypeOK, DraftsAreCurrent, AdmittedHoldsLock, ChecksOnlyActive,
                Prepared, Cleared
  <2>3. Counting'
    BY <2>1, SameRowCounts
  <2> QED
    BY <2>2, <2>3 DEF IInv, Counting
<1> QED
  BY <1>1, <1>2, <1>3, <1>4 DEF Next

----------------------------------------------------------------------------

\* The inductive invariant holds of every behaviour, however transactions are used.
THEOREM Invariance == Spec => []IInv
<1> QED
  BY InitInvariant, StepInvariant, PTL DEF Spec

\* The types, and with rows read afresh the pairing of the columns (lockout.py 64-68).
THEOREM TypeCorrect == Spec => []TypeOK
<1>1. IInv => TypeOK
  BY DEF IInv
<1> QED
  BY <1>1, Invariance, PTL

\* Concurrent failures are neither dropped nor counted twice, whatever the number of
\* attempts, as long as no call sees an object of an earlier one (lockout.py 12-13).
THEOREM NoCountIsLost == Spec => [](mode # "reused" => CountIsExact)
<1>1. IInv => (mode # "reused" => CountIsExact)
  BY DEF IInv
<1> QED
  BY <1>1, Invariance, PTL

\* An account with enough failures in its window is not left active.
THEOREM ThresholdIsEnforced == Spec => [](mode # "reused" => ThresholdCloses)
<1>1. IInv => (mode # "reused" => ThresholdCloses)
  BY DEF IInv
<1> QED
  BY <1>1, Invariance, PTL

\* In one transaction per attempt, no password is checked of an account that is
\* disabled or under a lock.
THEOREM PasswordsOfActiveOnly == Spec => []ChecksOnlyActive
<1>1. IInv => ChecksOnlyActive
  BY DEF IInv
<1> QED
  BY <1>1, Invariance, PTL

\* A step of a joined attempt writes the row only if it has been admitted.
LEMMA JoinedWrites ==
  ASSUME IInv, [Next]_vars, mode = "joined", row' # row
  PROVE  \/ Disable
         \/ /\ row.status # "disabled"
            /\ row.status = "locked" => row.until <= clock
<1>1. ASSUME NEW a \in Attempts, Step(a) \/ Start(a) \/ Abort(a)
      PROVE  pc[a] \in {"failure", "success"}
  <2>1. ~LockRow(a) /\ ~Verify(a) /\ ~Start(a) /\ ~Abort(a) /\ ~Deny(a) /\ ~Admit(a)
    BY DenyStep, AdmitStep DEF LockRow, Verify, Start, Abort
  <2> QED
    BY <1>1, <2>1 DEF Step, RecordFailure, RecordSuccess, Goto
<1>2. ~Tick /\ ~UNCHANGED vars
  BY DEF Tick, vars
<1> QED
  BY <1>1, <1>2, AdmittedRow DEF Next

\* In one transaction per attempt a login never brings back a disabled account.
THEOREM DisabledStays == Spec => DisabledIsFinalIfJoined
<1>1. IInv /\ [Next]_vars =>
        [mode = "joined" /\ row.status = "disabled" => row'.status = "disabled"]_vars
  <2> SUFFICES ASSUME IInv, [Next]_vars, mode = "joined", row.status = "disabled"
               PROVE  row'.status = "disabled"
    OBVIOUS
  <2>1. CASE row' = row
    BY <2>1
  <2>2. CASE row' # row
    <3>1. Disable
      BY <2>2, JoinedWrites
    <3> QED
      BY <3>1 DEF Disable, IInv, TypeOK, Row
  <2> QED
    BY <2>1, <2>2
<1> QED
  BY <1>1, Invariance, PTL DEF Spec, DisabledIsFinalIfJoined

\* In one transaction per attempt a lock is lifted by a login only once it is over.
THEOREM LocksRunTheirTime == Spec => UnlocksOnlyWhenDueIfJoined
<1>1. IInv /\ [Next]_vars =>
        [mode = "joined" /\ row.status = "locked" /\ row'.status = "active" =>
           row.until <= clock]_vars
  <2> SUFFICES ASSUME IInv, [Next]_vars, mode = "joined", row.status = "locked",
                      row'.status = "active"
               PROVE  row.until <= clock
    OBVIOUS
  <2>1. row' # row
    OBVIOUS
  <2>2. ~Disable
    BY DEF Disable, IInv, TypeOK, Row
  <2> QED
    BY <2>1, <2>2, JoinedWrites
<1> QED
  BY <1>1, Invariance, PTL DEF Spec, UnlocksOnlyWhenDueIfJoined
=============================================================================

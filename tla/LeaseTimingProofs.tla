------------------------- MODULE LeaseTimingProofs --------------------------
(***************************************************************************)
(* Theorems about LeaseTiming for every configuration that validate_timing *)
(* accepts, every number of workers and of leases, every capacity, every   *)
(* size of batches and sweeps, and every lateness and transaction length   *)
(* within BudgetAssumption.                                                *)
(***************************************************************************)
EXTENDS LeaseTiming, FiniteSetTheorems, TLAPS

-----------------------------------------------------------------------------
(* Types.                                                                  *)

\* The bounds of the timers are numbers.
LEMMA BoundsAreNumbers ==
  /\ Cycle \in Nat
  /\ OldestAge \in Nat
  /\ OldestTimer \in Nat
  /\ transaction_time <= OldestAge
  /\ transaction_time <= OldestTimer
  <1>1. (2 * max_batches_per_sweep + 1) * transaction_time >= transaction_time
    BY BudgetAssumption, ReaperAssumption
  <1>2. (2 * max_batches_per_sweep + 1) * transaction_time \in Nat
    BY BudgetAssumption, ReaperAssumption
  <1>3. Cycle \in Nat /\ Cycle >= transaction_time
    BY <1>1, <1>2, BudgetAssumption, ReaperAssumption DEF Cycle
  <1> QED
    BY <1>3, TimingAssumption, BudgetAssumption DEF OldestAge, OldestTimer

\* The types of the columns of a lease.
LeaseTypes ==
  /\ held \in [Leases -> BOOLEAN]
  /\ lease_left \in [Leases -> Int]
  /\ \A l \in Leases : lease_left[l] <= lease_ttl_s
  /\ skipped \in [Leases -> 0 .. MaxSkips]

\* The types of a renewal task.
RenewalTypes ==
  /\ renewal \in [Leases -> {"none", "ended", "failed"} \cup Renewing]
  /\ timer \in [Leases -> 0 .. OldestTimer]

\* The types of a worker and its row.
WorkerTypes ==
  /\ process \in [Workers -> {"up", "draining", "gone"}]
  /\ status \in [Workers -> {"ALIVE", "DRAINING", "DEAD"}]
  /\ hb_age \in [Workers -> 0 .. OldestAge]

\* The types of the reaper.
ReaperTypes ==
  /\ pass \in {"sleep", "expired", "hung", "workers"}
  /\ round \in 0 .. max_batches_per_sweep - 1
  /\ rtimer \in 0 .. reaper_period_s + transaction_time

\* They are all of TypeOK.
LEMMA TypeParts ==
  LeaseTypes' /\ RenewalTypes' /\ WorkerTypes' /\ ReaperTypes' => TypeOK'
  BY DEF TypeOK, LeaseTypes, RenewalTypes, WorkerTypes, ReaperTypes

\* What is left alone keeps its types.
LEMMA UnchangedTypes ==
  ASSUME TypeOK
  PROVE  /\ UNCHANGED lease_vars => LeaseTypes'
         /\ UNCHANGED renewal_vars => RenewalTypes'
         /\ UNCHANGED worker_vars => WorkerTypes'
         /\ UNCHANGED reaper_vars => ReaperTypes'
  BY DEF TypeOK, LeaseTypes, RenewalTypes, WorkerTypes, ReaperTypes,
         lease_vars, renewal_vars, worker_vars, reaper_vars

\* Giving leases up keeps their types.
LEMMA NoLeaseType ==
  ASSUME TypeOK, NEW S, NoLease(S)
  PROVE  LeaseTypes'
  <1>1. held' \in [Leases -> BOOLEAN]
    BY DEF TypeOK, NoLease
  <1>2. /\ lease_left' \in [Leases -> Int]
        /\ \A l \in Leases : lease_left'[l] <= lease_ttl_s
    BY TimingAssumption DEF TypeOK, NoLease
  <1>3. skipped' \in [Leases -> 0 .. MaxSkips]
    BY ReaperAssumption DEF TypeOK, NoLease
  <1> QED
    BY <1>1, <1>2, <1>3 DEF LeaseTypes

\* Granting or extending leases keeps their types.
LEMMA LeaseType ==
  ASSUME TypeOK, NEW S, NEW left \in Int, left <= lease_ttl_s,
         Lease(S, left)
  PROVE  LeaseTypes'
  <1>1. held' \in [Leases -> BOOLEAN]
    BY DEF TypeOK, Lease
  <1>2. /\ lease_left' \in [Leases -> Int]
        /\ \A l \in Leases : lease_left'[l] <= lease_ttl_s
    BY DEF TypeOK, Lease
  <1>3. skipped' \in [Leases -> 0 .. MaxSkips]
    BY ReaperAssumption DEF TypeOK, Lease
  <1> QED
    BY <1>1, <1>2, <1>3 DEF LeaseTypes

\* Renewal tasks that are moved on keep their types.
LEMMA RenewalType ==
  ASSUME TypeOK, NEW S,
         NEW r \in {"none", "ended", "failed", "waiting", "in_tx"},
         Renewal(S, r)
  PROVE  RenewalTypes'
  <1>1. renewal' \in [Leases -> {"none", "ended", "failed"} \cup Renewing]
    BY DEF TypeOK, Renewal, Renewing
  <1>2. timer' \in [Leases -> 0 .. OldestTimer]
    BY BoundsAreNumbers DEF TypeOK, Renewal
  <1> QED
    BY <1>1, <1>2 DEF RenewalTypes

\* A batch keeps the types: the count of batches stays below its bound.
LEMMA BatchType ==
  ASSUME TypeOK, NEW n, NEW next \in {"hung", "workers"}, BatchEnds(n, next)
  PROVE  RenewalTypes' /\ WorkerTypes' /\ ReaperTypes'
  <1>1. round' \in 0 .. max_batches_per_sweep - 1
    BY ReaperAssumption DEF TypeOK, BatchEnds, LastBatch
  <1>2. /\ pass' \in {"sleep", "expired", "hung", "workers"}
        /\ rtimer' \in 0 .. reaper_period_s + transaction_time
    BY ReaperAssumption, BudgetAssumption DEF TypeOK, BatchEnds
  <1> QED
    BY <1>1, <1>2, UnchangedTypes DEF ReaperTypes, BatchEnds

\* A tick keeps the types: no timer runs past its bound.
LEMMA TickType ==
  ASSUME TypeOK, Tick
  PROVE  TypeOK'
  <1>1. /\ lease_left' \in [Leases -> Int]
        /\ \A l \in Leases : lease_left'[l] <= lease_ttl_s
    BY TimingAssumption DEF TypeOK, Tick
  <1>2. timer' \in [Leases -> 0 .. OldestTimer]
    BY BoundsAreNumbers DEF TypeOK, Tick, AtMost
  <1>3. hb_age' \in [Workers -> 0 .. OldestAge]
    BY BoundsAreNumbers DEF TypeOK, Tick, AtMost
  <1>4. rtimer' \in 0 .. reaper_period_s + transaction_time
    BY ReaperAssumption, BudgetAssumption DEF TypeOK, Tick, ReaperDue
  <1> QED
    BY <1>1, <1>2, <1>3, <1>4 DEF TypeOK, Tick

\* What a worker does keeps the types.
LEMMA WorkerType ==
  ASSUME TypeOK, NEW w \in Workers, Worker(w)
  PROVE  TypeOK'
  <1>1. CASE claim(w)
    <2>1. PICK S : /\ \E d \in 0 .. transaction_time : Lease(S, lease_ttl_s - d)
                   /\ Renewal(S, "waiting")
      BY <1>1 DEF claim
    <2>2. LeaseTypes'
      BY <2>1, LeaseType, TimingAssumption, BudgetAssumption
    <2>3. RenewalTypes'
      BY <2>1, RenewalType
    <2> QED
      BY <1>1, <2>2, <2>3, UnchangedTypes, TypeParts DEF claim
  <1>2. CASE heartbeat(w)
    <2>1. RenewalTypes'
      BY <1>2, RenewalType, UnchangedTypes DEF heartbeat, Exit
    <2>2. WorkerTypes'
      BY <1>2, BoundsAreNumbers, BudgetAssumption
         DEF heartbeat, Exit, TypeOK, WorkerTypes
    <2> QED
      BY <1>2, <2>1, <2>2, UnchangedTypes, TypeParts DEF heartbeat
  <1>3. CASE crash(w)
    <2>1. RenewalTypes'
      BY <1>3, RenewalType DEF crash, Exit
    <2>2. WorkerTypes'
      BY <1>3 DEF crash, Exit, TypeOK, WorkerTypes
    <2> QED
      BY <1>3, <2>1, <2>2, UnchangedTypes, TypeParts DEF crash
  <1>4. CASE drain_begins(w)
    <2>1. WorkerTypes'
      BY <1>4 DEF drain_begins, MayWriteStatus, TypeOK, WorkerTypes
    <2> QED
      BY <1>4, <2>1, UnchangedTypes, TypeParts DEF drain_begins
  <1>5. CASE drain_ends(w)
    <2>1. RenewalTypes'
      BY <1>5, RenewalType DEF drain_ends, Exit
    <2>2. WorkerTypes'
      BY <1>5 DEF drain_ends, Exit, MayWriteStatus, TypeOK, WorkerTypes
    <2>3. LeaseTypes'
      BY <1>5, NoLeaseType DEF drain_ends
    <2> QED
      BY <1>5, <2>1, <2>2, <2>3, UnchangedTypes, TypeParts DEF drain_ends
  <1>6. CASE register_worker(w)
    <2>1. WorkerTypes'
      BY <1>6, BoundsAreNumbers, BudgetAssumption
         DEF register_worker, TypeOK, WorkerTypes
    <2> QED
      BY <1>6, <2>1, UnchangedTypes, TypeParts DEF register_worker
  <1> QED
    BY <1>1, <1>2, <1>3, <1>4, <1>5, <1>6 DEF Worker

\* What an attempt does keeps the types.
LEMMA AttemptType ==
  ASSUME TypeOK, NEW l \in Leases, Attempt(l)
  PROVE  TypeOK'
  <1>1. UNCHANGED <<worker_vars, reaper_vars>>
    BY DEF Attempt, renew_begin, renew_lease, renewal_raises, finish,
           attempt_raises
  <1>2. RenewalTypes'
    BY RenewalType DEF Attempt, renew_begin, renew_lease, renewal_raises,
                       finish, attempt_raises
  <1>3. CASE renew_lease(l) /\ held[l] /\ lease_left[l] + timer[l] > 0
    <2>1. Lease({l}, lease_ttl_s - timer[l])
      BY <1>3 DEF renew_lease
    <2>2. /\ lease_ttl_s - timer[l] \in Int
          /\ lease_ttl_s - timer[l] <= lease_ttl_s
      BY TimingAssumption, BoundsAreNumbers DEF TypeOK
    <2>3. LeaseTypes'
      BY <2>1, <2>2, LeaseType
    <2> QED
      BY <1>1, <1>2, <2>3, UnchangedTypes, TypeParts
  <1>4. CASE renew_lease(l) /\ ~(held[l] /\ lease_left[l] + timer[l] > 0)
    BY <1>1, <1>2, <1>4, UnchangedTypes, TypeParts DEF renew_lease
  <1>5. CASE finish(l)
    BY <1>1, <1>2, <1>5, UnchangedTypes, NoLeaseType, TypeParts DEF finish
  <1>6. CASE renew_begin(l) \/ renewal_raises(l) \/ attempt_raises(l)
    BY <1>1, <1>2, <1>6, UnchangedTypes, TypeParts
       DEF renew_begin, renewal_raises, attempt_raises
  <1> QED
    BY <1>3, <1>4, <1>5, <1>6 DEF Attempt

\* What reap_expired_leases does to the rows: those of S are taken, those of
\* L were locked.
Reaped(S, L) ==
  /\ held' = [l \in Leases |-> held[l] /\ l \notin S]
  /\ lease_left' = [l \in Leases |-> IF l \in S THEN 0 ELSE lease_left[l]]
  /\ skipped' = [l \in Leases |->
                   IF l \in S THEN 0
                   ELSE IF l \in L THEN skipped[l] + 1 ELSE skipped[l]]

\* A batch of expired leases has a set of rows that were locked and one of
\* those that it took.
LEMMA ABatch ==
  ASSUME reap_expired_leases
  PROVE  \E L \in SUBSET Overdue : \E S \in SUBSET (Overdue \ L) :
           /\ \A l \in L : skipped[l] < MaxSkips
           /\ IsBatch(S, Overdue \ L)
           /\ Reaped(S, L)
           /\ BatchEnds(Cardinality(S), "hung")
  BY DEF reap_expired_leases, Reaped

\* What the reaper does keeps the types.
LEMMA ReaperType ==
  ASSUME TypeOK, Reaper
  PROVE  TypeOK'
  <1>1. CASE reap_expired_leases
    <2>1. PICK L \in SUBSET Overdue : \E S \in SUBSET (Overdue \ L) :
            /\ \A l \in L : skipped[l] < MaxSkips
            /\ Reaped(S, L)
            /\ BatchEnds(Cardinality(S), "hung")
      BY <1>1, ABatch
    <2>2. PICK S \in SUBSET (Overdue \ L) :
            Reaped(S, L) /\ BatchEnds(Cardinality(S), "hung")
      BY <2>1
    <2>3. RenewalTypes' /\ WorkerTypes' /\ ReaperTypes'
      BY <2>2, BatchType
    <2>4. /\ held' \in [Leases -> BOOLEAN]
          /\ lease_left' \in [Leases -> Int]
          /\ \A l \in Leases : lease_left'[l] <= lease_ttl_s
      BY <2>2, TimingAssumption DEF TypeOK, Reaped
    <2>5. skipped' \in [Leases -> 0 .. MaxSkips]
      BY <2>1, <2>2, ReaperAssumption DEF TypeOK, Reaped
    <2> QED
      BY <2>3, <2>4, <2>5, TypeParts DEF LeaseTypes
  <1>2. CASE reap_hung_tasks
    <2>1. PICK S : NoLease(S) /\ BatchEnds(Cardinality(S), "workers")
      BY <1>2 DEF reap_hung_tasks
    <2> QED
      BY <2>1, NoLeaseType, BatchType, TypeParts
  <1>3. CASE mark_dead_workers
    BY <1>3, ReaperAssumption, BudgetAssumption
       DEF TypeOK, mark_dead_workers, lease_vars, renewal_vars
  <1>4. CASE next_sweep
    BY <1>4, ReaperAssumption, BudgetAssumption
       DEF TypeOK, next_sweep, lease_vars, renewal_vars, worker_vars
  <1> QED
    BY <1>1, <1>2, <1>3, <1>4 DEF Reaper

\* Every step keeps the types.
LEMMA TypeKept ==
  ASSUME TypeOK, [Next]_vars
  PROVE  TypeOK'
  <1>1. CASE Tick
    BY <1>1, TickType
  <1>2. CASE Reaper
    BY <1>2, ReaperType
  <1>3. CASE \E w \in Workers : Worker(w)
    BY <1>3, WorkerType
  <1>4. CASE \E l \in Leases : Attempt(l)
    BY <1>4, AttemptType
  <1>5. CASE UNCHANGED vars
    BY <1>5, UnchangedTypes, TypeParts DEF vars
  <1> QED
    BY <1>1, <1>2, <1>3, <1>4, <1>5 DEF Next

-----------------------------------------------------------------------------
(* The inductive invariant.  NoNeedlessExpiry and LiveWorkerNotMarkedDead  *)
(* say nothing of how far the timers have got, SilenceIsNoticed nothing of *)
(* where the reaper is: each part below adds that.                         *)

\* The reaper is on time, and counts batches in the passes that have them.
ReaperOnTime ==
  /\ rtimer <= IF pass = "sleep" THEN reaper_period_s ELSE transaction_time
  /\ pass \in {"sleep", "workers"} => round = 0

\* What is left of a lease covers what the renewal may still take.
LeaseBudgetOf(l) ==
  /\ renewal[l] = "waiting" =>
       /\ timer[l] <= lease_renew_interval_s + pause_budget
       /\ held[l] =>
            lease_left[l] >= lease_ttl_s - transaction_time - timer[l]
  /\ renewal[l] = "in_tx" =>
       /\ timer[l] <= transaction_time
       /\ held[l] =>
            lease_left[l] >= lease_ttl_s - transaction_time
              - lease_renew_interval_s - pause_budget - timer[l]

\* That holds for every attempt whose renewals are on time.
LeaseBudget == \A l \in Leases \ late : LeaseBudgetOf(l)

\* The last heartbeat of a worker that is up is recent.
LiveBudget ==
  \A w \in Workers \ late : process[w] = "up" =>
    /\ status[w] = "ALIVE"
    /\ hb_age[w] <= heartbeat_interval_s + pause_budget + transaction_time

\* The most time from the last worker pass to the beginning of this batch.
BatchStart ==
  CASE pass = "sleep" -> 0
    [] pass = "expired" -> reaper_period_s + round * transaction_time
    [] pass = "hung" ->
         reaper_period_s + (max_batches_per_sweep + round) * transaction_time
    [] pass = "workers" ->
         reaper_period_s + (2 * max_batches_per_sweep) * transaction_time

\* The most time since the last worker pass.
Elapsed == rtimer + BatchStart

\* Who is ALIVE has been silent at most since before the last worker pass,
\* whose now() was the time of its BEGIN.
SilenceBudget ==
  \A w \in Workers : status[w] = "ALIVE" =>
    hb_age[w] <= worker_dead_after_s + transaction_time + Elapsed

\* The four parts, and the types.
IInv == TypeOK /\ ReaperOnTime /\ LeaseBudget /\ LiveBudget /\ SilenceBudget

-----------------------------------------------------------------------------
(* The reaper is on time.                                                  *)

\* Workers and attempts leave the reaper alone.
LEMMA ReaperLeftAlone ==
  /\ \A w \in Workers : Worker(w) => UNCHANGED reaper_vars
  /\ \A l \in Leases : Attempt(l) => UNCHANGED reaper_vars
  BY DEF Worker, claim, heartbeat, crash, drain_begins, drain_ends,
         register_worker, Attempt, renew_begin, renew_lease, renewal_raises,
         finish, attempt_raises

\* Every step keeps the reaper on time: the clock waits for it.
LEMMA ReaperStaysOnTime ==
  ASSUME TypeOK, ReaperOnTime, [Next]_vars
  PROVE  ReaperOnTime'
  <1> USE TimingAssumption, BudgetAssumption, ReaperAssumption
      DEF TypeOK, ReaperOnTime
  <1>1. CASE Tick
    BY <1>1 DEF Tick, ReaperDue
  <1>2. CASE reap_expired_leases
    <2>1. PICK n : BatchEnds(n, "hung")
      BY <1>2 DEF reap_expired_leases
    <2> QED
      BY <1>2, <2>1 DEF reap_expired_leases, BatchEnds
  <1>3. CASE reap_hung_tasks
    <2>1. PICK n : BatchEnds(n, "workers")
      BY <1>3 DEF reap_hung_tasks
    <2> QED
      BY <1>3, <2>1 DEF reap_hung_tasks, BatchEnds
  <1>4. CASE mark_dead_workers
    BY <1>4 DEF mark_dead_workers
  <1>5. CASE next_sweep
    BY <1>5 DEF next_sweep
  <1>6. CASE UNCHANGED reaper_vars
    BY <1>6 DEF reaper_vars
  <1>7. CASE UNCHANGED vars
    BY <1>6, <1>7 DEF vars
  <1> QED
    BY <1>1, <1>2, <1>3, <1>4, <1>5, <1>6, <1>7, ReaperLeftAlone
       DEF Next, Reaper

-----------------------------------------------------------------------------
(* The budget of a lease.                                                  *)

\* A step that leaves a renewal where it is, and its lease as it is or none,
\* keeps the budget.
LEMMA LeftAloneKeepsBudget ==
  ASSUME TypeOK, NEW k \in Leases, LeaseBudgetOf(k),
         renewal'[k] = renewal[k], timer'[k] = timer[k],
         held'[k] => held[k] /\ lease_left'[k] = lease_left[k]
  PROVE  LeaseBudgetOf(k)'
  BY DEF LeaseBudgetOf

\* So does one that ends the renewal.
LEMMA EndedKeepsBudget ==
  ASSUME NEW k \in Leases, renewal'[k] \in {"none", "ended", "failed"}
  PROVE  LeaseBudgetOf(k)'
  BY DEF LeaseBudgetOf

\* A tick uses up one unit of the lease and of the budget together.
LEMMA TickKeepsLeaseBudget ==
  ASSUME TypeOK, NEW k \in Leases \ late, LeaseBudgetOf(k), Tick
  PROVE  LeaseBudgetOf(k)'
  <1> USE TimingAssumption, BudgetAssumption DEF TypeOK, LeaseBudgetOf
  <1>1. /\ ~RenewalDue(k)
        /\ renewal'[k] = renewal[k] /\ held'[k] = held[k]
        /\ held[k] => lease_left'[k] = lease_left[k] - 1
        /\ renewal[k] \in Renewing =>
             timer'[k] = AtMost(timer[k] + 1, OldestTimer)
    BY DEF Tick
  <1>2. CASE renewal[k] = "waiting"
    <2>1. timer[k] < lease_renew_interval_s + pause_budget
      BY <1>1, <1>2, BoundsAreNumbers DEF RenewalDue, RenewEvery
    <2>2. timer'[k] = timer[k] + 1
      BY <1>1, <1>2, <2>1, BoundsAreNumbers DEF Renewing, AtMost, OldestTimer
    <2> QED
      BY <1>1, <1>2, <2>1, <2>2, BoundsAreNumbers
  <1>3. CASE renewal[k] = "in_tx"
    <2>1. timer[k] < transaction_time
      BY <1>1, <1>3, BoundsAreNumbers DEF RenewalDue
    <2>2. timer'[k] = timer[k] + 1
      BY <1>1, <1>3, <2>1, BoundsAreNumbers DEF Renewing, AtMost, OldestTimer
    <2> QED
      BY <1>1, <1>3, <2>1, <2>2, BoundsAreNumbers
  <1>4. CASE renewal[k] \notin Renewing
    BY <1>1, <1>4 DEF Renewing
  <1> QED
    BY <1>2, <1>3, <1>4 DEF Renewing

\* A step of a worker keeps the budget of every lease: those it claims are
\* whole, those it gives up have no renewal.
LEMMA WorkerKeepsLeaseBudget ==
  ASSUME TypeOK, NEW k \in Leases, LeaseBudgetOf(k),
         NEW w \in Workers, Worker(w)
  PROVE  LeaseBudgetOf(k)'
  <1>1. CASE claim(w)
    <2>1. PICK S : /\ \E d \in 0 .. transaction_time : Lease(S, lease_ttl_s - d)
                   /\ Renewal(S, "waiting")
      BY <1>1 DEF claim
    <2>2. PICK d \in 0 .. transaction_time : Lease(S, lease_ttl_s - d)
      BY <2>1
    <2>3. CASE k \in S
      <3>1. /\ renewal'[k] = "waiting" /\ timer'[k] = 0
            /\ lease_left'[k] = lease_ttl_s - d
        BY <2>1, <2>2, <2>3 DEF Lease, Renewal
      <3> QED
        BY <3>1, TimingAssumption, BudgetAssumption DEF LeaseBudgetOf
    <2>4. CASE k \notin S
      <3>1. /\ renewal'[k] = renewal[k] /\ timer'[k] = timer[k]
            /\ held'[k] = held[k] /\ lease_left'[k] = lease_left[k]
        BY <2>1, <2>2, <2>4 DEF Lease, Renewal, TypeOK
      <3> QED
        BY <3>1, LeftAloneKeepsBudget
    <2> QED
      BY <2>3, <2>4
  <1>2. ASSUME Exit(w),
               held'[k] => held[k] /\ lease_left'[k] = lease_left[k]
        PROVE  LeaseBudgetOf(k)'
    <2>1. \/ renewal'[k] = "none"
          \/ renewal'[k] = renewal[k] /\ timer'[k] = timer[k]
      BY <1>2 DEF Exit, Renewal
    <2> QED
      BY <1>2, <2>1, LeftAloneKeepsBudget, EndedKeepsBudget
  <1>3. ASSUME UNCHANGED <<lease_vars, renewal_vars>>
        PROVE  LeaseBudgetOf(k)'
    BY <1>3, LeftAloneKeepsBudget DEF lease_vars, renewal_vars
  <1>4. CASE heartbeat(w)
    BY <1>2, <1>3, <1>4 DEF heartbeat, lease_vars
  <1>5. CASE crash(w)
    BY <1>2, <1>5 DEF crash, lease_vars
  <1>6. CASE drain_ends(w)
    <2>1. held'[k] => held[k] /\ lease_left'[k] = lease_left[k]
      BY <1>6 DEF drain_ends, NoLease
    <2> QED
      BY <1>2, <1>6, <2>1 DEF drain_ends
  <1>7. CASE drain_begins(w) \/ register_worker(w)
    BY <1>3, <1>7 DEF drain_begins, register_worker
  <1> QED
    BY <1>1, <1>4, <1>5, <1>6, <1>7 DEF Worker

\* A step of an attempt leaves the lease and the renewal of another alone.
LEMMA AttemptLeavesOthers ==
  ASSUME TypeOK, NEW k \in Leases, NEW l \in Leases, k # l, Attempt(l)
  PROVE  /\ held'[k] = held[k] /\ lease_left'[k] = lease_left[k]
         /\ skipped'[k] = skipped[k]
         /\ renewal'[k] = renewal[k] /\ timer'[k] = timer[k]
  <1> USE DEF TypeOK, Lease, NoLease, Renewal, lease_vars
  <1>1. CASE renew_begin(l)
    BY <1>1 DEF renew_begin
  <1>2. CASE renew_lease(l)
    BY <1>2 DEF renew_lease
  <1>3. CASE renewal_raises(l)
    BY <1>3 DEF renewal_raises
  <1>4. CASE finish(l)
    BY <1>4 DEF finish
  <1>5. CASE attempt_raises(l)
    BY <1>5 DEF attempt_raises
  <1> QED
    BY <1>1, <1>2, <1>3, <1>4, <1>5 DEF Attempt

\* A step of an attempt keeps the budget of its own lease.
LEMMA AttemptKeepsOwnBudget ==
  ASSUME TypeOK, NEW k \in Leases, LeaseBudgetOf(k), Attempt(k)
  PROVE  LeaseBudgetOf(k)'
  <1> USE TimingAssumption, BudgetAssumption, BoundsAreNumbers
      DEF TypeOK, LeaseBudgetOf
  <1>1. CASE renew_begin(k)
    <2>1. /\ renewal[k] = "waiting"
          /\ renewal'[k] = "in_tx" /\ timer'[k] = 0
          /\ lease_left'[k] = lease_left[k] /\ held'[k] = held[k]
      BY <1>1 DEF renew_begin, Renewal, lease_vars
    <2> QED
      BY <2>1
  <1>2. CASE renew_lease(k) /\ held[k] /\ lease_left[k] + timer[k] > 0
    <2>1. /\ renewal[k] = "in_tx"
          /\ renewal'[k] = "waiting" /\ timer'[k] = 0
          /\ lease_left'[k] = lease_ttl_s - timer[k]
      BY <1>2 DEF renew_lease, Lease, Renewal
    <2> QED
      BY <2>1
  <1>3. CASE renew_lease(k) /\ ~(held[k] /\ lease_left[k] + timer[k] > 0)
    <2>1. renewal'[k] = "ended"
      BY <1>3 DEF renew_lease, Renewal
    <2> QED
      BY <2>1
  <1>4. CASE renewal_raises(k) \/ finish(k) \/ attempt_raises(k)
    <2>1. renewal'[k] \in {"none", "failed"}
      BY <1>4 DEF renewal_raises, finish, attempt_raises, Renewal
    <2> QED
      BY <2>1
  <1> QED
    BY <1>1, <1>2, <1>3, <1>4 DEF Attempt

\* Every step keeps the budget of every lease that is renewed on time.
LEMMA LeaseBudgetKept ==
  ASSUME TypeOK, LeaseBudget, [Next]_vars
  PROVE  LeaseBudget'
  <1> SUFFICES ASSUME NEW k \in Leases \ late
               PROVE  LeaseBudgetOf(k)'
    BY DEF LeaseBudget
  <1>0. LeaseBudgetOf(k)
    BY DEF LeaseBudget
  <1>1. CASE Tick
    BY <1>0, <1>1, TickKeepsLeaseBudget
  <1>2. CASE reap_expired_leases \/ reap_hung_tasks
    <2>1. held'[k] => held[k] /\ lease_left'[k] = lease_left[k]
      BY <1>2 DEF reap_expired_leases, reap_hung_tasks, NoLease
    <2>2. UNCHANGED renewal_vars
      BY <1>2 DEF reap_expired_leases, reap_hung_tasks, BatchEnds
    <2> QED
      BY <1>0, <2>1, <2>2, LeftAloneKeepsBudget DEF renewal_vars
  <1>3. CASE mark_dead_workers \/ next_sweep \/ UNCHANGED vars
    BY <1>0, <1>3, LeftAloneKeepsBudget
       DEF mark_dead_workers, next_sweep, vars, lease_vars, renewal_vars
  <1>4. ASSUME NEW w \in Workers, Worker(w)
        PROVE  LeaseBudgetOf(k)'
    BY <1>0, <1>4, WorkerKeepsLeaseBudget
  <1>5. ASSUME NEW l \in Leases, Attempt(l)
        PROVE  LeaseBudgetOf(k)'
    <2>1. CASE k = l
      BY <1>0, <1>5, <2>1, AttemptKeepsOwnBudget
    <2>2. CASE k # l
      BY <1>0, <1>5, <2>2, AttemptLeavesOthers, LeftAloneKeepsBudget
    <2> QED
      BY <2>1, <2>2
  <1> QED
    BY <1>1, <1>2, <1>3, <1>4, <1>5 DEF Next, Reaper

-----------------------------------------------------------------------------
(* Heartbeats.                                                             *)

\* A step of a worker leaves process, status and heartbeat of another alone.
LEMMA WorkerLeavesOthers ==
  ASSUME TypeOK, NEW v \in Workers, NEW w \in Workers, v # w, Worker(w)
  PROVE  /\ process'[v] = process[v] /\ status'[v] = status[v]
         /\ hb_age'[v] = hb_age[v]
  <1> USE DEF TypeOK, Exit, MayWriteStatus, worker_vars
  <1>1. CASE claim(w)
    BY <1>1 DEF claim
  <1>2. CASE heartbeat(w)
    BY <1>2 DEF heartbeat
  <1>3. CASE crash(w)
    BY <1>3 DEF crash
  <1>4. CASE drain_begins(w)
    BY <1>4 DEF drain_begins
  <1>5. CASE drain_ends(w)
    BY <1>5 DEF drain_ends
  <1>6. CASE register_worker(w)
    BY <1>6 DEF register_worker
  <1> QED
    BY <1>1, <1>2, <1>3, <1>4, <1>5, <1>6 DEF Worker

\* Attempts and batches leave all of that alone.
LEMMA WorkersLeftAlone ==
  /\ \A l \in Leases : Attempt(l) => UNCHANGED worker_vars
  /\ reap_expired_leases \/ reap_hung_tasks \/ next_sweep
       => UNCHANGED worker_vars
  BY DEF Attempt, renew_begin, renew_lease, renewal_raises, finish,
         attempt_raises, reap_expired_leases, reap_hung_tasks, next_sweep,
         BatchEnds

\* Every step keeps the workers that are up and on time ALIVE, with a recent
\* heartbeat.
LEMMA LiveBudgetKept ==
  ASSUME TypeOK, LiveBudget, [Next]_vars
  PROVE  LiveBudget'
  <1> DEFINE Recent(w) == process[w] = "up" =>
        /\ status[w] = "ALIVE"
        /\ hb_age[w] <= heartbeat_interval_s + pause_budget + transaction_time
  <1> SUFFICES ASSUME NEW v \in Workers \ late
               PROVE  Recent(v)'
    BY DEF LiveBudget
  <1> USE TimingAssumption, BudgetAssumption, BoundsAreNumbers DEF TypeOK
  <1>0. Recent(v)
    BY DEF LiveBudget
  <1>1. CASE Tick
    <2>1. /\ ~HeartbeatDue(v)
          /\ process'[v] = process[v] /\ status'[v] = status[v]
          /\ hb_age'[v] <= hb_age[v] + 1
      BY <1>1 DEF Tick, AtMost
    <2>2. hb_age[v] \in Nat /\ hb_age'[v] \in Nat
      BY <1>1, TickType
    <2> QED
      BY <1>0, <2>1, <2>2 DEF HeartbeatDue
  <1>2. CASE UNCHANGED worker_vars
    BY <1>0, <1>2 DEF worker_vars
  <1>3. CASE UNCHANGED vars
    BY <1>2, <1>3 DEF vars
  <1>4. CASE mark_dead_workers
    <2>1. rtimer \in Nat /\ hb_age[v] \in Nat
      BY ReaperAssumption
    <2>2. process[v] = "up" => ~Silent(v)
      BY <1>0, <2>1 DEF Silent, validate_timing
    <2>3. /\ process'[v] = process[v] /\ hb_age'[v] = hb_age[v]
          /\ status'[v] = IF Silent(v) THEN "DEAD" ELSE status[v]
      BY <1>4 DEF mark_dead_workers
    <2> QED
      BY <1>0, <2>2, <2>3
  <1>5. ASSUME NEW w \in Workers, Worker(w)
        PROVE  Recent(v)'
    <2>1. CASE v # w
      <3>1. /\ process'[v] = process[v] /\ status'[v] = status[v]
            /\ hb_age'[v] = hb_age[v]
        BY <1>5, <2>1, WorkerLeavesOthers
      <3> QED
        BY <1>0, <3>1
    <2>2. CASE v = w /\ heartbeat(w)
      <3>1. status[v] = "ALIVE"
        BY <1>0, <2>2 DEF heartbeat
      <3>2. /\ status'[v] = status[v]
            /\ hb_age'[v] \in 0 .. transaction_time
        BY <2>2, <3>1 DEF heartbeat
      <3> QED
        BY <3>1, <3>2
    <2>3. CASE v = w /\ (crash(w) \/ drain_begins(w) \/ drain_ends(w))
      <3>1. process'[v] # "up"
        BY <2>3 DEF crash, drain_begins, drain_ends, Exit
      <3> QED
        BY <3>1
    <2>4. CASE v = w /\ register_worker(w)
      <3>1. status'[v] = "ALIVE" /\ hb_age'[v] \in 0 .. transaction_time
        BY <2>4 DEF register_worker
      <3> QED
        BY <3>1
    <2>5. CASE claim(w)
      BY <1>2, <2>5 DEF claim
    <2> QED
      BY <1>5, <2>1, <2>2, <2>3, <2>4, <2>5 DEF Worker
  <1> QED
    BY <1>1, <1>2, <1>3, <1>4, <1>5, WorkersLeftAlone DEF Next, Reaper

\* A factor t for each batch: the next batch is within the next t.
LEMMA BatchTime ==
  ASSUME NEW a \in Nat, NEW b \in Nat, NEW t \in Nat, a < b
  PROVE  a * t + t <= b * t
  <1>1. (b - a) * t >= t
    BY SMT
  <1>2. (b - a) * t = b * t - a * t
    BY SMT
  <1> QED
    BY <1>1, <1>2, SMT

\* And takes one more t.
LEMMA NextBatchTime ==
  ASSUME NEW a \in Nat, NEW t \in Nat
  PROVE  a * t \in Nat /\ (a + 1) * t = a * t + t
  BY SMT

\* Elapsed is a number, and never more than a cycle.
LEMMA ElapsedWithinCycle ==
  TypeOK /\ ReaperOnTime => Elapsed \in Nat /\ Elapsed <= Cycle
  <1> SUFFICES ASSUME TypeOK, ReaperOnTime
               PROVE  Elapsed \in Nat /\ Elapsed <= Cycle
    OBVIOUS
  <1> DEFINE t == transaction_time
             m == max_batches_per_sweep
  <1>1. /\ t \in Nat /\ m \in Nat /\ round \in Nat /\ round < m
        /\ rtimer \in Nat /\ reaper_period_s \in Nat
    BY BudgetAssumption, ReaperAssumption DEF TypeOK
  <1>2. /\ round * t \in Nat /\ (m + round) * t \in Nat
        /\ (2 * m) * t \in Nat /\ (2 * m + 1) * t \in Nat
    BY <1>1
  <1>3. (2 * m) * t + t <= (2 * m + 1) * t
    BY <1>1, BatchTime
  <1>4. round * t + t <= (2 * m + 1) * t
    BY <1>1, BatchTime
  <1>5. (m + round) * t + t <= (2 * m + 1) * t
    BY <1>1, BatchTime
  <1>6. pass \in {"sleep", "expired", "hung", "workers"}
    BY DEF TypeOK
  <1>7. /\ pass = "sleep" => rtimer <= reaper_period_s
        /\ pass # "sleep" => rtimer <= t
    BY DEF ReaperOnTime
  <1>8. CASE pass = "sleep"
    <2>1. Elapsed = rtimer + 0
      BY <1>8 DEF Elapsed, BatchStart
    <2> QED
      BY <1>1, <1>2, <1>7, <1>8, <2>1 DEF Cycle
  <1>9. CASE pass = "expired"
    <2>1. Elapsed = rtimer + (reaper_period_s + round * t)
      BY <1>9 DEF Elapsed, BatchStart
    <2> QED
      BY <1>1, <1>2, <1>4, <1>7, <1>9, <2>1 DEF Cycle
  <1>10. CASE pass = "hung"
    <2>1. Elapsed = rtimer + (reaper_period_s + (m + round) * t)
      BY <1>10 DEF Elapsed, BatchStart
    <2> QED
      BY <1>1, <1>2, <1>5, <1>7, <1>10, <2>1 DEF Cycle
  <1>11. CASE pass = "workers"
    <2>1. Elapsed = rtimer + (reaper_period_s + (2 * m) * t)
      BY <1>11 DEF Elapsed, BatchStart
    <2> QED
      BY <1>1, <1>2, <1>3, <1>7, <1>11, <2>1 DEF Cycle
  <1> QED
    BY <1>6, <1>8, <1>9, <1>10, <1>11

\* Elapsed grows by one with the clock, and no step of the reaper but the
\* worker pass lowers it: a batch that is done counts for all of its time.
LEMMA ElapsedGrows ==
  ASSUME TypeOK, ReaperOnTime, TypeOK', ReaperOnTime'
  PROVE  /\ Tick => Elapsed' = Elapsed + 1
         /\ \/ reap_expired_leases \/ reap_hung_tasks \/ next_sweep
            \/ UNCHANGED reaper_vars
            => Elapsed' >= Elapsed
  <1> DEFINE t == transaction_time
             m == max_batches_per_sweep
  <1>1. /\ t \in Nat /\ m \in Nat /\ reaper_period_s \in Nat
        /\ round \in Nat /\ round + 1 <= m /\ round' \in Nat
        /\ rtimer \in Nat /\ rtimer' \in Nat
    BY BudgetAssumption, ReaperAssumption DEF TypeOK
  <1>2. /\ round * t \in Nat /\ (m + round) * t \in Nat
        /\ (round + 1) * t \in Nat /\ (m + (round + 1)) * t \in Nat
        /\ m * t \in Nat /\ (2 * m) * t \in Nat /\ 0 * t = 0
        /\ (m + 0) * t = m * t
    BY <1>1
  <1>3. BatchStart \in Nat
    BY <1>1, <1>2 DEF BatchStart, TypeOK
  <1>4. UNCHANGED <<pass, round>> => BatchStart' = BatchStart
    BY DEF BatchStart
  <1>5. Tick => Elapsed' = Elapsed + 1
    BY <1>1, <1>3, <1>4 DEF Tick, Elapsed
  <1>6. ASSUME reap_expired_leases PROVE Elapsed' >= Elapsed
    <2>1. PICK n : BatchEnds(n, "hung")
      BY <1>6 DEF reap_expired_leases
    <2>2. /\ pass = "expired" /\ rtimer <= t /\ rtimer' = 0
          /\ \/ pass' = "hung" /\ round' = 0
             \/ pass' = "expired" /\ round' = round + 1
      BY <1>6, <2>1 DEF reap_expired_leases, BatchEnds, ReaperOnTime
    <2>3. Elapsed = rtimer + (reaper_period_s + round * t)
      BY <2>2 DEF Elapsed, BatchStart
    <2>4. CASE pass' = "hung" /\ round' = 0
      <3>1. Elapsed' = reaper_period_s + m * t
        BY <1>1, <1>2, <2>2, <2>4 DEF Elapsed, BatchStart
      <3>2. round * t + t <= m * t
        BY <1>1, BatchTime
      <3> QED
        BY <1>1, <1>2, <2>2, <2>3, <3>1, <3>2
    <2>5. CASE pass' = "expired" /\ round' = round + 1
      <3>1. Elapsed' = reaper_period_s + (round + 1) * t
        BY <1>1, <1>2, <2>2, <2>5 DEF Elapsed, BatchStart
      <3>2. round * t + t <= (round + 1) * t
        BY <1>1, BatchTime
      <3> QED
        BY <1>1, <1>2, <2>2, <2>3, <3>1, <3>2
    <2> QED
      BY <2>2, <2>4, <2>5
  <1>7. ASSUME reap_hung_tasks PROVE Elapsed' >= Elapsed
    <2>1. PICK n : BatchEnds(n, "workers")
      BY <1>7 DEF reap_hung_tasks
    <2>2. /\ pass = "hung" /\ rtimer <= t /\ rtimer' = 0
          /\ \/ pass' = "workers" /\ round' = 0
             \/ pass' = "hung" /\ round' = round + 1
      BY <1>7, <2>1 DEF reap_hung_tasks, BatchEnds, ReaperOnTime
    <2>3. Elapsed = rtimer + (reaper_period_s + (m + round) * t)
      BY <2>2 DEF Elapsed, BatchStart
    <2>4. CASE pass' = "workers" /\ round' = 0
      <3>1. Elapsed' = reaper_period_s + (2 * m) * t
        BY <1>1, <1>2, <2>2, <2>4 DEF Elapsed, BatchStart
      <3>2. (m + round) * t + t <= (2 * m) * t
        BY <1>1, BatchTime
      <3> QED
        BY <1>1, <1>2, <2>2, <2>3, <3>1, <3>2
    <2>5. CASE pass' = "hung" /\ round' = round + 1
      <3>1. Elapsed' = reaper_period_s + (m + (round + 1)) * t
        BY <1>1, <1>2, <2>2, <2>5 DEF Elapsed, BatchStart
      <3>2. (m + round) * t + t <= (m + (round + 1)) * t
        BY <1>1, BatchTime
      <3> QED
        BY <1>1, <1>2, <2>2, <2>3, <3>1, <3>2
    <2> QED
      BY <2>2, <2>4, <2>5
  <1>8. ASSUME next_sweep PROVE Elapsed' >= Elapsed
    BY <1>1, <1>2, <1>8 DEF next_sweep, Elapsed, BatchStart, ReaperOnTime
  <1>9. ASSUME UNCHANGED reaper_vars PROVE Elapsed' >= Elapsed
    BY <1>1, <1>9, <1>3, <1>4 DEF reaper_vars, Elapsed
  <1> QED
    BY <1>5, <1>6, <1>7, <1>8, <1>9

\* The primed numbers.
LEMMA NextNumbers ==
  ASSUME TypeOK', ReaperOnTime'
  PROVE  Elapsed' \in Nat
  <1>1. PICK r \in Nat : r = round'
    BY ReaperAssumption DEF TypeOK
  <1>2. /\ r * transaction_time \in Nat
        /\ (max_batches_per_sweep + r) * transaction_time \in Nat
        /\ (2 * max_batches_per_sweep) * transaction_time \in Nat
        /\ reaper_period_s \in Nat /\ max_batches_per_sweep \in Nat
    BY ReaperAssumption, BudgetAssumption
  <1>3. rtimer' \in Nat
    BY ReaperAssumption, BudgetAssumption DEF TypeOK
  <1> QED
    BY <1>1, <1>2, <1>3 DEF Elapsed, BatchStart, TypeOK

\* Every step keeps the silence of those who are ALIVE within the time since
\* the last worker pass began.
LEMMA SilenceBudgetKept ==
  ASSUME TypeOK, ReaperOnTime, SilenceBudget, [Next]_vars,
         TypeOK', ReaperOnTime'
  PROVE  SilenceBudget'
  <1> DEFINE Quiet(w) == status[w] = "ALIVE" =>
        hb_age[w] <= worker_dead_after_s + transaction_time + Elapsed
  <1> SUFFICES ASSUME NEW v \in Workers
               PROVE  Quiet(v)'
    BY DEF SilenceBudget
  <1>0. /\ Quiet(v)
        /\ Elapsed \in Nat /\ Elapsed' \in Nat
        /\ hb_age[v] \in Nat /\ hb_age'[v] \in Nat
        /\ worker_dead_after_s \in Nat /\ transaction_time \in Nat
    BY ElapsedWithinCycle, NextNumbers, BoundsAreNumbers, TimingAssumption,
       BudgetAssumption DEF SilenceBudget, TypeOK
  <1>1. CASE Tick
    <2>1. status'[v] = status[v] /\ hb_age'[v] <= hb_age[v] + 1
      BY <1>1, BoundsAreNumbers DEF Tick, AtMost, TypeOK
    <2> QED
      BY <1>0, <1>1, <2>1, ElapsedGrows
  <1>2. ASSUME UNCHANGED worker_vars, Elapsed' >= Elapsed
        PROVE  Quiet(v)'
    BY <1>0, <1>2 DEF worker_vars
  <1>3. CASE reap_expired_leases \/ reap_hung_tasks \/ next_sweep
    BY <1>2, <1>3, WorkersLeftAlone, ElapsedGrows
  <1>4. CASE mark_dead_workers
    <2>1. status'[v] = "ALIVE" => ~Silent(v) /\ hb_age'[v] = hb_age[v]
      BY <1>4 DEF mark_dead_workers
    <2>2. rtimer \in Nat /\ rtimer <= transaction_time
      BY <1>4, ReaperAssumption, BudgetAssumption
         DEF mark_dead_workers, ReaperOnTime, TypeOK
    <2> QED
      BY <1>0, <2>1, <2>2 DEF Silent
  <1>5. ASSUME NEW w \in Workers, Worker(w)
        PROVE  Quiet(v)'
    <2>1. Elapsed' >= Elapsed
      BY <1>5, ReaperLeftAlone, ElapsedGrows
    <2>2. \/ status'[v] = status[v] /\ hb_age'[v] = hb_age[v]
          \/ hb_age'[v] <= transaction_time
          \/ status'[v] # "ALIVE"
      <3>1. CASE v # w
        BY <1>5, <3>1, WorkerLeavesOthers
      <3>2. CASE v = w
        BY <1>5, <3>2, BudgetAssumption
           DEF Worker, claim, heartbeat, crash, drain_begins, drain_ends,
               MayWriteStatus, register_worker, worker_vars, TypeOK
      <3> QED
        BY <3>1, <3>2
    <2> QED
      BY <1>0, <2>1, <2>2
  <1>6. ASSUME NEW l \in Leases, Attempt(l)
        PROVE  Quiet(v)'
    BY <1>2, <1>6, ReaperLeftAlone, WorkersLeftAlone, ElapsedGrows
  <1>7. CASE UNCHANGED vars
    BY <1>2, <1>7, ElapsedGrows DEF vars
  <1> QED
    BY <1>1, <1>3, <1>4, <1>5, <1>6, <1>7 DEF Next, Reaper

-----------------------------------------------------------------------------
(* Recovery.  An expired lease waits for the batches that take the older   *)
(* ones: its place in that queue never gets worse, and every batch that    *)
(* passes it over takes batch_size of those before it, or found its row    *)
(* locked.                                                                 *)

\* The leases that are reaped before this one, or perhaps.
Older(l) == {k \in Leases \ {l} : held[k] /\ lease_left[k] <= lease_left[l]}

\* What reap_expired_leases looks for, and whether this batch can see it.
Expired(l) == held[l] /\ lease_left[l] < 0
Seen(l) == lease_left[l] + rtimer < 0

\* How many batches of a sweep are behind the lease, as seen from the next
\* sweep: one that began before it expired is lost.
Pos(l) == CASE pass = "sleep" -> 0
            [] pass = "expired" -> IF Seen(l) THEN round ELSE round + 1
            [] pass \in {"hung", "workers"} -> max_batches_per_sweep

\* The time that RecoveryIsTimely allows.
Bound(l) == (Sweeps + skipped[l]) * Cycle + transaction_time

\* A lease needs at most x batches before its own; that is c batches and a
\* sweeps from the beginning of this sweep; and it is recovered in time if
\* every sweep and every batch takes as long as it may.
InTime(l, x, a, c) ==
  /\ Cardinality(Older(l)) < (x + 1) * batch_size
  /\ x + Pos(l) <= a * max_batches_per_sweep + c
  /\ reaper_period_s - Elapsed - lease_left[l]
       + a * Cycle + (c + 1) * transaction_time <= Bound(l)
  /\ pass = "expired" /\ ~Seen(l) => c = round

\* The place of a batch in its sweep.
Batch == 0 .. max_batches_per_sweep - 1

\* A batch takes the lease in time.
OnTime(l) == \E x \in Nat, a \in Nat, c \in Batch : InTime(l, x, a, c)

\* That is so for every expired lease.
RecoveryBudget == \A l \in Leases : Expired(l) => OnTime(l)

\* The division in Sweeps leaves nothing over.
LEMMA RoundsAreEnough ==
  ASSUME NEW n \in Nat, NEW d \in Nat \ {0}
  PROVE  n \div d \in Nat /\ n < (n \div d + 1) * d
  BY SMT

\* What is older than a lease is part of the other leases.
LEMMA OlderIsFinite ==
  ASSUME NEW l \in Leases
  PROVE  /\ IsFiniteSet(Older(l)) /\ Cardinality(Older(l)) \in Nat
         /\ Cardinality(Leases) \in Nat
         /\ Cardinality(Older(l)) <= Cardinality(Leases) - 1
  <1>1. IsFiniteSet(Leases) /\ Cardinality(Leases) \in Nat
    BY ReaperAssumption, FS_CardinalityType
  <1>2. /\ IsFiniteSet(Leases \ {l})
        /\ Cardinality(Leases \ {l}) = Cardinality(Leases) - 1
    BY <1>1, FS_RemoveElement
  <1>3. Older(l) \in SUBSET (Leases \ {l})
    BY DEF Older
  <1>4. /\ IsFiniteSet(Older(l))
        /\ Cardinality(Older(l)) <= Cardinality(Leases \ {l})
    BY <1>2, <1>3, FS_Subset
  <1>5. Cardinality(Older(l)) \in Nat
    BY <1>4, FS_CardinalityType
  <1> QED
    BY <1>1, <1>2, <1>4, <1>5

\* In Sweeps sweeps every lease can be reaped.
LEMMA SweepsAreEnough ==
  ASSUME NEW l \in Leases
  PROVE  /\ Sweeps \in Nat /\ Sweeps >= 1
         /\ Cardinality(Leases) - 1
              < (Sweeps * max_batches_per_sweep) * batch_size
  <1> DEFINE n == Cardinality(Leases) - 1
             m == max_batches_per_sweep
             b == batch_size
             s == n \div (b * m)
  <1>1. n \in Nat
    BY OlderIsFinite
  <1>2. m \in Nat \ {0} /\ b \in Nat \ {0}
    BY ReaperAssumption
  <1>3. b * m \in Nat \ {0}
    BY <1>2
  <1>4. s \in Nat /\ n < (s + 1) * (b * m)
    <2> HIDE DEF n, m, b
    <2> QED
      BY <1>1, <1>3, RoundsAreEnough
  <1>5. Sweeps = s + 1
    BY <1>4 DEF Sweeps
  <1> HIDE DEF s, n
  <1>6. (s + 1) * (b * m) = ((s + 1) * m) * b
    BY <1>2, <1>4
  <1> QED
    BY <1>4, <1>5, <1>6 DEF n

\* The bound is a whole number of cycles and a transaction.
LEMMA BoundIsNumber ==
  ASSUME NEW s \in Nat, NEW k \in Nat, NEW c \in Nat, NEW t \in Nat
  PROVE  /\ (s + k) * c + t \in Nat
         /\ (s + k) * c + t >= s * c + t
         /\ s * c \in Nat
         /\ (s + (k + 1)) * c + t = (s + k) * c + t + c
  BY SMT

\* The numbers InTime speaks of.
LEMMA RecoveryNumbers ==
  ASSUME TypeOK, ReaperOnTime, NEW l \in Leases
  PROVE  /\ Bound(l) \in Nat
         /\ Cycle \in Nat /\ Elapsed \in Nat /\ Elapsed <= Cycle
         /\ reaper_period_s \in Nat /\ transaction_time \in Nat
         /\ max_batches_per_sweep \in Nat /\ max_batches_per_sweep >= 1
         /\ batch_size \in Nat /\ batch_size >= 1
         /\ lease_left[l] \in Int
         /\ round \in Nat /\ round + 1 <= max_batches_per_sweep
         /\ rtimer \in Nat
         /\ Pos(l) \in Nat /\ Pos(l) <= max_batches_per_sweep
         /\ Batch \subseteq Nat
  <1>1. Sweeps \in Nat /\ Cycle \in Nat /\ skipped[l] \in Nat
    BY SweepsAreEnough, BoundsAreNumbers, ReaperAssumption DEF TypeOK
  <1>2. Bound(l) \in Nat
    BY <1>1, BudgetAssumption, BoundIsNumber DEF Bound
  <1>3. Elapsed \in Nat /\ Elapsed <= Cycle
    BY ElapsedWithinCycle
  <1>4. /\ max_batches_per_sweep \in Nat /\ max_batches_per_sweep >= 1
        /\ round \in Nat /\ round + 1 <= max_batches_per_sweep
    BY ReaperAssumption DEF TypeOK
  <1>5. Pos(l) \in Nat /\ Pos(l) <= max_batches_per_sweep
    BY <1>4 DEF Pos, TypeOK
  <1>6. batch_size \in Nat /\ batch_size >= 1 /\ reaper_period_s \in Nat
    BY ReaperAssumption
  <1>7. /\ transaction_time \in Nat /\ lease_left[l] \in Int
        /\ rtimer \in Nat /\ Batch \subseteq Nat
    BY BudgetAssumption, ReaperAssumption DEF TypeOK, Batch
  <1> QED
    BY <1>1, <1>2, <1>3, <1>4, <1>5, <1>6, <1>7

\* The same after a step.
LEMMA NextRecoveryNumbers ==
  ASSUME TypeOK', ReaperOnTime', NEW l \in Leases
  PROVE  /\ Elapsed' \in Nat /\ Pos(l)' \in Nat /\ Bound(l)' \in Nat
         /\ lease_left'[l] \in Int /\ skipped'[l] \in Nat
  <1>1. PICK r \in Nat : r = round'
    BY ReaperAssumption DEF TypeOK
  <1>2. Pos(l)' \in Nat
    BY <1>1, ReaperAssumption DEF Pos, TypeOK
  <1>3. lease_left'[l] \in Int /\ skipped'[l] \in Nat
    BY ReaperAssumption DEF TypeOK
  <1>4. PICK k \in Nat : k = skipped'[l]
    BY <1>3
  <1>5. Sweeps \in Nat /\ Cycle \in Nat
    BY SweepsAreEnough, BoundsAreNumbers
  <1>6. (Sweeps + k) * Cycle + transaction_time \in Nat
    BY <1>5, BudgetAssumption, BoundIsNumber
  <1> QED
    BY <1>2, <1>3, <1>4, <1>6, NextNumbers DEF Bound

\* A sweep back, a sweep less to wait.
LEMMA OneSweepLess ==
  ASSUME NEW a \in Nat, NEW k \in Nat, a >= 1
  PROVE  a * k = (a - 1) * k + k /\ (a - 1) * k \in Nat
  BY SMT

\* The time of InTime is never negative: an expired lease that is in time has
\* not been expired for longer than the bound.
LEMMA InTimeIsEnough ==
  ASSUME TypeOK, ReaperOnTime, NEW l \in Leases,
         NEW x \in Nat, NEW a \in Nat, NEW c \in Batch, InTime(l, x, a, c)
  PROVE  lease_left[l] >= - Bound(l)
  <1> DEFINE m == max_batches_per_sweep
             t == transaction_time
             B == Bound(l)
             P == Pos(l)
  <1>0. /\ B \in Nat /\ Cycle \in Nat /\ Elapsed \in Nat /\ Elapsed <= Cycle
        /\ reaper_period_s \in Nat /\ t \in Nat /\ m \in Nat /\ m >= 1
        /\ lease_left[l] \in Int /\ round \in Nat /\ rtimer \in Nat
        /\ P \in Nat /\ c \in Nat /\ c < m
    BY RecoveryNumbers DEF Batch
  <1>1. /\ x + P <= a * m + c
        /\ reaper_period_s - Elapsed - lease_left[l] + a * Cycle + (c + 1) * t
             <= B
    BY DEF InTime
  <1>2. (c + 1) * t \in Nat /\ a * Cycle \in Nat
    BY <1>0
  <1>3. CASE a >= 1
    <2>1. a * Cycle = (a - 1) * Cycle + Cycle /\ (a - 1) * Cycle \in Nat
      BY <1>0, <1>3, OneSweepLess
    <2> HIDE DEF B, t, P
    <2> QED
      BY <1>0, <1>1, <1>2, <2>1 DEF B
  <1>4. CASE a = 0
    <2>1. a * m = 0 /\ a * Cycle = 0
      BY <1>0, <1>4
    <2>2. P <= c
      <3> HIDE DEF B, P, t, m
      <3> QED
        BY <1>0, <1>1, <2>1
    <2>3. pass \in {"sleep", "expired"}
      BY <1>0, <2>2 DEF Pos, TypeOK
    <2>4. Elapsed <= reaper_period_s + (c + 1) * t
      <3>1. CASE pass = "sleep"
        <4>1. Elapsed = rtimer + 0 /\ rtimer <= reaper_period_s
          BY <3>1 DEF Elapsed, BatchStart, ReaperOnTime
        <4> QED
          BY <1>0, <1>2, <4>1
      <3>2. CASE pass = "expired"
        <4>1. /\ Elapsed = rtimer + (reaper_period_s + round * t)
              /\ rtimer <= t
          BY <3>2 DEF Elapsed, BatchStart, ReaperOnTime
        <4>2. round <= c
          BY <1>0, <2>2, <3>2 DEF Pos
        <4>3. round * t + t <= (c + 1) * t
          BY <1>0, <4>2, BatchTime
        <4>4. round * t \in Nat
          BY <1>0
        <4> QED
          BY <1>0, <1>2, <4>1, <4>3, <4>4
      <3> QED
        BY <2>3, <3>1, <3>2
    <2> HIDE DEF B, t, P
    <2> QED
      BY <1>0, <1>1, <1>2, <2>1, <2>4 DEF B
  <1> QED
    BY <1>3, <1>4

\* A smaller summand keeps a sum within its bound.
LEMMA SumStays ==
  ASSUME NEW x \in Nat, NEW p \in Nat, NEW q \in Nat, NEW k \in Nat,
         NEW c \in Nat, x + p <= k + c, q <= p
  PROVE  x + q <= k + c
  OBVIOUS

\* With no more leases before it and no less time gone by, a lease stays in
\* time.
LEMMA InTimeStays ==
  ASSUME TypeOK, ReaperOnTime, TypeOK', ReaperOnTime', NEW l \in Leases,
         NEW x \in Nat, NEW a \in Nat, NEW c \in Batch, InTime(l, x, a, c),
         Older(l)' \subseteq Older(l), Pos(l)' <= Pos(l),
         skipped'[l] = skipped[l],
         Elapsed' - Elapsed >= lease_left[l] - lease_left'[l],
         pass' = "expired" /\ ~Seen(l)' =>
           pass = "expired" /\ ~Seen(l) /\ round' = round
  PROVE  OnTime(l)'
  <1> DEFINE m == max_batches_per_sweep
             B == Bound(l)
             R == (c + 1) * transaction_time
             A == a * Cycle
             X == (x + 1) * batch_size
             K == a * m
             P == Pos(l)
  <1>0. /\ B \in Nat /\ Elapsed \in Nat /\ P \in Nat /\ c \in Nat
        /\ Cycle \in Nat /\ m \in Nat /\ batch_size \in Nat
        /\ reaper_period_s \in Nat /\ transaction_time \in Nat
        /\ lease_left[l] \in Int
    BY RecoveryNumbers
  <1>1. R \in Nat /\ A \in Nat /\ X \in Nat /\ K \in Nat
    BY <1>0
  <1>2. lease_left'[l] \in Int /\ Elapsed' \in Nat /\ Pos(l)' \in Nat
    BY NextRecoveryNumbers
  <1>3. /\ Cardinality(Older(l)) < X
        /\ x + P <= K + c
        /\ reaper_period_s - Elapsed - lease_left[l] + A + R <= B
        /\ pass = "expired" /\ ~Seen(l) => c = round
    BY DEF InTime
  <1>4. Bound(l)' = B
    BY DEF Bound
  <1>5. Pos(l)' <= P
    OBVIOUS
  <1> HIDE DEF B, R, A, X, K, P
  <1>6. /\ Cardinality(Older(l)') <= Cardinality(Older(l))
        /\ Cardinality(Older(l)) \in Nat /\ Cardinality(Older(l)') \in Nat
    <2>1. IsFiniteSet(Older(l)) /\ Cardinality(Older(l)) \in Nat
      BY OlderIsFinite
    <2>2. /\ IsFiniteSet(Older(l)')
          /\ Cardinality(Older(l)') <= Cardinality(Older(l))
      BY <2>1, FS_Subset
    <2>3. Cardinality(Older(l)') \in Nat
      BY <2>2, FS_CardinalityType
    <2> QED
      BY <2>1, <2>2, <2>3
  <1>7. Cardinality(Older(l)') < X
    BY <1>1, <1>3, <1>6
  <1>8. x + Pos(l)' <= K + c
    BY <1>0, <1>1, <1>2, <1>3, <1>5, SumStays
  <1>9. reaper_period_s - Elapsed' - lease_left'[l] + A + R <= B
    BY <1>0, <1>1, <1>2, <1>3
  <1>10. pass' = "expired" /\ ~Seen(l)' => c = round'
    BY <1>3
  <1>11. InTime(l, x, a, c)'
    BY <1>4, <1>7, <1>8, <1>9, <1>10 DEF InTime, R, A, X, K
  <1> QED
    BY <1>11 DEF OnTime, Batch

\* A step that leaves every lease as it is, ends it or makes a good one of it
\* puts none before an expired one.
Leaves(k) == \/ /\ held'[k] = held[k] /\ lease_left'[k] = lease_left[k]
                /\ skipped'[k] = skipped[k]
             \/ ~held'[k]
             \/ lease_left'[k] >= 0

\* What is expired after such a step was so before, with the same place.
LEMMA PlaceIsKept ==
  ASSUME TypeOK, TypeOK', NEW l \in Leases, Expired(l)',
         \A k \in Leases : Leaves(k)
  PROVE  /\ Expired(l) /\ lease_left'[l] = lease_left[l]
         /\ skipped'[l] = skipped[l]
         /\ Older(l)' \subseteq Older(l)
  <1>1. /\ Expired(l) /\ lease_left'[l] = lease_left[l]
        /\ skipped'[l] = skipped[l]
    BY DEF Expired, Leaves, TypeOK
  <1>2. ASSUME NEW k \in Older(l)' PROVE k \in Older(l)
    <2>1. k \in Leases \ {l} /\ held'[k] /\ lease_left'[k] <= lease_left'[l]
      BY <1>2 DEF Older
    <2>2. lease_left'[k] < 0
      BY <2>1 DEF Expired, TypeOK
    <2>3. held'[k] = held[k] /\ lease_left'[k] = lease_left[k]
      <3>1. ~(lease_left'[k] >= 0)
        BY <2>1, <2>2 DEF TypeOK
      <3> QED
        BY <2>1, <3>1, Zenon DEF Leaves
    <2> QED
      BY <1>1, <2>1, <2>3 DEF Older
  <1> QED
    BY <1>1, <1>2

\* If the reaper has not lost ground either, the lease stays in time.
LEMMA RecoveryStays ==
  ASSUME TypeOK, ReaperOnTime, TypeOK', ReaperOnTime', RecoveryBudget,
         NEW l \in Leases, Expired(l)', \A k \in Leases : Leaves(k),
         Pos(l)' <= Pos(l), Elapsed' >= Elapsed,
         pass' = "expired" /\ ~Seen(l)' =>
           pass = "expired" /\ ~Seen(l) /\ round' = round
  PROVE  OnTime(l)'
  <1>1. /\ Expired(l) /\ lease_left'[l] = lease_left[l]
        /\ skipped'[l] = skipped[l]
        /\ Older(l)' \subseteq Older(l)
    BY PlaceIsKept
  <1>2. PICK x \in Nat, a \in Nat, c \in Batch : InTime(l, x, a, c)
    BY <1>1 DEF RecoveryBudget, OnTime
  <1>3. Elapsed' - Elapsed >= lease_left[l] - lease_left'[l]
    <2>1. Elapsed \in Nat /\ lease_left[l] \in Int
      BY RecoveryNumbers
    <2> QED
      BY <1>1, <2>1, NextNumbers
  <1> QED
    BY <1>1, <1>2, <1>3, InTimeStays

\* No step of a worker puts a lease before an expired one: what it claims is
\* good for now.
LEMMA WorkerLeaves ==
  ASSUME TypeOK, NEW w \in Workers, Worker(w), NEW k \in Leases
  PROVE  Leaves(k)
  <1>1. CASE claim(w)
    <2>1. PICK S : \E d \in 0 .. transaction_time : Lease(S, lease_ttl_s - d)
      BY <1>1 DEF claim
    <2>2. PICK d \in 0 .. transaction_time : Lease(S, lease_ttl_s - d)
      BY <2>1
    <2>3. CASE k \in S
      <3>1. lease_left'[k] = lease_ttl_s - d
        BY <2>2, <2>3 DEF Lease
      <3> QED
        BY <3>1, TimingAssumption, BudgetAssumption
           DEF Leaves, validate_timing
    <2>4. CASE k \notin S
      BY <2>2, <2>4 DEF Lease, Leaves, TypeOK
    <2> QED
      BY <2>3, <2>4
  <1>2. CASE drain_ends(w)
    BY <1>2 DEF drain_ends, NoLease, Leaves, TypeOK
  <1>3. CASE \/ heartbeat(w) \/ crash(w) \/ drain_begins(w)
             \/ register_worker(w)
    BY <1>3 DEF heartbeat, crash, drain_begins, register_worker, lease_vars,
                Leaves
  <1> QED
    BY <1>1, <1>2, <1>3 DEF Worker

\* Nor does one of an attempt: what it renews is good for now.
LEMMA AttemptLeaves ==
  ASSUME TypeOK, NEW l \in Leases, Attempt(l), NEW k \in Leases
  PROVE  Leaves(k)
  <1>1. CASE k # l
    BY <1>1, AttemptLeavesOthers DEF Leaves
  <1>2. CASE k = l
    <2>1. CASE renew_lease(l) /\ held[l] /\ lease_left[l] + timer[l] > 0
      <3>1. lease_left'[k] = lease_ttl_s - timer[l]
        BY <1>2, <2>1 DEF renew_lease, Lease
      <3>2. timer[l] \in 0 .. OldestTimer /\ OldestTimer <= lease_ttl_s
        BY TimingAssumption, BudgetAssumption
           DEF OldestTimer, validate_timing, TypeOK
      <3> QED
        BY <3>1, <3>2, TimingAssumption, BoundsAreNumbers DEF Leaves
    <2>2. CASE finish(l)
      BY <1>2, <2>2 DEF finish, NoLease, Leaves
    <2>3. CASE \/ renew_lease(l) /\ ~(held[l] /\ lease_left[l] + timer[l] > 0)
               \/ renew_begin(l) \/ renewal_raises(l) \/ attempt_raises(l)
      BY <2>3 DEF renew_lease, renew_begin, renewal_raises, attempt_raises,
                  lease_vars, Leaves
    <2> QED
      BY <2>1, <2>2, <2>3 DEF Attempt
  <1> QED
    BY <1>1, <1>2

\* Nor does a batch, or a step that leaves the leases alone.
LEMMA ReaperLeaves ==
  ASSUME TypeOK, NEW k \in Leases
  PROVE  /\ \A S : NoLease(S) => Leaves(k)
         /\ UNCHANGED lease_vars => Leaves(k)
  BY DEF TypeOK, NoLease, lease_vars, Leaves

\* A lease that expires with this tick is in time wherever the reaper is,
\* even if every other lease is older.
LEMMA ExpiryInTime ==
  ASSUME TypeOK, ReaperOnTime, TypeOK', ReaperOnTime', Tick,
         NEW l \in Leases, held[l], lease_left[l] = 0
  PROVE  OnTime(l)'
  <1> DEFINE m == max_batches_per_sweep
             b == batch_size
             t == transaction_time
             p == reaper_period_s
             s == Sweeps - 1
             x == Sweeps * m - 1
  <1>0. /\ Cycle \in Nat /\ Elapsed \in Nat
        /\ p \in Nat /\ t \in Nat /\ m \in Nat /\ m >= 1
        /\ b \in Nat /\ b >= 1 /\ rtimer \in Nat
        /\ round \in Nat /\ round + 1 <= m
    BY RecoveryNumbers
  <1>1. /\ Sweeps \in Nat /\ Sweeps >= 1 /\ s \in Nat
        /\ Sweeps * m = s * m + m /\ s * m \in Nat
        /\ Sweeps * Cycle = s * Cycle + Cycle /\ s * Cycle \in Nat
        /\ Sweeps * Cycle \in Nat
    <2>1. Sweeps \in Nat /\ Sweeps >= 1
      BY SweepsAreEnough
    <2> QED
      BY <1>0, <2>1, OneSweepLess
  <1>2. x \in Nat /\ x + 1 = Sweeps * m
    BY <1>0, <1>1
  <1>3. Cardinality(Older(l)') < (x + 1) * b
    <2>1. Older(l)' \in SUBSET (Leases \ {l})
      BY DEF Older
    <2>2. IsFiniteSet(Leases) /\ Cardinality(Leases) \in Nat
      BY ReaperAssumption, FS_CardinalityType
    <2>3. /\ IsFiniteSet(Leases \ {l})
          /\ Cardinality(Leases \ {l}) = Cardinality(Leases) - 1
      BY <2>2, FS_RemoveElement
    <2>4. /\ IsFiniteSet(Older(l)')
          /\ Cardinality(Older(l)') <= Cardinality(Leases \ {l})
      BY <2>1, <2>3, FS_Subset
    <2>5. Cardinality(Older(l)') \in Nat
      BY <2>4, FS_CardinalityType
    <2>6. Cardinality(Leases) - 1 < (Sweeps * m) * b /\ (Sweeps * m) * b \in Nat
      BY <1>0, <1>1, SweepsAreEnough
    <2>7. Cardinality(Older(l)') < (Sweeps * m) * b
      BY <2>2, <2>3, <2>4, <2>5, <2>6
    <2> QED
      BY <1>2, <2>7
  <1>4. /\ Elapsed' = rtimer + BatchStart + 1
        /\ lease_left'[l] = -1 /\ rtimer' = rtimer + 1
        /\ pass' = pass /\ round' = round
    <2>1. Elapsed' = Elapsed + 1
      BY ElapsedGrows
    <2>2. Elapsed = rtimer + BatchStart
      BY DEF Elapsed
    <2>3. /\ lease_left'[l] = -1 /\ rtimer' = rtimer + 1
          /\ pass' = pass /\ round' = round
      BY DEF Tick
    <2> QED
      BY <2>1, <2>2, <2>3
  <1>5. p + m * t <= Cycle /\ m * t \in Nat
    <2>1. m * t + t <= (2 * m + 1) * t
      BY <1>0, BatchTime
    <2>2. m * t \in Nat /\ (2 * m + 1) * t \in Nat
      BY <1>0
    <2> QED
      BY <1>0, <2>1, <2>2 DEF Cycle
  <1>6. Sweeps * Cycle + t <= Bound(l)' /\ Bound(l)' \in Nat
    <2>1. PICK k \in Nat : k = skipped'[l]
      BY NextRecoveryNumbers
    <2>2. /\ (Sweeps + k) * Cycle + t >= Sweeps * Cycle + t
          /\ (Sweeps + k) * Cycle + t \in Nat
      BY <1>0, <1>1, BoundIsNumber
    <2>3. Bound(l)' = (Sweeps + k) * Cycle + t
      BY <2>1 DEF Bound
    <2> QED
      BY <1>0, <1>1, <2>2, <2>3
  <1> HIDE DEF x, s
  <1>7. ASSUME NEW a \in Nat, NEW c \in Batch,
               x + Pos(l)' <= a * m + c,
               p - Elapsed' + 1 + a * Cycle + (c + 1) * t <= Sweeps * Cycle + t,
               pass' = "expired" => c = round'
        PROVE  OnTime(l)'
    <2>1. c \in Nat /\ a * Cycle \in Nat /\ (c + 1) * t \in Nat
      BY <1>0 DEF Batch
    <2>2. Elapsed' \in Nat
      BY NextNumbers
    <2>3. p - Elapsed' - lease_left'[l] + a * Cycle + (c + 1) * t <= Bound(l)'
      BY <1>0, <1>1, <1>4, <1>6, <1>7, <2>1, <2>2
    <2>4. InTime(l, x, a, c)'
      BY <1>3, <1>7, <2>3 DEF InTime
    <2> QED
      BY <1>2, <2>4 DEF OnTime, Batch
  <1>8. m - 1 \in Batch /\ (m - 1) + 1 = m
    BY <1>0 DEF Batch
  <1>9. CASE pass = "sleep"
    <2>1. BatchStart = 0 /\ Pos(l)' = 0
      BY <1>4, <1>9 DEF BatchStart, Pos
    <2>2. x + Pos(l)' <= s * m + (m - 1)
      BY <1>0, <1>1, <1>2, <2>1
    <2>3. p - Elapsed' + 1 + s * Cycle + m * t <= Sweeps * Cycle + t
      BY <1>0, <1>1, <1>4, <1>5, <2>1
    <2> QED
      BY <1>1, <1>4, <1>7, <1>8, <1>9, <2>2, <2>3
  <1>10. CASE pass = "expired"
    <2>1. ~Seen(l)'
      BY <1>0, <1>4 DEF Seen
    <2>2. Pos(l)' = round + 1
      BY <1>4, <1>10, <2>1 DEF Pos
    <2>3. /\ BatchStart = p + round * t /\ round * t \in Nat
          /\ (round + 1) * t = round * t + t
      <3>1. BatchStart = p + round * t
        BY <1>10 DEF BatchStart
      <3>2. round * t \in Nat /\ (round + 1) * t = round * t + t
        BY <1>0, NextBatchTime
      <3> QED
        BY <3>1, <3>2
    <2>4. round \in Batch
      BY <1>0 DEF Batch
    <2>5. x + Pos(l)' <= Sweeps * m + round
      BY <1>0, <1>1, <1>2, <2>2
    <2>6. p - Elapsed' + 1 + Sweeps * Cycle + (round + 1) * t
            <= Sweeps * Cycle + t
      BY <1>0, <1>1, <1>4, <2>3
    <2> QED
      BY <1>1, <1>4, <1>7, <2>4, <2>5, <2>6
  <1>11. CASE pass \in {"hung", "workers"}
    <2>1. Pos(l)' = m
      BY <1>4, <1>11 DEF Pos
    <2>2. BatchStart \in Nat /\ BatchStart >= p + m * t
      <3>1. CASE pass = "hung"
        <4>1. BatchStart = p + (m + round) * t
          BY <3>1 DEF BatchStart
        <4>2. (m + round) * t >= m * t /\ (m + round) * t \in Nat
          BY <1>0
        <4> QED
          BY <1>0, <1>5, <4>1, <4>2
      <3>2. CASE pass = "workers"
        <4>1. BatchStart = p + (2 * m) * t
          BY <3>2 DEF BatchStart
        <4>2. (2 * m) * t >= m * t /\ (2 * m) * t \in Nat
          BY <1>0
        <4> QED
          BY <1>0, <1>5, <4>1, <4>2
      <3> QED
        BY <1>11, <3>1, <3>2
    <2>3. x + Pos(l)' <= Sweeps * m + (m - 1)
      BY <1>0, <1>1, <1>2, <2>1
    <2>4. p - Elapsed' + 1 + Sweeps * Cycle + m * t <= Sweeps * Cycle + t
      BY <1>0, <1>1, <1>4, <1>5, <2>2
    <2>5. pass' # "expired"
      BY <1>4, <1>11
    <2> QED
      BY <1>1, <1>7, <1>8, <2>3, <2>4, <2>5
  <1> QED
    BY <1>9, <1>10, <1>11 DEF TypeOK

\* The clock: a lease that has expired grows older with it, as its place is
\* waited for.
LEMMA TickRecovery ==
  ASSUME TypeOK, ReaperOnTime, TypeOK', ReaperOnTime', RecoveryBudget,
         Tick, NEW l \in Leases, Expired(l)'
  PROVE  OnTime(l)'
  <1>1. /\ \A k \in Leases :
             held'[k] = held[k]
             /\ (held[k] => lease_left'[k] = lease_left[k] - 1)
        /\ pass' = pass /\ round' = round /\ rtimer' = rtimer + 1
        /\ skipped' = skipped
    BY DEF Tick
  <1>2. held[l] /\ lease_left[l] \in Int /\ lease_left[l] <= 0
        /\ lease_left'[l] = lease_left[l] - 1
    BY <1>1 DEF Expired, TypeOK
  <1>3. CASE lease_left[l] = 0
    BY <1>2, <1>3, ExpiryInTime
  <1>4. CASE lease_left[l] < 0
    <2>1. PICK x \in Nat, a \in Nat, c \in Batch : InTime(l, x, a, c)
      BY <1>2, <1>4 DEF RecoveryBudget, Expired, OnTime
    <2>2. Older(l)' \subseteq Older(l)
      <3>1. ASSUME NEW k \in Older(l)' PROVE k \in Older(l)
        <4>1. k \in Leases \ {l} /\ held'[k]
              /\ lease_left'[k] <= lease_left'[l]
          BY <3>1 DEF Older
        <4>2. held[k] /\ lease_left[k] <= lease_left[l]
          BY <1>1, <1>2, <4>1 DEF TypeOK
        <4> QED
          BY <4>1, <4>2 DEF Older
      <3> QED
        BY <3>1
    <2>3. rtimer \in Nat /\ Elapsed \in Nat /\ Pos(l) \in Nat
      BY RecoveryNumbers
    <2>4. Seen(l)' <=> Seen(l)
      BY <1>1, <1>2, <2>3 DEF Seen
    <2>5. Pos(l)' = Pos(l)
      BY <1>1, <2>4 DEF Pos
    <2>6. Elapsed' - Elapsed >= lease_left[l] - lease_left'[l]
      <3>1. Elapsed' = Elapsed + 1
        BY ElapsedGrows
      <3> QED
        BY <1>2, <2>3, <3>1
    <2>7. Pos(l)' <= Pos(l)
      BY <2>3, <2>5
    <2>8. pass' = "expired" /\ ~Seen(l)' =>
            pass = "expired" /\ ~Seen(l) /\ round' = round
      BY <1>1, <2>4
    <2>9. skipped'[l] = skipped[l]
      BY <1>1
    <2> QED
      BY <2>1, <2>2, <2>6, <2>7, <2>8, <2>9, InTimeStays
  <1> QED
    BY <1>2, <1>3, <1>4

\* The worker pass ends the sweep: the next one is one of those waited for.
LEMMA SweepRecovery ==
  ASSUME TypeOK, ReaperOnTime, TypeOK', ReaperOnTime', RecoveryBudget,
         mark_dead_workers, NEW l \in Leases, Expired(l)'
  PROVE  OnTime(l)'
  <1>1. UNCHANGED <<held, lease_left, skipped>>
    BY DEF mark_dead_workers, lease_vars
  <1>2. Older(l)' = Older(l) /\ Expired(l) /\ Bound(l)' = Bound(l)
    BY <1>1 DEF Older, Expired, Bound
  <1>3. PICK x \in Nat, a \in Nat, c \in Batch : InTime(l, x, a, c)
    BY <1>2 DEF RecoveryBudget, OnTime
  <1> DEFINE m == max_batches_per_sweep
             B == Bound(l)
             R == (c + 1) * transaction_time
             p == reaper_period_s
  <1>4. /\ B \in Nat /\ Cycle \in Nat /\ Elapsed \in Nat /\ Elapsed <= Cycle
        /\ p \in Nat /\ transaction_time \in Nat
        /\ m \in Nat /\ m >= 1 /\ lease_left[l] \in Int
        /\ c \in Nat /\ c < m
    BY RecoveryNumbers DEF Batch
  <1>5. Pos(l) = m /\ Pos(l)' = 0 /\ Elapsed' = 0 /\ pass' = "sleep"
    <2>1. pass = "workers" /\ pass' = "sleep" /\ rtimer' = 0
      BY DEF mark_dead_workers
    <2> QED
      BY <2>1 DEF Pos, Elapsed, BatchStart
  <1>6. a >= 1
    <2>1. x + m <= a * m + c
      BY <1>3, <1>5 DEF InTime
    <2>2. CASE a = 0
      <3>1. a * m = 0
        BY <1>4, <2>2
      <3> QED
        BY <1>4, <2>1, <3>1
    <2> QED
      BY <2>2
  <1>7. /\ a * m = (a - 1) * m + m /\ (a - 1) * m \in Nat
        /\ a * Cycle = (a - 1) * Cycle + Cycle /\ (a - 1) * Cycle \in Nat
        /\ R \in Nat /\ a - 1 \in Nat
    BY <1>4, <1>6, OneSweepLess
  <1>8. x + Pos(l)' <= (a - 1) * m + c
    <2>1. x + m <= a * m + c
      BY <1>3, <1>5 DEF InTime
    <2> QED
      BY <1>4, <1>5, <1>7, <2>1
  <1>9. p - Elapsed' - lease_left'[l] + (a - 1) * Cycle + R <= B
    <2>1. p - Elapsed - lease_left[l] + a * Cycle + R <= B
      BY <1>3 DEF InTime
    <2>2. lease_left'[l] = lease_left[l]
      BY <1>1
    <2> HIDE DEF B, R, p
    <2> QED
      BY <1>4, <1>5, <1>7, <2>1, <2>2
  <1>10. Cardinality(Older(l)') < (x + 1) * batch_size
    BY <1>2, <1>3 DEF InTime
  <1>11. InTime(l, x, a - 1, c)'
    BY <1>2, <1>5, <1>8, <1>9, <1>10 DEF InTime
  <1> QED
    BY <1>7, <1>11 DEF OnTime, Batch

\* A batch that is not full takes every candidate, so one that passes over a
\* lease it sees takes batch_size older ones.
LEMMA FullBatch ==
  ASSUME TypeOK, NEW l \in Leases, NEW C \in SUBSET Overdue, l \in C,
         NEW S, IsBatch(S, C), l \notin S
  PROVE  /\ Cardinality(S) = batch_size
         /\ S \subseteq Older(l)
         /\ IsFiniteSet(S)
  <1>1. IsFiniteSet(C) /\ Cardinality(C) \in Nat
    <2>1. C \in SUBSET Leases
      BY DEF Overdue
    <2> QED
      BY <2>1, ReaperAssumption, FS_Subset, FS_CardinalityType
  <1>2. S \in SUBSET C /\ Cardinality(S) = AtMost(Cardinality(C), batch_size)
    BY DEF IsBatch
  <1>3. IsFiniteSet(S)
    BY <1>1, <1>2, FS_Subset
  <1>4. Cardinality(S) = batch_size
    <2>1. CASE Cardinality(C) > batch_size
      BY <1>2, <2>1 DEF AtMost
    <2>2. CASE ~(Cardinality(C) > batch_size)
      <3>1. Cardinality(S) = Cardinality(C)
        BY <1>2, <2>2 DEF AtMost
      <3>2. S = C
        BY <1>1, <1>2, <3>1, FS_Subset
      <3> QED
        BY <3>2
    <2> QED
      BY <2>1, <2>2
  <1>5. ASSUME NEW k \in S PROVE k \in Older(l)
    <2>1. k \in Overdue /\ k # l
      BY <1>2, <1>5
    <2>2. OldestFirst(k, l)
      BY <1>5 DEF IsBatch
    <2> QED
      BY <2>1, <2>2 DEF Older, OldestFirst, Overdue
  <1> QED
    BY <1>3, <1>4, <1>5

\* What a batch of expired leases leaves behind was so before, and sees none
\* of those it took.
LEMMA PassedOver ==
  ASSUME TypeOK, NEW S, NEW L, Reaped(S, L), NEW l \in Leases, Expired(l)'
  PROVE  /\ Expired(l) /\ lease_left'[l] = lease_left[l] /\ l \notin S
         /\ Older(l)' \subseteq Older(l) \ S
         /\ skipped'[l] = IF l \in L THEN skipped[l] + 1 ELSE skipped[l]
  <1>1. l \notin S /\ Expired(l) /\ lease_left'[l] = lease_left[l]
    BY DEF Reaped, Expired
  <1>2. skipped'[l] = IF l \in L THEN skipped[l] + 1 ELSE skipped[l]
    BY <1>1 DEF Reaped
  <1>3. ASSUME NEW k \in Older(l)' PROVE k \in Older(l) \ S
    <2>1. k \in Leases \ {l} /\ held'[k] /\ lease_left'[k] <= lease_left'[l]
      BY <1>3 DEF Older
    <2>2. k \notin S /\ held[k] /\ lease_left'[k] = lease_left[k]
      BY <2>1 DEF Reaped
    <2> QED
      BY <1>1, <2>1, <2>2 DEF Older
  <1> QED
    BY <1>1, <1>2, <1>3

\* After a batch the reaper is at the next one, or done with this pass, and
\* sees everything that has expired.
LEMMA AfterBatch ==
  ASSUME TypeOK, ReaperOnTime, TypeOK', pass = "expired", NEW n,
         BatchEnds(n, "hung"), NEW l \in Leases, lease_left'[l] < 0
  PROVE  /\ Seen(l)'
         /\ \/ /\ pass' = "expired" /\ round' = round + 1
               /\ Pos(l)' = round + 1
            \/ /\ pass' = "hung" /\ Pos(l)' = max_batches_per_sweep
               /\ n < batch_size \/ round + 1 = max_batches_per_sweep
  <1>1. rtimer' = 0
    BY DEF BatchEnds
  <1>2. Seen(l)'
    BY <1>1 DEF Seen, TypeOK
  <1>3. \/ pass' = "expired" /\ round' = round + 1
        \/ /\ pass' = "hung"
           /\ n < batch_size \/ round + 1 = max_batches_per_sweep
    BY DEF BatchEnds, LastBatch
  <1> QED
    BY <1>2, <1>3 DEF Pos

\* What it takes for a lease to be in time after a batch.
LEMMA InTimeAfterBatch ==
  ASSUME NEW l \in Leases, Seen(l)',
         NEW x \in Nat, NEW a \in Nat, NEW c \in Batch,
         Cardinality(Older(l)') < (x + 1) * batch_size,
         x + Pos(l)' <= a * max_batches_per_sweep + c,
         reaper_period_s - Elapsed' - lease_left'[l]
           + a * Cycle + (c + 1) * transaction_time <= Bound(l)'
  PROVE  OnTime(l)'
  <1>1. InTime(l, x, a, c)'
    BY DEF InTime
  <1> QED
    BY <1>1 DEF OnTime, Batch

\* Locked: one more sweep, and that much more time.
LEMMA SkippedRecovery ==
  ASSUME TypeOK, ReaperOnTime, TypeOK', ReaperOnTime', RecoveryBudget,
         reap_expired_leases, NEW l \in Leases, Expired(l)',
         NEW L \in SUBSET Overdue, NEW S, Reaped(S, L),
         BatchEnds(Cardinality(S), "hung"), l \in L
  PROVE  OnTime(l)'
  <1>1. /\ Expired(l) /\ lease_left'[l] = lease_left[l]
        /\ Older(l)' \subseteq Older(l) /\ skipped'[l] = skipped[l] + 1
    BY PassedOver
  <1>2. PICK x \in Nat, a \in Nat, c \in Batch : InTime(l, x, a, c)
    BY <1>1 DEF RecoveryBudget, OnTime
  <1> DEFINE m == max_batches_per_sweep
             t == transaction_time
             p == reaper_period_s
             B == Bound(l)
             R == (c + 1) * t
             A == a * Cycle
             K == a * m
             P == Pos(l)
  <1>3. /\ B \in Nat /\ Cycle \in Nat /\ Elapsed \in Nat
        /\ p \in Nat /\ t \in Nat /\ m \in Nat /\ m >= 1
        /\ lease_left[l] \in Int /\ batch_size \in Nat
        /\ c \in Nat /\ P \in Nat /\ round \in Nat /\ round + 1 <= m
    BY RecoveryNumbers
  <1>4. Elapsed' \in Nat /\ Elapsed' >= Elapsed
    BY NextNumbers, ElapsedGrows
  <1>5. /\ Cardinality(Older(l)) < (x + 1) * batch_size
        /\ x + P <= K + c
        /\ p - Elapsed - lease_left[l] + A + R <= B
    BY <1>2 DEF InTime
  <1>6. /\ a + 1 \in Nat /\ (a + 1) * m = K + m /\ (a + 1) * Cycle = A + Cycle
        /\ K \in Nat /\ A \in Nat /\ R \in Nat
    BY <1>3, NextBatchTime
  <1>7. Bound(l)' = B + Cycle
    <2>1. Sweeps \in Nat /\ skipped[l] \in Nat
      BY SweepsAreEnough, ReaperAssumption DEF TypeOK
    <2>2. (Sweeps + (skipped[l] + 1)) * Cycle + t
            = (Sweeps + skipped[l]) * Cycle + t + Cycle
      BY <1>3, <2>1, BoundIsNumber
    <2> QED
      BY <1>1, <2>2 DEF Bound
  <1>8. Cardinality(Older(l)') < (x + 1) * batch_size
    <2>1. IsFiniteSet(Older(l)) /\ Cardinality(Older(l)) \in Nat
      BY OlderIsFinite
    <2>2. /\ IsFiniteSet(Older(l)')
          /\ Cardinality(Older(l)') <= Cardinality(Older(l))
      BY <1>1, <2>1, FS_Subset
    <2>3. Cardinality(Older(l)') \in Nat /\ (x + 1) * batch_size \in Nat
      BY <1>3, <2>2, FS_CardinalityType
    <2> QED
      BY <1>5, <2>1, <2>2, <2>3
  <1>9. Seen(l)' /\ Pos(l)' \in Nat /\ Pos(l)' <= m
    <2>1. pass = "expired" /\ lease_left'[l] < 0
      BY DEF reap_expired_leases, Expired
    <2>2. /\ Seen(l)'
          /\ Pos(l)' = round + 1 \/ Pos(l)' = m
      BY <2>1, AfterBatch
    <2> QED
      BY <1>3, <2>2
  <1>10. x + Pos(l)' <= (a + 1) * m + c
    <2> HIDE DEF P, K, m
    <2> QED
      BY <1>3, <1>5, <1>6, <1>9
  <1>11. p - Elapsed' - lease_left'[l] + (a + 1) * Cycle + R <= Bound(l)'
    <2> HIDE DEF B, A, R, p
    <2> QED
      BY <1>1, <1>3, <1>4, <1>5, <1>6, <1>7
  <1> QED
    BY <1>6, <1>8, <1>9, <1>10, <1>11, InTimeAfterBatch

\* Passed over for older ones: one batch closer.
LEMMA SeenRecovery ==
  ASSUME TypeOK, ReaperOnTime, TypeOK', ReaperOnTime', RecoveryBudget,
         reap_expired_leases, NEW l \in Leases, Expired(l)',
         NEW L \in SUBSET Overdue, NEW S, IsBatch(S, Overdue \ L),
         Reaped(S, L), BatchEnds(Cardinality(S), "hung"),
         l \notin L, Seen(l)
  PROVE  OnTime(l)'
  <1>1. /\ Expired(l) /\ lease_left'[l] = lease_left[l] /\ l \notin S
        /\ Older(l)' \subseteq Older(l) \ S /\ skipped'[l] = skipped[l]
    BY PassedOver
  <1>2. Cardinality(S) = batch_size /\ S \subseteq Older(l) /\ IsFiniteSet(S)
    <2>1. Overdue \ L \in SUBSET Overdue /\ l \in Overdue \ L
      BY <1>1 DEF Overdue, Expired, Seen
    <2> QED
      BY <1>1, <2>1, FullBatch
  <1>3. PICK x \in Nat, a \in Nat, c \in Batch : InTime(l, x, a, c)
    BY <1>1 DEF RecoveryBudget, OnTime
  <1> DEFINE m == max_batches_per_sweep
             B == Bound(l)
             R == (c + 1) * transaction_time
             A == a * Cycle
             K == a * m
             p == reaper_period_s
             O == Cardinality(Older(l))
             N == Cardinality(Older(l)')
             P == Pos(l)
  <1>4. /\ B \in Nat /\ Cycle \in Nat /\ Elapsed \in Nat
        /\ p \in Nat /\ transaction_time \in Nat
        /\ m \in Nat /\ m >= 1 /\ lease_left[l] \in Int
        /\ batch_size \in Nat /\ batch_size >= 1
        /\ c \in Nat /\ P \in Nat /\ round \in Nat
    BY RecoveryNumbers DEF Batch
  <1>5. Elapsed' \in Nat /\ Elapsed' >= Elapsed
    BY NextNumbers, ElapsedGrows
  <1>6. R \in Nat /\ A \in Nat /\ K \in Nat
    BY <1>4
  <1>7. /\ O \in Nat /\ N \in Nat
        /\ N <= O - batch_size
    <2>1. IsFiniteSet(Older(l)) /\ O \in Nat
      BY OlderIsFinite
    <2>2. /\ IsFiniteSet(Older(l) \ S)
          /\ Cardinality(Older(l) \ S) = O - Cardinality(Older(l) \cap S)
      BY <2>1, FS_Difference
    <2>3. Older(l) \cap S = S
      BY <1>2
    <2>4. /\ IsFiniteSet(Older(l)')
          /\ N <= Cardinality(Older(l) \ S)
      BY <1>1, <2>2, FS_Subset
    <2>5. N \in Nat
      BY <2>4, FS_CardinalityType
    <2> HIDE DEF O, N
    <2> QED
      BY <1>2, <1>4, <2>1, <2>2, <2>3, <2>4, <2>5
  <1>8. /\ O < (x + 1) * batch_size
        /\ x + P <= K + c
        /\ p - Elapsed - lease_left[l] + A + R <= B
    BY <1>3 DEF InTime
  <1>9. x >= 1
    <2> HIDE DEF O, N
    <2>1. CASE x = 0
      <3>1. (x + 1) * batch_size = batch_size
        BY <1>4, <2>1
      <3> QED
        BY <1>4, <1>7, <1>8, <3>1
    <2> QED
      BY <2>1
  <1>10. N < ((x - 1) + 1) * batch_size /\ x - 1 \in Nat
    <2>1. /\ (x + 1) * batch_size = x * batch_size + batch_size
          /\ x * batch_size \in Nat
      BY <1>4, NextBatchTime
    <2>2. (x - 1) + 1 = x /\ x - 1 \in Nat
      BY <1>9
    <2> HIDE DEF O, N
    <2>3. N < x * batch_size
      BY <1>4, <1>7, <1>8, <2>1
    <2> QED
      BY <2>2, <2>3
  <1>11. Seen(l)' /\ Pos(l)' = P + 1
    <2>1. pass = "expired" /\ lease_left'[l] < 0
      BY DEF reap_expired_leases, Expired
    <2>2. P = round
      BY <2>1 DEF Pos
    <2>3. ~(Cardinality(S) < batch_size)
      BY <1>2, <1>4
    <2>4. Seen(l)' /\ Pos(l)' = round + 1
      BY <2>1, <2>3, AfterBatch
    <2> QED
      BY <2>2, <2>4
  <1>12. (x - 1) + Pos(l)' <= K + c
    <2>1. (x - 1) + (P + 1) = x + P
      BY <1>4
    <2> QED
      BY <1>8, <1>11, <2>1
  <1>13. p - Elapsed' - lease_left'[l] + A + R <= Bound(l)'
    <2>1. Bound(l)' = B
      BY <1>1 DEF Bound
    <2> HIDE DEF A, R, B, p
    <2> QED
      BY <1>1, <1>4, <1>5, <1>6, <1>8, <2>1
  <1> QED
    BY <1>10, <1>11, <1>12, <1>13, InTimeAfterBatch

\* Not seen by this batch: the next one sees it, or the next sweep, and the
\* time of the batches that this sweep saves is gained.
LEMMA UnseenRecovery ==
  ASSUME TypeOK, ReaperOnTime, TypeOK', ReaperOnTime', RecoveryBudget,
         reap_expired_leases, NEW l \in Leases, Expired(l)',
         NEW L \in SUBSET Overdue, NEW S, Reaped(S, L),
         BatchEnds(Cardinality(S), "hung"), ~Seen(l)
  PROVE  OnTime(l)'
  <1>1. /\ Expired(l) /\ lease_left'[l] = lease_left[l]
        /\ Older(l)' \subseteq Older(l) /\ skipped'[l] = skipped[l]
    <2>1. l \notin L
      BY DEF Overdue, Seen
    <2> QED
      BY <2>1, PassedOver
  <1>2. PICK x \in Nat, a \in Nat, c \in Batch : InTime(l, x, a, c)
    BY <1>1 DEF RecoveryBudget, OnTime
  <1>3. pass = "expired" /\ lease_left'[l] < 0 /\ c = round /\ rtimer' = 0
    BY <1>2 DEF reap_expired_leases, Expired, InTime, BatchEnds
  <1>4. /\ Seen(l)'
        /\ \/ Pos(l)' = round + 1
           \/ pass' = "hung" /\ Pos(l)' = max_batches_per_sweep
    BY <1>3, AfterBatch
  <1>5. CASE Pos(l)' = round + 1
    <2>1. Pos(l) = round + 1 /\ Pos(l) \in Nat
      BY <1>3, RecoveryNumbers DEF Pos
    <2>2. Pos(l)' <= Pos(l)
      BY <1>5, <2>1
    <2>3. Elapsed' - Elapsed >= lease_left[l] - lease_left'[l]
      <3>1. Elapsed' \in Nat /\ Elapsed' >= Elapsed
        BY NextNumbers, ElapsedGrows
      <3>2. Elapsed \in Nat /\ lease_left[l] \in Int
        BY RecoveryNumbers
      <3> QED
        BY <1>1, <3>1, <3>2
    <2> QED
      BY <1>1, <1>2, <1>4, <2>2, <2>3, InTimeStays
  <1>6. CASE pass' = "hung" /\ Pos(l)' = max_batches_per_sweep
    <2> DEFINE m == max_batches_per_sweep
               t == transaction_time
               p == reaper_period_s
               B == Bound(l)
               A == a * Cycle
               K == a * m
               U == round * t
               M == m * t
    <2>1. /\ B \in Nat /\ Cycle \in Nat
          /\ p \in Nat /\ t \in Nat /\ m \in Nat /\ m >= 1
          /\ lease_left[l] \in Int /\ batch_size \in Nat
          /\ round \in Nat /\ round + 1 <= m /\ rtimer \in Nat
      BY RecoveryNumbers
    <2>2. /\ U \in Nat /\ (round + 1) * t = U + t
          /\ M \in Nat /\ A \in Nat /\ K \in Nat
      BY <2>1, NextBatchTime
    <2>3. /\ Elapsed = rtimer + (p + U) /\ rtimer <= t
          /\ Elapsed' = p + M
      <3>1. Elapsed = rtimer + (p + U) /\ rtimer <= t
        BY <1>3 DEF Elapsed, BatchStart, ReaperOnTime
      <3>2. round' = 0
        BY <1>3, <1>6 DEF BatchEnds
      <3>3. BatchStart' = p + (m + 0) * t
        BY <1>6, <3>2 DEF BatchStart
      <3> QED
        BY <1>3, <2>1, <2>2, <3>1, <3>3 DEF Elapsed
    <2>4. /\ Cardinality(Older(l)) < (x + 1) * batch_size
          /\ x + (round + 1) <= K + round
          /\ p - Elapsed - lease_left[l] + A + (U + t) <= B
      <3>1. Pos(l) = round + 1
        BY <1>3 DEF Pos
      <3> QED
        BY <1>2, <1>3, <2>2, <3>1 DEF InTime
    <2>5. Cardinality(Older(l)') < (x + 1) * batch_size
      <3>1. IsFiniteSet(Older(l)) /\ Cardinality(Older(l)) \in Nat
        BY OlderIsFinite
      <3>2. /\ IsFiniteSet(Older(l)')
            /\ Cardinality(Older(l)') <= Cardinality(Older(l))
        BY <1>1, <3>1, FS_Subset
      <3>3. Cardinality(Older(l)') \in Nat /\ (x + 1) * batch_size \in Nat
        BY <2>1, <3>2, FS_CardinalityType
      <3> QED
        BY <2>4, <3>1, <3>2, <3>3
    <2>6. m - 1 \in Batch /\ (m - 1) + 1 = m
      BY <2>1 DEF Batch
    <2>7. x + Pos(l)' <= K + (m - 1)
      <3> HIDE DEF K
      <3> QED
        BY <1>6, <2>1, <2>2, <2>4
    <2>8. p - Elapsed' - lease_left'[l] + A + ((m - 1) + 1) * t <= Bound(l)'
      <3>1. Bound(l)' = B
        BY <1>1 DEF Bound
      <3>2. ((m - 1) + 1) * t = M
        BY <2>6
      <3> HIDE DEF A, B, p, U, M, m, t
      <3>3. p - (p + M) - lease_left[l] + A + M <= B
        BY <2>1, <2>2, <2>3, <2>4
      <3> QED
        BY <1>1, <2>3, <3>1, <3>2, <3>3
    <2> QED
      BY <1>4, <2>5, <2>6, <2>7, <2>8, InTimeAfterBatch
  <1> QED
    BY <1>4, <1>5, <1>6

\* A batch of expired leases keeps those it passes over in time.
LEMMA BatchRecovery ==
  ASSUME TypeOK, ReaperOnTime, TypeOK', ReaperOnTime', RecoveryBudget,
         reap_expired_leases, NEW l \in Leases, Expired(l)'
  PROVE  OnTime(l)'
  <1>1. PICK L \in SUBSET Overdue : \E S \in SUBSET (Overdue \ L) :
          /\ IsBatch(S, Overdue \ L)
          /\ Reaped(S, L)
          /\ BatchEnds(Cardinality(S), "hung")
    BY ABatch
  <1>2. PICK S \in SUBSET (Overdue \ L) :
          /\ IsBatch(S, Overdue \ L)
          /\ Reaped(S, L)
          /\ BatchEnds(Cardinality(S), "hung")
    BY <1>1
  <1>3. CASE l \in L
    BY <1>2, <1>3, SkippedRecovery
  <1>4. CASE l \notin L /\ Seen(l)
    BY <1>2, <1>4, SeenRecovery
  <1>5. CASE ~Seen(l)
    BY <1>2, <1>5, UnseenRecovery
  <1> QED
    BY <1>3, <1>4, <1>5

\* Every step keeps every expired lease in time.
LEMMA RecoveryKept ==
  ASSUME TypeOK, ReaperOnTime, TypeOK', ReaperOnTime', RecoveryBudget,
         [Next]_vars
  PROVE  RecoveryBudget'
  <1> SUFFICES ASSUME NEW l \in Leases, Expired(l)'
               PROVE  OnTime(l)'
    BY DEF RecoveryBudget
  <1>1. CASE Tick
    BY <1>1, TickRecovery
  <1>2. CASE reap_expired_leases
    BY <1>2, BatchRecovery
  <1>3. CASE mark_dead_workers
    BY <1>3, SweepRecovery
  <1>4. Pos(l) \in Nat
    BY RecoveryNumbers
  <1>5. CASE reap_hung_tasks
    <2>1. PICK S : NoLease(S) /\ BatchEnds(Cardinality(S), "workers")
      BY <1>5 DEF reap_hung_tasks
    <2>2. \A k \in Leases : Leaves(k)
      BY <2>1, ReaperLeaves
    <2>3. pass = "hung" /\ pass' \in {"hung", "workers"}
      BY <1>5, <2>1 DEF reap_hung_tasks, BatchEnds
    <2>4. Pos(l)' = Pos(l) /\ pass' # "expired"
      BY <2>3 DEF Pos
    <2>5. Pos(l)' <= Pos(l) /\ Elapsed' >= Elapsed
      BY <1>4, <1>5, <2>4, ElapsedGrows
    <2> QED
      BY <2>2, <2>4, <2>5, RecoveryStays
  <1>6. CASE next_sweep
    <2>1. \A k \in Leases : Leaves(k)
      BY <1>6, ReaperLeaves DEF next_sweep
    <2>2. /\ pass = "sleep" /\ round = 0 /\ pass' = "expired" /\ round' = 0
          /\ rtimer' = 0
      BY <1>6 DEF next_sweep, ReaperOnTime
    <2>3. Seen(l)'
      BY <2>2 DEF Seen, Expired, TypeOK
    <2>4. Pos(l)' = Pos(l)
      BY <2>2, <2>3 DEF Pos
    <2>5. Pos(l)' <= Pos(l) /\ Elapsed' >= Elapsed
      BY <1>4, <1>6, <2>4, ElapsedGrows
    <2> QED
      BY <2>1, <2>3, <2>5, RecoveryStays
  <1>7. ASSUME UNCHANGED reaper_vars, \A k \in Leases : Leaves(k)
        PROVE  OnTime(l)'
    <2>1. lease_left'[l] = lease_left[l]
      BY <1>7, PlaceIsKept
    <2>2. Seen(l)' = Seen(l) /\ pass' = pass /\ round' = round
      BY <1>7, <2>1 DEF Seen, reaper_vars
    <2>3. Pos(l)' = Pos(l)
      BY <2>2 DEF Pos
    <2>4. Pos(l)' <= Pos(l) /\ Elapsed' >= Elapsed
      BY <1>4, <1>7, <2>3, ElapsedGrows
    <2> QED
      BY <1>7, <2>2, <2>4, RecoveryStays
  <1>8. ASSUME NEW w \in Workers, Worker(w)
        PROVE  OnTime(l)'
    BY <1>7, <1>8, ReaperLeftAlone, WorkerLeaves
  <1>9. ASSUME NEW k \in Leases, Attempt(k)
        PROVE  OnTime(l)'
    BY <1>7, <1>9, ReaperLeftAlone, AttemptLeaves
  <1>10. CASE UNCHANGED vars
    <2>1. UNCHANGED reaper_vars /\ UNCHANGED lease_vars
      BY <1>10 DEF vars
    <2> QED
      BY <1>7, <2>1, ReaperLeaves
  <1> QED
    BY <1>1, <1>2, <1>3, <1>5, <1>6, <1>8, <1>9, <1>10 DEF Next, Reaper

-----------------------------------------------------------------------------
(* The theorems.                                                           *)

\* The five parts hold together in every state.
LEMMA TimingInvariant == Spec => []IInv
  <1>1. Init => IInv
    <2> SUFFICES ASSUME Init PROVE IInv
      OBVIOUS
    <2>1. TypeOK
      BY BoundsAreNumbers, TimingAssumption, BudgetAssumption,
         ReaperAssumption DEF Init, TypeOK
    <2>2. ReaperOnTime
      BY ReaperAssumption DEF Init, ReaperOnTime
    <2>3. LeaseBudget
      BY DEF Init, LeaseBudget, LeaseBudgetOf
    <2>4. LiveBudget
      BY TimingAssumption, BudgetAssumption DEF Init, LiveBudget
    <2>5. SilenceBudget
      <3>1. Elapsed = 0
        BY DEF Init, Elapsed, BatchStart
      <3> QED
        BY <3>1, TimingAssumption, BudgetAssumption DEF Init, SilenceBudget
    <2> QED
      BY <2>1, <2>2, <2>3, <2>4, <2>5 DEF IInv
  <1>2. TypeOK /\ [Next]_vars => TypeOK'
    BY TypeKept
  <1>3. IInv /\ [Next]_vars => IInv'
    BY <1>2, ReaperStaysOnTime, LeaseBudgetKept, LiveBudgetKept,
       SilenceBudgetKept DEF IInv
  <1> QED
    BY <1>1, <1>3, PTL DEF Spec

\* Every timer of workers and reaper stays in its range: the counters of the
\* batches, the renewals and the heartbeats never pass their bounds.
THEOREM TimingTypeCorrect == Spec => []TypeOK
  <1>1. IInv => TypeOK
    BY DEF IInv
  <1> QED
    BY <1>1, TimingInvariant, PTL

\* An attempt that renews on time never sees its lease run out
\* (_renew_until_stopped, renew_lease), whatever the other workers and the
\* reaper do: every configuration validate_timing accepts leaves room for
\* lateness and transactions within BudgetAssumption.
THEOREM LeasesOutliveRenewals == Spec => []NoNeedlessExpiry
  <1>1. IInv => NoNeedlessExpiry
    BY TimingAssumption, BudgetAssumption, BoundsAreNumbers
       DEF IInv, TypeOK, LeaseBudget, LeaseBudgetOf, NoNeedlessExpiry,
           Renewing, validate_timing
  <1> QED
    BY <1>1, TimingInvariant, PTL

\* A worker that beats on time is never declared DEAD by mark_dead_workers,
\* and so never fences itself.
THEOREM LiveWorkersStayAlive == Spec => []LiveWorkerNotMarkedDead
  <1>1. IInv => LiveWorkerNotMarkedDead
    BY DEF IInv, LiveBudget, LiveWorkerNotMarkedDead
  <1> QED
    BY <1>1, TimingInvariant, PTL

\* No worker stays silent and ALIVE for longer than worker_dead_after_s, one
\* sweep at its longest with the sleep before it, and the transaction of the
\* worker pass that began too early to notice, however many tasks expire or
\* hang meanwhile.
THEOREM SilenceIsNoticedInTime == Spec => []SilenceIsNoticed
  <1>1. IInv => SilenceIsNoticed
    <2> SUFFICES ASSUME IInv, NEW w \in Workers, status[w] = "ALIVE"
                 PROVE  hb_age[w] <= worker_dead_after_s + Cycle
                                       + transaction_time
      BY DEF SilenceIsNoticed
    <2>1. Elapsed \in Nat /\ Elapsed <= Cycle
      BY ElapsedWithinCycle DEF IInv
    <2>2. /\ hb_age[w] \in Nat
          /\ hb_age[w] <= worker_dead_after_s + transaction_time + Elapsed
      BY BoundsAreNumbers DEF IInv, SilenceBudget, TypeOK
    <2> QED
      BY <2>1, <2>2, BoundsAreNumbers, TimingAssumption, BudgetAssumption
  <1> QED
    BY <1>1, TimingInvariant, PTL

\* No expired lease waits for longer than it takes the sweeps to work off all
\* leases, a transaction that had begun before it expired, and a cycle for
\* every batch that found its row locked: each other batch of
\* reap_expired_leases that passes a lease over takes batch_size older ones,
\* and none is ever put before it.
THEOREM RecoveryInTime == Spec => []RecoveryIsTimely
  <1>1. Init => RecoveryBudget
    BY DEF Init, RecoveryBudget, Expired
  <1>2. IInv /\ IInv' /\ RecoveryBudget /\ [Next]_vars => RecoveryBudget'
    BY RecoveryKept DEF IInv
  <1>3. IInv /\ RecoveryBudget => RecoveryIsTimely
    <2> SUFFICES ASSUME IInv, RecoveryBudget, NEW l \in Leases, held[l]
                 PROVE  lease_left[l] >= - Bound(l)
      BY DEF RecoveryIsTimely, Bound
    <2>1. TypeOK /\ ReaperOnTime
      BY DEF IInv
    <2>2. CASE Expired(l)
      <3>1. PICK x \in Nat, a \in Nat, c \in Batch : InTime(l, x, a, c)
        BY <2>2 DEF RecoveryBudget, OnTime
      <3> QED
        BY <2>1, <3>1, InTimeIsEnough
    <2>3. CASE ~Expired(l)
      <3>1. Bound(l) \in Nat /\ lease_left[l] \in Int
        BY <2>1, RecoveryNumbers
      <3>2. lease_left[l] >= 0
        BY <2>3, <3>1 DEF Expired
      <3> QED
        BY <3>1, <3>2
    <2> QED
      BY <2>2, <2>3
  <1> QED
    BY <1>1, <1>2, <1>3, TimingInvariant, PTL DEF Spec
=============================================================================

---------------------------- MODULE LeaseTiming -----------------------------
(***************************************************************************)
(* Time: what validate_timing of config.py buys.  Leases, renewals and     *)
(* heartbeats of the workers against the sweeps of the reaper              *)
(* (reaper/loop.py), all measured in ticks of one clock, the database's.   *)
(* TaskLifecycle lets a lease run out at any moment; here it runs out when *)
(* it is due.                                                              *)
(*                                                                         *)
(* A worker executes up to capacity attempts, each with a lease and a      *)
(* renewal task of its own.  Timers count upwards from the moment          *)
(* something began; lease_left is lease_expires_at - now().  A heartbeat   *)
(* or a renewal that is not late comes at most pause_budget ticks after it *)
(* is due, and a transaction takes at most transaction_time.  What has     *)
(* crashed and what is late owes nothing.                                  *)
(***************************************************************************)
EXTENDS Integers, FiniteSets

CONSTANTS
  Workers,
  Leases,             \* the leases there may be at a time, left ones included
  lease_owner,        \* the worker that a lease is granted to
  capacity,           \* attempts a worker executes at a time
  late,               \* heartbeats and renewals that may be late: a worker
                      \* paused, partitioned, frozen; a query that hangs
  lease_ttl_s,
  lease_renew_interval_s,
  heartbeat_interval_s,
  worker_dead_after_s,
  reaper_period_s,
  batch_size,
  max_batches_per_sweep,
  pause_budget,       \* lateness of a timer that is on time
  transaction_time,   \* the longest a transaction takes
  MaxSkips            \* batches that find a row locked, before it is taken

\* A configuration for which this does not hold is refused at start-up.
validate_timing ==
  /\ lease_ttl_s > 3 * lease_renew_interval_s
  /\ worker_dead_after_s > 2 * heartbeat_interval_s

ASSUME TimingAssumption ==
  /\ lease_ttl_s \in Nat
  /\ lease_renew_interval_s \in Nat \ {0}
  /\ heartbeat_interval_s \in Nat \ {0}
  /\ worker_dead_after_s \in Nat
  /\ validate_timing

\* What "on time" must mean for it to be enough.  A lease lives through the
\* end of the transaction that granted it and the whole one that renews it.
ASSUME BudgetAssumption ==
  /\ pause_budget \in Nat
  /\ transaction_time \in Nat
  /\ pause_budget + 2 * transaction_time <= 2 * lease_renew_interval_s + 1
  /\ pause_budget + transaction_time <= heartbeat_interval_s + 1

ASSUME ReaperAssumption ==
  /\ IsFiniteSet(Leases)
  /\ lease_owner \in [Leases -> Workers]
  /\ capacity \in Nat \ {0}
  /\ late \in SUBSET (Workers \cup Leases)
  /\ reaper_period_s \in Nat \ {0}
  /\ batch_size \in Nat \ {0}
  /\ max_batches_per_sweep \in Nat \ {0}
  /\ MaxSkips \in Nat

VARIABLES
  held,        \* a task is RUNNING with this lease
  lease_left,  \* lease_expires_at - now(), 0 without a lease
  skipped,     \* batches that passed it over because its row was locked
  renewal,     \* the renewal task of the attempt
  timer,       \* how long the renewal has been where it is
  process,     \* of a worker: "up", "draining" or "gone"
  status,      \* workers.status
  hb_age,      \* now() - last_heartbeat_at, as far as anyone compares it
  pass,        \* what the reaper is doing
  round,       \* batches of this pass so far
  rtimer       \* how long ago this batch, or the sleep, began

lease_vars == <<held, lease_left, skipped>>
renewal_vars == <<renewal, timer>>
worker_vars == <<process, status, hb_age>>
reaper_vars == <<pass, round, rtimer>>
vars == <<lease_vars, renewal_vars, worker_vars, reaper_vars>>

LeasesOf(w) == {l \in Leases : lease_owner[l] = w}

\* The longest sweep and the sleep after it.
Cycle == reaper_period_s + (2 * max_batches_per_sweep + 1) * transaction_time

\* Nobody looks further than this at the age of a heartbeat, or of a renewal.
OldestAge == worker_dead_after_s + Cycle + transaction_time + 1
OldestTimer == lease_renew_interval_s + pause_budget + transaction_time

Renewing == {"waiting", "in_tx"}

TypeOK ==
  /\ held \in [Leases -> BOOLEAN]
  /\ lease_left \in [Leases -> Int]
  /\ \A l \in Leases : lease_left[l] <= lease_ttl_s
  /\ skipped \in [Leases -> 0 .. MaxSkips]
  /\ renewal \in [Leases -> {"none", "ended", "failed"} \cup Renewing]
  /\ timer \in [Leases -> 0 .. OldestTimer]
  /\ process \in [Workers -> {"up", "draining", "gone"}]
  /\ status \in [Workers -> {"ALIVE", "DRAINING", "DEAD"}]
  /\ hb_age \in [Workers -> 0 .. OldestAge]
  /\ pass \in {"sleep", "expired", "hung", "workers"}
  /\ round \in 0 .. max_batches_per_sweep - 1
  /\ rtimer \in 0 .. reaper_period_s + transaction_time

Init ==
  /\ held = [l \in Leases |-> FALSE]
  /\ lease_left = [l \in Leases |-> 0]
  /\ skipped = [l \in Leases |-> 0]
  /\ renewal = [l \in Leases |-> "none"]
  /\ timer = [l \in Leases |-> 0]
  /\ process = [w \in Workers |-> "up"]
  /\ status = [w \in Workers |-> "ALIVE"]
  /\ hb_age = [w \in Workers |-> 0]
  /\ pass = "sleep"
  /\ round = 0
  /\ rtimer = 0

-----------------------------------------------------------------------------
(* Time passes unless something that is on time is due now.                *)

\* The renewal of every other interval left out.
RenewEverySecond == 2 * lease_renew_interval_s
\* wait_for(stop.wait(), timeout=interval)
RenewEvery == lease_renew_interval_s

RenewalDue(l) ==
  CASE renewal[l] = "waiting" ->
         timer[l] >= RenewEvery + pause_budget
    [] renewal[l] = "in_tx" -> timer[l] >= transaction_time
    [] OTHER -> FALSE

HeartbeatDue(w) ==
  /\ process[w] = "up"
  /\ hb_age[w] >= heartbeat_interval_s + pause_budget + transaction_time

ReaperDue ==
  rtimer >= IF pass = "sleep" THEN reaper_period_s ELSE transaction_time

AtMost(n, bound) == IF n > bound THEN bound ELSE n

Tick ==
  /\ \A l \in Leases \ late : ~RenewalDue(l)
  /\ \A w \in Workers \ late : ~HeartbeatDue(w)
  /\ ~ReaperDue
  /\ lease_left' = [l \in Leases |->
       IF held[l] THEN lease_left[l] - 1 ELSE 0]
  /\ timer' = [l \in Leases |->
       IF renewal[l] \in Renewing
         THEN AtMost(timer[l] + 1, OldestTimer)
         ELSE 0]
  /\ hb_age' = [w \in Workers |-> AtMost(hb_age[w] + 1, OldestAge)]
  /\ rtimer' = rtimer + 1
  /\ UNCHANGED <<held, skipped, renewal, process, status, pass, round>>

-----------------------------------------------------------------------------
(* The worker.                                                             *)

Lease(S, left) ==
  /\ held' = [l \in Leases |-> held[l] \/ l \in S]
  /\ lease_left' = [l \in Leases |-> IF l \in S THEN left ELSE lease_left[l]]
  /\ skipped' = [l \in Leases |-> IF l \in S THEN 0 ELSE skipped[l]]

NoLease(S) ==
  /\ held' = [l \in Leases |-> held[l] /\ l \notin S]
  /\ lease_left' = [l \in Leases |-> IF l \in S THEN 0 ELSE lease_left[l]]
  /\ skipped' = [l \in Leases |-> IF l \in S THEN 0 ELSE skipped[l]]

Renewal(S, r) ==
  /\ renewal' = [l \in Leases |-> IF l \in S THEN r ELSE renewal[l]]
  /\ timer' = [l \in Leases |-> IF l \in S THEN 0 ELSE timer[l]]

Inflight(w) == {l \in LeasesOf(w) : renewal[l] # "none"}

\* Up to the free slots.  now() is the beginning of the claim's transaction,
\* the attempts start at its end.
claim(w) ==
  /\ process[w] = "up"
  /\ \E S \in SUBSET (LeasesOf(w) \ Inflight(w)) :
       /\ S # {} /\ \A l \in S : ~held[l]
       /\ Cardinality(S \cup Inflight(w)) <= capacity
       /\ \E d \in 0 .. transaction_time : Lease(S, lease_ttl_s - d)
       /\ Renewal(S, "waiting")
  /\ UNCHANGED <<worker_vars, reaper_vars>>

\* _renew_until_stopped: the timeout of wait_for, and BEGIN.
renew_begin(l) ==
  /\ renewal[l] = "waiting" /\ timer[l] >= RenewEvery
  /\ Renewal({l}, "in_tx")
  /\ UNCHANGED <<lease_vars, worker_vars, reaper_vars>>

\* The UPDATE compares with now(), and extends from it: the time of BEGIN.
renew_lease(l) ==
  /\ renewal[l] = "in_tx"
  /\ IF held[l] /\ lease_left[l] + timer[l] > 0
       THEN Lease({l}, lease_ttl_s - timer[l]) /\ Renewal({l}, "waiting")
       ELSE Renewal({l}, "ended") /\ UNCHANGED lease_vars
  /\ UNCHANGED <<worker_vars, reaper_vars>>

\* Nothing in _renew_until_stopped catches an exception: there is no second
\* renewal, and nobody looks before the adapter returns.
renewal_raises(l) ==
  /\ renewal[l] = "in_tx"
  /\ Renewal({l}, "failed")
  /\ UNCHANGED <<lease_vars, worker_vars, reaper_vars>>

\* The adapter returns and the attempt is finalized, if it is still ours.
finish(l) ==
  /\ renewal[l] \in {"waiting", "ended"}
  /\ NoLease({l})
  /\ Renewal({l}, "none")
  /\ UNCHANGED <<worker_vars, reaper_vars>>

\* The adapter returns and the row is left as it is: await renewal raises what
\* the renewal raised, or _finalize does.  The slot is free.
attempt_raises(l) ==
  /\ renewal[l] \in {"waiting", "ended", "failed"}
  /\ Renewal({l}, "none")
  /\ UNCHANGED <<lease_vars, worker_vars, reaper_vars>>

Exit(w) == /\ process' = [process EXCEPT ![w] = "gone"]
           /\ Renewal(LeasesOf(w), "none")

\* Throttled to heartbeat_interval_s; the transaction began d ticks ago, and
\* that is the time it writes.  A worker that was declared DEAD stops and
\* leaves its leases alone.
heartbeat(w) ==
  /\ process[w] = "up"
  /\ \E d \in 0 .. transaction_time :
       /\ hb_age[w] >= heartbeat_interval_s + d
       /\ IF status[w] = "DEAD"
            THEN Exit(w) /\ UNCHANGED hb_age
            ELSE /\ hb_age' = [hb_age EXCEPT ![w] = d]
                 /\ UNCHANGED <<process, renewal_vars>>
  /\ UNCHANGED <<lease_vars, status, reaper_vars>>

crash(w) ==
  /\ process[w] # "gone"
  /\ Exit(w)
  /\ UNCHANGED <<lease_vars, status, hb_age, reaper_vars>>

\* A failed write of the status is logged, no more.
MayWriteStatus(w, s) == \/ status' = [status EXCEPT ![w] = s]
                        \/ UNCHANGED status

\* A drain begins: no more claims and no more heartbeats, while the attempts
\* have drain_grace_s to come to an end.
drain_begins(w) ==
  /\ process[w] = "up"
  /\ process' = [process EXCEPT ![w] = "draining"]
  /\ MayWriteStatus(w, "DRAINING")
  /\ UNCHANGED <<lease_vars, renewal_vars, hb_age, reaper_vars>>

\* The rest is cancelled and handed back, one by one and if the database lets
\* it.
drain_ends(w) ==
  /\ process[w] = "draining"
  /\ Exit(w)
  /\ \E S \in SUBSET LeasesOf(w) : NoLease(S)
  /\ MayWriteStatus(w, "DEAD")
  /\ UNCHANGED <<hb_age, reaper_vars>>

\* The next generation takes the place of one that is settled.
register_worker(w) ==
  /\ process[w] = "gone" /\ status[w] = "DEAD"
  /\ \A l \in LeasesOf(w) : ~held[l]
  /\ process' = [process EXCEPT ![w] = "up"]
  /\ status' = [status EXCEPT ![w] = "ALIVE"]
  /\ \E d \in 0 .. transaction_time : hb_age' = [hb_age EXCEPT ![w] = d]
  /\ UNCHANGED <<lease_vars, renewal_vars, reaper_vars>>

-----------------------------------------------------------------------------
(* The reaper.                                                             *)

\* No bound on the batches of a pass, and one batch too many.
never_last(n) == FALSE
one_batch_more(n) == n > max_batches_per_sweep
LastBatch(n) == n = max_batches_per_sweep

\* A batch of a pass took n rows: the next batch, or the next pass.
BatchEnds(n, next) ==
  /\ rtimer' = 0
  /\ IF n < batch_size \/ LastBatch(round + 1)
       THEN pass' = next /\ round' = 0
       ELSE UNCHANGED pass /\ round' = round + 1
  /\ UNCHANGED <<renewal_vars, worker_vars>>

\* The latest expiry first, or ORDER BY lease_expires_at.
YoungestFirst(s, t) == lease_left[s] >= lease_left[t]
OldestFirst(s, t) == lease_left[s] <= lease_left[t]

\* LIMIT batch_size, for the candidates C.
IsBatch(S, C) == /\ S \subseteq C
                 /\ Cardinality(S) = AtMost(Cardinality(C), batch_size)
                 /\ \A s \in S, t \in C \ S : OldestFirst(s, t)

\* lease_expires_at < now(), the time of the batch's BEGIN.
Overdue == {l \in Leases : held[l] /\ lease_left[l] + rtimer < 0}

\* The rows of L are locked, by a cancellation, a renewal, a completion:
\* SKIP LOCKED.
reap_expired_leases ==
  /\ pass = "expired"
  /\ \E L \in SUBSET Overdue : \E S \in SUBSET (Overdue \ L) :
       /\ \A l \in L : skipped[l] < MaxSkips
       /\ IsBatch(S, Overdue \ L)
       /\ held' = [l \in Leases |-> held[l] /\ l \notin S]
       /\ lease_left' = [l \in Leases |-> IF l \in S THEN 0 ELSE lease_left[l]]
       /\ skipped' = [l \in Leases |->
                        IF l \in S THEN 0
                        ELSE IF l \in L THEN skipped[l] + 1 ELSE skipped[l]]
       /\ BatchEnds(Cardinality(S), "hung")

\* Any attempt may have exceeded its cap, which counts from the first attempt
\* of the task and not from the lease, and any row may be locked.
reap_hung_tasks ==
  /\ pass = "hung"
  /\ \E S \in SUBSET {l \in Leases : held[l]} :
       /\ Cardinality(S) <= batch_size
       /\ NoLease(S)
       /\ BatchEnds(Cardinality(S), "workers")

\* Declared dead after one missed interval.
SilentForOneInterval(w) == hb_age[w] - rtimer > heartbeat_interval_s
\* last_heartbeat_at < now() - dead_after_s, at the BEGIN of the pass.
Silent(w) == hb_age[w] - rtimer > worker_dead_after_s

mark_dead_workers ==
  /\ pass = "workers"
  /\ status' = [w \in Workers |-> IF Silent(w) THEN "DEAD" ELSE status[w]]
  /\ pass' = "sleep"
  /\ rtimer' = 0
  /\ UNCHANGED <<lease_vars, renewal_vars, process, hb_age, round>>

next_sweep ==
  /\ pass = "sleep" /\ rtimer >= reaper_period_s
  /\ pass' = "expired"
  /\ rtimer' = 0
  /\ UNCHANGED <<lease_vars, renewal_vars, worker_vars, round>>

Reaper ==
  \/ reap_expired_leases
  \/ reap_hung_tasks
  \/ mark_dead_workers
  \/ next_sweep

-----------------------------------------------------------------------------
Worker(w) ==
  \/ claim(w) \/ heartbeat(w) \/ crash(w)
  \/ drain_begins(w) \/ drain_ends(w) \/ register_worker(w)

Attempt(l) ==
  \/ renew_begin(l) \/ renew_lease(l) \/ renewal_raises(l)
  \/ finish(l) \/ attempt_raises(l)

Next ==
  \/ Tick
  \/ Reaper
  \/ \E w \in Workers : Worker(w)
  \/ \E l \in Leases : Attempt(l)

Spec == Init /\ [][Next]_vars

-----------------------------------------------------------------------------
(* Properties.                                                             *)

\* An attempt that renews on time never sees its lease run out, however its
\* timers and transactions spend their budget (config.py: "Invariant that
\* must hold, or workers will lose leases they still own").
NoNeedlessExpiry ==
  \A l \in Leases \ late :
    held[l] /\ renewal[l] \in Renewing => lease_left[l] >= 0

\* A worker that beats on time is never declared DEAD and so never fences
\* itself.
LiveWorkerNotMarkedDead ==
  \A w \in Workers \ late : process[w] = "up" => status[w] = "ALIVE"

\* The sweeps it takes to work off all leases.
Sweeps == 1 + (Cardinality(Leases) - 1) \div (batch_size * max_batches_per_sweep)

\* Recovery latency: no expired lease waits longer than it takes to work off
\* everybody's, whatever new ones appear meanwhile, with a transaction that
\* had begun before it expired and a cycle for every batch that found its row
\* locked (config.py: "Recovery latency for a crashed worker is
\* lease_ttl_s + reaper_period_s", which leaves out the length of a sweep, the
\* bound on its batches, and the locks).
RecoveryIsTimely ==
  \A l \in Leases : held[l] =>
    lease_left[l] >= - ((Sweeps + skipped[l]) * Cycle + transaction_time)

\* The worker pass is reached in time, however many tasks expire or hang: no
\* worker stays silent for long and ALIVE (reaper/loop.py: without a bound on
\* the batches "the worker-liveness pass below never runs").
SilenceIsNoticed ==
  \A w \in Workers : status[w] = "ALIVE" =>
    hb_age[w] <= worker_dead_after_s + Cycle + transaction_time
=============================================================================

------------------------- MODULE TenantQueueProofs --------------------------
(***************************************************************************)
(* Theorems about TenantQueue for every set of tasks, tenants and workers, *)
(* every policy order, every capability set and every bound on batches,    *)
(* rounds and keys.                                                        *)
(***************************************************************************)
EXTENDS TenantQueue, FiniteSetTheorems, WellFoundedInduction, TLAPS

-----------------------------------------------------------------------------
(* Counting.                                                               *)

\* A set of numbers has a least one.
LEMMA LeastNumber ==
  ASSUME NEW S \in SUBSET Nat, S # {}
  PROVE  \E x \in S : \A y \in S : x <= y
  <1> DEFINE R == OpToRel(<, Nat)
  <1>1. PICK x \in S : \A y \in S : ~(<<y, x>> \in R)
    <2>1. IsWellFoundedOn(R, Nat)
      BY NatLessThanWellFounded
    <2> HIDE DEF R
    <2> QED
      BY <2>1, WFMin
  <1>2. \A y \in S : ~(y < x)
    BY <1>1 DEF OpToRel
  <1> QED
    BY <1>2

\* Tasks are finitely many, and no part of a set is larger than the set.
LEMMA Counting ==
  ASSUME NEW B \in SUBSET Tasks, NEW A \in SUBSET B
  PROVE  /\ IsFiniteSet(A) /\ IsFiniteSet(B)
         /\ Cardinality(A) \in Nat /\ Cardinality(B) \in Nat
         /\ Cardinality(A) <= Cardinality(B)
  <1>1. IsFiniteSet(B)
    BY FS_Subset, QueueAssumption
  <1>2. IsFiniteSet(A) /\ Cardinality(A) <= Cardinality(B)
    BY <1>1, FS_Subset
  <1> QED
    BY <1>1, <1>2, FS_CardinalityType

\* A part that is not the whole is smaller.
LEMMA CountingStrictly ==
  ASSUME NEW B \in SUBSET Tasks, NEW A \in SUBSET B, NEW x \in B, x \notin A
  PROVE  Cardinality(A) < Cardinality(B)
  <1>1. IsFiniteSet(B) /\ Cardinality(B) \in Nat
    BY Counting
  <1>2. Cardinality(B \ {x}) = Cardinality(B) - 1
    BY <1>1, FS_RemoveElement
  <1>3. B \ {x} \in SUBSET Tasks /\ A \in SUBSET (B \ {x})
    OBVIOUS
  <1>4. /\ Cardinality(A) \in Nat
        /\ Cardinality(A) <= Cardinality(B \ {x})
    BY <1>3, Counting
  <1> QED
    BY <1>1, <1>2, <1>4

\* The order of the policy gives every task a number of its own.
LEMMA OrderFacts ==
  ASSUME rank \in PolicyOrders
  PROVE  /\ rank \in [Tasks -> Nat]
         /\ \A t, u \in Tasks : rank[t] = rank[u] => t = u
  <1>1. Cardinality(Tasks) \in Nat
    BY FS_CardinalityType, QueueAssumption
  <1>2. rank \in [Tasks -> 1 .. Cardinality(Tasks)]
    BY DEF PolicyOrders
  <1>3. \A k \in 1 .. Cardinality(Tasks) : k \in Nat
    BY <1>1
  <1>4. \A t, u \in Tasks : rank[t] = rank[u] => t = u
    BY DEF PolicyOrders
  <1> QED
    BY <1>2, <1>3, <1>4

\* The rows of S before t in the order of the policy.
Before(S, t) == {u \in S : rank[u] < rank[t]}

\* A set of tasks has a last one in the order of the policy.
LEMMA LastTask ==
  ASSUME rank \in PolicyOrders, NEW S \in SUBSET Tasks, S # {}
  PROVE  \E t \in S : \A u \in S : u # t => rank[u] < rank[t]
  <1> DEFINE After(t) == {u \in S : rank[u] > rank[t]}
             Counts == {Cardinality(After(t)) : t \in S}
  <1>1. \A t \in S : After(t) \in SUBSET Tasks /\ Cardinality(After(t)) \in Nat
    <2> SUFFICES ASSUME NEW t \in S
                 PROVE  /\ After(t) \in SUBSET Tasks
                        /\ Cardinality(After(t)) \in Nat
      OBVIOUS
    <2>1. After(t) \in SUBSET Tasks
      OBVIOUS
    <2> QED
      BY <2>1, Counting
  <1>2. Counts \in SUBSET Nat /\ Counts # {}
    BY <1>1
  <1>3. PICK n \in Counts : \A m \in Counts : n <= m
    BY <1>2, LeastNumber
  <1>4. PICK t \in S : n = Cardinality(After(t))
    BY <1>3
  <1>5. After(t) = {}
    <2> SUFFICES ASSUME NEW u \in After(t) PROVE FALSE
      OBVIOUS
    <2>1. /\ After(u) \in SUBSET After(t) /\ u \notin After(u)
          /\ u \in S
      BY OrderFacts
    <2>2. Cardinality(After(u)) < Cardinality(After(t))
      <3>1. After(t) \in SUBSET Tasks
        BY <1>1
      <3> HIDE DEF After
      <3> QED
        BY <2>1, <3>1, CountingStrictly
    <2>3. Cardinality(After(t)) <= Cardinality(After(u))
      BY <1>3, <1>4, <2>1
    <2>4. Cardinality(After(t)) \in Nat /\ Cardinality(After(u)) \in Nat
      BY <1>1, <2>1
    <2> QED
      BY <2>2, <2>3, <2>4
  <1>6. \A u \in S : ~(rank[u] > rank[t])
    BY <1>5
  <1>7. \A u \in S : u # t => rank[u] < rank[t]
    <2> SUFFICES ASSUME NEW u \in S, u # t PROVE rank[u] < rank[t]
      OBVIOUS
    <2>1. rank[u] \in Nat /\ rank[t] \in Nat /\ rank[u] # rank[t]
      BY OrderFacts
    <2> QED
      BY <1>6, <2>1
  <1> QED
    BY <1>7

\* LIMIT k keeps at most k rows: if there were more, the last of them would
\* have k before it.
LEMMA LimitHolds ==
  ASSUME rank \in PolicyOrders, NEW S \in SUBSET Tasks, NEW k \in Int,
         NEW F \in SUBSET S, \A t \in F : Cardinality(Before(S, t)) < k
  PROVE  F # {} => Cardinality(F) <= k
  <1> SUFFICES ASSUME F # {} PROVE Cardinality(F) <= k
    OBVIOUS
  <1>1. PICK t \in F : \A u \in F : u # t => rank[u] < rank[t]
    BY LastTask
  <1>2. F \ {t} \in SUBSET Before(S, t) /\ Before(S, t) \in SUBSET Tasks
    BY <1>1 DEF Before
  <1>3. /\ Cardinality(F \ {t}) <= Cardinality(Before(S, t))
        /\ Cardinality(Before(S, t)) \in Nat
        /\ Cardinality(F \ {t}) \in Nat
    BY <1>2, Counting
  <1>4. IsFiniteSet(F) /\ Cardinality(F) \in Nat
    BY Counting
  <1>5. Cardinality(F \ {t}) = Cardinality(F) - 1
    BY <1>1, <1>4, FS_RemoveElement
  <1> QED
    BY <1>1, <1>3, <1>4, <1>5

-----------------------------------------------------------------------------
(* The keyed merge.                                                        *)

\* Whatever limited branches a candidate set is made of, its first n rows are
\* the first n of all, as long as every row that is among the first n of all
\* is among the candidates.
LEMMA FirstOfCandidates ==
  ASSUME rank \in PolicyOrders, NEW U \in SUBSET Tasks,
         NEW K \in SUBSET U, NEW n \in Nat, FirstOf(U, n) \subseteq K
  PROVE  FirstOf(K, n) = FirstOf(U, n)
  <1>0. /\ FirstOf(U, n) = {s \in U : Cardinality(Before(U, s)) < n}
        /\ FirstOf(K, n) = {s \in K : Cardinality(Before(K, s)) < n}
    BY DEF FirstOf, Before
  <1>1. ASSUME NEW t \in FirstOf(U, n) PROVE t \in FirstOf(K, n)
    <2>1. t \in K /\ Cardinality(Before(U, t)) < n
      BY <1>0
    <2>2. Before(U, t) \in SUBSET Tasks /\ Before(K, t) \in SUBSET Before(U, t)
      BY DEF Before
    <2>3. /\ Cardinality(Before(K, t)) <= Cardinality(Before(U, t))
          /\ Cardinality(Before(K, t)) \in Nat
          /\ Cardinality(Before(U, t)) \in Nat
      BY <2>2, Counting
    <2> QED
      BY <1>0, <2>1, <2>3
  <1>2. ASSUME NEW t \in FirstOf(K, n), t \notin FirstOf(U, n) PROVE FALSE
    <2> DEFINE Out == {s \in U : /\ s \notin FirstOf(U, n)
                                 /\ rank[s] <= rank[t]}
               Ranks == {rank[s] : s \in Out}
    <2>1. t \in U /\ Cardinality(Before(K, t)) < n
      BY <1>0, <1>2
    <2>2. Ranks \in SUBSET Nat /\ Ranks # {}
      BY <1>2, <2>1, OrderFacts
    <2>3. PICK r \in Ranks : \A q \in Ranks : r <= q
      BY <2>2, LeastNumber
    <2>4. PICK s \in Out : r = rank[s]
      BY <2>3
    <2>5. Before(U, s) \in SUBSET FirstOf(U, n)
      <3> SUFFICES ASSUME NEW u \in Before(U, s), u \notin FirstOf(U, n)
                   PROVE  FALSE
        OBVIOUS
      <3>1. u \in U /\ rank[u] < rank[s]
        BY DEF Before
      <3>2. /\ rank[u] \in Nat /\ rank[s] \in Nat /\ rank[t] \in Nat
            /\ rank[s] <= rank[t]
        BY <2>1, <2>4, <3>1, OrderFacts
      <3>3. u \in Out
        BY <3>1, <3>2
      <3> QED
        BY <2>3, <2>4, <3>1, <3>2, <3>3
    <2>6. Before(U, s) \in SUBSET Before(K, t)
      <3> SUFFICES ASSUME NEW u \in Before(U, s) PROVE u \in Before(K, t)
        OBVIOUS
      <3>1. u \in K /\ u \in U /\ rank[u] < rank[s]
        BY <2>5 DEF Before
      <3>2. rank[u] \in Nat /\ rank[s] \in Nat /\ rank[t] \in Nat
        BY <2>1, <2>4, <3>1, OrderFacts
      <3> QED
        BY <2>4, <3>1, <3>2 DEF Before
    <2>7. ~(Cardinality(Before(U, s)) < n)
      BY <1>0, <2>4
    <2>8. Before(K, t) \in SUBSET Tasks
      BY DEF Before
    <2>9. /\ Cardinality(Before(U, s)) <= Cardinality(Before(K, t))
          /\ Cardinality(Before(U, s)) \in Nat
          /\ Cardinality(Before(K, t)) \in Nat
      BY <2>6, <2>8, Counting
    <2> QED
      BY <2>1, <2>7, <2>9
  <1> QED
    BY <1>1, <1>2

\* What the keys say: a task's key is one of the worker's exactly when the
\* worker satisfies the task or a comma in a name makes the keys collide.
LEMMA KeysTell ==
  ASSUME NEW w \in Workers, NEW t \in Tasks
  PROVE  capability_key(t) \in satisfiable_capability_keys(w)
           <=> worker_satisfies(w, t) \/ Collides(w, t)
  <1>1. /\ Need(t) \in SUBSET (Capabilities \ {Blank})
        /\ worker_capabilities[w]
             \in SUBSET (Capabilities \ ({Blank} \cup with_comma))
    BY QueueAssumption DEF Need
  <1>2. ASSUME worker_satisfies(w, t)
        PROVE  capability_key(t) \in satisfiable_capability_keys(w)
    BY <1>2 DEF worker_satisfies, capability_key, satisfiable_capability_keys
  <1>3. ASSUME capability_key(t) \in satisfiable_capability_keys(w),
               ~Collides(w, t)
        PROVE  worker_satisfies(w, t)
    <2>1. PICK S \in SUBSET worker_capabilities[w] : join[Need(t)] = join[S]
      BY <1>3 DEF capability_key, satisfiable_capability_keys
    <2>2. Need(t) \in SUBSET (Capabilities \ ({Blank} \cup with_comma))
      BY <1>1, <1>3 DEF Collides
    <2>3. S \in SUBSET (Capabilities \ ({Blank} \cup with_comma))
      BY <1>1
    <2>4. Need(t) = S
      BY <2>1, <2>2, <2>3, QueueAssumption
    <2> QED
      BY <2>4 DEF worker_satisfies
  <1> QED
    BY <1>2, <1>3 DEF Collides

\* The merge of the branches of all keys of a worker is the scan that filters,
\* and the fallback takes only what the worker satisfies: whatever rows there
\* are.
LEMMA MergeIsFilter ==
  ASSUME rank \in PolicyOrders
  PROVE  MergeIsTheFilter
  <1> SUFFICES ASSUME NEW w \in Workers, NEW n \in 1 .. claim_batch_size
               PROVE  /\ FirstOf(KeyedCandidates(w, n), n) =
                           FirstOf({t \in Lockable(w) :
                              worker_satisfies(w, t) \/ Collides(w, t)}, n)
                      /\ \A t \in FilteredCandidates(w, n) :
                           worker_satisfies(w, t)
    BY DEF MergeIsTheFilter
  <1> DEFINE U == {t \in Lockable(w) :
                     worker_satisfies(w, t) \/ Collides(w, t)}
             Branch(key) == {t \in Lockable(w) : capability_key(t) = key}
             Keys == satisfiable_capability_keys(w)
             K == KeyedCandidates(w, n)
  <1>0. n \in Nat
    BY QueueAssumption
  <1>1. Lockable(w) \in SUBSET Tasks
    BY DEF Lockable
  <1>2. U \in SUBSET Tasks
    BY <1>1
  <1>3. K = UNION {FirstOf(Branch(key), n) : key \in Keys}
    BY DEF KeyedCandidates
  <1>4. \A key \in Keys : Branch(key) \subseteq U
    BY <1>1, KeysTell
  <1>5. K \in SUBSET U
    BY <1>3, <1>4 DEF FirstOf
  <1>6. FirstOf(U, n) \subseteq K
    <2> SUFFICES ASSUME NEW t \in FirstOf(U, n) PROVE t \in K
      OBVIOUS
    <2> DEFINE key == capability_key(t)
    <2>1. t \in U /\ Cardinality(Before(U, t)) < n
      BY DEF FirstOf, Before
    <2>2. key \in Keys /\ t \in Branch(key)
      BY <1>1, <2>1, KeysTell
    <2>3. Before(U, t) \in SUBSET Tasks
      BY <1>2 DEF Before
    <2>4. Before(Branch(key), t) \in SUBSET Before(U, t)
      BY <1>4, <2>2 DEF Before
    <2>5. /\ Cardinality(Before(Branch(key), t)) <= Cardinality(Before(U, t))
          /\ Cardinality(Before(Branch(key), t)) \in Nat
          /\ Cardinality(Before(U, t)) \in Nat
      BY <2>3, <2>4, Counting
    <2>6. Cardinality(Before(Branch(key), t)) < n
      BY <1>0, <2>1, <2>5
    <2>7. t \in FirstOf(Branch(key), n)
      BY <2>2, <2>6 DEF FirstOf, Before
    <2> QED
      BY <1>3, <2>2, <2>7
  <1>7. FirstOf(K, n) = FirstOf(U, n)
    <2> HIDE DEF U, K
    <2> QED
      BY <1>0, <1>2, <1>5, <1>6, FirstOfCandidates
  <1>8. ASSUME NEW t \in FilteredCandidates(w, n)
        PROVE  worker_satisfies(w, t)
    <2>1. t \in Tasks /\ required_capabilities[t] \subseteq worker_capabilities[w]
      BY <1>1 DEF FilteredCandidates, FirstOf
    <2>2. \A c \in required_capabilities[t] : normalise[c] = c
      BY <2>1, QueueAssumption
    <2> QED
      BY <2>1, <2>2 DEF worker_satisfies, Need
  <1> QED
    BY <1>7, <1>8

-----------------------------------------------------------------------------
(* What the steps of a claim do.                                           *)

\* The rows of a batch that tenant n gets.
KeptOf(n, rows, room) == {t \in kept(rows, room) : tenant_id[t] = n}

\* Of a batch each tenant gets no more rows than it has slack.
LEMMA KeptWithinSlack ==
  ASSUME rank \in PolicyOrders, NEW rows \in SUBSET Tasks, NEW room \in [Tenants -> Int],
         NEW n \in Tenants
  PROVE  /\ IsFiniteSet(KeptOf(n, rows, room))
         /\ Cardinality(KeptOf(n, rows, room)) \in Nat
         /\ KeptOf(n, rows, room) # {} =>
              Cardinality(KeptOf(n, rows, room)) <= room[n]
  <1> DEFINE S == {t \in rows : tenant_id[t] = n}
             F == KeptOf(n, rows, room)
  <1>1. kept(rows, room) \in SUBSET rows
    BY DEF kept
  <1>2. S \in SUBSET Tasks /\ F \in SUBSET S
    BY <1>1 DEF KeptOf
  <1>3. \A t \in F : Cardinality(Before(S, t)) < room[n]
    <2> SUFFICES ASSUME NEW t \in F PROVE Cardinality(Before(S, t)) < room[n]
      OBVIOUS
    <2>1. Before(S, t) = {u \in rows : /\ tenant_id[u] = tenant_id[t]
                                       /\ rank[u] < rank[t]}
      BY DEF Before, KeptOf
    <2> QED
      BY <2>1 DEF kept, KeptOf
  <1>4. IsFiniteSet(F) /\ Cardinality(F) \in Nat
    BY <1>2, Counting
  <1>5. F # {} => Cardinality(F) <= room[n]
    <2>1. room[n] \in Int
      OBVIOUS
    <2> HIDE DEF S, F
    <2> QED
      BY <1>2, <1>3, <2>1, LimitHolds
  <1> QED
    BY <1>4, <1>5

\* Claim w took rows, paid for each of them, and goes on at p.
Spent(w, taken, p) ==
  /\ p = "fetch" => round'[w] # MAX_ROUNDS
  /\ pc' = [pc EXCEPT ![w] = p]
  /\ batch' = [batch EXCEPT ![w] = {}]
  /\ claimed_ids' = [claimed_ids EXCEPT ![w] = @ \cup taken]
  /\ slack' \in [Workers -> [Tenants -> Int]]
  /\ \A v \in Workers \ {w} : slack'[v] = slack[v]
  /\ \A n \in Tenants :
       LET own == {t \in taken : tenant_id[t] = n} IN
       /\ IsFiniteSet(own) /\ Cardinality(own) \in Nat
       /\ own # {} => Cardinality(own) <= slack[w][n]
       /\ slack'[w][n] = slack[w][n] - Cardinality(own)

\* Spending the slack takes rows of the batch and pays for each of them.
LEMMA SpendSlackEffect ==
  ASSUME TypeOK, NEW w \in Workers, NEW rows \in SUBSET Tasks,
         SpendSlack(w, rows)
  PROVE  \E taken \in SUBSET rows, p \in {"fetch", "grant"} :
           Spent(w, taken, p)
  <1> DEFINE taken == kept(rows, slack[w])
             own(n) == KeptOf(n, rows, slack[w])
  <1>0. slack[w] \in [Tenants -> Int]
    BY DEF TypeOK
  <1>1. taken \in SUBSET rows
    BY DEF kept
  <1>2. ASSUME NEW n \in Tenants
        PROVE  /\ IsFiniteSet(own(n)) /\ Cardinality(own(n)) \in Nat
               /\ own(n) # {} => Cardinality(own(n)) <= slack[w][n]
    BY <1>0, KeptWithinSlack DEF TypeOK
  <1>3. PICK p \in {"fetch", "grant"} :
          /\ p = "fetch" => round'[w] # MAX_ROUNDS
          /\ pc' = [pc EXCEPT ![w] = p]
    BY DEF SpendSlack, LastRound
  <1>4. /\ batch' = [batch EXCEPT ![w] = {}]
        /\ claimed_ids' = [claimed_ids EXCEPT ![w] = @ \cup taken]
        /\ slack' = [slack EXCEPT ![w] = [n \in Tenants |->
             slack[w][n] - Cardinality(own(n))]]
    BY DEF SpendSlack, KeptOf
  <1>5. [n \in Tenants |-> slack[w][n] - Cardinality(own(n))]
          \in [Tenants -> Int]
    <2> HIDE DEF own
    <2> QED
      BY <1>0, <1>2
  <1>6. \A n \in Tenants : own(n) = {t \in taken : tenant_id[t] = n}
    BY DEF KeptOf
  <1> HIDE DEF taken
  <1>7. slack' \in [Workers -> [Tenants -> Int]]
    BY <1>4, <1>5 DEF TypeOK
  <1>8. /\ \A v \in Workers \ {w} : slack'[v] = slack[v]
        /\ \A n \in Tenants :
             slack'[w][n] = slack[w][n] - Cardinality(own(n))
    BY <1>4 DEF TypeOK
  <1>9. Spent(w, taken, p)
    BY <1>2, <1>3, <1>4, <1>6, <1>7, <1>8 DEF Spent
  <1> QED
    BY <1>1, <1>9

\* A candidate query of w locked some rows and the round goes on with rows:
\* it reads slack, ends without a row, or spends what it knows.
Fetched(w, locked, rows) ==
  /\ locked \subseteq Lockable(w) /\ rows \subseteq locked
  /\ task_lock' = [t \in Tasks |-> IF t \in locked THEN w ELSE task_lock[t]]
  /\ seen_ids' = [seen_ids EXCEPT ![w] = @ \cup rows]
  /\ round' = [round EXCEPT ![w] = @ + 1]
  /\ UNCHANGED <<row_vars, tenant_lock, slack_known>>
  /\ \/ /\ batch' = [batch EXCEPT ![w] = rows]
        /\ pc' = [pc EXCEPT ![w] = "slack"]
        /\ UNCHANGED <<claimed_ids, slack>>
     \/ /\ batch' = [batch EXCEPT ![w] = {}]
        /\ pc' = [pc EXCEPT ![w] = "grant"]
        /\ UNCHANGED <<claimed_ids, slack>>
     \/ /\ SpendSlack(w, rows)
        /\ \A t \in rows : tenant_id[t] \in slack_known[w]

\* That is what FetchCandidates does.
LEMMA FetchEffect ==
  ASSUME TypeOK, NEW w \in Workers, FetchCandidates(w)
  PROVE  \E locked, rows \in SUBSET Tasks : Fetched(w, locked, rows)
  <1> DEFINE need   == limit'[w] - Cardinality(claimed_ids[w])
             locked == Candidates(w, need)
             rows   == FirstOf(locked, need)
  <1>1. locked \in SUBSET Lockable(w)
    BY DEF Candidates, KeyedCandidates, FilteredCandidates, FirstOf
  <1>2. rows \in SUBSET locked
    BY DEF FirstOf
  <1>3. locked \in SUBSET Tasks /\ rows \in SUBSET Tasks
    BY <1>1, <1>2 DEF Lockable
  <1>4. CASE rows = {} /\ no_candidates(w)
    <2>1. /\ pc' = [pc EXCEPT ![w] = "grant"]
          /\ round' = [round EXCEPT ![w] = @ + 1]
          /\ batch' = [batch EXCEPT ![w] = {}]
          /\ UNCHANGED <<task_lock, tenant_lock, row_vars, seen_ids,
                         claimed_ids, slack, slack_known>>
      BY <1>4 DEF no_candidates, lock_vars
    <2>2. /\ task_lock' = [t \in Tasks |-> IF t \in {} THEN w ELSE task_lock[t]]
          /\ seen_ids' = [seen_ids EXCEPT ![w] = @ \cup {}]
      BY <2>1 DEF TypeOK
    <2>3. Fetched(w, {}, {})
      BY <2>1, <2>2 DEF Fetched
    <2> QED
      BY <2>3
  <1>5. CASE ~(rows = {} /\ no_candidates(w))
    <2>1. /\ task_lock' = [t \in Tasks |->
                             IF t \in locked THEN w ELSE task_lock[t]]
          /\ seen_ids' = [seen_ids EXCEPT ![w] = @ \cup rows]
          /\ round' = [round EXCEPT ![w] = @ + 1]
          /\ UNCHANGED <<row_vars, tenant_lock, slack_known>>
      BY <1>5 DEF FetchCandidates
    <2>2. \/ /\ batch' = [batch EXCEPT ![w] = rows]
             /\ pc' = [pc EXCEPT ![w] = "slack"]
             /\ UNCHANGED <<claimed_ids, slack>>
          \/ /\ SpendSlack(w, rows)
             /\ \A t \in rows : tenant_id[t] \in slack_known[w]
      BY <1>5 DEF FetchCandidates
    <2> HIDE DEF locked, rows
    <2>3. Fetched(w, locked, rows)
      BY <1>1, <1>2, <2>1, <2>2 DEF Fetched
    <2> QED
      BY <1>3, <2>3
  <1> QED
    BY <1>4, <1>5

-----------------------------------------------------------------------------
(* The inductive invariant.  ClaimedRowsAreHeld needs it of the batch too, *)
(* which is claimed later; the tenant limit needs what the slack a claim   *)
(* remembers is still worth.                                               *)

\* Rows of the batch and rows already claimed are QUEUED and locked by the
\* claim.
HeldInv ==
  \A w \in Workers : \A t \in batch[w] \cup claimed_ids[w] :
    state[t] = "QUEUED" /\ task_lock[t] = w

\* A claim begins another round only while it may, and a worker without a
\* claim has nothing left of the last one.
RoundInv ==
  \A w \in Workers :
    /\ pc[w] = "fetch" => round[w] < MAX_ROUNDS
    /\ pc[w] \in {"idle", "stopped"} =>
         /\ round[w] = 0
         /\ batch[w] = {} /\ claimed_ids[w] = {} /\ slack_known[w] = {}

\* What a claim has taken of tenant n.
ClaimedOf(w, n) == {t \in claimed_ids[w] : tenant_id[t] = n}

\* The remembered slack leaves room for what the worker runs and has claimed.
\* It is the snapshot of an earlier moment, but since then nobody else has
\* started a task on this worker.
SlackInvOf(w, n) ==
  /\ Cardinality(RunningOn(w, n)) <= max_concurrent_tasks[n]
  /\ n \in slack_known[w] =>
       slack[w][n] + Cardinality(ClaimedOf(w, n))
         + Cardinality(RunningOn(w, n)) <= max_concurrent_tasks[n]
  /\ ClaimedOf(w, n) # {} => n \in slack_known[w] /\ slack[w][n] >= 0

\* For every worker and tenant; a batch whose slack is being spent is of
\* tenants whose slack is known.
SlackInv ==
  /\ \A w \in Workers, n \in Tenants : SlackInvOf(w, n)
  /\ \A w \in Workers : pc[w] = "lock" =>
       \A t \in batch[w] : tenant_id[t] \in slack_known[w]

-----------------------------------------------------------------------------
(* Types and rounds.                                                       *)

\* Steps that are no step of a claim.
RowStep(t) == submit_task(t) \/ cancel_task(t) \/ requeue(t) \/ finish(t)

\* The end of a transaction, as the functions see it.
LEMMA EndEffect ==
  ASSUME TypeOK, NEW w \in Workers, TransactionEnds(w)
  PROVE  /\ task_lock' \in [Tasks -> Workers \cup {NoWorker}]
         /\ tenant_lock' \in [Tenants -> Workers \cup {NoWorker}]
         /\ limit' \in [Workers -> 0 .. claim_batch_size]
         /\ round' \in [Workers -> 0 .. MAX_ROUNDS]
         /\ batch' \in [Workers -> SUBSET Tasks]
         /\ seen_ids' \in [Workers -> SUBSET Tasks]
         /\ claimed_ids' \in [Workers -> SUBSET Tasks]
         /\ slack' \in [Workers -> [Tenants -> Int]]
         /\ slack_known' \in [Workers -> SUBSET Tenants]
         /\ round'[w] = 0 /\ batch'[w] = {} /\ claimed_ids'[w] = {}
         /\ slack_known'[w] = {}
         /\ \A v \in Workers \ {w} :
              /\ round'[v] = round[v] /\ batch'[v] = batch[v]
              /\ claimed_ids'[v] = claimed_ids[v]
              /\ slack'[v] = slack[v] /\ slack_known'[v] = slack_known[v]
              /\ \A t \in Tasks : task_lock[t] = v => task_lock'[t] = v
  <1> USE QueueAssumption DEF TypeOK, TransactionEnds, release_locks
  <1>1. /\ task_lock' \in [Tasks -> Workers \cup {NoWorker}]
        /\ tenant_lock' \in [Tenants -> Workers \cup {NoWorker}]
    OBVIOUS
  <1>2. /\ limit' \in [Workers -> 0 .. claim_batch_size]
        /\ round' \in [Workers -> 0 .. MAX_ROUNDS]
    OBVIOUS
  <1>3. /\ batch' \in [Workers -> SUBSET Tasks]
        /\ seen_ids' \in [Workers -> SUBSET Tasks]
        /\ claimed_ids' \in [Workers -> SUBSET Tasks]
        /\ slack' \in [Workers -> [Tenants -> Int]]
        /\ slack_known' \in [Workers -> SUBSET Tenants]
    OBVIOUS
  <1>4. /\ round'[w] = 0 /\ batch'[w] = {} /\ claimed_ids'[w] = {}
        /\ slack_known'[w] = {}
    OBVIOUS
  <1>5. \A v \in Workers \ {w} :
          /\ round'[v] = round[v] /\ batch'[v] = batch[v]
          /\ claimed_ids'[v] = claimed_ids[v]
          /\ slack'[v] = slack[v] /\ slack_known'[v] = slack_known[v]
          /\ \A t \in Tasks : task_lock[t] = v => task_lock'[t] = v
    OBVIOUS
  <1> QED
    BY <1>1, <1>2, <1>3, <1>4, <1>5

\* Where claim w is and what it holds has changed, for no other claim.
Moved(w, p, b) ==
  /\ p = "fetch" => round'[w] # MAX_ROUNDS
  /\ pc' = [pc EXCEPT ![w] = p]
  /\ batch' = [batch EXCEPT ![w] = b]
  /\ claimed_ids' \in [Workers -> SUBSET Tasks]
  /\ slack' \in [Workers -> [Tenants -> Int]]
  /\ \A v \in Workers \ {w} : claimed_ids'[v] = claimed_ids[v]

\* Spending slack is such a move.
LEMMA SpentMoves ==
  ASSUME TypeOK, NEW w \in Workers, NEW rows \in SUBSET Tasks,
         SpendSlack(w, rows)
  PROVE  \E p \in {"slack", "fetch", "grant"}, b \in SUBSET Tasks :
           Moved(w, p, b)
  <1>1. PICK taken \in SUBSET rows, p \in {"fetch", "grant"} :
          Spent(w, taken, p)
    BY SpendSlackEffect
  <1>2. /\ claimed_ids' \in [Workers -> SUBSET Tasks]
        /\ \A v \in Workers \ {w} : claimed_ids'[v] = claimed_ids[v]
    BY <1>1 DEF Spent, TypeOK
  <1>3. Moved(w, p, {})
    BY <1>1, <1>2 DEF Spent, Moved
  <1> QED
    BY <1>3

\* A move keeps types and rounds.
LEMMA MovedType ==
  ASSUME TypeOK, RoundInv, NEW w \in Workers,
         NEW p \in {"slack", "fetch", "lock", "grant"},
         NEW b \in SUBSET Tasks, Moved(w, p, b),
         round' \in [Workers -> 0 .. MAX_ROUNDS],
         \A v \in Workers \ {w} : /\ round'[v] = round[v]
                                  /\ slack_known'[v] = slack_known[v],
         limit' \in [Workers -> 0 .. claim_batch_size],
         task_lock' \in [Tasks -> Workers \cup {NoWorker}],
         tenant_lock' \in [Tenants -> Workers \cup {NoWorker}],
         seen_ids' \in [Workers -> SUBSET Tasks],
         slack_known' \in [Workers -> SUBSET Tenants],
         UNCHANGED <<state, rank, lease_worker_id>>
  PROVE  TypeOK' /\ RoundInv'
  <1>1. TypeOK'
    BY DEF TypeOK, Moved
  <1>2. RoundInv'
    <2>1. \A v \in Workers \ {w} : /\ pc'[v] = pc[v] /\ batch'[v] = batch[v]
                                   /\ claimed_ids'[v] = claimed_ids[v]
      BY DEF TypeOK, Moved
    <2>2. pc'[w] = p
      BY DEF TypeOK, Moved
    <2>3. p = "fetch" => round'[w] < MAX_ROUNDS
      <3>1. PICK k \in 0 .. MAX_ROUNDS : round'[w] = k
        OBVIOUS
      <3>2. p = "fetch" => k # MAX_ROUNDS
        BY <3>1 DEF Moved
      <3>3. MAX_ROUNDS \in Nat
        BY QueueAssumption
      <3>4. k # MAX_ROUNDS => k < MAX_ROUNDS
        BY <3>3
      <3> QED
        BY <3>1, <3>2, <3>4
    <2>4. \A v \in Workers \ {w} :
            /\ pc'[v] = "fetch" => round'[v] < MAX_ROUNDS
            /\ pc'[v] \in {"idle", "stopped"} =>
                 /\ round'[v] = 0 /\ batch'[v] = {}
                 /\ claimed_ids'[v] = {} /\ slack_known'[v] = {}
      BY <2>1 DEF RoundInv
    <2> QED
      BY <2>2, <2>3, <2>4 DEF RoundInv
  <1> QED
    BY <1>1, <1>2

\* A candidate query keeps types and rounds.
LEMMA FetchType ==
  ASSUME TypeOK, RoundInv, NEW w \in Workers, pc[w] \in {"idle", "fetch"},
         limit' \in [Workers -> 0 .. claim_batch_size], FetchCandidates(w)
  PROVE  TypeOK' /\ RoundInv'
  <1>1. PICK locked \in SUBSET Tasks, rows \in SUBSET Tasks :
          Fetched(w, locked, rows)
    BY FetchEffect
  <1>2. /\ round' \in [Workers -> 0 .. MAX_ROUNDS]
        /\ \A v \in Workers \ {w} : round'[v] = round[v]
    BY <1>1, QueueAssumption DEF Fetched, TypeOK, RoundInv
  <1>3. /\ task_lock' \in [Tasks -> Workers \cup {NoWorker}]
        /\ tenant_lock' \in [Tenants -> Workers \cup {NoWorker}]
        /\ seen_ids' \in [Workers -> SUBSET Tasks]
        /\ slack_known' \in [Workers -> SUBSET Tenants]
        /\ UNCHANGED <<state, rank, lease_worker_id, slack_known>>
    BY <1>1 DEF Fetched, TypeOK, row_vars
  <1>4. PICK p \in {"slack", "fetch", "grant"}, b \in SUBSET Tasks :
          Moved(w, p, b)
    <2>1. CASE SpendSlack(w, rows)
      BY <2>1, SpentMoves
    <2>2. CASE /\ batch' = [batch EXCEPT ![w] = rows]
               /\ pc' = [pc EXCEPT ![w] = "slack"]
               /\ UNCHANGED <<claimed_ids, slack>>
      <3>1. Moved(w, "slack", rows)
        BY <2>2 DEF TypeOK, Moved
      <3> QED
        BY <3>1
    <2>3. CASE /\ batch' = [batch EXCEPT ![w] = {}]
               /\ pc' = [pc EXCEPT ![w] = "grant"]
               /\ UNCHANGED <<claimed_ids, slack>>
      <3>1. Moved(w, "grant", {})
        BY <2>3 DEF TypeOK, Moved
      <3> QED
        BY <3>1
    <2> QED
      BY <1>1, <2>1, <2>2, <2>3 DEF Fetched
  <1>5. \A v \in Workers \ {w} : /\ round'[v] = round[v]
                                 /\ slack_known'[v] = slack_known[v]
    BY <1>2, <1>3
  <1> QED
    BY <1>2, <1>3, <1>4, <1>5, MovedType

\* The end of a transaction keeps types and rounds.
LEMMA EndType ==
  ASSUME TypeOK, RoundInv, NEW w \in Workers, NEW p \in {"idle", "stopped"},
         pc' = [pc EXCEPT ![w] = p],
         state' \in [Tasks -> {"absent", "QUEUED", "RUNNING", "OVER"}],
         rank' \in PolicyOrders,
         lease_worker_id' \in [Tasks -> Workers \cup {NoWorker}],
         TransactionEnds(w)
  PROVE  TypeOK' /\ RoundInv'
  <1>1. TypeOK'
    BY EndEffect DEF TypeOK
  <1>2. RoundInv'
    <2>1. /\ pc'[w] = p
          /\ \A v \in Workers \ {w} : pc'[v] = pc[v]
      BY DEF TypeOK
    <2>2. \A v \in Workers \ {w} :
            /\ round'[v] = round[v] /\ batch'[v] = batch[v]
            /\ claimed_ids'[v] = claimed_ids[v]
            /\ slack_known'[v] = slack_known[v]
      BY EndEffect
    <2>3. /\ round'[w] = 0 /\ batch'[w] = {} /\ claimed_ids'[w] = {}
          /\ slack_known'[w] = {}
      BY EndEffect
    <2> QED
      BY <2>1, <2>2, <2>3 DEF RoundInv
  <1> QED
    BY <1>1, <1>2

\* Every step of a claim keeps types and rounds.
LEMMA ClaimType ==
  ASSUME TypeOK, RoundInv, NEW w \in Workers, ClaimStep(w)
  PROVE  TypeOK' /\ RoundInv'
  <1>1. CASE first_round(w)
    <2>1. limit' \in [Workers -> 0 .. claim_batch_size]
      BY <1>1, QueueAssumption DEF first_round, TypeOK
    <2> QED
      BY <1>1, <2>1, FetchType DEF first_round
  <1>2. CASE next_round(w)
    <2>1. limit' \in [Workers -> 0 .. claim_batch_size]
      BY <1>2 DEF next_round, TypeOK
    <2> QED
      BY <1>2, <2>1, FetchType DEF next_round
  <1>3. CASE read_slack(w)
    <2> DEFINE new == {tenant_id[t] : t \in batch[w]} \ slack_known[w]
               s == [n \in Tenants |->
                       IF n \in new THEN current_slack(n) ELSE slack[w][n]]
    <2>1. /\ slack' = [slack EXCEPT ![w] = s]
          /\ slack_known' = [slack_known EXCEPT ![w] = @ \cup new]
          /\ pc' = [pc EXCEPT ![w] = "lock"]
          /\ UNCHANGED <<row_vars, lock_vars, limit, round, batch, seen_ids,
                         claimed_ids>>
      BY <1>3 DEF read_slack
    <2>2. new \in SUBSET Tenants
      BY QueueAssumption DEF TypeOK
    <2>3. s \in [Tenants -> Int]
      <3>1. \A n \in Tenants : current_slack(n) \in Int
        <4> SUFFICES ASSUME NEW n \in Tenants PROVE current_slack(n) \in Int
          OBVIOUS
        <4> DEFINE R == {t \in Tasks : tenant_id[t] = n /\ state[t] = "RUNNING"}
        <4>1. R \in SUBSET Tasks
          OBVIOUS
        <4> HIDE DEF R
        <4>2. Cardinality(R) \in Nat
          BY <4>1, Counting
        <4>3. max_concurrent_tasks[n] \in Nat
          BY QueueAssumption
        <4>4. max_concurrent_tasks[n] - Cardinality(R) \in Int
          BY <4>2, <4>3
        <4> QED
          BY <4>4 DEF current_slack, running, R
      <3> QED
        BY <3>1 DEF TypeOK
    <2> HIDE DEF new, s
    <2>4. /\ slack' \in [Workers -> [Tenants -> Int]]
          /\ slack_known' \in [Workers -> SUBSET Tenants]
          /\ \A v \in Workers \ {w} : slack_known'[v] = slack_known[v]
      BY <2>1, <2>2, <2>3 DEF TypeOK
    <2>5. batch[w] \in SUBSET Tasks /\ Moved(w, "lock", batch[w])
      BY <2>1, <2>4 DEF TypeOK, Moved
    <2>6. /\ round' \in [Workers -> 0 .. MAX_ROUNDS]
          /\ \A v \in Workers \ {w} : round'[v] = round[v]
          /\ limit' \in [Workers -> 0 .. claim_batch_size]
          /\ task_lock' \in [Tasks -> Workers \cup {NoWorker}]
          /\ tenant_lock' \in [Tenants -> Workers \cup {NoWorker}]
          /\ seen_ids' \in [Workers -> SUBSET Tasks]
          /\ UNCHANGED <<state, rank, lease_worker_id>>
      BY <2>1 DEF TypeOK, row_vars, lock_vars
    <2> QED
      BY <2>4, <2>5, <2>6, MovedType
  <1>4. CASE lock_tenant(w)
    <2>1. PICK n \in Tenants :
            /\ tenant_lock' = [tenant_lock EXCEPT ![n] = w]
            /\ UNCHANGED <<limit, round>>
            /\ \/ SpendSlack(w, batch[w])
               \/ UNCHANGED <<pc, batch, claimed_ids, slack>>
      BY <1>4 DEF lock_tenant
    <2>2. UNCHANGED <<row_vars, task_lock, seen_ids, slack_known>>
      BY <1>4 DEF lock_tenant
    <2>3. /\ round' \in [Workers -> 0 .. MAX_ROUNDS]
          /\ \A v \in Workers \ {w} : /\ round'[v] = round[v]
                                      /\ slack_known'[v] = slack_known[v]
          /\ limit' \in [Workers -> 0 .. claim_batch_size]
          /\ task_lock' \in [Tasks -> Workers \cup {NoWorker}]
          /\ tenant_lock' \in [Tenants -> Workers \cup {NoWorker}]
          /\ seen_ids' \in [Workers -> SUBSET Tasks]
          /\ slack_known' \in [Workers -> SUBSET Tenants]
          /\ UNCHANGED <<state, rank, lease_worker_id>>
      BY <2>1, <2>2 DEF TypeOK, row_vars
    <2>4. CASE SpendSlack(w, batch[w])
      <3>1. batch[w] \in SUBSET Tasks
        BY DEF TypeOK
      <3>2. PICK p \in {"slack", "fetch", "grant"}, b \in SUBSET Tasks :
              Moved(w, p, b)
        BY <2>4, <3>1, SpentMoves
      <3> QED
        BY <2>3, <3>2, MovedType
    <2>5. CASE UNCHANGED <<pc, batch, claimed_ids, slack>>
      <3>1. TypeOK'
        BY <2>3, <2>5 DEF TypeOK
      <3>2. RoundInv'
        BY <2>1, <2>2, <2>5 DEF RoundInv
      <3> QED
        BY <3>1, <3>2
    <2> QED
      BY <2>1, <2>4, <2>5
  <1>5. CASE grant(w)
    <2>1. /\ pc' = [pc EXCEPT ![w] = "idle"]
          /\ state' \in [Tasks -> {"absent", "QUEUED", "RUNNING", "OVER"}]
          /\ rank' \in PolicyOrders
          /\ lease_worker_id' \in [Tasks -> Workers \cup {NoWorker}]
          /\ TransactionEnds(w)
      BY <1>5 DEF grant, TypeOK
    <2> QED
      BY <2>1, EndType
  <1> QED
    BY <1>1, <1>2, <1>3, <1>4, <1>5 DEF ClaimStep

\* And so does every other step.
LEMMA TypeKept ==
  ASSUME TypeOK, RoundInv, [Next]_vars
  PROVE  TypeOK' /\ RoundInv'
  <1>1. ASSUME NEW w \in Workers, ClaimStep(w)
        PROVE  TypeOK' /\ RoundInv'
    BY <1>1, ClaimType
  <1>2. ASSUME NEW w \in Workers, claim_raises(w)
        PROVE  TypeOK' /\ RoundInv'
    <2>1. /\ pc' = [pc EXCEPT ![w] = "stopped"]
          /\ state' \in [Tasks -> {"absent", "QUEUED", "RUNNING", "OVER"}]
          /\ rank' \in PolicyOrders
          /\ lease_worker_id' \in [Tasks -> Workers \cup {NoWorker}]
          /\ TransactionEnds(w)
      BY <1>2 DEF claim_raises, TypeOK, row_vars
    <2> QED
      BY <2>1, EndType
  <1>3. ASSUME NEW t \in Tasks, RowStep(t)
        PROVE  TypeOK' /\ RoundInv'
    <2>1. /\ state' \in [Tasks -> {"absent", "QUEUED", "RUNNING", "OVER"}]
          /\ rank' \in PolicyOrders
          /\ lease_worker_id' \in [Tasks -> Workers \cup {NoWorker}]
          /\ UNCHANGED <<lock_vars, pc, local_vars>>
      BY <1>3 DEF RowStep, submit_task, cancel_task, requeue, finish, Leave,
                  TypeOK
    <2>2. TypeOK'
      BY <2>1 DEF TypeOK, lock_vars, local_vars
    <2>3. RoundInv'
      BY <2>1 DEF RoundInv, local_vars
    <2> QED
      BY <2>2, <2>3
  <1>4. CASE UNCHANGED vars
    <2>1. TypeOK'
      BY <1>4 DEF TypeOK, vars, row_vars, lock_vars, local_vars
    <2>2. RoundInv'
      BY <1>4 DEF RoundInv, vars, local_vars
    <2> QED
      BY <2>1, <2>2
  <1> QED
    BY <1>1, <1>2, <1>3, <1>4
       DEF Next, RowStep, deadlock_detected, crash

-----------------------------------------------------------------------------
(* Locks.                                                                  *)

\* What a claim holds after it has spent slack on rows is what it held, and
\* rows.
LEMMA SpendHolds ==
  ASSUME TypeOK, NEW w \in Workers, NEW rows \in SUBSET Tasks,
         SpendSlack(w, rows)
  PROVE  /\ batch'[w] = {}
         /\ claimed_ids'[w] \subseteq claimed_ids[w] \cup rows
         /\ \A v \in Workers \ {w} : /\ batch'[v] = batch[v]
                                     /\ claimed_ids'[v] = claimed_ids[v]
  <1>1. PICK taken \in SUBSET rows, p \in {"fetch", "grant"} :
          Spent(w, taken, p)
    BY SpendSlackEffect
  <1> QED
    BY <1>1 DEF Spent, TypeOK

\* A candidate query locks what it takes and takes no lock of another claim.
LEMMA FetchHeld ==
  ASSUME TypeOK, HeldInv, NEW w \in Workers, FetchCandidates(w)
  PROVE  HeldInv'
  <1>1. PICK locked \in SUBSET Tasks, rows \in SUBSET Tasks :
          Fetched(w, locked, rows)
    BY FetchEffect
  <1>2. /\ batch'[w] \cup claimed_ids'[w] \subseteq claimed_ids[w] \cup rows
        /\ \A v \in Workers \ {w} : /\ batch'[v] = batch[v]
                                    /\ claimed_ids'[v] = claimed_ids[v]
    <2>1. CASE SpendSlack(w, rows)
      BY <2>1, SpendHolds
    <2>2. CASE /\ batch' = [batch EXCEPT ![w] = rows]
               /\ UNCHANGED claimed_ids
      BY <2>2 DEF TypeOK
    <2>3. CASE /\ batch' = [batch EXCEPT ![w] = {}]
               /\ UNCHANGED claimed_ids
      BY <2>3 DEF TypeOK
    <2> QED
      BY <1>1, <2>1, <2>2, <2>3 DEF Fetched
  <1>3. /\ locked \subseteq Lockable(w) /\ rows \subseteq locked
        /\ task_lock' = [t \in Tasks |-> IF t \in locked THEN w ELSE task_lock[t]]
        /\ state' = state
    BY <1>1 DEF Fetched, row_vars
  <1>4. \A t \in locked : state[t] = "QUEUED" /\ task_lock[t] \in {NoWorker, w}
    BY <1>3 DEF Lockable
  <1>5. ASSUME NEW v \in Workers \ {w}, NEW t \in batch'[v] \cup claimed_ids'[v]
        PROVE  state'[t] = "QUEUED" /\ task_lock'[t] = v
    <2>1. t \in Tasks /\ state[t] = "QUEUED" /\ task_lock[t] = v
      BY <1>2 DEF HeldInv, TypeOK
    <2>2. t \notin locked
      BY <1>4, <2>1, QueueAssumption
    <2> QED
      BY <1>3, <2>1, <2>2
  <1>6. ASSUME NEW t \in batch'[w] \cup claimed_ids'[w]
        PROVE  state'[t] = "QUEUED" /\ task_lock'[t] = w
    <2>1. CASE t \in rows
      BY <1>3, <1>4, <2>1
    <2>2. CASE t \in claimed_ids[w]
      <3>1. t \in Tasks /\ state[t] = "QUEUED" /\ task_lock[t] = w
        BY <2>2 DEF HeldInv, TypeOK
      <3> QED
        BY <1>3, <3>1
    <2> QED
      BY <1>2, <2>1, <2>2
  <1> QED
    BY <1>5, <1>6 DEF HeldInv

\* The end of a claim is nothing to the others, if no row they hold has
\* changed.
LEMMA EndHeld ==
  ASSUME TypeOK, HeldInv, NEW w \in Workers, TransactionEnds(w),
         \A t \in Tasks : task_lock[t] # w => state'[t] = state[t]
  PROVE  HeldInv'
  <1>1. /\ batch'[w] = {} /\ claimed_ids'[w] = {}
        /\ \A v \in Workers \ {w} :
             /\ batch'[v] = batch[v] /\ claimed_ids'[v] = claimed_ids[v]
             /\ \A t \in Tasks : task_lock[t] = v => task_lock'[t] = v
    BY EndEffect
  <1>2. ASSUME NEW v \in Workers \ {w}, NEW t \in batch'[v] \cup claimed_ids'[v]
        PROVE  state'[t] = "QUEUED" /\ task_lock'[t] = v
    <2>1. t \in Tasks /\ state[t] = "QUEUED" /\ task_lock[t] = v
      BY <1>1 DEF HeldInv, TypeOK
    <2> QED
      BY <1>1, <2>1
  <1> QED
    BY <1>1, <1>2 DEF HeldInv

\* Every step keeps the rows of a claim in its hands.
LEMMA HeldKept ==
  ASSUME TypeOK, HeldInv, [Next]_vars
  PROVE  HeldInv'
  <1>1. ASSUME NEW w \in Workers, ClaimStep(w) PROVE HeldInv'
    <2>1. CASE first_round(w)
      BY <2>1, FetchHeld DEF first_round
    <2>2. CASE next_round(w)
      BY <2>2, FetchHeld DEF next_round
    <2>3. CASE read_slack(w)
      BY <2>3 DEF read_slack, row_vars, lock_vars, HeldInv
    <2>4. CASE lock_tenant(w)
      <3>1. /\ UNCHANGED <<state, task_lock>>
            /\ \/ SpendSlack(w, batch[w])
               \/ UNCHANGED <<batch, claimed_ids>>
        BY <2>4 DEF lock_tenant, row_vars
      <3>2. \A v \in Workers :
              batch'[v] \cup claimed_ids'[v] \subseteq batch[v] \cup claimed_ids[v]
        <4>1. CASE SpendSlack(w, batch[w])
          <5>1. batch[w] \in SUBSET Tasks
            BY DEF TypeOK
          <5> QED
            BY <4>1, <5>1, SpendHolds
        <4>2. CASE UNCHANGED <<batch, claimed_ids>>
          BY <4>2
        <4> QED
          BY <3>1, <4>1, <4>2
      <3> QED
        BY <3>1, <3>2 DEF HeldInv
    <2>5. CASE grant(w)
      <3>1. TransactionEnds(w)
        BY <2>5 DEF grant
      <3>2. \A t \in Tasks : task_lock[t] # w => state'[t] = state[t]
        BY <2>5 DEF grant, HeldInv
      <3> QED
        BY <3>1, <3>2, EndHeld
    <2> QED
      BY <1>1, <2>1, <2>2, <2>3, <2>4, <2>5 DEF ClaimStep
  <1>2. ASSUME NEW w \in Workers, claim_raises(w) PROVE HeldInv'
    BY <1>2, EndHeld DEF claim_raises, row_vars
  <1>3. ASSUME NEW t \in Tasks, RowStep(t) PROVE HeldInv'
    <2>1. UNCHANGED <<task_lock, batch, claimed_ids>>
      BY <1>3 DEF RowStep, submit_task, cancel_task, requeue, finish, Leave,
                  lock_vars, local_vars
    <2>2. \A u \in Tasks : state[u] = "QUEUED" /\ task_lock[u] # NoWorker
            => state'[u] = "QUEUED"
      BY <1>3 DEF RowStep, submit_task, cancel_task, requeue, finish, Leave,
                  TypeOK
    <2>3. \A w \in Workers : \A u \in batch[w] \cup claimed_ids[w] :
            u \in Tasks /\ w # NoWorker
      BY QueueAssumption DEF TypeOK
    <2> QED
      BY <2>1, <2>2, <2>3 DEF HeldInv
  <1>4. CASE UNCHANGED vars
    BY <1>4 DEF HeldInv, vars, row_vars, lock_vars, local_vars
  <1> QED
    BY <1>1, <1>2, <1>3, <1>4
       DEF Next, RowStep, deadlock_detected, crash

-----------------------------------------------------------------------------
(* Slack.                                                                  *)

\* The numbers SlackInvOf speaks of.
LEMMA SlackNumbers ==
  ASSUME TypeOK, NEW w \in Workers, NEW n \in Tenants
  PROVE  /\ RunningOn(w, n) \in SUBSET Tasks
         /\ ClaimedOf(w, n) \in SUBSET Tasks
         /\ Cardinality(RunningOn(w, n)) \in Nat
         /\ Cardinality(ClaimedOf(w, n)) \in Nat
         /\ slack[w][n] \in Int
         /\ max_concurrent_tasks[n] \in Nat
  <1>1. RunningOn(w, n) \in SUBSET Tasks /\ ClaimedOf(w, n) \in SUBSET Tasks
    BY DEF RunningOn, ClaimedOf, TypeOK
  <1>2. Cardinality(RunningOn(w, n)) \in Nat /\ Cardinality(ClaimedOf(w, n)) \in Nat
    BY <1>1, Counting
  <1>3. slack[w][n] \in Int /\ max_concurrent_tasks[n] \in Nat
    BY QueueAssumption DEF TypeOK
  <1> QED
    BY <1>1, <1>2, <1>3

\* A worker that runs no more than before, with the claim it had, is within
\* its slack.
LEMMA SlackStays ==
  ASSUME TypeOK, NEW w \in Workers, NEW n \in Tenants, SlackInvOf(w, n),
         RunningOn(w, n)' \subseteq RunningOn(w, n),
         claimed_ids'[w] = claimed_ids[w],
         slack'[w] = slack[w], slack_known'[w] = slack_known[w]
  PROVE  SlackInvOf(w, n)'
  <1> DEFINE R == RunningOn(w, n)
             S == RunningOn(w, n)'
  <1>1. R \in SUBSET Tasks /\ S \in SUBSET R
    BY SlackNumbers
  <1> HIDE DEF R, S
  <1>2. /\ Cardinality(S) <= Cardinality(R)
        /\ Cardinality(S) \in Nat /\ Cardinality(R) \in Nat
    BY <1>1, Counting
  <1>3. ClaimedOf(w, n)' = ClaimedOf(w, n)
    BY DEF ClaimedOf
  <1>4. /\ Cardinality(ClaimedOf(w, n)) \in Nat
        /\ slack[w][n] \in Int /\ max_concurrent_tasks[n] \in Nat
    BY SlackNumbers
  <1>5. Cardinality(S) <= max_concurrent_tasks[n]
    BY <1>2, <1>4 DEF SlackInvOf, R
  <1>6. n \in slack_known[w] =>
          slack[w][n] + Cardinality(ClaimedOf(w, n)) + Cardinality(S)
            <= max_concurrent_tasks[n]
    BY <1>2, <1>4 DEF SlackInvOf, R
  <1> QED
    BY <1>3, <1>5, <1>6 DEF SlackInvOf, S

\* A worker whose claim has ended is within its slack if it was.
LEMMA SlackForgotten ==
  ASSUME NEW w \in Workers, NEW n \in Tenants,
         Cardinality(RunningOn(w, n)') <= max_concurrent_tasks[n],
         claimed_ids'[w] = {}, slack_known'[w] = {}
  PROVE  SlackInvOf(w, n)'
  BY DEF SlackInvOf, ClaimedOf

\* What is claimed is paid for out of the slack.
LEMMA SpendWithinSlack ==
  ASSUME TypeOK, NEW w \in Workers, NEW n \in Tenants, SlackInvOf(w, n),
         NEW rows \in SUBSET Tasks, SpendSlack(w, rows),
         \A t \in rows : tenant_id[t] \in slack_known[w],
         UNCHANGED <<state, lease_worker_id, slack_known>>
  PROVE  SlackInvOf(w, n)'
  <1>1. PICK taken \in SUBSET rows, p \in {"fetch", "grant"} :
          Spent(w, taken, p)
    BY SpendSlackEffect
  <1> DEFINE own == {t \in taken : tenant_id[t] = n}
             C == ClaimedOf(w, n)
             R == RunningOn(w, n)
  <1>2. /\ IsFiniteSet(own) /\ Cardinality(own) \in Nat
        /\ own # {} => Cardinality(own) <= slack[w][n]
        /\ slack'[w][n] = slack[w][n] - Cardinality(own)
    BY <1>1 DEF Spent
  <1>3. ClaimedOf(w, n)' = C \cup own
    BY <1>1 DEF Spent, ClaimedOf, TypeOK
  <1>4. RunningOn(w, n)' = R
    BY DEF RunningOn
  <1>5. /\ C \in SUBSET Tasks /\ Cardinality(C) \in Nat
        /\ Cardinality(R) \in Nat
        /\ slack[w][n] \in Int /\ max_concurrent_tasks[n] \in Nat
    BY SlackNumbers
  <1>6. own # {} => n \in slack_known[w]
    OBVIOUS
  <1>7. own = {} => Cardinality(own) = 0
    BY FS_EmptySet
  <1> HIDE DEF own, C, R
  <1>8. IsFiniteSet(C) /\ IsFiniteSet(C \cap own)
    BY <1>2, <1>5, Counting, FS_Subset
  <1>9. /\ Cardinality(C \cup own) \in Nat
        /\ Cardinality(C \cup own) <= Cardinality(C) + Cardinality(own)
    <2>1. Cardinality(C \cup own) =
            Cardinality(C) + Cardinality(own) - Cardinality(C \cap own)
      BY <1>2, <1>8, FS_Union
    <2>2. Cardinality(C \cap own) \in Nat
      BY <1>8, FS_CardinalityType
    <2>3. IsFiniteSet(C \cup own)
      BY <1>2, <1>8, FS_Union
    <2>4. Cardinality(C \cup own) \in Nat
      BY <2>3, FS_CardinalityType
    <2> QED
      BY <1>2, <1>5, <2>1, <2>2, <2>4
  <1>10. /\ Cardinality(R) <= max_concurrent_tasks[n]
         /\ n \in slack_known[w] =>
              slack[w][n] + Cardinality(C) + Cardinality(R)
                <= max_concurrent_tasks[n]
         /\ C # {} => n \in slack_known[w] /\ slack[w][n] >= 0
    BY DEF SlackInvOf, C, R
  <1>11. n \in slack_known[w] =>
           slack'[w][n] + Cardinality(C \cup own) + Cardinality(R)
             <= max_concurrent_tasks[n]
    BY <1>2, <1>5, <1>9, <1>10
  <1>12. C \cup own # {} => n \in slack_known[w] /\ slack'[w][n] >= 0
    BY <1>2, <1>5, <1>6, <1>7, <1>10
  <1> QED
    BY <1>3, <1>4, <1>10, <1>11, <1>12 DEF SlackInvOf

\* The slack a claim reads has room for all that its worker runs.
LEMMA ReadWithinSlack ==
  ASSUME TypeOK, NEW w \in Workers, NEW n \in Tenants, SlackInvOf(w, n),
         read_slack(w)
  PROVE  SlackInvOf(w, n)'
  <1> DEFINE new == {tenant_id[t] : t \in batch[w]} \ slack_known[w]
             s == [m \in Tenants |->
                     IF m \in new THEN current_slack(m) ELSE slack[w][m]]
             R == RunningOn(w, n)
             All == {t \in Tasks : tenant_id[t] = n /\ state[t] = "RUNNING"}
  <1>1. /\ slack' = [slack EXCEPT ![w] = s]
        /\ slack_known' = [slack_known EXCEPT ![w] = @ \cup new]
        /\ UNCHANGED <<state, lease_worker_id, claimed_ids>>
    BY DEF read_slack, row_vars
  <1>2. RunningOn(w, n)' = R /\ ClaimedOf(w, n)' = ClaimedOf(w, n)
    BY <1>1 DEF RunningOn, ClaimedOf
  <1>3. CASE n \in new
    <2>1. slack'[w][n] = max_concurrent_tasks[n] - Cardinality(All)
      BY <1>1, <1>3 DEF current_slack, running, TypeOK
    <2>2. ClaimedOf(w, n) = {}
      BY <1>3 DEF SlackInvOf
    <2>3. All \in SUBSET Tasks /\ R \in SUBSET All
      BY DEF RunningOn
    <2>4. max_concurrent_tasks[n] \in Nat
      BY SlackNumbers
    <2>5. Cardinality(ClaimedOf(w, n)) = 0
      BY <2>2, FS_EmptySet
    <2> HIDE DEF All, R
    <2>6. /\ Cardinality(R) \in Nat /\ Cardinality(All) \in Nat
          /\ Cardinality(R) <= Cardinality(All)
      BY <2>3, Counting
    <2>7. slack'[w][n] + 0 + Cardinality(R) <= max_concurrent_tasks[n]
      BY <2>1, <2>4, <2>6
    <2>8. Cardinality(R) <= max_concurrent_tasks[n]
      BY DEF SlackInvOf, R
    <2> QED
      BY <1>2, <2>2, <2>5, <2>7, <2>8 DEF SlackInvOf
  <1>4. CASE n \notin new
    <2>1. slack'[w][n] = slack[w][n]
      BY <1>1, <1>4 DEF TypeOK
    <2>2. n \in slack_known'[w] <=> n \in slack_known[w]
      BY <1>1, <1>4 DEF TypeOK
    <2> HIDE DEF new, R
    <2> QED
      BY <1>2, <2>1, <2>2 DEF SlackInvOf, R
  <1> QED
    BY <1>3, <1>4

\* Granted leases fit the tenant's limit on this worker.
LEMMA GrantWithinCap ==
  ASSUME TypeOK, NEW w \in Workers, NEW n \in Tenants, SlackInvOf(w, n),
         grant(w)
  PROVE  Cardinality(RunningOn(w, n)') <= max_concurrent_tasks[n]
  <1> DEFINE C == ClaimedOf(w, n)
             R == RunningOn(w, n)
             S == RunningOn(w, n)'
  <1>1. S \subseteq R \cup C
    BY DEF grant, RunningOn, ClaimedOf, TypeOK
  <1>2. /\ C \in SUBSET Tasks /\ Cardinality(C) \in Nat
        /\ R \in SUBSET Tasks /\ Cardinality(R) \in Nat
        /\ slack[w][n] \in Int /\ max_concurrent_tasks[n] \in Nat
    BY SlackNumbers
  <1>3. /\ Cardinality(R) <= max_concurrent_tasks[n]
        /\ n \in slack_known[w] =>
             slack[w][n] + Cardinality(C) + Cardinality(R)
               <= max_concurrent_tasks[n]
        /\ C # {} => n \in slack_known[w] /\ slack[w][n] >= 0
    BY DEF SlackInvOf
  <1>4. C = {} => Cardinality(C) = 0
    BY FS_EmptySet
  <1> HIDE DEF C, R, S
  <1>5. Cardinality(R) + Cardinality(C) <= max_concurrent_tasks[n]
    BY <1>2, <1>3, <1>4
  <1>6. R \cup C \in SUBSET Tasks /\ S \in SUBSET (R \cup C)
    BY <1>1, <1>2
  <1>7. /\ Cardinality(S) <= Cardinality(R \cup C)
        /\ Cardinality(S) \in Nat /\ Cardinality(R \cup C) \in Nat
    BY <1>6, Counting
  <1>8. IsFiniteSet(R) /\ IsFiniteSet(C) /\ IsFiniteSet(R \cap C)
    BY <1>2, Counting, FS_Subset
  <1>9. Cardinality(R \cup C) =
          Cardinality(R) + Cardinality(C) - Cardinality(R \cap C)
    BY <1>8, FS_Union
  <1>10. Cardinality(R \cap C) \in Nat
    BY <1>8, FS_CardinalityType
  <1>11. Cardinality(S) <= max_concurrent_tasks[n]
    BY <1>2, <1>5, <1>7, <1>9, <1>10
  <1> QED
    BY <1>11 DEF S

\* What a candidate query claims is paid for.
LEMMA FetchSlack ==
  ASSUME TypeOK, SlackInv, NEW w \in Workers, FetchCandidates(w)
  PROVE  SlackInv'
  <1>1. PICK locked \in SUBSET Tasks, rows \in SUBSET Tasks :
          Fetched(w, locked, rows)
    BY FetchEffect
  <1>2. UNCHANGED <<state, lease_worker_id, slack_known>>
    BY <1>1 DEF Fetched, row_vars
  <1>3. \A v \in Workers, n \in Tenants : RunningOn(v, n)' = RunningOn(v, n)
    BY <1>2 DEF RunningOn
  <1>4. CASE SpendSlack(w, rows) /\ \A t \in rows : tenant_id[t] \in slack_known[w]
    <2>1. ASSUME NEW n \in Tenants PROVE SlackInvOf(w, n)'
      BY <1>2, <1>4, SpendWithinSlack DEF SlackInv
    <2>2. PICK taken \in SUBSET rows, p \in {"fetch", "grant"} :
            Spent(w, taken, p)
      BY <1>4, SpendSlackEffect
    <2>3. \A v \in Workers \ {w} : /\ claimed_ids'[v] = claimed_ids[v]
                                   /\ slack'[v] = slack[v]
                                   /\ pc'[v] = pc[v] /\ batch'[v] = batch[v]
      BY <2>2 DEF Spent, TypeOK
    <2>4. ASSUME NEW v \in Workers \ {w}, NEW n \in Tenants
          PROVE  SlackInvOf(v, n)'
      BY <1>2, <1>3, <2>3, SlackStays DEF SlackInv
    <2>5. pc'[w] # "lock"
      BY <2>2 DEF Spent, TypeOK
    <2> QED
      BY <1>2, <2>1, <2>3, <2>4, <2>5 DEF SlackInv
  <1>5. CASE /\ UNCHANGED <<claimed_ids, slack>>
             /\ \E p \in {"slack", "grant"} : pc' = [pc EXCEPT ![w] = p]
             /\ \E b \in SUBSET Tasks : batch' = [batch EXCEPT ![w] = b]
    <2>1. ASSUME NEW v \in Workers, NEW n \in Tenants
          PROVE  SlackInvOf(v, n)'
      BY <1>2, <1>3, <1>5, SlackStays DEF SlackInv
    <2>2. pc'[w] # "lock"
      BY <1>5 DEF TypeOK
    <2>3. \A v \in Workers \ {w} : pc'[v] = pc[v] /\ batch'[v] = batch[v]
      BY <1>5 DEF TypeOK
    <2> QED
      BY <1>2, <2>1, <2>2, <2>3 DEF SlackInv
  <1> QED
    BY <1>1, <1>4, <1>5 DEF Fetched

\* The end of a claim, when it leaves every worker within its limits.
LEMMA EndSlack ==
  ASSUME TypeOK, SlackInv, NEW w \in Workers, NEW p \in {"idle", "stopped"},
         pc' = [pc EXCEPT ![w] = p], TransactionEnds(w),
         \A n \in Tenants :
           Cardinality(RunningOn(w, n)') <= max_concurrent_tasks[n],
         \A v \in Workers \ {w} : \A n \in Tenants :
           RunningOn(v, n)' \subseteq RunningOn(v, n)
  PROVE  SlackInv'
  <1>1. /\ batch'[w] = {} /\ claimed_ids'[w] = {} /\ slack_known'[w] = {}
        /\ \A v \in Workers \ {w} :
             /\ batch'[v] = batch[v] /\ claimed_ids'[v] = claimed_ids[v]
             /\ slack'[v] = slack[v] /\ slack_known'[v] = slack_known[v]
    BY EndEffect
  <1>2. ASSUME NEW n \in Tenants PROVE SlackInvOf(w, n)'
    BY <1>1, SlackForgotten
  <1>3. ASSUME NEW v \in Workers \ {w}, NEW n \in Tenants
        PROVE  SlackInvOf(v, n)'
    BY <1>1, SlackStays DEF SlackInv
  <1>4. \A v \in Workers \ {w} : pc'[v] = pc[v]
    BY DEF TypeOK
  <1> QED
    BY <1>1, <1>2, <1>3, <1>4 DEF SlackInv

\* Every step leaves every worker within its slack.
LEMMA SlackKept ==
  ASSUME TypeOK, HeldInv, SlackInv, [Next]_vars
  PROVE  SlackInv'
  <1>1. ASSUME NEW w \in Workers, ClaimStep(w) PROVE SlackInv'
    <2>1. CASE first_round(w)
      BY <2>1, FetchSlack DEF first_round
    <2>2. CASE next_round(w)
      BY <2>2, FetchSlack DEF next_round
    <2>3. CASE read_slack(w)
      <3>1. ASSUME NEW n \in Tenants PROVE SlackInvOf(w, n)'
        BY <2>3, ReadWithinSlack DEF SlackInv
      <3>2. /\ UNCHANGED <<state, lease_worker_id, batch, claimed_ids>>
            /\ \A v \in Workers \ {w} : /\ slack'[v] = slack[v]
                                        /\ slack_known'[v] = slack_known[v]
                                        /\ pc'[v] = pc[v]
        BY <2>3 DEF read_slack, row_vars, TypeOK
      <3>3. \A v \in Workers, n \in Tenants :
              RunningOn(v, n)' = RunningOn(v, n)
        BY <3>2 DEF RunningOn
      <3>4. ASSUME NEW v \in Workers \ {w}, NEW n \in Tenants
            PROVE  SlackInvOf(v, n)'
        BY <3>2, <3>3, SlackStays DEF SlackInv
      <3>5. \A t \in batch[w] : tenant_id[t] \in slack_known'[w]
        BY <2>3 DEF read_slack, TypeOK
      <3> QED
        BY <3>1, <3>2, <3>4, <3>5 DEF SlackInv
    <2>4. CASE lock_tenant(w)
      <3>1. /\ UNCHANGED <<state, lease_worker_id, slack_known>>
            /\ pc[w] = "lock"
            /\ \/ SpendSlack(w, batch[w])
               \/ UNCHANGED <<pc, batch, claimed_ids, slack>>
        BY <2>4 DEF lock_tenant, row_vars
      <3>2. \A v \in Workers, n \in Tenants :
              RunningOn(v, n)' = RunningOn(v, n)
        BY <3>1 DEF RunningOn
      <3>3. CASE SpendSlack(w, batch[w])
        <4>1. /\ batch[w] \in SUBSET Tasks
              /\ \A t \in batch[w] : tenant_id[t] \in slack_known[w]
          BY <3>1 DEF SlackInv, TypeOK
        <4>2. ASSUME NEW n \in Tenants PROVE SlackInvOf(w, n)'
          BY <3>1, <3>3, <4>1, SpendWithinSlack DEF SlackInv
        <4>3. PICK taken \in SUBSET batch[w], p \in {"fetch", "grant"} :
                Spent(w, taken, p)
          BY <3>3, <4>1, SpendSlackEffect
        <4>4. \A v \in Workers \ {w} : /\ claimed_ids'[v] = claimed_ids[v]
                                       /\ slack'[v] = slack[v]
                                       /\ pc'[v] = pc[v]
                                       /\ batch'[v] = batch[v]
          BY <4>3 DEF Spent, TypeOK
        <4>5. ASSUME NEW v \in Workers \ {w}, NEW n \in Tenants
              PROVE  SlackInvOf(v, n)'
          BY <3>1, <3>2, <4>4, SlackStays DEF SlackInv
        <4>6. pc'[w] # "lock"
          BY <4>3 DEF Spent, TypeOK
        <4> QED
          BY <3>1, <4>2, <4>4, <4>5, <4>6 DEF SlackInv
      <3>4. CASE UNCHANGED <<pc, batch, claimed_ids, slack>>
        <4>1. ASSUME NEW v \in Workers, NEW n \in Tenants
              PROVE  SlackInvOf(v, n)'
          BY <3>1, <3>2, <3>4, SlackStays DEF SlackInv
        <4> QED
          BY <3>1, <3>4, <4>1 DEF SlackInv
      <3> QED
        BY <3>1, <3>3, <3>4
    <2>5. CASE grant(w)
      <3>1. pc' = [pc EXCEPT ![w] = "idle"] /\ TransactionEnds(w)
        BY <2>5 DEF grant
      <3>2. ASSUME NEW n \in Tenants
            PROVE  Cardinality(RunningOn(w, n)') <= max_concurrent_tasks[n]
        BY <2>5, GrantWithinCap DEF SlackInv
      <3>3. ASSUME NEW v \in Workers \ {w}, NEW n \in Tenants
            PROVE  RunningOn(v, n)' \subseteq RunningOn(v, n)
        BY <2>5 DEF grant, RunningOn
      <3> QED
        BY <3>1, <3>2, <3>3, EndSlack
    <2> QED
      BY <1>1, <2>1, <2>2, <2>3, <2>4, <2>5 DEF ClaimStep
  <1>2. ASSUME NEW w \in Workers, claim_raises(w) PROVE SlackInv'
    <2>1. /\ pc' = [pc EXCEPT ![w] = "stopped"] /\ TransactionEnds(w)
          /\ UNCHANGED <<state, lease_worker_id>>
      BY <1>2 DEF claim_raises, row_vars
    <2>2. \A v \in Workers, n \in Tenants : RunningOn(v, n)' = RunningOn(v, n)
      BY <2>1 DEF RunningOn
    <2>3. \A n \in Tenants :
            Cardinality(RunningOn(w, n)') <= max_concurrent_tasks[n]
      BY <2>2 DEF SlackInv, SlackInvOf
    <2> QED
      BY <2>1, <2>2, <2>3, EndSlack
  <1>3. ASSUME NEW t \in Tasks, RowStep(t) PROVE SlackInv'
    <2>1. UNCHANGED <<pc, batch, claimed_ids, slack, slack_known>>
      BY <1>3 DEF RowStep, submit_task, cancel_task, requeue, finish, Leave,
                  local_vars
    <2>2. \A u \in Tasks : state'[u] = "RUNNING" =>
            state[u] = "RUNNING" /\ lease_worker_id'[u] = lease_worker_id[u]
      BY <1>3 DEF RowStep, submit_task, cancel_task, requeue, finish, Leave,
                  TypeOK
    <2>3. \A v \in Workers, n \in Tenants :
            RunningOn(v, n)' \subseteq RunningOn(v, n)
      BY <2>2 DEF RunningOn
    <2>4. ASSUME NEW v \in Workers, NEW n \in Tenants
          PROVE  SlackInvOf(v, n)'
      BY <2>1, <2>3, SlackStays DEF SlackInv
    <2> QED
      BY <2>1, <2>4 DEF SlackInv
  <1>4. CASE UNCHANGED vars
    BY <1>4 DEF SlackInv, SlackInvOf, RunningOn, ClaimedOf, vars, row_vars,
                local_vars
  <1> QED
    BY <1>1, <1>2, <1>3, <1>4
       DEF Next, RowStep, deadlock_detected, crash

-----------------------------------------------------------------------------
(* The theorems.                                                           *)

\* The inductive invariant.
IInv == TypeOK /\ RoundInv /\ HeldInv /\ SlackInv

\* At the start nothing is queued, claimed or locked.
LEMMA InitIInv == Init => IInv
  <1> SUFFICES ASSUME Init PROVE IInv
    OBVIOUS
  <1>1. TypeOK
    BY QueueAssumption DEF Init, TypeOK
  <1>2. RoundInv
    BY DEF Init, RoundInv
  <1>3. HeldInv
    BY DEF Init, HeldInv
  <1>4. SlackInv
    <2>1. ASSUME NEW w \in Workers, NEW n \in Tenants PROVE SlackInvOf(w, n)
      <3>1. RunningOn(w, n) = {} /\ ClaimedOf(w, n) = {}
        BY DEF Init, RunningOn, ClaimedOf
      <3>2. Cardinality(RunningOn(w, n)) = 0
        BY <3>1, FS_EmptySet
      <3>3. max_concurrent_tasks[n] \in Nat
        BY QueueAssumption
      <3>4. n \notin slack_known[w]
        BY DEF Init
      <3> QED
        BY <3>1, <3>2, <3>3, <3>4 DEF SlackInvOf
    <2> QED
      BY <2>1 DEF SlackInv, Init
  <1> QED
    BY <1>1, <1>2, <1>3, <1>4 DEF IInv

\* It is inductive.
LEMMA IInvHolds == Spec => []IInv
  <1>1. IInv /\ [Next]_vars => IInv'
    BY TypeKept, HeldKept, SlackKept DEF IInv
  <1> QED
    BY InitIInv, <1>1, PTL DEF Spec

\* Every variable of the queue and of every claim keeps its type; a claim
\* never begins more than MAX_ROUNDS rounds.
THEOREM QueueTypeCorrect == Spec => []TypeOK
  <1>1. IInv => TypeOK
    BY DEF IInv
  <1> QED
    BY IInvHolds, <1>1, PTL

\* When claim_tasks comes to its final UPDATE, which looks at ids alone,
\* every row it names is still QUEUED and locked by this claim: no row is
\* ever granted to two workers.
THEOREM GrantsAreExclusive == Spec => []ClaimedRowsAreHeld
  <1>1. IInv => ClaimedRowsAreHeld
    BY DEF IInv, HeldInv, ClaimedRowsAreHeld
  <1> QED
    BY IInvHolds, <1>1, PTL

\* However claims overlap, and although a claim spends slack it read before
\* it waited for the tenant's row, no worker ever runs more tasks of a tenant
\* than max_concurrent_tasks.
THEOREM TenantCapHoldsPerWorker == Spec => []WorkerWithinTenantCap
  <1>1. IInv => WorkerWithinTenantCap
    BY DEF IInv, SlackInv, SlackInvOf, WorkerWithinTenantCap
  <1> QED
    BY IInvHolds, <1>1, PTL

\* The keyed merge of the candidate query returns what the ordered scan with
\* a filter would, for every set of capabilities and every queue.
THEOREM KeyedMergeIsTheScan == Spec => []MergeIsTheFilter
  <1>1. IInv => MergeIsTheFilter
    BY MergeIsFilter DEF IInv, TypeOK
  <1> QED
    BY IInvHolds, <1>1, PTL
=============================================================================

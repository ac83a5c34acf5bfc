-------------------------- MODULE SubmissionProofs --------------------------
(***************************************************************************)
(* Theorems about Submission for every set of submissions, whatever keys,  *)
(* tenants, payloads and parameters they have, every quota, every pool and *)
(* either order of commit and response.                                    *)
(***************************************************************************)
EXTENDS Submission, FiniteSetTheorems, TLAPS

-----------------------------------------------------------------------------
(* Types.                                                                  *)

\* Every step keeps the types: what decide, insert_task and select_existing
\* answer is an answer, a depth counts tasks.
LEMMA TypeKept ==
  ASSUME TypeOK, [Next]_vars
  PROVE  TypeOK'
  <1> USE DEF TypeOK, queue_vars, Move, Row, InTransaction, Answers
  <1>1. ASSUME NEW t \in Tasks, admit(t)
        PROVE  TypeOK'
    BY <1>1 DEF admit, decide
  <1>2. ASSUME NEW t \in Tasks, insert_task(t)
        PROVE  TypeOK'
    BY <1>2 DEF insert_task
  <1>3. ASSUME NEW t \in Tasks, select_existing(t)
        PROVE  TypeOK'
    BY <1>3 DEF select_existing
  <1>4. ASSUME NEW t \in Tasks, commit_task(t)
        PROVE  TypeOK'
    BY <1>4 DEF commit_task
  <1>5. ASSUME NEW t \in Tasks, respond(t) \/ rollback(t)
        PROVE  TypeOK'
    BY <1>5 DEF respond, rollback
  <1>6. ASSUME NEW t \in Tasks, claim(t) \/ requeue(t) \/ finish(t)
        PROVE  TypeOK'
    BY <1>6 DEF claim, requeue, finish
  <1>7. CASE refresh_once
    <2>1. PICK waiting \in SUBSET returned :
            global_queued' =
              Cardinality({t \in Tasks : state[t] = "QUEUED"} \ waiting)
      BY <1>7 DEF refresh_once
    <2>2. global_queued' \in 0 .. Cardinality(Tasks)
      <3> DEFINE Counted == {t \in Tasks : state[t] = "QUEUED"} \ waiting
      <3>1. Counted \subseteq Tasks
        OBVIOUS
      <3>2. /\ IsFiniteSet(Counted)
            /\ Cardinality(Counted) <= Cardinality(Tasks)
        BY <3>1, FS_Subset, SubmissionAssumption
      <3>3. Cardinality(Counted) \in Nat /\ Cardinality(Tasks) \in Nat
        BY <3>2, FS_CardinalityType, SubmissionAssumption
      <3> QED
        BY <2>1, <3>2, <3>3
    <2> QED
      BY <1>7, <2>2 DEF refresh_once
  <1>8. CASE UNCHANGED vars
    BY <1>8 DEF vars
  <1> QED
    BY <1>1, <1>2, <1>3, <1>4, <1>5, <1>6, <1>7, <1>8 DEF Next, Submit

-----------------------------------------------------------------------------
(* Keys.  An insert is decided on committed rows only, so the invariant    *)
(* also speaks of the row that nobody can see yet.                         *)

\* A submission that holds its key in the unique index, committed or not.
HoldsKey(t) == answer[t] \in {"inserted", "told", "created"}

\* A key has one holder, and a conflict is with a row that is there to stay.
KeyInv ==
  /\ \A t \in Tasks : answer[t] = "created" <=> state[t] # "absent"
  /\ \A t \in Tasks : answer[t] \in {"told", "lost"} => ~commits_first
  /\ \A t, u \in Tasks : SameKey(t, u) => ~(HoldsKey(t) /\ HoldsKey(u))
  /\ \A t \in Tasks : answer[t] = "conflicted" => Existing(t) # {}
  /\ \A t \in Tasks : answer[t] = "deduplicated"
       => \E u \in Existing(t) : payload[u] = payload[t]
  /\ \A t \in Tasks : answer[t] = "mismatch"
       => \E u \in Existing(t) : payload[u] # payload[t]
  /\ \A t \in Tasks : answer[t] # "retry"

\* A committed row stays: it goes from QUEUED to RUNNING and OVER and back to
\* QUEUED, and is never absent again.
LEMMA RowsStay ==
  ASSUME TypeOK, [Next]_vars, NEW t \in Tasks, state[t] # "absent"
  PROVE  state'[t] # "absent"
  BY DEF TypeOK, Next, Submit, admit, insert_task, select_existing, respond,
         commit_task, rollback, claim, requeue, finish, Row, refresh_once,
         queue_vars, vars

\* Whoever holds the key of another task's row has the row to stay.
LEMMA ExistingStays ==
  ASSUME TypeOK, [Next]_vars, NEW t \in Tasks
  PROVE  Existing(t) \subseteq Existing(t)'
  BY RowsStay DEF Existing

\* A step that leaves the answer of t alone keeps what KeyInv says of its
\* conflicts.
LEMMA ConflictsStay ==
  ASSUME TypeOK, KeyInv, [Next]_vars, NEW t \in Tasks, answer'[t] = answer[t]
  PROVE  /\ answer'[t] = "conflicted" => Existing(t)' # {}
         /\ answer'[t] = "deduplicated"
              => \E u \in Existing(t)' : payload[u] = payload[t]
         /\ answer'[t] = "mismatch"
              => \E u \in Existing(t)' : payload[u] # payload[t]
         /\ answer'[t] # "retry"
         /\ answer'[t] \in {"told", "lost"} => ~commits_first
  BY ExistingStays DEF KeyInv

\* Every step keeps the keys unique and the answers true.
LEMMA KeysKept ==
  ASSUME TypeOK, KeyInv, [Next]_vars
  PROVE  KeyInv'
  <1> DEFINE Fine(u) ==
        /\ answer[u] = "conflicted" => Existing(u) # {}
        /\ answer[u] = "deduplicated"
             => \E x \in Existing(u) : payload[x] = payload[u]
        /\ answer[u] = "mismatch"
             => \E x \in Existing(u) : payload[x] # payload[u]
        /\ answer[u] # "retry"
        /\ answer[u] \in {"told", "lost"} => ~commits_first
  <1>1. ASSUME NEW t \in Tasks, NEW r, r \notin {"inserted", "told", "created"},
               answer[t] # "created", UNCHANGED state,
               answer' = [answer EXCEPT ![t] = r], Fine(t)'
        PROVE  KeyInv'
    <2>1. \A u \in Tasks : answer'[u] = IF u = t THEN r ELSE answer[u]
      BY <1>1 DEF TypeOK
    <2>2. \A u \in Tasks : Fine(u)'
      BY <1>1, <2>1, ConflictsStay
    <2>3. \A u \in Tasks : answer'[u] = "created" <=> state'[u] # "absent"
      BY <1>1, <2>1 DEF KeyInv
    <2>4. \A u, x \in Tasks :
            SameKey(u, x) => ~(HoldsKey(u)' /\ HoldsKey(x)')
      BY <1>1, <2>1 DEF KeyInv, HoldsKey
    <2> QED
      BY <2>2, <2>3, <2>4 DEF KeyInv
  <1>2. CASE UNCHANGED answer /\ \A t \in Tasks :
               state'[t] = "absent" <=> state[t] = "absent"
    <2>1. \A u \in Tasks : Fine(u)'
      BY <1>2, ConflictsStay
    <2> QED
      BY <1>2, <2>1 DEF KeyInv, HoldsKey
  <1>3. ASSUME NEW t \in Tasks, admit(t)
        PROVE  KeyInv'
    <2>1. PICK r \in {"refused", "admitted"} :
            answer' = [answer EXCEPT ![t] = r]
      BY <1>3 DEF admit, Move, decide
    <2>2. answer[t] = "none" /\ UNCHANGED state
      BY <1>3 DEF admit, Move, queue_vars
    <2>3. answer'[t] = r
      BY <2>1 DEF TypeOK
    <2> QED
      BY <1>1, <2>1, <2>2, <2>3
  <1>4. ASSUME NEW t \in Tasks, insert_task(t)
        PROVE  KeyInv'
    <2>1. answer[t] = "admitted" /\ UNCHANGED state /\ Uncommitted(t) = {}
      BY <1>4 DEF insert_task, Move, queue_vars
    <2>2. CASE Existing(t) = {}
      <3>1. \A u \in Tasks : answer'[u] = IF u = t THEN "inserted"
                                                   ELSE answer[u]
        BY <1>4, <2>2 DEF insert_task, Move, TypeOK
      <3>2. \A u \in Tasks : Fine(u)'
        BY <3>1, ConflictsStay
      <3>3. \A u \in Tasks : SameKey(t, u) => ~HoldsKey(u)
        BY <2>1, <2>2 DEF Uncommitted, Existing, HoldsKey, KeyInv
      <3>4. \A u, x \in Tasks :
              SameKey(u, x) => ~(HoldsKey(u)' /\ HoldsKey(x)')
        BY <3>1, <3>3 DEF SameKey, HoldsKey, KeyInv
      <3>5. \A u \in Tasks : answer'[u] = "created" <=> state'[u] # "absent"
        BY <2>1, <3>1 DEF KeyInv
      <3> QED
        BY <3>2, <3>4, <3>5 DEF KeyInv
    <2>3. CASE Existing(t) # {}
      <3>1. answer' = [answer EXCEPT ![t] = "conflicted"]
        BY <1>4, <2>3 DEF insert_task, Move
      <3>2. answer'[t] = "conflicted" /\ Existing(t)' # {}
        BY <2>3, <3>1, ExistingStays DEF TypeOK
      <3> QED
        BY <1>1, <2>1, <3>1, <3>2
    <2> QED
      BY <2>2, <2>3
  <1>5. ASSUME NEW t \in Tasks, select_existing(t)
        PROVE  KeyInv'
    <2>1. answer[t] = "conflicted" /\ UNCHANGED state /\ Existing(t) # {}
      BY <1>5 DEF select_existing, Move, queue_vars, KeyInv
    <2>2. Existing(t)' = Existing(t)
      BY <2>1 DEF Existing
    <2>3. CASE \E u \in Existing(t) : payload[u] = payload[t]
      <3>1. answer' = [answer EXCEPT ![t] = "deduplicated"]
        BY <1>5, <2>1, <2>3 DEF select_existing, Move
      <3>2. answer'[t] = "deduplicated"
        BY <3>1 DEF TypeOK
      <3> QED
        BY <1>1, <2>1, <2>2, <2>3, <3>1, <3>2
    <2>4. CASE ~ \E u \in Existing(t) : payload[u] = payload[t]
      <3>1. answer' = [answer EXCEPT ![t] = "mismatch"]
        BY <1>5, <2>1, <2>4 DEF select_existing, Move
      <3>2. answer'[t] = "mismatch"
        BY <3>1 DEF TypeOK
      <3> QED
        BY <1>1, <2>1, <2>2, <2>4, <3>1, <3>2
    <2> QED
      BY <2>3, <2>4
  <1>6. ASSUME NEW t \in Tasks, commit_task(t)
        PROVE  KeyInv'
    <2>1. answer[t] \in {"inserted", "told"}
      BY <1>6 DEF commit_task, Move
    <2>2. \A u \in Tasks :
            /\ answer'[u] = IF u = t THEN "created" ELSE answer[u]
            /\ state'[u] = IF u = t THEN "QUEUED" ELSE state[u]
      BY <1>6 DEF commit_task, Move, TypeOK
    <2>3. \A u \in Tasks : Fine(u)'
      BY <2>2, ConflictsStay
    <2>4. \A u \in Tasks : HoldsKey(u)' <=> HoldsKey(u)
      BY <2>1, <2>2 DEF HoldsKey
    <2> QED
      BY <2>2, <2>3, <2>4 DEF KeyInv
  <1>7. ASSUME NEW t \in Tasks, rollback(t)
        PROVE  KeyInv'
    <2>1. PICK r \in {"refused", "lost"} :
            /\ answer' = [answer EXCEPT ![t] = r]
            /\ r = "lost" => answer[t] = "told"
      BY <1>7 DEF rollback, Move
    <2>2. answer[t] \in {"inserted", "told"} /\ UNCHANGED state
      BY <1>7 DEF rollback, Move, queue_vars
    <2>3. answer'[t] = r /\ (r = "lost" => ~commits_first)
      BY <2>1 DEF TypeOK, KeyInv
    <2> QED
      BY <1>1, <2>1, <2>2, <2>3
  <1>10. ASSUME NEW t \in Tasks, respond(t)
         PROVE  KeyInv'
    <2>1. /\ ~commits_first /\ answer[t] = "inserted" /\ UNCHANGED state
          /\ answer' = [answer EXCEPT ![t] = "told"]
      BY <1>10 DEF respond, Move, queue_vars
    <2>2. \A u \in Tasks : answer'[u] = IF u = t THEN "told" ELSE answer[u]
      BY <2>1 DEF TypeOK
    <2>3. \A u \in Tasks : Fine(u)'
      BY <2>1, <2>2, ConflictsStay
    <2>4. \A u \in Tasks : HoldsKey(u)' <=> HoldsKey(u)
      BY <2>1, <2>2 DEF HoldsKey
    <2>5. \A u \in Tasks : answer'[u] = "created" <=> state'[u] # "absent"
      BY <2>1, <2>2 DEF KeyInv
    <2> QED
      BY <2>3, <2>4, <2>5 DEF KeyInv
  <1>8. ASSUME NEW t \in Tasks, claim(t) \/ requeue(t) \/ finish(t)
        PROVE  KeyInv'
    BY <1>2, <1>8 DEF claim, requeue, finish, Row, TypeOK
  <1>9. CASE refresh_once \/ UNCHANGED vars
    BY <1>2, <1>9 DEF refresh_once, queue_vars, vars
  <1> QED
    BY <1>3, <1>4, <1>5, <1>6, <1>7, <1>8, <1>9, <1>10 DEF Next, Submit

-----------------------------------------------------------------------------
(* The backlog.                                                            *)

\* What counts against a tenant: rows that were never claimed, and
\* transactions that may add one.
Fresh(n) == Queued(n) \ returned
OpenOf(n) == {t \in Open : tenant_id[t] = n}

\* A part of the tasks is finite, and no part of it is larger.
LEMMA Counting ==
  ASSUME NEW A, NEW B, B \subseteq Tasks, A \subseteq B
  PROVE  /\ IsFiniteSet(A) /\ IsFiniteSet(B)
         /\ Cardinality(A) \in Nat /\ Cardinality(B) \in Nat
         /\ Cardinality(A) <= Cardinality(B)
  <1>1. IsFiniteSet(B)
    BY FS_Subset, SubmissionAssumption
  <1>2. IsFiniteSet(A) /\ Cardinality(A) <= Cardinality(B)
    BY <1>1, FS_Subset
  <1> QED
    BY <1>1, <1>2, FS_CardinalityType

\* Steps after which neither set has anything new keep the bound.
LEMMA NothingNew ==
  ASSUME BacklogBounded, NEW n \in Tenants,
         Fresh(n)' \subseteq Fresh(n), OpenOf(n)' \subseteq OpenOf(n)
  PROVE  Cardinality(Fresh(n)') + Cardinality(OpenOf(n)')
           <= max_queued_tasks[n] - 1 + pool_size
  <1>1. Fresh(n) \subseteq Tasks /\ OpenOf(n) \subseteq Tasks
    BY DEF Fresh, Queued, OpenOf, Open
  <1>2. /\ Cardinality(Fresh(n)') \in Nat /\ Cardinality(Fresh(n)) \in Nat
        /\ Cardinality(Fresh(n)') <= Cardinality(Fresh(n))
    BY <1>1, Counting
  <1>3. /\ Cardinality(OpenOf(n)') \in Nat /\ Cardinality(OpenOf(n)) \in Nat
        /\ Cardinality(OpenOf(n)') <= Cardinality(OpenOf(n))
    BY <1>1, Counting
  <1>4. Cardinality(Fresh(n)) + Cardinality(OpenOf(n))
          <= max_queued_tasks[n] - 1 + pool_size
    BY DEF BacklogBounded, Fresh, OpenOf
  <1>5. max_queued_tasks[n] \in Nat /\ pool_size \in Nat
    BY SubmissionAssumption
  <1> QED
    BY <1>2, <1>3, <1>4, <1>5

\* Every step keeps the bound: admission decides on what is queued while a
\* connection is free, and a commit turns an open transaction into a row.
LEMMA BacklogKept ==
  ASSUME TypeOK, BacklogBounded, [Next]_vars
  PROVE  BacklogBounded'
  <1> SUFFICES ASSUME NEW n \in Tenants
               PROVE  Cardinality(Fresh(n)') + Cardinality(OpenOf(n)')
                        <= max_queued_tasks[n] - 1 + pool_size
    BY DEF BacklogBounded, Fresh, OpenOf
  <1> DEFINE Bound == max_queued_tasks[n] - 1 + pool_size
  <1>0. max_queued_tasks[n] \in Nat /\ pool_size \in Nat
    BY SubmissionAssumption
  <1>1. ASSUME NEW t \in Tasks, admit(t), answer'[t] = "admitted",
               tenant_id[t] = n
        PROVE  Cardinality(Fresh(n)') + Cardinality(OpenOf(n)') <= Bound
    <2>1. Cardinality(Queued(n)) < max_queued_tasks[n]
      <3>1. ~(queued_count_for_tenant(n) >= max_queued_tasks[n])
        BY <1>1 DEF admit, Move, decide, TypeOK
      <3>2. Queued(n) \subseteq Tasks
        BY DEF Queued
      <3>3. Cardinality(Queued(n)) \in Nat
        BY <3>2, Counting
      <3> QED
        BY <1>0, <3>1, <3>3 DEF queued_count_for_tenant
    <2>2. Fresh(n)' = Fresh(n) /\ Fresh(n) \subseteq Queued(n)
      BY <1>1 DEF admit, queue_vars, Fresh, Queued
    <2>3. /\ Cardinality(Fresh(n)) \in Nat /\ Cardinality(Queued(n)) \in Nat
          /\ Cardinality(Fresh(n)) <= Cardinality(Queued(n))
      <3>1. Queued(n) \subseteq Tasks
        BY DEF Queued
      <3> QED
        BY <2>2, <3>1, Counting
    <2>4. Cardinality(Open) < pool_size
      BY <1>1 DEF admit
    <2>5. OpenOf(n)' \subseteq Open \cup {t}
      BY <1>1 DEF admit, Move, OpenOf, Open, TypeOK
    <2>6. /\ IsFiniteSet(Open) /\ Cardinality(Open) \in Nat
          /\ Cardinality(Open \cup {t}) <= Cardinality(Open) + 1
          /\ Cardinality(Open \cup {t}) \in Nat
      <3>1. Open \subseteq Tasks
        BY DEF Open
      <3>2. IsFiniteSet(Open) /\ Cardinality(Open) \in Nat
        BY <3>1, Counting
      <3>3. Cardinality(Open \cup {t}) = IF t \in Open
              THEN Cardinality(Open) ELSE Cardinality(Open) + 1
        BY <3>2, FS_AddElement
      <3> QED
        BY <3>2, <3>3
    <2>7. /\ Cardinality(OpenOf(n)') \in Nat
          /\ Cardinality(OpenOf(n)') <= Cardinality(Open \cup {t})
      <3>1. Open \cup {t} \subseteq Tasks
        BY DEF Open
      <3> QED
        BY <2>5, <3>1, Counting
    <2> QED
      BY <1>0, <2>1, <2>2, <2>3, <2>4, <2>6, <2>7
  <1>2. ASSUME NEW t \in Tasks, commit_task(t), tenant_id[t] = n
        PROVE  Cardinality(Fresh(n)') + Cardinality(OpenOf(n)') <= Bound
    <2>1. /\ t \in OpenOf(n)
          /\ OpenOf(n)' = OpenOf(n) \ {t}
      BY <1>2 DEF commit_task, Move, OpenOf, Open, InTransaction, TypeOK
    <2>2. Fresh(n)' \subseteq Fresh(n) \cup {t}
      BY <1>2 DEF commit_task, Fresh, Queued, TypeOK
    <2>3. /\ IsFiniteSet(OpenOf(n)) /\ IsFiniteSet(Fresh(n))
          /\ Cardinality(OpenOf(n)) \in Nat /\ Cardinality(Fresh(n)) \in Nat
      <3>1. OpenOf(n) \subseteq Tasks /\ Fresh(n) \subseteq Tasks
        BY DEF OpenOf, Open, Fresh, Queued
      <3> QED
        BY <3>1, Counting
    <2>4. Cardinality(OpenOf(n)') = Cardinality(OpenOf(n)) - 1
      BY <2>1, <2>3, FS_RemoveElement
    <2>5. /\ Cardinality(Fresh(n)') \in Nat
          /\ Cardinality(Fresh(n)') <= Cardinality(Fresh(n)) + 1
      <3>1. Fresh(n) \cup {t} \subseteq Tasks
        BY DEF Fresh, Queued
      <3>2. Cardinality(Fresh(n) \cup {t}) = IF t \in Fresh(n)
              THEN Cardinality(Fresh(n)) ELSE Cardinality(Fresh(n)) + 1
        BY <2>3, FS_AddElement
      <3>3. /\ Cardinality(Fresh(n)') \in Nat
            /\ Cardinality(Fresh(n)') <= Cardinality(Fresh(n) \cup {t})
        BY <2>2, <3>1, Counting
      <3> QED
        BY <2>3, <3>2, <3>3
    <2>6. Cardinality(Fresh(n)) + Cardinality(OpenOf(n)) <= Bound
      BY DEF BacklogBounded, Fresh, OpenOf
    <2> QED
      BY <1>0, <2>3, <2>4, <2>5, <2>6
  <1>3. CASE Fresh(n)' \subseteq Fresh(n) /\ OpenOf(n)' \subseteq OpenOf(n)
    BY <1>3, NothingNew
  <1> USE DEF Fresh, Queued, OpenOf, Open
  <1>4. ASSUME NEW t \in Tasks, admit(t),
               ~(answer'[t] = "admitted" /\ tenant_id[t] = n)
        PROVE  Cardinality(Fresh(n)') + Cardinality(OpenOf(n)') <= Bound
    <2>1. UNCHANGED <<state, returned>>
      BY <1>4 DEF admit, queue_vars
    <2>2. \A u \in Tasks : tenant_id[u] = n /\ answer'[u] \in InTransaction
            => answer[u] \in InTransaction
      BY <1>4 DEF admit, Move, decide, TypeOK, InTransaction
    <2> QED
      BY <1>3, <2>1, <2>2
  <1>5. ASSUME NEW t \in Tasks, commit_task(t), tenant_id[t] # n
        PROVE  Cardinality(Fresh(n)') + Cardinality(OpenOf(n)') <= Bound
    BY <1>3, <1>5 DEF commit_task, Move, TypeOK, InTransaction
  <1>6. ASSUME NEW t \in Tasks,
               \/ insert_task(t) \/ select_existing(t)
               \/ respond(t) \/ rollback(t)
        PROVE  Cardinality(Fresh(n)') + Cardinality(OpenOf(n)') <= Bound
    <2>1. UNCHANGED <<state, returned>>
      BY <1>6 DEF insert_task, select_existing, respond, rollback, queue_vars
    <2>2. \A u \in Tasks : answer'[u] \in InTransaction
            => answer[u] \in InTransaction
      BY <1>6 DEF insert_task, select_existing, respond, rollback, Move,
                  TypeOK, InTransaction
    <2> QED
      BY <1>3, <2>1, <2>2
  <1>7. ASSUME NEW t \in Tasks, claim(t) \/ requeue(t) \/ finish(t)
        PROVE  Cardinality(Fresh(n)') + Cardinality(OpenOf(n)') <= Bound
    BY <1>3, <1>7 DEF claim, requeue, finish, Row, TypeOK
  <1>8. CASE refresh_once \/ UNCHANGED vars
    BY <1>3, <1>8 DEF refresh_once, queue_vars, vars
  <1> QED
    BY <1>1, <1>2, <1>4, <1>5, <1>6, <1>7, <1>8 DEF Next, Submit

-----------------------------------------------------------------------------
(* The theorems.                                                           *)

\* The types, the keys and the backlog.
IInv == TypeOK /\ KeyInv /\ BacklogBounded

\* The parts hold together in every state.
LEMMA SubmissionInvariant == Spec => []IInv
  <1>1. Init => IInv
    <2> SUFFICES ASSUME Init PROVE IInv
      OBVIOUS
    <2>1. TypeOK
      BY FS_CardinalityType, SubmissionAssumption DEF Init, TypeOK
    <2>2. KeyInv
      BY DEF Init, KeyInv, HoldsKey
    <2>3. BacklogBounded
      <3> SUFFICES ASSUME NEW n \in Tenants
                   PROVE  Cardinality(Fresh(n)) + Cardinality(OpenOf(n))
                            <= max_queued_tasks[n] - 1 + pool_size
        BY DEF BacklogBounded, Fresh, OpenOf
      <3>1. Fresh(n) = {} /\ OpenOf(n) = {}
        BY DEF Init, Fresh, Queued, OpenOf, Open, InTransaction
      <3>2. Cardinality({}) = 0
        BY FS_EmptySet
      <3>3. max_queued_tasks[n] \in Nat \ {0} /\ pool_size \in Nat
        BY SubmissionAssumption
      <3> QED
        BY <3>1, <3>2, <3>3
    <2> QED
      BY <2>1, <2>2, <2>3 DEF IInv
  <1>2. IInv /\ [Next]_vars => IInv'
    BY TypeKept, KeysKept, BacklogKept DEF IInv
  <1> QED
    BY <1>1, <1>2, PTL DEF Spec

\* Rows and answers stay within the values the code writes.
THEOREM SubmissionTypeCorrect == Spec => []TypeOK
  <1>1. IInv => TypeOK
    BY DEF IInv
  <1> QED
    BY <1>1, SubmissionInvariant, PTL

\* However many submissions share a key, overlap, commit and roll back, at
\* most one of them has a task: submit_task and the unique index.
THEOREM KeysAreUnique == Spec => []OneTaskPerKey
  <1>1. IInv => OneTaskPerKey
    BY DEF IInv, KeyInv, HoldsKey, OneTaskPerKey
  <1> QED
    BY <1>1, SubmissionInvariant, PTL

\* What submit_task answers is true, and stays true: 201 with the one
\* exception of a failed commit after the response, 200 of a task with the key
\* and the payload, 409 of another payload, which no retry of the very same
\* request gets; the 409 that asks for a retry is never given.
THEOREM SubmittersAreToldTheTruth == Spec => []AnswersAreTrue
  <1>1. KeyInv => AnswersAreTrue
    <2> SUFFICES ASSUME KeyInv, NEW t \in Tasks, answer[t] = "mismatch",
                        NEW u \in Tasks, SameRequest(t, u), state[u] # "absent"
                 PROVE  FALSE
      BY DEF KeyInv, AnswersAreTrue
    <2>1. PICK x \in Existing(t) : payload[x] # payload[t]
      BY DEF KeyInv
    <2>2. x \in Tasks /\ SameKey(t, x) /\ SameKey(t, u) /\ state[x] # "absent"
      BY <2>1 DEF Existing, SameRequest
    <2>3. x # u
      BY <2>1 DEF SameRequest
    <2>4. SameKey(x, u)
      BY <2>2, <2>3 DEF SameKey
    <2>5. HoldsKey(x) /\ HoldsKey(u)
      BY <2>2 DEF KeyInv, HoldsKey
    <2> QED
      BY <2>2, <2>4, <2>5 DEF KeyInv
  <1>2. IInv => KeyInv
    BY DEF IInv
  <1> QED
    BY <1>1, <1>2, SubmissionInvariant, PTL

\* A tenant's fresh backlog passes its quota by less than the pool has
\* connections, for every pool, quota and number of submissions: _submit
\* counts and inserts in one transaction that holds a connection.
THEOREM BacklogIsBounded == Spec => []BacklogBounded
  <1>1. IInv => BacklogBounded
    BY DEF IInv
  <1> QED
    BY <1>1, SubmissionInvariant, PTL
=============================================================================

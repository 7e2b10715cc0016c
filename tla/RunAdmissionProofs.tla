------------------------- MODULE RunAdmissionProofs -------------------------
(***************************************************************************)
(* Proofs about RunAdmission, for every set of tasks and reservations,     *)
(* budget, pace and deadline.                                              *)
(*                                                                         *)
(* The counters are only non-negative, and only reconcile, because nothing *)
(* in the chain has been admitted yet and nobody is in it twice: Accounts  *)
(* is the inductive invariant that says so.                                *)
(***************************************************************************)
EXTENDS RunAdmission, FiniteSetTheorems, SequenceTheorems, TLAPS

USE TasksAssumption, RequestsAssumption, BudgetAssumption, PaceAssumption,
    ClockAssumption, BytesAssumption

\* Everyone in the chain is queued, and is in it once.
ChainIsQueued ==
    \A i, j \in 1..Len(tail) :
      status[tail[i]] = "queued" /\ (tail[i] = tail[j] => i = j)

Accounts == TypeOK /\ ChainIsQueued /\ LedgerReconciles /\ BudgetIsShared

LEMMA OwnerIsTask == \A r \in Requests : Owner(r) \in Tasks
BY DEF Owner

\* The reservations of one task in given states are a finite set.
LEMMA WithFinite ==
    ASSUME NEW t, NEW states
    PROVE  /\ IsFiniteSet(With(t, states))
           /\ Cardinality(With(t, states)) \in Nat
BY FS_Subset, FS_CardinalityType DEF With

\* One reservation changes state.
Moves(r, s) == status' = [status EXCEPT ![r] = s]

\* One reservation's change of state moves each count by at most one.
LEMMA CountMove ==
    ASSUME TypeOK, NEW r \in Requests, NEW s \in Statuses,
           Moves(r, s), NEW t, NEW states, status[r] \notin states
    PROVE  Cardinality(With(t, states)') =
             Cardinality(With(t, states))
               + (IF Owner(r) = t /\ s \in states THEN 1 ELSE 0)
<1>1. CASE Owner(r) = t /\ s \in states
  <2>1. With(t, states)' = With(t, states) \cup {r}
    BY <1>1 DEF With, TypeOK, Moves
  <2>2. r \notin With(t, states)
    BY DEF With
  <2>3. QED
    BY <1>1, <2>1, <2>2, WithFinite, FS_AddElement
<1>2. CASE ~(Owner(r) = t /\ s \in states)
  <2>1. With(t, states)' = With(t, states)
    BY <1>2 DEF With, TypeOK, Moves
  <2>2. QED
    BY <1>2, <2>1, WithFinite
<1>3. QED
  BY <1>1, <1>2

AdmittedNow == {r \in Requests : status[r] \in Admitted}

LEMMA AdmittedFinite == IsFiniteSet(AdmittedNow) /\ Cardinality(AdmittedNow) \in Nat
BY FS_Subset, FS_CardinalityType DEF AdmittedNow

\* The same for the permits of all tasks.
LEMMA AdmittedMove ==
    ASSUME TypeOK, NEW r \in Requests, NEW s \in Statuses,
           Moves(r, s), status[r] \notin Admitted
    PROVE  Cardinality(AdmittedNow') =
             Cardinality(AdmittedNow) + (IF s \in Admitted THEN 1 ELSE 0)
<1>1. CASE s \in Admitted
  <2>1. AdmittedNow' = AdmittedNow \cup {r} /\ r \notin AdmittedNow
    BY <1>1 DEF AdmittedNow, TypeOK, Moves
  <2>2. QED
    BY <1>1, <2>1, AdmittedFinite, FS_AddElement
<1>2. CASE s \notin Admitted
  <2>1. AdmittedNow' = AdmittedNow
    BY <1>2 DEF AdmittedNow, TypeOK, Moves
  <2>2. QED
    BY <1>2, <2>1, AdmittedFinite
<1>3. QED
  BY <1>1, <1>2

\* Settling any set of reservations, all at once, moves exactly the pending
\* ones, and each counter by as many.
LEMMA SettleCounts ==
    ASSUME TypeOK, LedgerReconciles, NEW S \in SUBSET Requests,
           NEW outcome \in Outcomes, Settle(S, outcome)
    PROVE  /\ LedgerReconciles'
           /\ AdmittedNow' = AdmittedNow
           /\ status' \in [Requests -> Statuses]
           /\ tasks' \in [Tasks -> Snapshot]
<1>1. status' \in [Requests -> Statuses]
  BY DEF Settle, Settling, TypeOK, Statuses, Admitted
<1>2. AdmittedNow' = AdmittedNow
  BY <1>1 DEF AdmittedNow, Settle, Settling, TypeOK, Admitted, Outcomes
<1>3. ASSUME NEW t \in Tasks
      PROVE  /\ tasks'[t] \in Snapshot
             /\ tasks'[t].requestCount      = Cardinality(With(t, Admitted)')
             /\ tasks'[t].pending           = Cardinality(With(t, {"pending"})')
             /\ tasks'[t].responseCompleted = Cardinality(With(t, {"response"})')
             /\ tasks'[t].transportErrors   = Cardinality(With(t, {"transport_error"})')
             /\ tasks'[t].refused           = Cardinality(With(t, Refusals)')
  <2> DEFINE P == {r \in Settling(S) : Owner(r) = t}
             A == With(t, {"pending"})
             B == With(t, {outcome})
  <2>0. P \subseteq A /\ B \cap P = {}
    BY DEF With, Settling, Outcomes
  <2>1. /\ A' = A \ P
        /\ With(t, {outcome})' = B \cup P
        /\ \A o \in Outcomes \ {outcome} : With(t, {o})' = With(t, {o})
        /\ With(t, Admitted)' = With(t, Admitted)
        /\ With(t, Refusals)' = With(t, Refusals)
    BY <1>1 DEF With, Settle, Settling, TypeOK, Admitted, Outcomes, Refusals
  <2>2. IsFiniteSet(A) /\ IsFiniteSet(B)
    BY WithFinite
  <2>3. tasks'[t] =
          [tasks[t] EXCEPT
             !.pending = @ - Cardinality(P),
             !.responseCompleted = @ + (IF outcome = "response" THEN Cardinality(P) ELSE 0),
             !.transportErrors = @ + (IF outcome = "response" THEN 0 ELSE Cardinality(P))]
    BY DEF Settle
  <2>4. /\ tasks[t] \in Snapshot
        /\ tasks[t].requestCount      = Cardinality(With(t, Admitted))
        /\ tasks[t].pending           = Cardinality(A)
        /\ tasks[t].responseCompleted = Cardinality(With(t, {"response"}))
        /\ tasks[t].transportErrors   = Cardinality(With(t, {"transport_error"}))
        /\ tasks[t].refused           = Cardinality(With(t, Refusals))
    BY DEF TypeOK, LedgerReconciles
  <2>5. /\ Cardinality(P) \in Nat /\ Cardinality(P) <= Cardinality(A)
        /\ Cardinality(A \ P) = Cardinality(A) - Cardinality(P)
        /\ Cardinality(B \cup P) = Cardinality(B) + Cardinality(P)
    <3> HIDE DEF P, A, B
    <3>1. IsFiniteSet(P) /\ Cardinality(P) \in Nat /\ Cardinality(P) <= Cardinality(A)
      BY <2>0, <2>2, FS_Subset, FS_CardinalityType
    <3>2. Cardinality(A \ P) = Cardinality(A) - Cardinality(A \cap P)
      BY <2>2, FS_Difference
    <3>3. Cardinality(B \cup P) = Cardinality(B) + Cardinality(P) - Cardinality(B \cap P)
      BY <2>2, <3>1, FS_Union
    <3>4. Cardinality(A \cap P) = Cardinality(P) /\ Cardinality(B \cap P) = 0
      <4>1. A \cap P = P
        BY <2>0
      <4>2. QED
        BY <2>0, <4>1, FS_EmptySet
    <3>5. Cardinality(A) \in Nat /\ Cardinality(B) \in Nat
      BY <2>2, FS_CardinalityType
    <3>6. QED
      BY <3>1, <3>2, <3>3, <3>4, <3>5
  <2> HIDE DEF P, A, B
  <2>6. tasks'[t] \in Snapshot
    <3>1. tasks'[t] =
            [requestCount |-> tasks[t].requestCount, bytes |-> tasks[t].bytes,
             responseCompleted |-> tasks[t].responseCompleted
                                     + (IF outcome = "response" THEN Cardinality(P) ELSE 0),
             transportErrors |-> tasks[t].transportErrors
                                     + (IF outcome = "response" THEN 0 ELSE Cardinality(P)),
             pending |-> tasks[t].pending - Cardinality(P), refused |-> tasks[t].refused]
      BY <2>3, <2>4 DEF Snapshot
    <3>2. tasks[t].pending - Cardinality(P) \in Nat
      BY <2>4, <2>5 DEF Snapshot
    <3>3. QED
      BY <2>4, <2>5, <3>1, <3>2 DEF Snapshot
  <2>7. /\ tasks'[t].requestCount = tasks[t].requestCount
        /\ tasks'[t].refused = tasks[t].refused
        /\ tasks'[t].pending = tasks[t].pending - Cardinality(P)
        /\ tasks'[t].responseCompleted
             = tasks[t].responseCompleted + (IF outcome = "response" THEN Cardinality(P) ELSE 0)
        /\ tasks'[t].transportErrors
             = tasks[t].transportErrors + (IF outcome = "response" THEN 0 ELSE Cardinality(P))
    BY <2>3, <2>4 DEF Snapshot
  <2>8. Cardinality(With(t, {"pending"})') = Cardinality(A) - Cardinality(P)
    BY <2>1, <2>5 DEF A
  <2>9. Cardinality(With(t, {outcome})') = Cardinality(With(t, {outcome})) + Cardinality(P)
    BY <2>1, <2>5 DEF B
  <2>10. CASE outcome = "response"
    BY <2>1, <2>4, <2>6, <2>7, <2>8, <2>9, <2>10 DEF Outcomes, Snapshot
  <2>11. CASE outcome = "transport_error"
    BY <2>1, <2>4, <2>6, <2>7, <2>8, <2>9, <2>11 DEF Outcomes, Snapshot
  <2>12. QED
    BY <2>10, <2>11 DEF Outcomes
<1>4. tasks' = [t \in Tasks |-> tasks'[t]]
  BY DEF Settle
<1>5. QED
  BY <1>1, <1>2, <1>3, <1>4 DEF LedgerReconciles

\* A reservation that is refused as malformed or joins the chain is not yet in
\* any account.
LEMMA EntryCounts ==
    ASSUME TypeOK, LedgerReconciles, BudgetIsShared, NEW r \in Requests,
           NEW s \in {"invalid", "queued"}, status[r] = "unissued",
           Moves(r, s), UNCHANGED <<tasks, count>>
    PROVE  LedgerReconciles' /\ BudgetIsShared'
<1>1. ASSUME NEW t \in Tasks, NEW states \in {Admitted, {"pending"}, {"response"},
                                              {"transport_error"}, Refusals}
      PROVE  Cardinality(With(t, states)') = Cardinality(With(t, states))
  <2>1. status[r] \notin states /\ s \notin states /\ s \in Statuses
    BY DEF Admitted, Outcomes, Refusals, Statuses
  <2>2. QED
    BY <2>1, CountMove, WithFinite
<1>2. Cardinality(AdmittedNow') = Cardinality(AdmittedNow)
  <2>1. status[r] \notin Admitted /\ s \notin Admitted /\ s \in Statuses
    BY DEF Admitted, Outcomes, Refusals, Statuses
  <2>2. QED
    BY <2>1, AdmittedMove, AdmittedFinite
<1>3. QED
  BY <1>1, <1>2 DEF LedgerReconciles, BudgetIsShared, AdmittedNow

\* The head of the chain leaves it, whatever becomes of it.
LEMMA HeadLeaves ==
    ASSUME TypeOK, ChainIsQueued, NEW r \in Requests, NEW s, AtHead(r),
           tail' = Tail(tail), Moves(r, s)
    PROVE  ChainIsQueued' /\ tail' \in Seq(Requests) /\ status[r] = "queued"
<1>1. tail \in Seq(Requests) /\ tail # <<>> /\ r = tail[1] /\ Len(tail) \in Nat
  BY DEF TypeOK, AtHead
<1>2. /\ tail' \in Seq(Requests) /\ Len(tail') = Len(tail) - 1
      /\ \A i \in 1..Len(tail') : i + 1 \in 1..Len(tail) /\ tail'[i] = tail[i + 1]
  BY <1>1
<1>3. 1 \in 1..Len(tail)
  BY <1>1
<1>4. status[r] = "queued"
  BY <1>1, <1>3 DEF ChainIsQueued
<1>5. ASSUME NEW i \in 1..Len(tail'), NEW j \in 1..Len(tail')
      PROVE  status'[tail'[i]] = "queued" /\ (tail'[i] = tail'[j] => i = j)
  <2>1. tail[i + 1] # tail[1]
    BY <1>2, <1>3 DEF ChainIsQueued
  <2>2. tail[i + 1] \in Requests /\ status'[tail[i + 1]] = status[tail[i + 1]]
    BY <1>1, <1>2, <2>1 DEF TypeOK, Moves
  <2>3. status[tail[i + 1]] = "queued" /\ (tail[i + 1] = tail[j + 1] => i + 1 = j + 1)
    BY <1>2 DEF ChainIsQueued
  <2>4. QED
    BY <1>2, <2>2, <2>3
<1>6. QED
  BY <1>2, <1>4, <1>5 DEF ChainIsQueued

\* A refusal is charged to its task and to nothing else.
LEMMA RefuseAccounts ==
    ASSUME Accounts, NEW r \in Requests, NEW code \in Refusals, AtHead(r),
           Refuse(r, code)
    PROVE  Accounts'
<1> USE DEF Accounts
<1>1. status[r] = "queued" /\ ChainIsQueued' /\ tail' \in Seq(Requests)
  BY HeadLeaves DEF Refuse, Moves
<1>2. code \in Statuses /\ Owner(r) \in Tasks /\ Moves(r, code)
  BY OwnerIsTask DEF Refuse, Statuses, Moves
<1>3. \E v \in Snapshot :
        /\ tasks' = [tasks EXCEPT ![Owner(r)] = v]
        /\ v.refused = tasks[Owner(r)].refused + 1
        /\ v.requestCount = tasks[Owner(r)].requestCount
        /\ v.pending = tasks[Owner(r)].pending
        /\ v.responseCompleted = tasks[Owner(r)].responseCompleted
        /\ v.transportErrors = tasks[Owner(r)].transportErrors
  <2> DEFINE u == tasks[Owner(r)]
             v == [u EXCEPT !.refused = @ + 1]
  <2>1. u \in Snapshot /\ tasks \in [Tasks -> Snapshot]
    BY <1>2 DEF TypeOK
  <2>2. tasks' = [tasks EXCEPT ![Owner(r)] = v]
    BY <1>2, <2>1 DEF Refuse
  <2> HIDE DEF u
  <2>3. v \in Snapshot /\ v.refused = u.refused + 1 /\ v.requestCount = u.requestCount
        /\ v.pending = u.pending /\ v.responseCompleted = u.responseCompleted
        /\ v.transportErrors = u.transportErrors
    BY <2>1 DEF Snapshot
  <2> HIDE DEF v
  <2>4. QED
    BY <2>2, <2>3 DEF u
<1>4. TypeOK'
  BY <1>1, <1>2, <1>3 DEF Refuse, TypeOK, clock, budget
<1>5. BudgetIsShared'
  <2>1. status[r] \notin Admitted /\ code \notin Admitted
    BY <1>1 DEF Admitted, Outcomes, Refusals
  <2>2. Cardinality(AdmittedNow') = Cardinality(AdmittedNow)
    BY <1>2, <2>1, AdmittedMove, AdmittedFinite
  <2>3. QED
    BY <2>2 DEF BudgetIsShared, AdmittedNow, Refuse, budget
<1>6. LedgerReconciles'
  <2>1. ASSUME NEW t \in Tasks, NEW states \in {Admitted, {"pending"}, {"response"},
                                                {"transport_error"}}
        PROVE  Cardinality(With(t, states)') = Cardinality(With(t, states))
    <3>1. status[r] \notin states /\ code \notin states
      BY <1>1 DEF Admitted, Outcomes, Refusals
    <3>2. QED
      BY <1>2, <3>1, CountMove, WithFinite
  <2>2. ASSUME NEW t \in Tasks
        PROVE  Cardinality(With(t, Refusals)')
                 = Cardinality(With(t, Refusals)) + (IF Owner(r) = t THEN 1 ELSE 0)
    <3>1. status[r] \notin Refusals
      BY <1>1 DEF Refusals
    <3>2. QED
      BY <1>2, <3>1, CountMove
  <2>3. ASSUME NEW t \in Tasks
        PROVE  /\ tasks'[t].refused = tasks[t].refused + (IF Owner(r) = t THEN 1 ELSE 0)
               /\ tasks'[t].requestCount = tasks[t].requestCount
               /\ tasks'[t].pending = tasks[t].pending
               /\ tasks'[t].responseCompleted = tasks[t].responseCompleted
               /\ tasks'[t].transportErrors = tasks[t].transportErrors
    <3>1. PICK v \in Snapshot :
            /\ tasks' = [tasks EXCEPT ![Owner(r)] = v]
            /\ v.refused = tasks[Owner(r)].refused + 1
            /\ v.requestCount = tasks[Owner(r)].requestCount
            /\ v.pending = tasks[Owner(r)].pending
            /\ v.responseCompleted = tasks[Owner(r)].responseCompleted
            /\ v.transportErrors = tasks[Owner(r)].transportErrors
      BY <1>3
    <3>2. tasks[t] \in Snapshot /\ tasks'[t] = IF Owner(r) = t THEN v ELSE tasks[t]
      BY <1>2, <3>1 DEF TypeOK
    <3>3. tasks[t].refused \in Nat
      BY <3>2 DEF Snapshot
    <3>4. QED
      BY <3>1, <3>2, <3>3
  <2>4. QED
    BY <2>1, <2>2, <2>3 DEF LedgerReconciles
<1>7. QED
  BY <1>1, <1>4, <1>5, <1>6

\* A permit is charged to the run and to its task, while the budget lasts.
LEMMA AdmitAccounts ==
    ASSUME Accounts, NEW r \in Requests, AtHead(r), ~Exhausted, Admit(r)
    PROVE  Accounts'
<1> USE DEF Accounts
<1>1. status[r] = "queued" /\ ChainIsQueued' /\ tail' \in Seq(Requests)
  BY HeadLeaves DEF Admit, Moves
<1>2. "pending" \in Statuses /\ Owner(r) \in Tasks /\ Moves(r, "pending")
  BY OwnerIsTask DEF Admit, Statuses, Admitted, Moves
<1>3. \E v \in Snapshot :
        /\ tasks' = [tasks EXCEPT ![Owner(r)] = v]
        /\ v.requestCount = tasks[Owner(r)].requestCount + 1
        /\ v.pending = tasks[Owner(r)].pending + 1
        /\ v.refused = tasks[Owner(r)].refused
        /\ v.responseCompleted = tasks[Owner(r)].responseCompleted
        /\ v.transportErrors = tasks[Owner(r)].transportErrors
  <2> DEFINE u == tasks[Owner(r)]
             v == [u EXCEPT !.requestCount = @ + 1, !.pending = @ + 1]
  <2>1. u \in Snapshot /\ tasks \in [Tasks -> Snapshot]
    BY <1>2 DEF TypeOK
  <2>2. tasks' = [tasks EXCEPT ![Owner(r)] = v]
    BY <1>2, <2>1 DEF Admit
  <2> HIDE DEF u
  <2>3. v \in Snapshot /\ v.refused = u.refused /\ v.requestCount = u.requestCount + 1
        /\ v.pending = u.pending + 1 /\ v.responseCompleted = u.responseCompleted
        /\ v.transportErrors = u.transportErrors
    <3>1. v = [requestCount |-> u.requestCount + 1, bytes |-> u.bytes,
               responseCompleted |-> u.responseCompleted,
               transportErrors |-> u.transportErrors,
               pending |-> u.pending + 1, refused |-> u.refused]
      <4> DEFINE w == [u EXCEPT !.requestCount = @ + 1]
      <4>1. v = [w EXCEPT !.pending = @ + 1]
        BY <2>1 DEF Snapshot
      <4>2. w = [requestCount |-> u.requestCount + 1, bytes |-> u.bytes,
                 responseCompleted |-> u.responseCompleted,
                 transportErrors |-> u.transportErrors,
                 pending |-> u.pending, refused |-> u.refused]
        BY <2>1 DEF Snapshot
      <4> HIDE DEF v, w
      <4>3. QED
        BY <4>1, <4>2
    <3> HIDE DEF v
    <3>2. QED
      BY <2>1, <3>1 DEF Snapshot
  <2> HIDE DEF v
  <2>4. QED
    BY <2>2, <2>3 DEF u
<1>4. tasks' \in [Tasks -> Snapshot]
  BY <1>2, <1>3 DEF TypeOK
<1>5. TypeOK'
  <2>1. now * Grain + Interval \in Nat
    <3>1. now \in Nat /\ Grain \in Nat /\ Interval \in Nat
      BY DEF TypeOK
    <3>2. QED
      BY <3>1
  <2>6. tasks[Owner(r)].requestCount + 1 \in Nat
    <3>1. tasks[Owner(r)] \in Snapshot
      BY <1>2 DEF TypeOK
    <3>2. QED
      BY <3>1 DEF Snapshot
  <2>2. [req |-> r, at |-> now] \in [req: Requests, at: Nat]
    BY DEF TypeOK
  <2>3. admissions' \in Seq([req: Requests, at: Nat])
    BY <2>2 DEF Admit, TypeOK
  <2>4. nextAt' \in Nat /\ count' \in Nat
    <3>1. nextAt' = now * Grain + Interval /\ count' = count + 1 /\ count \in Nat
      BY DEF Admit, NextSlot, TypeOK
    <3> HIDE DEF Accounts
    <3>2. QED
      BY ONLY <2>1, <3>1
  <2>7. ordinal' \in [Requests -> Nat]
    BY <2>6 DEF Admit, TypeOK
  <2>5. QED
    <3>1. /\ now' \in Nat /\ closed' \in BOOLEAN /\ waiting' \in BOOLEAN /\ fireAt' \in Nat
          /\ bound' \subseteq Tasks /\ own' \in [Requests -> {"none", "live", "aborted"}]
      BY DEF Admit, TypeOK, clock
    <3>2. tail' \in Seq(Requests) /\ status' \in [Requests -> Statuses]
      BY <1>1, <1>2 DEF Admit, TypeOK
    <3>3. QED
      BY <1>4, <2>3, <2>4, <2>7, <3>1, <3>2 DEF TypeOK
<1>6. BudgetIsShared'
  <2>1. status[r] \notin Admitted /\ "pending" \in Admitted
    BY <1>1 DEF Admitted, Outcomes
  <2>2. Cardinality(AdmittedNow') = Cardinality(AdmittedNow) + 1
    BY <1>2, <2>1, AdmittedMove
  <2>3. QED
    <3>1. count' = count + 1 /\ count + 1 <= MaxRequests
      <4>1. count \in Nat /\ MaxRequests \in Nat /\ count' = count + 1 /\ ~(count >= MaxRequests)
        BY DEF Admit, Exhausted, TypeOK
      <4>2. QED
        BY ONLY <4>1
    <3>2. count = Cardinality(AdmittedNow)
      BY DEF BudgetIsShared, AdmittedNow
    <3>3. QED
      BY <2>2, <3>1, <3>2 DEF BudgetIsShared, AdmittedNow
<1>7. LedgerReconciles'
  <2>1. ASSUME NEW t \in Tasks, NEW states \in {{"response"}, {"transport_error"}, Refusals}
        PROVE  Cardinality(With(t, states)') = Cardinality(With(t, states))
    <3>1. status[r] \notin states /\ "pending" \notin states
      BY <1>1 DEF Outcomes, Refusals
    <3>2. QED
      BY <1>2, <3>1, CountMove, WithFinite
  <2>2. ASSUME NEW t \in Tasks, NEW states \in {Admitted, {"pending"}}
        PROVE  Cardinality(With(t, states)')
                 = Cardinality(With(t, states)) + (IF Owner(r) = t THEN 1 ELSE 0)
    <3>1. status[r] \notin states /\ "pending" \in states
      BY <1>1 DEF Admitted, Outcomes
    <3>2. QED
      BY <1>2, <3>1, CountMove
  <2>3. ASSUME NEW t \in Tasks
        PROVE  /\ tasks'[t].requestCount = tasks[t].requestCount + (IF Owner(r) = t THEN 1 ELSE 0)
               /\ tasks'[t].pending = tasks[t].pending + (IF Owner(r) = t THEN 1 ELSE 0)
               /\ tasks'[t].refused = tasks[t].refused
               /\ tasks'[t].responseCompleted = tasks[t].responseCompleted
               /\ tasks'[t].transportErrors = tasks[t].transportErrors
    <3>1. PICK v \in Snapshot :
            /\ tasks' = [tasks EXCEPT ![Owner(r)] = v]
            /\ v.requestCount = tasks[Owner(r)].requestCount + 1
            /\ v.pending = tasks[Owner(r)].pending + 1
            /\ v.refused = tasks[Owner(r)].refused
            /\ v.responseCompleted = tasks[Owner(r)].responseCompleted
            /\ v.transportErrors = tasks[Owner(r)].transportErrors
      BY <1>3
    <3>2. tasks[t] \in Snapshot /\ tasks'[t] = IF Owner(r) = t THEN v ELSE tasks[t]
      BY <1>2, <3>1 DEF TypeOK
    <3>3. tasks[t].requestCount \in Nat /\ tasks[t].pending \in Nat
      BY <3>2 DEF Snapshot
    <3>4. QED
      BY <3>1, <3>2, <3>3
  <2>4. QED
    BY <2>1, <2>2, <2>3 DEF LedgerReconciles
<1>8. QED
  BY <1>1, <1>5, <1>6, <1>7

\* Settling touches no reservation that still waits.
LEMMA SettleAccounts ==
    ASSUME Accounts, NEW S \in SUBSET Requests, NEW outcome \in Outcomes,
           Settle(S, outcome), UNCHANGED <<now, queue, budget, bound, ordinal>>,
           closed' \in BOOLEAN, own' \in [Requests -> {"none", "live", "aborted"}]
    PROVE  Accounts'
<1> USE DEF Accounts
<1>1. /\ LedgerReconciles' /\ AdmittedNow' = AdmittedNow
      /\ status' \in [Requests -> Statuses] /\ tasks' \in [Tasks -> Snapshot]
  BY SettleCounts
<1>2. TypeOK'
  BY <1>1 DEF TypeOK, queue, budget
<1>3. BudgetIsShared'
  BY <1>1 DEF BudgetIsShared, AdmittedNow, budget
<1>4. \A x \in Requests : status[x] = "queued" => status'[x] = "queued"
  BY DEF Settle, Settling
<1>5. ChainIsQueued'
  <2>1. \A i \in 1..Len(tail) : tail[i] \in Requests
    BY DEF TypeOK
  <2>2. QED
    BY <1>4, <2>1 DEF ChainIsQueued, queue
<1>6. QED
  BY <1>1, <1>2, <1>3, <1>5

-----------------------------------------------------------------------------
\* What moves neither the chain nor an account disturbs nothing.
LEMMA FrameAccounts ==
    ASSUME Accounts, TypeOK', UNCHANGED <<tail, status, tasks, count>>
    PROVE  Accounts'
<1>1. \A t, states : With(t, states)' = With(t, states)
  BY DEF With
<1>2. LedgerReconciles'
  BY <1>1 DEF Accounts, LedgerReconciles
<1>3. ChainIsQueued' /\ BudgetIsShared'
  BY DEF Accounts, ChainIsQueued, BudgetIsShared
<1>4. QED
  BY <1>2, <1>3 DEF Accounts

\* A timer is armed for a whole number of milliseconds, at least one, and never
\* for a whole millisecond less than the wait that was asked for.
LEMMA TimerIsWhole ==
    ASSUME TypeOK
    PROVE  /\ Wait \in Nat /\ TimerMs \in Nat
           /\ TimerMs * Grain + (Grain - 1) >= Wait
<1>1. now * Grain \in Nat
  <2>1. now \in Nat /\ Grain \in Nat
    BY DEF TypeOK
  <2>2. QED
    BY <2>1
<1>2. Wait \in Nat
  BY <1>1 DEF Wait, TypeOK
<1>3. CASE Wait < Grain
  BY <1>2, <1>3 DEF TimerMs
<1>4. CASE ~(Wait < Grain)
  <2>1. TimerMs = Wait \div Grain
    BY <1>4 DEF TimerMs
  <2>2. /\ Wait \div Grain \in Nat
        /\ (Wait \div Grain) * Grain + (Wait % Grain) = Wait
        /\ Wait % Grain \in 0..(Grain - 1)
    BY <1>2
  <2>3. QED
    BY <1>2, <2>1, <2>2
<1>5. QED
  BY <1>2, <1>3, <1>4

LEMMA AccountsInit == Init => Accounts
<1> SUFFICES ASSUME Init PROVE Accounts
  OBVIOUS
<1>1. TypeOK
  <2>1. EmptySnapshot \in Snapshot /\ "unissued" \in Statuses
    BY DEF EmptySnapshot, Snapshot, Statuses
  <2>2. <<>> \in Seq(Requests) /\ <<>> \in Seq([req: Requests, at: Nat])
    OBVIOUS
  <2> HIDE DEF Accounts
  <2>3. QED
    BY <2>1, <2>2 DEF Init, TypeOK
<1>2. ChainIsQueued
  BY DEF Init, ChainIsQueued
<1>3. ASSUME NEW t \in Tasks, NEW states \in {Admitted, {"pending"}, {"response"},
                                              {"transport_error"}, Refusals}
      PROVE  Cardinality(With(t, states)) = 0
  <2>1. With(t, states) = {}
    BY DEF With, Init, Admitted, Outcomes, Refusals
  <2>2. QED
    BY <2>1, FS_EmptySet
<1>4. LedgerReconciles
  BY <1>3 DEF LedgerReconciles, Init, EmptySnapshot
<1>5. BudgetIsShared
  <2>1. AdmittedNow = {}
    BY DEF AdmittedNow, Init, Admitted, Outcomes
  <2>2. Cardinality(AdmittedNow) = 0
    BY <2>1, FS_EmptySet
  <2>3. count = 0 /\ 0 <= MaxRequests
    BY DEF Init
  <2>4. QED
    BY <2>2, <2>3 DEF BudgetIsShared, AdmittedNow
<1>6. QED
  BY <1>1, <1>2, <1>4, <1>5 DEF Accounts

LEMMA DecideAccounts ==
    ASSUME Accounts, NEW r \in Requests, AtHead(r), Decide(r)
    PROVE  Accounts'
BY RefuseAccounts, AdmitAccounts DEF Decide, Refusals

\* A reservation joins the end of the chain, where it was not before.
LEMMA ReserveAccounts ==
    ASSUME Accounts, NEW r \in Requests, Reserve(r)
    PROVE  Accounts'
<1> USE DEF Accounts
<1>1. /\ status[r] = "unissued" /\ Moves(r, "queued") /\ tail' = Append(tail, r)
      /\ UNCHANGED <<tasks, count>>
  BY DEF Reserve, NextCall, Enqueue, Moves, budget
<1>2. LedgerReconciles' /\ BudgetIsShared'
  BY <1>1, EntryCounts
<1>3. TypeOK'
  <2>1. own' \in [Requests -> {"none", "live", "aborted"}]
    BY DEF Reserve, TypeOK
  <2>2. tail' \in Seq(Requests) /\ status' \in [Requests -> Statuses]
    BY <1>1 DEF TypeOK, Moves, Statuses
  <2>3. QED
    BY <2>1, <2>2 DEF Reserve, TypeOK, clock, budget
<1>4. ChainIsQueued'
  <2>1. /\ tail \in Seq(Requests) /\ Len(tail) \in Nat /\ Len(tail') = Len(tail) + 1
        /\ \A i \in 1..Len(tail) : tail'[i] = tail[i] /\ tail[i] \in Requests
        /\ tail'[Len(tail) + 1] = r
    BY <1>1 DEF TypeOK
  <2>2. \A i \in 1..Len(tail) : tail[i] # r /\ status'[tail[i]] = "queued"
    BY <1>1, <2>1 DEF ChainIsQueued, Moves, TypeOK
  <2>3. status'[r] = "queued"
    BY <1>1 DEF Moves, TypeOK
  <2>4. \A i \in 1..Len(tail') : i \in 1..Len(tail) \/ i = Len(tail) + 1
    BY <2>1
  <2>5. ASSUME NEW i \in 1..Len(tail'), NEW j \in 1..Len(tail'), tail'[i] = tail'[j]
        PROVE  i = j
    <3>1. CASE i \in 1..Len(tail) /\ j \in 1..Len(tail)
      <4>1. tail[i] = tail[j]
        BY <2>1, <2>5, <3>1
      <4>2. QED
        BY <3>1, <4>1 DEF ChainIsQueued
    <3>2. CASE i \in 1..Len(tail) /\ j = Len(tail) + 1
      BY <2>1, <2>2, <2>5, <3>2
    <3>3. CASE i = Len(tail) + 1 /\ j \in 1..Len(tail)
      BY <2>1, <2>2, <2>5, <3>3
    <3>4. QED
      BY <2>4, <3>1, <3>2, <3>3
  <2>6. QED
    BY <2>1, <2>2, <2>3, <2>4, <2>5 DEF ChainIsQueued
<1>5. QED
  BY <1>2, <1>3, <1>4

\* Bytes are counted beside the accounts.
LEMMA AddBytesAccounts ==
    ASSUME Accounts, NEW r \in Requests, NEW n \in ByteSizes, AddBytes(r, n)
    PROVE  Accounts'
<1> USE DEF Accounts
<1>1. Owner(r) \in Tasks /\ n \in Nat
  BY OwnerIsTask
<1>2. ASSUME NEW t \in Tasks
      PROVE  /\ tasks'[t] \in Snapshot
             /\ tasks'[t].refused = tasks[t].refused
             /\ tasks'[t].requestCount = tasks[t].requestCount
             /\ tasks'[t].pending = tasks[t].pending
             /\ tasks'[t].responseCompleted = tasks[t].responseCompleted
             /\ tasks'[t].transportErrors = tasks[t].transportErrors
  <2> DEFINE v == [tasks[Owner(r)] EXCEPT !.bytes = @ + n]
  <2>1. tasks[Owner(r)] \in Snapshot /\ tasks[t] \in Snapshot
    BY <1>1 DEF TypeOK
  <2>2. tasks'[t] = IF Owner(r) = t THEN v ELSE tasks[t]
    BY <1>1 DEF AddBytes, TypeOK
  <2>3. /\ v \in Snapshot
        /\ v.refused = tasks[Owner(r)].refused
        /\ v.requestCount = tasks[Owner(r)].requestCount
        /\ v.pending = tasks[Owner(r)].pending
        /\ v.responseCompleted = tasks[Owner(r)].responseCompleted
        /\ v.transportErrors = tasks[Owner(r)].transportErrors
    BY <1>1, <2>1 DEF Snapshot
  <2> HIDE DEF v
  <2>4. QED
    BY <2>1, <2>2, <2>3
<1>3. tasks' \in [Tasks -> Snapshot]
  <2>1. tasks' = [t \in Tasks |-> tasks'[t]]
    BY DEF AddBytes, TypeOK
  <2>2. QED
    BY <1>2, <2>1
<1>4. TypeOK' /\ ChainIsQueued' /\ BudgetIsShared'
  BY <1>3 DEF AddBytes, TypeOK, ChainIsQueued, BudgetIsShared, clock, queue, budget
<1>5. LedgerReconciles'
  <2>1. UNCHANGED status
    BY DEF AddBytes
  <2>2. QED
    <3>1. \A t, states : With(t, states)' = With(t, states)
      BY <2>1 DEF With
    <3>2. QED
      BY <1>2, <3>1 DEF LedgerReconciles
<1>6. QED
  BY <1>4, <1>5

LEMMA AccountsStep == Accounts /\ [Next]_vars => Accounts'
<1> SUFFICES ASSUME Accounts, [Next]_vars PROVE Accounts'
  OBVIOUS
<1> USE DEF Accounts
<1>1. CASE UNCHANGED vars
  BY <1>1, FrameAccounts DEF vars, clock, queue, budget, TypeOK
<1>2. ASSUME NEW t \in Tasks, BindTask(t) PROVE Accounts'
  BY <1>2, FrameAccounts DEF BindTask, clock, queue, budget, TypeOK
<1>3. ASSUME NEW r \in Requests, ReserveInvalid(r) PROVE Accounts'
  <2>1. /\ status[r] = "unissued" /\ Moves(r, "invalid") /\ UNCHANGED <<tasks, count>>
    BY <1>3 DEF ReserveInvalid, NextCall, Moves, budget
  <2>2. LedgerReconciles' /\ BudgetIsShared'
    BY <2>1, EntryCounts
  <2>3. TypeOK'
    BY <1>3 DEF ReserveInvalid, TypeOK, Statuses, clock, queue, budget
  <2>4. ChainIsQueued'
    <3>1. UNCHANGED tail /\ \A i \in 1..Len(tail) : tail[i] \in Requests
      BY <1>3 DEF ReserveInvalid, queue, TypeOK
    <3>2. \A i \in 1..Len(tail) : status'[tail[i]] = status[tail[i]]
      BY <2>1, <3>1 DEF ChainIsQueued, Moves, TypeOK
    <3>3. QED
      BY <3>1, <3>2 DEF ChainIsQueued
  <2>5. QED
    BY <2>2, <2>3, <2>4
<1>4. ASSUME NEW r \in Requests, Reserve(r) PROVE Accounts'
  BY <1>4, ReserveAccounts
<1>5. ASSUME NEW r \in Requests, HeadRuns(r) PROVE Accounts'
  <2>1. CASE Decide(r)
    BY <1>5, <2>1, DecideAccounts DEF HeadRuns
  <2>2. CASE ~Decide(r)
    <3>1. /\ Wait > 0 /\ waiting' = TRUE /\ fireAt' = now + TimerMs
          /\ UNCHANGED <<clock, tail, budget, bound, tasks, status, own, ordinal>>
      BY <1>5, <2>2 DEF HeadRuns
    <3>2. fireAt' \in Nat
      <4>1. now \in Nat
        BY DEF TypeOK
      <4>2. TimerMs \in Nat
        BY TimerIsWhole
      <4>3. fireAt' = now + TimerMs
        BY <3>1
      <4>4. QED
        BY ONLY <4>1, <4>2, <4>3
    <3>3. QED
      BY <3>1, <3>2, FrameAccounts DEF clock, budget, TypeOK
  <2>3. QED
    BY <2>1, <2>2
<1>6. ASSUME NEW r \in Requests, HeadWakes(r) PROVE Accounts'
  BY <1>6, DecideAccounts DEF HeadWakes
<1>7. ASSUME NEW r \in Requests, HeadAborted(r) PROVE Accounts'
  BY <1>7, RefuseAccounts DEF HeadAborted, Refusals
<1>8. ASSUME NEW r \in Requests, NEW o \in Outcomes, Finish(r, o) PROVE Accounts'
  <2>1. {r} \in SUBSET Requests /\ Settle({r}, o)
    BY <1>8 DEF Finish
  <2>2. UNCHANGED <<now, queue, budget, bound, ordinal>>
        /\ closed' \in BOOLEAN /\ own' \in [Requests -> {"none", "live", "aborted"}]
    BY <1>8 DEF Finish, TypeOK, clock
  <2>3. QED
    BY <2>1, <2>2, SettleAccounts
<1>9. ASSUME NEW r \in Requests, NEW n \in ByteSizes, AddBytes(r, n) PROVE Accounts'
  BY <1>9, AddBytesAccounts
<1>10. ASSUME NEW r \in Requests, AbortOwn(r) PROVE Accounts'
  <2>1. {r} \in SUBSET Requests /\ Settle({r}, "transport_error")
        /\ "transport_error" \in Outcomes
    BY <1>10 DEF AbortOwn, Outcomes
  <2>2. UNCHANGED <<now, queue, budget, bound, ordinal>>
        /\ closed' \in BOOLEAN /\ own' \in [Requests -> {"none", "live", "aborted"}]
    BY <1>10 DEF AbortOwn, TypeOK, clock
  <2>3. QED
    BY <2>1, <2>2, SettleAccounts
<1>11. ASSUME Close PROVE Accounts'
  <2>1. Requests \in SUBSET Requests /\ Settle(Requests, "transport_error")
        /\ "transport_error" \in Outcomes
    BY <1>11 DEF Close, Reached, Outcomes
  <2>2. UNCHANGED <<now, queue, budget, bound, ordinal>>
        /\ closed' \in BOOLEAN /\ own' \in [Requests -> {"none", "live", "aborted"}]
    BY <1>11 DEF Close, TypeOK
  <2>3. QED
    BY <2>1, <2>2, SettleAccounts
<1>12. ASSUME DeadlineFires PROVE Accounts'
  BY <1>11, <1>12 DEF DeadlineFires
<1>13. ASSUME Tick PROVE Accounts'
  BY <1>13, FrameAccounts DEF Tick, queue, budget, TypeOK
<1>14. QED
  BY <1>1, <1>2, <1>3, <1>4, <1>5, <1>6, <1>7, <1>8, <1>9, <1>10, <1>11, <1>12, <1>13
     DEF Next

LEMMA AccountsHold == Spec => []Accounts
BY AccountsInit, AccountsStep, PTL DEF Spec

\* Every field of the admission object keeps its type; in particular no counter
\* is ever decremented below zero.
THEOREM TypeCorrect == Spec => []TypeOK
<1>1. Accounts => TypeOK
  BY DEF Accounts
<1>2. QED
  BY <1>1, AccountsHold, PTL

\* However many tasks share the run, its counter is the number of permits handed
\* out and never exceeds options.maxRequests (admission.ts:71, :82), and the
\* counters of every task's snapshot equal what its reservations became, at
\* every instant (admission.ts:79, :85-:95).
THEOREM AccountsAlwaysReconcile == Spec => []AccountsReconcile
<1>1. Accounts => AccountsReconcile
  BY DEF Accounts, AccountsReconcile
<1>2. QED
  BY <1>1, AccountsHold, PTL

-----------------------------------------------------------------------------
(* A stopped run leaves nothing open.                                      *)

LEMMA SettleClosesPending ==
    ASSUME TypeOK, NEW S \in SUBSET Requests, NEW outcome \in Outcomes, Settle(S, outcome)
    PROVE  \A r \in Requests :
             /\ status'[r] = "pending" => status[r] = "pending" /\ r \notin S
             /\ status[r] # "pending" => status'[r] = status[r]
BY DEF Settle, Settling, Outcomes, TypeOK

LEMMA StoppedStep == TypeOK /\ StoppedIsSettled /\ [Next]_vars => StoppedIsSettled'
<1> SUFFICES ASSUME TypeOK, StoppedIsSettled, [Next]_vars PROVE StoppedIsSettled'
  OBVIOUS
<1> USE DEF StoppedIsSettled
<1>1. CASE UNCHANGED vars
  BY <1>1 DEF vars, clock
<1>2. ASSUME NEW t \in Tasks, BindTask(t) PROVE StoppedIsSettled'
  BY <1>2 DEF BindTask, clock
<1>3. ASSUME NEW r \in Requests, ReserveInvalid(r) PROVE StoppedIsSettled'
  BY <1>3 DEF ReserveInvalid, clock, TypeOK
<1>4. ASSUME NEW r \in Requests, Reserve(r) PROVE StoppedIsSettled'
  BY <1>4 DEF Reserve, NextCall, clock, TypeOK
<1>5. ASSUME NEW r \in Requests, NEW code \in Refusals, Refuse(r, code)
      PROVE  StoppedIsSettled'
  BY <1>5 DEF Refuse, clock, TypeOK, Refusals
<1>6. ASSUME NEW r \in Requests, ~Stopped(r), Admit(r) PROVE StoppedIsSettled'
  BY <1>6 DEF Admit, Stopped, clock, TypeOK
<1>7. ASSUME NEW r \in Requests, Decide(r) PROVE StoppedIsSettled'
  BY <1>5, <1>6, <1>7 DEF Decide, Refusals
<1>8. ASSUME NEW r \in Requests, HeadRuns(r) PROVE StoppedIsSettled'
  <2>1. Decide(r) \/ UNCHANGED <<clock, status, own>>
    BY <1>8 DEF HeadRuns
  <2>2. QED
    BY <1>7, <2>1 DEF clock
<1>9. ASSUME NEW r \in Requests, HeadWakes(r) \/ HeadAborted(r) PROVE StoppedIsSettled'
  BY <1>5, <1>7, <1>9 DEF HeadWakes, HeadAborted, Refusals
<1>10. ASSUME NEW r \in Requests, NEW o \in Outcomes, Finish(r, o) PROVE StoppedIsSettled'
  BY <1>10, SettleClosesPending DEF Finish, clock
<1>11. ASSUME NEW r \in Requests, NEW n \in ByteSizes, AddBytes(r, n) PROVE StoppedIsSettled'
  BY <1>11 DEF AddBytes, clock
<1>12. ASSUME NEW r \in Requests, AbortOwn(r) PROVE StoppedIsSettled'
  <2>1. \A x \in Requests : status'[x] = "pending" => status[x] = "pending" /\ x # r
    BY <1>12, SettleClosesPending DEF AbortOwn, Outcomes
  <2>2. QED
    BY <1>12, <2>1 DEF AbortOwn, clock, TypeOK
<1>13. ASSUME Close PROVE StoppedIsSettled'
  BY <1>13, SettleClosesPending DEF Close, Reached, Outcomes
<1>14. ASSUME DeadlineFires PROVE StoppedIsSettled'
  BY <1>13, <1>14 DEF DeadlineFires
<1>15. ASSUME Tick PROVE StoppedIsSettled'
  BY <1>15 DEF Tick
<1>16. QED
  BY <1>1, <1>2, <1>3, <1>4, <1>8, <1>9, <1>10, <1>11, <1>12, <1>13, <1>14, <1>15 DEF Next

\* Once the run is closed, or a reservation's own signal aborted, its attempt
\* is not pending (admission.ts:93-95).
THEOREM StoppedRunsSettle == Spec => []StoppedIsSettled
<1>1. Init => StoppedIsSettled
  BY DEF Init, StoppedIsSettled
<1>2. QED
  BY <1>1, StoppedStep, TypeCorrect, PTL DEF Spec

-----------------------------------------------------------------------------
(* Pacing.                                                                 *)

\* The last admission set the next slot, and the timer of the head that sleeps
\* was armed for that slot.
Pace ==
    /\ admissions # <<>> =>
         nextAt = admissions[Len(admissions)].at * Grain + Interval
    /\ waiting => fireAt * Grain + (Grain - 1) >= nextAt

PacedInv == PacedApart /\ Pace

LEMMA Monotone ==
    ASSUME NEW a \in Nat, NEW b \in Nat, NEW g \in Nat, a >= b
    PROVE  a * g >= b * g /\ a * g \in Nat /\ b * g \in Nat
BY Z3

\* A permit granted when the slot has come, give or take the clocks, is paced.
LEMMA AdmitPaced ==
    ASSUME TypeOK, PacedInv, NEW r \in Requests, Admit(r),
           nextAt <= (now + TimerSlack) * Grain + (Grain - 1)
    PROVE  PacedInv'
<1> DEFINE L == Len(admissions)
           e == [req |-> r, at |-> now]
<1>1. /\ admissions \in Seq([req: Requests, at: Nat]) /\ L \in Nat
      /\ admissions' = Append(admissions, e) /\ e \in [req: Requests, at: Nat]
  BY DEF TypeOK, Admit
<1>2. /\ Len(admissions') = L + 1 /\ admissions'[L + 1] = e
      /\ \A i \in 1..L : admissions'[i] = admissions[i]
  BY <1>1
<1>3. Pace'
  BY <1>1, <1>2 DEF Pace, Admit, NextSlot
<1>4. ASSUME NEW i \in 1..Len(admissions') - 1
      PROVE  admissions'[i].at * Grain + Interval
               <= (admissions'[i + 1].at + TimerSlack) * Grain + (Grain - 1)
  <2>1. CASE i = L
    <3>1. L \in 1..L /\ admissions # <<>>
      BY <1>1, <1>2, <2>1
    <3>2. nextAt = admissions'[i].at * Grain + Interval /\ admissions'[i + 1].at = now
      BY <1>2, <2>1, <3>1 DEF PacedInv, Pace
    <3>3. QED
      BY <3>2
  <2>2. CASE i # L
    <3>1. i \in 1..L - 1 /\ i \in 1..L /\ i + 1 \in 1..L
      BY <1>1, <1>2, <2>2
    <3>2. QED
      BY <1>2, <3>1 DEF PacedInv, PacedApart
  <2>3. QED
    BY <2>1, <2>2
<1>5. QED
  BY <1>3, <1>4 DEF PacedInv, PacedApart

LEMMA PacedStep == TypeOK /\ PacedInv /\ [Next]_vars => PacedInv'
<1> SUFFICES ASSUME TypeOK, PacedInv, [Next]_vars PROVE PacedInv'
  OBVIOUS
<1>1. ASSUME UNCHANGED <<admissions, nextAt>>,
             waiting' = FALSE \/ UNCHANGED <<waiting, fireAt>>
      PROVE  PacedInv'
  <2>1. PacedApart'
    BY <1>1 DEF PacedInv, PacedApart
  <2>2. Pace'
    BY <1>1 DEF PacedInv, Pace
  <2>3. QED
    BY <2>1, <2>2 DEF PacedInv
<1>2. now * Grain \in Nat /\ TimerSlack * Grain \in Nat
      /\ (now + TimerSlack) * Grain >= now * Grain /\ nextAt \in Nat /\ fireAt \in Nat
      /\ now \in Nat /\ Grain \in Nat \ {0}
  BY Monotone DEF TypeOK
<1>3. ASSUME NEW r \in Requests, HeadRuns(r) PROVE PacedInv'
  <2>1. CASE \E code \in Refusals : Refuse(r, code)
    BY <1>1, <2>1 DEF Refuse, budget
  <2>2. CASE Wait = 0 /\ Admit(r)
    <3>1. nextAt <= now * Grain
      BY <1>2, <2>2 DEF Wait
    <3>2. nextAt <= (now + TimerSlack) * Grain + (Grain - 1)
      BY <1>2, <3>1
    <3>3. QED
      BY <2>2, <3>2, AdmitPaced
  <2>3. CASE Wait > 0 /\ waiting' = TRUE /\ fireAt' = now + TimerMs /\ UNCHANGED budget
    <3>1. Wait = nextAt - now * Grain
      BY <2>3, <1>2 DEF Wait
    <3>2. TimerMs \in Nat /\ TimerMs * Grain + (Grain - 1) >= Wait
      BY TimerIsWhole
    <3>3. (now + TimerMs) * Grain = now * Grain + TimerMs * Grain
      BY <1>2, <3>2
    <3>4. fireAt' * Grain + (Grain - 1) >= nextAt
      BY <1>2, <2>3, <3>1, <3>2, <3>3
    <3>5. QED
      BY <2>3, <3>4 DEF PacedInv, PacedApart, Pace, budget
  <2>4. QED
    BY <1>3, <2>1, <2>2, <2>3 DEF HeadRuns, Decide, Refusals
<1>4. ASSUME NEW r \in Requests, HeadWakes(r) PROVE PacedInv'
  <2>1. CASE \E code \in Refusals : Refuse(r, code)
    BY <1>1, <2>1 DEF Refuse, budget
  <2>2. CASE Admit(r)
    <3>1. (now + TimerSlack) * Grain >= fireAt * Grain
      BY <1>2, <1>4, Monotone DEF HeadWakes
    <3>2. fireAt * Grain + (Grain - 1) >= nextAt
      BY <1>4 DEF HeadWakes, PacedInv, Pace
    <3>3. nextAt <= (now + TimerSlack) * Grain + (Grain - 1)
      <4>1. fireAt * Grain \in Nat /\ (now + TimerSlack) * Grain \in Nat
        BY <1>2, Monotone
      <4>2. QED
        BY <1>2, <3>1, <3>2, <4>1
    <3>4. QED
      BY <2>2, <3>3, AdmitPaced
  <2>3. QED
    BY <1>4, <2>1, <2>2 DEF HeadWakes, Decide, Refusals
<1>5. ASSUME NEW r \in Requests, HeadAborted(r) PROVE PacedInv'
  BY <1>1, <1>5 DEF HeadAborted, Refuse, budget
<1>6. CASE UNCHANGED <<admissions, nextAt, waiting, fireAt>>
  BY <1>1, <1>6
<1>7. ASSUME NEW r \in Requests,
             \/ ReserveInvalid(r) \/ Reserve(r)
             \/ \E o \in Outcomes : Finish(r, o)
             \/ \E n \in ByteSizes : AddBytes(r, n)
             \/ AbortOwn(r)
      PROVE  UNCHANGED <<admissions, nextAt, waiting, fireAt>>
  BY <1>7 DEF ReserveInvalid, Reserve, Finish, AddBytes, AbortOwn, queue, budget
<1>8. ASSUME (\E t \in Tasks : BindTask(t)) \/ Close \/ DeadlineFires \/ Tick
             \/ UNCHANGED vars
      PROVE  UNCHANGED <<admissions, nextAt, waiting, fireAt>>
  BY <1>8 DEF BindTask, Close, DeadlineFires, Tick, vars, queue, budget
<1>9. QED
  BY <1>3, <1>4, <1>5, <1>6, <1>7, <1>8 DEF Next

\* Two admissions in a row are apart by the configured interval, rounded down to
\* a whole millisecond and less the clocks' slack, whoever asks for them and
\* however long the queue has been idle (admission.ts:75-76, :83).
THEOREM AdmissionsArePaced == Spec => []PacedApart
<1>1. Init => PacedInv
  BY DEF Init, PacedInv, PacedApart, Pace
<1>2. PacedInv => PacedApart
  BY DEF PacedInv
<1>3. QED
  BY <1>1, <1>2, PacedStep, TypeCorrect, PTL DEF Spec

-----------------------------------------------------------------------------
(* Turns.                                                                  *)

\* Calls of a task are issued in order.
IssuedInOrder ==
    \A r, s \in Requests :
      Owner(r) = Owner(s) /\ r[2] < s[2] /\ status[s] # "unissued" => status[r] # "unissued"

\* Calls of a task wait in order.
ChainInOrder ==
    \A i, j \in 1..Len(tail) :
      i < j /\ Owner(tail[i]) = Owner(tail[j]) => tail[i][2] < tail[j][2]

\* Whoever is queued is in the chain.
QueuedIsInChain ==
    \A r \in Requests : status[r] = "queued" => \E i \in 1..Len(tail) : tail[i] = r

\* What has been admitted came before what still waits.
AdmittedCameBefore ==
    \A r, s \in Requests :
      Owner(r) = Owner(s) /\ status[r] \in Admitted /\ status[s] = "queued" => r[2] < s[2]

Turns ==
    /\ IssuedInOrder /\ ChainInOrder /\ QueuedIsInChain /\ AdmittedCameBefore
    /\ NoneAfterDeadline /\ OrdinalsInCallOrder

LEMMA CallsDiffer ==
    ASSUME NEW r \in Requests, NEW s \in Requests, Owner(r) = Owner(s), r # s
    PROVE  r[2] \in Nat /\ s[2] \in Nat /\ (r[2] < s[2] \/ s[2] < r[2])
BY DEF Owner

\* What leaves the chain, the ordinals and the budgets of tasks alone, and moves
\* no reservation across "unissued", "queued" and the admitted states.
LEMMA FrameTurns ==
    ASSUME Accounts, Turns, UNCHANGED <<tail, ordinal, admissions>>,
           \A r \in Requests :
             /\ status'[r] = "unissued" <=> status[r] = "unissued"
             /\ status'[r] = "queued" <=> status[r] = "queued"
             /\ status'[r] \in Admitted <=> status[r] \in Admitted,
           \A t \in Tasks : tasks'[t].requestCount = tasks[t].requestCount
    PROVE  Turns'
<1>1. \A r \in Requests : Owner(r) \in Tasks
  BY OwnerIsTask
<1>2. IssuedInOrder' /\ QueuedIsInChain' /\ AdmittedCameBefore' /\ ChainInOrder'
  BY DEF Turns, IssuedInOrder, QueuedIsInChain, AdmittedCameBefore, ChainInOrder
<1>3. OrdinalsInCallOrder'
  BY <1>1 DEF Turns, OrdinalsInCallOrder
<1>4. NoneAfterDeadline'
  BY DEF Turns, NoneAfterDeadline
<1>5. QED
  BY <1>2, <1>3, <1>4 DEF Turns

LEMMA SettleTurns ==
    ASSUME Accounts, Turns, NEW S \in SUBSET Requests, NEW outcome \in Outcomes,
           Settle(S, outcome), UNCHANGED <<tail, ordinal, admissions>>
    PROVE  Turns'
<1>1. \A r \in Requests :
        /\ status'[r] = "unissued" <=> status[r] = "unissued"
        /\ status'[r] = "queued" <=> status[r] = "queued"
        /\ status'[r] \in Admitted <=> status[r] \in Admitted
  BY DEF Settle, Settling, Admitted, Outcomes
<1>2. ASSUME NEW t \in Tasks PROVE tasks'[t].requestCount = tasks[t].requestCount
  <2>1. tasks[t] \in Snapshot
    BY DEF Accounts, TypeOK
  <2>2. QED
    BY <2>1 DEF Settle, Snapshot
<1>3. QED
  BY <1>1, <1>2, FrameTurns

\* The head is the first call of its task in the chain.
LEMMA HeadIsFirst ==
    ASSUME Accounts, Turns, NEW r \in Requests, AtHead(r), NEW s \in Requests,
           s # r, status[s] = "queued"
    PROVE  /\ Owner(s) = Owner(r) => r[2] < s[2]
           /\ \E i \in 1..Len(Tail(tail)) : Tail(tail)[i] = s
<1>1. tail \in Seq(Requests) /\ tail # <<>> /\ Len(tail) \in Nat \ {0} /\ tail[1] = r
  BY DEF Accounts, TypeOK, AtHead
<1>2. PICK i \in 1..Len(tail) : tail[i] = s
  BY DEF Turns, QueuedIsInChain
<1>3. i # 1 /\ 1 < i /\ 1 \in 1..Len(tail)
  BY <1>1, <1>2
<1>4. Owner(s) = Owner(r) => r[2] < s[2]
  BY <1>1, <1>2, <1>3 DEF Turns, ChainInOrder
<1>5. i - 1 \in 1..Len(Tail(tail)) /\ Tail(tail)[i - 1] = tail[i]
  BY <1>1, <1>3
<1>6. QED
  BY <1>2, <1>4, <1>5

\* The chain without its head is in order.
LEMMA TailInOrder ==
    ASSUME Accounts, Turns, NEW r \in Requests, AtHead(r), tail' = Tail(tail)
    PROVE  ChainInOrder'
<1>1. tail \in Seq(Requests) /\ tail # <<>> /\ Len(tail) \in Nat \ {0}
  BY DEF Accounts, TypeOK, AtHead
<1>2. ASSUME NEW i \in 1..Len(Tail(tail))
      PROVE  i \in Nat /\ i + 1 \in 1..Len(tail) /\ Tail(tail)[i] = tail[i + 1]
  BY <1>1
<1>3. ASSUME NEW i \in 1..Len(tail'), NEW j \in 1..Len(tail'), i < j,
             Owner(tail'[i]) = Owner(tail'[j])
      PROVE  tail'[i][2] < tail'[j][2]
  <2>1. /\ i + 1 \in 1..Len(tail) /\ j + 1 \in 1..Len(tail) /\ i + 1 < j + 1
        /\ tail'[i] = tail[i + 1] /\ tail'[j] = tail[j + 1]
    BY <1>2, <1>3
  <2>2. QED
    BY <1>3, <2>1 DEF Turns, ChainInOrder
<1>4. QED
  BY <1>3 DEF ChainInOrder

LEMMA RefuseTurns ==
    ASSUME Accounts, Turns, NEW r \in Requests, NEW code \in Refusals, AtHead(r), Refuse(r, code)
    PROVE  Turns'
<1>1. status[r] = "queued" /\ status \in [Requests -> Statuses] /\ code \notin Admitted
      /\ code # "queued" /\ code # "unissued"
  BY HeadLeaves DEF Accounts, TypeOK, Refuse, Moves, Refusals, Admitted, Outcomes
<1>2. /\ tail' = Tail(tail) /\ status' = [status EXCEPT ![r] = code]
      /\ UNCHANGED <<ordinal, admissions>>
  BY DEF Refuse, budget
<1>3. \A s \in Requests : status'[s] = IF s = r THEN code ELSE status[s]
  BY <1>1, <1>2
<1>4. \A t \in Tasks : tasks'[t].requestCount = tasks[t].requestCount
  <2>1. Owner(r) \in Tasks /\ tasks \in [Tasks -> Snapshot]
    BY OwnerIsTask DEF Accounts, TypeOK
  <2>2. QED
    BY <2>1 DEF Refuse, Snapshot
<1>5. IssuedInOrder'
  BY <1>1, <1>3 DEF Turns, IssuedInOrder
<1>6. ChainInOrder'
  BY <1>2, TailInOrder
<1>7. QueuedIsInChain'
  BY <1>1, <1>2, <1>3, HeadIsFirst DEF QueuedIsInChain
<1>8. AdmittedCameBefore'
  BY <1>1, <1>3 DEF Turns, AdmittedCameBefore
<1>9. OrdinalsInCallOrder'
  BY <1>1, <1>2, <1>3, <1>4, OwnerIsTask DEF Turns, OrdinalsInCallOrder
<1>10. NoneAfterDeadline'
  BY <1>2 DEF Turns, NoneAfterDeadline
<1>11. QED
  BY <1>5, <1>6, <1>7, <1>8, <1>9, <1>10 DEF Turns

\* The admitted call gets its task's next ordinal, after all that went before.
LEMMA AdmitTurns ==
    ASSUME Accounts, Turns, NEW r \in Requests, AtHead(r), ~Stopped(r), Admit(r)
    PROVE  Turns'
<1> DEFINE n == tasks[Owner(r)].requestCount
<1>1. status[r] = "queued" /\ status \in [Requests -> Statuses] /\ "queued" \notin Admitted
      /\ "unissued" \notin Admitted /\ "pending" \in Admitted
  BY HeadLeaves DEF Accounts, TypeOK, Admit, Moves, Admitted, Outcomes
<1>2. /\ tail' = Tail(tail) /\ status' = [status EXCEPT ![r] = "pending"]
      /\ ordinal' = [ordinal EXCEPT ![r] = n + 1]
  BY DEF Admit
<1>3. /\ \A s \in Requests : status'[s] = IF s = r THEN "pending" ELSE status[s]
      /\ \A s \in Requests : ordinal'[s] = IF s = r THEN n + 1 ELSE ordinal[s]
  BY <1>1, <1>2 DEF Accounts, TypeOK
<1>4. n \in Nat /\ \A t \in Tasks : /\ tasks[t].requestCount \in Nat
                                    /\ tasks'[t].requestCount =
                                         IF t = Owner(r) THEN n + 1 ELSE tasks[t].requestCount
  <2>1. Owner(r) \in Tasks /\ tasks \in [Tasks -> Snapshot]
    BY OwnerIsTask DEF Accounts, TypeOK
  <2>2. QED
    BY <2>1 DEF Admit, Snapshot
<1> HIDE DEF n
<1>5. IssuedInOrder'
  BY <1>1, <1>3 DEF Turns, IssuedInOrder
<1>6. ChainInOrder'
  BY <1>2, TailInOrder
<1>7. QueuedIsInChain'
  BY <1>1, <1>2, <1>3, HeadIsFirst DEF QueuedIsInChain
<1>8. AdmittedCameBefore'
  <2>1. \A s \in Requests : status'[s] = "queued" => s # r /\ status[s] = "queued"
    BY <1>3
  <2>2. QED
    BY <1>3, <2>1, HeadIsFirst DEF Turns, AdmittedCameBefore
<1>9. OrdinalsInCallOrder'
  <2>1. \A s \in Requests : Owner(s) \in Tasks /\ ordinal[s] \in Nat
    BY OwnerIsTask DEF Accounts, TypeOK
  <2>2. ASSUME NEW s \in Requests, s # r, status'[s] \in Admitted
        PROVE  /\ ordinal'[s] = ordinal[s] /\ ordinal[s] \in 1..tasks[Owner(s)].requestCount
               /\ Owner(s) = Owner(r) => s[2] < r[2]
    BY <1>1, <1>3, <2>2 DEF Turns, OrdinalsInCallOrder, AdmittedCameBefore
  <2>3. ASSUME NEW s \in Requests, status'[s] \in Admitted
        PROVE  ordinal'[s] \in 1..tasks'[Owner(s)].requestCount
    <3>1. CASE s = r
      BY <1>3, <1>4, <2>1, <3>1
    <3>2. CASE s # r
      BY <1>4, <2>1, <2>2, <2>3, <3>2 DEF n
    <3>3. QED
      BY <3>1, <3>2
  <2>4. ASSUME NEW s \in Requests, NEW u \in Requests, Owner(s) = Owner(u),
               status'[s] \in Admitted, status'[u] \in Admitted, s[2] < u[2]
        PROVE  ordinal'[s] < ordinal'[u]
    <3>1. s[2] \in Nat /\ u[2] \in Nat /\ s # u
      BY <2>4
    <3>2. CASE s = r
      BY <2>2, <2>4, <3>1, <3>2
    <3>3. CASE u = r
      <4>1. ordinal'[s] \in 1..n /\ ordinal'[u] = n + 1
        BY <1>3, <2>2, <2>4, <3>1, <3>3 DEF n
      <4>2. QED
        BY <1>4, <4>1
    <3>4. CASE s # r /\ u # r
      BY <1>3, <2>2, <2>4, <3>4 DEF Turns, OrdinalsInCallOrder
    <3>5. QED
      BY <3>2, <3>3, <3>4
  <2>5. QED
    BY <2>3, <2>4 DEF OrdinalsInCallOrder
<1>10. NoneAfterDeadline'
  <2>1. now < DeadlineAt
    BY DEF Stopped, Accounts, TypeOK
  <2>2. admissions' = Append(admissions, [req |-> r, at |-> now])
        /\ admissions \in Seq([req: Requests, at: Nat]) /\ [req |-> r, at |-> now] \in [req: Requests, at: Nat]
    BY DEF Admit, Accounts, TypeOK
  <2>3. \A i \in 1..Len(admissions') : i \in 1..Len(admissions) \/ admissions'[i].at = now
    BY <2>2, AppendProperties
  <2>4. \A i \in 1..Len(admissions) : admissions'[i] = admissions[i]
    BY <2>2
  <2>5. QED
    BY <2>1, <2>3, <2>4 DEF Turns, NoneAfterDeadline
<1>11. QED
  BY <1>5, <1>6, <1>7, <1>8, <1>9, <1>10 DEF Turns

\* A task's next call comes after all it has issued.
LEMMA NextCallIsLast ==
    ASSUME Turns, NEW r \in Requests, NextCall(r), NEW s \in Requests,
           Owner(s) = Owner(r), status[s] # "unissued"
    PROVE  s[2] < r[2]
<1>1. status[r] = "unissued" /\ s # r
  BY DEF NextCall
<1>2. ~(r[2] < s[2])
  BY <1>1 DEF Turns, IssuedInOrder
<1>3. QED
  BY <1>1, <1>2, CallsDiffer

LEMMA ReserveTurns ==
    ASSUME Accounts, Turns, NEW r \in Requests, Reserve(r)
    PROVE  Turns'
<1>1. /\ NextCall(r) /\ status[r] = "unissued" /\ status' = [status EXCEPT ![r] = "queued"]
      /\ tail' = Append(tail, r) /\ UNCHANGED <<tasks, ordinal, admissions>>
  BY DEF Reserve, NextCall, Enqueue, budget
<1>2. /\ tail \in Seq(Requests) /\ status \in [Requests -> Statuses] /\ Len(tail) \in Nat
      /\ "queued" \notin Admitted /\ "unissued" \notin Admitted
  BY DEF Accounts, TypeOK, Admitted, Outcomes
<1>3. \A s \in Requests : status'[s] = IF s = r THEN "queued" ELSE status[s]
  BY <1>1, <1>2
<1>4. /\ Len(tail') = Len(tail) + 1 /\ tail'[Len(tail) + 1] = r
      /\ \A i \in 1..Len(tail) : tail'[i] = tail[i] /\ tail[i] \in Requests
      /\ \A i \in 1..Len(tail') : i \in 1..Len(tail) \/ i = Len(tail) + 1
  BY <1>1, <1>2
<1>5. IssuedInOrder'
  BY <1>1, <1>2, <1>3 DEF Turns, IssuedInOrder, NextCall
<1>6. ChainInOrder'
  <2>1. \A i \in 1..Len(tail) : Owner(tail[i]) = Owner(r) => tail[i][2] < r[2]
    BY <1>1, <1>4, NextCallIsLast DEF Accounts, ChainIsQueued
  <2>2. \A i, j \in 1..Len(tail) :
          i < j /\ Owner(tail[i]) = Owner(tail[j]) => tail[i][2] < tail[j][2]
    BY DEF Turns, ChainInOrder
  <2>3. ASSUME NEW i \in 1..Len(tail'), NEW j \in 1..Len(tail'), i < j
        PROVE  i \in 1..Len(tail) /\ (j \in 1..Len(tail) \/ j = Len(tail) + 1)
    BY <1>2, <1>4, <2>3
  <2>4. QED
    BY <1>4, <2>1, <2>2, <2>3 DEF ChainInOrder
<1>7. QueuedIsInChain'
  <2>1. Len(tail) + 1 \in 1..Len(tail') /\ \A i \in 1..Len(tail) : i \in 1..Len(tail')
    BY <1>2, <1>4
  <2>2. QED
    BY <1>3, <1>4, <2>1 DEF Turns, QueuedIsInChain
<1>8. AdmittedCameBefore'
  <2>1. \A s \in Requests : status'[s] \in Admitted => s # r /\ status[s] \in Admitted
    BY <1>2, <1>3
  <2>2. \A s \in Requests : Owner(s) = Owner(r) /\ status[s] \in Admitted => s[2] < r[2]
    BY <1>1, <1>2, NextCallIsLast
  <2>3. QED
    BY <1>3, <2>1, <2>2 DEF Turns, AdmittedCameBefore
<1>9. OrdinalsInCallOrder'
  BY <1>1, <1>2, <1>3 DEF Turns, OrdinalsInCallOrder
<1>10. NoneAfterDeadline'
  BY <1>1 DEF Turns, NoneAfterDeadline
<1>11. QED
  BY <1>5, <1>6, <1>7, <1>8, <1>9, <1>10 DEF Turns

LEMMA TurnsStep == Accounts /\ Turns /\ [Next]_vars => Turns'
<1> SUFFICES ASSUME Accounts, Turns, [Next]_vars PROVE Turns'
  OBVIOUS
<1>1. CASE UNCHANGED <<tail, status, tasks, ordinal, admissions>>
  BY <1>1, FrameTurns
<1>2. ASSUME NEW t \in Tasks, BindTask(t) PROVE Turns'
  BY <1>1, <1>2 DEF BindTask, queue, budget
<1>3. ASSUME NEW r \in Requests, ReserveInvalid(r) PROVE Turns'
  <2>1. /\ NextCall(r) /\ status' = [status EXCEPT ![r] = "invalid"] /\ status[r] = "unissued"
        /\ UNCHANGED <<tail, tasks, ordinal, admissions>>
    BY <1>3 DEF ReserveInvalid, NextCall, queue, budget
  <2>2. \A s \in Requests : status'[s] = IF s = r THEN "invalid" ELSE status[s]
    BY <2>1 DEF Accounts, TypeOK
  <2>3. "invalid" \notin Admitted /\ "unissued" \notin Admitted
    BY DEF Admitted, Outcomes
  <2>4. IssuedInOrder'
    BY <2>1, <2>2 DEF Turns, IssuedInOrder, NextCall
  <2>5. /\ ChainInOrder' /\ QueuedIsInChain' /\ AdmittedCameBefore'
        /\ NoneAfterDeadline' /\ OrdinalsInCallOrder'
    BY <2>1, <2>2, <2>3 DEF Turns, ChainInOrder, QueuedIsInChain, AdmittedCameBefore,
                            NoneAfterDeadline, OrdinalsInCallOrder
  <2>6. QED
    BY <2>4, <2>5 DEF Turns
<1>4. ASSUME NEW r \in Requests, AtHead(r), Decide(r) PROVE Turns'
  BY <1>4, RefuseTurns, AdmitTurns DEF Decide, Refusals
<1>5. ASSUME NEW r \in Requests, HeadRuns(r) \/ HeadWakes(r) \/ HeadAborted(r) PROVE Turns'
  <2>1. CASE HeadRuns(r) /\ ~Decide(r)
    BY <1>1, <2>1 DEF HeadRuns, budget
  <2>2. CASE HeadAborted(r)
    BY <2>2, RefuseTurns DEF HeadAborted, Refusals
  <2>3. QED
    BY <1>4, <1>5, <2>1, <2>2 DEF HeadRuns, HeadWakes
<1>6. ASSUME NEW r \in Requests, NEW o \in Outcomes, Finish(r, o) PROVE Turns'
  BY <1>6, SettleTurns DEF Finish, queue, budget
<1>7. ASSUME NEW r \in Requests, NEW n \in ByteSizes, AddBytes(r, n) PROVE Turns'
  <2>1. UNCHANGED <<tail, ordinal, admissions, status>>
    BY <1>7 DEF AddBytes, queue, budget
  <2>2. Owner(r) \in Tasks /\ tasks \in [Tasks -> Snapshot]
    BY OwnerIsTask DEF Accounts, TypeOK
  <2>3. \A t \in Tasks : tasks'[t].requestCount = tasks[t].requestCount
    BY <1>7, <2>2 DEF AddBytes, Snapshot
  <2>4. QED
    BY <2>1, <2>3, FrameTurns
<1>8. ASSUME NEW r \in Requests, AbortOwn(r) PROVE Turns'
  BY <1>8, SettleTurns DEF AbortOwn, queue, budget, Outcomes
<1>9. ASSUME Close PROVE Turns'
  BY <1>9, SettleTurns DEF Close, Reached, queue, budget, Outcomes
<1>10. ASSUME DeadlineFires \/ Tick \/ UNCHANGED vars PROVE Turns'
  BY <1>1, <1>9, <1>10 DEF DeadlineFires, Tick, vars, queue, budget
<1>11. QED
  BY <1>2, <1>3, <1>5, <1>6, <1>7, <1>8, <1>9, <1>10, ReserveTurns DEF Next

\* A call is admitted in its turn, and in time or not at all: the ordinals of a
\* task follow the order of its reserve() calls, whatever others do in between,
\* and no permit is granted at or after the deadline, though the wait for it
\* began before (admission.ts:66-84).
THEOREM AdmissionsAreInTurn == Spec => []AdmittedInTurn
<1>1. Init => Turns
  BY DEF Init, Turns, IssuedInOrder, ChainInOrder, QueuedIsInChain, AdmittedCameBefore,
         NoneAfterDeadline, OrdinalsInCallOrder, Admitted, Outcomes
<1>2. Turns => AdmittedInTurn
  BY DEF Turns, AdmittedInTurn
<1>3. QED
  BY <1>1, <1>2, TurnsStep, AccountsHold, PTL DEF Spec

-----------------------------------------------------------------------------
(* What closing freezes.                                                   *)

FrozenAccounts ==
    closed => /\ closed' /\ count' = count
              /\ \A t \in Tasks : tasks'[t] = [tasks[t] EXCEPT !.refused = tasks'[t].refused]

\* Settling when nothing is pending changes nothing.
LEMMA SettleNothing ==
    ASSUME TypeOK, NEW S \in SUBSET Requests, NEW outcome \in Outcomes,
           Settle(S, outcome), \A r \in S : status[r] # "pending"
    PROVE  UNCHANGED <<status, tasks>>
<1>1. Settling(S) = {}
  BY DEF Settling
<1>2. status' = status
  BY <1>1 DEF Settle, TypeOK
<1>3. ASSUME NEW t \in Tasks PROVE tasks'[t] = tasks[t]
  <2> DEFINE u == tasks[t]
             v == [u EXCEPT !.pending = @ - 0]
             w == [v EXCEPT !.responseCompleted = @ + 0]
  <2>1. {r \in Settling(S) : Owner(r) = t} = {} /\ Cardinality({}) = 0
    BY <1>1, FS_EmptySet
  <2>2. tasks'[t] = [u EXCEPT !.pending = @ - 0, !.responseCompleted = @ + 0,
                              !.transportErrors = @ + 0]
    BY <2>1 DEF Settle
  <2>3. u \in Snapshot
    BY DEF TypeOK
  <2>4. v = u
    BY <2>3 DEF Snapshot
  <2>5. w = u
    <3> HIDE DEF u, v
    <3>1. QED
      BY <2>3, <2>4 DEF Snapshot
  <2>6. tasks'[t] = [w EXCEPT !.transportErrors = @ + 0]
    BY <2>2
  <2> HIDE DEF u, w
  <2>7. tasks'[t] = [u EXCEPT !.transportErrors = @ + 0]
    BY <2>5, <2>6
  <2>8. tasks'[t] = u
    BY ONLY <2>3, <2>7 DEF Snapshot
  <2>9. QED
    BY <2>8 DEF u
<1>4. tasks' = tasks
  BY <1>3 DEF Settle, TypeOK
<1>5. QED
  BY <1>2, <1>4

LEMMA FrozenStep ==
    ASSUME TypeOK, StoppedIsSettled, [Next]_vars
    PROVE  FrozenAccounts
<1> SUFFICES ASSUME closed
             PROVE  /\ closed' /\ count' = count
                    /\ \A t \in Tasks : tasks'[t] = [tasks[t] EXCEPT !.refused = tasks'[t].refused]
  BY DEF FrozenAccounts
<1>1. \A t \in Tasks : tasks[t] \in Snapshot
  BY DEF TypeOK
<1>2. \A r \in Requests : status[r] # "pending"
  BY DEF StoppedIsSettled
<1>3. ASSUME UNCHANGED <<closed, count, tasks>>
      PROVE  FrozenAccounts
  BY <1>1, <1>3 DEF FrozenAccounts, Snapshot
<1>4. ASSUME NEW r \in Requests, NEW code, Refuse(r, code)
      PROVE  FrozenAccounts
  <2>1. Owner(r) \in Tasks
    BY OwnerIsTask
  <2>2. \A t \in Tasks : tasks'[t] = IF t = Owner(r) THEN [tasks[t] EXCEPT !.refused = @ + 1] ELSE tasks[t]
    BY <1>4, <2>1 DEF Refuse, TypeOK
  <2>3. \A t \in Tasks : tasks'[t] = [tasks[t] EXCEPT !.refused = tasks'[t].refused]
    BY <1>1, <2>2 DEF Snapshot
  <2>4. QED
    BY <1>4, <2>3 DEF FrozenAccounts, Refuse, clock, budget
<1>5. ASSUME NEW r \in Requests, HeadRuns(r) \/ HeadWakes(r) \/ HeadAborted(r)
      PROVE  FrozenAccounts
  <2>1. Stopped(r)
    BY DEF Stopped
  <2>2. \E code : Refuse(r, code)
    BY <1>5, <2>1 DEF HeadRuns, HeadWakes, HeadAborted, Decide
  <2>3. QED
    BY <1>4, <2>2
<1>6. ASSUME NEW S \in SUBSET Requests, NEW o \in Outcomes, Settle(S, o), UNCHANGED <<closed, count>>
      PROVE  FrozenAccounts
  BY <1>2, <1>3, <1>6, SettleNothing
<1>7. ASSUME NEW r \in Requests, (\E o \in Outcomes : Finish(r, o)) \/ AbortOwn(r)
      PROVE  FrozenAccounts
  BY <1>6, <1>7 DEF Finish, AbortOwn, Outcomes, clock, budget
<1>8. ASSUME NEW r \in Requests, ReserveInvalid(r) \/ Reserve(r)
      PROVE  FrozenAccounts
  BY <1>3, <1>8 DEF ReserveInvalid, Reserve, clock, budget
<1>9. ASSUME \/ \E t \in Tasks : BindTask(t)
             \/ Tick
             \/ UNCHANGED vars
      PROVE  FrozenAccounts
  BY <1>3, <1>9 DEF BindTask, Tick, vars, clock, budget
<1>10. \A r \in Requests, n \in ByteSizes : ~AddBytes(r, n)
  BY <1>2 DEF AddBytes, CountsBytes
<1>11. ~Close /\ ~DeadlineFires
  BY DEF Close, DeadlineFires
<1>12. FrozenAccounts
  BY <1>5, <1>7, <1>8, <1>9, <1>10, <1>11 DEF Next
<1>13. QED
  BY <1>12 DEF FrozenAccounts

\* After close() nothing is admitted and no byte or response is counted: the
\* snapshot the runner takes then is final but for the refusals of what is
\* still queued (admission.ts:93-95, :101-103).
THEOREM ClosedIsFrozen == Spec => ClosedAccountsFrozen
<1>1. TypeOK /\ StoppedIsSettled /\ [Next]_vars => [FrozenAccounts]_vars
  BY FrozenStep
<1>2. Spec => [][FrozenAccounts]_vars
  BY <1>1, TypeCorrect, StoppedRunsSettle, PTL DEF Spec
<1>3. QED
  BY <1>2 DEF ClosedAccountsFrozen, FrozenAccounts

-----------------------------------------------------------------------------
(* The promise is kept.                                                    *)

\* The phase of a reservation in state s.
PhaseFor(s) == CASE s \in {"unissued", "invalid"} -> "new"
                 [] s = "queued"                  -> "asked"
                 [] s = "pending"                 -> "granted"
                 [] s \in Outcomes               -> "settled"
                 [] OTHER                         -> "refused"

LEMMA PhaseIs ==
    /\ \A s \in {"unissued", "invalid"} : PhaseFor(s) = "new"
    /\ PhaseFor("queued") = "asked"
    /\ PhaseFor("pending") = "granted"
    /\ \A s \in Outcomes : PhaseFor(s) = "settled"
    /\ \A s \in Refusals : PhaseFor(s) = "refused"
BY DEF PhaseFor, Outcomes, Refusals

LEMMA PhaseOf ==
    /\ Phase = [r \in Requests |-> PhaseFor(status[r])]
    /\ Phase' = [r \in Requests |-> PhaseFor(status'[r])]
BY DEF Phase, PhaseFor

LEMMA PhaseTells ==
    ASSUME NEW s \in Statuses
    PROVE  /\ PhaseFor(s) = "granted" <=> s = "pending"
           /\ PhaseFor(s) \in {"granted", "settled"} <=> s \in Admitted
BY PhaseIs DEF Statuses, Admitted, Outcomes, Refusals

\* A reservation moves in the abstract when its status does.
LEMMA MoveRefines ==
    ASSUME TypeOK, TypeOK', NEW r \in Requests, NEW s \in Statuses, Moves(r, s),
           NEW to, Phase'[r] = to, UNCHANGED closed
    PROVE  Promise!Move(r, Phase[r], to)
<1>1. ASSUME NEW x \in Requests, x # r PROVE Phase'[x] = Phase[x]
  BY <1>1, PhaseOf DEF Moves, TypeOK
<1>2. Phase' = [Phase EXCEPT ![r] = to]
  BY <1>1, PhaseOf
<1>3. QED
  BY <1>2 DEF Promise!Move

\* Giving permits back is Settle in the abstract, or nothing.
LEMMA SettleRefines ==
    ASSUME TypeOK, TypeOK', NEW S \in SUBSET Requests, NEW outcome \in Outcomes,
           Settle(S, outcome)
    PROVE  /\ Phase' = [r \in Requests |-> IF r \in Settling(S) THEN "settled" ELSE Phase[r]]
           /\ Settling(S) \in SUBSET Requests
           /\ \A r \in Settling(S) : Phase[r] = "granted"
<1>1. Settling(S) \in SUBSET Requests
  BY DEF Settling
<1>2. \A r \in Settling(S) : Phase[r] = "granted"
  BY <1>1, PhaseOf, PhaseIs DEF Settling
<1>3. ASSUME NEW r \in Requests
      PROVE  Phase'[r] = IF r \in Settling(S) THEN "settled" ELSE Phase[r]
  <2>1. status'[r] = IF r \in Settling(S) THEN outcome ELSE status[r]
    BY DEF Settle
  <2>2. CASE r \in Settling(S)
    <3>1. status'[r] \in Outcomes
      BY <2>1, <2>2
    <3>2. QED
      BY <2>2, <3>1, PhaseOf, PhaseIs
  <2>3. CASE r \notin Settling(S)
    BY <2>1, <2>3, PhaseOf
  <2>4. QED
    BY <2>2, <2>3
<1>4. Phase' = [r \in Requests |-> Phase'[r]]
  BY PhaseOf
<1>5. QED
  BY <1>1, <1>2, <1>3, <1>4

LEMMA ChargedIsAdmitted == TypeOK => Promise!Charged = AdmittedNow
BY PhaseOf, PhaseTells DEF Promise!Charged, AdmittedNow, TypeOK

LEMMA PromiseStep ==
    ASSUME Accounts, Accounts', [Next]_vars
    PROVE  [Promise!Next]_(Promise!vars)
<1> USE DEF Promise!Next, Promise!vars
<1>0. TypeOK /\ TypeOK' /\ status \in [Requests -> Statuses] /\ status' \in [Requests -> Statuses]
  BY DEF Accounts, TypeOK
<1>1. CASE UNCHANGED <<status, closed>>
  BY <1>1, PhaseOf
<1>2. ASSUME NEW r \in Requests, ReserveInvalid(r) PROVE UNCHANGED <<Phase, closed>>
  <2>1. status[r] = "unissued" /\ status' = [status EXCEPT ![r] = "invalid"]
    BY <1>2 DEF ReserveInvalid, NextCall
  <2>2. \A x \in Requests : PhaseFor(status'[x]) = PhaseFor(status[x])
    BY <1>0, <2>1, PhaseIs
  <2>3. QED
    BY <1>2, <2>2, PhaseOf DEF ReserveInvalid, clock
<1>3. ASSUME NEW r \in Requests, Reserve(r) PROVE Promise!Ask(r)
  <2>1. status[r] = "unissued" /\ Moves(r, "queued") /\ "queued" \in Statuses /\ UNCHANGED closed
    BY <1>3 DEF Reserve, NextCall, Moves, Statuses, clock
  <2>2. status'[r] = "queued"
    BY <1>0, <2>1 DEF Moves
  <2>3. Phase[r] = "new" /\ Phase'[r] = "asked"
    BY <2>1, <2>2, PhaseOf, PhaseIs
  <2>4. QED
    BY <1>0, <2>1, <2>3, MoveRefines DEF Promise!Ask
<1>4. ASSUME NEW r \in Requests, NEW code \in Refusals, AtHead(r), Refuse(r, code)
      PROVE  Promise!Refuse(r)
  <2>1. status[r] = "queued"
    BY <1>4, HeadLeaves DEF Accounts, Refuse, Moves
  <2>2. Moves(r, code) /\ code \in Statuses /\ UNCHANGED closed
    BY <1>4 DEF Refuse, Moves, Statuses, clock
  <2>3. status'[r] = code
    BY <1>0, <2>2 DEF Moves
  <2>4. Phase[r] = "asked" /\ Phase'[r] = "refused"
    BY <2>1, <2>3, PhaseOf, PhaseIs
  <2>5. QED
    BY <1>0, <2>2, <2>4, MoveRefines DEF Promise!Refuse
<1>5. ASSUME NEW r \in Requests, AtHead(r), ~Stopped(r), ~Exhausted, Admit(r)
      PROVE  Promise!Grant(r)
  <2>1. status[r] = "queued"
    BY <1>5, HeadLeaves DEF Accounts, Admit, Moves
  <2>2. Moves(r, "pending") /\ "pending" \in Statuses /\ UNCHANGED closed /\ ~closed
    BY <1>5 DEF Admit, Moves, Statuses, Admitted, Stopped, clock
  <2>3. status'[r] = "pending"
    BY <1>0, <2>2 DEF Moves
  <2>4. Phase[r] = "asked" /\ Phase'[r] = "granted"
    BY <2>1, <2>3, PhaseOf, PhaseIs
  <2>5. Cardinality(Promise!Charged) < MaxRequests
    <3>1. Cardinality(AdmittedNow) = count
      BY DEF Accounts, BudgetIsShared, AdmittedNow
    <3>2. count \in Nat /\ MaxRequests \in Nat /\ ~(count >= MaxRequests)
      BY <1>0, <1>5 DEF TypeOK, Exhausted
    <3>3. QED
      BY <1>0, <3>1, <3>2, ChargedIsAdmitted
  <2>6. Promise!Move(r, "asked", "granted")
    BY <1>0, <2>2, <2>4, MoveRefines
  <2>7. QED
    BY <2>2, <2>5, <2>6 DEF Promise!Grant, Promise!Cardinality, Cardinality
<1>6. ASSUME NEW r \in Requests, AtHead(r), Decide(r)
      PROVE  Promise!Refuse(r) \/ Promise!Grant(r)
  BY <1>4, <1>5, <1>6 DEF Decide, Refusals
<1>7. ASSUME NEW r \in Requests, HeadRuns(r) \/ HeadWakes(r) \/ HeadAborted(r)
      PROVE  Promise!Refuse(r) \/ Promise!Grant(r) \/ UNCHANGED <<status, closed>>
  BY <1>4, <1>6, <1>7 DEF HeadRuns, HeadWakes, HeadAborted, Refusals, clock
<1>8. ASSUME NEW S \in SUBSET Requests, NEW o \in Outcomes, Settle(S, o), UNCHANGED closed
      PROVE  [Promise!Next]_(Promise!vars)
  <2>1. /\ Phase' = [r \in Requests |-> IF r \in Settling(S) THEN "settled" ELSE Phase[r]]
        /\ Settling(S) \in SUBSET Requests
        /\ \A r \in Settling(S) : Phase[r] = "granted"
    BY <1>0, <1>8, SettleRefines
  <2>2. CASE Settling(S) = {}
    <3>1. Phase' = Phase
      <4>1. Phase = [r \in Requests |-> Phase[r]]
        BY PhaseOf
      <4>2. QED
        BY <2>1, <2>2, <4>1
    <3>2. QED
      BY <1>8, <3>1
  <2>3. CASE Settling(S) # {}
    BY <1>8, <2>1, <2>3 DEF Promise!Settle
  <2>4. QED
    BY <2>2, <2>3
<1>9. ASSUME NEW r \in Requests, (\E o \in Outcomes : Finish(r, o)) \/ AbortOwn(r)
      PROVE  [Promise!Next]_(Promise!vars)
  <2>1. {r} \in SUBSET Requests /\ "transport_error" \in Outcomes
    BY DEF Outcomes
  <2>2. QED
    BY <1>8, <1>9, <2>1 DEF Finish, AbortOwn, clock
<1>10. ASSUME Close PROVE Promise!Stop
  <2>1. Settle(Requests, "transport_error") /\ "transport_error" \in Outcomes
    BY <1>10 DEF Close, Reached, Outcomes
  <2>2. Phase' = [r \in Requests |-> IF r \in Settling(Requests) THEN "settled" ELSE Phase[r]]
    BY <1>0, <2>1, SettleRefines
  <2>3. \A r \in Requests : r \in Settling(Requests) <=> Phase[r] = "granted"
    BY <1>0, PhaseOf, PhaseTells DEF Settling
  <2>4. Phase' = [r \in Requests |-> IF Phase[r] = "granted" THEN "settled" ELSE Phase[r]]
    BY <2>2, <2>3
  <2>5. QED
    BY <1>10, <2>4 DEF Close, Promise!Stop
<1>11. ASSUME \/ \E t \in Tasks : BindTask(t)
              \/ \E r \in Requests, n \in ByteSizes : AddBytes(r, n)
              \/ Tick \/ UNCHANGED vars
       PROVE  UNCHANGED <<status, closed>>
  BY <1>11 DEF BindTask, AddBytes, Tick, vars, clock
<1>12. QED
  <2>1. \A r \in Requests : Promise!Ask(r) \/ Promise!Grant(r) \/ Promise!Refuse(r) => Promise!Next
    OBVIOUS
  <2>2. Promise!Stop => Promise!Next
    OBVIOUS
  <2> HIDE DEF Promise!Next
  <2>3. QED
    BY <1>1, <1>2, <1>3, <1>7, <1>9, <1>10, <1>11, <2>1, <2>2 DEF Next, DeadlineFires

\* The queue, with its timers, its two checks and its counters, implements a
\* plain budget that can be stopped (admission.ts, whole class).
THEOREM PromiseIsKept == Spec => KeepsPromise
<1>1. Init => Promise!Init
  <2> SUFFICES ASSUME Init PROVE Promise!Init
    OBVIOUS
  <2>1. Phase = [r \in Requests |-> "new"]
    BY PhaseOf, PhaseIs DEF Init
  <2>2. QED
    BY <2>1 DEF Promise!Init, Init
<1>2. Accounts /\ Accounts' /\ [Next]_vars => [Promise!Next]_(Promise!vars)
  BY PromiseStep
<1>3. QED
  BY <1>1, <1>2, AccountsHold, PTL DEF Spec, KeepsPromise, Promise!Spec
=============================================================================

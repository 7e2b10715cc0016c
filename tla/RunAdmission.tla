---------------------------- MODULE RunAdmission ----------------------------
(***************************************************************************)
(* The request admission queue of one plan run: class RunAdmission of      *)
(* src/src/agent-dast/admission.ts.  Every worker task of the run binds to *)
(* it and reserves a permit before each outbound HTTP request, so this one *)
(* object enforces the run's request budget, its pacing and its deadline.  *)
(*                                                                         *)
(* The queue is a promise chain (`tail`): a reservation's continuation     *)
(* runs when the one before it has settled.  That continuation checks,     *)
(* sleeps until `nextAt`, and checks again, so between the two checks      *)
(* anything else may happen: other tasks reserve or finish, a signal       *)
(* aborts, the deadline timer fires.                                       *)
(*                                                                         *)
(* Time.  `now` is Date.now(), whole milliseconds.  1000/ratePerSecond     *)
(* need not be whole, so `nextAt` and Interval count Grain-ths of a        *)
(* millisecond.  Node truncates a timer's delay to whole milliseconds and  *)
(* never arms less than one; TimerSlack is how much earlier than that      *)
(* Date.now() may see it fire (two millisecond clocks, two roundings).     *)
(***************************************************************************)
EXTENDS Naturals, Sequences, FiniteSets

CONSTANTS
    Tasks,        \* task ids that may be bound
    Requests,     \* bound: the reservations made, <<task, position>>
    MaxRequests,  \* options.maxRequests
    Interval,     \* 1000 / options.ratePerSecond, in Grain-ths of a ms
    Grain,        \* fractions of a millisecond told apart
    DeadlineAt,   \* options.deadlineAt, ms
    TimerSlack,   \* ms by which Date.now() may see a timer fire early
    Horizon,      \* bound: the clock stops here
    ByteSizes,    \* sizes passed to addBytes
    SafeBytes     \* Number.MAX_SAFE_INTEGER

ASSUME TasksAssumption    == IsFiniteSet(Tasks)
ASSUME RequestsAssumption == IsFiniteSet(Requests) /\ Requests \subseteq Tasks \X Nat
ASSUME BudgetAssumption   == MaxRequests \in Nat \ {0}
ASSUME PaceAssumption     == Interval \in Nat /\ Grain \in Nat \ {0}
ASSUME ClockAssumption    == /\ DeadlineAt \in Nat \ {0}
                             /\ TimerSlack \in Nat
                             /\ Horizon \in Nat
                             /\ DeadlineAt <= Horizon
ASSUME BytesAssumption    == ByteSizes \subseteq Nat /\ SafeBytes \in Nat

\* A reservation is named by its task and its position among that task's calls.
Owner(r) == r[1]

VARIABLES
    \* the run's clock and stop signal
    now,        \* Date.now()
    closed,     \* this.controller.signal.aborted
    \* the queue
    tail,       \* reservations whose promise has not settled, oldest first
    waiting,    \* the head sleeps in `await delay(wait)`
    fireAt,     \* and its timer is due at this time
    \* the budget
    count, nextAt,
    \* the tasks
    bound,      \* keys of this.tasks
    tasks,      \* this.tasks: the counters of each AdmissionSnapshot
    \* the reservations
    status,     \* where each reservation, then its attempt, stands
    own,        \* the signal passed to reserve: absent, live or aborted
    ordinal,    \* attempt.ordinal, 0 before admission
    admissions  \* history: [req, at] of every admission, in order

clock  == <<now, closed>>
queue  == <<tail, waiting, fireAt>>
budget == <<count, nextAt, admissions>>
vars   == <<clock, queue, budget, bound, tasks, status, own, ordinal>>

-----------------------------------------------------------------------------
Snapshot == [requestCount: Nat, bytes: Nat, responseCompleted: Nat,
             transportErrors: Nat, pending: Nat, refused: Nat]

EmptySnapshot == [requestCount |-> 0, bytes |-> 0, responseCompleted |-> 0,
                  transportErrors |-> 0, pending |-> 0, refused |-> 0]

Outcomes == {"response", "transport_error"}
Refusals == {"timeout", "request_limit"}
Admitted == Outcomes \cup {"pending"}
Statuses == {"unissued", "invalid", "queued"} \cup Refusals \cup Admitted

\* Type correctness of the object's fields and of the reservations.
TypeOK ==
    /\ now \in Nat /\ closed \in BOOLEAN
    /\ tail \in Seq(Requests) /\ waiting \in BOOLEAN /\ fireAt \in Nat
    /\ count \in Nat /\ nextAt \in Nat
    /\ admissions \in Seq([req: Requests, at: Nat])
    /\ bound \subseteq Tasks
    /\ tasks \in [Tasks -> Snapshot]
    /\ status \in [Requests -> Statuses]
    /\ own \in [Requests -> {"none", "live", "aborted"}]
    /\ ordinal \in [Requests -> Nat]

\* The caller's signal may be aborted before the constructor looks at it, and
\* then (or when the deadline has passed) the object starts out closed.
Init ==
    /\ now = 0
    /\ closed \in BOOLEAN
    /\ tail = <<>> /\ waiting = FALSE /\ fireAt = 0
    /\ count = 0 /\ nextAt = 0 /\ admissions = <<>>
    /\ bound = {}
    /\ tasks = [t \in Tasks |-> EmptySnapshot]
    /\ status = [r \in Requests |-> "unissued"]
    /\ own = [r \in Requests |-> "none"]
    /\ ordinal = [r \in Requests |-> 0]

-----------------------------------------------------------------------------
(* Checks and the permit's own operations.                                 *)

\* Variant: the deadline is left to its timer.
Stopped_TimerOnly(r) == closed \/ own[r] = "aborted"

\* combined.aborted || Date.now() >= this.deadlineAt
Stopped(r) == closed \/ own[r] = "aborted" \/ now >= DeadlineAt

\* Variant: one request too many.
Exhausted_OffByOne == count > MaxRequests

Exhausted == count >= MaxRequests

\* Variant: the counters move when the attempt had already settled.
Settling_Twice(S) == {r \in S : status[r] \in Admitted}

\* `if (attempt.outcome !== 'pending') return`: those of S that finish() settles.
Settling(S) == {r \in S : status[r] = "pending"}

\* Variant: the error counter is bumped without releasing the pending one.
Settle_KeepsPending(S, outcome) ==
    /\ status' = [r \in Requests |-> IF r \in Settling(S) THEN outcome ELSE status[r]]
    /\ tasks' = [t \in Tasks |->
         LET n == Cardinality({r \in Settling(S) : Owner(r) = t}) IN
         [tasks[t] EXCEPT !.responseCompleted = @ + (IF outcome = "response" THEN n ELSE 0),
                          !.transportErrors   = @ + (IF outcome = "response" THEN 0 ELSE n)]]

\* finish(outcome) called for every reservation of S.
Settle(S, outcome) ==
    /\ status' = [r \in Requests |-> IF r \in Settling(S) THEN outcome ELSE status[r]]
    /\ tasks' = [t \in Tasks |->
         LET n == Cardinality({r \in Settling(S) : Owner(r) = t}) IN
         [tasks[t] EXCEPT !.pending           = @ - n,
                          !.responseCompleted = @ + (IF outcome = "response" THEN n ELSE 0),
                          !.transportErrors   = @ + (IF outcome = "response" THEN 0 ELSE n)]]

-----------------------------------------------------------------------------
(* Tasks and reservations.                                                 *)

\* bindTask: a second binding of an id throws.
BindTask(t) ==
    /\ t \notin bound
    /\ bound' = bound \cup {t}
    /\ UNCHANGED <<clock, queue, budget, tasks, status, own, ordinal>>

\* A task's calls are numbered in the order it makes them.
NextCall(r) ==
    /\ Owner(r) \in bound
    /\ status[r] = "unissued"
    /\ \A s \in Requests : Owner(s) = Owner(r) /\ s[2] < r[2] => status[s] # "unissued"

\* reserve with metadata the check at the top refuses: nothing is queued.
ReserveInvalid(r) ==
    /\ NextCall(r)
    /\ status' = [status EXCEPT ![r] = "invalid"]
    /\ UNCHANGED <<clock, queue, budget, bound, tasks, own, ordinal>>

\* Variant: a new reservation overtakes those that wait.
Enqueue_Front(r) == tail' = <<r>> \o tail

\* this.tail = request.then(...)
Enqueue(r) == tail' = Append(tail, r)

\* reserve(metadata, signal): joins the chain, whatever the state of the run.
Reserve(r) ==
    /\ NextCall(r)
    /\ Enqueue(r)
    /\ status' = [status EXCEPT ![r] = "queued"]
    /\ own' \in {[own EXCEPT ![r] = s] : s \in {"none", "live", "aborted"}}
    /\ UNCHANGED <<clock, waiting, fireAt, budget, bound, tasks, ordinal>>

\* Variant: the error escapes uncounted and the chain stays at it.
Refuse_Escapes(r, code) ==
    /\ waiting' = FALSE
    /\ status' = [status EXCEPT ![r] = "queued"]
    /\ UNCHANGED <<clock, tail, fireAt, budget, bound, tasks, own, ordinal>>

\* The catch block: the refusal is counted and the chain moves on.
Refuse(r, code) ==
    /\ tail' = Tail(tail) /\ waiting' = FALSE
    /\ status' = [status EXCEPT ![r] = code]
    /\ tasks' = [tasks EXCEPT ![Owner(r)].refused = @ + 1]
    /\ UNCHANGED <<clock, fireAt, budget, bound, own, ordinal>>

\* Variant: the pace is kept from the previous slot, so idle time buys a burst.
NextSlot_Burst == nextAt + Interval

\* this.nextAt = Date.now() + 1000 / this.options.ratePerSecond
NextSlot == now * Grain + Interval

\* Both checks passed: the attempt is charged and its permit handed out.
Admit(r) ==
    /\ tail' = Tail(tail) /\ waiting' = FALSE
    /\ count' = count + 1
    /\ nextAt' = NextSlot
    /\ admissions' = Append(admissions, [req |-> r, at |-> now])
    /\ status' = [status EXCEPT ![r] = "pending"]
    /\ ordinal' = [ordinal EXCEPT ![r] = tasks[Owner(r)].requestCount + 1]
    /\ tasks' = [tasks EXCEPT ![Owner(r)].requestCount = @ + 1,
                              ![Owner(r)].pending = @ + 1]
    /\ UNCHANGED <<clock, fireAt, bound, own>>

\* check() throws 'timeout' before 'request_limit'; else the permit is granted.
Decide(r) ==
    \/ Stopped(r) /\ Refuse(r, "timeout")
    \/ ~Stopped(r) /\ Exhausted /\ Refuse(r, "request_limit")
    \/ ~Stopped(r) /\ ~Exhausted /\ Admit(r)

AtHead(r) == tail # <<>> /\ r = tail[1]

\* nextAt - Date.now(), in Grain-ths of a millisecond.
Wait == IF nextAt > now * Grain THEN nextAt - now * Grain ELSE 0

\* Node arms a timer for max(1, trunc(delay)) milliseconds.
TimerMs == IF Wait < Grain THEN 1 ELSE Wait \div Grain

\* The head's continuation starts: refused, admitted at once, or put to sleep.
HeadRuns(r) ==
    /\ AtHead(r) /\ ~waiting
    /\ \/ (Stopped(r) \/ Exhausted \/ Wait = 0) /\ Decide(r)
       \/ /\ ~Stopped(r) /\ ~Exhausted /\ Wait > 0
          /\ waiting' = TRUE
          /\ fireAt' = now + TimerMs
          /\ UNCHANGED <<clock, tail, budget, bound, tasks, status, own, ordinal>>

\* Variant: nothing is checked again after the sleep.
HeadWakes_Unchecked(r) ==
    /\ AtHead(r) /\ waiting
    /\ now + TimerSlack >= fireAt
    /\ Admit(r)

\* The delay elapses and the second check() decides.
HeadWakes(r) ==
    /\ AtHead(r) /\ waiting
    /\ now + TimerSlack >= fireAt
    /\ Decide(r)

\* The combined signal aborts the delay, which rejects.
HeadAborted(r) ==
    /\ AtHead(r) /\ waiting
    /\ closed \/ own[r] = "aborted"
    /\ Refuse(r, "timeout")

-----------------------------------------------------------------------------
(* The holder of a permit, the signals and the clock.                      *)

\* permit.finish(outcome): the first call settles the attempt, later ones do
\* nothing.
Finish(r, outcome) ==
    /\ status[r] \in Admitted
    /\ Settle({r}, outcome)
    /\ UNCHANGED <<clock, queue, budget, bound, own, ordinal>>

\* Variant: a late chunk is counted after the attempt has settled.
CountsBytes_Late(r) == status[r] \in Admitted

CountsBytes(r) == status[r] = "pending"

\* permit.addBytes(n): throws when the sum is not a safe integer.
AddBytes(r, n) ==
    /\ status[r] \in Admitted
    /\ tasks[Owner(r)].bytes + n <= SafeBytes
    /\ CountsBytes(r)
    /\ tasks' = [tasks EXCEPT ![Owner(r)].bytes = @ + n]
    /\ UNCHANGED <<clock, queue, budget, bound, status, own, ordinal>>

\* The signal given to reserve aborts: a pending attempt ends as a transport
\* error in the same turn.
AbortOwn(r) ==
    /\ own[r] = "live"
    /\ own' = [own EXCEPT ![r] = "aborted"]
    /\ Settle({r}, "transport_error")
    /\ UNCHANGED <<clock, queue, budget, bound, ordinal>>

\* Variant: closing reaches only the attempts that had a signal of their own.
Reached_OwnOnly == {r \in Requests : own[r] # "none"}

\* Every attempt listens to the run's signal.
Reached == Requests

\* close(): from the caller's abort signal or the runner's own call.  The
\* abort listeners of every pending attempt run in the same turn.
Close ==
    /\ ~closed
    /\ closed' = TRUE
    /\ Settle(Reached, "transport_error")
    /\ UNCHANGED <<now, queue, budget, bound, own, ordinal>>

\* The deadline timer calls close().
DeadlineFires ==
    /\ now + TimerSlack >= DeadlineAt
    /\ Close

Tick ==
    /\ now < Horizon
    /\ now' = now + 1
    /\ UNCHANGED <<closed, queue, budget, bound, tasks, status, own, ordinal>>

Next ==
    \/ \E t \in Tasks : BindTask(t)
    \/ \E r \in Requests :
         \/ ReserveInvalid(r) \/ Reserve(r)
         \/ HeadRuns(r) \/ HeadWakes(r) \/ HeadAborted(r)
         \/ \E o \in Outcomes : Finish(r, o)
         \/ \E n \in ByteSizes : AddBytes(r, n)
         \/ AbortOwn(r)
    \/ Close
    \/ DeadlineFires
    \/ Tick

Spec == Init /\ [][Next]_vars

\* The event loop runs every ready continuation and every due timer, and time
\* passes.  Nothing is assumed of the permit holders or of the caller.
Fairness ==
    /\ WF_vars(\E r \in Requests : HeadRuns(r))
    /\ WF_vars(\E r \in Requests : HeadWakes(r) \/ HeadAborted(r))
    /\ WF_vars(DeadlineFires)
    /\ WF_vars(Tick)

FairSpec == Spec /\ Fairness

-----------------------------------------------------------------------------
(* Safety.                                                                 *)

With(t, states) == {r \in Requests : Owner(r) = t /\ status[r] \in states}

\* However the tasks interleave, the run's counter is the number of permits
\* ever handed out, and it stays within options.maxRequests.
BudgetIsShared ==
    /\ count = Cardinality({r \in Requests : status[r] \in Admitted})
    /\ count <= MaxRequests

\* A task's snapshot reconciles at every instant, not only at the end: each
\* counter is the number of its reservations in that state, through aborts
\* that settle many attempts at once, repeated finish() calls and refusals.
LedgerReconciles ==
    \A t \in Tasks :
      /\ tasks[t].requestCount      = Cardinality(With(t, Admitted))
      /\ tasks[t].pending           = Cardinality(With(t, {"pending"}))
      /\ tasks[t].responseCompleted = Cardinality(With(t, {"response"}))
      /\ tasks[t].transportErrors   = Cardinality(With(t, {"transport_error"}))
      /\ tasks[t].refused           = Cardinality(With(t, Refusals))

\* The run's account and those of its tasks agree, always.
AccountsReconcile == BudgetIsShared /\ LedgerReconciles

\* The wait a signal interrupts leaves nothing open: once the run is closed,
\* or a reservation's own signal aborted, its attempt is not pending.
StoppedIsSettled ==
    \A r \in Requests : closed \/ own[r] = "aborted" => status[r] # "pending"

\* No permit is granted at or after the deadline, though the wait for it began
\* before and the timer that closes the run may fire late.
NoneAfterDeadline ==
    \A i \in 1..Len(admissions) : admissions[i].at < DeadlineAt

\* Attempt ordinals of a task follow the order of its reserve() calls and are
\* the numbers 1..requestCount: the chain serves first come, first served.
OrdinalsInCallOrder ==
    \A r, s \in Requests :
      Owner(r) = Owner(s) /\ status[r] \in Admitted /\ status[s] \in Admitted =>
        /\ ordinal[r] \in 1..tasks[Owner(r)].requestCount
        /\ r[2] < s[2] => ordinal[r] < ordinal[s]

\* What the wait in the chain leaves true: a call is admitted in its turn, and
\* in time or not at all.
AdmittedInTurn == NoneAfterDeadline /\ OrdinalsInCallOrder

\* What the pacing guarantees: two admissions in a row, of whatever tasks, are
\* apart by the interval rounded down to a whole millisecond, less the slack
\* of the clocks.  Idle time is never turned into a burst.
PacedApart ==
    \A i \in 1..Len(admissions) - 1 :
      admissions[i].at * Grain + Interval
        <= (admissions[i + 1].at + TimerSlack) * Grain + (Grain - 1)

\* What the option promises (docs/agent-dast-runner.md, cli.ts: "rate
\* 1..150/sec"): k admissions take at least k intervals.
RateHonoured ==
    \A i, j \in 1..Len(admissions) :
      i < j => admissions[i].at * Grain + (j - i) * Interval <= admissions[j].at * Grain

(* What a step may never do.                                               *)

\* After close() the accounts are frozen: nothing is admitted, no byte and no
\* response is counted, so the snapshot the runner takes then is final but for
\* refusals of what is still queued.
ClosedAccountsFrozen ==
    [][closed =>
         /\ closed' /\ count' = count
         /\ \A t \in Tasks : tasks'[t] = [tasks[t] EXCEPT !.refused = tasks'[t].refused]]_vars

(* Liveness.                                                               *)

\* Every reservation and every permit settles, by its turn in the chain, its
\* holder, an abort or at last the deadline, whatever the holders of other
\* permits do.
AllSettle ==
    \A r \in Requests :
      status[r] \in {"queued", "pending"} ~> status[r] \notin {"queued", "pending"}

-----------------------------------------------------------------------------
(* The abstract promise: AdmissionBudget.                                  *)

\* A reservation as its caller sees it.
Phase == [r \in Requests |->
            CASE status[r] \in {"unissued", "invalid"} -> "new"
              [] status[r] = "queued"                  -> "asked"
              [] status[r] = "pending"                 -> "granted"
              [] status[r] \in Outcomes               -> "settled"
              [] OTHER                                 -> "refused"]

Promise == INSTANCE AdmissionBudget
             WITH Limit <- MaxRequests, phase <- Phase, stopped <- closed

\* The queue with its timers, two-phase checks and counters keeps the promise
\* of a plain budget that can be stopped.
KeepsPromise == Promise!Spec
=============================================================================

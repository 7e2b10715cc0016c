---------------------------- MODULE ApiPolicyRun ----------------------------
(***************************************************************************)
(* One run of an API authorization policy: runApiPolicy of src/src/api.ts. *)
(*                                                                         *)
(* The policy fixes a plan: the identity of every actor with credentials,  *)
(* for each case the owner's control, the denials of the others and the    *)
(* control again, then the identities again.  A step is one request, which *)
(* may fall over to another address; it fills in its row of a ledger, and  *)
(* the run goes on whatever becomes of it.  At the end the run says        *)
(* whether it is complete, finishes the ledger, which the sanitizer of     *)
(* src/src/api-execution.ts checks, and decides of each exposure it found  *)
(* whether its controls passed.                                            *)
(*                                                                         *)
(* What requestPinned does with one request is NativeDast's subject; here  *)
(* a request makes attempts and then answers or fails.  An answer is       *)
(* abstracted to a class of status and of body.  The capture session of    *)
(* the API state pilots, which shares its budgets, is left out.            *)
(***************************************************************************)
EXTENDS Naturals, Sequences, FiniteSets, SequencesExt

CONSTANTS
    Policies,      \* the policies of the instance
    Anonymous,     \* the actor without credentials
    MaxRequests,   \* API_MAX_REQUESTS
    Addresses,     \* addresses a request may try
    SurpriseBound  \* bound: failovers, failures and answers nobody wanted

\* named: the actors with credentials, in order; a legacy policy has no
\* identities and no protected canary.  "none" stands for no principal.
PolicyShape(p) ==
    /\ DOMAIN p = {"legacy", "named", "cases"} /\ p.legacy \in BOOLEAN
    /\ p.named \in Seq(ToSet(p.named)) /\ IsInjective(p.named)
    /\ {Anonymous, "none"} \cap ToSet(p.named) = {}
    /\ p.cases \in Seq(ToSet(p.cases)) /\ p.cases # <<>>
    /\ \A c \in ToSet(p.cases) :
          /\ c.owner \in ToSet(p.named) /\ c.owner \notin ToSet(c.denied)
          /\ c.denied \in Seq(ToSet(c.denied)) /\ c.denied # <<>> /\ IsInjective(c.denied)

ASSUME PolicyAssumption == \A p \in Policies : PolicyShape(p)
ASSUME LimitAssumption  == /\ MaxRequests \in Nat /\ Addresses \in Nat \ {0}
                           /\ SurpriseBound \in Nat

VARIABLES
    policy,
    cause,        \* abortCause; "none" until controller.signal is aborted
    expired,      \* Date.now() >= deadlineAt
    at, next,     \* where the step under way stands, and its ordinal
    count,        \* budget.count
    full,         \* bytes >= API_MAX_TOTAL_BODY_BYTES
    stopped,      \* stopRequests
    rows,         \* the ledger's steps
    who,          \* who[phase][actor]: beforePrincipal and afterPrincipal
    reused,       \* actors with identityReuse
    exposed,      \* the steps whose answer had the canary
    incomplete,
    surprises     \* history: for SurpriseBound

request == <<count, full, stopped>>
results == <<rows, who, reused, exposed, incomplete>>
vars    == <<policy, cause, expired, at, next, request, results, surprises>>

Named == ToSet(policy.named)

\* Whose principal an identity returned.
Principals == Named \cup {"none"}

Statuses == {"ok", "bad", "denied", "refused", "unauthorized", "failing", "other", "odd"}
Failures == {"network_policy", "transport_error", "request_budget", "body_budget"}
Stops    == {"request_budget", "body_budget", "cancelled", "deadline"}
Rows == [outcome : {"not_attempted", "inconclusive", "evaluated"},
         reason : Failures \cup Stops \cup {"evaluated", "assertion_inconclusive",
                                            "prerequisite_failed", "not_reached"},
         start : Nat, attempts : Nat, status : Statuses \cup {"none"}]

-----------------------------------------------------------------------------
(* The plan.                                                               *)

Entry(phase, actor, case) == [phase |-> phase, actor |-> actor, case |-> case]

Identities(p, phase) ==
    IF p.legacy THEN <<>> ELSE [i \in DOMAIN p.named |-> Entry(phase, p.named[i], 0)]

CasePlan(p, k) ==
    LET c == p.cases[k] IN
    <<Entry("owner-before", c.owner, k)>>
        \o [i \in DOMAIN c.denied |-> Entry("deny", c.denied[i], k)]
        \o <<Entry("owner-after", c.owner, k)>>

\* requestPlan
PlanOf == [p \in Policies |->
             Identities(p, "identity-before")
                \o FlattenSeq([k \in DOMAIN p.cases |-> CasePlan(p, k)])
                \o Identities(p, "identity-after")]

Plan     == PlanOf[policy]
Ordinals == DOMAIN Plan
Step     == Plan[next]
Identity == Step.phase \in {"identity-before", "identity-after"}

\* plannedOrdinal
Planned(phase, actor, case) == {i \in Ordinals : Plan[i] = Entry(phase, actor, case)}

\* Types of the run's state.
TypeOK ==
    /\ policy \in Policies /\ cause \in {"none", "cancelled", "deadline"}
    /\ expired \in BOOLEAN /\ at \in {"step", "request", "finish", "done"}
    /\ next \in 1..(Len(Plan) + 1) /\ (at \in {"step", "request"} => next \in Ordinals)
    /\ count \in 0..MaxRequests /\ full \in BOOLEAN /\ stopped \in BOOLEAN
    /\ rows \in [Ordinals -> Rows]
    /\ who \in [{"identity-before", "identity-after"} -> [Named -> Principals]]
    /\ reused \subseteq Named /\ exposed \subseteq Ordinals
    /\ incomplete \in BOOLEAN /\ surprises \in 0..SurpriseBound

\* createApiExecutionLedger
Unreached == [outcome |-> "not_attempted", reason |-> "not_reached",
              start |-> 0, attempts |-> 0, status |-> "none"]

\* The caller's signal may be aborted already.
Init ==
    /\ policy \in Policies /\ cause \in {"none", "cancelled"} /\ expired = FALSE
    /\ at = "step" /\ next = 1
    /\ count = 0 /\ full = FALSE /\ stopped = FALSE
    /\ rows = [i \in Ordinals |-> Unreached]
    /\ who = [p \in {"identity-before", "identity-after"} |-> [a \in Named |-> "none"]]
    /\ reused = {} /\ exposed = {} /\ incomplete = policy.legacy /\ surprises = 0

-----------------------------------------------------------------------------
(* Signals and the clock.  A signal is aborted only in the await of a      *)
(* request; the clock goes on everywhere.                                  *)

Abort(why) ==
    /\ at = "request" /\ cause = "none" /\ cause' = why
    /\ UNCHANGED <<policy, expired, at, next, request, results, surprises>>

Expire ==
    /\ at # "done" /\ ~expired /\ expired' = TRUE
    /\ UNCHANGED <<policy, cause, at, next, request, results, surprises>>

\* A request is refused, or cut.
Late == cause # "none" \/ expired

-----------------------------------------------------------------------------
(* A step ends.                                                            *)

\* recordStep
Row(good, why, status) ==
    LET attempts == IF at = "request" THEN count - rows[next].start ELSE 0
        outcome  == IF attempts = 0 THEN "not_attempted"
                    ELSE IF good THEN "evaluated" ELSE "inconclusive"
    IN  [rows[next] EXCEPT !.outcome = outcome, !.status = status,
            !.start = count - attempts, !.attempts = attempts,
            !.reason = IF outcome = "evaluated" THEN "evaluated"
                       ELSE IF why = "none" THEN "assertion_inconclusive" ELSE why]

Case(i) == Plan[i].case # 0 /\ Plan[i].case = Step.case

\* Variant: the rest of the case is left as it was.
Blocked_None(i) == FALSE

\* Without the owner's control the rest of its case is not reached.
Blocked(i) == Case(i) /\ Plan[i].phase # "owner-before"

\* Variant: nobody compares the principals.
Shared_Nobody(principals) == {}

\* markIdentityReuse, once all of a phase have answered.
Shared(principals) ==
    {a \in Named : principals[a] # "none" /\ \E b \in Named \ {a} : principals[b] = principals[a]}

PhaseEnds == Identity /\ (next = Len(Plan) \/ Plan[next + 1].phase # Step.phase)

\* The identity an actor has before the cases, and after them.
Valid(phase, a) == who[phase][a] = a

\* The step ends: `good` is its control's result, `why` the request's failure,
\* `principal` what an identity returned.
End(good, why, status, principal) ==
    LET skips == Step.phase = "owner-before" /\ ~good
    IN  /\ rows' = [i \in Ordinals |->
              IF i = next THEN Row(good, why, status)
              ELSE IF skips /\ Blocked(i) THEN [rows[i] EXCEPT !.reason = "prerequisite_failed"]
              ELSE rows[i]]
        /\ who' = IF Identity THEN [who EXCEPT ![Step.phase][Step.actor] = principal] ELSE who
        /\ reused' = IF PhaseEnds THEN reused \cup Shared(who'[Step.phase]) ELSE reused
        /\ next' = IF skips THEN Max({i \in Ordinals : Case(i)}) + 1 ELSE next + 1
        /\ incomplete' = \/ incomplete \/ ~good
                         \/ cause # "none" /\ (Identity \/ Step.phase = "deny")
                         \/ PhaseEnds /\ Shared(who'[Step.phase]) # {}
        /\ at' = IF next' \in Ordinals THEN "step" ELSE "finish"
        /\ UNCHANGED <<policy, cause, expired>>

-----------------------------------------------------------------------------
(* requestApi.                                                             *)

\* requestFailureReason
Reason(code) == IF cause # "none" THEN cause ELSE IF expired THEN "deadline" ELSE code

\* The body budget is spent.
Refuse ==
    /\ at = "step" /\ (stopped \/ full)
    /\ stopped' = TRUE
    /\ End(FALSE, "body_budget", "none", "none")
    /\ UNCHANGED <<count, full, exposed, surprises>>

\* The run is stopped, or out of time, before the request begins.
NotStarted ==
    /\ at = "step" /\ ~(stopped \/ full) /\ Late
    /\ End(FALSE, Reason("transport_error"), "none", "none")
    /\ UNCHANGED <<request, exposed, surprises>>

Start ==
    /\ at = "step" /\ ~(stopped \/ full) /\ ~Late
    /\ at' = "request" /\ rows' = [rows EXCEPT ![next].start = count]
    /\ UNCHANGED <<policy, cause, expired, next, request, who, reused, exposed, incomplete, surprises>>

Attempts == count - rows[next].start

\* Variant: one request too many.
Exhausted_OffByOne == count > MaxRequests
Exhausted == count >= MaxRequests

\* The request goes to an address; the first is what everybody expects.
Attempt ==
    /\ at = "request" /\ ~Late /\ ~Exhausted /\ Attempts < Addresses
    /\ Attempts > 0 => surprises < SurpriseBound
    /\ surprises' = IF Attempts > 0 THEN surprises + 1 ELSE surprises
    /\ count' = count + 1
    /\ UNCHANGED <<policy, cause, expired, at, next, full, stopped, results>>

\* The codes a request may fail with.
Codes ==
    {"network_policy", "transport_error"}
        \cup (IF Attempts > 0 THEN {"body_budget"} ELSE {})
        \cup (IF Exhausted /\ Attempts < Addresses THEN {"request_budget"} ELSE {})

\* A body that crosses the limit stops the run's requests.
Fail ==
    /\ at = "request"
    /\ \E code \in Codes :
          LET forced == Late \/ (code = "request_budget" /\ Attempts = 0) IN
          /\ ~forced => surprises < SurpriseBound
          /\ surprises' = IF forced THEN surprises ELSE surprises + 1
          /\ stopped' = (stopped \/ code = "body_budget")
          /\ End(FALSE, Reason(code), "none", "none")
    /\ UNCHANGED <<count, full, exposed>>

-----------------------------------------------------------------------------
(* Answers.                                                                *)

\* actorIdentityVerified
Known(a) ==
    IF a \in Named THEN ~policy.legacy /\ Valid("identity-before", a) /\ a \notin reused ELSE a = Anonymous

\* ok: 2xx;  denied: a 4xx the policy lists;  refused: another 4xx;
\* unauthorized: 401 to credentials;  failing: 429 or 5xx;  other: 1xx or 3xx;
\* odd: outside 100..599.
DenyStatuses == {"ok", "denied", "refused", "failing", "other", "odd"}
                    \cup (IF Step.actor \in Named THEN {"unauthorized"} ELSE {})

\* cut: the search for the canary was not finished;  part: it was found all the
\* same;  echo: the resource's public marker;  text: not JSON;  empty: as the
\* policy allows it.
DenyBodies == {"clean", "echo", "text"}
                    \cup (IF policy.legacy THEN {} ELSE {"empty", "canary", "cut", "part"})

Canary(body) == body \in {"canary", "part"}

\* Variant: a rate limit or a failing server denies, if the policy lists it.
NoDenial_Failing(status) == status \in {"unauthorized", "other", "odd"}

NoDenial(status) == status \in {"unauthorized", "failing", "other", "odd"}

\* Variant: a 2xx that shows nothing will do.
Caught_Nothing(body) == body \notin {"cut", "part"}

Caught(body) == body = "canary"

\* checkDeny: the control is complete.
Denies(status, body) ==
    /\ body \notin {"cut", "part"} /\ ~NoDenial(status) /\ Known(Step.actor)
    /\ IF status = "ok" THEN Caught(body)
       ELSE body # "text" /\ status # "refused" /\ (body = "echo" => ~policy.legacy)

\* Each phase's answers: the control's result, the status, the principal and
\* whether the canary was seen.
Answer(good, status, principal, canary) ==
    [good |-> good, status |-> status, principal |-> principal, canary |-> canary]

Answers ==
    IF Identity
    THEN {Answer(p = Step.actor, "ok", p, FALSE) : p \in Principals}
            \cup {Answer(FALSE, s, "none", FALSE) : s \in {"bad", "odd"}}
    ELSE IF Step.phase = "deny"
    THEN {Answer(Denies(s, b), s, "none", Canary(b)) : s \in DenyStatuses, b \in DenyBodies}
    ELSE {Answer(s = "ok", s, "none", FALSE) : s \in {"ok", "bad", "odd"}}
            \cup {Answer(FALSE, "ok", "none", FALSE)}

\* A response, whole, though the signal may have been aborted meanwhile; its
\* body may be the one that spends the budget.
Respond ==
    /\ at = "request" /\ Attempts > 0
    /\ full' \in {full, TRUE}
    /\ \E a \in Answers :
          LET usual == a.good /\ ~a.canary /\ full' = full IN
          /\ ~usual => surprises < SurpriseBound
          /\ surprises' = IF usual THEN surprises ELSE surprises + 1
          /\ exposed' = IF a.canary THEN exposed \cup {next} ELSE exposed
          /\ End(a.good, "none", a.status, a.principal)
    /\ UNCHANGED <<count, stopped>>

-----------------------------------------------------------------------------
(* The end of the run.                                                     *)

\* Requests made by the first k steps, and by those before step i.
Total[k \in 0..Len(Plan)] == IF k = 0 THEN 0 ELSE Total[k - 1] + rows[k].attempts
Before(i) == Total[i - 1]

\* Every actor is who it was, and nobody else.
Proven(a) == /\ Valid("identity-before", a) /\ Valid("identity-after", a) /\ a \notin reused
             /\ who["identity-before"][a] = who["identity-after"][a]

\* Variant: the run is over, so its time no longer counts.
Cut_SignalOnly == cause # "none"

Cut == Late

\* runApiPolicy's last turn, with finishApiExecutionLedger.
Finish ==
    /\ at = "finish" /\ at' = "done"
    /\ incomplete' = \/ incomplete \/ Cut
                     \/ ~policy.legacy /\ \E a \in Named : ~Proven(a)
    /\ rows' = [i \in Ordinals |-> IF rows[i].outcome = "not_attempted"
                                   THEN [rows[i] EXCEPT !.start = Before(i)] ELSE rows[i]]
    /\ UNCHANGED <<policy, cause, expired, next, request, who, reused, exposed, surprises>>

Evaluated(i) == rows[i].outcome = "evaluated"

HasIdentity(a) == Planned("identity-before", a, 0) # {}

SaneStatus(i) ==
    LET s == rows[i].status IN
    IF Plan[i].phase = "deny"
    THEN s \notin {"other", "failing"} /\ ~(s = "unauthorized" /\ HasIdentity(Plan[i].actor))
    ELSE s = "ok"

\* One row, as sanitiseApiExecutionLedger has it.
SaneRow(i) ==
    LET r == rows[i] IN
    /\ r.start = Before(i) /\ r.start + r.attempts <= MaxRequests /\ r.status # "odd"
    /\ Evaluated(i) = (r.reason = "evaluated")
    /\ CASE r.outcome = "evaluated"     -> r.attempts >= 1 /\ r.status # "none" /\ SaneStatus(i)
         [] r.outcome = "not_attempted" -> r.attempts = 0 /\ r.status = "none"
         [] OTHER                       -> r.attempts >= 1
    /\ r.reason \in {"prerequisite_failed", "not_reached"} => r.outcome = "not_attempted"
    /\ r.reason \notin {"evaluated", "assertion_inconclusive"} => r.status = "none"
    /\ r.reason = "request_budget" => r.start + r.attempts = MaxRequests
    /\ r.reason = "assertion_inconclusive" => r.outcome = "inconclusive" /\ r.status # "none"
    /\ r.reason = "prerequisite_failed" => Plan[i].phase \in {"deny", "owner-after"}

\* Its row says that no request follows.
Final(i) == rows[i].reason \in Stops

\* The rows together.
Sane ==
    /\ \A i \in Ordinals : SaneRow(i)
    /\ \A i, j \in Ordinals : i < j /\ Final(i) => rows[j].attempts = 0
    /\ \A i \in Ordinals :
          /\ Plan[i].phase = "deny" /\ Evaluated(i) =>
                \A b \in Planned("identity-before", Plan[i].actor, 0) : Evaluated(b)
          /\ Plan[i].phase \in {"deny", "owner-after"} =>
                \A b \in Planned("owner-before", policy.cases[Plan[i].case].owner, Plan[i].case) :
                    Evaluated(b) = (rows[i].reason # "prerequisite_failed")

\* status, of the ledger and of the check.
Complete  == ~policy.legacy /\ ~incomplete /\ \A i \in Ordinals : Evaluated(i)
Completed == ~incomplete /\ Sane /\ Complete

\* Variant: what the actor was before the cases is enough.
Held_Before(a) == IF a \in Named THEN Valid("identity-before", a) /\ a \notin reused ELSE a = Anonymous

\* identityControlOutcome, of both phases.
Held(a) == IF a \in Named THEN Proven(a) ELSE a = Anonymous

\* attachExposureVerification: the finding of step i is "controls_passed".
ControlsPassed(i) ==
    LET e == Plan[i]
        o == policy.cases[e.case].owner
    IN  /\ ~policy.legacy /\ Sane /\ Evaluated(i) /\ Held(e.actor)
        /\ \A phase \in {"owner-before", "owner-after"} :
              \A c \in Planned(phase, o, e.case) : Evaluated(c)

-----------------------------------------------------------------------------
Next ==
    \/ Refuse \/ NotStarted \/ Start
    \/ Attempt \/ Fail \/ Respond \/ Finish
    \/ \E why \in {"cancelled", "deadline"} : Abort(why)
    \/ Expire

Spec == Init /\ [][Next]_vars

-----------------------------------------------------------------------------
(* Properties.                                                             *)

\* However the run was cut, the ledger it ends with is one its own sanitizer
\* accepts; only a server that answers outside 100..599 can lose the run its
\* evidence.  The flag the run kept as it went along and the ledger agree: a
\* run that saw nothing wrong has evaluated every step.
LedgerIsSane ==
    at = "done" =>
        /\ Sane \/ \E i \in Ordinals : rows[i].status = "odd"
        /\ ~incomplete => Complete

\* A completed check had every control: every actor was itself before and
\* after, with a principal nobody else had, every owner saw its resource before
\* and after the others were tried, each of these was denied in so many words
\* or caught with the canary, and nothing stopped the run.
PassIsEvidenced ==
    at = "done" /\ Completed =>
        /\ cause = "none" /\ ~expired /\ ~policy.legacy
        /\ \A a \in Named, phase \in DOMAIN who :
              who[phase][a] = a /\ \A b \in Named \ {a} : who[phase][b] # a
        /\ \A i \in Ordinals :
              IF Plan[i].phase = "deny"
              THEN rows[i].status = "denied" \/ (rows[i].status = "ok" /\ i \in exposed)
              ELSE rows[i].status = "ok"

\* An exposure is called verified only of an actor that was itself, and alone
\* so, at both ends of the run, between two controls its owner passed; what the
\* later steps disprove is taken back, though the finding stays.  A completed
\* check leaves no finding undecided.
FindingsAreTrue ==
    at = "done" => \A i \in exposed :
        /\ ControlsPassed(i) =>
              /\ Known(Plan[i].actor)
              /\ Plan[i].actor \in Named =>
                    \A phase \in DOMAIN who :
                        {b \in Named : who[phase][b] = Plan[i].actor} = {Plan[i].actor}
              /\ \A j \in Ordinals : Plan[j].case = Plan[i].case /\ Plan[j].phase # "deny"
                    => rows[j].status = "ok"
        /\ Completed => ControlsPassed(i)
=============================================================================

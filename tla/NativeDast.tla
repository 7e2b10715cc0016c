----------------------------- MODULE NativeDast -----------------------------
(***************************************************************************)
(* One run of the native SQL differential prober: runDast of               *)
(* src/src/dast.ts over requestPinned of src/src/url-network.ts, with the  *)
(* admission queue of a plan run.                                          *)
(*                                                                         *)
(* A profile fixes the requests and their order.  Each step sends one, to  *)
(* the next address when a connection fails, judges the answer and appends *)
(* a row to the ledger; the first failure ends the requests, and the rest  *)
(* of the ledger is filled in.  The ledger is published only if the        *)
(* sanitizer of src/src/dast-execution.ts, which any reader applies to it, *)
(* accepts it.                                                             *)
(*                                                                         *)
(* An answer is abstracted to the class the configured oracle puts it in,  *)
(* a status to ok, bad or odd: odd is outside 100..599, which a server may *)
(* send and the sanitizer does not take.                                   *)
(***************************************************************************)
EXTENDS Naturals, Sequences, FiniteSets

CONSTANTS
    Profiles,     \* the profiles of the instance
    MaxChoices,   \* values of options.maxRequests
    Addresses,    \* answers of the DNS lookup, MAX_DNS_ANSWERS at most
    FailoverBound,\* bound: failed connections with another address left
    RunBudget,    \* what the run's other tasks leave of the admission budget
    Answers       \* Answers[phase]: classes of the target's answers

AllProfiles == {"plain", "auth", "json"}
AllPhases   == {"identity", "baseline-before", "alternate", "true", "false", "baseline-after"}

ASSUME ProfileAssumption == Profiles \subseteq AllProfiles
ASSUME LimitAssumption   == /\ IsFiniteSet(MaxChoices) /\ MaxChoices \subseteq Nat \ {0}
                            /\ Addresses \in 1..32 /\ RunBudget \in Nat /\ FailoverBound \in Nat
\* "expected" is the answer an identity or an alternate control looks for.
ASSUME AnswersAssumption ==
    /\ Answers \in [AllPhases -> SUBSET {"baseline", "false", "other", "expected"}]
    /\ \A p \in AllPhases \ {"identity", "alternate"} : "expected" \notin Answers[p]

\* One reservation for each attempt.
Own == UNION {1..n : n \in MaxChoices}

VARIABLES
    permit, runStopped,  \* the admission budget
    profile,             \* plain: v1, v3;  auth: v2, v3 with identity;  json: v4
    maxRequests,         \* context.budget.max
    count,               \* context.budget.count
    cause,               \* abortCause; "none" until context.signal is aborted
    expired,             \* Date.now() >= control.deadlineAt
    runExpired,          \* Date.now() >= runtime.deadlineAt
    at,                  \* where the step under way stands
    start,               \* attemptStart
    address,             \* the address it tries
    failovers,           \* history: for FailoverBound
    status,              \* httpStatus
    full,                \* totalBytes >= TOTAL_BODY_BYTES
    failure,             \* firstFailure
    steps, identity      \* the ledger's rows; identityControls

run    == <<permit, runStopped>>
config == <<profile, maxRequests>>
clock  == <<cause, expired, runExpired>>
wire   == <<start, address, failovers>>
answer == <<status, full>>
ledger == <<failure, steps, identity>>
vars   == <<run, config, count, clock, at, wire, answer, ledger>>

Budget == INSTANCE AdmissionBudget
            WITH Requests <- Own, Limit <- RunBudget,
                 phase <- permit, stopped <- runStopped

Stages     == {"step", "resolve", "pin", "reserve", "permitted", "wire", "body", "judge", "done"}
Identities == {"matched", "mismatched", "inconclusive", "not_attempted"}
Failures   == {"response_invalid", "network_policy", "transport_error", "request_budget",
               "body_budget", "cancelled", "deadline", "identity_mismatch", "benign_control_mismatch"}
Rows == [outcome : {"evaluated", "inconclusive", "not_attempted"},
         reason : Failures \cup {"evaluated", "not_reached"},
         start : Nat, attempts : Nat, status : {"none", "ok", "bad", "odd"},
         match : {"baseline", "false", "other", "alternate", "unavailable"}]

-----------------------------------------------------------------------------
(* The plan.                                                               *)

SqlRound  == <<"baseline-before", "true", "false", "baseline-after">>
JsonRound == <<"baseline-before", "alternate", "true", "false", "baseline-after">>

\* dastRequestPlan
Plan ==
    CASE profile = "plain" -> SqlRound \o SqlRound
      [] profile = "auth"  -> <<"identity">> \o SqlRound \o SqlRound \o <<"identity">>
      [] profile = "json"  -> <<"identity">> \o JsonRound \o JsonRound \o <<"identity">>

Ordinals == 1..Len(Plan)
Probes   == {i \in Ordinals : Plan[i] \in {"true", "false"}}
Controls == {i \in Ordinals : Plan[i] \in {"baseline-before", "alternate", "baseline-after"}}
Sql      == Probes \cup Controls

\* The phase of the step under way, and the method of its request.
Phase == Plan[Len(steps) + 1]
Posts == profile = "json" /\ Phase # "identity"

\* The match a control must have.
Usual(i) == IF Plan[i] = "alternate" THEN "alternate" ELSE "baseline"

\* Types of the prober's state.
TypeOK ==
    /\ permit \in [Own -> Budget!Phases] /\ runStopped \in BOOLEAN
    /\ profile \in Profiles /\ maxRequests \in MaxChoices /\ count \in 0..maxRequests
    /\ cause \in {"none", "cancelled", "deadline"}
    /\ expired \in BOOLEAN /\ runExpired \in BOOLEAN
    /\ at \in Stages /\ address \in 1..Addresses /\ failovers \in 0..FailoverBound
    /\ start \in 0..count /\ status \in {"none", "ok", "bad", "odd"} /\ full \in BOOLEAN
    /\ failure \in Failures \cup {"none"}
    /\ steps \in Seq(Rows) /\ Len(steps) <= Len(Plan)
    /\ identity \in [{"before", "after"} -> Identities]

\* The caller's signal may be aborted, or the run stopped, before it begins.
Init ==
    /\ Budget!Init
    /\ profile \in Profiles /\ maxRequests \in MaxChoices /\ count = 0
    /\ cause \in IF runStopped THEN {"cancelled", "deadline"} ELSE {"none", "cancelled"}
    /\ expired = FALSE /\ runExpired = FALSE
    /\ at = "step" /\ start = 0 /\ address = 1 /\ failovers = 0
    /\ status = "none" /\ full = FALSE
    /\ failure = "none" /\ steps = <<>>
    /\ identity = [c \in {"before", "after"} |-> "not_attempted"]

-----------------------------------------------------------------------------
(* Signals and clocks.                                                     *)

\* Each permit is settled by whichever handler comes first.
Release ==
    LET held == {r \in Own : permit[r] = "granted"} IN
    IF held = {} THEN UNCHANGED run ELSE Budget!Settle(held)

\* The code is in an await: elsewhere no signal can be aborted, but the
\* clock goes on.
Idle == at \in {"resolve", "reserve", "wire", "body", "judge"}

\* context.signal is aborted by the caller or by its own timer, which may fire
\* a moment before or after the clock reaches the deadline.
Abort(why) ==
    /\ Idle /\ cause = "none"
    /\ cause' = why
    /\ Release
    /\ UNCHANGED <<config, count, expired, runExpired, at, wire, answer, ledger>>

\* The run is stopped, and context.signal with it.
StopRun ==
    /\ Idle
    /\ Budget!Stop
    /\ cause' = IF cause = "none" THEN "deadline" ELSE cause
    /\ UNCHANGED <<config, count, expired, runExpired, at, wire, answer, ledger>>

Expire ==
    /\ at # "done" /\ ~expired /\ expired' = TRUE
    /\ UNCHANGED <<run, config, count, cause, runExpired, at, wire, answer, ledger>>

RunExpires ==
    /\ at # "done" /\ ~runExpired /\ runExpired' = TRUE
    /\ UNCHANGED <<run, config, count, cause, expired, at, wire, answer, ledger>>

\* Date.now() >= context.deadlineAt
Late == expired \/ runExpired

-----------------------------------------------------------------------------
(* Rows of the ledger.                                                     *)

Row(outcome, reason, match) ==
    [outcome |-> outcome, reason |-> reason, start |-> start,
     attempts |-> count - start, status |-> status, match |-> match]

\* A step that is not reached.
Skipped == [outcome |-> "not_attempted", reason |-> "not_reached", start |-> count,
            attempts |-> 0, status |-> "none", match |-> "unavailable"]

Control == IF Len(steps) = 0 THEN "before" ELSE "after"

\* Variant: what failed goes before why it was stopped.
Reason_ErrorFirst(kind) == kind

\* firstFailure: the cause of an abort and the deadline go before the error.
Reason(kind) == IF cause # "none" THEN cause ELSE IF expired THEN "deadline" ELSE kind

\* Variant: an identity step that sent nothing counts as inconclusive.
IdentityAfter_Unsent(reason) ==
    IF reason = "identity_mismatch" THEN "mismatched" ELSE "inconclusive"

IdentityAfter(reason) ==
    IF count = start THEN "not_attempted"
    ELSE IF reason = "identity_mismatch" THEN "mismatched" ELSE "inconclusive"

\* The catch clause: the first failure of the run.  The rest of the plan is
\* then not reached, all in one turn.
Fail(kind) ==
    /\ failure' = Reason(kind)
    /\ identity' = IF Phase = "identity"
                   THEN [identity EXCEPT ![Control] = IdentityAfter(failure')] ELSE identity
    /\ steps' = Append(steps, Row("inconclusive", failure', "unavailable"))
                \o [i \in 1..(Len(Plan) - Len(steps) - 1) |-> Skipped]
    /\ at' = "done"
    /\ UNCHANGED <<config, count, clock, wire, answer>>

-----------------------------------------------------------------------------
(* One step: fetchResource or postJsonResource.                            *)

\* The cumulative body budget is spent, or (GET) the deadline has passed.
NotStarted ==
    /\ at = "step"
    /\ \/ full /\ Fail("body_budget")
       \/ ~full /\ ~Posts /\ (cause # "none" \/ Late) /\ Fail("deadline")
    /\ UNCHANGED run

Start ==
    /\ at = "step" /\ ~full
    /\ Posts \/ ~(cause # "none" \/ Late)
    /\ at' = "resolve"
    /\ UNCHANGED <<run, config, count, clock, wire, answer, ledger>>

Resolve ==
    /\ at = "resolve" /\ cause = "none"
    /\ at' = "pin"
    /\ UNCHANGED <<run, config, count, clock, wire, answer, ledger>>

\* The lookup fails, is aborted, or names an address that is not allowed.
NotResolved ==
    /\ at = "resolve"
    /\ \E kind \in {"network_policy", "transport_error"} : Fail(kind)
    /\ UNCHANGED run

\* Variant: one request too many.
Exhausted_OffByOne == count > maxRequests

Exhausted == count >= maxRequests

\* requestPinned, before the wait: the deadline or the local budget.
Barred ==
    /\ at = "pin"
    /\ IF cause # "none" \/ Late THEN Fail("deadline")
       ELSE Exhausted /\ Fail("request_budget")
    /\ UNCHANGED run

Ask ==
    /\ at = "pin" /\ cause = "none" /\ ~Late /\ ~Exhausted
    /\ Budget!Ask(count + 1)
    /\ at' = "reserve"
    /\ UNCHANGED <<config, count, clock, wire, answer, ledger>>

Spent == Cardinality(Budget!Charged) >= RunBudget

\* reserve rejects.
Deny ==
    /\ at = "reserve"
    /\ Budget!Refuse(count + 1)
    /\ IF cause # "none" \/ runExpired THEN Fail("deadline") ELSE Spent /\ Fail("request_budget")

Grant ==
    /\ at = "reserve" /\ cause = "none" /\ ~runExpired
    /\ Budget!Grant(count + 1)
    /\ at' = "permitted"
    /\ UNCHANGED <<config, count, clock, wire, answer, ledger>>

\* The check after the wait.
Withheld == cause # "none" \/ Late

\* Variant: the permit is not given back.
GivenBack_Not == UNCHANGED run

GivenBack == Release

GiveBack ==
    /\ at = "permitted" /\ Withheld
    /\ GivenBack
    /\ Fail("deadline")

Send ==
    /\ at = "permitted" /\ ~Withheld
    /\ count' = count + 1
    /\ at' = "wire"
    /\ UNCHANGED <<run, config, clock, wire, answer, ledger>>

\* GET only: another address is left.
Another == ~Posts /\ address < Addresses /\ failovers < FailoverBound

\* The connection fails; requestWithAddresses goes on with the next address.
Failover ==
    /\ at = "wire" /\ cause = "none" /\ Another
    /\ Release
    /\ at' = "pin" /\ address' = address + 1 /\ failovers' = failovers + 1
    /\ UNCHANGED <<config, count, clock, start, answer, ledger>>

\* It fails for good, on the last address, by the wrong peer, an untrusted
\* certificate or a redirect, by the signal, or at its own timer, which may
\* fire before the clock reaches the deadline.
Lose ==
    /\ at = "wire"
    /\ Release
    /\ \/ (Posts \/ address = Addresses) /\ Fail("transport_error")
       \/ Fail("network_policy")
       \/ Fail("deadline")

\* A response to read.
Respond ==
    /\ at = "wire" /\ cause = "none"
    /\ at' = "body"
    /\ UNCHANGED <<run, config, count, clock, wire, answer, ledger>>

\* readResponseBody: a limit, a read error, a bad encoding, or the signal.
BodyFails ==
    /\ at = "body"
    /\ Release
    /\ Fail("body_budget")

\* The body is whole, though the signal may have been aborted meanwhile.
BodyEnds ==
    /\ at = "body"
    /\ Release
    /\ status' \in {"ok", "bad", "odd"}
    /\ full' \in {full, TRUE}
    /\ at' = "judge"
    /\ UNCHANGED <<config, count, clock, wire, ledger>>

-----------------------------------------------------------------------------
(* The answer is judged.                                                   *)

\* The status, the content type, the JSON or the value's type is wrong.
Invalid ==
    /\ at = "judge"
    /\ Fail("response_invalid")
    /\ UNCHANGED run

\* The run has been stopped while the body was read.
Stopped == cause # "none" \/ expired

Interrupted ==
    /\ at = "judge" /\ status = "ok" /\ Stopped
    /\ Fail("deadline")
    /\ UNCHANGED run

Judge(value) ==
    /\ at = "judge" /\ status = "ok" /\ ~Stopped
    /\ UNCHANGED run
    /\ CASE Phase = "identity" /\ value # "expected" -> Fail("identity_mismatch")
         [] profile = "json" /\ Len(steps) + 1 \in Controls
            /\ value # (IF Phase = "alternate" THEN "expected" ELSE "baseline")
              -> Fail("benign_control_mismatch")
         [] OTHER ->
              /\ steps' = Append(steps, Row("evaluated", "evaluated",
                                            CASE Phase = "identity" -> "unavailable"
                                              [] Phase = "alternate" -> "alternate"
                                              [] OTHER -> value))
              /\ at' = IF Len(steps') = Len(Plan) THEN "done" ELSE "step"
              /\ start' = count /\ status' = "none" /\ address' = 1
              /\ identity' = IF Phase = "identity" THEN [identity EXCEPT ![Control] = "matched"] ELSE identity
              /\ UNCHANGED <<config, count, clock, failovers, full, failure>>

-----------------------------------------------------------------------------
(* The outcome.                                                            *)

Evaluated(S) == \A i \in S : steps[i].outcome = "evaluated"
Match(i)     == steps[i].match

\* The probes answered as true and false should, or all alike.
Differ == \A i \in Probes : Match(i) = IF Plan[i] = "false" THEN "false" ELSE "baseline"
Agree  == \A i, j \in Probes : Match(i) = Match(j) /\ Match(i) \in {"baseline", "false"}

\* The outcome of the unauthenticated profile, from the values: the first and
\* second answers to each probe are compared, then true with false.
ValueOutcome ==
    LET true  == {Match(i) : i \in {j \in Probes : Plan[j] = "true"}}
        false == {Match(i) : i \in {j \in Probes : Plan[j] = "false"}}
        stable == \A i \in Controls : Match(i) = "baseline"
    IN IF failure # "none" \/ ~stable THEN "inconclusive"
       ELSE CASE true = {"baseline"} /\ false = {"false"} -> "observed"
              [] true = false /\ true \in {{"baseline"}, {"false"}} -> "not_observed"
              [] OTHER -> "inconclusive"

\* dastProbeOutcome and dastJsonProbeOutcome, from the rows.
ProbeOutcome ==
    IF ~Evaluated(Sql) \/ \E i \in Controls : Match(i) # Usual(i) THEN "inconclusive"
    ELSE CASE Differ -> "observed"
           [] Agree  -> "not_observed"
           [] OTHER  -> "inconclusive"

Outcome ==
    IF profile = "plain" THEN ValueOutcome
    ELSE IF identity["before"] = "matched" /\ identity["after"] = "matched" THEN ProbeOutcome
    ELSE "inconclusive"

Status == IF Outcome = "inconclusive" THEN "partial" ELSE "complete"

StopReason ==
    IF failure # "none" THEN failure ELSE IF Status = "complete" THEN "none" ELSE "oracle_inconsistent"

\* The attempts of the first k rows.
Total[k \in 0..Len(steps)] == IF k = 0 THEN 0 ELSE Total[k - 1] + steps[k].attempts

\* counts.httpAttempts: the sum of the rows, or the budget's own count.
HttpAttempts == IF profile = "plain" THEN Total[Len(steps)] ELSE count

-----------------------------------------------------------------------------
(* sanitizeDastExecution: what a reader accepts.                           *)

\* The reader's own count when it comes to row i.
Before(i) == Total[i - 1]

Reachable(i) == \A j \in 1..(i - 1) : steps[j].outcome = "evaluated"

Allowed(i) ==
    Failures \ ((IF Plan[i] = "identity" THEN {} ELSE {"identity_mismatch"})
                \cup (IF profile = "json" /\ i \in Controls THEN {} ELSE {"benign_control_mismatch"}))

SaneRow(i) ==
    LET row == steps[i] IN
    /\ row.start = Before(i) /\ row.start + row.attempts <= maxRequests
    /\ row.attempts <= IF profile = "json" /\ i \in Sql THEN 1 ELSE 32
    /\ row.status # "odd"
    /\ CASE row.outcome = "evaluated" ->
              /\ Reachable(i) /\ row.attempts >= 1 /\ row.status = "ok"
              /\ (row.match = "unavailable") = (Plan[i] = "identity")
              /\ profile = "json" => (i \in Controls => row.match = Usual(i))
         [] row.outcome = "inconclusive" ->
              /\ Reachable(i) /\ row.reason \in Allowed(i) /\ row.match = "unavailable"
              /\ row.reason \in {"identity_mismatch", "benign_control_mismatch"}
                   => row.attempts >= 1 /\ row.status = "ok"
         [] row.outcome = "not_attempted" ->
              /\ ~Reachable(i) /\ row.reason = "not_reached"
              /\ row.attempts = 0 /\ row.status = "none" /\ row.match = "unavailable"

\* The identity control a row stands for.
IdentityOf(row) ==
    CASE row.outcome = "evaluated" -> "matched"
      [] row.outcome = "not_attempted" \/ row.attempts = 0 -> "not_attempted"
      [] OTHER -> IF row.reason = "identity_mismatch" THEN "mismatched" ELSE "inconclusive"

FirstIncomplete == {i \in Ordinals : steps[i].outcome = "inconclusive"}

\* sanitizeFixed and sanitizeJsonPost derive every conclusion again.
SaneDerived ==
    LET sane == IF profile # "plain" => /\ IdentityOf(steps[1]) = "matched"
                                        /\ IdentityOf(steps[Len(Plan)]) = "matched"
                THEN ProbeOutcome ELSE "inconclusive"
    IN /\ profile # "plain" => /\ identity["before"] = IdentityOf(steps[1])
                               /\ identity["after"] = IdentityOf(steps[Len(Plan)])
       /\ Outcome = sane
       /\ IF FirstIncomplete = {}
          THEN StopReason = IF sane = "inconclusive" THEN "oracle_inconsistent" ELSE "none"
          ELSE \A i \in FirstIncomplete : StopReason = steps[i].reason

\* sanitizeV1 holds the claimed conclusions against the rows.
SaneV1 ==
    /\ Status = "complete" => Evaluated(Ordinals) /\ StopReason = "none"
    /\ Status = "partial" => StopReason # "none"
    /\ Outcome = "observed" => Differ /\ \A i \in Controls : Match(i) = "baseline"
    /\ Outcome = "not_observed" => Agree /\ \A i \in Controls : Match(i) = "baseline"
    /\ \A i \in FirstIncomplete : StopReason = steps[i].reason
    /\ FirstIncomplete = {} => Evaluated(Ordinals) /\ (Status = "partial" => StopReason = "oracle_inconsistent")

Sane ==
    /\ \A i \in Ordinals : SaneRow(i)
    /\ HttpAttempts = Before(Len(Plan) + 1)
    /\ SaneDerived /\ (profile = "plain" => SaneV1)

-----------------------------------------------------------------------------
Values == UNION {Answers[p] : p \in AllPhases}

Step ==
    \/ NotStarted \/ Start \/ Resolve \/ NotResolved
    \/ Barred \/ Ask \/ Deny \/ Grant \/ GiveBack \/ Send
    \/ Failover \/ Lose \/ Respond \/ BodyFails \/ BodyEnds
    \/ Invalid \/ Interrupted
    \/ \E v \in Values : at = "judge" /\ v \in Answers[Phase] /\ Judge(v)

Next ==
    \/ Step
    \/ \E why \in {"cancelled", "deadline"} : Abort(why)
    \/ StopRun \/ Expire \/ RunExpires

Spec == Init /\ [][Next]_vars

\* Every await settles: the lookup, the wait for a permit, the connection and
\* the body are each ended by the signal or a timer of their own.
FairSpec == Spec /\ WF_vars(Step)
-----------------------------------------------------------------------------
(* Safety.                                                                 *)

\* Whatever fails, wherever a signal or the deadline cuts the run, the ledger
\* it ends with is one its own sanitizer accepts, in each format, so that no
\* run loses its evidence as "failed its internal validation"; only a server
\* that answers outside 100..599 can cause that.
LedgerIsValid ==
    at = "done" /\ ~Sane => \E i \in Ordinals : steps[i].status = "odd"

\* What the ledger counts is what the run was charged for, across the wait
\* for each permit: they differ by the one permit given back by a run that
\* stopped meanwhile.  No permit outlives its step, and every attempt on the
\* wire of a run nobody stopped holds its own.
ChargesReconcile ==
    LET charged == Cardinality(Budget!Charged) IN
    /\ charged - count \in {0, 1}
    /\ failure \notin {"cancelled", "deadline"} /\ at # "permitted" => charged = count
    /\ at \in {"step", "pin", "judge", "done"} => \A r \in Own : permit[r] # "granted"
    /\ at \in {"wire", "body"} /\ cause = "none" => permit[count] = "granted"

\* A run that was cancelled, stopped or out of time before its last row.
WasCut == cause # "none" \/ expired

\* A run that was cut names the cut as its stop reason, whatever failed after it
\* and however many answers it had, and concludes nothing from them: not even
\* when the cut falls between the last answer and its judgement.
CutIsReported ==
    at = "done" /\ WasCut =>
        /\ StopReason = IF cause # "none" THEN cause ELSE "deadline"
        /\ Outcome = "inconclusive"

(* Liveness.                                                               *)

\* From any place of any plan a cut ends the run, and is what it reports.
CutConcludes == WasCut ~> (at = "done" /\ CutIsReported)
=============================================================================

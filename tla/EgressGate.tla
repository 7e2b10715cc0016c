----------------------------- MODULE EgressGate -----------------------------
(***************************************************************************)
(* The loopback proxy every request of an engine crosses: startEgressGate  *)
(* of src/src/dast-egress.ts, as a plan run uses it, with an admission     *)
(* queue.  (CONNECT is always refused then, and has no action here.)       *)
(*                                                                         *)
(* A call is one request of the engine.  It is checked when it arrives,    *)
(* waits for a permit, is checked again and forwarded; its answer streams  *)
(* back under byte limits.  Its two ends, the engine's response (`down`)   *)
(* and the request to the target (`up`), close by themselves, in any       *)
(* order, and several handlers want to settle its permit.                  *)
(*                                                                         *)
(* The admission queue is AdmissionBudget, which RunAdmission implements;  *)
(* other tasks of the run draw on the same budget.  destroy() only asks    *)
(* for the end of a stream: its "close" handlers are steps of their own.   *)
(* An "error" of the target's stream and its "close" are one step, since   *)
(* Node emits them in one turn.                                            *)
(***************************************************************************)
EXTENDS Naturals, FiniteSets

CONSTANTS
    Calls,          \* requests the engine may make
    Controls,       \* those the controller itself makes (authentication)
    Others,         \* reservations of the run's other tasks
    RunBudget,      \* the admission queue's maxRequests
    MaxRequests,    \* policy.maxRequests
    GeneratedMax,   \* policy.authentication.generatedMaxRequests
    MaxSingle,      \* policy.maxSingleBodyBytes
    MaxTotal,       \* policy.maxTotalBytes
    ChunkSizes,     \* sizes of the chunks of an answer
    ChunkBound,     \* bound: bytes the target sends to one call
    Authenticated   \* policy.authentication is given

ASSUME CallsAssumption  == IsFiniteSet(Calls) /\ Controls \subseteq Calls
ASSUME OthersAssumption == IsFiniteSet(Others) /\ Others \cap Calls = {}
ASSUME LimitAssumption  == /\ RunBudget \in Nat /\ MaxRequests \in Nat /\ GeneratedMax \in Nat
                           /\ MaxSingle \in Nat /\ MaxTotal \in Nat
ASSUME ChunkAssumption  == ChunkSizes \subseteq Nat \ {0} /\ ChunkBound \in Nat
ASSUME ModeAssumption   == Authenticated \in BOOLEAN /\ (Controls # {} => Authenticated)

VARIABLES
    \* the run
    permit,           \* permit[r]: how far reservation r has come
    runStopped,       \* runtime.signal.aborted
    \* the gate
    aborted,          \* policy.signal.aborted
    expired,          \* Date.now() >= policy.deadlineAt
    closing,
    closed,           \* close(): not called, called, or its promise resolved
    awaited,          \* the outgoing requests close() waits for
    stopped,          \* stopReason()
    generating,
    transportStopped, \* authenticatedTransportStopped
    forwarded, errors, rejected, bytes,  \* counters
    \* the calls
    stage,            \* where onRequest stands with each call
    down,             \* the response to the engine
    up,               \* the request to the target
    single,           \* bytes of its answer so far
    observed,         \* calls with an entry in `observations`
    completed,        \* calls whose answer was passed on whole
    answered,         \* calls whose permit was settled as 'response'
    broken            \* history: calls the engine itself broke off, waiting or forwarded

run      == <<permit, runStopped>>
signals  == <<aborted, closing, closed, awaited>>
modes    == <<expired, generating>>
ends     == <<down, up>>
counters == <<forwarded, errors, rejected, bytes>>
results  == <<observed, completed, answered, single, broken>>
vars     == <<run, signals, modes, stopped, transportStopped, counters, stage, ends, results>>

Budget == INSTANCE AdmissionBudget
            WITH Requests <- Calls \cup Others, Limit <- RunBudget,
                 phase <- permit, stopped <- runStopped

Stages  == {"absent", "waiting", "permitted", "sent", "body", "ended", "refused"}
Reasons == {"none", "request_limit", "body_limit", "peer_mismatch"}

\* Types of the gate's state.
TypeOK ==
    /\ permit \in [Calls \cup Others -> Budget!Phases] /\ runStopped \in BOOLEAN
    /\ aborted \in BOOLEAN /\ closing \in BOOLEAN /\ expired \in BOOLEAN
    /\ closed \in {"no", "called", "resolved"} /\ awaited \subseteq Calls
    /\ generating \in BOOLEAN /\ transportStopped \in BOOLEAN
    /\ stopped \in Reasons
    /\ forwarded \in Nat /\ errors \in Nat /\ rejected \in Nat /\ bytes \in Nat
    /\ stage \in [Calls -> Stages]
    /\ down \in [Calls -> {"open", "destroyed", "closed"}]
    /\ up \in [Calls -> {"none", "open", "destroyed", "closed"}]
    /\ single \in [Calls -> Nat]
    /\ observed \subseteq Calls \ Controls /\ completed \subseteq Calls
    /\ answered \subseteq Calls /\ broken \subseteq Calls

\* The signals may be aborted before the gate starts; it is then not closing.
Init ==
    /\ Budget!Init
    /\ aborted \in BOOLEAN /\ (runStopped => aborted)
    /\ closing = FALSE /\ closed = "no" /\ awaited = {}
    /\ expired = FALSE /\ generating = FALSE
    /\ stopped = "none" /\ transportStopped = FALSE
    /\ forwarded = 0 /\ errors = 0 /\ rejected = 0 /\ bytes = 0
    /\ stage = [c \in Calls |-> "absent"]
    /\ down = [c \in Calls |-> "open"] /\ up = [c \in Calls |-> "none"]
    /\ single = [c \in Calls |-> 0]
    /\ observed = {} /\ completed = {} /\ answered = {} /\ broken = {}

-----------------------------------------------------------------------------
(* What several handlers do.                                               *)

Goto(c, s) == stage' = [stage EXCEPT ![c] = s]

\* No permit has just been given: a call that has one is looked at again in
\* the same turn, before any other event.
Idle == \A c \in Calls : stage[c] # "permitted"

\* The first reason stays.
Stop(reason) == stopped' = IF stopped = "none" THEN reason ELSE stopped

\* permit.finish(...) for the calls of S: those already settled stay.
Release(S) ==
    LET held == {c \in S : permit[c] = "granted"} IN
    IF held = {} THEN UNCHANGED run ELSE Budget!Settle(held)

\* Variant: a request that still waits for its headers is not destroyed.
Destroyed_Started(end, S) ==
    [c \in Calls |-> IF c \in S /\ end[c] = "open" /\ stage[c] # "sent" THEN "destroyed" ELSE end[c]]

\* destroy(): an end that is still open will close.
Destroyed(end, S) == [c \in Calls |-> IF c \in S /\ end[c] = "open" THEN "destroyed" ELSE end[c]]

\* Variant: controls are observed as generated calls.
Generated_All(c) == Authenticated

Generated(c) == Authenticated /\ c \notin Controls

\* The caps on what may be forwarded.
Capped(c) ==
    \/ forwarded >= MaxRequests
    \/ Generated(c) /\ Cardinality(observed) >= GeneratedMax

-----------------------------------------------------------------------------
(* A call arrives and asks for its permit.                                 *)

\* With authentication, controls and generated calls exclude each other.
InTurn(c) == Authenticated => (c \in Controls <=> ~generating)

\* Credentials, origin, path or method are refused; a call out of turn always.
Reject(c) ==
    /\ Idle
    /\ stage[c] = "absent"
    /\ Goto(c, "refused")
    /\ UNCHANGED <<run, signals, modes, stopped, transportStopped, counters, ends, results>>

\* The check before the wait.
Barred(c) ==
    \/ closing \/ stopped # "none" \/ aborted
    \/ Authenticated /\ (transportStopped \/ expired)
    \/ Capped(c)

Bar(c) ==
    /\ Idle
    /\ stage[c] = "absent" /\ InTurn(c) /\ Barred(c)
    /\ Goto(c, "refused")
    /\ IF Capped(c) THEN Stop("request_limit") ELSE UNCHANGED stopped
    /\ UNCHANGED <<run, signals, modes, transportStopped, counters, ends, results>>

\* runtime.reserve(...)
Ask(c) ==
    /\ Idle
    /\ stage[c] = "absent" /\ InTurn(c) /\ ~Barred(c)
    /\ Budget!Ask(c)
    /\ Goto(c, "waiting")
    /\ UNCHANGED <<signals, modes, stopped, transportStopped, counters, ends, results>>

\* The signal given to reserve: policy.signal, or the engine's end has closed.
Cancelled(c) == aborted \/ down[c] = "closed"

\* The permit comes; the call's continuation runs in the same turn.
Grant(c) ==
    /\ Idle
    /\ stage[c] = "waiting" /\ ~Cancelled(c)
    /\ Budget!Grant(c)
    /\ Goto(c, "permitted")
    /\ UNCHANGED <<signals, modes, stopped, transportStopped, counters, ends, results>>

Spent == Cardinality(Budget!Charged) >= RunBudget

\* Variant: whatever reserve throws only refuses the call.
Denial_Silent(c) == (Cancelled(c) \/ expired \/ Spent) /\ UNCHANGED stopped

\* reserve rejects: 'timeout' by a signal or the deadline, or 'request_limit',
\* which stops the gate.
Denial(c) ==
    \/ (Cancelled(c) \/ expired) /\ UNCHANGED stopped
    \/ ~Cancelled(c) /\ Spent /\ Stop("request_limit")

Deny(c) ==
    /\ Idle
    /\ stage[c] = "waiting"
    /\ Budget!Refuse(c)
    /\ Denial(c)
    /\ Goto(c, "refused")
    /\ UNCHANGED <<signals, modes, transportStopped, counters, ends, results>>

\* Variant: the local caps are not looked at again.
Withheld_NoCaps(c) ==
    \/ down[c] # "open" \/ closing \/ stopped # "none" \/ aborted \/ expired

\* The check after the wait.
Withheld(c) ==
    \/ down[c] # "open" \/ closing \/ stopped # "none" \/ aborted \/ expired
    \/ Capped(c)

\* Variant: a cap that was met during the wait only refuses the call.
Overtaken_Silent == UNCHANGED stopped

\* The cap met during the wait stops the gate; the generated one does not here.
Overtaken == IF forwarded >= MaxRequests THEN Stop("request_limit") ELSE UNCHANGED stopped

\* The permit is given back unused.
GiveBack(c) ==
    /\ stage[c] = "permitted" /\ Withheld(c)
    /\ Release({c})
    /\ Overtaken
    /\ Goto(c, "refused")
    /\ UNCHANGED <<signals, modes, transportStopped, counters, ends, results>>

\* The call goes to the target.
Forward(c) ==
    /\ stage[c] = "permitted" /\ ~Withheld(c)
    /\ forwarded' = forwarded + 1
    /\ observed' = IF Generated(c) THEN observed \cup {c} ELSE observed
    /\ up' = [up EXCEPT ![c] = "open"]
    /\ Goto(c, "sent")
    /\ UNCHANGED <<run, signals, modes, stopped, transportStopped, errors, rejected, bytes,
                   down, completed, answered, single, broken>>

-----------------------------------------------------------------------------
(* The answer.                                                             *)

\* The headers arrive and are accepted.
Headers(c) ==
    /\ Idle
    /\ stage[c] = "sent" /\ up[c] = "open"
    /\ Goto(c, "body")
    /\ UNCHANGED <<run, signals, modes, stopped, transportStopped, counters, ends, results>>

\* ... come from another peer ...
WrongPeer(c) ==
    /\ Idle
    /\ stage[c] = "sent" /\ up[c] = "open"
    /\ errors' = errors + 1
    /\ Stop("peer_mismatch")
    /\ up' = Destroyed(up, {c}) /\ down' = Destroyed(down, {c})
    /\ Goto(c, "ended")
    /\ UNCHANGED <<run, signals, modes, transportStopped, forwarded, rejected, bytes, results>>

\* ... name an encoding: the engine gets a 502 ...
Encoded(c) ==
    /\ Idle
    /\ stage[c] = "sent" /\ up[c] = "open"
    /\ rejected' = rejected + 1
    /\ up' = Destroyed(up, {c})
    /\ Goto(c, "ended")
    /\ UNCHANGED <<run, signals, modes, stopped, transportStopped, forwarded, errors, bytes, down, results>>

\* ... or declare too long a body.
DeclaredTooLong(c) ==
    /\ Idle
    /\ stage[c] = "sent" /\ up[c] = "open"
    /\ Stop("body_limit")
    /\ up' = Destroyed(up, {c}) /\ down' = Destroyed(down, {c})
    /\ Goto(c, "ended")
    /\ UNCHANGED <<run, signals, modes, transportStopped, counters, results>>

\* countBytes
Overrun(size, total) == size > MaxSingle \/ total > MaxTotal

\* A chunk of the body, counted; beyond a limit both ends are destroyed,
\* and a stream the gate itself destroys reports no error.
Chunk(c, n) ==
    LET over == Overrun(single[c] + n, bytes + n) IN
    /\ Idle
    /\ stage[c] = "body" /\ up[c] = "open" /\ single[c] + n <= ChunkBound
    /\ single' = [single EXCEPT ![c] = @ + n]
    /\ bytes' = bytes + n
    /\ IF over
       THEN /\ Stop("body_limit") /\ Goto(c, "ended")
            /\ up' = Destroyed(up, {c}) /\ down' = Destroyed(down, {c})
       ELSE UNCHANGED <<stopped, stage, ends>>
    /\ UNCHANGED <<run, signals, modes, transportStopped, forwarded, errors, rejected,
                   observed, completed, answered, broken>>

\* The body ends: the permit is settled as answered and the answer passed on.
End(c) ==
    /\ Idle
    /\ stage[c] = "body" /\ up[c] = "open" /\ down[c] = "open"
    /\ answered' = IF permit[c] = "granted" THEN answered \cup {c} ELSE answered
    /\ Release({c})
    /\ completed' = completed \cup {c}
    /\ Goto(c, "ended")
    /\ UNCHANGED <<signals, modes, stopped, transportStopped, counters, ends, observed, single, broken>>

-----------------------------------------------------------------------------
(* The ends of a call.                                                     *)

Underway(c) == stage[c] \in {"sent", "body"}

\* Variant: an error is counted for each handler that sees one.
Counts_Always(c) == TRUE

\* `!failed && !closing && !response.destroyed`
Counts(c) == ~closing /\ down[c] = "open"

\* The target's stream ends before the answer is whole: fail().
Lose(c) ==
    /\ Idle
    /\ Underway(c) /\ up[c] \in {"open", "destroyed"}
    /\ Release({c})
    /\ transportStopped' = (transportStopped \/ (Authenticated /\ ~closing))
    /\ errors' = IF Counts(c) THEN errors + 1 ELSE errors
    /\ down' = Destroyed(down, {c})
    /\ up' = [up EXCEPT ![c] = "closed"]
    /\ Goto(c, "ended")
    /\ UNCHANGED <<signals, modes, stopped, forwarded, rejected, bytes, results>>

\* Variant: the close handler leaves the permit to the others.
UpSettles_Not(c) == UNCHANGED run

UpSettles(c) == Release({c})

\* It closes after the gate is done with it.
UpCloses(c) ==
    /\ Idle
    /\ stage[c] = "ended" /\ up[c] \in {"open", "destroyed"}
    /\ UpSettles(c)
    /\ up' = [up EXCEPT ![c] = "closed"]
    /\ UNCHANGED <<signals, modes, stopped, transportStopped, counters, stage, down, results>>

\* The engine's end closes: finished, broken off by the engine, or destroyed.
\* The reservation's signal aborts and the outgoing request is destroyed.
DownCloses(c) ==
    /\ Idle
    /\ stage[c] \notin {"absent", "permitted"} /\ down[c] # "closed"
    /\ broken' = IF (stage[c] = "waiting" \/ Underway(c)) /\ down[c] = "open"
                 THEN broken \cup {c} ELSE broken
    /\ Release({c})
    /\ down' = [down EXCEPT ![c] = "closed"]
    /\ up' = Destroyed(up, {c})
    /\ UNCHANGED <<signals, modes, stopped, transportStopped, counters, stage,
                   observed, completed, answered, single>>

\* The outgoing request times out, or reading the engine's request fails.
Interrupt(c) ==
    /\ Idle
    /\ Underway(c) /\ up[c] = "open"
    /\ up' = Destroyed(up, {c})
    /\ UNCHANGED <<run, signals, modes, stopped, transportStopped, counters, stage, down, results>>

\* The engine sends more than EGRESS_MAX_REQUEST_BODY_BYTES; authenticated
\* calls have no body.
SendsTooMuch(c) ==
    /\ Idle
    /\ Underway(c) /\ up[c] = "open" /\ ~Authenticated
    /\ up' = Destroyed(up, {c}) /\ down' = Destroyed(down, {c})
    /\ broken' = broken \cup {c}
    /\ UNCHANGED <<run, signals, modes, stopped, transportStopped, counters, stage,
                   observed, completed, answered, single>>

-----------------------------------------------------------------------------
(* Signals and the gate's own operations.                                  *)

\* Variant: only the sockets are destroyed.
Shut_Sockets == {}

Shut == Calls

\* closeAll: from a signal or from close().  The sockets close by themselves.
CloseAll ==
    /\ closing' = TRUE /\ aborted' = TRUE
    /\ up' = Destroyed(up, Shut)

\* The caller's signal: aborts the calls' reservations as well.
Abort ==
    /\ Idle
    /\ ~aborted
    /\ CloseAll
    /\ Release(Calls)
    /\ UNCHANGED <<closed, awaited, modes, stopped, transportStopped, counters, stage, down, results>>

\* The run is closed; its signal is part of the gate's.
StopRun ==
    /\ Idle
    /\ Budget!Stop
    /\ IF aborted THEN UNCHANGED <<aborted, closing, up>> ELSE CloseAll
    /\ UNCHANGED <<closed, awaited, modes, stopped, transportStopped, counters, stage, down, results>>

Live(c) == up[c] \in {"open", "destroyed"}

\* Variant: only the server is waited for.
Noted_None == {}

\* [...upstreams.values()]
Noted == {c \in Calls : Live(c)}

\* close(): takes note of what is open, and closes it.
Close ==
    /\ Idle
    /\ closed = "no"
    /\ closed' = "called"
    /\ awaited' = Noted
    /\ CloseAll
    /\ Release(Calls)
    /\ UNCHANGED <<modes, stopped, transportStopped, counters, stage, down, results>>

\* Its promise resolves: the requests it noted and every connection are gone.
CloseResolves ==
    /\ Idle
    /\ closed = "called"
    /\ \A c \in awaited : ~Live(c)
    /\ \A c \in Calls : stage[c] = "absent" \/ down[c] = "closed"
    /\ closed' = "resolved"
    /\ UNCHANGED <<run, aborted, closing, awaited, modes, stopped, transportStopped, counters, stage, ends, results>>

Expire ==
    /\ Idle
    /\ ~expired /\ expired' = TRUE
    /\ UNCHANGED <<run, signals, generating, stopped, transportStopped, counters, stage, ends, results>>

\* beginGeneration, finishGeneration
Generate ==
    /\ Idle
    /\ Authenticated
    /\ generating' = ~generating
    /\ UNCHANGED <<run, signals, expired, stopped, transportStopped, counters, stage, ends, results>>

\* Another task of the run moves one of its reservations.
OtherTask(r) ==
    /\ Idle
    /\ Budget!Ask(r) \/ Budget!Grant(r) \/ Budget!Refuse(r) \/ Budget!Settle({r})
    /\ UNCHANGED <<signals, modes, stopped, transportStopped, counters, stage, ends, results>>

-----------------------------------------------------------------------------
Continue(c) == GiveBack(c) \/ Forward(c)

Call(c) ==
    \/ Continue(c)
    \/ Reject(c) \/ Bar(c) \/ Ask(c) \/ Grant(c) \/ Deny(c)
    \/ Headers(c) \/ WrongPeer(c) \/ Encoded(c) \/ DeclaredTooLong(c)
    \/ (\E n \in ChunkSizes : Chunk(c, n)) \/ End(c)
    \/ Lose(c) \/ UpCloses(c) \/ DownCloses(c) \/ Interrupt(c) \/ SendsTooMuch(c)

Next ==
    \/ \E c \in Calls : Call(c)
    \/ Abort \/ StopRun \/ Close \/ CloseResolves \/ Expire \/ Generate
    \/ \E r \in Others : OtherTask(r)

Spec == Init /\ [][Next]_vars

\* What was destroyed closes, and so does every connection of a closing server.
Fairness ==
    /\ \A c \in Calls :
         /\ WF_vars(Continue(c))
         /\ WF_vars(up[c] = "destroyed" /\ (Lose(c) \/ UpCloses(c)))
         /\ WF_vars((closing \/ down[c] = "destroyed") /\ DownCloses(c))
    /\ WF_vars(CloseResolves)

FairSpec == Spec /\ Fairness
-----------------------------------------------------------------------------
(* Safety.                                                                 *)

\* However many calls wait for permits at once, what goes to the target stays
\* within the gate's own caps, and each forwarded call is counted once.
CapsHold ==
    /\ forwarded = Cardinality({c \in Calls : up[c] # "none"})
    /\ forwarded <= MaxRequests
    /\ Authenticated => Cardinality(observed) <= GeneratedMax

\* When close() has resolved, nothing is open or will be opened, and no permit
\* of the gate is pending.
ClosedIsQuiet ==
    closed = "resolved" => \A c \in Calls : ~Live(c) /\ permit[c] # "granted"

\* The gate opens no more connections than it may, and leaves none of them open.
OpensAreBounded == CapsHold /\ ClosedIsQuiet

\* A call is charged as answered if and only if its answer was passed on whole,
\* and its permit ends with it: no abort, close or error handler settles it
\* first as another, and none leaves it pending when an end has closed.
PermitTellsTheCall ==
    /\ completed = answered
    /\ \A c \in Calls :
         up[c] = "closed" \/ stage[c] = "refused" \/ (down[c] = "closed" /\ stage[c] # "waiting")
           => permit[c] # "granted"

Lost == {c \in Calls : stage[c] = "ended"} \ (completed \cup broken)

\* While nothing has stopped the gate every call it lost is counted exactly
\* once, as an upstream error or a rejected encoding: counters of zero mean
\* that the engine had every answer it waited for.
LossIsCounted ==
    stopped = "none" /\ ~closing => errors + rejected = Cardinality(Lost)

\* What a call is charged as, to the run and to the gate's counters, is what
\* became of it.
ChargesAreTrue == PermitTellsTheCall /\ LossIsCounted

\* A call that was let in and refused after its wait is not refused in silence:
\* the gate's stop reason, from which a scan is reported as cut short, the
\* signals or the clock account for it, unless the engine broke it off itself.
\* Whichever cap is met during the wait, the gate's or the run's, tells; the
\* cap on generated calls does not, as the code has it.
RefusalsAreTold ==
    stopped = "none" /\ ~aborted /\ ~expired =>
        \A c \in Calls : stage[c] = "refused" /\ permit[c] # "new" =>
            \/ c \in broken
            \/ Generated(c) /\ Cardinality(observed) >= GeneratedMax

(* What a step may never do.                                               *)

\* What the comment in fail() says: "A lost response cannot authorize another
\* authenticated wire attempt".
LossEndsAuthentication == [][transportStopped => forwarded' = forwarded]_vars

(* Liveness.                                                               *)

\* close() resolves, whatever is under way when it is called.
CloseReturns == closed = "called" ~> closed = "resolved"
=============================================================================

-------------------------- MODULE EgressGateProofs --------------------------
(***************************************************************************)
(* Proofs about EgressGate, for any calls, caps and sizes of an answer.    *)
(*                                                                         *)
(* A call has a permit, a place in onRequest and two ends, and each        *)
(* handler moves some of them.  CallSound says how they go together; the   *)
(* promises about permits, caps and counters follow from it call by call.  *)
(***************************************************************************)
EXTENDS EgressGate, FiniteSetTheorems, TLAPS

USE CallsAssumption, OthersAssumption, LimitAssumption, ModeAssumption

All == Calls \cup Others

\* How the permit, the place and the ends of one call go together.
PermitFits(c) ==
    /\ stage[c] = "absent"    => permit[c] = "new"
    /\ stage[c] = "waiting"   => permit[c] = "asked"
    /\ stage[c] = "permitted" => permit[c] = "granted"
    /\ stage[c] = "refused"   => permit[c] # "granted"
    /\ up[c] = "closed"       => permit[c] # "granted"
    /\ down[c] = "closed"     => permit[c] # "granted"
    /\ aborted                => permit[c] # "granted"
    /\ Underway(c) /\ up[c] = "open" /\ down[c] = "open" => permit[c] = "granted"

EndsFit(c) ==
    /\ stage[c] \in {"absent", "waiting", "permitted", "refused"} <=> up[c] = "none"
    /\ Underway(c) => up[c] # "closed"
    /\ aborted => up[c] # "open"
    /\ c \in broken => down[c] # "open" /\ up[c] # "open"
    /\ Underway(c) /\ down[c] # "open" => c \in broken
    /\ stage[c] \in {"absent", "permitted"} => down[c] = "open"
    /\ stage[c] = "waiting" => down[c] = "open" \/ (down[c] = "closed" /\ c \in broken)
    /\ c \in completed => stage[c] = "ended"

\* close() has noted what is open, and nothing is opened after it.
NotedFit(c) ==
    /\ closed # "no" /\ Live(c) => c \in awaited
    /\ closed = "resolved" => ~Live(c)

CallSound(c) == PermitFits(c) /\ EndsFit(c) /\ NotedFit(c)

Signals == (closing => aborted) /\ (closed # "no" => closing)

GateInv ==
    /\ TypeOK /\ Signals
    /\ \A c \in Calls : CallSound(c)
    /\ completed = answered
    /\ CapsHold
    /\ LossIsCounted
    /\ RefusalsAreTold

-----------------------------------------------------------------------------
(* What the helpers do.                                                    *)

LEMMA CallsAre ==
    /\ IsFiniteSet(Calls) /\ \A c \in Calls : c \in All /\ c \notin Others
BY DEF All

Released(S) ==
    /\ runStopped' = runStopped
    /\ permit' \in [All -> Budget!Phases]
    /\ \A r \in All : permit'[r] = IF r \in S /\ permit[r] = "granted" THEN "settled" ELSE permit[r]

LEMMA ReleaseIs ==
    ASSUME TypeOK, NEW S \in SUBSET Calls, Release(S)
    PROVE  Released(S)
<1> DEFINE held == {c \in S : permit[c] = "granted"}
<1>1. CASE held = {}
  BY <1>1 DEF Release, Released, run, TypeOK, All
<1>2. CASE held # {}
  <2>1. /\ permit' = [r \in All |-> IF r \in held THEN "settled" ELSE permit[r]]
        /\ runStopped' = runStopped
    BY <1>2 DEF Release, Budget!Settle, All
  <2>2. QED
    BY <2>1 DEF Released, TypeOK, Budget!Phases, All
<1>3. QED
  BY <1>1, <1>2

\* One reservation moves.
LEMMA MoveIs ==
    ASSUME TypeOK, NEW r \in All, NEW from, NEW to \in Budget!Phases, Budget!Move(r, from, to)
    PROVE  /\ permit[r] = from /\ permit' \in [All -> Budget!Phases]
           /\ permit'[r] = to /\ \A q \in All : q # r => permit'[q] = permit[q]
           /\ runStopped' = runStopped
BY DEF Budget!Move, TypeOK, All

\* What a step leaves of one call, and of the gate's signals.
Kept(d) ==
    /\ permit'[d] = permit[d] /\ stage'[d] = stage[d]
    /\ down'[d] = down[d] /\ up'[d] = up[d]
    /\ d \in broken' <=> d \in broken
    /\ d \in completed' <=> d \in completed

LEMMA KeptIsSound ==
    ASSUME NEW d \in Calls, CallSound(d), Kept(d), UNCHANGED <<aborted, closed, awaited>>
    PROVE  CallSound(d)'
BY DEF CallSound, PermitFits, EndsFit, NotedFit, Kept, Underway, Live

-----------------------------------------------------------------------------
(* The steps of one call.                                                  *)

\* Types of what a call's step changes.
CallTypes ==
    /\ permit' \in [All -> Budget!Phases] /\ runStopped' \in BOOLEAN
    /\ stage' \in [Calls -> Stages]
    /\ down' \in [Calls -> {"open", "destroyed", "closed"}]
    /\ up' \in [Calls -> {"none", "open", "destroyed", "closed"}]
    /\ broken' \subseteq Calls /\ completed' \subseteq Calls

\* A call's step is about that call.
CallStep(c) == CallTypes /\ CallSound(c)' /\ \A d \in Calls : d # c => Kept(d)

LEMMA SignalsKept ==
    ASSUME NEW c \in Calls, Call(c)
    PROVE  UNCHANGED <<aborted, closing, closed, awaited, expired, generating>>
<1> USE DEF signals, modes
<1>1. CASE Continue(c) \/ Reject(c) \/ Bar(c) \/ Ask(c) \/ Grant(c) \/ Deny(c)
  BY <1>1 DEF Continue, GiveBack, Forward, Reject, Bar, Ask, Grant, Deny
<1>2. CASE Headers(c) \/ WrongPeer(c) \/ Encoded(c) \/ DeclaredTooLong(c) \/ End(c)
           \/ \E n \in ChunkSizes : Chunk(c, n)
  BY <1>2 DEF Headers, WrongPeer, Encoded, DeclaredTooLong, End, Chunk
<1>3. CASE Lose(c) \/ UpCloses(c) \/ DownCloses(c) \/ Interrupt(c) \/ SendsTooMuch(c)
  BY <1>3 DEF Lose, UpCloses, DownCloses, Interrupt, SendsTooMuch
<1>4. QED
  BY <1>1, <1>2, <1>3 DEF Call

\* Before it is forwarded.
LEMMA WaitStep ==
    ASSUME TypeOK, NEW c \in Calls, CallSound(c), Call(c),
           Reject(c) \/ Bar(c) \/ Ask(c) \/ Grant(c) \/ Deny(c) \/ GiveBack(c)
    PROVE  CallStep(c)
<1>0. c \in All /\ UNCHANGED <<aborted, closed, awaited>>
  BY CallsAre, SignalsKept
<1>1. /\ UNCHANGED <<down, up, broken, completed>>
      /\ stage' = [stage EXCEPT ![c] = stage'[c]] /\ stage' \in [Calls -> Stages]
      /\ stage'[c] \in {"waiting", "permitted", "refused"}
  BY DEF Reject, Bar, Ask, Grant, Deny, GiveBack, Goto, ends, results, TypeOK, Stages
<1>2. /\ permit' \in [All -> Budget!Phases] /\ runStopped' = runStopped
      /\ \A d \in Calls : d # c => permit'[d] = permit[d]
      /\ stage'[c] = "waiting" => permit'[c] = "asked"
      /\ stage'[c] = "permitted" => permit'[c] = "granted" /\ down[c] = "open" /\ ~aborted
      /\ stage'[c] = "refused" => permit'[c] # "granted"
      /\ stage[c] \in {"absent", "waiting", "permitted"}
  <2>1. CASE Reject(c) \/ Bar(c)
    BY <2>1, <1>0 DEF Reject, Bar, Goto, run, TypeOK, CallSound, PermitFits, All
  <2>2. CASE Ask(c)
    <3>1. Budget!Move(c, "new", "asked") /\ stage'[c] = "waiting"
      BY <2>2 DEF Ask, Budget!Ask, Goto, TypeOK
    <3>2. QED
      BY <1>0, <2>2, <3>1, MoveIs, CallsAre DEF Budget!Phases, Ask
  <2>3. CASE Grant(c)
    <3>1. Budget!Move(c, "asked", "granted") /\ stage'[c] = "permitted" /\ ~Cancelled(c)
      BY <2>3 DEF Grant, Budget!Grant, Goto, TypeOK
    <3>2. down[c] = "open"
      BY <2>3, <3>1 DEF Grant, Cancelled, CallSound, EndsFit
    <3>3. QED
      BY <1>0, <2>3, <3>1, <3>2, MoveIs, CallsAre DEF Budget!Phases, Grant, Cancelled
  <2>4. CASE Deny(c)
    <3>1. Budget!Move(c, "asked", "refused") /\ stage'[c] = "refused"
      BY <2>4 DEF Deny, Budget!Refuse, Goto, TypeOK
    <3>2. QED
      BY <1>0, <2>4, <3>1, MoveIs, CallsAre DEF Budget!Phases, Deny
  <2>5. CASE GiveBack(c)
    <3>1. Released({c}) /\ stage'[c] = "refused" /\ stage[c] = "permitted"
      BY <2>5, ReleaseIs DEF GiveBack, Goto, TypeOK
    <3>2. QED
      BY <1>0, <3>1, CallsAre DEF Released
  <2>6. QED
    BY <2>1, <2>2, <2>3, <2>4, <2>5
<1>3. CallTypes
  BY <1>1, <1>2 DEF CallTypes, TypeOK
<1>4. \A d \in Calls : d # c => Kept(d)
  BY <1>1, <1>2 DEF Kept, TypeOK
<1>5. CallSound(c)'
  BY <1>0, <1>1, <1>2 DEF CallSound, PermitFits, EndsFit, NotedFit, Underway, Live
<1>6. QED
  BY <1>3, <1>4, <1>5 DEF CallStep

\* After it.  A step moves the call's place or ends; it may settle its permit.
LEMMA WireStep ==
    ASSUME TypeOK, Signals, NEW c \in Calls, CallSound(c), Call(c),
           ~(Reject(c) \/ Bar(c) \/ Ask(c) \/ Grant(c) \/ Deny(c) \/ GiveBack(c))
    PROVE  CallStep(c)
<1> DEFINE touch(f, v) == f' = [f EXCEPT ![c] = v]
<1>0. c \in All /\ UNCHANGED <<aborted, closed, awaited>>
  BY CallsAre, SignalsKept
<1>1. /\ stage' = [stage EXCEPT ![c] = stage'[c]] /\ stage' \in [Calls -> Stages]
      /\ up' = [up EXCEPT ![c] = up'[c]]
      /\ up' \in [Calls -> {"none", "open", "destroyed", "closed"}]
      /\ down' = [down EXCEPT ![c] = down'[c]]
      /\ down' \in [Calls -> {"open", "destroyed", "closed"}]
      /\ broken \subseteq broken' /\ broken' \subseteq broken \cup {c}
      /\ completed \subseteq completed' /\ completed' \subseteq completed \cup {c}
  <2> USE DEF TypeOK, Stages, Goto, ends, results, Destroyed
  <2>1. CASE Forward(c) \/ Headers(c) \/ WrongPeer(c)
    BY <2>1 DEF Forward, Headers, WrongPeer
  <2>2. CASE Encoded(c) \/ DeclaredTooLong(c) \/ \E n \in ChunkSizes : Chunk(c, n)
    BY <2>2 DEF Encoded, DeclaredTooLong, Chunk
  <2>3. CASE End(c) \/ Lose(c) \/ UpCloses(c)
    BY <2>3 DEF End, Lose, UpCloses
  <2>4. CASE DownCloses(c) \/ Interrupt(c) \/ SendsTooMuch(c)
    BY <2>4 DEF DownCloses, Interrupt, SendsTooMuch
  <2>5. QED
    BY <2>1, <2>2, <2>3, <2>4 DEF Call, Continue
<1>2. Released({c}) \/ UNCHANGED run
  BY ReleaseIs DEF Call, Continue, Forward, Headers, WrongPeer, Encoded, DeclaredTooLong, Chunk,
     End, Lose, UpCloses, UpSettles, DownCloses, Interrupt, SendsTooMuch
<1>3. CallTypes
  BY <1>1, <1>2 DEF CallTypes, Released, TypeOK, run, All
<1>4. \A d \in Calls : d # c => Kept(d)
  BY <1>0, <1>1, <1>2, CallsAre DEF Kept, TypeOK, Released, run
<1>5. CallSound(c)'
  <2>1. \/ permit'[c] = permit[c]
        \/ permit[c] = "granted" /\ permit'[c] = "settled"
    BY <1>0, <1>2 DEF Released, run
  <2> USE DEF CallSound, PermitFits, EndsFit, NotedFit, Underway, Live, Goto, TypeOK
  <2>2. CASE Forward(c)
    BY <1>0, <2>2 DEF Forward, Withheld, Signals, run
  <2>3. CASE Headers(c)
    BY <1>0, <2>3 DEF Headers, run, ends, results
  <2>4. CASE WrongPeer(c) \/ Encoded(c) \/ DeclaredTooLong(c)
    BY <1>0, <2>4 DEF WrongPeer, Encoded, DeclaredTooLong, run, results, Destroyed
  <2>5. CASE \E n \in ChunkSizes : Chunk(c, n)
    BY <1>0, <2>5 DEF Chunk, run, ends, Destroyed
  <2>6. CASE End(c) \/ Lose(c) \/ UpCloses(c) \/ DownCloses(c)
    <3>1. Released({c})
      BY <2>6, ReleaseIs DEF End, Lose, UpCloses, UpSettles, DownCloses
    <3>2. permit'[c] # "granted"
      BY <1>0, <3>1 DEF Released
    <3>3. CASE End(c)
      BY <1>0, <2>1, <3>2, <3>3 DEF End, ends
    <3>4. CASE Lose(c)
      BY <1>0, <2>1, <3>2, <3>4 DEF Lose, results, Destroyed
    <3>5. CASE UpCloses(c)
      BY <1>0, <2>1, <3>2, <3>5 DEF UpCloses, results
    <3>6. CASE DownCloses(c)
      BY <1>0, <2>1, <3>2, <3>6 DEF DownCloses, Destroyed
    <3>7. QED
      BY <2>6, <3>3, <3>4, <3>5, <3>6
  <2>7. CASE Interrupt(c)
    BY <1>0, <2>7 DEF Interrupt, run, results, Destroyed
  <2>8. CASE SendsTooMuch(c)
    BY <1>0, <2>8 DEF SendsTooMuch, run, Destroyed
  <2>9. QED
    BY <2>2, <2>3, <2>4, <2>5, <2>6, <2>7, <2>8 DEF Call, Continue
<1>6. QED
  BY <1>3, <1>4, <1>5 DEF CallStep

LEMMA CallIsCallStep ==
    ASSUME TypeOK, Signals, NEW c \in Calls, CallSound(c), Call(c)
    PROVE  CallStep(c)
BY WaitStep, WireStep

-----------------------------------------------------------------------------
(* The steps of the gate itself and of the run.                            *)

\* Everything is aborted: no permit is pending and every request is destroyed.
Aborting ==
    /\ closing' = TRUE /\ aborted' = TRUE
    /\ UNCHANGED <<stage, down, completed, broken>>
    /\ runStopped' \in BOOLEAN /\ permit' \in [All -> Budget!Phases]
    /\ up' = Destroyed(up, Calls)
    /\ \A c \in Calls : permit'[c] = IF permit[c] = "granted" THEN "settled" ELSE permit[c]

LEMMA AbortingIsSound ==
    ASSUME TypeOK, Idle, NEW c \in Calls, CallSound(c), Aborting,
           \/ UNCHANGED <<closed, awaited>>
           \/ awaited' = Noted /\ closed' = "called"
    PROVE  CallSound(c)'
BY DEF CallSound, PermitFits, EndsFit, NotedFit, Underway, Live, Noted, Aborting, Destroyed,
       Idle, TypeOK

LEMMA StoppedIs ==
    ASSUME TypeOK, Budget!Stop
    PROVE  /\ runStopped' = TRUE /\ permit' \in [All -> Budget!Phases]
           /\ \A r \in All : permit'[r] = IF permit[r] = "granted" THEN "settled" ELSE permit[r]
<1>1. permit' = [r \in All |-> IF permit[r] = "granted" THEN "settled" ELSE permit[r]]
  BY DEF Budget!Stop, All
<1>2. \A r \in All : permit[r] \in Budget!Phases
  BY DEF TypeOK, All
<1>3. QED
  BY <1>1, <1>2 DEF Budget!Stop, Budget!Phases

\* Another task's step is none of the gate's.
LEMMA OtherIs ==
    ASSUME TypeOK, NEW r \in Others, OtherTask(r)
    PROVE  /\ runStopped' = runStopped /\ permit' \in [All -> Budget!Phases]
           /\ \A c \in Calls : permit'[c] = permit[c]
<1>0. r \in All /\ \A c \in Calls : c \in All /\ c # r
  BY CallsAre DEF All
<1>1. CASE Budget!Ask(r) \/ Budget!Grant(r) \/ Budget!Refuse(r)
  <2>1. PICK from, to \in Budget!Phases : Budget!Move(r, from, to)
    BY <1>1 DEF Budget!Ask, Budget!Grant, Budget!Refuse, Budget!Phases
  <2>2. QED
    BY <1>0, <2>1, MoveIs
<1>2. CASE Budget!Settle({r})
  <2>1. /\ permit' = [q \in All |-> IF q \in {r} THEN "settled" ELSE permit[q]]
        /\ runStopped' = runStopped
    BY <1>2 DEF Budget!Settle, All
  <2>2. QED
    BY <1>0, <2>1 DEF TypeOK, Budget!Phases, All
<1>3. QED
  BY <1>1, <1>2 DEF OtherTask

GateStep == Abort \/ StopRun \/ Close \/ CloseResolves \/ Expire \/ Generate
            \/ \E r \in Others : OtherTask(r)

LEMMA NextIs == [Next]_vars => (\E c \in Calls : Call(c)) \/ GateStep \/ UNCHANGED vars
BY DEF Next, GateStep

\* What the gate's own steps leave alone, and how its signals go together.
LEMMA GateFrame ==
    ASSUME TypeOK, Signals, GateStep
    PROVE  /\ UNCHANGED <<stage, down, results, counters, stopped, transportStopped>>
           /\ Signals' /\ closed' \in {"no", "called", "resolved"} /\ awaited' \subseteq Calls
           /\ aborted' \in BOOLEAN /\ closing' \in BOOLEAN /\ (closing => closing')
           /\ expired' \in BOOLEAN /\ generating' \in BOOLEAN
           /\ up' = up \/ up' = Destroyed(up, Calls)
<1> USE DEF TypeOK, Signals, modes, CloseAll, Shut
<1>1. CASE Abort \/ StopRun
  BY <1>1 DEF Abort, StopRun
<1>2. CASE Close \/ CloseResolves
  BY <1>2 DEF Close, CloseResolves, Noted, ends
<1>3. CASE Expire \/ Generate \/ \E r \in Others : OtherTask(r)
  <2>1. /\ UNCHANGED <<signals, stage, ends, results, counters, stopped, transportStopped>>
        /\ UNCHANGED expired \/ expired' = TRUE
        /\ UNCHANGED generating \/ generating' = ~generating
    BY <1>3 DEF Expire, Generate, OtherTask
  <2>2. generating' \in BOOLEAN
    BY <2>1
  <2>3. QED
    BY <2>1, <2>2 DEF signals, ends
<1>4. QED
  BY <1>1, <1>2, <1>3 DEF GateStep

LEMMA GateSound ==
    ASSUME TypeOK, Signals, \A c \in Calls : CallSound(c), GateStep
    PROVE  /\ permit' \in [All -> Budget!Phases] /\ runStopped' \in BOOLEAN
           /\ \A c \in Calls : CallSound(c)'
<1>0. UNCHANGED <<stage, down, completed, broken>>
  BY GateFrame DEF results
<1>1. CASE Abort \/ Close
  <2>1. Released(Calls) /\ Idle /\ CloseAll
    BY <1>1, ReleaseIs DEF Abort, Close
  <2>2. Aborting
    BY <1>0, <2>1, CallsAre DEF Aborting, Released, CloseAll, Shut, TypeOK
  <2>3. \A c \in Calls : CallSound(c)'
    BY <1>1, <2>1, <2>2, AbortingIsSound DEF Abort, Close
  <2>4. QED
    BY <2>2, <2>3 DEF Aborting
<1>2. CASE StopRun
  <2>1. /\ runStopped' = TRUE /\ permit' \in [All -> Budget!Phases] /\ Idle
        /\ \A c \in Calls : permit'[c] = IF permit[c] = "granted" THEN "settled" ELSE permit[c]
        /\ UNCHANGED <<closed, awaited>>
    BY <1>2, StoppedIs, CallsAre DEF StopRun
  <2>2. CASE aborted
    <3>1. UNCHANGED <<aborted, up>>
      BY <1>2, <2>2 DEF StopRun
    <3>2. \A c \in Calls : permit[c] # "granted"
      BY <2>2 DEF CallSound, PermitFits
    <3>3. \A c \in Calls : Kept(c)
      BY <1>0, <2>1, <3>1, <3>2 DEF Kept
    <3>4. QED
      BY <2>1, <3>1, <3>3, KeptIsSound
  <2>3. CASE ~aborted
    <3>1. Aborting
      BY <1>0, <1>2, <2>1, <2>3 DEF StopRun, Aborting, CloseAll, Shut
    <3>2. QED
      BY <2>1, <3>1, AbortingIsSound
  <2>4. QED
    BY <2>2, <2>3
<1>3. CASE CloseResolves
  <2>1. UNCHANGED <<permit, runStopped, aborted, awaited, up>> /\ closed = "called"
        /\ \A c \in awaited : ~Live(c)
    BY <1>3 DEF CloseResolves, run, ends
  <2>2. QED
    BY <1>0, <2>1 DEF CallSound, PermitFits, EndsFit, NotedFit, Underway, Live, TypeOK, All
<1>4. CASE Expire \/ Generate \/ \E r \in Others : OtherTask(r)
  <2>1. /\ UNCHANGED <<aborted, closed, awaited, up>>
        /\ permit' \in [All -> Budget!Phases] /\ runStopped' \in BOOLEAN
        /\ \A c \in Calls : permit'[c] = permit[c]
    <3>1. CASE Expire \/ Generate
      BY <3>1 DEF Expire, Generate, run, signals, ends, TypeOK, All
    <3>2. CASE \E r \in Others : OtherTask(r)
      BY <3>2, OtherIs DEF OtherTask, signals, ends, TypeOK
    <3>3. QED
      BY <1>4, <3>1, <3>2
  <2>2. \A c \in Calls : Kept(c)
    BY <1>0, <2>1 DEF Kept
  <2>3. QED
    BY <2>1, <2>2, KeptIsSound
<1>5. QED
  BY <1>1, <1>2, <1>3, <1>4 DEF GateStep

-----------------------------------------------------------------------------
(* Types, and the fit of permits and ends, over every step.                *)

LEMMA TypeStep ==
    ASSUME TypeOK, Signals, \A c \in Calls : CallSound(c), [Next]_vars
    PROVE  TypeOK' /\ Signals' /\ \A c \in Calls : CallSound(c)'
<1>1. ASSUME NEW c \in Calls, Call(c) PROVE TypeOK' /\ Signals' /\ \A d \in Calls : CallSound(d)'
  <2>1. CallStep(c)
    BY <1>1, CallIsCallStep
  <2>2. UNCHANGED <<aborted, closing, closed, awaited, expired, generating>>
    BY <1>1, SignalsKept
  <2>3. /\ forwarded' \in Nat /\ errors' \in Nat /\ rejected' \in Nat /\ bytes' \in Nat
        /\ single' \in [Calls -> Nat] /\ stopped' \in Reasons /\ transportStopped' \in BOOLEAN
        /\ observed' \subseteq Calls \ Controls /\ answered' \subseteq Calls
    <3> USE DEF TypeOK, Stop, Reasons, counters, results
    <3>1. CASE Reject(c) \/ Bar(c) \/ Ask(c) \/ Grant(c) \/ Deny(c) \/ GiveBack(c)
      BY <3>1 DEF Reject, Bar, Ask, Grant, Deny, Denial, GiveBack, Overtaken
    <3>2. CASE Forward(c)
      BY <3>2 DEF Forward, Generated
    <3>3. CASE Headers(c) \/ WrongPeer(c) \/ Encoded(c) \/ DeclaredTooLong(c)
      BY <3>3 DEF Headers, WrongPeer, Encoded, DeclaredTooLong
    <3>4. ASSUME NEW n \in ChunkSizes, Chunk(c, n)
          PROVE  /\ forwarded' \in Nat /\ errors' \in Nat /\ rejected' \in Nat /\ bytes' \in Nat
                 /\ single' \in [Calls -> Nat] /\ stopped' \in Reasons
                 /\ transportStopped' \in BOOLEAN
                 /\ observed' \subseteq Calls \ Controls /\ answered' \subseteq Calls
      BY <3>4, ChunkAssumption DEF Chunk
    <3>5. CASE Lose(c)
      <4>1. transportStopped' \in BOOLEAN
        BY <3>5 DEF Lose
      <4>2. QED
        BY <3>5, <4>1 DEF Lose
    <3>6. CASE End(c) \/ UpCloses(c) \/ DownCloses(c) \/ Interrupt(c) \/ SendsTooMuch(c)
      BY <3>6 DEF End, UpCloses, DownCloses, Interrupt, SendsTooMuch
    <3>7. QED
      BY <1>1, <3>1, <3>2, <3>3, <3>4, <3>5, <3>6 DEF Call, Continue
  <2>4. TypeOK'
    BY <2>1, <2>2, <2>3 DEF TypeOK, CallStep, CallTypes, All
  <2>5. \A d \in Calls : CallSound(d)'
    BY <2>1, <2>2, KeptIsSound DEF CallStep
  <2>6. QED
    BY <2>2, <2>4, <2>5 DEF Signals
<1>2. ASSUME GateStep PROVE TypeOK' /\ Signals' /\ \A d \in Calls : CallSound(d)'
  <2>1. up' \in [Calls -> {"none", "open", "destroyed", "closed"}]
    BY <1>2, GateFrame DEF TypeOK, Destroyed
  <2>2. TypeOK'
    BY <1>2, <2>1, GateFrame, GateSound DEF TypeOK, results, counters, All
  <2>3. QED
    BY <1>2, <2>2, GateFrame, GateSound
<1>3. ASSUME UNCHANGED vars PROVE TypeOK' /\ Signals' /\ \A d \in Calls : CallSound(d)'
  <2> USE DEF vars, run, signals, modes, counters, ends, results
  <2>1. TypeOK' /\ Signals'
    BY <1>3 DEF TypeOK, Signals
  <2>2. \A d \in Calls : Kept(d) /\ UNCHANGED <<aborted, closed, awaited>>
    BY <1>3 DEF Kept
  <2>3. QED
    BY <2>1, <2>2, KeptIsSound
<1>4. QED
  BY <1>1, <1>2, <1>3, NextIs

-----------------------------------------------------------------------------
(* The caps, the answers and the losses.                                   *)

Opened == {c \in Calls : up[c] # "none"}

LEMMA OpenedIsFinite == TypeOK => /\ IsFiniteSet(Opened) /\ Cardinality(Opened) \in Nat
                                  /\ IsFiniteSet(observed) /\ Cardinality(observed) \in Nat
                                  /\ IsFiniteSet(Lost) /\ Cardinality(Lost) \in Nat
BY CallsAre, FS_Subset, FS_CardinalityType DEF Opened, TypeOK, Lost

\* Only a forwarded call opens a request, or adds to what is capped.
LEMMA OnlyForwardOpens ==
    ASSUME TypeOK, [Next]_vars, \A c \in Calls : ~Forward(c)
    PROVE  /\ \A c \in Calls : up'[c] = "none" <=> up[c] = "none"
           /\ \A c \in Calls : up[c] # "open" => up'[c] # "open"
           /\ UNCHANGED <<forwarded, observed>>
<1> USE DEF TypeOK, ends, counters, results, Destroyed
<1>1. ASSUME NEW c \in Calls, Call(c)
      PROVE  /\ up' = [up EXCEPT ![c] = up'[c]] /\ (up'[c] = "none" <=> up[c] = "none")
             /\ (up[c] # "open" => up'[c] # "open")
             /\ UNCHANGED <<forwarded, observed>>
  <2>1. CASE Reject(c) \/ Bar(c) \/ Ask(c) \/ Grant(c) \/ Deny(c) \/ GiveBack(c)
    BY <2>1 DEF Reject, Bar, Ask, Grant, Deny, GiveBack
  <2>2. CASE Headers(c) \/ WrongPeer(c) \/ Encoded(c) \/ DeclaredTooLong(c)
    BY <2>2 DEF Headers, WrongPeer, Encoded, DeclaredTooLong
  <2>3. CASE End(c) \/ \E n \in ChunkSizes : Chunk(c, n)
    BY <2>3 DEF End, Chunk
  <2>4. CASE Lose(c) \/ UpCloses(c) \/ DownCloses(c) \/ Interrupt(c) \/ SendsTooMuch(c)
    BY <2>4 DEF Lose, UpCloses, DownCloses, Interrupt, SendsTooMuch
  <2>5. QED
    BY <1>1, <2>1, <2>2, <2>3, <2>4 DEF Call, Continue
<1>2. CASE \E c \in Calls : Call(c)
  BY <1>1, <1>2
<1>3. CASE GateStep
  <2>1. CASE Abort \/ StopRun \/ Close
    BY <2>1 DEF Abort, StopRun, Close, CloseAll, Shut
  <2>2. CASE CloseResolves \/ Expire \/ Generate \/ \E r \in Others : OtherTask(r)
    BY <2>2 DEF CloseResolves, Expire, Generate, OtherTask
  <2>3. QED
    BY <1>3, <2>1, <2>2 DEF GateStep
<1>4. CASE UNCHANGED vars
  BY <1>4 DEF vars
<1>5. QED
  BY <1>2, <1>3, <1>4, NextIs

LEMMA CapsStep ==
    ASSUME TypeOK, \A c \in Calls : CallSound(c), CapsHold, [Next]_vars
    PROVE  CapsHold'
<1>1. ASSUME NEW c \in Calls, Forward(c) PROVE CapsHold'
  <2>1. up[c] = "none" /\ up' = [up EXCEPT ![c] = "open"] /\ forwarded' = forwarded + 1
    BY <1>1 DEF Forward, CallSound, EndsFit
  <2>2. c \notin Opened /\ Opened' = Opened \cup {c}
    BY <2>1 DEF Opened, TypeOK
  <2>3. Cardinality(Opened') = Cardinality(Opened) + 1
    BY <2>2, OpenedIsFinite, FS_AddElement
  <2>4. ~Capped(c)
    BY <1>1 DEF Forward, Withheld
  <2>5. forwarded' = Cardinality(Opened') /\ forwarded' <= MaxRequests
    BY <2>1, <2>3, <2>4 DEF CapsHold, Opened, Capped, TypeOK
  <2>6. Authenticated => Cardinality(observed') <= GeneratedMax
    <3>1. CASE Generated(c) /\ c \notin observed
      <4>1. observed' = observed \cup {c}
        BY <1>1, <3>1 DEF Forward
      <4>2. Cardinality(observed') = Cardinality(observed) + 1
        BY <3>1, <4>1, OpenedIsFinite, FS_AddElement
      <4>3. Cardinality(observed) < GeneratedMax
        BY <2>4, <3>1, OpenedIsFinite DEF Capped
      <4>4. QED
        BY <4>2, <4>3, OpenedIsFinite
    <3>2. CASE ~Generated(c) \/ c \in observed
      <4>1. observed' = observed
        BY <1>1, <3>2 DEF Forward
      <4>2. QED
        BY <4>1 DEF CapsHold
    <3>3. QED
      BY <3>1, <3>2
  <2>7. QED
    BY <2>5, <2>6 DEF CapsHold, Opened
<1>2. ASSUME \A c \in Calls : ~Forward(c) PROVE CapsHold'
  <2>1. Opened' = Opened /\ UNCHANGED <<forwarded, observed>>
    BY <1>2, OnlyForwardOpens DEF Opened
  <2>2. QED
    BY <2>1 DEF CapsHold, Opened
<1>3. QED
  BY <1>1, <1>2

\* An answer is passed on with its permit still in hand.
LEMMA AnsweredStep ==
    ASSUME TypeOK, \A c \in Calls : CallSound(c), completed = answered, [Next]_vars
    PROVE  completed' = answered'
<1>1. ASSUME NEW c \in Calls, Call(c) PROVE completed' = answered'
  <2>1. CASE End(c)
    <3>1. permit[c] = "granted"
      BY <2>1 DEF End, CallSound, PermitFits, Underway
    <3>2. QED
      BY <2>1, <3>1 DEF End
  <2>2. CASE ~End(c)
    BY <1>1, <2>2 DEF Call, Continue, Reject, Bar, Ask, Grant, Deny, GiveBack, Forward, Headers,
         WrongPeer, Encoded, DeclaredTooLong, Chunk, Lose, UpCloses, DownCloses, Interrupt,
         SendsTooMuch, results
  <2>3. QED
    BY <2>1, <2>2
<1>2. CASE GateStep
  BY <1>2 DEF GateStep, Abort, StopRun, Close, CloseResolves, Expire, Generate, OtherTask, results
<1>3. CASE UNCHANGED vars
  BY <1>3 DEF vars, results
<1>4. QED
  BY <1>1, <1>2, <1>3, NextIs

\* A call is lost where it is counted: while nothing has stopped the gate, only
\* a call the engine did not break off itself ends without its whole answer.
LEMMA LossStep ==
    ASSUME TypeOK, \A c \in Calls : CallSound(c), LossIsCounted, [Next]_vars
    PROVE  LossIsCounted'
<1> SUFFICES ASSUME stopped' = "none", ~closing'
             PROVE  errors' + rejected' = Cardinality(Lost')
  BY DEF LossIsCounted
<1>1. ASSUME NEW c \in Calls, Call(c) PROVE errors' + rejected' = Cardinality(Lost')
  <2>0. stopped = "none" /\ ~closing
    <3>1. ~closing
      BY <1>1, SignalsKept
    <3>2. stopped' = stopped \/ \E reason \in Reasons : Stop(reason)
      BY <1>1 DEF Call, Continue, Reject, Bar, Ask, Grant, Deny, Denial, GiveBack, Overtaken,
         Forward, Headers, WrongPeer, Encoded, DeclaredTooLong, Chunk, End, Lose, UpCloses,
         DownCloses, Interrupt, SendsTooMuch, Reasons
    <3>3. QED
      BY <3>1, <3>2 DEF Stop
  <2>1. errors + rejected = Cardinality(Lost) /\ errors \in Nat /\ rejected \in Nat
    BY <2>0 DEF LossIsCounted, TypeOK
  <2>2. CASE Encoded(c) \/ (Lose(c) /\ Counts(c))
    <3>1. errors' + rejected' = errors + rejected + 1
      BY <2>1, <2>2 DEF Encoded, Lose
    <3>2. stage[c] # "ended" /\ stage' = [stage EXCEPT ![c] = "ended"]
          /\ UNCHANGED <<completed, broken>>
      BY <2>2 DEF Encoded, Lose, Goto, Underway, results
    <3>3. c \notin completed /\ c \notin broken
      BY <2>2 DEF Encoded, Lose, Counts, CallSound, EndsFit, Underway
    <3>4. c \notin Lost /\ Lost' = Lost \cup {c}
      BY <3>2, <3>3 DEF Lost, TypeOK
    <3>5. IsFiniteSet(Lost)
      BY OpenedIsFinite
    <3>6. Cardinality(Lost \cup {c}) = Cardinality(Lost) + 1
      BY <3>4, <3>5, FS_AddElement
    <3>7. QED
      BY <2>1, <3>1, <3>4, <3>6
  <2>3. CASE ~(Encoded(c) \/ (Lose(c) /\ Counts(c)))
    <3>1. UNCHANGED <<errors, rejected>> /\ Lost' = Lost
      <4> USE DEF Goto, TypeOK, counters, results, Lost
      <4>1. CASE Reject(c) \/ Bar(c) \/ Ask(c) \/ Grant(c) \/ Deny(c) \/ GiveBack(c)
        <5>1. /\ UNCHANGED <<errors, rejected, completed, broken>>
              /\ stage[c] \in {"absent", "waiting", "permitted"}
              /\ \E s \in {"waiting", "permitted", "refused"} : Goto(c, s)
          BY <4>1 DEF Reject, Bar, Ask, Grant, Deny, GiveBack
        <5>2. QED
          BY <5>1
      <4>2. CASE Forward(c) \/ Headers(c)
        BY <4>2 DEF Forward, Headers
      <4>3. CASE WrongPeer(c) \/ DeclaredTooLong(c)
        BY <1>1, <2>0, <4>3 DEF WrongPeer, DeclaredTooLong, Stop
      <4>4. ASSUME NEW n \in ChunkSizes, Chunk(c, n)
            PROVE  UNCHANGED <<errors, rejected>> /\ Lost' = Lost
        BY <2>0, <4>4 DEF Chunk, Stop
      <4>5. CASE End(c)
        BY <4>5 DEF End
      <4>6. CASE Lose(c)
        <5>1. ~Counts(c) /\ c \in broken
          BY <2>0, <2>3, <4>6 DEF Counts, Lose, CallSound, EndsFit
        <5>2. QED
          BY <4>6, <5>1 DEF Lose
      <4>7. CASE UpCloses(c) \/ DownCloses(c) \/ Interrupt(c) \/ SendsTooMuch(c)
        <5>1. /\ UNCHANGED <<errors, rejected, stage, completed>>
              /\ broken \subseteq broken' /\ broken' \subseteq broken \cup {c}
              /\ broken' # broken => stage[c] # "ended"
          BY <4>7 DEF UpCloses, DownCloses, Interrupt, SendsTooMuch, Underway
        <5>2. QED
          BY <5>1
      <4>8. QED
        BY <1>1, <2>3, <4>1, <4>2, <4>3, <4>4, <4>5, <4>6, <4>7 DEF Call, Continue
    <3>2. QED
      BY <2>1, <3>1
  <2>4. QED
    BY <2>2, <2>3
<1>2. ASSUME GateStep \/ UNCHANGED vars PROVE errors' + rejected' = Cardinality(Lost')
  <2>1. UNCHANGED <<errors, rejected, stopped, stage, completed, broken>>
    BY <1>2 DEF GateStep, Abort, StopRun, Close, CloseResolves, Expire, Generate, OtherTask,
                results, counters, vars
  <2>2. ~closing
    BY <1>2 DEF GateStep, Abort, StopRun, Close, CloseResolves, Expire, Generate, OtherTask,
                CloseAll, signals, vars
  <2>3. Lost' = Lost
    BY <2>1 DEF Lost
  <2>4. QED
    BY <2>1, <2>2, <2>3 DEF LossIsCounted
<1>3. QED
  BY <1>1, <1>2, NextIs

\* The stop reason, the signals and the clock are not taken back.
LEMMA StopsStay ==
    ASSUME TypeOK, [Next]_vars
    PROVE  (stopped' = "none" => stopped = "none") /\ (aborted => aborted') /\ (expired => expired')
<1>1. ASSUME NEW c \in Calls, Call(c)
      PROVE  (stopped' = "none" => stopped = "none") /\ UNCHANGED <<aborted, expired>>
  <2>1. stopped' = stopped \/ \E reason \in Reasons : Stop(reason)
    BY <1>1 DEF Call, Continue, Reject, Bar, Ask, Grant, Deny, Denial, GiveBack, Overtaken, Forward,
       Headers, WrongPeer, Encoded, DeclaredTooLong, Chunk, End, Lose, UpCloses, DownCloses,
       Interrupt, SendsTooMuch, Reasons
  <2>2. QED
    BY <1>1, <2>1, SignalsKept DEF Stop
<1>2. CASE GateStep
  <2>1. stopped' = stopped
    BY <1>2 DEF GateStep, Abort, StopRun, Close, CloseResolves, Expire, Generate, OtherTask
  <2>2. (aborted' = aborted \/ aborted' = TRUE) /\ (expired' = expired \/ expired' = TRUE)
    BY <1>2 DEF GateStep, Abort, StopRun, Close, CloseResolves, Expire, Generate, OtherTask,
                CloseAll, signals, modes
  <2>3. QED
    BY <2>1, <2>2
<1>3. CASE UNCHANGED vars
  BY <1>3 DEF vars, signals, modes
<1>4. QED
  BY <1>1, <1>2, <1>3, NextIs

\* What tells of a refusal is not taken back either.
LEMMA TellingStays ==
    ASSUME TypeOK, \A c \in Calls : CallSound(c), CapsHold, [Next]_vars
    PROVE  broken \subseteq broken' /\ Cardinality(observed) <= Cardinality(observed')
<1>1. broken \subseteq broken'
  <2>1. ASSUME NEW c \in Calls, Call(c) PROVE broken \subseteq broken'
    BY <2>1 DEF Call, Continue, Reject, Bar, Ask, Grant, Deny, GiveBack, Forward, Headers,
       WrongPeer, Encoded, DeclaredTooLong, Chunk, End, Lose, UpCloses, DownCloses, Interrupt,
       SendsTooMuch, results
  <2>2. CASE GateStep
    BY <2>2 DEF GateStep, Abort, StopRun, Close, CloseResolves, Expire, Generate, OtherTask, results
  <2>3. CASE UNCHANGED vars
    BY <2>3 DEF vars, results
  <2>4. QED
    BY <2>1, <2>2, <2>3, NextIs
<1>2. Cardinality(observed) <= Cardinality(observed')
  <2>1. ASSUME NEW c \in Calls, Forward(c) PROVE Cardinality(observed) <= Cardinality(observed')
    <3>1. observed' = observed \cup {c} \/ observed' = observed
      BY <2>1 DEF Forward
    <3>2. CASE observed' = observed
      BY <3>2, OpenedIsFinite
    <3>3. CASE observed' # observed
      <4>1. c \notin observed /\ observed' = observed \cup {c}
        BY <3>1, <3>3
      <4>2. Cardinality(observed') = Cardinality(observed) + 1
        BY <4>1, OpenedIsFinite, FS_AddElement
      <4>3. QED
        BY <4>2, OpenedIsFinite
    <3>4. QED
      BY <3>2, <3>3
  <2>2. ASSUME \A c \in Calls : ~Forward(c) PROVE Cardinality(observed) <= Cardinality(observed')
    BY <2>2, OnlyForwardOpens, OpenedIsFinite
  <2>3. QED
    BY <2>1, <2>2
<1>3. QED
  BY <1>1, <1>2

\* A step that is not a call's settles its permit or leaves it.
LEMMA PermitKept ==
    ASSUME TypeOK, Signals, NEW d \in Calls, GateStep \/ UNCHANGED vars
    PROVE  permit'[d] = permit[d] \/ permit[d] = "granted"
<1>1. CASE Abort \/ Close
  BY <1>1, ReleaseIs, CallsAre DEF Abort, Close, Released
<1>2. CASE StopRun
  BY <1>2, StoppedIs, CallsAre DEF StopRun
<1>3. CASE CloseResolves \/ Expire \/ Generate \/ UNCHANGED vars
  BY <1>3 DEF CloseResolves, Expire, Generate, run, vars
<1>4. CASE \E r \in Others : OtherTask(r)
  BY <1>4, OtherIs
<1>5. QED
  BY <1>1, <1>2, <1>3, <1>4 DEF GateStep

\* A call is refused where it arrives, with no reservation, or after its wait.
LEMMA RefusedBy ==
    ASSUME TypeOK, NEW d \in Calls, CallSound(d), Call(d), stage'[d] = "refused", permit'[d] # "new",
           ~(stage[d] = "refused" /\ permit[d] # "new")
    PROVE  Deny(d) \/ GiveBack(d)
<1> USE DEF Goto, TypeOK
<1>0. d \in All
  BY CallsAre
<1>1. CASE Reject(d) \/ Bar(d)
  BY <1>1 DEF Reject, Bar, run, CallSound, PermitFits
<1>2. CASE Ask(d) \/ Grant(d) \/ Forward(d) \/ Headers(d) \/ WrongPeer(d)
  BY <1>2 DEF Ask, Grant, Forward, Headers, WrongPeer
<1>3. CASE Encoded(d) \/ DeclaredTooLong(d) \/ End(d) \/ Lose(d)
  BY <1>3 DEF Encoded, DeclaredTooLong, End, Lose
<1>4. ASSUME NEW n \in ChunkSizes, Chunk(d, n) PROVE FALSE
  BY <1>4 DEF Chunk
<1>5. CASE UpCloses(d) \/ Interrupt(d) \/ SendsTooMuch(d)
  BY <1>5 DEF UpCloses, Interrupt, SendsTooMuch, Underway
<1>6. CASE DownCloses(d)
  <2>1. Released({d}) /\ stage' = stage
    BY <1>6, ReleaseIs DEF DownCloses
  <2>2. permit'[d] = permit[d]
    BY <1>0, <2>1 DEF Released, CallSound, PermitFits
  <2>3. QED
    BY <2>1, <2>2
<1>7. QED
  BY <1>1, <1>2, <1>3, <1>4, <1>5, <1>6 DEF Call, Continue

\* Where a call that waited is refused, something tells of it.
LEMMA RefusalStep ==
    ASSUME TypeOK, Signals, \A c \in Calls : CallSound(c), CapsHold, RefusalsAreTold, [Next]_vars
    PROVE  RefusalsAreTold'
<1> DEFINE Told(d) == d \in broken \/ (Generated(d) /\ Cardinality(observed) >= GeneratedMax)
<1>0. SUFFICES ASSUME stopped' = "none", ~aborted', ~expired',
                      NEW d \in Calls, stage'[d] = "refused", permit'[d] # "new"
               PROVE  Told(d)'
  BY <1>0 DEF RefusalsAreTold, Generated
<1>1. stopped = "none" /\ ~aborted /\ ~expired
  BY <1>0, StopsStay
<1>2. Told(d) => Told(d)'
  <2>1. /\ broken \subseteq broken' /\ Cardinality(observed) <= Cardinality(observed')
        /\ Cardinality(observed) \in Nat /\ Cardinality(observed') \in Nat
    <3>1. TypeOK'
      BY TypeStep
    <3>2. observed' \subseteq Calls
      BY <3>1 DEF TypeOK
    <3>3. Cardinality(observed') \in Nat
      BY <3>2, CallsAre, FS_Subset, FS_CardinalityType
    <3>4. QED
      BY <3>3, TellingStays, OpenedIsFinite
  <2>2. CASE d \in broken
    BY <2>1, <2>2
  <2>3. CASE Generated(d) /\ Cardinality(observed) >= GeneratedMax
    <3>1. Cardinality(observed') >= GeneratedMax
      BY <2>1, <2>3
    <3>2. QED
      BY <2>3, <3>1 DEF Generated
  <2>4. QED
    BY <2>2, <2>3
<1>3. CASE stage[d] = "refused" /\ permit[d] # "new"
  BY <1>1, <1>2, <1>3 DEF RefusalsAreTold
<1>4. CASE ~(stage[d] = "refused" /\ permit[d] # "new")
  <2>1. PICK c \in Calls : Call(c)
    <3>1. ASSUME GateStep \/ UNCHANGED vars PROVE FALSE
      <4>1. stage' = stage
        BY <3>1 DEF GateStep, Abort, StopRun, Close, CloseResolves, Expire, Generate, OtherTask, vars
      <4>2. permit'[d] = permit[d] \/ permit[d] = "granted"
        BY <3>1, PermitKept
      <4>3. QED
        BY <1>0, <1>4, <4>1, <4>2 DEF CallSound, PermitFits
    <3>2. QED
      BY <3>1, NextIs
  <2>2. c = d
    BY <1>0, <1>4, <2>1, CallIsCallStep DEF CallStep, Kept
  <2>3. Deny(d) \/ GiveBack(d)
    BY <1>0, <1>4, <2>1, <2>2, RefusedBy
  <2>4. CASE Deny(d)
    <3>1. Denial(d) /\ stage[d] = "waiting"
      BY <2>4 DEF Deny
    <3>2. stopped' = "none" => Cancelled(d) \/ expired
      BY <1>1, <3>1 DEF Denial, Stop
    <3>3. d \in broken
      BY <1>0, <1>1, <3>1, <3>2 DEF Cancelled, CallSound, EndsFit
    <3>4. QED
      BY <1>2, <3>3
  <2>5. CASE GiveBack(d)
    <3>1. down[d] = "open" /\ ~closing
      BY <1>1, <2>5 DEF GiveBack, CallSound, EndsFit, Signals
    <3>2. Capped(d)
      BY <1>1, <2>5, <3>1 DEF GiveBack, Withheld
    <3>3. ~(forwarded >= MaxRequests)
      BY <1>0, <1>1, <2>5 DEF GiveBack, Overtaken, Stop
    <3>4. QED
      BY <1>2, <3>2, <3>3 DEF Capped
  <2>6. QED
    BY <2>3, <2>4, <2>5
<1>5. QED
  BY <1>3, <1>4

-----------------------------------------------------------------------------
(* The invariant.                                                          *)

LEMMA GateInit == Init => GateInv
<1> SUFFICES ASSUME Init PROVE GateInv
  OBVIOUS
<1>1. permit = [r \in All |-> "new"] /\ runStopped \in BOOLEAN
  BY DEF Init, Budget!Init, All
<1>2. TypeOK
  <2>1. permit \in [All -> Budget!Phases]
    BY <1>1 DEF Budget!Phases
  <2>2. stage \in [Calls -> Stages] /\ stopped \in Reasons
    BY DEF Init, Stages, Reasons
  <2>3. QED
    BY <1>1, <2>1, <2>2 DEF Init, TypeOK, All
<1>3. Signals /\ completed = answered
  BY DEF Init, Signals
<1>4. \A c \in Calls : CallSound(c)
  BY <1>1, CallsAre DEF Init, CallSound, PermitFits, EndsFit, NotedFit, Underway, Live
<1>5. CapsHold
  <2>1. Opened = {} /\ observed = {} /\ forwarded = 0
    BY DEF Init, Opened
  <2>2. QED
    BY <2>1, FS_EmptySet DEF CapsHold, Opened
<1>6. LossIsCounted
  <2>1. Lost = {} /\ errors = 0 /\ rejected = 0
    BY DEF Init, Lost
  <2>2. QED
    BY <2>1, FS_EmptySet DEF LossIsCounted
<1>7. RefusalsAreTold
  BY DEF Init, RefusalsAreTold
<1>8. QED
  BY <1>2, <1>3, <1>4, <1>5, <1>6, <1>7 DEF GateInv

LEMMA GateHolds == Spec => []GateInv
<1>1. GateInv /\ [Next]_vars => GateInv'
  BY TypeStep, CapsStep, AnsweredStep, LossStep, RefusalStep DEF GateInv
<1>2. QED
  BY GateInit, <1>1, PTL DEF Spec

-----------------------------------------------------------------------------
(* The theorems.                                                           *)

\* The gate's state keeps its types.
THEOREM TypeCorrect == Spec => []TypeOK
<1>1. GateInv => TypeOK
  BY DEF GateInv
<1>2. QED
  BY <1>1, GateHolds, PTL

\* However many calls wait for permits at once, the gate forwards no more than
\* its caps; and when close() has resolved nothing of it is open or pending.
THEOREM OpensAreAlwaysBounded == Spec => []OpensAreBounded
<1>1. GateInv => OpensAreBounded
  BY DEF GateInv, OpensAreBounded, ClosedIsQuiet, CallSound, PermitFits, NotedFit, Signals
<1>2. QED
  BY <1>1, GateHolds, PTL

\* What a call is charged as is what became of it, and while nothing has stopped
\* the gate each call it lost is counted once.
THEOREM ChargesAreAlwaysTrue == Spec => []ChargesAreTrue
<1>1. GateInv => ChargesAreTrue
  BY DEF GateInv, ChargesAreTrue, PermitTellsTheCall, CallSound, PermitFits
<1>2. QED
  BY <1>1, GateHolds, PTL

\* For any calls, caps and other tasks: a call that was refused after waiting for
\* its permit is told of by the stop reason, the signals or the clock, unless the
\* engine broke it off or it met the cap on generated calls.
THEOREM RefusalsAreAlwaysTold == Spec => []RefusalsAreTold
<1>1. GateInv => RefusalsAreTold
  BY DEF GateInv
<1>2. QED
  BY <1>1, GateHolds, PTL

-----------------------------------------------------------------------------
(* The gate and the run's budget together.                                 *)

\* Every step of the gate is a step of the run's admission budget, or none.
LEMMA BudgetStep == TypeOK /\ [Next]_vars => [Budget!Next]_(Budget!vars)
<1> SUFFICES ASSUME TypeOK, [Next]_vars PROVE [Budget!Next]_(Budget!vars)
  OBVIOUS
<1> USE DEF Budget!Next, Budget!vars
<1>1. ASSUME UNCHANGED run PROVE [Budget!Next]_(Budget!vars)
  BY <1>1 DEF run
<1>2. ASSUME NEW S \in SUBSET Calls, Release(S) PROVE [Budget!Next]_(Budget!vars)
  <2>1. UNCHANGED run \/ \E H \in SUBSET All : Budget!Settle(H)
    BY <1>2 DEF Release, All
  <2>2. QED
    BY <1>1, <2>1 DEF All
<1>3. ASSUME NEW r \in All, Budget!Ask(r) \/ Budget!Grant(r) \/ Budget!Refuse(r)
      PROVE  [Budget!Next]_(Budget!vars)
  BY <1>3 DEF All
<1>4. ASSUME NEW c \in Calls, Call(c) PROVE [Budget!Next]_(Budget!vars)
  <2>1. \/ UNCHANGED run \/ Release({c})
        \/ Budget!Ask(c) \/ Budget!Grant(c) \/ Budget!Refuse(c)
    BY <1>4 DEF Call, Continue, Reject, Bar, Ask, Grant, Deny, GiveBack, Forward, Headers,
         WrongPeer, Encoded, DeclaredTooLong, Chunk, End, Lose, UpCloses, UpSettles, DownCloses,
         Interrupt, SendsTooMuch
  <2>2. QED
    BY <1>1, <1>2, <1>3, <2>1, CallsAre
<1>5. ASSUME GateStep PROVE [Budget!Next]_(Budget!vars)
  <2>1. ASSUME NEW r \in Others, OtherTask(r) PROVE [Budget!Next]_(Budget!vars)
    <3>1. {r} \in SUBSET All /\ r \in All
      BY DEF All
    <3>2. QED
      BY <1>3, <2>1, <3>1 DEF OtherTask, All
  <2>2. UNCHANGED run \/ Release(Calls) \/ Budget!Stop \/ \E r \in Others : OtherTask(r)
    BY <1>5 DEF GateStep, Abort, StopRun, Close, CloseResolves, Expire, Generate
  <2>3. QED
    BY <1>1, <1>2, <2>1, <2>2
<1>6. QED
  BY <1>1, <1>4, <1>5, NextIs DEF vars

\* What is charged stays charged, and the budget holds.
BudgetHolds ==
    /\ Cardinality(Budget!Charged) <= RunBudget
    /\ \A c \in Calls : up[c] # "none" => c \in Budget!Charged

LEMMA ChargedIsFinite == IsFiniteSet(Budget!Charged) /\ Cardinality(Budget!Charged) \in Nat
<1>1. IsFiniteSet(All)
  BY FS_Union DEF All
<1>2. QED
  BY <1>1, FS_Subset, FS_CardinalityType DEF Budget!Charged, All

LEMMA BudgetHoldsStep ==
    ASSUME GateInv, BudgetHolds, [Next]_vars
    PROVE  BudgetHolds'
<1>0. TypeOK /\ [Budget!Next]_(Budget!vars) /\ permit \in [All -> Budget!Phases]
  BY BudgetStep DEF GateInv, TypeOK, All
<1>1. ASSUME NEW r \in All, Budget!Grant(r)
      PROVE  /\ Budget!Charged' = Budget!Charged \cup {r}
             /\ Cardinality(Budget!Charged') <= RunBudget
  <2>1. /\ permit[r] = "asked" /\ permit' = [permit EXCEPT ![r] = "granted"]
        /\ Cardinality(Budget!Charged) < RunBudget
    BY <1>1 DEF Budget!Grant, Budget!Move, Budget!Cardinality, Cardinality
  <2>2. Budget!Charged' = Budget!Charged \cup {r} /\ r \notin Budget!Charged
    BY <1>0, <2>1 DEF Budget!Charged, All
  <2>3. Cardinality(Budget!Charged') = Cardinality(Budget!Charged) + 1
    BY <2>2, ChargedIsFinite, FS_AddElement
  <2>4. QED
    BY <2>1, <2>2, <2>3, ChargedIsFinite
<1>2. Budget!Charged' = Budget!Charged \/ \E r \in All : Budget!Grant(r)
  <2>1. ASSUME NEW r \in All, Budget!Ask(r) \/ Budget!Refuse(r)
        PROVE  Budget!Charged' = Budget!Charged
    BY <1>0, <2>1 DEF Budget!Ask, Budget!Refuse, Budget!Move, Budget!Charged, All
  <2>2. ASSUME NEW S \in SUBSET All, Budget!Settle(S) PROVE Budget!Charged' = Budget!Charged
    BY <1>0, <2>2 DEF Budget!Settle, Budget!Charged, All
  <2>3. ASSUME Budget!Stop PROVE Budget!Charged' = Budget!Charged
    BY <1>0, <2>3 DEF Budget!Stop, Budget!Charged, All
  <2>4. ASSUME UNCHANGED (Budget!vars) PROVE Budget!Charged' = Budget!Charged
    BY <2>4 DEF Budget!vars, Budget!Charged
  <2>5. QED
    BY <1>0, <2>1, <2>2, <2>3, <2>4 DEF Budget!Next, All
<1>3. /\ Budget!Charged \subseteq Budget!Charged'
      /\ Cardinality(Budget!Charged') <= RunBudget
  BY <1>1, <1>2 DEF BudgetHolds
<1>4. ASSUME NEW c \in Calls, up'[c] # "none" PROVE c \in Budget!Charged'
  <2>1. CASE up[c] # "none"
    BY <1>3, <2>1 DEF BudgetHolds
  <2>2. CASE up[c] = "none"
    <3>1. PICK d \in Calls : Forward(d)
      BY <1>0, <1>4, <2>2, OnlyForwardOpens
    <3>2. d = c /\ permit[c] = "granted" /\ permit' = permit
      BY <1>0, <1>4, <2>2, <3>1 DEF Forward, TypeOK, run, GateInv, CallSound, PermitFits
    <3>3. QED
      BY <3>2 DEF Budget!Charged
  <2>3. QED
    BY <2>1, <2>2
<1>5. QED
  BY <1>3, <1>4 DEF BudgetHolds

\* The gate forwards no more than the run may: each call that ever reached the
\* target holds a permit of the run's budget, shared with all its other tasks.
THEOREM ForwardsAreCharged == Spec => [](forwarded <= RunBudget)
<1>1. Init => BudgetHolds
  <2> SUFFICES ASSUME Init PROVE BudgetHolds
    OBVIOUS
  <2>1. Budget!Charged = {} /\ \A c \in Calls : up[c] = "none"
    BY DEF Init, Budget!Init, Budget!Charged
  <2>2. QED
    BY <2>1, FS_EmptySet DEF BudgetHolds
<1>2. ASSUME GateInv, BudgetHolds PROVE forwarded <= RunBudget
  <2>1. Opened \subseteq Budget!Charged /\ forwarded = Cardinality(Opened)
    BY <1>2 DEF BudgetHolds, Opened, GateInv, CapsHold
  <2>2. Cardinality(Opened) <= Cardinality(Budget!Charged) /\ Cardinality(Opened) \in Nat
    BY <1>2, <2>1, ChargedIsFinite, OpenedIsFinite, FS_Subset DEF GateInv
  <2>3. QED
    BY <1>2, <2>1, <2>2, ChargedIsFinite DEF BudgetHolds
<1>3. GateInv /\ BudgetHolds /\ [Next]_vars => BudgetHolds'
  BY BudgetHoldsStep
<1>4. QED
  BY <1>1, <1>2, <1>3, GateHolds, PTL DEF Spec

\* The gate draws on the run's budget only as that allows.
THEOREM BudgetIsKept == Spec => Budget!Spec
<1>1. Init => Budget!Init
  BY DEF Init
<1>2. GateInv /\ [Next]_vars => [Budget!Next]_(Budget!vars)
  BY BudgetStep DEF GateInv
<1>3. QED
  BY <1>1, <1>2, GateHolds, PTL DEF Spec, Budget!Spec
=============================================================================

-------------------------- MODULE NativeDastProofs --------------------------
(***************************************************************************)
(* Proofs about NativeDast, for any profiles, limits and answers.          *)
(*                                                                         *)
(* One attempt is one reservation, in order: Permits says what each permit *)
(* is, from where the step under way stands, and so what the run was       *)
(* charged.  Standing says what each wait may rely on when it is over.     *)
(***************************************************************************)
EXTENDS NativeDast, FiniteSetTheorems, SequenceTheorems, TLAPS

USE ProfileAssumption, LimitAssumption

Sent == {"wire", "body"}

\* Every attempt counted has its permit; only that of an attempt on the wire
\* can still be pending.  The next one's permit is as far as the step is.
PermitIs(r) ==
    /\ r < count => permit[r] = "settled"
    /\ r = count => permit[r] = "settled" \/ (at \in Sent /\ permit[r] = "granted")
    /\ r = count + 1 =>
         /\ at = "reserve"   => permit[r] = "asked"
         /\ at = "permitted" => permit[r] = "granted"
         /\ at = "done"      => permit[r] \in {"new", "refused", "settled"}
         /\ at = "done" /\ permit[r] = "settled" => failure \in {"cancelled", "deadline"}
         /\ at \notin {"reserve", "permitted", "done"} => permit[r] = "new"
    /\ r > count + 1 => permit[r] = "new"

Permits == \A r \in Own : PermitIs(r)

\* What a step finds after a wait.
Standing ==
    /\ at \in {"reserve", "permitted"} => count < maxRequests
    /\ at \in Sent => count > 0
    /\ at \in Sent /\ cause = "none" => permit[count] = "granted"
    /\ at # "done" => Len(steps) < Len(Plan)
    /\ at # "done" => failure = "none"
    /\ runStopped => cause # "none"

DastInv == TypeOK /\ Permits /\ Standing

-----------------------------------------------------------------------------
(* The plan and the helpers.                                               *)

LEMMA Joined ==
    ASSUME NEW S, NEW a \in Seq(S), NEW b \in Seq(S)
    PROVE  /\ a \o b \in Seq(S) /\ Len(a \o b) = Len(a) + Len(b)
           /\ \A i \in 1..Len(a) : (a \o b)[i] = a[i]
<1>1. Len(a) \in Nat /\ Len(b) \in Nat
  BY LenProperties
<1>2. \A i \in 1..Len(a) : i \in 1..Len(a) + Len(b) /\ i <= Len(a)
  BY <1>1
<1>3. QED
  BY <1>2, ConcatProperties

LEMMA RoundsAre == /\ SqlRound \in Seq(AllPhases) /\ Len(SqlRound) \in Nat \ {0}
                   /\ JsonRound \in Seq(AllPhases) /\ Len(JsonRound) \in Nat \ {0}
                   /\ <<"identity">> \in Seq(AllPhases)
BY DEF SqlRound, JsonRound, AllPhases

LEMMA Rounds ==
    ASSUME NEW S, NEW one \in Seq(S), NEW round \in Seq(S), Len(round) \in Nat \ {0}
    PROVE  /\ round \o round \in Seq(S) /\ Len(round \o round) \in Nat \ {0}
           /\ one \o round \o round \o one \in Seq(S)
           /\ Len(one \o round \o round \o one) \in Nat \ {0}
<1>1. Len(one) \in Nat
  BY LenProperties
<1>2. one \o round \in Seq(S) /\ Len(one \o round) = Len(one) + Len(round)
  BY Joined
<1>3. /\ one \o round \o round \in Seq(S)
      /\ Len(one \o round \o round) = Len(one) + Len(round) + Len(round)
  BY <1>2, Joined
<1>4. /\ one \o round \o round \o one \in Seq(S)
      /\ Len(one \o round \o round \o one) = Len(one) + Len(round) + Len(round) + Len(one)
  BY <1>3, Joined
<1>5. QED
  BY <1>1, <1>4, Joined

LEMMA PlanIs == TypeOK => Plan \in Seq(AllPhases) /\ Len(Plan) \in Nat \ {0}
<1> SUFFICES ASSUME TypeOK PROVE Plan \in Seq(AllPhases) /\ Len(Plan) \in Nat \ {0}
  OBVIOUS
<1>1. /\ SqlRound \o SqlRound \in Seq(AllPhases) /\ Len(SqlRound \o SqlRound) \in Nat \ {0}
      /\ <<"identity">> \o SqlRound \o SqlRound \o <<"identity">> \in Seq(AllPhases)
      /\ Len(<<"identity">> \o SqlRound \o SqlRound \o <<"identity">>) \in Nat \ {0}
      /\ <<"identity">> \o JsonRound \o JsonRound \o <<"identity">> \in Seq(AllPhases)
      /\ Len(<<"identity">> \o JsonRound \o JsonRound \o <<"identity">>) \in Nat \ {0}
  BY RoundsAre, Rounds, Zenon
<1>2. profile \in {"plain", "auth", "json"}
  BY DEF TypeOK, AllProfiles
<1>3. QED
  BY <1>1, <1>2 DEF Plan

\* The phase of the step under way, and its row, are there.
LEMMA PhaseIs == TypeOK /\ Len(steps) < Len(Plan) =>
                   /\ Phase \in AllPhases /\ Len(steps) \in Nat
                   /\ Control \in {"before", "after"}
<1> SUFFICES ASSUME TypeOK, Len(steps) < Len(Plan)
             PROVE  Phase \in AllPhases /\ Len(steps) \in Nat /\ Control \in {"before", "after"}
  OBVIOUS
<1>1. Len(steps) \in Nat
  BY LenProperties DEF TypeOK
<1>2. Len(steps) + 1 \in 1..Len(Plan)
  BY <1>1, PlanIs
<1>3. QED
  BY <1>1, <1>2, PlanIs, ElementOfSeq DEF Phase, Control

LEMMA OwnIs == /\ Own \subseteq Nat \ {0}
               /\ TypeOK => 1..maxRequests \subseteq Own /\ maxRequests \in Nat /\ count \in Nat
<1>1. Own \subseteq Nat \ {0}
  BY DEF Own
<1>2. ASSUME TypeOK PROVE 1..maxRequests \subseteq Own /\ maxRequests \in Nat /\ count \in Nat
  <2>1. maxRequests \in MaxChoices /\ count \in 0..maxRequests
    BY <1>2 DEF TypeOK
  <2>2. 1..maxRequests \subseteq Own
    BY <2>1 DEF Own
  <2>3. QED
    BY <2>1, <2>2
<1>3. QED
  BY <1>1, <1>2

LEMMA ReleaseIs ==
    ASSUME TypeOK, Release
    PROVE  /\ runStopped' = runStopped /\ permit' \in [Own -> Budget!Phases]
           /\ \A r \in Own : permit'[r] = IF permit[r] = "granted" THEN "settled" ELSE permit[r]
<1> DEFINE held == {r \in Own : permit[r] = "granted"}
<1>1. CASE held = {}
  BY <1>1 DEF Release, run, TypeOK
<1>2. CASE held # {}
  <2>1. /\ permit' = [r \in Own |-> IF r \in held THEN "settled" ELSE permit[r]]
        /\ runStopped' = runStopped
    BY <1>2 DEF Release, Budget!Settle
  <2>2. QED
    BY <2>1 DEF TypeOK, Budget!Phases
<1>3. QED
  BY <1>1, <1>2

LEMMA MoveIs ==
    ASSUME TypeOK, NEW r \in Own, NEW from, NEW to \in Budget!Phases, Budget!Move(r, from, to)
    PROVE  /\ permit[r] = from /\ permit' \in [Own -> Budget!Phases]
           /\ permit'[r] = to /\ \A q \in Own : q # r => permit'[q] = permit[q]
           /\ runStopped' = runStopped
BY DEF Budget!Move, TypeOK

\* A sequence of one value.
LEMMA Filled ==
    ASSUME NEW S, NEW x \in S, NEW n \in Nat
    PROVE  /\ [i \in 1..n |-> x] \in Seq(S) /\ Len([i \in 1..n |-> x]) = n
           /\ \A i \in 1..n : [j \in 1..n |-> x][i] = x
OBVIOUS

LEMMA SkippedIs == TypeOK => Skipped \in Rows
BY DEF TypeOK, Skipped, Rows

LEMMA RowIs ==
    ASSUME TypeOK, NEW outcome \in {"evaluated", "inconclusive"},
           NEW reason \in Failures \cup {"evaluated"},
           NEW match \in {"baseline", "false", "other", "alternate", "unavailable"}
    PROVE  Row(outcome, reason, match) \in Rows
<1>1. start \in Nat /\ count - start \in Nat /\ status \in {"none", "ok", "bad", "odd"}
  BY DEF TypeOK
<1>2. QED
  BY <1>1 DEF Row, Rows

\* The catch clause fills the ledger, and leaves all else to the caller.
LEMMA FailIs ==
    ASSUME TypeOK, Len(steps) < Len(Plan), NEW kind \in Failures, Fail(kind)
    PROVE  /\ failure' \in Failures /\ failure' = Reason(kind)
           /\ identity' \in [{"before", "after"} -> Identities]
           /\ steps' \in Seq(Rows) /\ Len(steps') = Len(Plan)
           /\ steps'[Len(steps) + 1].outcome = "inconclusive"
           /\ at' = "done" /\ UNCHANGED <<config, count, clock, wire, answer>>
<1> DEFINE row == Row("inconclusive", failure', "unavailable")
           head == Append(steps, row)
           rest == [i \in 1..(Len(Plan) - Len(steps) - 1) |-> Skipped]
<1>1. failure' \in Failures /\ failure' = Reason(kind)
  BY DEF Fail, Reason, Failures, TypeOK
<1>2. identity' \in [{"before", "after"} -> Identities]
  BY PhaseIs DEF Fail, IdentityAfter, Identities, TypeOK
<1>3. Len(steps) \in Nat /\ Len(Plan) - Len(steps) - 1 \in Nat
  BY PhaseIs, PlanIs
<1>4. row \in Rows /\ row.outcome = "inconclusive"
  BY <1>1, RowIs DEF Row
<1>5. /\ head \in Seq(Rows) /\ Len(head) = Len(steps) + 1
      /\ head[Len(steps) + 1] = row
  BY <1>4, AppendProperties DEF TypeOK
<1>6. rest \in Seq(Rows) /\ Len(rest) = Len(Plan) - Len(steps) - 1
  <2> DEFINE m == Len(Plan) - Len(steps) - 1
  <2>1. m \in Nat
    BY <1>3
  <2> HIDE DEF m
  <2>2. Skipped \in Rows
    BY SkippedIs
  <2>3. [i \in 1..m |-> Skipped] \in Seq(Rows) /\ Len([i \in 1..m |-> Skipped]) = m
    BY <2>1, <2>2, Filled
  <2>4. QED
    BY <2>3 DEF m
<1>7. steps' = head \o rest
  BY DEF Fail
<1> HIDE DEF head, rest, row
<1>8. /\ steps' \in Seq(Rows) /\ Len(steps') = Len(head) + Len(rest)
      /\ steps'[Len(steps) + 1] = head[Len(steps) + 1]
  <2>1. Len(steps) + 1 \in 1..Len(head)
    BY <1>3, <1>5
  <2>2. head \in Seq(Rows) /\ rest \in Seq(Rows)
    BY <1>5, <1>6
  <2>3. QED
    BY <1>7, <2>1, <2>2, Joined
<1>9. Len(steps') = Len(Plan)
  BY <1>3, <1>5, <1>6, <1>8, PlanIs
<1>10. QED
  BY <1>1, <1>2, <1>4, <1>5, <1>8, <1>9 DEF Fail

-----------------------------------------------------------------------------
(* Steps that end the requests.                                            *)

PlanKept == profile' = profile => Plan' = Plan

LEMMA PlanStays == PlanKept
BY DEF PlanKept, Plan

\* What a step that fails must have done with the permits.
Ended ==
    /\ permit' \in [Own -> Budget!Phases] /\ runStopped' = runStopped
    /\ \A r \in Own :
         /\ r <= count => permit'[r] = "settled"
         /\ r = count + 1 => /\ permit'[r] \in {"new", "refused", "settled"}
                             /\ permit'[r] = "settled" => failure' \in {"cancelled", "deadline"}
         /\ r > count + 1 => permit'[r] = "new"

LEMMA FailStep ==
    ASSUME DastInv, at # "done", NEW kind \in Failures, Fail(kind), Ended
    PROVE  DastInv'
<1>1. TypeOK /\ Standing /\ Len(steps) < Len(Plan)
  BY DEF DastInv, Standing
<1>2. /\ failure' \in Failures /\ identity' \in [{"before", "after"} -> Identities]
      /\ steps' \in Seq(Rows) /\ Len(steps') = Len(Plan) /\ at' = "done"
      /\ UNCHANGED <<profile, maxRequests, count, cause, expired, runExpired, start, address>>
      /\ UNCHANGED <<failovers, status, full>>
  BY <1>1, FailIs DEF config, clock, wire, answer
<1>3. Plan' = Plan
  BY <1>2, PlanStays DEF PlanKept
<1>4. TypeOK'
  <2>1. Len(steps') <= Len(Plan')
    BY <1>1, <1>2, <1>3, PlanIs
  <2>2. permit' \in [Own -> Budget!Phases] /\ runStopped' \in BOOLEAN
    BY <1>1 DEF Ended, TypeOK
  <2>3. at' \in Stages /\ failure' \in Failures \cup {"none"}
    BY <1>2 DEF Stages
  <2>4. QED
    BY <1>1, <1>2, <2>1, <2>2, <2>3 DEF TypeOK
<1>5. Permits'
  <2>1. SUFFICES ASSUME NEW r \in Own PROVE PermitIs(r)'
    BY <2>1 DEF Permits
  <2>2. r \in Nat /\ count \in Nat
    BY <1>1, OwnIs
  <2>3. QED
    BY <1>2, <2>2 DEF Ended, PermitIs
<1>6. Standing'
  BY <1>1, <1>2 DEF Standing, Sent, Ended
<1>7. QED
  BY <1>4, <1>5, <1>6 DEF DastInv

\* Most failures find no permit of the step, or give it back.
LEMMA QuietEnds ==
    ASSUME DastInv, at \notin {"reserve", "permitted", "done"}, UNCHANGED run \/ Release,
           at \in Sent => Release
    PROVE  Ended
<1>0. TypeOK /\ Permits
  BY DEF DastInv
<1>1. /\ permit' \in [Own -> Budget!Phases] /\ runStopped' = runStopped
      /\ \A r \in Own : permit'[r] = IF permit[r] = "granted" THEN "settled" ELSE permit[r]
  <2>1. CASE Release
    BY <1>0, <2>1, ReleaseIs
  <2>2. CASE UNCHANGED run /\ at \notin Sent
    <3>1. \A r \in Own : permit[r] # "granted"
      <4>1. SUFFICES ASSUME NEW r \in Own PROVE permit[r] # "granted"
        BY <4>1
      <4>2. r \in Nat /\ count \in Nat
        BY <1>0, OwnIs
      <4>3. QED
        BY <1>0, <2>2, <4>2 DEF Permits, PermitIs
    <3>2. QED
      BY <1>0, <2>2, <3>1 DEF run, TypeOK
  <2>3. QED
    BY <2>1, <2>2
<1>2. SUFFICES ASSUME NEW r \in Own
               PROVE  /\ r <= count => permit'[r] = "settled"
                      /\ r = count + 1 => permit'[r] = "new"
                      /\ r > count + 1 => permit'[r] = "new"
  BY <1>1, <1>2 DEF Ended
<1>3. r \in Nat /\ count \in Nat
  BY <1>0, OwnIs
<1>4. QED
  BY <1>0, <1>1, <1>3 DEF Permits, PermitIs

Failing == \/ NotStarted \/ NotResolved \/ Barred \/ Deny \/ GiveBack \/ Lose \/ BodyFails
           \/ Invalid \/ Interrupted

LEMMA FailingStep ==
    ASSUME DastInv, Failing
    PROVE  DastInv' /\ (\E kind \in Failures : Fail(kind)) /\ at # "done"
<1> USE DEF Failures
<1>0. TypeOK /\ Permits /\ count \in Nat
  BY OwnIs DEF DastInv
<1>1. at # "done" /\ \E kind \in Failures : Fail(kind)
  BY DEF Failing, NotStarted, NotResolved, Barred, Deny, GiveBack, Lose, BodyFails, Invalid,
         Interrupted
<1>2. PICK kind \in Failures : Fail(kind)
  BY <1>1
<1>3. CASE NotStarted \/ NotResolved \/ Barred \/ Invalid \/ Interrupted
  <2>1. UNCHANGED run /\ at \in {"step", "resolve", "pin", "judge"}
    BY <1>3 DEF NotStarted, NotResolved, Barred, Invalid, Interrupted
  <2>2. Ended
    BY <2>1, QuietEnds DEF Sent
  <2>3. QED
    BY <1>1, <1>2, <2>2, FailStep
<1>4. CASE Lose \/ BodyFails
  <2>1. Release /\ at \in Sent
    BY <1>4 DEF Lose, BodyFails, Sent
  <2>2. Ended
    BY <2>1, QuietEnds DEF Sent
  <2>3. QED
    BY <1>1, <1>2, <2>2, FailStep
<1>5. CASE Deny
  <2>1. at = "reserve" /\ Budget!Move(count + 1, "asked", "refused")
    BY <1>5 DEF Deny, Budget!Refuse
  <2>2. count + 1 \in Own
    BY <1>0, <2>1, OwnIs DEF DastInv, Standing
  <2>3. /\ permit' \in [Own -> Budget!Phases] /\ permit'[count + 1] = "refused"
        /\ \A r \in Own : r # count + 1 => permit'[r] = permit[r]
        /\ runStopped' = runStopped
    BY <1>0, <2>1, <2>2, MoveIs DEF Budget!Phases
  <2>4. Ended
    <3>1. SUFFICES ASSUME NEW r \in Own
                   PROVE  /\ r <= count => permit'[r] = "settled"
                          /\ r = count + 1 => permit'[r] = "refused"
                          /\ r > count + 1 => permit'[r] = "new"
      BY <2>3, <3>1 DEF Ended
    <3>2. r \in Nat
      BY OwnIs
    <3>3. QED
      BY <1>0, <2>1, <2>3, <3>2 DEF Permits, PermitIs, Sent
  <2>5. QED
    BY <1>1, <1>2, <2>4, FailStep
<1>6. CASE GiveBack
  <2>1. at = "permitted" /\ Release /\ Fail("deadline")
    BY <1>6 DEF GiveBack, GivenBack
  <2>2. failure' \in {"cancelled", "deadline"}
    BY <1>0, <2>1 DEF Fail, Reason, TypeOK
  <2>3. /\ permit' \in [Own -> Budget!Phases] /\ runStopped' = runStopped
        /\ \A r \in Own : permit'[r] = IF permit[r] = "granted" THEN "settled" ELSE permit[r]
    BY <1>0, <2>1, ReleaseIs
  <2>4. Ended
    <3>1. SUFFICES ASSUME NEW r \in Own
                   PROVE  /\ r <= count => permit'[r] = "settled"
                          /\ r = count + 1 => permit'[r] = "settled"
                          /\ r > count + 1 => permit'[r] = "new"
      BY <2>2, <2>3, <3>1 DEF Ended
    <3>2. r \in Nat
      BY OwnIs
    <3>3. QED
      BY <1>0, <2>1, <2>3, <3>2 DEF Permits, PermitIs, Sent
  <2>5. QED
    BY <1>1, <2>1, <2>4, FailStep
<1>7. QED
  BY <1>1, <1>3, <1>4, <1>5, <1>6 DEF Failing

-----------------------------------------------------------------------------
(* Steps that go on.                                                       *)

Matches == {"baseline", "false", "other", "alternate", "unavailable"}

\* An answer that is accepted adds its row.
Accepted(match) ==
    /\ steps' = Append(steps, Row("evaluated", "evaluated", match))
    /\ at' = IF Len(steps') = Len(Plan) THEN "done" ELSE "step"
    /\ start' = count /\ status' = "none" /\ address' = 1
    /\ identity' \in [{"before", "after"} -> Identities]
    /\ UNCHANGED <<config, count, clock, failovers, full, failure>>

LEMMA JudgeIs ==
    ASSUME TypeOK, Len(steps) < Len(Plan), NEW value \in Answers[Phase], Judge(value)
    PROVE  /\ at = "judge" /\ UNCHANGED run /\ ~Stopped
           /\ (\E kind \in Failures : Fail(kind)) \/ (\E match \in Matches : Accepted(match))
<1>1. Phase \in AllPhases /\ Control \in {"before", "after"}
  BY PhaseIs
<1>2. value \in {"baseline", "false", "other", "expected"}
      /\ (value = "expected" => Phase \in {"identity", "alternate"})
  BY <1>1, AnswersAssumption
<1> DEFINE match == CASE Phase = "identity" -> "unavailable"
                      [] Phase = "alternate" -> "alternate"
                      [] OTHER -> value
<1>3. match \in Matches
  BY <1>2 DEF Matches
<1>4. \/ Fail("identity_mismatch") \/ Fail("benign_control_mismatch")
      \/ /\ steps' = Append(steps, Row("evaluated", "evaluated", match))
         /\ at' = IF Len(steps') = Len(Plan) THEN "done" ELSE "step"
         /\ start' = count /\ status' = "none" /\ address' = 1
         /\ identity' = IF Phase = "identity"
                        THEN [identity EXCEPT ![Control] = "matched"] ELSE identity
         /\ UNCHANGED <<config, count, clock, failovers, full, failure>>
  BY DEF Judge
<1>5. identity \in [{"before", "after"} -> Identities] /\ "matched" \in Identities
  BY DEF TypeOK, Identities
<1> HIDE DEF match
<1>6. at = "judge" /\ UNCHANGED run /\ ~Stopped
  BY DEF Judge
<1>7. CASE Fail("identity_mismatch") \/ Fail("benign_control_mismatch")
  BY <1>6, <1>7 DEF Failures
<1>8. CASE ~(Fail("identity_mismatch") \/ Fail("benign_control_mismatch"))
  <2>1. Accepted(match)
    BY <1>1, <1>4, <1>5, <1>8 DEF Accepted
  <2>2. QED
    BY <1>3, <1>6, <2>1
<1>9. QED
  BY <1>7, <1>8

LEMMA JudgeStep ==
    ASSUME DastInv, NEW value \in Answers[Phase], Judge(value)
    PROVE  DastInv'
<1>0. TypeOK /\ Permits /\ Standing /\ at = "judge" /\ Len(steps) < Len(Plan) /\ UNCHANGED run
      /\ count \in Nat
  BY OwnIs DEF DastInv, Judge, Standing
<1>1. ASSUME NEW kind \in Failures, Fail(kind) PROVE DastInv'
  BY <1>0, <1>1, QuietEnds, FailStep DEF Sent
<1>2. ASSUME NEW match \in Matches, Accepted(match) PROVE DastInv'
  <2>1. Row("evaluated", "evaluated", match) \in Rows
    BY <1>0, RowIs DEF Matches
  <2>2. steps' \in Seq(Rows) /\ Len(steps') = Len(steps) + 1 /\ Len(steps) \in Nat
    BY <1>0, <1>2, <2>1, PhaseIs, AppendProperties DEF Accepted, TypeOK
  <2>3. /\ UNCHANGED <<permit, runStopped, profile, maxRequests, count, cause, expired>>
        /\ UNCHANGED <<runExpired, failovers, full, failure>>
        /\ start' = count /\ status' = "none" /\ address' = 1
        /\ at' = IF Len(steps') = Len(Plan) THEN "done" ELSE "step"
    BY <1>0, <1>2 DEF Accepted, run, config, clock
  <2>4. Plan' = Plan
    BY <2>3, PlanStays DEF PlanKept
  <2>5. Len(steps') <= Len(Plan') /\ (at' # "done" => Len(steps') < Len(Plan'))
    BY <1>0, <2>2, <2>3, <2>4, PlanIs
  <2>6. TypeOK'
    <3>1. start' \in 0..count' /\ address' \in 1..Addresses
      BY <1>0, <2>3
    <3>2. at' \in Stages /\ status' \in {"none", "ok", "bad", "odd"}
      BY <2>3 DEF Stages
    <3>3. identity' \in [{"before", "after"} -> Identities]
      BY <1>2 DEF Accepted
    <3>4. QED
      BY <1>0, <2>2, <2>3, <2>5, <3>1, <3>2, <3>3 DEF TypeOK
  <2>7. Permits'
    <3>1. SUFFICES ASSUME NEW r \in Own PROVE PermitIs(r)'
      BY <3>1 DEF Permits
    <3>2. r \in Nat
      BY OwnIs
    <3>3. PermitIs(r)
      BY <1>0 DEF Permits
    <3>4. QED
      BY <1>0, <2>3, <3>2, <3>3 DEF PermitIs, Sent
  <2>8. Standing'
    BY <1>0, <2>3, <2>5 DEF Standing, Sent
  <2>9. QED
    BY <2>6, <2>7, <2>8 DEF DastInv
<1>3. QED
  BY <1>0, <1>1, <1>2, JudgeIs

\* The other steps leave the ledger and the plan alone.
GoesOn == Start \/ Resolve \/ Ask \/ Grant \/ Send \/ Failover \/ Respond \/ BodyEnds

LEMMA GoesOnTypes ==
    ASSUME DastInv, GoesOn
    PROVE  TypeOK' /\ Standing' /\ Plan' = Plan
<1>0. TypeOK /\ Permits /\ Standing /\ count \in Nat /\ maxRequests \in Nat
  BY OwnIs DEF DastInv
<1>1. /\ UNCHANGED <<profile, maxRequests, cause, expired, runExpired, failure, steps, identity>>
      /\ UNCHANGED start
      /\ at # "done" /\ at' \in Stages \ {"done"}
      /\ address' \in 1..Addresses /\ failovers' \in 0..FailoverBound
      /\ status' \in {"none", "ok", "bad", "odd"} /\ full' \in BOOLEAN
      /\ count' = count \/ (count' = count + 1 /\ at = "permitted")
  <2> USE DEF config, clock, wire, answer, ledger, Stages
  <2>0. /\ address \in 1..Addresses /\ failovers \in 0..FailoverBound
        /\ status \in {"none", "ok", "bad", "odd"} /\ full \in BOOLEAN
    BY <1>0 DEF TypeOK
  <2>1. CASE Start \/ Resolve \/ Ask \/ Grant
    BY <2>0, <2>1 DEF Start, Resolve, Ask, Grant
  <2>2. CASE Send \/ Respond \/ BodyEnds
    BY <2>0, <2>2 DEF Send, Respond, BodyEnds
  <2>3. CASE Failover
    BY <2>0, <2>3 DEF Failover, Another
  <2>4. QED
    BY <2>1, <2>2, <2>3 DEF GoesOn
<1>2. permit' \in [Own -> Budget!Phases] /\ runStopped' = runStopped
  <2>1. CASE Start \/ Resolve \/ Send \/ Respond
    BY <1>0, <2>1 DEF Start, Resolve, Send, Respond, run, TypeOK
  <2>2. CASE Failover \/ BodyEnds
    BY <1>0, <2>2, ReleaseIs DEF Failover, BodyEnds
  <2>3. CASE Ask
    BY <1>0, <2>3 DEF Ask, Budget!Ask, Budget!Move, Budget!Phases, TypeOK
  <2>4. CASE Grant
    BY <1>0, <2>4 DEF Grant, Budget!Grant, Budget!Move, Budget!Phases, TypeOK
  <2>5. QED
    BY <2>1, <2>2, <2>3, <2>4 DEF GoesOn
<1>3. Plan' = Plan
  BY <1>1, PlanStays DEF PlanKept
<1>4. count' \in 0..maxRequests' /\ start' \in 0..count'
  BY <1>0, <1>1 DEF TypeOK, Standing
<1>5. TypeOK'
  BY <1>0, <1>1, <1>2, <1>3, <1>4 DEF TypeOK
<1>6. Standing'
  <2> USE DEF Standing, Sent
  <2>1. CASE Start \/ Resolve \/ Failover \/ BodyEnds
    <3>1. at' \in {"resolve", "pin", "judge"}
      BY <2>1 DEF Start, Resolve, Failover, BodyEnds
    <3>2. QED
      BY <1>0, <1>1, <1>2, <1>3, <3>1
  <2>2. CASE Ask \/ Grant
    BY <1>0, <1>1, <1>2, <1>3, <2>2 DEF Ask, Grant, Exhausted, TypeOK
  <2>3. CASE Send
    <3>1. count + 1 \in Own /\ count' = count + 1 /\ at' = "wire" /\ permit' = permit
          /\ at = "permitted"
      BY <1>0, <2>3, OwnIs DEF Send, run
    <3>2. permit[count + 1] = "granted"
      BY <1>0, <3>1 DEF Permits, PermitIs
    <3>3. QED
      BY <1>0, <1>1, <1>2, <1>3, <3>1, <3>2
  <2>4. CASE Respond
    BY <1>0, <1>1, <1>2, <1>3, <2>4 DEF Respond, run
  <2>5. QED
    BY <2>1, <2>2, <2>3, <2>4 DEF GoesOn
<1>7. QED
  BY <1>3, <1>5, <1>6

LEMMA GoesOnPermits ==
    ASSUME DastInv, GoesOn, NEW r \in Own
    PROVE  PermitIs(r)'
<1>0. TypeOK /\ Permits /\ Standing /\ count \in Nat /\ maxRequests \in Nat /\ r \in Nat
      /\ PermitIs(r)
  BY OwnIs DEF DastInv, Permits
<1> USE DEF PermitIs, Sent
<1>1. CASE Start \/ Resolve \/ Respond
  BY <1>0, <1>1 DEF Start, Resolve, Respond, run
<1>2. CASE Ask \/ Grant
  <2>1. count + 1 \in Own /\ count' = count
    BY <1>0, <1>2, OwnIs DEF Ask, Grant, Exhausted, Standing
  <2>2. CASE Ask
    BY <1>0, <2>1, <2>2, MoveIs DEF Ask, Budget!Ask, Budget!Phases
  <2>3. CASE Grant
    BY <1>0, <2>1, <2>3, MoveIs DEF Grant, Budget!Grant, Budget!Phases
  <2>4. QED
    BY <1>2, <2>2, <2>3
<1>3. CASE Send
  BY <1>0, <1>3 DEF Send, run
<1>4. CASE Failover \/ BodyEnds
  <2>1. /\ permit'[r] = IF permit[r] = "granted" THEN "settled" ELSE permit[r]
        /\ count' = count /\ at \in Sent /\ at' \in {"pin", "judge"}
    BY <1>0, <1>4, ReleaseIs DEF Failover, BodyEnds
  <2>2. QED
    BY <1>0, <2>1
<1>5. QED
  BY <1>1, <1>2, <1>3, <1>4 DEF GoesOn

-----------------------------------------------------------------------------
(* Signals and clocks, and the invariant.                                  *)

Outside == \/ \E why \in {"cancelled", "deadline"} : Abort(why)
           \/ StopRun \/ Expire \/ RunExpires \/ UNCHANGED vars

LEMMA StoppedIs ==
    ASSUME TypeOK, Budget!Stop
    PROVE  /\ runStopped' = TRUE /\ permit' \in [Own -> Budget!Phases]
           /\ \A r \in Own : permit'[r] = IF permit[r] = "granted" THEN "settled" ELSE permit[r]
BY DEF Budget!Stop, TypeOK, Budget!Phases

LEMMA OutsideStep ==
    ASSUME DastInv, Outside
    PROVE  /\ DastInv' /\ UNCHANGED <<count, steps>>
<1>0. TypeOK /\ Permits /\ Standing /\ count \in Nat
  BY OwnIs DEF DastInv
<1>1. /\ UNCHANGED <<profile, maxRequests, count, at, start, address, failovers>>
      /\ UNCHANGED <<status, full, failure, steps, identity>>
      /\ expired' \in BOOLEAN /\ runExpired' \in BOOLEAN
      /\ cause' \in {"none", "cancelled", "deadline"}
      /\ cause # "none" => cause' # "none"
  BY <1>0 DEF Outside, Abort, StopRun, Expire, RunExpires, vars, config, clock, wire, answer,
              ledger, TypeOK
<1>2. \/ /\ UNCHANGED <<permit, runStopped, cause>>
      \/ /\ cause' # "none" /\ Idle /\ permit' \in [Own -> Budget!Phases]
         /\ runStopped' \in BOOLEAN
         /\ \A r \in Own : permit'[r] = IF permit[r] = "granted" THEN "settled" ELSE permit[r]
  <2>1. CASE StopRun
    BY <1>0, <2>1, StoppedIs DEF StopRun
  <2>2. CASE \E why \in {"cancelled", "deadline"} : Abort(why)
    BY <1>0, <2>2, ReleaseIs DEF Abort, TypeOK
  <2>3. CASE Expire \/ RunExpires \/ UNCHANGED vars
    BY <2>3 DEF Expire, RunExpires, vars, run, clock
  <2>4. QED
    BY <2>1, <2>2, <2>3 DEF Outside
<1>3. Plan' = Plan
  BY <1>1, PlanStays DEF PlanKept
<1>4. TypeOK'
  BY <1>0, <1>1, <1>2, <1>3 DEF TypeOK
<1>5. Standing'
  BY <1>0, <1>1, <1>2, <1>3 DEF Standing, Sent
<1>6. Permits'
  <2>1. SUFFICES ASSUME NEW r \in Own PROVE PermitIs(r)'
    BY <2>1 DEF Permits
  <2>2. r \in Nat /\ PermitIs(r)
    BY <1>0, OwnIs DEF Permits
  <2>3. QED
    BY <1>0, <1>1, <1>2, <2>2 DEF PermitIs, Sent, Idle
<1>7. QED
  BY <1>1, <1>4, <1>5, <1>6 DEF DastInv

LEMMA NextIs ==
    ASSUME [Next]_vars
    PROVE  \/ Failing \/ GoesOn \/ Outside
           \/ \E v \in Values : v \in Answers[Phase] /\ Judge(v)
BY DEF Next, Step, Failing, GoesOn, Outside

LEMMA DastInit == Init => DastInv
<1> SUFFICES ASSUME Init PROVE DastInv
  OBVIOUS
<1>0. /\ permit = [r \in Own |-> "new"] /\ runStopped \in BOOLEAN
      /\ profile \in Profiles /\ maxRequests \in MaxChoices /\ count = 0
      /\ cause \in {"none", "cancelled", "deadline"} /\ (runStopped => cause # "none")
      /\ at = "step" /\ start = 0 /\ address = 1 /\ failovers = 0 /\ steps = <<>>
      /\ status = "none" /\ full = FALSE /\ failure = "none"
      /\ expired = FALSE /\ runExpired = FALSE
      /\ identity = [c \in {"before", "after"} |-> "not_attempted"]
  BY DEF Init, Budget!Init
<1>1. steps \in Seq(Rows) /\ Len(steps) = 0
  BY <1>0, EmptySeq
<1>3. Len(Plan) \in Nat \ {0}
  <2>1. profile \in {"plain", "auth", "json"}
    BY <1>0 DEF AllProfiles
  <2>2. /\ Len(SqlRound \o SqlRound) \in Nat \ {0}
        /\ Len(<<"identity">> \o SqlRound \o SqlRound \o <<"identity">>) \in Nat \ {0}
        /\ Len(<<"identity">> \o JsonRound \o JsonRound \o <<"identity">>) \in Nat \ {0}
    BY RoundsAre, Rounds, Zenon
  <2>3. QED
    BY <2>1, <2>2 DEF Plan
<1>4. TypeOK
  <2>1. /\ permit \in [Own -> Budget!Phases] /\ at \in Stages
        /\ identity \in [{"before", "after"} -> Identities]
    BY <1>0 DEF Budget!Phases, Stages, Identities
  <2>2. count \in 0..maxRequests /\ start \in 0..count /\ address \in 1..Addresses
        /\ failovers \in 0..FailoverBound
    BY <1>0
  <2>3. Len(steps) <= Len(Plan)
    BY <1>1, <1>3
  <2>4. QED
    BY <1>0, <1>1, <2>1, <2>2, <2>3 DEF TypeOK
<1>5. Permits
  BY <1>0, OwnIs DEF Permits, PermitIs, Sent
<1>6. Standing
  BY <1>0, <1>1, <1>3 DEF Standing, Sent
<1>7. QED
  BY <1>4, <1>5, <1>6 DEF DastInv

LEMMA DastStep == DastInv /\ [Next]_vars => DastInv'
<1> SUFFICES ASSUME DastInv, [Next]_vars PROVE DastInv'
  OBVIOUS
<1>1. CASE GoesOn
  BY <1>1, GoesOnTypes, GoesOnPermits DEF DastInv, Permits
<1>2. CASE Failing \/ Outside
  BY <1>2, FailingStep, OutsideStep
<1>3. CASE \E v \in Values : v \in Answers[Phase] /\ Judge(v)
  BY <1>3, JudgeStep
<1>4. QED
  BY <1>1, <1>2, <1>3, NextIs

LEMMA DastHolds == Spec => []DastInv
BY DastInit, DastStep, PTL DEF Spec

-----------------------------------------------------------------------------
(* The theorems.                                                           *)

\* The prober's state keeps its types; the ledger never outgrows the plan and
\* the count never exceeds the profile's limit.
THEOREM TypeCorrect == Spec => []TypeOK
<1>1. DastInv => TypeOK
  BY DEF DastInv
<1>2. QED
  BY <1>1, DastHolds, PTL

\* The permits charged are those of the attempts counted, and at most the one
\* the step under way holds or gave back.
LEMMA ChargedAre ==
    ASSUME DastInv
    PROVE  /\ IsFiniteSet(Budget!Charged) /\ Cardinality(Budget!Charged) \in {count, count + 1}
           /\ Cardinality(Budget!Charged) = count + 1 =>
                at = "permitted" \/ failure \in {"cancelled", "deadline"}
<1>0. TypeOK /\ Permits /\ Standing /\ count \in Nat /\ 1..count \subseteq Own
      /\ Own \subseteq Nat \ {0}
  <2>1. 1..maxRequests \subseteq Own /\ count \in 0..maxRequests /\ maxRequests \in Nat
    BY OwnIs DEF DastInv, TypeOK
  <2>2. QED
    BY <2>1, OwnIs DEF DastInv
<1>1. ASSUME NEW r \in Own
      PROVE  /\ r <= count => permit[r] \in {"granted", "settled"}
             /\ r > count + 1 => permit[r] \notin {"granted", "settled"}
  BY <1>0, <1>1 DEF Permits, PermitIs
<1> DEFINE charged == Budget!Charged
<1>6. /\ \A r : r \in charged <=> r \in Own /\ permit[r] \in {"granted", "settled"}
      /\ charged = Budget!Charged
  BY DEF Budget!Charged
<1> HIDE DEF charged
<1>2. CASE \E r \in Own : r = count + 1 /\ permit[r] \in {"granted", "settled"}
  <2>1. charged = 1..(count + 1)
    <3>1. ASSUME NEW r \in charged PROVE r \in 1..(count + 1)
      <4>1. r \in Own /\ permit[r] \in {"granted", "settled"}
        BY <1>6
      <4>2. r \in Nat \ {0} /\ ~(r > count + 1)
        BY <1>0, <1>1, <4>1
      <4>3. QED
        BY <1>0, <4>2
    <3>2. \A r \in 1..(count + 1) : r \in charged
      BY <1>0, <1>1, <1>2, <1>6
    <3>3. QED
      BY <3>1, <3>2
  <2>2. IsFiniteSet(Budget!Charged) /\ Cardinality(Budget!Charged) = count + 1
    BY <1>0, <1>6, <2>1, FS_Interval
  <2>3. at = "permitted" \/ failure \in {"cancelled", "deadline"}
    BY <1>0, <1>2 DEF Permits, PermitIs
  <2>4. QED
    BY <1>0, <2>2, <2>3
<1>3. CASE ~ \E r \in Own : r = count + 1 /\ permit[r] \in {"granted", "settled"}
  <2>1. charged = 1..count
    <3>1. ASSUME NEW r \in charged PROVE r \in 1..count
      <4>1. r \in Own /\ permit[r] \in {"granted", "settled"}
        BY <1>6
      <4>2. r \in Nat \ {0} /\ ~(r > count + 1) /\ r # count + 1
        BY <1>0, <1>1, <1>3, <4>1
      <4>3. QED
        BY <1>0, <4>2
    <3>2. \A r \in 1..count : r \in charged
      BY <1>0, <1>1, <1>6
    <3>3. QED
      BY <3>1, <3>2
  <2>2. IsFiniteSet(Budget!Charged) /\ Cardinality(Budget!Charged) = count
    BY <1>0, <1>6, <2>1, FS_Interval
  <2>3. QED
    BY <1>0, <2>2
<1>4. QED
  BY <1>2, <1>3

\* What the ledger counts is what the run was charged for, but for the permit a
\* stopped run gave back; no permit outlives its step.
THEOREM ChargesAlwaysReconcile == Spec => []ChargesReconcile
<1>1. ASSUME DastInv PROVE ChargesReconcile
  <2>0. TypeOK /\ Permits /\ Standing /\ count \in Nat
    BY <1>1, OwnIs DEF DastInv
  <2>1. ASSUME at \in {"step", "pin", "judge", "done"}, NEW r \in Own PROVE permit[r] # "granted"
    <3>1. r \in Nat /\ PermitIs(r)
      BY <2>0, OwnIs DEF Permits
    <3>2. QED
      BY <2>0, <2>1, <3>1 DEF PermitIs, Sent
  <2>2. /\ Cardinality(Budget!Charged) - count \in {0, 1}
        /\ failure \notin {"cancelled", "deadline"} /\ at # "permitted" =>
             Cardinality(Budget!Charged) = count
    BY <1>1, <2>0, ChargedAre
  <2>3. QED
    BY <2>0, <2>1, <2>2 DEF ChargesReconcile, Standing, Sent
<1>2. QED
  BY <1>1, DastHolds, PTL

-----------------------------------------------------------------------------
(* The prober and the run's budget together.                               *)

\* The reservation under way is one of the run's own.
LEMMA NextIsOwn == DastInv /\ (at \in {"reserve", "permitted"} \/ ~Exhausted) => count + 1 \in Own
<1> SUFFICES ASSUME DastInv, at \in {"reserve", "permitted"} \/ ~Exhausted
             PROVE  count + 1 \in Own
  OBVIOUS
<1>1. 1..maxRequests \subseteq Own /\ maxRequests \in Nat /\ count \in Nat
  BY OwnIs DEF DastInv
<1>2. count < maxRequests
  BY <1>1 DEF DastInv, Standing, Exhausted
<1>3. QED
  BY <1>1, <1>2

\* Every step of the prober is a step of the run's admission budget, or none.
LEMMA BudgetStep == DastInv /\ [Next]_vars => [Budget!Next]_(Budget!vars)
<1> SUFFICES ASSUME DastInv, [Next]_vars PROVE [Budget!Next]_(Budget!vars)
  OBVIOUS
<1> USE DEF Budget!Next, Budget!vars
<1>1. ASSUME UNCHANGED run PROVE [Budget!Next]_(Budget!vars)
  BY <1>1 DEF run
<1>2. ASSUME Release PROVE [Budget!Next]_(Budget!vars)
  <2>1. UNCHANGED run \/ \E H \in SUBSET Own : Budget!Settle(H)
    BY <1>2 DEF Release
  <2>2. QED
    BY <1>1, <2>1
<1>3. ASSUME NEW r \in Own, Budget!Ask(r) \/ Budget!Grant(r) \/ Budget!Refuse(r)
      PROVE  [Budget!Next]_(Budget!vars)
  BY <1>3
<1>4. CASE Failing
  <2>1. UNCHANGED run \/ Release \/ (at = "reserve" /\ Budget!Refuse(count + 1))
    BY <1>4 DEF Failing, NotStarted, NotResolved, Barred, Deny, GiveBack, GivenBack, Lose,
                BodyFails, Invalid, Interrupted
  <2>2. QED
    BY <1>1, <1>2, <1>3, <2>1, NextIsOwn
<1>5. CASE GoesOn
  <2>1. \/ UNCHANGED run \/ Release
        \/ ~Exhausted /\ Budget!Ask(count + 1)
        \/ at = "reserve" /\ Budget!Grant(count + 1)
    BY <1>5 DEF GoesOn, Start, Resolve, Ask, Grant, Send, Failover, Respond, BodyEnds
  <2>2. QED
    BY <1>1, <1>2, <1>3, <2>1, NextIsOwn
<1>6. CASE Outside
  <2>1. UNCHANGED run \/ Release \/ Budget!Stop
    BY <1>6 DEF Outside, Abort, StopRun, Expire, RunExpires, vars
  <2>2. QED
    BY <1>1, <1>2, <2>1
<1>7. ASSUME NEW v, Judge(v) PROVE [Budget!Next]_(Budget!vars)
  BY <1>1, <1>7 DEF Judge
<1>8. QED
  BY <1>4, <1>5, <1>6, <1>7, NextIs

BudgetHolds == Cardinality(Budget!Charged) <= RunBudget

\* Only a grant charges the run, and only while the budget lasts.
LEMMA BudgetHoldsStep ==
    ASSUME DastInv, BudgetHolds, [Next]_vars
    PROVE  BudgetHolds'
<1>0. [Budget!Next]_(Budget!vars) /\ permit \in [Own -> Budget!Phases]
  BY BudgetStep DEF DastInv, TypeOK
<1> IsFiniteSet(Budget!Charged) /\ Cardinality(Budget!Charged) \in Nat
  BY ChargedAre, FS_CardinalityType
<1>1. ASSUME NEW r \in Own, Budget!Grant(r) PROVE BudgetHolds'
  <2>1. /\ permit[r] = "asked" /\ permit' = [permit EXCEPT ![r] = "granted"]
        /\ Cardinality(Budget!Charged) < RunBudget
    BY <1>1 DEF Budget!Grant, Budget!Move, Budget!Cardinality, Cardinality
  <2>2. Budget!Charged' = Budget!Charged \cup {r} /\ r \notin Budget!Charged
    BY <1>0, <2>1 DEF Budget!Charged
  <2>3. Cardinality(Budget!Charged') = Cardinality(Budget!Charged) + 1
    BY <2>2, FS_AddElement
  <2>4. QED
    BY <2>1, <2>3 DEF BudgetHolds
<1>2. ASSUME NEW r \in Own, Budget!Ask(r) \/ Budget!Refuse(r)
      PROVE  Budget!Charged' = Budget!Charged
  BY <1>0, <1>2 DEF Budget!Ask, Budget!Refuse, Budget!Move, Budget!Charged
<1>3. ASSUME NEW S \in SUBSET Own, Budget!Settle(S) PROVE Budget!Charged' = Budget!Charged
  BY <1>0, <1>3 DEF Budget!Settle, Budget!Charged
<1>4. ASSUME Budget!Stop PROVE Budget!Charged' = Budget!Charged
  BY <1>0, <1>4 DEF Budget!Stop, Budget!Charged
<1>5. ASSUME UNCHANGED (Budget!vars) PROVE Budget!Charged' = Budget!Charged
  BY <1>5 DEF Budget!vars, Budget!Charged
<1>6. Budget!Charged' = Budget!Charged => BudgetHolds'
  BY DEF BudgetHolds
<1>7. QED
  BY <1>0, <1>1, <1>2, <1>3, <1>4, <1>5, <1>6 DEF Budget!Next

\* The prober sends no more than the run may: each attempt it counts was charged
\* to the run's budget, whatever its own limit says.
THEOREM AttemptsAreCharged == Spec => [](count <= RunBudget)
<1>1. Init => BudgetHolds
  <2> SUFFICES ASSUME Init PROVE BudgetHolds
    OBVIOUS
  <2>1. Budget!Charged = {}
    BY DEF Init, Budget!Init, Budget!Charged
  <2>2. QED
    BY <2>1, FS_EmptySet DEF BudgetHolds
<1>2. ASSUME DastInv, BudgetHolds PROVE count <= RunBudget
  <2>1. count \in Nat /\ Cardinality(Budget!Charged) \in {count, count + 1}
    BY <1>2, ChargedAre, OwnIs DEF DastInv
  <2>2. QED
    BY <1>2, <2>1 DEF BudgetHolds
<1>3. DastInv /\ BudgetHolds /\ [Next]_vars => BudgetHolds'
  BY BudgetHoldsStep
<1>4. QED
  BY <1>1, <1>2, <1>3, DastHolds, PTL DEF Spec

\* The prober draws on the run's budget only as that allows: each step of it is
\* a step of the budget or leaves the budget alone.
THEOREM BudgetIsKept == Spec => Budget!Spec
<1>1. Init => Budget!Init
  BY DEF Init
<1>2. DastInv /\ [Next]_vars => [Budget!Next]_(Budget!vars)
  BY BudgetStep
<1>3. QED
  BY <1>1, <1>2, DastHolds, PTL DEF Spec, Budget!Spec

-----------------------------------------------------------------------------
(* The ledger.                                                             *)

\* The most attempts a row may show: a POST never falls over.
Most(i) == IF profile = "json" /\ i \in Sql THEN 1 ELSE 32

\* A row that was evaluated.
Passed(i) ==
    LET row == steps[i] IN
    /\ row.outcome = "evaluated" /\ row.status = "ok" /\ row.attempts \in 1..Most(i)
    /\ row.match = "unavailable" <=> Plan[i] = "identity"
    /\ profile = "json" /\ i \in Controls => row.match = Usual(i)

\* The row of the first failure.
Cut(i) ==
    LET row == steps[i] IN
    /\ row.outcome = "inconclusive" /\ row.reason = failure /\ row.match = "unavailable"
    /\ row.attempts \in 0..Most(i)
    /\ failure \in Allowed(i)
    /\ failure \in {"identity_mismatch", "benign_control_mismatch"}
         => row.attempts >= 1 /\ row.status = "ok"

\* A row after it.
Missed(i) ==
    LET row == steps[i] IN
    /\ row.outcome = "not_attempted" /\ row.reason = "not_reached" /\ row.attempts = 0
    /\ row.status = "none" /\ row.match = "unavailable"

\* Each row starts where the one before it ended.
Ends(i) == IF i = 0 THEN 0 ELSE steps[i].start + steps[i].attempts

Chained ==
    \A i \in 1..Len(steps) : steps[i].start = Ends(i - 1) /\ Ends(i) <= count

\* While requests are made every row passed, and the step under way has made
\* an attempt for each address it tried.
Running ==
    /\ \A i \in 1..Len(steps) : Passed(i)
    /\ Ends(Len(steps)) = start
    /\ at \in {"step", "resolve"} => count = start /\ address = 1
    /\ at \in {"pin", "reserve", "permitted"} => count - start = address - 1
    /\ at \in {"wire", "body", "judge"} => count - start = address
    /\ Posts => address = 1
    /\ at # "judge" => status = "none"
    /\ profile # "plain" => /\ identity["before"] = IF Len(steps) = 0 THEN "not_attempted" ELSE "matched"
                            /\ identity["after"] = "not_attempted"

\* When they are over every row passed, or those before the first failure did.
Finished ==
    /\ Len(steps) = Len(Plan) /\ Ends(Len(steps)) = count
    /\ IF failure = "none" THEN \A i \in Ordinals : Passed(i)
       ELSE \E k \in Ordinals : /\ Cut(k) /\ \A i \in 1..(k - 1) : Passed(i)
                                /\ \A i \in (k + 1)..Len(steps) : Missed(i)
    /\ profile # "plain" => /\ identity["before"] = IdentityOf(steps[1])
                            /\ identity["after"] = IdentityOf(steps[Len(steps)])

LedgerInv == Chained /\ IF at = "done" THEN Finished ELSE Running

-----------------------------------------------------------------------------
(* The plan, position by position.                                         *)

LEMMA FramedIs ==
    ASSUME NEW round \in Seq(AllPhases)
    PROVE  \A framed : framed = <<"identity">> \o round \o round \o <<"identity">> =>
             /\ Len(framed) = Len(round) + Len(round) + 2
             /\ framed[1] = "identity" /\ framed[Len(round) + Len(round) + 2] = "identity"
             /\ \A i \in 1..(Len(round) + Len(round)) :
                  framed[i + 1] = IF i <= Len(round) THEN round[i] ELSE round[i - Len(round)]
<1>0. SUFFICES ASSUME NEW n \in Nat, Len(round) = n,
                      NEW framed, framed = <<"identity">> \o round \o round \o <<"identity">>
               PROVE  /\ Len(framed) = n + n + 2 /\ framed[1] = "identity" /\ framed[n + n + 2] = "identity"
                      /\ \A i \in 1..(n + n) :
                           framed[i + 1] = IF i <= n THEN round[i] ELSE round[i - n]
  BY LenProperties, Zenon
<1> DEFINE one == <<"identity">>  two == one \o round  three == two \o round
<1>1. one \in Seq(AllPhases) /\ Len(one) = 1 /\ one[1] = "identity"
  BY DEF AllPhases
<1> HIDE DEF one
<1>2. /\ two \in Seq(AllPhases) /\ Len(two) = 1 + n
      /\ \A i \in 1..(1 + n) : two[i] = IF i <= 1 THEN one[i] ELSE round[i - 1]
  <2>1. /\ two \in Seq(AllPhases) /\ Len(two) = Len(one) + Len(round)
        /\ \A i \in 1..Len(one) + Len(round) :
             two[i] = IF i <= Len(one) THEN one[i] ELSE round[i - Len(one)]
    BY <1>1, ConcatProperties
  <2> HIDE DEF two
  <2>2. QED
    BY <1>0, <1>1, <2>1
<1> HIDE DEF two
<1>3. /\ three \in Seq(AllPhases) /\ Len(three) = 1 + n + n
      /\ \A i \in 1..(1 + n + n) : three[i] = IF i <= 1 + n THEN two[i] ELSE round[i - (1 + n)]
  <2>1. /\ three \in Seq(AllPhases) /\ Len(three) = Len(two) + Len(round)
        /\ \A i \in 1..Len(two) + Len(round) :
             three[i] = IF i <= Len(two) THEN two[i] ELSE round[i - Len(two)]
    BY <1>2, ConcatProperties
  <2> HIDE DEF three
  <2>2. QED
    BY <1>0, <1>2, <2>1
<1> HIDE DEF three
<1>4. framed = three \o one
  BY <1>0 DEF three, two, one
<1>5. /\ Len(framed) = 1 + n + n + 1
      /\ \A i \in 1..(1 + n + n + 1) :
           framed[i] = IF i <= 1 + n + n THEN three[i] ELSE one[i - (1 + n + n)]
  <2>1. /\ Len(three \o one) = Len(three) + Len(one)
        /\ \A i \in 1..Len(three) + Len(one) :
             (three \o one)[i] = IF i <= Len(three) THEN three[i] ELSE one[i - Len(three)]
    BY <1>1, <1>3, ConcatProperties
  <2>2. QED
    BY <1>1, <1>3, <1>4, <2>1, Zenon
<1>6. framed[1] = "identity"
  BY <1>1, <1>2, <1>3, <1>5
<1>7. framed[n + n + 2] = "identity"
  <2>1. n + n + 2 \in 1..(1 + n + n + 1) /\ ~(n + n + 2 <= 1 + n + n) /\ n + n + 2 - (1 + n + n) = 1
    OBVIOUS
  <2>2. framed[n + n + 2] = one[n + n + 2 - (1 + n + n)]
    BY <1>5, <2>1
  <2>3. QED
    BY <1>1, <2>1, <2>2, Zenon
<1>8. ASSUME NEW i \in 1..(n + n)
      PROVE  framed[i + 1] = IF i <= n THEN round[i] ELSE round[i - n]
  <2>1. /\ i + 1 \in 1..(1 + n + n + 1) /\ i + 1 <= 1 + n + n /\ i + 1 \in 1..(1 + n + n)
        /\ i <= n => i + 1 <= 1 + n /\ i + 1 \in 1..(1 + n) /\ ~(i + 1 <= 1)
        /\ ~(i <= n) => ~(i + 1 <= 1 + n)
        /\ (i + 1) - 1 = i /\ (i + 1) - (1 + n) = i - n
    OBVIOUS
  <2>2. framed[i + 1] = three[i + 1]
    BY <1>5, <2>1
  <2>3. CASE i <= n
    <3>1. three[i + 1] = two[i + 1]
      BY <1>3, <2>1, <2>3
    <3>2. two[i + 1] = round[i]
      BY <1>2, <2>1, <2>3
    <3>3. QED
      BY <2>2, <2>3, <3>1, <3>2
  <2>4. CASE ~(i <= n)
    <3>1. three[i + 1] = round[i - n]
      BY <1>3, <2>1, <2>4
    <3>2. QED
      BY <2>2, <2>4, <3>1
  <2>5. QED
    BY <2>3, <2>4
<1>9. Len(framed) = n + n + 2
  BY <1>5
<1>10. QED
  BY <1>6, <1>7, <1>8, <1>9, Zenon

SqlPhases == {"baseline-before", "true", "false", "baseline-after"}

\* Which phase is where: identities at the two ends only, alternates only in
\* the JSON profile.
PlanShaped ==
    /\ Len(Plan) \in 2..12
    /\ profile = "plain" => /\ Len(Plan) >= 3 /\ Plan[2] = "true" /\ Plan[3] = "false"
                            /\ \A i \in Ordinals : Plan[i] \in SqlPhases
    /\ profile # "plain" => \A i \in Ordinals : Plan[i] = "identity" <=> i \in {1, Len(Plan)}
    /\ profile # "json"  => \A i \in Ordinals : Plan[i] # "alternate"

LEMMA PlanShape == ASSUME TypeOK PROVE PlanShaped
<1>1. profile \in {"plain", "auth", "json"}
  BY DEF TypeOK, AllProfiles
<1>2. /\ SqlRound \in Seq(AllPhases) /\ Len(SqlRound) = 4 /\ 4 \in Nat
      /\ \A i \in 1..4 : SqlRound[i] \in SqlPhases
      /\ SqlRound[2] = "true" /\ SqlRound[3] = "false"
  BY DEF SqlRound, AllPhases, SqlPhases
<1>3. /\ JsonRound \in Seq(AllPhases) /\ Len(JsonRound) = 5 /\ 5 \in Nat
      /\ \A i \in 1..5 : JsonRound[i] # "identity"
  BY DEF JsonRound, AllPhases
<1>4. CASE profile = "plain"
  <2>1. Plan = SqlRound \o SqlRound
    BY <1>4 DEF Plan
  <2>2. /\ Len(Plan) = 4 + 4
        /\ \A i \in 1..(4 + 4) : Plan[i] = IF i <= 4 THEN SqlRound[i] ELSE SqlRound[i - 4]
    <3>1. /\ Len(Plan) = Len(SqlRound) + Len(SqlRound)
          /\ \A i \in 1..Len(SqlRound) + Len(SqlRound) :
               Plan[i] = IF i <= Len(SqlRound) THEN SqlRound[i] ELSE SqlRound[i - Len(SqlRound)]
      BY <1>2, <2>1, ConcatProperties
    <3>2. QED
      BY <1>2, <3>1
  <2>3. QED
    BY <1>2, <1>4, <2>2 DEF PlanShaped, Ordinals, SqlPhases
<1>5. CASE profile = "auth"
  <2>1. Plan = <<"identity">> \o SqlRound \o SqlRound \o <<"identity">>
    BY <1>5 DEF Plan
  <2>3. /\ Len(Plan) = 4 + 4 + 2 /\ Plan[1] = "identity" /\ Plan[4 + 4 + 2] = "identity"
        /\ \A i \in 1..(4 + 4) : Plan[i + 1] = IF i <= 4 THEN SqlRound[i] ELSE SqlRound[i - 4]
    <3>0. SqlRound \in Seq(AllPhases)
      BY <1>2
    <3>1. /\ Len(Plan) = Len(SqlRound) + Len(SqlRound) + 2 /\ Plan[1] = "identity"
          /\ Plan[Len(SqlRound) + Len(SqlRound) + 2] = "identity"
          /\ \A i \in 1..(Len(SqlRound) + Len(SqlRound)) :
               Plan[i + 1] = IF i <= Len(SqlRound) THEN SqlRound[i] ELSE SqlRound[i - Len(SqlRound)]
      <4>1. \A framed : framed = <<"identity">> \o SqlRound \o SqlRound \o <<"identity">> =>
              /\ Len(framed) = Len(SqlRound) + Len(SqlRound) + 2
              /\ framed[1] = "identity" /\ framed[Len(SqlRound) + Len(SqlRound) + 2] = "identity"
              /\ \A i \in 1..(Len(SqlRound) + Len(SqlRound)) :
                   framed[i + 1] = IF i <= Len(SqlRound) THEN SqlRound[i] ELSE SqlRound[i - Len(SqlRound)]
        BY <3>0, FramedIs, Zenon
      <4>2. QED
        BY <2>1, <4>1, Zenon
    <3>2. QED
      BY <1>2, <3>1, Zenon
  <2>4. \A i \in 2..9 : Plan[i] \in SqlPhases
    <3>1. SUFFICES ASSUME NEW i \in 2..9 PROVE Plan[i] \in SqlPhases
      OBVIOUS
    <3>2. i - 1 \in 1..8 /\ (i - 1) + 1 = i
      OBVIOUS
    <3>3. Plan[i] = IF i - 1 <= 4 THEN SqlRound[i - 1] ELSE SqlRound[(i - 1) - 4]
      BY <2>3, <3>2
    <3>4. QED
      BY <1>2, <3>2, <3>3
  <2>5. QED
    BY <1>5, <2>3, <2>4 DEF PlanShaped, Ordinals, SqlPhases
<1>6. CASE profile = "json"
  <2>1. Plan = <<"identity">> \o JsonRound \o JsonRound \o <<"identity">>
    BY <1>6 DEF Plan
  <2>3. /\ Len(Plan) = 5 + 5 + 2 /\ Plan[1] = "identity" /\ Plan[5 + 5 + 2] = "identity"
        /\ \A i \in 1..(5 + 5) : Plan[i + 1] = IF i <= 5 THEN JsonRound[i] ELSE JsonRound[i - 5]
    <3>0. JsonRound \in Seq(AllPhases)
      BY <1>3
    <3>1. /\ Len(Plan) = Len(JsonRound) + Len(JsonRound) + 2 /\ Plan[1] = "identity"
          /\ Plan[Len(JsonRound) + Len(JsonRound) + 2] = "identity"
          /\ \A i \in 1..(Len(JsonRound) + Len(JsonRound)) :
               Plan[i + 1] = IF i <= Len(JsonRound) THEN JsonRound[i] ELSE JsonRound[i - Len(JsonRound)]
      <4>1. \A framed : framed = <<"identity">> \o JsonRound \o JsonRound \o <<"identity">> =>
              /\ Len(framed) = Len(JsonRound) + Len(JsonRound) + 2
              /\ framed[1] = "identity" /\ framed[Len(JsonRound) + Len(JsonRound) + 2] = "identity"
              /\ \A i \in 1..(Len(JsonRound) + Len(JsonRound)) :
                   framed[i + 1] = IF i <= Len(JsonRound) THEN JsonRound[i] ELSE JsonRound[i - Len(JsonRound)]
        BY <3>0, FramedIs, Zenon
      <4>2. QED
        BY <2>1, <4>1, Zenon
    <3>2. QED
      BY <1>3, <3>1, Zenon
  <2>4. \A i \in 2..11 : Plan[i] # "identity"
    <3>1. SUFFICES ASSUME NEW i \in 2..11 PROVE Plan[i] # "identity"
      OBVIOUS
    <3>2. i - 1 \in 1..10 /\ (i - 1) + 1 = i
      OBVIOUS
    <3>3. Plan[i] = IF i - 1 <= 5 THEN JsonRound[i - 1] ELSE JsonRound[(i - 1) - 5]
      BY <2>3, <3>2
    <3>4. QED
      BY <1>3, <3>2, <3>3
  <2>5. QED
    BY <1>6, <2>3, <2>4 DEF PlanShaped, Ordinals
<1>7. QED
  BY <1>1, <1>4, <1>5, <1>6

-----------------------------------------------------------------------------
(* The reader's running total.                                             *)

\* It is where each row of a chained ledger ends.
LEMMA TotalIs ==
    ASSUME TypeOK, Chained
    PROVE  \A k \in 0..Len(steps) : Total[k] = Ends(k)
<1> DEFINE n == Len(steps)
           W == [k \in 0..n |-> Ends(k)]
<1>1. n \in 0..12
  <2>1. n \in Nat /\ n <= Len(Plan)
    BY LenProperties DEF TypeOK
  <2>2. Len(Plan) \in 2..12
    BY PlanShape DEF PlanShaped
  <2>3. \A a, b : a \in Nat /\ b \in 2..12 /\ a <= b => a \in 0..12
    OBVIOUS
  <2>4. QED
    BY <2>1, <2>2, <2>3, Zenon
<1>2. W = [k \in 0..n |-> IF k = 0 THEN 0 ELSE W[k - 1] + steps[k].attempts]
  <2>1. ASSUME NEW k \in 0..n
        PROVE  W[k] = IF k = 0 THEN 0 ELSE W[k - 1] + steps[k].attempts
    <3>1. CASE k = 0
      BY <3>1 DEF Ends
    <3>2. CASE k # 0
      <4>1. k \in 1..n /\ k - 1 \in 0..n
        BY <1>1, <3>2
      <4>2. W[k] = Ends(k) /\ W[k - 1] = Ends(k - 1) /\ steps[k].start = Ends(k - 1)
        BY <4>1 DEF Chained
      <4>3. Ends(k) = steps[k].start + steps[k].attempts
        BY <3>2 DEF Ends
      <4>4. QED
        BY <3>2, <4>2, <4>3
    <3>3. QED
      BY <3>1, <3>2
  <2>2. QED
    BY <2>1
<1> HIDE DEF W
<1>3. Total = [k \in 0..n |-> IF k = 0 THEN 0 ELSE Total[k - 1] + steps[k].attempts]
  BY <1>2, Zenon DEF Total
<1>4. ASSUME NEW k \in 0..n
      PROVE  /\ k = 0 => Total[k] = W[k]
             /\ k # 0 /\ Total[k - 1] = W[k - 1] => Total[k] = W[k]
  <2>1. Total[k] = IF k = 0 THEN 0 ELSE Total[k - 1] + steps[k].attempts
    BY <1>3, <1>4, Zenon
  <2>2. W[k] = IF k = 0 THEN 0 ELSE W[k - 1] + steps[k].attempts
    BY <1>2, <1>4, Zenon
  <2>3. QED
    BY <2>1, <2>2
<1> DEFINE Same(k) == k <= n => Total[k] = W[k]
<1>5. Same(0)
  BY <1>1, <1>4
<1>6. ASSUME NEW k \in 0..11, Same(k) PROVE Same(k + 1)
  BY <1>1, <1>4, <1>6
<1> HIDE DEF Same
<1>7. \A k \in 0..12 : Same(k)
  BY <1>5, <1>6
<1>8. ASSUME NEW k \in 0..n PROVE Total[k] = Ends(k)
  <2>1. k \in 0..12 /\ k <= n
    <3>1. \A a, b : a \in 0..12 /\ b \in 0..a => b \in 0..12 /\ b <= a
      OBVIOUS
    <3>2. QED
      BY <1>1, <1>8, <3>1, Zenon
  <2>2. Total[k] = W[k]
    BY <1>7, <2>1 DEF Same
  <2>3. QED
    BY <2>2 DEF W
<1>9. QED
  BY <1>8

-----------------------------------------------------------------------------
(* Steps keep the ledger whole.                                            *)

\* What depends on the plan alone.
LEMMA PlanKeeps ==
    ASSUME profile' = profile
    PROVE  /\ Plan' = Plan /\ Ordinals' = Ordinals /\ Controls' = Controls /\ Sql' = Sql
           /\ \A i : Most(i)' = Most(i) /\ Usual(i)' = Usual(i) /\ Allowed(i)' = Allowed(i)
<1>1. Plan' = Plan
  BY PlanStays DEF PlanKept
<1>2. Ordinals' = Ordinals
  BY <1>1 DEF Ordinals
<1>3. Controls' = Controls /\ Sql' = Sql
  BY <1>1, <1>2 DEF Controls, Sql, Probes
<1>4. QED
  BY <1>1, <1>2, <1>3 DEF Most, Usual, Allowed

\* A row that stays is what it was.
LEMMA RowKeeps ==
    ASSUME profile' = profile, NEW i, steps'[i] = steps[i]
    PROVE  /\ Passed(i)' <=> Passed(i)
           /\ Ends(i)' = Ends(i) /\ IdentityOf(steps[i])' = IdentityOf(steps[i])
BY PlanKeeps DEF Passed, Ends, IdentityOf

\* The numbers of a chained ledger.
LEMMA EndsAre ==
    ASSUME TypeOK, Chained
    PROVE  /\ Len(steps) \in Nat /\ count \in Nat /\ start \in Nat
           /\ \A i \in 0..Len(steps) : Ends(i) \in Nat /\ Ends(i) <= count
<1>1. Len(steps) \in Nat /\ count \in Nat /\ start \in Nat
  BY LenProperties, OwnIs DEF TypeOK
<1>2. ASSUME NEW i \in 0..Len(steps) PROVE Ends(i) \in Nat /\ Ends(i) <= count
  <2>1. CASE i = 0
    BY <1>1, <2>1 DEF Ends
  <2>2. CASE i # 0
    <3>1. i \in 1..Len(steps)
      BY <1>1, <2>2
    <3>2. steps[i] \in Rows
      BY <3>1, ElementOfSeq DEF TypeOK
    <3>3. Ends(i) = steps[i].start + steps[i].attempts
      BY <2>2 DEF Ends
    <3>4. QED
      BY <3>1, <3>2, <3>3 DEF Chained, Rows
  <2>3. QED
    BY <2>1, <2>2
<1>3. QED
  BY <1>1, <1>2

LEMMA LedgerInit == Init => LedgerInv
<1> SUFFICES ASSUME Init PROVE LedgerInv
  OBVIOUS
<1>1. /\ steps = <<>> /\ count = 0 /\ start = 0 /\ at = "step" /\ address = 1
      /\ status = "none" /\ identity = [c \in {"before", "after"} |-> "not_attempted"]
  BY DEF Init
<1>2. Len(steps) = 0
  BY <1>1
<1>3. QED
  BY <1>1, <1>2 DEF LedgerInv, Chained, Running, Ends

\* Signals and clocks do not touch it.
LEMMA OutsideLedger ==
    ASSUME DastInv, LedgerInv, Outside
    PROVE  LedgerInv'
<1>1. UNCHANGED <<profile, count, at, start, address, status, failure, steps, identity>>
  BY DEF Outside, Abort, StopRun, Expire, RunExpires, vars, config, clock, wire, answer, ledger
<1>2. /\ Plan' = Plan /\ Ordinals' = Ordinals
      /\ \A i : Most(i)' = Most(i) /\ Usual(i)' = Usual(i) /\ Allowed(i)' = Allowed(i)
  BY <1>1, PlanKeeps
<1>3. \A i : /\ Passed(i)' <=> Passed(i)
             /\ Ends(i)' = Ends(i) /\ IdentityOf(steps[i])' = IdentityOf(steps[i])
  BY <1>1, RowKeeps
<1>4. \A i : (Cut(i)' <=> Cut(i)) /\ (Missed(i)' <=> Missed(i))
  BY <1>1, <1>2 DEF Cut, Missed
<1>5. Posts' <=> Posts
  BY <1>1, <1>2 DEF Posts, Phase
<1>6. Chained'
  BY <1>1, <1>3 DEF LedgerInv, Chained
<1>7. CASE at = "done"
  <2>1. Finished' <=> Finished
    BY <1>1, <1>2, <1>3, <1>4 DEF Finished
  <2>2. QED
    BY <1>1, <1>6, <1>7, <2>1 DEF LedgerInv
<1>8. CASE at # "done"
  <2>1. Running' <=> Running
    BY <1>1, <1>3, <1>5 DEF Running
  <2>2. QED
    BY <1>1, <1>6, <1>8, <2>1 DEF LedgerInv
<1>9. QED
  BY <1>7, <1>8

\* Nor do the steps of one request, which count its attempts.
LEMMA GoesOnLedger ==
    ASSUME DastInv, LedgerInv, GoesOn
    PROVE  LedgerInv'
<1>0. TypeOK /\ at # "done" /\ Chained /\ Running
  BY DEF DastInv, GoesOn, Start, Resolve, Ask, Grant, Send, Failover, Respond, BodyEnds,
         LedgerInv
<1>1. UNCHANGED <<profile, start, failure, steps, identity>>
  BY DEF GoesOn, Start, Resolve, Ask, Grant, Send, Failover, Respond, BodyEnds, config, wire,
         ledger
<1>2. Plan' = Plan /\ \A i : (Passed(i)' <=> Passed(i)) /\ Ends(i)' = Ends(i)
  BY <1>1, PlanKeeps, RowKeeps
<1>3. Posts' <=> Posts
  BY <1>1, <1>2 DEF Posts, Phase
<1>4. /\ Len(steps) \in Nat /\ count \in Nat /\ start \in Nat /\ address \in Nat
      /\ \A i \in 0..Len(steps) : Ends(i) \in Nat /\ Ends(i) <= count
  BY <1>0, EndsAre DEF TypeOK
<1>5. /\ at' # "done" /\ count' \in {count, count + 1}
      /\ at' \in {"step", "resolve"} => count' = start /\ address' = 1
      /\ at' \in {"pin", "reserve", "permitted"} => count' - start = address' - 1
      /\ at' \in {"wire", "body", "judge"} => count' - start = address'
      /\ Posts => address' = 1
      /\ at' # "judge" => status' = "none"
  <2> USE DEF Running, config, wire, answer
  <2>1. CASE Start \/ Resolve \/ Ask \/ Grant
    BY <1>0, <1>4, <2>1 DEF Start, Resolve, Ask, Grant
  <2>2. CASE Send \/ Respond
    <3>1. CASE Send
      BY <1>0, <1>4, <3>1 DEF Send
    <3>2. CASE Respond
      BY <1>0, <1>4, <3>2 DEF Respond
    <3>3. QED
      BY <2>2, <3>1, <3>2
  <2>3. CASE Failover
    <3>1. /\ ~Posts /\ at = "wire" /\ at' = "pin" /\ address' = address + 1
          /\ count' = count /\ status' = status
      BY <2>3 DEF Failover, Another
    <3>2. QED
      BY <1>0, <1>4, <3>1
  <2>4. CASE BodyEnds
    <3>1. at = "body" /\ at' = "judge" /\ address' = address /\ count' = count
      BY <2>4 DEF BodyEnds
    <3>2. QED
      BY <1>0, <1>4, <3>1
  <2>5. QED
    BY <2>1, <2>2, <2>3, <2>4 DEF GoesOn
<1>6. Chained'
  <2>1. SUFFICES ASSUME NEW i \in 1..Len(steps)
                 PROVE  steps[i].start = Ends(i - 1) /\ Ends(i) <= count'
    BY <1>1, <1>2, <2>1 DEF Chained
  <2>2. Ends(i) \in Nat /\ Ends(i) <= count
    BY <1>4
  <2>3. Ends(i) <= count'
    BY <1>4, <1>5, <2>2
  <2>4. QED
    BY <1>0, <2>3 DEF Chained
<1>7. Running'
  BY <1>0, <1>1, <1>2, <1>3, <1>5 DEF Running
<1>8. QED
  BY <1>5, <1>6, <1>7 DEF LedgerInv

\* The rows of a ledger that the first failure ends.
LEMMA FailRows ==
    ASSUME TypeOK, Len(steps) < Len(Plan), NEW kind \in Failures, Fail(kind)
    PROVE  /\ \A i \in 1..Len(steps) : steps'[i] = steps[i]
           /\ steps'[Len(steps) + 1] = Row("inconclusive", failure', "unavailable")
           /\ \A i \in (Len(steps) + 2)..Len(Plan) : steps'[i] = Skipped
<1> DEFINE row  == Row("inconclusive", failure', "unavailable")
           head == Append(steps, row)
           n    == Len(steps)
           m    == Len(Plan) - Len(steps) - 1
           rest == [i \in 1..m |-> Skipped]
<1>1. n \in Nat /\ m \in Nat /\ Len(Plan) = n + 1 + m
  BY PhaseIs, PlanIs
<1>2. row \in Rows
  <2>1. failure' \in Failures
    BY FailIs
  <2>2. QED
    BY <2>1, RowIs
<1>3. /\ head \in Seq(Rows) /\ Len(head) = n + 1 /\ head[n + 1] = row
      /\ \A i \in 1..n : head[i] = steps[i]
  BY <1>2, AppendProperties DEF TypeOK
<1>4. rest \in Seq(Rows) /\ Len(rest) = m /\ \A i \in 1..m : rest[i] = Skipped
  BY <1>1, SkippedIs, Filled
<1>5. steps' = head \o rest
  BY DEF Fail
<1> HIDE DEF head, rest, row, m
<1>6. \A i \in 1..(n + 1 + m) : steps'[i] = IF i <= n + 1 THEN head[i] ELSE rest[i - (n + 1)]
  <2>1. \A i \in 1..Len(head) + Len(rest) :
          (head \o rest)[i] = IF i <= Len(head) THEN head[i] ELSE rest[i - Len(head)]
    BY <1>3, <1>4, ConcatProperties
  <2>2. QED
    BY <1>3, <1>4, <1>5, <2>1, Zenon
<1> HIDE DEF n
<1>7. /\ \A i \in 1..n : steps'[i] = steps[i]
      /\ steps'[n + 1] = row
      /\ \A i \in (n + 2)..(n + 1 + m) : steps'[i] = Skipped
  <2>1. ASSUME NEW i \in 1..n PROVE steps'[i] = steps[i]
    <3>1. i \in 1..(n + 1 + m) /\ i <= n + 1
      BY <1>1
    <3>2. QED
      BY <1>3, <1>6, <3>1
  <2>2. steps'[n + 1] = row
    <3>1. n + 1 \in 1..(n + 1 + m) /\ n + 1 <= n + 1
      BY <1>1
    <3>2. QED
      BY <1>3, <1>6, <3>1
  <2>3. ASSUME NEW i \in (n + 2)..(n + 1 + m) PROVE steps'[i] = Skipped
    <3>1. i \in 1..(n + 1 + m) /\ ~(i <= n + 1) /\ i - (n + 1) \in 1..m
      BY <1>1
    <3>2. QED
      BY <1>4, <1>6, <3>1
  <2>4. QED
    BY <2>1, <2>2, <2>3
<1>8. QED
  BY <1>1, <1>7 DEF n, row

Mismatches == {"identity_mismatch", "benign_control_mismatch"}

\* A mismatch is found only in an answer, of the control it is about.
LEMMA FailingKind ==
    ASSUME Failing
    PROVE  \E kind \in Failures \ Mismatches : Fail(kind)
BY DEF Failing, NotStarted, NotResolved, Barred, Deny, GiveBack, Lose, BodyFails, Invalid,
       Interrupted, Failures, Mismatches

\* The first failure leaves a ledger that is cut there.
LEMMA FailLedger ==
    ASSUME DastInv, LedgerInv, at # "done", NEW kind \in Failures, Fail(kind),
           kind \in Mismatches =>
             kind \in Allowed(Len(steps) + 1) /\ at = "judge" /\ status = "ok" /\ ~Stopped
    PROVE  LedgerInv'
<1>a. SUFFICES ASSUME NEW n, n = Len(steps), NEW m, m = Len(Plan) PROVE LedgerInv'
  OBVIOUS
<1>0. TypeOK /\ Standing /\ Chained /\ Running /\ n < m
  BY <1>a DEF DastInv, LedgerInv, Standing
<1>1. /\ n \in Nat /\ count \in Nat /\ start \in Nat /\ address \in 1..32 /\ count >= start
      /\ m \in 2..12 /\ n + 1 \in Ordinals
      /\ \A i \in 0..n : Ends(i) \in Nat /\ Ends(i) <= count
  <2>1. m \in 2..12
    BY <1>0, <1>a, PlanShape DEF PlanShaped
  <2>2. /\ n \in Nat /\ count \in Nat /\ start \in Nat
        /\ \A i \in 0..n : Ends(i) \in Nat /\ Ends(i) <= count
    BY <1>0, <1>a, EndsAre
  <2>3. start <= count /\ address \in 1..32
    BY <1>0, <2>2 DEF TypeOK
  <2>4. n + 1 \in 1..Len(Plan)
    BY <1>0, <1>a, <2>1, <2>2
  <2>5. QED
    BY <2>1, <2>2, <2>3, <2>4 DEF Ordinals
<1>2. /\ failure' \in Failures /\ failure' = Reason(kind) /\ at' = "done"
      /\ Len(steps') = m /\ UNCHANGED <<profile, count, start, address, status>>
  BY <1>0, <1>a, FailIs DEF config, wire, answer
<1>3. /\ \A i \in 1..n : steps'[i] = steps[i]
      /\ steps'[n + 1] = Row("inconclusive", failure', "unavailable")
      /\ \A i \in (n + 2)..m : steps'[i] = Skipped
  BY <1>0, <1>a, FailRows
<1>4. /\ Plan' = Plan /\ Ordinals' = Ordinals
      /\ \A i : Most(i)' = Most(i) /\ Usual(i)' = Usual(i) /\ Allowed(i)' = Allowed(i)
      /\ \A i \in 1..n : (Passed(i)' <=> Passed(i)) /\ Ends(i)' = Ends(i)
  BY <1>2, <1>3, PlanKeeps, RowKeeps
<1>5. count - start \in 0..Most(n + 1)
  <2>1. CASE profile = "json" /\ n + 1 \in Sql
    <3>1. Posts
      BY <1>a, <2>1 DEF Posts, Phase, Sql, Probes, Controls
    <3>2. address = 1
      BY <1>0, <3>1 DEF Running
    <3>3. QED
      BY <1>0, <1>1, <2>1, <3>2 DEF Running, Most, Stages, TypeOK
  <2>2. CASE ~(profile = "json" /\ n + 1 \in Sql)
    BY <1>0, <1>1, <2>2 DEF Running, Most, Stages, TypeOK
  <2>3. QED
    BY <2>1, <2>2
<1>6. Ends(0)' = 0 /\ Ends(n)' = Ends(n) /\ Ends(n) = start
  BY <1>0, <1>1, <1>4, <1>a DEF Ends, Running
<1>7. Ends(n + 1)' = count /\ steps'[n + 1].start = start
  BY <1>1, <1>2, <1>3 DEF Ends, Row
<1>8. \A i \in (n + 2)..m : Ends(i)' = count /\ steps'[i].start = count
  BY <1>1, <1>2, <1>3 DEF Ends, Skipped
<1>9. Chained'
  <2>1. SUFFICES ASSUME NEW i \in 1..m
                 PROVE  steps'[i].start = Ends(i - 1)' /\ Ends(i)' <= count
    BY <1>2, <2>1 DEF Chained
  <2>2. CASE i <= n
    <3>1. i \in 1..n /\ i - 1 \in 0..n
      BY <1>1, <2>2
    <3>2. Ends(i - 1)' = Ends(i - 1) /\ Ends(i)' = Ends(i)
      <4>1. i - 1 = 0 \/ i - 1 \in 1..n
        BY <1>1, <3>1
      <4>2. QED
        BY <1>4, <1>6, <3>1, <4>1 DEF Ends
    <3>3. QED
      BY <1>0, <1>1, <1>3, <1>a, <3>1, <3>2 DEF Chained
  <2>3. CASE i = n + 1
    <3>1. i - 1 = n
      BY <1>1, <2>3
    <3>2. QED
      BY <1>1, <1>6, <1>7, <2>3, <3>1
  <2>4. CASE i > n + 1
    <3>1. i \in (n + 2)..m /\ (i - 1 = n + 1 \/ i - 1 \in (n + 2)..m)
      BY <1>1, <2>4
    <3>2. QED
      BY <1>1, <1>7, <1>8, <3>1, SMTT(20)
  <2>5. QED
    BY <1>1, <2>2, <2>3, <2>4
<1>10. Ends(m)' = count
  <2>1. m = n + 1 \/ m \in (n + 2)..m
    BY <1>0, <1>1
  <2>2. QED
    BY <1>7, <1>8, <2>1
<1>11. Cut(n + 1)'
  <2>1. /\ steps'[n + 1].outcome = "inconclusive" /\ steps'[n + 1].reason = failure'
        /\ steps'[n + 1].match = "unavailable" /\ steps'[n + 1].attempts = count - start
        /\ steps'[n + 1].status = status
    BY <1>3 DEF Row
  <2>2. failure' \notin Mismatches =>
          failure' \in Allowed(n + 1)
    BY <1>2 DEF Allowed, Mismatches
  <2>3. failure' \in Mismatches =>
          failure' \in Allowed(n + 1) /\ count - start >= 1 /\ status = "ok"
    BY <1>0, <1>1, <1>2, <1>a DEF Reason, Mismatches, Running, Stopped, TypeOK
  <2>4. QED
    BY <1>1, <1>4, <1>5, <2>1, <2>2, <2>3 DEF Cut, Mismatches
<1>12. \A i \in 1..n : Passed(i)'
  BY <1>0, <1>4, <1>a DEF Running
<1>13. \A i \in (n + 2)..m : Missed(i)'
  BY <1>3 DEF Missed, Skipped
<1>14. ASSUME profile # "plain"
       PROVE  /\ identity'["before"] = IdentityOf(steps'[1])
              /\ identity'["after"] = IdentityOf(steps'[m])
  <2>1. Phase = "identity" <=> n + 1 \in {1, m}
    BY <1>0, <1>1, <1>14, <1>a, PlanShape DEF PlanShaped, Phase
  <2>2. /\ identity["before"] = IF n = 0 THEN "not_attempted" ELSE "matched"
        /\ identity["after"] = "not_attempted"
    BY <1>0, <1>14, <1>a DEF Running
  <2>3. identity \in [{"before", "after"} -> Identities]
    BY <1>0 DEF TypeOK
  <2>4. identity' = IF Phase = "identity"
                    THEN [identity EXCEPT ![Control] = IdentityAfter(failure')] ELSE identity
    BY DEF Fail
  <2>5. IdentityOf(steps'[n + 1]) = IdentityAfter(failure')
    <3>1. /\ steps'[n + 1].outcome = "inconclusive" /\ steps'[n + 1].reason = failure'
          /\ steps'[n + 1].attempts = count - start
      BY <1>3 DEF Row
    <3>2. count - start = 0 <=> count = start
      BY <1>1
    <3>3. QED
      BY <3>1, <3>2 DEF IdentityOf, IdentityAfter
  <2>6. IdentityOf(Skipped) = "not_attempted"
    BY DEF IdentityOf, Skipped
  <2>7. CASE n = 0
    <3>1. Phase = "identity" /\ Control = "before" /\ m \in (n + 2)..m
      BY <1>1, <1>a, <2>1, <2>7 DEF Control
    <3>2. QED
      BY <1>3, <2>2, <2>3, <2>4, <2>5, <2>6, <2>7, <3>1
  <2>8. CASE n # 0
    <3>1. 1 \in 1..n /\ Control = "after" /\ n + 1 # 1
      BY <1>1, <1>a, <2>8 DEF Control
    <3>2. IdentityOf(steps'[1]) = "matched"
      BY <1>0, <1>3, <1>a, <3>1 DEF Running, Passed, IdentityOf
    <3>3. identity'["before"] = "matched"
      BY <2>2, <2>3, <2>4, <2>8, <3>1
    <3>4. CASE n + 1 = m
      BY <2>1, <2>3, <2>4, <2>5, <3>1, <3>2, <3>3, <3>4
    <3>5. CASE n + 1 # m
      <4>1. m \in (n + 2)..m
        BY <1>0, <1>1, <3>5
      <4>2. QED
        BY <1>3, <2>1, <2>2, <2>4, <2>6, <3>1, <3>2, <3>3, <3>5, <4>1
    <3>6. QED
      BY <3>4, <3>5
  <2>9. QED
    BY <2>7, <2>8
<1>15. Finished'
  <2>1. failure' # "none"
    BY <1>2 DEF Failures
  <2>2. \E k \in Ordinals' : /\ Cut(k)' /\ \A i \in 1..(k - 1) : Passed(i)'
                             /\ \A i \in (k + 1)..m : Missed(i)'
    <3>1. n + 1 \in Ordinals' /\ (n + 1) - 1 = n /\ (n + 1) + 1 = n + 2
      BY <1>1, <1>4
    <3>2. QED
      BY <1>11, <1>12, <1>13, <3>1
  <2>3. QED
    BY <1>2, <1>4, <1>10, <1>14, <1>a, <2>1, <2>2 DEF Finished
<1>16. QED
  BY <1>2, <1>9, <1>15 DEF LedgerInv

\* The match fits the phase of the step, and an identity step sets its control.
Fitting(match) ==
    /\ match = "unavailable" <=> Phase = "identity"
    /\ profile = "json" /\ Len(steps) + 1 \in Controls => match = Usual(Len(steps) + 1)
    /\ identity' = IF Phase = "identity"
                   THEN [identity EXCEPT ![Control] = "matched"] ELSE identity

LEMMA JudgeFits ==
    ASSUME TypeOK, Len(steps) < Len(Plan), NEW value \in Answers[Phase], Judge(value)
    PROVE  /\ at = "judge" /\ status = "ok" /\ ~Stopped
           /\ \/ Phase = "identity" /\ Fail("identity_mismatch")
              \/ /\ profile = "json" /\ Len(steps) + 1 \in Controls
                 /\ Fail("benign_control_mismatch")
              \/ \E match \in Matches : Accepted(match) /\ Fitting(match)
<1>1. Phase \in AllPhases /\ Control \in {"before", "after"}
  BY PhaseIs
<1>2. value \in {"baseline", "false", "other", "expected"}
      /\ (value = "expected" => Phase \in {"identity", "alternate"})
  BY <1>1, AnswersAssumption
<1>3. at = "judge" /\ status = "ok" /\ ~Stopped
  BY DEF Judge
<1> DEFINE wrong == Phase = "identity" /\ value # "expected"
           off   == /\ profile = "json" /\ Len(steps) + 1 \in Controls
                    /\ value # (IF Phase = "alternate" THEN "expected" ELSE "baseline")
           match == CASE Phase = "identity" -> "unavailable"
                      [] Phase = "alternate" -> "alternate"
                      [] OTHER -> value
<1>4. ~(wrong /\ off)
  BY DEF Controls, Phase
<1>5. /\ wrong => Fail("identity_mismatch")
      /\ off => Fail("benign_control_mismatch")
      /\ ~wrong /\ ~off =>
           /\ steps' = Append(steps, Row("evaluated", "evaluated", match))
           /\ at' = IF Len(steps') = Len(Plan) THEN "done" ELSE "step"
           /\ start' = count /\ status' = "none" /\ address' = 1
           /\ identity' = IF Phase = "identity"
                          THEN [identity EXCEPT ![Control] = "matched"] ELSE identity
           /\ UNCHANGED <<config, count, clock, failovers, full, failure>>
  BY <1>4 DEF Judge
<1>6. /\ match \in Matches
      /\ match = "unavailable" <=> Phase = "identity"
  BY <1>2 DEF Matches
<1>7. ~off /\ profile = "json" /\ Len(steps) + 1 \in Controls => match = Usual(Len(steps) + 1)
  BY DEF Controls, Usual, Phase
<1>8. identity \in [{"before", "after"} -> Identities] /\ "matched" \in Identities
  BY DEF TypeOK, Identities
<1> HIDE DEF match
<1>9. CASE wrong
  BY <1>3, <1>5, <1>9
<1>10. CASE off
  BY <1>3, <1>5, <1>10
<1>11. CASE ~wrong /\ ~off
  <2>1. Accepted(match)
    BY <1>1, <1>5, <1>8, <1>11 DEF Accepted
  <2>2. Fitting(match)
    BY <1>5, <1>6, <1>7, <1>11 DEF Fitting
  <2>3. QED
    BY <1>3, <1>6, <2>1, <2>2
<1>12. QED
  BY <1>9, <1>10, <1>11

\* An answer that is accepted adds a row that passed.
LEMMA AcceptLedger ==
    ASSUME DastInv, LedgerInv, at = "judge", status = "ok",
           NEW match \in Matches, Accepted(match), Fitting(match)
    PROVE  LedgerInv'
<1>a. SUFFICES ASSUME NEW n, n = Len(steps), NEW m, m = Len(Plan) PROVE LedgerInv'
  OBVIOUS
<1>0. TypeOK /\ Standing /\ Chained /\ Running /\ n < m /\ failure = "none"
  BY <1>a DEF DastInv, LedgerInv, Standing
<1>1. /\ n \in Nat /\ count \in Nat /\ start \in Nat /\ address \in 1..32 /\ count - start = address
      /\ m \in 2..12 /\ \A i \in 0..n : Ends(i) \in Nat /\ Ends(i) <= count
  <2>1. m \in 2..12
    BY <1>0, <1>a, PlanShape DEF PlanShaped
  <2>2. /\ n \in Nat /\ count \in Nat /\ start \in Nat
        /\ \A i \in 0..n : Ends(i) \in Nat /\ Ends(i) <= count
    BY <1>0, <1>a, EndsAre
  <2>3. address \in 1..32
    BY <1>0 DEF TypeOK
  <2>4. count - start = address
    BY <1>0 DEF Running
  <2>5. QED
    BY <2>1, <2>2, <2>3, <2>4
<1>2. /\ UNCHANGED <<profile, count, failure>> /\ start' = count /\ status' = "none"
      /\ address' = 1 /\ steps' = Append(steps, Row("evaluated", "evaluated", match))
      /\ at' = IF Len(steps') = m THEN "done" ELSE "step"
  BY <1>a DEF Accepted, config
<1>3. /\ Len(steps') = n + 1 /\ steps'[n + 1] = Row("evaluated", "evaluated", match)
      /\ \A i \in 1..n : steps'[i] = steps[i]
  <2>1. Row("evaluated", "evaluated", match) \in Rows
    BY <1>0, RowIs DEF Matches
  <2>2. steps \in Seq(Rows)
    BY <1>0 DEF TypeOK
  <2>3. QED
    BY <1>2, <1>a, <2>1, <2>2, AppendProperties
<1>4. /\ Plan' = Plan /\ Ordinals' = Ordinals /\ Controls' = Controls
      /\ \A i : Most(i)' = Most(i) /\ Usual(i)' = Usual(i)
      /\ \A i \in 1..n : (Passed(i)' <=> Passed(i)) /\ Ends(i)' = Ends(i)
  BY <1>2, <1>3, PlanKeeps, RowKeeps
<1>5. Phase = Plan[n + 1] /\ n + 1 \in Ordinals
  BY <1>0, <1>1, <1>a DEF Phase, Ordinals
<1>6. Passed(n + 1)'
  <2>1. count - start \in 1..Most(n + 1)
    <3>1. CASE profile = "json" /\ n + 1 \in Sql
      <4>1. Posts
        BY <1>a, <3>1 DEF Posts, Phase, Sql, Probes, Controls
      <4>2. address = 1
        BY <1>0, <4>1 DEF Running
      <4>3. QED
        BY <1>1, <3>1, <4>2 DEF Most
    <3>2. CASE ~(profile = "json" /\ n + 1 \in Sql)
      BY <1>1, <3>2 DEF Most
    <3>3. QED
      BY <3>1, <3>2
  <2>2. /\ steps'[n + 1].outcome = "evaluated" /\ steps'[n + 1].status = "ok"
        /\ steps'[n + 1].attempts = count - start /\ steps'[n + 1].match = match
    BY <1>3 DEF Row
  <2>3. QED
    BY <1>2, <1>4, <1>5, <1>a, <2>1, <2>2 DEF Passed, Fitting
<1>7. \A i \in 1..(n + 1) : Passed(i)'
  <2>1. \A i \in 1..n : Passed(i)'
    BY <1>0, <1>4, <1>a DEF Running
  <2>2. \A i \in 1..(n + 1) : i = n + 1 \/ i \in 1..n
    BY <1>1
  <2>3. QED
    BY <1>6, <2>1, <2>2
<1>8. Ends(0)' = 0 /\ Ends(n)' = Ends(n) /\ Ends(n) = start
  BY <1>0, <1>1, <1>4, <1>a DEF Ends, Running
<1>9. Ends(n + 1)' = count /\ steps'[n + 1].start = start
  BY <1>1, <1>2, <1>3 DEF Ends, Row
<1>10. Chained'
  <2>1. SUFFICES ASSUME NEW i \in 1..(n + 1)
                 PROVE  steps'[i].start = Ends(i - 1)' /\ Ends(i)' <= count
    BY <1>2, <1>3, <2>1 DEF Chained
  <2>2. CASE i = n + 1
    <3>1. i - 1 = n
      BY <1>1, <2>2
    <3>2. QED
      BY <1>1, <1>8, <1>9, <2>2, <3>1
  <2>3. CASE i # n + 1
    <3>1. i \in 1..n /\ i - 1 \in 0..n /\ (i - 1 = 0 \/ i - 1 \in 1..n)
      BY <1>1, <2>3
    <3>2. Ends(i - 1)' = Ends(i - 1) /\ Ends(i)' = Ends(i)
      BY <1>4, <1>8, <3>1 DEF Ends
    <3>3. QED
      BY <1>0, <1>1, <1>3, <1>a, <3>1, <3>2 DEF Chained
  <2>4. QED
    BY <2>2, <2>3
<1>11. profile # "plain" =>
         /\ identity'["before"] = "matched"
         /\ identity'["after"] = IF n + 1 = m THEN "matched" ELSE "not_attempted"
  <2>1. SUFFICES ASSUME profile # "plain"
                 PROVE  /\ identity'["before"] = "matched"
                        /\ identity'["after"] = IF n + 1 = m THEN "matched" ELSE "not_attempted"
    OBVIOUS
  <2>2. Phase = "identity" <=> n + 1 \in {1, m}
    BY <1>0, <1>5, <1>a, <2>1, PlanShape DEF PlanShaped
  <2>3. /\ identity["before"] = IF n = 0 THEN "not_attempted" ELSE "matched"
        /\ identity["after"] = "not_attempted"
    BY <1>0, <1>a, <2>1 DEF Running
  <2>4. identity \in [{"before", "after"} -> Identities]
    BY <1>0 DEF TypeOK
  <2>5. /\ identity' = IF Phase = "identity"
                       THEN [identity EXCEPT ![Control] = "matched"] ELSE identity
        /\ Control = IF n = 0 THEN "before" ELSE "after"
    BY <1>a DEF Fitting, Control
  <2>6. CASE n = 0
    BY <1>1, <2>2, <2>3, <2>4, <2>5, <2>6
  <2>7. CASE n # 0
    <3>1. n + 1 # 1
      BY <1>1, <2>7
    <3>2. CASE n + 1 = m
      BY <2>2, <2>3, <2>4, <2>5, <2>7, <3>2
    <3>3. CASE n + 1 # m
      BY <2>2, <2>3, <2>4, <2>5, <2>7, <3>1, <3>3
    <3>4. QED
      BY <3>2, <3>3
  <2>8. QED
    BY <2>6, <2>7
<1>12. CASE n + 1 = m
  <2>1. at' = "done" /\ failure' = "none"
    BY <1>0, <1>2, <1>3, <1>12
  <2>2. \A i \in Ordinals' : Passed(i)'
    BY <1>4, <1>7, <1>12, <1>a DEF Ordinals
  <2>3. profile # "plain" => /\ IdentityOf(steps'[1]) = "matched"
                             /\ IdentityOf(steps'[m]) = "matched"
    <3>1. 1 \in 1..(n + 1) /\ m \in 1..(n + 1)
      BY <1>1, <1>12
    <3>2. QED
      BY <1>7, <3>1 DEF Passed, IdentityOf
  <2>4. Finished'
    BY <1>2, <1>3, <1>4, <1>9, <1>11, <1>12, <1>a, <2>1, <2>2, <2>3 DEF Finished
  <2>5. QED
    BY <1>10, <2>1, <2>4 DEF LedgerInv
<1>13. CASE n + 1 # m
  <2>1. at' = "step"
    BY <1>2, <1>3, <1>13
  <2>2. Running'
    BY <1>1, <1>2, <1>3, <1>7, <1>9, <1>11, <1>13, <2>1 DEF Running
  <2>3. QED
    BY <1>10, <2>1, <2>2 DEF LedgerInv
<1>14. QED
  BY <1>12, <1>13

LEMMA JudgeLedger ==
    ASSUME DastInv, LedgerInv, NEW value \in Answers[Phase], Judge(value)
    PROVE  LedgerInv'
<1>1. TypeOK /\ at = "judge" /\ Len(steps) < Len(Plan)
  BY DEF DastInv, Standing, Judge
<1>2. Len(steps) + 1 \in Ordinals
  BY <1>1, PhaseIs, PlanIs DEF Ordinals
<1>3. status = "ok" /\ ~Stopped
  BY <1>1, JudgeFits
<1>4. CASE Phase = "identity" /\ Fail("identity_mismatch")
  <2>1. "identity_mismatch" \in Allowed(Len(steps) + 1)
    BY <1>4 DEF Allowed, Failures, Phase
  <2>2. QED
    BY <1>1, <1>3, <1>4, <2>1, FailLedger DEF Failures
<1>5. CASE /\ profile = "json" /\ Len(steps) + 1 \in Controls
           /\ Fail("benign_control_mismatch")
  <2>1. "benign_control_mismatch" \in Allowed(Len(steps) + 1)
    BY <1>5 DEF Allowed, Failures
  <2>2. QED
    BY <1>1, <1>3, <1>5, <2>1, FailLedger DEF Failures
<1>6. CASE \E match \in Matches : Accepted(match) /\ Fitting(match)
  BY <1>1, <1>3, <1>6, AcceptLedger
<1>7. QED
  BY <1>1, <1>4, <1>5, <1>6, JudgeFits

LEMMA LedgerHolds == Spec => []LedgerInv
<1>1. ASSUME DastInv, LedgerInv, [Next]_vars PROVE LedgerInv'
  <2>1. CASE Failing
    <3>1. \E kind \in Failures \ Mismatches : Fail(kind)
      BY <2>1, FailingKind
    <3>2. at # "done"
      BY <1>1, <2>1, FailingStep
    <3>3. QED
      BY <1>1, <3>1, <3>2, FailLedger
  <2>2. QED
    BY <1>1, <2>1, NextIs, GoesOnLedger, OutsideLedger, JudgeLedger
<1>2. QED
  BY <1>1, LedgerInit, DastHolds, PTL DEF Spec

-----------------------------------------------------------------------------
(* The sanitizer accepts the ledger.                                       *)

NoOdd == \A i \in Ordinals : steps[i].status # "odd"

\* A run that ended: where its rows stand, and what the reader counts.
LEMMA EndedIs ==
    ASSUME DastInv, LedgerInv, at = "done"
    PROVE  /\ TypeOK /\ Chained /\ Finished /\ count \in Nat /\ count <= maxRequests
           /\ Len(Plan) \in 2..12 /\ Len(steps) = Len(Plan) /\ Ordinals = 1..Len(Plan)
           /\ \A i \in Ordinals : /\ steps[i] \in Rows /\ Before(i) = steps[i].start
                                  /\ steps[i].start + steps[i].attempts = Ends(i)
                                  /\ Ends(i) \in Nat /\ Ends(i) <= count
           /\ HttpAttempts = count /\ Before(Len(Plan) + 1) = count
<1>1. TypeOK /\ Chained /\ Finished
  BY DEF DastInv, LedgerInv
<1>2. SUFFICES ASSUME NEW m, m = Len(Plan)
               PROVE  /\ count \in Nat /\ count <= maxRequests
                      /\ m \in 2..12 /\ Len(steps) = m
                      /\ \A i \in 1..m : /\ steps[i] \in Rows /\ Before(i) = steps[i].start
                                         /\ steps[i].start + steps[i].attempts = Ends(i)
                                         /\ Ends(i) \in Nat /\ Ends(i) <= count
                      /\ HttpAttempts = count /\ Before(m + 1) = count
  BY <1>1, <1>2 DEF Ordinals
<1>3. m \in 2..12 /\ Len(steps) = m /\ Ends(m) = count
  BY <1>1, <1>2, PlanShape DEF PlanShaped, Finished
<1>4. count \in Nat /\ count <= maxRequests
  BY <1>1, OwnIs DEF TypeOK
<1>5. \A k \in 0..m : Total[k] = Ends(k)
  BY <1>1, <1>3, TotalIs
<1>6. \A i \in 0..m : Ends(i) \in Nat /\ Ends(i) <= count
  BY <1>1, <1>3, EndsAre
<1>7. ASSUME NEW i \in 1..m
      PROVE  /\ steps[i] \in Rows /\ Before(i) = steps[i].start
             /\ steps[i].start + steps[i].attempts = Ends(i)
             /\ Ends(i) \in Nat /\ Ends(i) <= count
  <2>1. i - 1 \in 0..m /\ i \in 0..m /\ i # 0
    BY <1>3
  <2>2. steps[i] \in Rows
    BY <1>1, <1>3, ElementOfSeq DEF TypeOK
  <2>3. Before(i) = Ends(i - 1)
    BY <1>5, <2>1 DEF Before
  <2>4. steps[i].start = Ends(i - 1)
    BY <1>1, <1>3 DEF Chained
  <2>5. Ends(i) = steps[i].start + steps[i].attempts
    BY <2>1 DEF Ends
  <2>6. QED
    BY <1>6, <2>1, <2>2, <2>3, <2>4, <2>5
<1>8. HttpAttempts = count /\ Before(m + 1) = count
  <2>1. m \in 0..m /\ (m + 1) - 1 = m
    BY <1>3
  <2>2. Total[m] = count /\ Total[(m + 1) - 1] = count
    BY <1>3, <1>5, <2>1
  <2>3. QED
    BY <1>3, <2>2 DEF HttpAttempts, Before
<1>9. QED
  BY <1>3, <1>4, <1>7, <1>8

\* Where the run was cut, if it was.
LEMMA CutIs ==
    ASSUME DastInv, LedgerInv, at = "done"
    PROVE  \/ failure = "none" /\ \A i \in Ordinals : Passed(i)
           \/ /\ failure # "none"
              /\ \E k \in Ordinals : /\ Cut(k)
                                     /\ \A i \in Ordinals : /\ i < k => Passed(i)
                                                            /\ i > k => Missed(i)
<1>1. Finished /\ Len(steps) = Len(Plan) /\ Len(Plan) \in 2..12 /\ Ordinals = 1..Len(Plan)
  BY EndedIs
<1>2. CASE failure = "none"
  BY <1>1, <1>2 DEF Finished
<1>3. CASE failure # "none"
  <2>1. PICK k \in Ordinals : /\ Cut(k) /\ \A i \in 1..(k - 1) : Passed(i)
                              /\ \A i \in (k + 1)..Len(steps) : Missed(i)
    BY <1>1, <1>3 DEF Finished
  <2>2. ASSUME NEW i \in Ordinals
        PROVE  (i < k => Passed(i)) /\ (i > k => Missed(i))
    <3>1. (i < k => i \in 1..(k - 1)) /\ (i > k => i \in (k + 1)..Len(steps))
      BY <1>1
    <3>2. QED
      BY <2>1, <3>1
  <2>3. QED
    BY <1>3, <2>1, <2>2
<1>4. QED
  BY <1>2, <1>3

LEMMA RowsSane ==
    ASSUME DastInv, LedgerInv, at = "done", NoOdd, NEW i \in Ordinals
    PROVE  SaneRow(i)
<1>1. /\ steps[i].start = Before(i) /\ steps[i].start + steps[i].attempts <= maxRequests
      /\ steps[i].status # "odd" /\ Ordinals \subseteq Nat /\ steps[i].attempts \in Nat
  <2>1. /\ count \in Nat /\ count <= maxRequests /\ Len(Plan) \in 2..12
        /\ Ordinals = 1..Len(Plan)
        /\ steps[i] \in Rows /\ Before(i) = steps[i].start
        /\ steps[i].start + steps[i].attempts = Ends(i) /\ Ends(i) \in Nat /\ Ends(i) <= count
    BY EndedIs
  <2>2. maxRequests \in Nat
    BY EndedIs, OwnIs
  <2>3. QED
    BY <2>1, <2>2 DEF NoOdd, Rows
<1>2. Most(i) \in {1, 32} /\ Most(i) = IF profile = "json" /\ i \in Sql THEN 1 ELSE 32
  BY DEF Most
<1>3. \A j \in 1..(i - 1) : j \in Ordinals /\ j < i
  BY EndedIs
<1>4. CASE failure = "none" /\ \A j \in Ordinals : Passed(j)
  <2>1. Passed(i) /\ Reachable(i)
    BY <1>3, <1>4 DEF Passed, Reachable
  <2>2. QED
    BY <1>1, <1>2, <2>1 DEF SaneRow, Passed
<1>5. CASE \E k \in Ordinals : /\ Cut(k)
                               /\ \A j \in Ordinals : (j < k => Passed(j)) /\ (j > k => Missed(j))
  <2>1. PICK k \in Ordinals : /\ Cut(k)
                              /\ \A j \in Ordinals : (j < k => Passed(j)) /\ (j > k => Missed(j))
    BY <1>5
  <2>2. i \in Nat /\ k \in Nat
    BY <1>1
  <2>3. CASE i < k
    <3>1. Passed(i) /\ Reachable(i)
      <4>1. \A j \in 1..(i - 1) : j \in Ordinals /\ j < k
        BY <1>3, <2>2, <2>3
      <4>2. QED
        BY <2>1, <2>3, <4>1 DEF Passed, Reachable
    <3>2. QED
      BY <1>1, <1>2, <3>1 DEF SaneRow, Passed
  <2>4. CASE i = k
    <3>1. Cut(i) /\ Reachable(i)
      BY <1>3, <2>1, <2>4 DEF Passed, Reachable
    <3>2. QED
      BY <1>1, <1>2, <3>1 DEF SaneRow, Cut
  <2>5. CASE i > k
    <3>1. Missed(i)
      BY <2>1, <2>5
    <3>2. ~Reachable(i)
      <4>1. k \in 1..(i - 1)
        BY <1>1, <2>2, <2>5, EndedIs
      <4>2. QED
        BY <2>1, <4>1 DEF Cut, Reachable
    <3>3. QED
      BY <1>1, <1>2, <3>1, <3>2 DEF SaneRow, Missed
  <2>6. QED
    BY <2>2, <2>3, <2>4, <2>5
<1>6. QED
  BY <1>4, <1>5, CutIs

\* The first incomplete row is the one the failure cut, if there is one.
LEMMA IncompleteIs ==
    ASSUME DastInv, LedgerInv, at = "done"
    PROVE  /\ FirstIncomplete = {} <=> failure = "none"
           /\ failure = "none" => Evaluated(Ordinals)
           /\ \A i \in FirstIncomplete : i \in Ordinals /\ steps[i].reason = failure
           /\ \A i \in FirstIncomplete : steps[i].outcome # "evaluated"
<1>1. CASE failure = "none" /\ \A i \in Ordinals : Passed(i)
  BY <1>1 DEF FirstIncomplete, Evaluated, Passed
<1>2. CASE /\ failure # "none"
           /\ \E k \in Ordinals : /\ Cut(k)
                                  /\ \A i \in Ordinals : /\ i < k => Passed(i)
                                                         /\ i > k => Missed(i)
  <2>1. PICK k \in Ordinals : /\ Cut(k)
                              /\ \A i \in Ordinals : (i < k => Passed(i)) /\ (i > k => Missed(i))
    BY <1>2
  <2>2. k \in FirstIncomplete
    BY <2>1 DEF Cut, FirstIncomplete
  <2>3. ASSUME NEW i \in FirstIncomplete PROVE i = k
    <3>1. i \in Ordinals /\ ~Passed(i) /\ ~Missed(i)
      BY DEF FirstIncomplete, Passed, Missed
    <3>2. i \in Nat /\ k \in Nat
      BY <3>1, EndedIs
    <3>3. QED
      BY <2>1, <3>1, <3>2
  <2>4. QED
    BY <1>2, <2>1, <2>2, <2>3 DEF Cut
<1>3. QED
  BY <1>1, <1>2, CutIs

\* The two ways the code judges the unauthenticated probes agree: from the
\* values as they come, and from the rows of the ledger.
LEMMA PlainOutcome ==
    ASSUME DastInv, LedgerInv, at = "done", profile = "plain"
    PROVE  /\ ValueOutcome = ProbeOutcome
           /\ ValueOutcome # "inconclusive" =>
                failure = "none" /\ \A i \in Controls : Match(i) = "baseline"
           /\ ValueOutcome = "observed" => Differ
           /\ ValueOutcome = "not_observed" => Agree
<1> DEFINE yes    == {Match(i) : i \in {j \in Probes : Plan[j] = "true"}}
           no     == {Match(i) : i \in {j \in Probes : Plan[j] = "false"}}
           stable == \A i \in Controls : Match(i) = "baseline"
<1>1. /\ Len(Plan) >= 3 /\ Len(Plan) \in 2..12 /\ Plan[2] = "true" /\ Plan[3] = "false"
      /\ \A i \in Ordinals : Plan[i] \in SqlPhases
  BY EndedIs, PlanShape DEF PlanShaped
<1>2. Sql = Ordinals
  BY <1>1 DEF Sql, Probes, Controls, SqlPhases
<1>3. \A i \in Controls : Usual(i) = "baseline"
  BY <1>1 DEF Usual, Controls, SqlPhases
<1>4. 2 \in Probes /\ 3 \in Probes
  BY <1>1 DEF Probes, Ordinals
<1>5. Differ <=> yes = {"baseline"} /\ no = {"false"}
  <2>1. ASSUME Differ PROVE yes = {"baseline"} /\ no = {"false"}
    BY <1>1, <1>4, <2>1 DEF Differ
  <2>2. ASSUME yes = {"baseline"}, no = {"false"} PROVE Differ
    <3>1. SUFFICES ASSUME NEW i \in Probes
                   PROVE  Match(i) = IF Plan[i] = "false" THEN "false" ELSE "baseline"
      BY <3>1 DEF Differ
    <3>2. CASE Plan[i] = "false"
      <4>1. Match(i) \in no
        BY <3>2
      <4>2. QED
        BY <2>2, <3>2, <4>1
    <3>3. CASE Plan[i] # "false"
      <4>1. Plan[i] = "true"
        BY <3>3 DEF Probes
      <4>2. Match(i) \in yes
        BY <4>1
      <4>3. QED
        BY <2>2, <3>3, <4>2
    <3>4. QED
      BY <3>2, <3>3
  <2>3. QED
    BY <2>1, <2>2
<1>6. Agree <=> yes = no /\ yes \in {{"baseline"}, {"false"}}
  <2>1. Match(2) \in yes /\ Match(3) \in no
    BY <1>1, <1>4
  <2>2. \A i \in Probes : Match(i) \in yes \/ Match(i) \in no
    <3>1. \A i \in Probes : Plan[i] = "true" \/ Plan[i] = "false"
      BY DEF Probes
    <3>2. QED
      BY <3>1
  <2>3. \A v : v \in yes \/ v \in no => \E i \in Probes : v = Match(i)
    OBVIOUS
  <2>4. ASSUME Agree PROVE yes = no /\ yes \in {{"baseline"}, {"false"}}
    <3>1. \A i, j \in Probes : Match(i) = Match(j) /\ Match(i) \in {"baseline", "false"}
      BY <2>4 DEF Agree
    <3> HIDE DEF yes, no
    <3>2. \A v : v \in yes \/ v \in no => v = Match(2)
      BY <1>4, <2>3, <3>1
    <3>3. yes = {Match(2)} /\ no = {Match(2)}
      BY <1>4, <2>1, <3>1, <3>2
    <3>4. Match(2) \in {"baseline", "false"}
      BY <1>4, <3>1
    <3>5. QED
      BY <3>3, <3>4
  <2>5. ASSUME yes = no, yes \in {{"baseline"}, {"false"}} PROVE Agree
    <3> HIDE DEF yes, no
    <3>1. QED
      BY <2>2, <2>5 DEF Agree
  <2>6. QED
    BY <2>4, <2>5
<1>7. ~(Differ /\ Agree)
  <2>1. Differ => Match(2) = "baseline" /\ Match(3) = "false"
    BY <1>1, <1>4 DEF Differ
  <2>2. Agree => Match(2) = Match(3)
    BY <1>4 DEF Agree
  <2>3. QED
    BY <2>1, <2>2
<1>8. ValueOutcome = IF failure # "none" \/ ~stable THEN "inconclusive"
                     ELSE CASE yes = {"baseline"} /\ no = {"false"} -> "observed"
                            [] yes = no /\ yes \in {{"baseline"}, {"false"}} -> "not_observed"
                            [] OTHER -> "inconclusive"
  BY DEF ValueOutcome
<1>9. stable <=> ~ \E i \in Controls : Match(i) # Usual(i)
  BY <1>3
<1>10. Evaluated(Sql) <=> failure = "none"
  <2>1. failure = "none" => Evaluated(Ordinals)
    BY IncompleteIs
  <2>2. failure # "none" => \E i \in Ordinals : steps[i].outcome # "evaluated"
    BY IncompleteIs
  <2>3. QED
    BY <1>2, <2>1, <2>2 DEF Evaluated
<1> HIDE DEF yes, no, stable
<1>11. ValueOutcome = IF failure # "none" \/ ~stable THEN "inconclusive"
                      ELSE IF Differ THEN "observed"
                      ELSE IF Agree THEN "not_observed" ELSE "inconclusive"
  BY <1>5, <1>6, <1>7, <1>8
<1>12. ProbeOutcome = IF failure # "none" \/ ~stable THEN "inconclusive"
                      ELSE IF Differ THEN "observed"
                      ELSE IF Agree THEN "not_observed" ELSE "inconclusive"
  BY <1>7, <1>9, <1>10 DEF ProbeOutcome
<1>13. stable => \A i \in Controls : Match(i) = "baseline"
  BY DEF stable
<1>14. QED
  BY <1>11, <1>12, <1>13

LEMMA DerivedSane ==
    ASSUME DastInv, LedgerInv, at = "done"
    PROVE  SaneDerived /\ (profile = "plain" => SaneV1)
<1>1. profile # "plain" => /\ identity["before"] = IdentityOf(steps[1])
                           /\ identity["after"] = IdentityOf(steps[Len(Plan)])
  BY EndedIs DEF Finished
<1> DEFINE sane == IF profile # "plain" => /\ IdentityOf(steps[1]) = "matched"
                                           /\ IdentityOf(steps[Len(Plan)]) = "matched"
                   THEN ProbeOutcome ELSE "inconclusive"
<1>2. Outcome = sane
  BY <1>1, PlainOutcome DEF Outcome
<1>3. Outcome \in {"observed", "not_observed", "inconclusive"}
  <2>1. ProbeOutcome \in {"observed", "not_observed", "inconclusive"}
    BY DEF ProbeOutcome
  <2>2. QED
    BY <1>2, <2>1
<1>4. /\ FirstIncomplete = {} <=> failure = "none"
      /\ failure = "none" => Evaluated(Ordinals)
      /\ \A i \in FirstIncomplete : steps[i].reason = failure
  BY IncompleteIs
<1>5. IF FirstIncomplete = {}
      THEN StopReason = IF sane = "inconclusive" THEN "oracle_inconsistent" ELSE "none"
      ELSE \A i \in FirstIncomplete : StopReason = steps[i].reason
  BY <1>2, <1>4 DEF StopReason, Status
<1>6. SaneDerived
  BY <1>1, <1>2, <1>5 DEF SaneDerived
<1>7. ASSUME profile = "plain" PROVE SaneV1
  <2>1. Outcome = ValueOutcome
    BY <1>7 DEF Outcome
  <2>2. Outcome # "inconclusive" => failure = "none" /\ \A i \in Controls : Match(i) = "baseline"
    BY <1>7, <2>1, PlainOutcome
  <2>3. (Outcome = "observed" => Differ) /\ (Outcome = "not_observed" => Agree)
    BY <1>7, <2>1, PlainOutcome
  <2>4. /\ Status = "complete" => Evaluated(Ordinals) /\ StopReason = "none"
        /\ Status = "partial" => StopReason # "none"
    BY <1>4, <2>2 DEF Status, StopReason
  <2>5. /\ \A i \in FirstIncomplete : StopReason = steps[i].reason
        /\ FirstIncomplete = {} =>
             Evaluated(Ordinals) /\ (Status = "partial" => StopReason = "oracle_inconsistent")
    BY <1>4 DEF Status, StopReason
  <2>6. QED
    BY <2>2, <2>3, <2>4, <2>5 DEF SaneV1
<1>8. QED
  BY <1>6, <1>7

\* However a run ends, its own sanitizer accepts the ledger it leaves, unless
\* the target answered with a status no report can hold.
THEOREM LedgerIsAlwaysValid == Spec => []LedgerIsValid
<1>1. ASSUME DastInv, LedgerInv PROVE LedgerIsValid
  <2>1. SUFFICES ASSUME at = "done", NoOdd PROVE Sane
    BY <2>1 DEF LedgerIsValid, NoOdd
  <2>2. \A i \in Ordinals : SaneRow(i)
    BY <1>1, <2>1, RowsSane
  <2>3. HttpAttempts = Before(Len(Plan) + 1)
    BY <1>1, <2>1, EndedIs
  <2>4. QED
    BY <1>1, <2>1, <2>2, <2>3, DerivedSane DEF Sane
<1>2. QED
  BY <1>1, DastHolds, LedgerHolds, PTL

-----------------------------------------------------------------------------
(* A run that was cut.                                                     *)

\* The failure that ended it is the cut.
CutIsNamed == at = "done" /\ WasCut => failure = IF cause # "none" THEN cause ELSE "deadline"

LEMMA CutStep == DastInv /\ CutIsNamed /\ [Next]_vars => CutIsNamed'
<1> SUFFICES ASSUME DastInv, CutIsNamed, [Next]_vars PROVE CutIsNamed'
  OBVIOUS
<1>0. TypeOK /\ Standing
  BY DEF DastInv
<1>1. ASSUME NEW kind \in Failures, Fail(kind) PROVE CutIsNamed'
  BY <1>1 DEF Fail, Reason, CutIsNamed, WasCut, clock
<1>2. CASE Failing
  BY <1>1, <1>2, FailingStep
<1>3. CASE GoesOn
  <2>1. at' # "done"
    BY <1>3 DEF GoesOn, Start, Resolve, Ask, Grant, Send, Failover, Respond, BodyEnds
  <2>2. QED
    BY <2>1 DEF CutIsNamed
<1>4. CASE Outside
  <2>1. UNCHANGED <<at, failure>>
    BY <1>4 DEF Outside, Abort, StopRun, Expire, RunExpires, vars, ledger
  <2>2. at = "done" => UNCHANGED <<cause, expired>>
    BY <1>4 DEF Outside, Abort, StopRun, Expire, RunExpires, Idle, vars, clock
  <2>3. QED
    BY <2>1, <2>2 DEF CutIsNamed, WasCut
<1>5. ASSUME NEW v \in Answers[Phase], Judge(v) PROVE CutIsNamed'
  <2>1. at = "judge" /\ Len(steps) < Len(Plan)
    BY <1>0, <1>5 DEF Judge, Standing
  <2>2. ~Stopped /\ ((\E kind \in Failures : Fail(kind)) \/ \E match \in Matches : Accepted(match))
    BY <1>0, <1>5, <2>1, JudgeIs
  <2>3. CASE \E match \in Matches : Accepted(match)
    BY <2>2, <2>3 DEF Accepted, Stopped, CutIsNamed, WasCut, clock
  <2>4. QED
    BY <1>1, <2>2, <2>3
<1>6. QED
  BY <1>2, <1>3, <1>4, <1>5, NextIs

\* No ledger with a failure concludes anything: the row it cut is a probe's or
\* a control's, or stands for an identity that did not match.
LEMMA FailedIsInconclusive ==
    ASSUME DastInv, LedgerInv, at = "done", failure # "none"
    PROVE  Outcome = "inconclusive"
<1>1. CASE profile = "plain"
  BY <1>1 DEF Outcome, ValueOutcome
<1>2. CASE profile # "plain"
  <2>1. PICK k \in Ordinals : Cut(k)
    BY CutIs
  <2>2. Plan[k] = "identity" <=> k \in {1, Len(Plan)}
    BY <1>2, EndedIs, PlanShape DEF PlanShaped
  <2>3. steps[k].outcome = "inconclusive"
    BY <2>1 DEF Cut
  <2>4. CASE Plan[k] = "identity"
    <3>1. IdentityOf(steps[k]) # "matched"
      BY <2>3 DEF IdentityOf
    <3>2. /\ identity["before"] = IdentityOf(steps[1])
          /\ identity["after"] = IdentityOf(steps[Len(Plan)])
      BY <1>2, EndedIs DEF Finished
    <3>3. QED
      BY <1>2, <2>2, <2>4, <3>1, <3>2 DEF Outcome
  <2>5. CASE Plan[k] # "identity"
    <3>1. Plan[k] \in AllPhases
      BY <2>1, EndedIs, PlanIs, ElementOfSeq
    <3>2. k \in Sql
      BY <2>1, <2>5, <3>1 DEF AllPhases, Sql, Probes, Controls
    <3>3. ProbeOutcome = "inconclusive"
      BY <2>3, <3>2 DEF ProbeOutcome, Evaluated
    <3>4. QED
      BY <1>2, <3>3 DEF Outcome
  <2>6. QED
    BY <2>4, <2>5
<1>3. QED
  BY <1>1, <1>2

\* A run of any profile that was cancelled, stopped or out of time before its
\* last row names that as its stop reason, before whatever failed after it, and
\* its ledger, of any answers, concludes nothing.
THEOREM CutIsAlwaysReported == Spec => []CutIsReported
<1>1. Init => CutIsNamed
  BY DEF Init, CutIsNamed
<1>2. ASSUME DastInv, LedgerInv, CutIsNamed PROVE CutIsReported
  <2>1. SUFFICES ASSUME at = "done", WasCut
                 PROVE  /\ StopReason = IF cause # "none" THEN cause ELSE "deadline"
                        /\ Outcome = "inconclusive"
    BY <2>1 DEF CutIsReported
  <2>2. failure = (IF cause # "none" THEN cause ELSE "deadline") /\ failure # "none"
    BY <1>2, <2>1 DEF CutIsNamed
  <2>3. QED
    BY <1>2, <2>1, <2>2, FailedIsInconclusive DEF StopReason
<1>3. DastInv /\ CutIsNamed /\ [Next]_vars => CutIsNamed'
  BY CutStep
<1>4. QED
  BY <1>1, <1>2, <1>3, DastHolds, LedgerHolds, PTL DEF Spec

-----------------------------------------------------------------------------
(* The end of a run.                                                       *)

\* How far a request has to go, how many addresses it may still try, and how
\* many rows are open.  A signal is aborted and a clock runs out once.
Rank == CASE at = "step"      -> 8
          [] at = "resolve"   -> 7
          [] at = "pin"       -> 6
          [] at = "reserve"   -> 5
          [] at = "permitted" -> 4
          [] at = "wire"      -> 3
          [] at = "body"      -> 2
          [] at = "judge"     -> 1
          [] at = "done"      -> 0

Once(happens) == IF happens THEN 0 ELSE 1

Ahead  == 288 * (Len(Plan) - Len(steps)) + 9 * (Addresses - address) + Rank
Alarms == Once(cause # "none") + Once(runStopped) + Once(expired) + Once(runExpired)

Measure == Ahead + Alarms

LEMMA RankIs == TypeOK => /\ Rank \in 0..8 /\ (at # "done" => Rank > 0)
                          /\ Addresses - address \in 0..31
                          /\ Len(steps) \in Nat /\ Len(Plan) \in Nat /\ Len(steps) <= Len(Plan)
<1> SUFFICES ASSUME TypeOK
             PROVE  /\ Rank \in 0..8 /\ (at # "done" => Rank > 0)
                    /\ Addresses - address \in 0..31
                    /\ Len(steps) \in Nat /\ Len(Plan) \in Nat /\ Len(steps) <= Len(Plan)
  OBVIOUS
<1>1. Rank \in 0..8 /\ (at # "done" => Rank > 0)
  <2>1. at \in Stages
    BY DEF TypeOK
  <2>2. at \in {"step", "resolve", "pin", "reserve"} => Rank \in 5..8
    BY DEF Rank
  <2>3. at \in {"permitted", "wire", "body", "judge"} => Rank \in 1..4
    BY DEF Rank
  <2>4. at = "done" => Rank = 0
    BY DEF Rank
  <2>5. QED
    BY <2>1, <2>2, <2>3, <2>4 DEF Stages
<1>2. Addresses - address \in 0..31
  BY DEF TypeOK
<1>3. Len(steps) \in Nat /\ Len(Plan) \in Nat /\ Len(steps) <= Len(Plan)
  BY PlanIs, LenProperties DEF TypeOK
<1>4. QED
  BY <1>1, <1>2, <1>3

LEMMA AlarmsAre == Alarms \in 0..4
BY DEF Alarms, Once

\* A step that fails or goes on rings no alarm.
LEMMA StepIsQuiet ==
    ASSUME DastInv, Step
    PROVE  Alarms' = Alarms
<1>0. TypeOK
  BY DEF DastInv
<1>1. UNCHANGED clock
  <2>1. (\E kind : Fail(kind)) => UNCHANGED clock
    BY DEF Fail
  <2>2. CASE Failing
    BY <2>1, <2>2, FailingStep
  <2>3. CASE GoesOn
    BY <2>3 DEF GoesOn, Start, Resolve, Ask, Grant, Send, Failover, Respond, BodyEnds
  <2>4. ASSUME NEW v, Judge(v) PROVE UNCHANGED clock
    BY <2>1, <2>4 DEF Judge
  <2>5. QED
    BY <2>2, <2>3, <2>4 DEF Step, Failing, GoesOn
<1>2. runStopped' = runStopped
  <2>1. \/ UNCHANGED run \/ Release
        \/ Budget!Ask(count + 1) \/ Budget!Grant(count + 1) \/ Budget!Refuse(count + 1)
    BY DEF Step, NotStarted, Start, Resolve, NotResolved, Barred, Ask, Deny, Grant, GiveBack,
           GivenBack, Send, Failover, Lose, Respond, BodyFails, BodyEnds, Invalid, Interrupted,
           Judge
  <2>2. QED
    BY <1>0, <2>1, ReleaseIs DEF run, Budget!Ask, Budget!Grant, Budget!Refuse, Budget!Move
<1>3. QED
  BY <1>1, <1>2 DEF clock, Alarms, Once

\* A failure ends the requests.
LEMMA FailShortens ==
    ASSUME DastInv, at # "done", NEW kind \in Failures, Fail(kind)
    PROVE  Ahead' < Ahead /\ Ahead' \in Nat
<1>1. TypeOK /\ Len(steps) < Len(Plan)
  BY DEF DastInv, Standing
<1>2. Len(steps') = Len(Plan) /\ at' = "done" /\ UNCHANGED <<address, profile>>
  BY <1>1, FailIs DEF wire, config
<1>3. Plan' = Plan
  BY <1>2, PlanStays DEF PlanKept
<1>4. Rank' = 0
  BY <1>2 DEF Rank
<1>5. /\ Rank \in 0..8 /\ Rank > 0 /\ Addresses - address \in 0..31
      /\ Len(steps) \in Nat /\ Len(Plan) \in Nat
  BY <1>1, RankIs
<1>6. PICK rank, other, written, planned :
        /\ rank = Rank /\ other = Addresses - address /\ written = Len(steps) /\ planned = Len(Plan)
  OBVIOUS
<1>7. /\ Ahead = 288 * (planned - written) + 9 * other + rank
      /\ Ahead' = 288 * (planned - planned) + 9 * other
  BY <1>2, <1>3, <1>4, <1>5, <1>6 DEF Ahead
<1>8. rank \in 1..8 /\ other \in 0..31 /\ planned \in Nat /\ written \in Nat /\ written < planned
  BY <1>1, <1>5, <1>6
<1>9. QED
  BY <1>7, <1>8

\* An accepted answer closes a row, and the next one starts with all addresses.
LEMMA AcceptShortens ==
    ASSUME DastInv, at = "judge", NEW match \in Matches, Accepted(match)
    PROVE  Ahead' < Ahead
<1>1. TypeOK /\ Len(steps) < Len(Plan)
  BY DEF DastInv, Standing
<1>2. Row("evaluated", "evaluated", match) \in Rows
  BY <1>1, RowIs DEF Matches
<1>3. Len(steps') = Len(steps) + 1 /\ address' = 1 /\ profile' = profile
  BY <1>1, <1>2, AppendProperties DEF Accepted, TypeOK, config
<1>4. Plan' = Plan
  BY <1>3, PlanStays DEF PlanKept
<1>5. Rank' \in 0..8 /\ Rank = 1
  BY DEF Accepted, Rank
<1>6. /\ Addresses - address \in 0..31 /\ Addresses - 1 \in 0..31
      /\ Len(steps) \in Nat /\ Len(Plan) \in Nat
  BY <1>1, RankIs
<1>7. PICK rank, all, other, written, planned :
        /\ rank = Rank' /\ all = Addresses - 1 /\ other = Addresses - address
        /\ written = Len(steps) /\ planned = Len(Plan)
  OBVIOUS
<1>8. /\ Ahead = 288 * (planned - written) + 9 * other + 1
      /\ Ahead' = 288 * (planned - (written + 1)) + 9 * all + rank
  BY <1>3, <1>4, <1>5, <1>7 DEF Ahead
<1>9. /\ rank \in 0..8 /\ all \in 0..31 /\ other \in 0..31 /\ planned \in Nat /\ written \in Nat
  BY <1>5, <1>6, <1>7
<1>10. QED
  BY <1>8, <1>9

\* Any other step brings the request forward, or to its next address.
LEMMA GoesOnShortens ==
    ASSUME DastInv, GoesOn
    PROVE  Ahead' < Ahead
<1>1. TypeOK /\ TypeOK' /\ Plan' = Plan
  BY GoesOnTypes DEF DastInv
<1>2. steps' = steps
  BY DEF GoesOn, Start, Resolve, Ask, Grant, Send, Failover, Respond, BodyEnds, ledger
<1>3. \/ address' = address /\ Rank' = Rank - 1
      \/ address' = address + 1 /\ Rank' = Rank + 3
  <2>1. CASE Failover
    BY <2>1 DEF Failover, Rank
  <2>2. CASE Start \/ Resolve \/ Ask \/ Grant
    BY <2>2 DEF Start, Resolve, Ask, Grant, Rank, wire
  <2>3. CASE Send \/ Respond \/ BodyEnds
    <3>1. /\ address' = address
          /\ \/ at = "permitted" /\ at' = "wire"
             \/ at = "wire" /\ at' = "body"
             \/ at = "body" /\ at' = "judge"
      BY <2>3 DEF Send, Respond, BodyEnds, wire
    <3>2. QED
      BY <3>1 DEF Rank
  <2>4. QED
    BY <2>1, <2>2, <2>3 DEF GoesOn
<1>4. /\ Rank \in 0..8 /\ Len(steps) \in Nat /\ Len(Plan) \in Nat
      /\ address \in Nat /\ Addresses \in Nat
  <2>1. Rank \in 0..8 /\ Len(steps) \in Nat /\ Len(Plan) \in Nat
    BY <1>1, RankIs
  <2>2. address \in Nat /\ Addresses \in Nat
    BY <1>1 DEF TypeOK
  <2>3. QED
    BY <2>1, <2>2
<1>5. PICK rows, rank : rows = 288 * (Len(Plan) - Len(steps)) /\ rows \in Int /\ rank = Rank
  BY <1>4
<1>6. /\ Ahead = rows + 9 * (Addresses - address) + rank
      /\ Ahead' = rows + 9 * (Addresses - address') + Rank'
  BY <1>1, <1>2, <1>5 DEF Ahead
<1>7. CASE address' = address /\ Rank' = Rank - 1
  <2>1. Ahead' = rows + 9 * (Addresses - address) + (rank - 1)
    BY <1>5, <1>6, <1>7
  <2>2. QED
    BY ONLY <1>4, <1>5, <1>6, <2>1
<1>8. CASE address' = address + 1 /\ Rank' = Rank + 3
  <2>1. Ahead' = rows + 9 * (Addresses - (address + 1)) + (rank + 3)
    BY <1>5, <1>6, <1>8
  <2>2. QED
    BY ONLY <1>4, <1>5, <1>6, <2>1
<1>9. QED
  BY <1>3, <1>7, <1>8

Measured == Ahead \in 0..3743 /\ Alarms \in 0..4

LEMMA MeasureIs == TypeOK => Measured
<1> SUFFICES ASSUME TypeOK PROVE Measured
  OBVIOUS
<1>1. Len(Plan) \in 2..12
  BY PlanShape DEF PlanShaped
<1>2. PICK rank, other, written, planned :
        /\ rank = Rank /\ other = Addresses - address /\ written = Len(steps) /\ planned = Len(Plan)
  OBVIOUS
<1>3. /\ rank \in 0..8 /\ other \in 0..31 /\ written \in Nat /\ planned \in 2..12
      /\ written <= planned
  BY <1>1, <1>2, RankIs
<1>4. Ahead = 288 * (planned - written) + 9 * other + rank
  BY <1>2 DEF Ahead
<1>5. PICK open : open = planned - written
  OBVIOUS
<1>6. open \in 0..12
  BY ONLY <1>3, <1>5
<1>7. Ahead = 288 * open + 9 * other + rank
  BY ONLY <1>4, <1>5
<1>8. Ahead \in 0..3743
  BY ONLY <1>3, <1>6, <1>7
<1>9. QED
  BY ONLY <1>8, AlarmsAre DEF Measured

\* Whatever a target answers and however a run is cut, every step brings it
\* nearer to its end: no run of the prober takes more than 3747 of them, so none
\* of its loops over rounds, rows and addresses goes on for ever.
THEOREM RunsAreFinite == Spec => [](Measure \in 0..3747) /\ [][Measure' < Measure]_vars
<1>1. Measured => Measure \in 0..3747
  <2>1. ASSUME Measured PROVE Measure \in 0..3747
    <3>1. Ahead \in 0..3743 /\ Alarms \in 0..4
      BY <2>1 DEF Measured
    <3>2. QED
      BY <3>1 DEF Measure
  <2>2. QED
    BY <2>1
<1>2. ASSUME DastInv, Measured, Measured', [Next]_vars PROVE [Measure' < Measure]_vars
  <2>0. TypeOK
    BY <1>2 DEF DastInv
  <2>1. PICK a, b, c, d : a = Ahead /\ b = Alarms /\ c = Ahead' /\ d = Alarms'
    OBVIOUS
  <2>2. /\ a \in 0..3743 /\ b \in 0..4 /\ c \in 0..3743 /\ d \in 0..4
        /\ Measure = a + b /\ Measure' = c + d
    BY <1>2, <2>1 DEF Measured, Measure
  <2>3. CASE Step
    <3>1. Alarms' = Alarms
      BY <1>2, <2>3, StepIsQuiet
    <3>2. Ahead' < Ahead
      <4>1. CASE Failing
        BY <1>2, <4>1, FailingStep, FailShortens
      <4>2. CASE GoesOn
        BY <1>2, <4>2, GoesOnShortens
      <4>3. ASSUME NEW v \in Values, v \in Answers[Phase], Judge(v) PROVE Ahead' < Ahead
        <5>1. at = "judge" /\ Len(steps) < Len(Plan)
          BY <1>2, <4>3 DEF Judge, DastInv, Standing
        <5>2. \/ \E kind \in Failures : Fail(kind)
              \/ \E match \in Matches : Accepted(match)
          BY <2>0, <4>3, <5>1, JudgeIs
        <5>3. QED
          BY <1>2, <5>1, <5>2, FailShortens, AcceptShortens
      <4>4. QED
        BY <2>3, <4>1, <4>2, <4>3 DEF Step, Failing, GoesOn
    <3>3. c < a /\ d = b
      BY <2>1, <3>1, <3>2
    <3>4. c + d < a + b
      BY ONLY <2>2, <3>3
    <3>5. Measure' < Measure
      BY <2>2, <3>4
    <3>6. QED
      BY <3>5
  <2>4. CASE ~Step /\ Next
    <3>1. Ahead' = Ahead
      <4>1. UNCHANGED <<profile, steps, address, at>>
        BY <2>4 DEF Next, Abort, StopRun, Expire, RunExpires, config, ledger, wire
      <4>2. Plan' = Plan
        BY <4>1, PlanStays DEF PlanKept
      <4>3. QED
        BY <4>1, <4>2 DEF Ahead, Rank
    <3>2. Alarms' < Alarms
      <4>1. CASE Expire \/ RunExpires
        BY <4>1 DEF Expire, RunExpires, Alarms, Once, run
      <4>2. CASE StopRun
        BY <4>2 DEF StopRun, Budget!Stop, Alarms, Once
      <4>3. ASSUME NEW why \in {"cancelled", "deadline"}, Abort(why) PROVE Alarms' < Alarms
        <5>1. runStopped' = runStopped
          BY <2>0, <4>3, ReleaseIs DEF Abort
        <5>2. QED
          BY <4>3, <5>1 DEF Abort, Alarms, Once
      <4>4. QED
        BY <2>4, <4>1, <4>2, <4>3 DEF Next
    <3>3. c = a /\ d < b
      BY <2>1, <3>1, <3>2
    <3>4. c + d < a + b
      BY ONLY <2>2, <3>3
    <3>5. Measure' < Measure
      BY <2>2, <3>4
    <3>6. QED
      BY <3>5
  <2>5. QED
    BY <1>2, <2>3, <2>4
<1>3. Spec => []Measured
  BY MeasureIs, TypeCorrect, PTL
<1>4. QED
  BY <1>1, <1>2, <1>3, DastHolds, PTL DEF Spec
=============================================================================

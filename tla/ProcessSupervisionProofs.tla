---------------------- MODULE ProcessSupervisionProofs ----------------------
(***************************************************************************)
(* Proofs about ProcessSupervision, for any output limit and any chunks.   *)
(*                                                                         *)
(* The invariant is about a supervisor and a child, which the functions of *)
(* the supervisor and the events of the child move apart: Fit is what they *)
(* share at any time, Waits what a call that waits adds, Done what one     *)
(* that gave its result does.                                              *)
(***************************************************************************)
EXTENDS ProcessSupervision, FiniteSetTheorems, TLAPS

USE LaneAssumption, SizeAssumption

\* A cause, or none, for the shutdown.
Whys == {{}} \cup {{r} : r \in Reasons}

AgentReasons == {"cancelled", "timeout", "output_limit"}

\* No process of the group is left, when the child is at c.
Left(c) == c = "running" \/ others

\* The supervisor's books: one cause and one shutdown but in plain; an exit and
\* a close it noted are its child's, and without a child there are neither.
Fit(s, c) ==
    /\ s \in Supervisors /\ s.kills <= s.settles /\ s.settles <= s.begun
    /\ lane # "plain" => s.reason \in Whys /\ s.begun = IF s.stopping THEN 1 ELSE 0
    /\ lane # "plain" /\ s.code # "none" => s.pid /\ s.code = code
    /\ lane # "plain" /\ s.closed /\ s.pid => c = "closed"
    /\ lane = "agent" => /\ s.reason \subseteq AgentReasons \cup {"spawn_error"}
                         /\ "spawn_error" \in s.reason => ~s.pid
    /\ s.poll => lane = "agent"
    /\ ~s.pid => ~Left(c)

\* A call that waits.
Waits(s, c) ==
    /\ ~s.settled /\ ~Ended(s.state)
    /\ c = "idle" => s = Fresh
    /\ lane = "plain" => c # "closed" /\ (c = "told" => s.pid)

\* What plain takes for a run of the tool, when the call is over.
Ran(s, c) == c = "closed" /\ s.code = code /\ code # "none"

\* A call that gave its result.
Done(s, c) ==
    /\ s.settled /\ ~s.deadline /\ ~s.poll
    /\ s.settles > 0 => lane = "plain" /\ s.settles < s.begun
    /\ Ended(s.state) => ~Left(c)
    /\ c = "idle" => ~s.pid /\ s.settles = 0
    /\ lane = "plain" /\ s.reason = {} /\ s.code \in {"ok", "none"} => Ran(s, c)

Good(s, c) ==
    /\ Fit(s, c)
    /\ s.lost => s.reason # {}
    /\ IF s.settled THEN Done(s, c) ELSE Waits(s, c)

Worldly ==
    /\ lane \in Lanes /\ child \in Lives /\ others \in BOOLEAN /\ code \in Codes
    /\ aborted \in BOOLEAN /\ chunks \in 0..ChunkBound
    /\ code # "none" <=> sup.pid /\ child \in {"dead", "told", "closed"}

CallInv == Worldly /\ Good(sup, child)

-----------------------------------------------------------------------------
(* The supervisor's functions.                                             *)

\* What a shutdown leaves alone.
Same(s, o) ==
    /\ o.settled = s.settled /\ o.pid = s.pid /\ o.exited = s.exited /\ o.closed = s.closed
    /\ o.code = s.code /\ o.state = s.state /\ o.lost = s.lost /\ o.rss = s.rss

LEMMA NotedIs ==
    ASSUME NEW c, NEW s, Fit(s, c), NEW why \in Whys, lane = "agent" => why \subseteq AgentReasons
    PROVE  LET o == Noted(s, why)
           IN  /\ Fit(o, c) /\ Same(s, o) /\ o.stopping = s.stopping
               /\ s.reason # {} \/ why # {} => o.reason # {}
<1> DEFINE o == [s EXCEPT !.reason = @ \cup why]
<1>1. CASE lane = "plain" \/ s.reason = {}
  <2>1. why \subseteq Reasons
    BY DEF Whys
  <2>2. /\ o \in Supervisors /\ Same(s, o) /\ o.reason = s.reason \cup why
        /\ o.stopping = s.stopping /\ o.begun = s.begun /\ o.kills = s.kills
        /\ o.settles = s.settles /\ o.poll = s.poll
    BY <2>1 DEF Fit, Supervisors, Same
  <2>3. Noted(s, why) = o
    BY <1>1 DEF Noted
  <2> HIDE DEF o
  <2>4. lane # "plain" => o.reason \in Whys
    BY <1>1, <2>2
  <2>5. lane = "agent" => /\ o.reason \subseteq AgentReasons \cup {"spawn_error"}
                          /\ "spawn_error" \in o.reason => ~o.pid
    BY <1>1, <2>2 DEF Fit, AgentReasons, Same
  <2>6. Fit(o, c)
    BY <2>2, <2>4, <2>5 DEF Fit, Same
  <2>7. s.reason # {} \/ why # {} => o.reason # {}
    BY <2>2
  <2>8. QED
    BY <2>2, <2>3, <2>6, <2>7
<1>2. CASE ~(lane = "plain" \/ s.reason = {})
  <2>1. Noted(s, why) = s
    BY <1>2 DEF Noted
  <2>2. QED
    BY <1>2, <2>1 DEF Same
<1>3. QED
  BY <1>1, <1>2

LEMMA StopIs ==
    ASSUME NEW c, NEW s, Fit(s, c), NEW why \in Whys, lane = "agent" => why \subseteq AgentReasons
    PROVE  LET o == Stop(s, why)
           IN  /\ Fit(o, c) /\ Same(s, o)
               /\ s.reason # {} \/ why # {} => o.reason # {}
<1> DEFINE n == Noted(s, why)
           begun   == n.begun + 1
           kills   == n.kills + 1
           settles == n.settles + 1
           polls   == lane = "agent"
           o == [n EXCEPT !.stopping = TRUE, !.begun = begun, !.kills = kills,
                          !.settles = settles, !.poll = polls]
<1>1. /\ Fit(n, c) /\ Same(s, n) /\ n.stopping = s.stopping
      /\ s.reason # {} \/ why # {} => n.reason # {}
  BY NotedIs
<1>2. Stop(s, why) = IF Begins(s) THEN o ELSE n
  BY DEF Stop
<1> HIDE DEF n
<1>3. CASE Begins(s)
  <2>1. n.kills \in Nat /\ n.settles \in Nat /\ n.begun \in Nat
    BY <1>1 DEF Fit, Supervisors
  <2>2. begun \in Nat /\ kills \in Nat /\ settles \in Nat /\ polls \in BOOLEAN
    BY <2>1
  <2>3. kills <= settles /\ settles <= begun /\ (polls => lane = "agent")
    BY <1>1, <2>1 DEF Fit
  <2>4. lane # "plain" => begun = 1
    BY <1>1, <1>3 DEF Begins, Fit
  <2> HIDE DEF begun, kills, settles, polls
  <2>5. /\ o \in Supervisors /\ Same(n, o) /\ o.reason = n.reason /\ o.stopping = TRUE
        /\ o.begun = begun /\ o.kills = kills /\ o.settles = settles /\ o.poll = polls
    BY <1>1, <2>2 DEF Fit, Supervisors, Same
  <2>6. Stop(s, why) = o
    BY <1>2, <1>3
  <2> HIDE DEF o
  <2>7. Fit(o, c)
    BY <1>1, <2>3, <2>4, <2>5 DEF Fit, Same
  <2>8. QED
    BY <1>1, <2>5, <2>6, <2>7 DEF Same
<1>4. CASE ~Begins(s)
  BY <1>1, <1>2, <1>4
<1>5. QED
  BY <1>3, <1>4

LEMMA LacksIs ==
    ASSUME NEW c, NEW s, Fit(s, c)
    PROVE  /\ Lacks(s) \subseteq Reasons /\ (lane # "plain" => Lacks(s) \in Whys)
           /\ lane # "strict" => Lacks(s) = s.reason
           /\ s.reason # {} => Lacks(s) # {}
<1>1. s.reason \subseteq Reasons
  BY DEF Fit, Supervisors
<1>2. {"observer_unknown"} \in Whys /\ {"close_unknown"} \in Whys /\ {} \in Whys
  BY DEF Whys, Reasons
<1>3. lane # "plain" => s.reason \in Whys
  BY DEF Fit
<1>4. Lacks(s) \in {s.reason, {"observer_unknown"}, {"close_unknown"}, {}}
  BY DEF Lacks
<1>5. lane = "plain" => Lacks(s) = s.reason
  BY DEF Lacks
<1>6. QED
  BY <1>1, <1>2, <1>3, <1>4, <1>5 DEF Lacks, Whys

\* A result is good at the end it comes at.
LEMMA FinishIs ==
    ASSUME NEW c \in Lives \ {"idle"}, NEW s, Fit(s, c), ~s.settled, s.lost => s.reason # {},
           NEW state \in Seen, Ended(state) => ~Left(c),
           lane = "plain" /\ s.reason = {} /\ s.code \in {"ok", "none"} => Ran(s, c)
    PROVE  Good(Finish(s, state), c) /\ Finish(s, state).pid = s.pid
<1> DEFINE o == [s EXCEPT !.settled = TRUE, !.deadline = FALSE, !.poll = FALSE,
                   !.kills = AllBut1(@), !.settles = AllBut1(@),
                   !.reason = Lacks(s), !.state = state]
<1>1. Finish(s, state) = o
  BY DEF Finish
<1>2. s.kills \in Nat /\ s.settles \in Nat /\ s.begun \in Nat
  BY DEF Fit, Supervisors
<1>3. /\ AllBut1(s.kills) \in Nat /\ AllBut1(s.settles) \in Nat
      /\ AllBut1(s.kills) <= AllBut1(s.settles) /\ AllBut1(s.settles) <= s.begun
      /\ AllBut1(s.settles) > 0 => AllBut1(s.settles) < s.begun /\ s.begun > 1
  BY <1>2 DEF AllBut1, Fit
<1>4. /\ o \in Supervisors /\ o.settled = TRUE /\ o.deadline = FALSE /\ o.poll = FALSE
      /\ o.kills = AllBut1(s.kills) /\ o.settles = AllBut1(s.settles) /\ o.reason = Lacks(s)
      /\ o.state = state /\ o.pid = s.pid /\ o.stopping = s.stopping /\ o.closed = s.closed
      /\ o.code = s.code /\ o.begun = s.begun /\ o.lost = s.lost
  BY <1>3, LacksIs DEF Fit, Supervisors
<1> HIDE DEF o
<1>5. Fit(o, c)
  BY <1>3, <1>4, LacksIs DEF Fit
<1>6. lane # "plain" => s.begun <= 1
  BY DEF Fit
<1>7. Done(o, c)
  BY <1>2, <1>3, <1>4, <1>6, LacksIs DEF Done, Ran
<1>8. o.lost => o.reason # {}
  BY <1>4, LacksIs
<1>9. QED
  BY <1>1, <1>4, <1>5, <1>7, <1>8 DEF Good

LEMMA CheckIs ==
    ASSUME NEW c \in Lives \ {"idle"}, NEW s, Good(s, c), lane # "plain",
           NEW state, NEW last \in Seen, Ended(last) => ~Left(c)
    PROVE  Good(Check(s, state, last), c) /\ Check(s, state, last).pid = s.pid
<1>1. CASE s.settled
  <2>1. Check(s, state, last) = s
    BY <1>1 DEF Check, Finish
  <2>2. QED
    BY <2>1
<1>2. CASE ~s.settled
  <2>1. Good(Finish(s, last), c) /\ Finish(s, last).pid = s.pid
    BY <1>2, FinishIs DEF Good
  <2>2. Check(s, state, last) \in {s, Finish(s, last)}
    BY DEF Check
  <2>3. QED
    BY <2>1, <2>2
<1>3. QED
  BY <1>1, <1>2

\* A shutdown of a call that waits leaves one that waits.
LEMMA StopWaits ==
    ASSUME NEW c \in Lives \ {"idle"}, NEW s, Fit(s, c), Waits(s, c),
           NEW why \in Whys, lane = "agent" => why \subseteq AgentReasons,
           s.lost => s.reason # {} \/ why # {}
    PROVE  Good(Stop(s, why), c) /\ ~Stop(s, why).settled /\ Stop(s, why).pid = s.pid
<1> DEFINE o == Stop(s, why)
<1>1. Fit(o, c) /\ Same(s, o) /\ (s.reason # {} \/ why # {} => o.reason # {})
  BY StopIs
<1> HIDE DEF o
<1>2. ~o.settled /\ Waits(o, c)
  BY <1>1 DEF Same, Waits
<1>3. o.lost => o.reason # {}
  BY <1>1 DEF Same
<1>4. Good(o, c) /\ ~o.settled /\ o.pid = s.pid
  BY <1>1, <1>2, <1>3 DEF Good, Same
<1>5. QED
  BY <1>4 DEF o

LEMMA WhysAre ==
    /\ {} \in Whys /\ {} \subseteq AgentReasons
    /\ \A r \in Reasons : {r} \in Whys
    /\ \A r \in AgentReasons : r \in Reasons /\ {r} \subseteq AgentReasons
BY DEF Whys, AgentReasons, Reasons

LEMMA TakenIs ==
    ASSUME NEW c \in Lives \ {"idle"}, NEW s, Good(s, c), ~s.settled, NEW n \in Sizes
    PROVE  Good(Taken(s, n), c) /\ Taken(s, n).pid = s.pid
<1> DEFINE over    == s.bytes + n > Cap
           counted == IF lane = "plain" /\ over THEN s ELSE [s EXCEPT !.bytes = @ + n]
           dropped == [counted EXCEPT !.lost = TRUE]
           deaf    == [s EXCEPT !.lost = TRUE]
<1>1. Taken(s, n) = IF Deaf(s)   THEN deaf
                    ELSE IF over THEN Stop(dropped, {"output_limit"})
                    ELSE counted
  BY Zenon DEF Taken
<1>2. /\ counted \in Supervisors /\ Same(s, counted) /\ counted.reason = s.reason
      /\ counted.stopping = s.stopping /\ counted.begun = s.begun /\ counted.kills = s.kills
      /\ counted.settles = s.settles /\ counted.poll = s.poll
  <2>1. s \in Supervisors /\ s.bytes + n \in Nat
    BY DEF Good, Fit, Supervisors
  <2>2. QED
    BY <2>1 DEF Supervisors, Same
<1>3. Good(s, c) /\ Fit(s, c) /\ Waits(s, c)
  BY DEF Good
<1>4. counted = s \/ c # "idle"
  OBVIOUS
<1> HIDE DEF counted
<1>5. Fit(counted, c) /\ Waits(counted, c) /\ (counted.lost => counted.reason # {})
  BY <1>2, <1>3 DEF Fit, Waits, Same, Good
<1>6. Good(counted, c)
  BY <1>2, <1>5 DEF Good, Same
<1>7. CASE Deaf(s)
  <2>1. /\ deaf \in Supervisors /\ deaf.settled = s.settled /\ deaf.pid = s.pid
        /\ deaf.closed = s.closed /\ deaf.code = s.code /\ deaf.state = s.state
        /\ deaf.reason = s.reason /\ deaf.stopping = s.stopping /\ deaf.begun = s.begun
        /\ deaf.kills = s.kills /\ deaf.settles = s.settles /\ deaf.poll = s.poll
    BY <1>3 DEF Fit, Supervisors
  <2>2. s.reason # {}
    BY <1>7 DEF Deaf
  <2>3. Taken(s, n) = deaf
    BY <1>1, <1>7
  <2> HIDE DEF deaf
  <2>4. Good(deaf, c)
    BY <1>3, <2>1, <2>2 DEF Good, Fit, Waits
  <2>5. QED
    BY <2>1, <2>3, <2>4
<1>8. CASE ~Deaf(s) /\ over
  <2>1. /\ dropped \in Supervisors /\ dropped.settled = counted.settled
        /\ dropped.pid = counted.pid /\ dropped.closed = counted.closed
        /\ dropped.code = counted.code /\ dropped.state = counted.state
        /\ dropped.reason = counted.reason /\ dropped.stopping = counted.stopping
        /\ dropped.begun = counted.begun /\ dropped.kills = counted.kills
        /\ dropped.settles = counted.settles /\ dropped.poll = counted.poll
    BY <1>5 DEF Fit, Supervisors
  <2>2. Taken(s, n) = Stop(dropped, {"output_limit"})
    BY <1>1, <1>8
  <2> HIDE DEF dropped
  <2>3. Fit(dropped, c) /\ Waits(dropped, c)
    BY <1>5, <2>1 DEF Fit, Waits
  <2>4. {"output_limit"} \in Whys /\ {"output_limit"} \subseteq AgentReasons
    BY WhysAre DEF AgentReasons
  <2>5. QED
    BY <1>2, <2>1, <2>2, <2>3, <2>4, StopWaits DEF Same
<1>9. CASE ~Deaf(s) /\ ~over
  <2>1. Taken(s, n) = counted
    BY <1>1, <1>9
  <2>2. QED
    BY <1>2, <1>6, <2>1 DEF Same
<1>10. QED
  BY <1>7, <1>8, <1>9

LEMMA LookedIs ==
    ASSUME NEW c \in Lives \ {"idle"}, NEW s, Fit(s, c), Waits(s, c), s.lost => s.reason # {},
           lane = "strict", NEW rss \in {"low", "high", "failed", "nobody"}
    PROVE  Good(Looked(s, rss), c) /\ ~Looked(s, rss).settled /\ Looked(s, rss).pid = s.pid
<1> DEFINE measured == IF s.rss = "none" THEN "measured" ELSE s.rss
           counted  == [s EXCEPT !.rss = measured]
           failed   == [s EXCEPT !.rss = "failed"]
           Alike(o) == /\ o \in Supervisors /\ o.settled = s.settled /\ o.pid = s.pid
                       /\ o.closed = s.closed /\ o.code = s.code /\ o.state = s.state
                       /\ o.reason = s.reason /\ o.stopping = s.stopping /\ o.begun = s.begun
                       /\ o.kills = s.kills /\ o.settles = s.settles /\ o.poll = s.poll
                       /\ o.lost = s.lost
<1>1. Looked(s, rss) = CASE rss = "low"    -> counted
                         [] rss = "high"   -> Stop(counted, {"rss_limit"})
                         [] rss = "failed" -> Stop(failed, {"observer_unknown"})
                         [] OTHER          -> s
  BY Zenon DEF Looked
<1>2. measured \in {"none", "measured", "failed"}
  BY DEF Fit, Supervisors
<1> HIDE DEF measured
<1>3. Alike(counted) /\ Alike(failed)
  BY <1>2 DEF Fit, Supervisors
<1> HIDE DEF counted, failed
<1>4. ASSUME NEW o, Alike(o)
      PROVE  Fit(o, c) /\ Waits(o, c) /\ (o.lost => o.reason # {}) /\ Good(o, c) /\ ~o.settled
             /\ o.pid = s.pid
  BY <1>4 DEF Fit, Waits, Good
<1> HIDE DEF Alike
<1>5. /\ Fit(counted, c) /\ Waits(counted, c) /\ (counted.lost => counted.reason # {})
      /\ Good(counted, c) /\ ~counted.settled /\ counted.pid = s.pid /\ failed.pid = s.pid
      /\ Fit(failed, c) /\ Waits(failed, c)
  BY <1>3, <1>4
<1>6. {"rss_limit"} \in Whys /\ {"observer_unknown"} \in Whys /\ lane # "agent"
  BY WhysAre DEF Reasons
<1>7. /\ Good(Stop(counted, {"rss_limit"}), c) /\ ~Stop(counted, {"rss_limit"}).settled
      /\ Stop(counted, {"rss_limit"}).pid = s.pid /\ Stop(failed, {"observer_unknown"}).pid = s.pid
      /\ Good(Stop(failed, {"observer_unknown"}), c) /\ ~Stop(failed, {"observer_unknown"}).settled
  BY <1>5, <1>6, StopWaits
<1>8. Good(s, c) /\ ~s.settled
  BY DEF Good, Waits
<1>9. Looked(s, rss) \in {counted, Stop(counted, {"rss_limit"}), Stop(failed, {"observer_unknown"}), s}
  BY <1>1
<1>10. QED
  BY <1>5, <1>7, <1>8, <1>9

-----------------------------------------------------------------------------
(* The steps.                                                              *)

LEMMA ObservationsAre ==
    ASSUME CallInv, NEW state \in Observations
    PROVE  state \in Seen /\ (Ended(state) => ~Left(child))
<1>1. ~sup.pid => ~Left(child)
  BY DEF CallInv, Good, Fit
<1>2. GroupGone <=> ~Left(child)
  BY DEF GroupGone, Left
<1>3. QED
  BY <1>1, <1>2 DEF Observations, Seen, Ended

\* A handler of a child that was there before it.
LEMMA HandlerKeeps ==
    ASSUME CallInv, NEW next, Handle(next), child # "idle", child' \in Lives \ {"idle"},
           child' \in {"dead", "told", "closed"} <=> child \in {"dead", "told", "closed"},
           aborted' \in BOOLEAN, chunks' \in 0..ChunkBound,
           sup.settled => Good(sup, child'),
           ~sup.settled => Good(next, child') /\ next.pid = sup.pid
    PROVE  CallInv'
<1>1. sup' = (IF sup.settled THEN sup ELSE next) /\ UNCHANGED <<lane, others, code>>
  BY DEF Handle
<1>2. Good(sup', child')
  BY <1>1
<1>3. Good(sup, child)'
  BY <1>1, <1>2 DEF Good, Fit, Waits, Done, Ran, Left
<1>4. Worldly'
  <2>1. sup'.pid = sup.pid
    BY <1>1
  <2>2. QED
    BY <1>1, <2>1 DEF CallInv, Worldly
<1>5. QED
  BY <1>3, <1>4 DEF CallInv

\* A child that moves on takes nothing from a result.
LEMMA MovesOn ==
    ASSUME NEW s, Good(s, child), s.settled, NEW c \in Lives \ {"idle", "running"}, child # "closed",
           child # "idle"
    PROVE  Good(s, c)
BY DEF Good, Fit, Done, Ran, Left

LEMMA SuperIs ==
    ASSUME CallInv
    PROVE  /\ Good(sup, child) /\ Fit(sup, child) /\ sup \in Supervisors
           /\ ~sup.settled => Waits(sup, child) /\ (sup.lost => sup.reason # {})
           /\ sup.settled => Done(sup, child)
           /\ sup.pid => child # "idle"
           /\ aborted \in BOOLEAN /\ chunks \in 0..ChunkBound /\ ChunkBound \in Nat
           /\ child \in Lives
           /\ code # "none" <=> sup.pid /\ child \in {"dead", "told", "closed"}
BY DEF CallInv, Worldly, Good, Fit, Waits, Done, Fresh

LEMMA DataStep == CallInv /\ Data => CallInv'
<1> SUFFICES ASSUME CallInv, sup.pid, child # "closed", chunks < ChunkBound, chunks' = chunks + 1,
                    NEW n \in Sizes, Handle(Taken(sup, n)), UNCHANGED <<child, aborted>>
             PROVE  CallInv'
  BY DEF Data
<1> DEFINE next == Taken(sup, n)
<1>1. child \in Lives \ {"idle"}
  BY SuperIs
<1>2. ~sup.settled => Good(next, child) /\ next.pid = sup.pid
  BY <1>1, SuperIs, TakenIs
<1>3. chunks' \in 0..ChunkBound
  BY SuperIs
<1>4. Handle(next)
  OBVIOUS
<1> HIDE DEF next
<1>5. QED
  BY <1>1, <1>2, <1>3, <1>4, SuperIs, HandlerKeeps

LEMMA ExitStep == CallInv /\ Exit => CallInv'
<1> DEFINE heard == [sup EXCEPT !.exited = TRUE, !.code = code]
           next  == IF lane = "plain" THEN sup ELSE Stop(heard, {})
<1> SUFFICES ASSUME CallInv, child = "dead", sup.pid, child' = "told", Handle(next),
                    UNCHANGED <<aborted, chunks>>
             PROVE  CallInv'
  BY DEF Exit
<1>1. child' \in Lives \ {"idle"} /\ child \notin {"idle", "closed"}
  BY DEF Lives
<1>2. sup.settled => Good(sup, child')
  BY <1>1, SuperIs, MovesOn
<1>3. code \in Codes
  BY DEF CallInv, Worldly
<1>4. /\ heard \in Supervisors /\ heard.settled = sup.settled /\ heard.pid = sup.pid
      /\ heard.closed = sup.closed /\ heard.code = code /\ heard.state = sup.state
      /\ heard.reason = sup.reason /\ heard.stopping = sup.stopping /\ heard.begun = sup.begun
      /\ heard.kills = sup.kills /\ heard.settles = sup.settles /\ heard.poll = sup.poll
      /\ heard.lost = sup.lost
  BY <1>3, SuperIs DEF Supervisors
<1>5. Handle(next)
  OBVIOUS
<1>6. ASSUME ~sup.settled PROVE Good(next, child') /\ next.pid = sup.pid
  <2>1. CASE lane = "plain"
    <3>1. Fit(sup, child')
      BY <2>1, SuperIs DEF Fit, Left
    <3>2. Waits(sup, child')
      BY <1>6, SuperIs DEF Waits
    <3>3. Good(sup, child')
      BY <1>6, <3>1, <3>2, SuperIs DEF Good
    <3>4. QED
      BY <2>1, <3>3
  <2>2. CASE lane # "plain"
    <3> HIDE DEF heard
    <3>1. Fit(heard, child') /\ Waits(heard, child') /\ (heard.lost => heard.reason # {})
      BY <1>4, <1>6, <2>2, SuperIs DEF Fit, Waits, Left
    <3>2. Good(Stop(heard, {}), child') /\ Stop(heard, {}).pid = heard.pid
      BY <1>1, <3>1, WhysAre, StopWaits
    <3>3. QED
      BY <1>4, <2>2, <3>2
  <2>3. QED
    BY <2>1, <2>2
<1> HIDE DEF next
<1>7. QED
  BY <1>1, <1>2, <1>5, <1>6, SuperIs, HandlerKeeps

LEMMA FailedIs ==
    ASSUME CallInv, child = "dead", ~sup.pid, ~sup.settled
    PROVE  Good(Failed(sup), "told") /\ Failed(sup).pid = sup.pid
<1>1. "told" \in Lives \ {"idle"}
  BY DEF Lives
<1>2. Fit(sup, "told") /\ (sup.lost => sup.reason # {}) /\ ~sup.settled /\ ~Left("told")
  BY SuperIs DEF Fit, Left
<1>3. {"spawn_error"} \in Whys /\ "unknown" \in Seen /\ "not_started" \in Seen
      /\ ~Ended("unknown") /\ Ended("not_started")
  BY WhysAre DEF Reasons, Seen, Ended
<1>4. CASE lane = "plain"
  <2> DEFINE n == Noted(sup, {"spawn_error"})
  <2>1. Fit(n, "told") /\ Same(sup, n) /\ n.reason # {}
    BY <1>2, <1>3, <1>4, NotedIs
  <2>2. Failed(sup) = Finish(n, "unknown")
    BY <1>4 DEF Failed
  <2> HIDE DEF n
  <2>3. Good(Finish(n, "unknown"), "told") /\ Finish(n, "unknown").pid = n.pid
    BY <1>1, <1>2, <1>3, <2>1, FinishIs DEF Same
  <2>4. QED
    BY <2>1, <2>2, <2>3 DEF Same
<1>5. CASE lane = "strict"
  <2>1. Failed(sup) = Stop(sup, {"spawn_error"})
    BY <1>5 DEF Failed
  <2>2. Waits(sup, "told")
    BY <1>2, <1>5, SuperIs DEF Waits
  <2>3. QED
    BY <1>1, <1>2, <1>3, <1>5, <2>1, <2>2, StopWaits
<1>6. CASE lane = "agent"
  <2> DEFINE heard   == [sup EXCEPT !.exited = TRUE, !.closed = TRUE, !.reason = {"spawn_error"}]
             stopped == Stop(heard, {})
  <2>1. /\ heard \in Supervisors /\ heard.settled = sup.settled /\ heard.pid = sup.pid
        /\ heard.code = sup.code /\ heard.state = sup.state /\ heard.reason = {"spawn_error"}
        /\ heard.stopping = sup.stopping /\ heard.begun = sup.begun /\ heard.kills = sup.kills
        /\ heard.settles = sup.settles /\ heard.poll = sup.poll /\ heard.lost = sup.lost
    BY SuperIs DEF Supervisors, Reasons
  <2>2. Failed(sup) = IF sup.stopping THEN stopped ELSE Check(stopped, "not_started", "not_started")
    BY <1>6 DEF Failed
  <2> HIDE DEF heard
  <2>3. Fit(heard, "told") /\ Waits(heard, "told")
    BY <1>2, <1>3, <1>6, <2>1, SuperIs DEF Fit, Waits
  <2>4. Good(stopped, "told") /\ stopped.pid = heard.pid
    BY <1>1, <2>1, <2>3, WhysAre, StopWaits
  <2> HIDE DEF stopped
  <2>5. /\ Good(Check(stopped, "not_started", "not_started"), "told")
        /\ Check(stopped, "not_started", "not_started").pid = stopped.pid
    BY <1>1, <1>2, <1>3, <1>6, <2>4, CheckIs
  <2>6. QED
    BY <2>1, <2>2, <2>4, <2>5
<1>7. lane \in {"plain", "agent", "strict"}
  BY DEF CallInv, Worldly, AllLanes
<1>8. QED
  BY <1>4, <1>5, <1>6, <1>7

LEMMA ErrorStep == CallInv /\ Error => CallInv'
<1> SUFFICES ASSUME CallInv, child = "dead", ~sup.pid, child' = "told", Handle(Failed(sup)),
                    UNCHANGED <<aborted, chunks>>
             PROVE  CallInv'
  BY DEF Error
<1>1. child' \in Lives \ {"idle"} /\ child \notin {"idle", "closed"}
  BY DEF Lives
<1>2. sup.settled => Good(sup, child')
  BY <1>1, SuperIs, MovesOn
<1>3. ~sup.settled => Good(Failed(sup), child') /\ Failed(sup).pid = sup.pid
  BY FailedIs
<1>4. QED
  BY <1>1, <1>2, <1>3, SuperIs, HandlerKeeps

LEMMA CloseStep == CallInv /\ Close => CallInv'
<1> SUFFICES ASSUME CallInv, child = "told", child' = "closed", UNCHANGED <<aborted, chunks>>,
                    NEW state \in Observations, NEW last \in Observations,
                    NEW next,
                    next = IF lane = "plain" THEN Finish([sup EXCEPT !.code = code], "unknown")
                           ELSE Check(Stop([sup EXCEPT !.closed = TRUE], {}), state, last),
                    Handle(next)
             PROVE  CallInv'
  BY DEF Close
<1>1. child' \in Lives \ {"idle"} /\ child \notin {"idle", "closed"}
  BY DEF Lives
<1>2. sup.settled => Good(sup, child')
  BY <1>1, SuperIs, MovesOn
<1>3. code \in Codes
  BY DEF CallInv, Worldly
<1>4. ASSUME ~sup.settled PROVE Good(next, child') /\ next.pid = sup.pid
  <2>1. CASE lane = "plain"
    <3> DEFINE s == [sup EXCEPT !.code = code]
    <3>1. /\ s \in Supervisors /\ s.settled = sup.settled /\ s.pid = sup.pid /\ s.code = code
          /\ s.reason = sup.reason /\ s.begun = sup.begun /\ s.kills = sup.kills
          /\ s.settles = sup.settles /\ s.poll = sup.poll /\ s.lost = sup.lost
      BY <1>3, SuperIs DEF Supervisors
    <3>2. next = Finish(s, "unknown")
      BY <2>1
    <3> HIDE DEF s
    <3>3. Fit(s, child')
      BY <2>1, <3>1, SuperIs DEF Fit, Left
    <3>4. sup.pid
      BY <1>4, <2>1, SuperIs DEF Waits
    <3>5. Ran(s, child')
      BY <3>1, <3>4, SuperIs DEF Ran
    <3>6. "unknown" \in Seen /\ ~Ended("unknown")
      BY DEF Seen, Ended
    <3>7. Good(Finish(s, "unknown"), child') /\ Finish(s, "unknown").pid = s.pid
      BY <1>1, <1>4, <3>1, <3>3, <3>5, <3>6, SuperIs, FinishIs
    <3>8. QED
      BY <3>1, <3>2, <3>7
  <2>2. CASE lane # "plain"
    <3> DEFINE s == [sup EXCEPT !.closed = TRUE]
               stopped == Stop(s, {})
    <3>1. /\ s \in Supervisors /\ s.settled = sup.settled /\ s.pid = sup.pid /\ s.code = sup.code
          /\ s.state = sup.state /\ s.reason = sup.reason /\ s.stopping = sup.stopping
          /\ s.begun = sup.begun /\ s.kills = sup.kills /\ s.settles = sup.settles
          /\ s.poll = sup.poll /\ s.lost = sup.lost
      BY SuperIs DEF Supervisors
    <3>2. next = Check(stopped, state, last)
      BY <2>2
    <3> HIDE DEF s
    <3>3. Fit(s, child') /\ Waits(s, child')
      BY <1>4, <2>2, <3>1, SuperIs DEF Fit, Waits, Left
    <3>4. Good(stopped, child') /\ stopped.pid = s.pid
      BY <1>1, <1>4, <3>1, <3>3, SuperIs, WhysAre, StopWaits
    <3> HIDE DEF stopped
    <3>5. last \in Seen /\ (Ended(last) => ~Left(child'))
      BY ObservationsAre DEF Left
    <3>6. Good(Check(stopped, state, last), child') /\ Check(stopped, state, last).pid = stopped.pid
      BY <1>1, <2>2, <3>4, <3>5, CheckIs
    <3>7. QED
      BY <3>1, <3>2, <3>4, <3>6
  <2>3. QED
    BY <2>1, <2>2
<1>5. QED
  BY <1>1, <1>2, <1>4, SuperIs, HandlerKeeps

LEMMA AbortStep == CallInv /\ Abort => CallInv'
<1> SUFFICES ASSUME CallInv, child # "idle", aborted' = TRUE, Handle(Stop(sup, {"cancelled"})),
                    UNCHANGED <<child, chunks>>
             PROVE  CallInv'
  BY DEF Abort
<1>1. {"cancelled"} \in Whys /\ {"cancelled"} \subseteq AgentReasons
  BY WhysAre DEF AgentReasons
<1>2. child \in Lives \ {"idle"}
  BY SuperIs
<1>3. ~sup.settled => Good(Stop(sup, {"cancelled"}), child) /\ Stop(sup, {"cancelled"}).pid = sup.pid
  BY <1>1, <1>2, SuperIs, StopWaits
<1>4. QED
  BY <1>2, <1>3, SuperIs, HandlerKeeps

\* A timer was set by a call that had begun.
LEMMA TimersAre ==
    ASSUME CallInv, sup.deadline \/ sup.poll \/ sup.kills > 0 \/ sup.settles > sup.kills
    PROVE  child \in Lives \ {"idle"} /\ (sup.settled => ~sup.deadline /\ ~sup.poll)
<1>1. child = "idle" => ~sup.deadline /\ ~sup.poll /\ sup.settles = 0
  BY SuperIs DEF Waits, Done, Fresh
<1>2. sup.kills \in Nat /\ sup.settles \in Nat /\ sup.kills <= sup.settles
  BY SuperIs DEF Fit, Supervisors
<1>3. QED
  BY <1>1, <1>2, SuperIs DEF Done

LEMMA DeadlineStep == CallInv /\ Deadline => CallInv'
<1> DEFINE s == [sup EXCEPT !.deadline = FALSE]
<1> SUFFICES ASSUME CallInv, sup.deadline, Handle(Stop(s, {"timeout"})),
                    UNCHANGED <<child, aborted, chunks>>
             PROVE  CallInv'
  BY DEF Deadline
<1>1. child \in Lives \ {"idle"} /\ ~sup.settled
  BY TimersAre
<1>2. /\ s \in Supervisors /\ s.settled = sup.settled /\ s.pid = sup.pid /\ s.code = sup.code
      /\ s.state = sup.state /\ s.reason = sup.reason /\ s.stopping = sup.stopping
      /\ s.begun = sup.begun /\ s.kills = sup.kills /\ s.settles = sup.settles
      /\ s.poll = sup.poll /\ s.lost = sup.lost /\ s.closed = sup.closed
  BY SuperIs DEF Supervisors
<1> HIDE DEF s
<1>3. Fit(s, child) /\ Waits(s, child)
  BY <1>1, <1>2, SuperIs DEF Fit, Waits
<1>4. {"timeout"} \in Whys /\ {"timeout"} \subseteq AgentReasons
  BY WhysAre DEF AgentReasons
<1>5. Good(Stop(s, {"timeout"}), child) /\ Stop(s, {"timeout"}).pid = s.pid
  BY <1>1, <1>3, <1>4, StopWaits
<1>6. QED
  BY <1>1, <1>2, <1>5, SuperIs, HandlerKeeps

LEMMA PollStep == CallInv /\ Poll => CallInv'
<1> SUFFICES ASSUME CallInv, sup.poll, NEW state \in Observations, NEW last \in Observations,
                    Handle(Check(sup, state, last)), UNCHANGED <<child, aborted, chunks>>
             PROVE  CallInv'
  BY DEF Poll
<1>1. child \in Lives \ {"idle"}
  BY TimersAre
<1>2. lane # "plain"
  BY SuperIs DEF Fit
<1>3. last \in Seen /\ (Ended(last) => ~Left(child))
  BY ObservationsAre
<1>4. Good(Check(sup, state, last), child) /\ Check(sup, state, last).pid = sup.pid
  BY <1>1, <1>2, <1>3, SuperIs, CheckIs
<1>5. QED
  BY <1>1, <1>4, SuperIs, HandlerKeeps

LEMMA SampleStep == CallInv /\ Sample => CallInv'
<1> SUFFICES ASSUME CallInv, Sample PROVE CallInv'
  OBVIOUS
<1> DEFINE View(rss) == IF sup.pid THEN Looked(sup, rss) ELSE sup
           Turn(rss, late, state, last) ==
               IF sup.exited THEN Check(sup, state, last)
               ELSE IF sup.pid /\ late THEN Stop(View(rss), {"timeout"}) ELSE View(rss)
<1>0. lane = "strict" /\ child # "idle" /\ UNCHANGED <<child, aborted, chunks>>
  BY DEF Sample
<1>9. PICK rss \in {"low", "high", "failed", "nobody"}, late \in BOOLEAN,
           state \in Observations, last \in Observations : Handle(Turn(rss, late, state, last))
  BY ONLY Sample DEF Sample
<1> DEFINE looked == View(rss)
           next   == Turn(rss, late, state, last)
<1>8. /\ looked = IF sup.pid THEN Looked(sup, rss) ELSE sup
      /\ next = IF sup.exited THEN Check(sup, state, last)
                ELSE IF sup.pid /\ late THEN Stop(looked, {"timeout"}) ELSE looked
      /\ Handle(next)
  BY <1>9
<1> HIDE DEF looked, next, View, Turn
<1>1. child \in Lives \ {"idle"}
  BY <1>0, SuperIs
<1>2. ASSUME ~sup.settled PROVE Good(next, child) /\ next.pid = sup.pid
  <2>1. last \in Seen /\ (Ended(last) => ~Left(child))
    BY ObservationsAre
  <2>2. Good(Check(sup, state, last), child) /\ Check(sup, state, last).pid = sup.pid
    BY <1>0, <1>1, <2>1, SuperIs, CheckIs
  <2>3. Good(looked, child) /\ ~looked.settled /\ looked.pid = sup.pid
    BY <1>0, <1>1, <1>2, <1>8, SuperIs, LookedIs
  <2>4. Fit(looked, child) /\ Waits(looked, child) /\ (looked.lost => looked.reason # {})
    BY <2>3 DEF Good
  <2>5. {"timeout"} \in Whys /\ {"timeout"} \subseteq AgentReasons
    BY WhysAre DEF AgentReasons
  <2>6. Good(Stop(looked, {"timeout"}), child) /\ Stop(looked, {"timeout"}).pid = looked.pid
    BY <1>1, <2>4, <2>5, StopWaits
  <2>7. QED
    BY <1>8, <2>2, <2>3, <2>6
<1>3. QED
  BY <1>0, <1>1, <1>2, <1>8, SuperIs, HandlerKeeps

\* A timer that fires takes itself off the books.
LEMMA KillStep == CallInv /\ Kill => CallInv'
<1> DEFINE kills == sup.kills - 1
           fired == [sup EXCEPT !.kills = kills]
<1> SUFFICES ASSUME CallInv, sup.kills > 0, NEW state \in Observations, NEW last \in Observations,
                    sup' = IF lane = "strict" THEN Check(fired, state, last) ELSE fired,
                    UNCHANGED <<lane, world, aborted, chunks>>
             PROVE  CallInv'
  BY DEF Kill
<1>1. sup.kills \in Nat /\ sup.settles \in Nat /\ sup.kills <= sup.settles
  BY SuperIs DEF Fit, Supervisors
<1>2. child \in Lives \ {"idle"}
  BY <1>1, TimersAre
<1>3. kills \in Nat /\ kills <= sup.settles
  BY <1>1
<1> HIDE DEF kills
<1>4. /\ fired \in Supervisors /\ fired.settled = sup.settled /\ fired.pid = sup.pid
      /\ fired.code = sup.code /\ fired.state = sup.state /\ fired.reason = sup.reason
      /\ fired.stopping = sup.stopping /\ fired.begun = sup.begun /\ fired.kills = kills
      /\ fired.settles = sup.settles /\ fired.poll = sup.poll /\ fired.lost = sup.lost
      /\ fired.closed = sup.closed /\ fired.deadline = sup.deadline
  BY <1>3, SuperIs DEF Supervisors
<1> HIDE DEF fired
<1>5. Good(fired, child)
  <2>1. Fit(fired, child)
    BY <1>3, <1>4, SuperIs DEF Fit
  <2>2. CASE sup.settled
    <3>1. Done(fired, child)
      BY <1>4, <2>2, SuperIs DEF Done, Ran
    <3>2. QED
      BY <1>4, <2>1, <2>2, <3>1, SuperIs DEF Good
  <2>3. CASE ~sup.settled
    <3>1. Waits(fired, child)
      BY <1>2, <1>4, <2>3, SuperIs DEF Waits
    <3>2. QED
      BY <1>4, <2>1, <2>3, <3>1, SuperIs DEF Good
  <2>4. QED
    BY <2>2, <2>3
<1>6. last \in Seen /\ (Ended(last) => ~Left(child))
  BY ObservationsAre
<1>7. Good(sup', child) /\ sup'.pid = sup.pid
  <2>1. CASE lane = "strict"
    <3>1. Good(Check(fired, state, last), child) /\ Check(fired, state, last).pid = fired.pid
      BY <1>2, <1>5, <1>6, <2>1, CheckIs
    <3>2. QED
      BY <1>4, <2>1, <3>1
  <2>2. CASE lane # "strict"
    BY <1>4, <1>5, <2>2
  <2>3. QED
    BY <2>1, <2>2
<1>8. UNCHANGED <<lane, child, others, code, aborted, chunks>>
  BY DEF world
<1>9. Good(sup, child)'
  BY <1>7, <1>8 DEF Good, Fit, Waits, Done, Ran, Left
<1>10. QED
  BY <1>7, <1>8, <1>9 DEF CallInv, Worldly

LEMMA SettleStep == CallInv /\ Settle => CallInv'
<1> DEFINE settles == sup.settles - 1
           fired   == [sup EXCEPT !.settles = settles]
<1> SUFFICES ASSUME CallInv, sup.settles > sup.kills, NEW state \in Observations,
                    sup' = IF sup.settled THEN fired ELSE Settled(fired, state),
                    UNCHANGED <<lane, world, aborted, chunks>>
             PROVE  CallInv'
  BY DEF Settle
<1>1. sup.kills \in Nat /\ sup.settles \in Nat /\ sup.begun \in Nat /\ sup.settles <= sup.begun
  BY SuperIs DEF Fit, Supervisors
<1>2. child \in Lives \ {"idle"}
  BY TimersAre
<1>3. settles \in Nat /\ sup.kills <= settles /\ settles <= sup.begun /\ settles < sup.settles
  BY <1>1
<1>4. settles < sup.begun
  BY <1>1
<1> HIDE DEF settles
<1>5. /\ fired \in Supervisors /\ fired.settled = sup.settled /\ fired.pid = sup.pid
      /\ fired.code = sup.code /\ fired.state = sup.state /\ fired.reason = sup.reason
      /\ fired.stopping = sup.stopping /\ fired.begun = sup.begun /\ fired.kills = sup.kills
      /\ fired.settles = settles /\ fired.poll = sup.poll /\ fired.lost = sup.lost
      /\ fired.closed = sup.closed /\ fired.deadline = sup.deadline
  BY <1>3, SuperIs DEF Supervisors
<1> HIDE DEF fired
<1>6. Fit(fired, child)
  BY <1>3, <1>5, SuperIs DEF Fit
<1>7. CASE sup.settled
  <2>1. sup.settles > 0
    BY <1>1
  <2>2. Done(fired, child)
    BY <1>2, <1>4, <1>5, <1>7, <2>1, SuperIs DEF Done, Ran
  <2>3. Good(fired, child)
    BY <1>5, <1>6, <1>7, <2>2, SuperIs DEF Good
  <2>4. UNCHANGED <<lane, child, others, code, aborted, chunks>> /\ sup' = fired
    BY <1>7 DEF world
  <2>5. Good(sup, child)'
    BY <2>3, <2>4 DEF Good, Fit, Waits, Done, Ran, Left
  <2>6. QED
    BY <1>5, <2>4, <2>5 DEF CallInv, Worldly
<1>8. CASE ~sup.settled
  <2> DEFINE s == IF lane = "plain" THEN [fired EXCEPT !.code = "signal"] ELSE fired
  <2>1. /\ s.settled = sup.settled /\ s.pid = sup.pid /\ s.lost = sup.lost /\ s.reason = sup.reason
        /\ (lane = "plain" => s.code = "signal") /\ Fit(s, child)
    <3> DEFINE o == [fired EXCEPT !.code = "signal"]
    <3>1. /\ o \in Supervisors /\ o.settled = fired.settled /\ o.pid = fired.pid
          /\ o.code = "signal" /\ o.reason = fired.reason /\ o.begun = fired.begun
          /\ o.kills = fired.kills /\ o.settles = fired.settles /\ o.poll = fired.poll
          /\ o.lost = fired.lost
      BY <1>5 DEF Supervisors, Codes
    <3>2. s = IF lane = "plain" THEN o ELSE fired
      OBVIOUS
    <3> HIDE DEF o, s
    <3>3. CASE lane = "plain"
      <4>1. Fit(o, child)
        BY <1>6, <3>1, <3>3 DEF Fit
      <4>2. QED
        BY <1>5, <3>1, <3>2, <3>3, <4>1
    <3>4. CASE lane # "plain"
      BY <1>5, <1>6, <3>2, <3>4
    <3>5. QED
      BY <3>3, <3>4
  <2>2. sup' = Finish(s, state)
    BY <1>8 DEF Settled
  <2> HIDE DEF s
  <2>3. state \in Seen /\ (Ended(state) => ~Left(child))
    BY ObservationsAre
  <2>4. Good(Finish(s, state), child) /\ Finish(s, state).pid = s.pid
    BY <1>2, <1>8, <2>1, <2>3, SuperIs, FinishIs
  <2>5. UNCHANGED <<lane, child, others, code, aborted, chunks>>
    BY DEF world
  <2>6. Good(sup, child)'
    BY <2>2, <2>4, <2>5 DEF Good, Fit, Waits, Done, Ran, Left
  <2>7. sup'.pid = sup.pid
    BY <2>1, <2>2, <2>4
  <2>8. QED
    BY <2>5, <2>6, <2>7 DEF CallInv, Worldly
<1>9. QED
  BY <1>7, <1>8

LEMMA RefuseStep == CallInv /\ Refuse => CallInv'
<1> SUFFICES ASSUME CallInv, Refuse PROVE CallInv'
  OBVIOUS
<1> DEFINE why == IF aborted THEN "cancelled" ELSE "spawn_error"
<1>a. PICK closed \in BOOLEAN : closed = (lane = "agent")
  OBVIOUS
<1>0. /\ child = "idle" /\ ~sup.settled /\ UNCHANGED <<lane, world, aborted, chunks>>
      /\ closed \in BOOLEAN /\ why \in {"cancelled", "spawn_error"} /\ (closed => lane = "agent")
      /\ sup' = [sup EXCEPT !.settled = TRUE, !.state = "not_started", !.closed = closed,
                             !.reason = {why}]
  <2>1. /\ child = "idle" /\ ~sup.settled /\ UNCHANGED <<lane, world, aborted, chunks>>
        /\ sup' = [sup EXCEPT !.settled = TRUE, !.state = "not_started", !.closed = closed,
                               !.reason = {why}]
    BY <1>a, Zenon DEF Refuse
  <2>2. closed \in BOOLEAN /\ why \in {"cancelled", "spawn_error"} /\ (closed => lane = "agent")
    BY <1>a
  <2>3. QED
    BY <2>1, <2>2
<1> HIDE DEF why
<1>1. sup = Fresh /\ sup \in Supervisors /\ Fit(sup, child)
  BY <1>0, SuperIs DEF Waits
<1>2. /\ sup' \in Supervisors /\ sup'.settled = TRUE /\ sup'.state = "not_started"
      /\ sup'.closed = closed /\ sup'.reason = {why} /\ sup'.pid = FALSE /\ sup'.stopping = FALSE
      /\ sup'.begun = 0 /\ sup'.kills = 0 /\ sup'.settles = 0 /\ sup'.poll = FALSE
      /\ sup'.lost = FALSE /\ sup'.code = "none" /\ sup'.deadline = FALSE
  <2>1. {why} \in SUBSET Reasons /\ "not_started" \in Seen
    BY <1>0 DEF Reasons, Seen
  <2>2. sup' = [Fresh EXCEPT !.settled = TRUE, !.state = "not_started", !.closed = closed,
                             !.reason = {why}]
    BY <1>0, <1>1
  <2>3. /\ sup'.settled = TRUE /\ sup'.state = "not_started"
        /\ sup'.closed = closed /\ sup'.reason = {why} /\ sup'.pid = FALSE /\ sup'.stopping = FALSE
        /\ sup'.begun = 0 /\ sup'.kills = 0 /\ sup'.settles = 0 /\ sup'.poll = FALSE
        /\ sup'.lost = FALSE /\ sup'.code = "none" /\ sup'.deadline = FALSE
    BY <2>2 DEF Fresh
  <2>4. sup' \in Supervisors
    BY <1>0, <1>1, <2>1 DEF Supervisors
  <2>5. QED
    BY <2>3, <2>4
<1>3. UNCHANGED <<lane, child, others, code, aborted, chunks>>
  BY <1>0 DEF world
<1>4. ~Left(child)
  BY <1>1 DEF Fit, Fresh
<1>5. Fit(sup, child)'
  <2>1. {why} \in Whys
    BY <1>0, WhysAre DEF Reasons
  <2>2. {why} \subseteq AgentReasons \cup {"spawn_error"}
    BY <1>0 DEF AgentReasons
  <2>3. QED
    BY <1>0, <1>2, <1>3, <1>4, <2>1, <2>2 DEF Fit, Left
<1>6. Done(sup, child)'
  BY <1>0, <1>2, <1>3, <1>4 DEF Done, Left
<1>7. Good(sup, child)'
  BY <1>2, <1>5, <1>6 DEF Good
<1>8. sup.pid = FALSE
  BY <1>1 DEF Fresh
<1>9. QED
  BY <1>2, <1>3, <1>7, <1>8 DEF CallInv, Worldly

LEMMA StartStep == CallInv /\ Start => CallInv'
<1> SUFFICES ASSUME CallInv, Start PROVE CallInv'
  OBVIOUS
<1> DEFINE Spawned(pid) == [sup EXCEPT !.pid = pid, !.deadline = TRUE]
<1>0. child = "idle" /\ ~sup.settled /\ UNCHANGED <<lane, aborted, chunks>>
  BY DEF Start
<1>9. PICK pid \in BOOLEAN, rss \in {"low", "high", "failed", "nobody"} :
          /\ child' = IF pid /\ rss # "nobody" THEN "running" ELSE "dead"
          /\ code' \in IF pid /\ ~(pid /\ rss # "nobody") THEN Codes \ {"none"} ELSE {code}
          /\ others' \in IF pid /\ rss # "nobody" THEN BOOLEAN ELSE {FALSE}
          /\ sup' = IF lane = "strict" /\ pid THEN Looked(Spawned(pid), rss) ELSE Spawned(pid)
  BY Zenon DEF Start
<1>10. PICK s : s = Spawned(pid)
  OBVIOUS
<1>11. /\ child' = IF pid /\ rss # "nobody" THEN "running" ELSE "dead"
       /\ code' \in IF pid /\ rss = "nobody" THEN Codes \ {"none"} ELSE {code}
       /\ others' \in IF pid /\ rss # "nobody" THEN BOOLEAN ELSE {FALSE}
       /\ sup' = IF lane = "strict" /\ pid THEN Looked(s, rss) ELSE s
  BY <1>9, <1>10
<1> HIDE DEF Spawned
<1>1. sup = Fresh /\ sup \in Supervisors
  BY <1>0, SuperIs DEF Waits
<1>2. /\ s \in Supervisors /\ s.settled = FALSE /\ s.state = "unknown" /\ s.closed = FALSE
      /\ s.reason = {} /\ s.pid = pid /\ s.stopping = FALSE /\ s.begun = 0 /\ s.kills = 0
      /\ s.settles = 0 /\ s.poll = FALSE /\ s.lost = FALSE /\ s.code = "none"
  <2>1. s = [Fresh EXCEPT !.pid = pid, !.deadline = TRUE]
    BY <1>1, <1>10 DEF Spawned
  <2>2. s \in Supervisors
    BY <1>1, <2>1 DEF Supervisors
  <2>3. QED
    BY <2>1, <2>2 DEF Fresh
<1>3. child' \in Lives \ {"idle"} /\ others' \in BOOLEAN
  BY <1>11 DEF Lives
<1>4. /\ Fit(s, child)' /\ Waits(s, child)'
      /\ pid /\ rss # "nobody" => Fit(s, "running") /\ Waits(s, "running")
  <2>0. ~s.pid => ~Left(child)'
    BY <1>2, <1>11 DEF Left
  <2>1. /\ s.kills <= s.settles /\ s.settles <= s.begun
        /\ s.reason \in Whys /\ s.reason \subseteq AgentReasons \cup {"spawn_error"}
        /\ "spawn_error" \notin s.reason
    <3>1. s.kills <= s.settles /\ s.settles <= s.begun
      BY <1>2
    <3>2. s.reason = {} /\ {} \in Whys
      BY <1>2, WhysAre, Zenon
    <3>3. QED
      BY <3>1, <3>2
  <2>2. ~s.poll /\ ~s.closed /\ ~s.settled /\ s.begun = IF s.stopping THEN 1 ELSE 0
    BY <1>2
  <2>3. Fit(s, child)' /\ (pid /\ rss # "nobody" => Fit(s, "running"))
    BY <1>0, <1>2, <2>0, <2>1, <2>2 DEF Fit
  <2>4. ~Ended(s.state) /\ child' \notin {"idle", "closed", "told"}
    BY <1>2, <1>11 DEF Ended
  <2>5. Waits(s, child)' /\ Waits(s, "running")
    BY <1>0, <2>2, <2>4 DEF Waits
  <2>6. QED
    BY <2>3, <2>5
<1>5. Good(sup, child)' /\ sup'.pid = pid
  <2>1. CASE lane = "strict" /\ pid /\ rss # "nobody"
    <3>1. /\ "running" \in Lives \ {"idle"} /\ Fit(s, "running") /\ Waits(s, "running")
          /\ (s.lost => s.reason # {}) /\ lane = "strict" /\ rss \in {"low", "high", "failed", "nobody"}
      BY <1>2, <1>4, <2>1 DEF Lives
    <3>2. Good(Looked(s, rss), "running") /\ ~Looked(s, rss).settled /\ Looked(s, rss).pid = s.pid
      BY ONLY <3>1, LookedIs
    <3>3. /\ sup' = Looked(s, rss) /\ child' = "running" /\ sup'.pid = pid /\ pid
          /\ UNCHANGED <<lane, code>>
      BY ONLY <1>0, <1>2, <1>11, <2>1, <3>2
    <3>4. Good(sup', "running")
      BY <3>2, <3>3
    <3>5. /\ Fit(sup', "running") /\ (sup'.lost => sup'.reason # {})
          /\ IF sup'.settled THEN Done(sup', "running") ELSE Waits(sup', "running")
      BY <3>4 DEF Good
    <3>6. Fit(sup, child)'
      BY <3>3, <3>5 DEF Fit
    <3>7. ~sup'.settled
      BY <3>2, <3>3
    <3>8. Waits(sup, child)'
      BY <3>3, <3>5, <3>7 DEF Waits
    <3>9. QED
      BY <3>3, <3>5, <3>6, <3>7, <3>8 DEF Good
  <2>2. CASE ~(lane = "strict" /\ pid /\ rss # "nobody")
    <3>1. sup' = s
      BY <1>11, <2>2 DEF Looked
    <3>2. Good(sup, child)'
      BY <1>0, <1>2, <1>4, <3>1 DEF Good, Fit, Waits, Left
    <3>3. QED
      BY <1>2, <3>1, <3>2
  <2>3. QED
    BY <2>1, <2>2
<1>6. code = "none"
  BY <1>0, SuperIs
<1>7. Worldly'
  <2>1. code' \in Codes /\ (code' # "none" <=> pid /\ rss = "nobody")
    BY ONLY <1>6, <1>11 DEF Codes
  <2>2. child' \in {"dead", "told", "closed"} <=> ~(pid /\ rss # "nobody")
    BY ONLY <1>11
  <2>3. code' # "none" <=> sup'.pid /\ child' \in {"dead", "told", "closed"}
    BY ONLY <1>5, <2>1, <2>2
  <2>4. QED
    BY <1>0, <1>3, <2>1, <2>3 DEF CallInv, Worldly
<1>8. QED
  BY <1>5, <1>7 DEF CallInv

\* The world's own steps.
LEMMA DieStep == CallInv /\ Die => CallInv'
<1> SUFFICES ASSUME CallInv, child = "running", child' = "dead", code' \in Codes \ {"none"},
                    UNCHANGED <<lane, others, aborted, chunks, sup>>
             PROVE  CallInv'
  BY DEF Die
<1>1. sup.pid /\ code = "none"
  BY SuperIs DEF Fit, Left
<1>2. Fit(sup, child)'
  BY <1>1, SuperIs DEF Fit, Left
<1>3. Worldly'
  BY <1>1 DEF CallInv, Worldly, Lives
<1>4. CASE sup.settled
  <2>1. Done(sup, child)'
    BY <1>4, SuperIs DEF Done, Ran, Left
  <2>2. QED
    BY <1>2, <1>3, <1>4, <2>1 DEF CallInv, Good
<1>5. CASE ~sup.settled
  <2>1. Waits(sup, child)'
    BY <1>5, SuperIs DEF Waits
  <2>2. QED
    BY <1>2, <1>3, <1>5, <2>1 DEF CallInv, Good
<1>6. QED
  BY <1>4, <1>5

LEMMA DisperseStep == CallInv /\ Disperse => CallInv'
<1> SUFFICES ASSUME CallInv, others' = FALSE, UNCHANGED <<lane, child, code, aborted, chunks, sup>>
             PROVE  CallInv'
  BY DEF Disperse
<1>1. Fit(sup, child)'
  BY SuperIs DEF Fit, Left
<1>2. Worldly'
  BY DEF CallInv, Worldly
<1>3. CASE sup.settled
  <2>1. Done(sup, child)'
    BY <1>3, SuperIs DEF Done, Ran, Left
  <2>2. QED
    BY <1>1, <1>2, <1>3, <2>1 DEF CallInv, Good
<1>4. CASE ~sup.settled
  <2>1. Waits(sup, child)'
    BY <1>4, SuperIs DEF Waits
  <2>2. QED
    BY <1>1, <1>2, <1>4, <2>1 DEF CallInv, Good
<1>5. QED
  BY <1>3, <1>4

-----------------------------------------------------------------------------
(* Theorems.                                                               *)

LEMMA InitInv == Init => CallInv
<1> SUFFICES ASSUME Init PROVE CallInv
  OBVIOUS
<1>1. Fresh \in Supervisors
  BY DEF Fresh, Supervisors, Codes, Seen
<1>2. /\ Fresh.kills = 0 /\ Fresh.settles = 0 /\ Fresh.begun = 0 /\ Fresh.stopping = FALSE
      /\ Fresh.reason = {} /\ Fresh.code = "none" /\ Fresh.closed = FALSE /\ Fresh.poll = FALSE
      /\ Fresh.pid = FALSE /\ Fresh.settled = FALSE /\ Fresh.lost = FALSE /\ Fresh.state = "unknown"
  BY DEF Fresh
<1>3. sup = Fresh /\ child = "idle" /\ others = FALSE /\ code = "none"
  BY DEF Init
<1>4. ~Left(child) /\ ~Ended(Fresh.state)
  BY <1>2, <1>3 DEF Left, Ended
<1>5. Fit(sup, child)
  <2>1. sup.kills <= sup.settles /\ sup.settles <= sup.begun
    BY <1>2, <1>3
  <2>2. sup.reason = {} /\ {} \in Whys
    BY <1>2, <1>3, WhysAre, Zenon
  <2>3. ~sup.poll /\ ~sup.closed /\ sup.begun = (IF sup.stopping THEN 1 ELSE 0) /\ sup.code = "none"
    BY <1>2, <1>3
  <2>4. QED
    BY <1>1, <1>3, <1>4, <2>1, <2>2, <2>3 DEF Fit
<1>6. Waits(sup, child)
  BY <1>2, <1>3, <1>4 DEF Waits
<1>7. Good(sup, child)
  BY <1>2, <1>3, <1>5, <1>6 DEF Good
<1>8. Worldly
  <2>1. code # "none" <=> sup.pid /\ child \in {"dead", "told", "closed"}
    BY <1>3
  <2>2. child \in Lives /\ others \in BOOLEAN /\ code \in Codes
    BY <1>3 DEF Lives, Codes
  <2>3. lane \in Lanes /\ aborted \in BOOLEAN /\ chunks \in 0..ChunkBound
    BY DEF Init
  <2>4. QED
    BY <2>1, <2>2, <2>3 DEF Worldly
<1>9. QED
  BY <1>7, <1>8 DEF CallInv

LEMMA NextInv == CallInv /\ [Next]_vars => CallInv'
<1> SUFFICES ASSUME CallInv, [Next]_vars PROVE CallInv'
  OBVIOUS
<1>1. ASSUME Refuse \/ Start \/ Die \/ Disperse PROVE CallInv'
  BY <1>1, RefuseStep, StartStep, DieStep, DisperseStep
<1>2. ASSUME Data \/ Exit \/ Error \/ Close PROVE CallInv'
  BY <1>2, DataStep, ExitStep, ErrorStep, CloseStep
<1>3. ASSUME Abort \/ Fires \/ Poll \/ Sample PROVE CallInv'
  BY <1>3, AbortStep, DeadlineStep, KillStep, SettleStep, PollStep, SampleStep DEF Fires
<1>4. CASE UNCHANGED vars
  <2>1. UNCHANGED <<lane, child, others, code, aborted, chunks, sup>>
    BY <1>4 DEF vars, world
  <2>2. Good(sup, child)'
    BY <2>1, SuperIs DEF Good, Fit, Waits, Done, Ran, Left
  <2>3. QED
    BY <2>1, <2>2 DEF CallInv, Worldly
<1>5. QED
  BY <1>1, <1>2, <1>3, <1>4 DEF Next

LEMMA InvHolds == Spec => []CallInv
<1>1. Init => CallInv
  BY InitInv
<1>2. CallInv /\ [Next]_vars => CallInv'
  BY NextInv
<1>3. QED
  BY <1>1, <1>2, PTL DEF Spec

\* The supervisor's state keeps its types: its timers are those of shutdowns it
\* began, and only plain names more than one cause.
THEOREM TypeCorrect == Spec => []TypeOK
<1>1. CallInv => TypeOK
  <2> SUFFICES ASSUME CallInv PROVE TypeOK
    OBVIOUS
  <2>1. sup \in Supervisors /\ sup.kills <= sup.settles /\ sup.settles <= sup.begun
    BY SuperIs DEF Fit
  <2>2. lane # "plain" => Cardinality(sup.reason) <= 1
    <3>1. ASSUME lane # "plain" PROVE sup.reason = {} \/ \E r : sup.reason = {r}
      BY <3>1, SuperIs DEF Fit, Whys
    <3>2. Cardinality({}) = 0
      BY FS_EmptySet
    <3>3. \A r : Cardinality({r}) = 1
      BY FS_Singleton
    <3>4. ASSUME lane # "plain" PROVE Cardinality(sup.reason) \in {0, 1}
      BY <3>1, <3>2, <3>3, <3>4, Zenon
    <3>5. QED
      BY <3>4
  <2>3. QED
    BY <2>1, <2>2 DEF CallInv, Worldly, TypeOK
<1>2. QED
  BY <1>1, InvHolds, PTL

\* However exit, close, output, timers, signals and observations follow each
\* other, a result that a caller takes for a run of the tool holds all of its
\* output and its own exit, and one given out as cleaned up leaves no process
\* of the group.
THEOREM ResultIsAlwaysTrue == Spec => []ResultIsTrue
<1>1. CallInv => ResultIsTrue
  <2> SUFFICES ASSUME CallInv PROVE ResultIsTrue
    OBVIOUS
  <2>1. ASSUME Accepted(sup) PROVE child = "closed" /\ ~sup.lost /\ code = "ok"
    <3>1. sup.settled /\ Done(sup, child) /\ Fit(sup, child) /\ (sup.lost => sup.reason # {})
      BY <2>1, SuperIs DEF Accepted, Good
    <3>2. lane \in {"plain", "agent", "strict"}
      BY DEF CallInv, Worldly, AllLanes
    <3>3. CASE lane = "plain"
      <4>1. sup.reason = {} /\ sup.code \in {"ok", "none"}
        BY <2>1, <3>3 DEF Accepted
      <4>2. QED
        BY <3>1, <3>3, <4>1 DEF Done, Ran
    <3>4. CASE lane = "agent"
      <4>1. sup.code = "ok" /\ sup.closed /\ sup.reason \cap AgentReasons = {}
        BY <2>1, <3>4 DEF Accepted, Confirmed, AgentReasons
      <4>2. sup.pid /\ sup.code = code /\ child = "closed"
        BY <3>1, <3>4, <4>1 DEF Fit
      <4>3. sup.reason = {}
        BY <3>1, <3>4, <4>1, <4>2 DEF Fit
      <4>4. QED
        BY <3>1, <4>1, <4>2, <4>3
    <3>5. CASE lane = "strict"
      <4>1. sup.code = "ok" /\ sup.closed /\ sup.reason = {}
        BY <2>1, <3>5 DEF Accepted, Confirmed
      <4>2. QED
        BY <3>1, <3>5, <4>1 DEF Fit
    <3>6. QED
      BY <3>2, <3>3, <3>4, <3>5
  <2>2. ASSUME sup.settled, lane # "plain", Confirmed(sup) PROVE GroupGone
    BY <2>2, SuperIs DEF Done, Confirmed, Left, GroupGone
  <2>3. QED
    BY <2>1, <2>2 DEF ResultIsTrue
<1>2. QED
  BY <1>1, InvHolds, PTL

\* No timer outlives the result, but those of an earlier shutdown of plain,
\* whatever the number of shutdowns.
THEOREM ResultIsAlwaysSilent == Spec => []ResultIsSilent
<1>1. CallInv => ResultIsSilent
  BY SuperIs DEF ResultIsSilent, Done
<1>2. QED
  BY <1>1, InvHolds, PTL
=============================================================================

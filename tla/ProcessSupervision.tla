------------------------- MODULE ProcessSupervision -------------------------
(***************************************************************************)
(* One call of runProcess in src/src/source/process.ts: the child, the     *)
(* process group it leads, and its supervisor in one of three lanes.       *)
(*                                                                         *)
(* The supervisor is a record that the handlers of Node's event loop map   *)
(* to the next one: stop() begins the shutdown, finish() resolves the      *)
(* result and check() finishes once the pipes are closed and no process of *)
(* the group is seen.  The child and its descendants go their own way: the *)
(* system may refuse a signal, and a descendant may keep the pipes open.   *)
(* A handler that runs after the result was resolved changes nothing a     *)
(* caller can see and is left out, except for timers nobody cleared.       *)
(***************************************************************************)
EXTENDS Naturals, FiniteSets

CONSTANTS
    Lanes,        \* the lanes of the instance
    Cap,          \* maxOutputBytes
    Sizes,        \* sizes of the chunks the child writes
    ChunkBound    \* bound: chunks the supervisor reads

\* plain: runProcess;  agent: runAgentProcess;  strict: runStrictProcess
AllLanes == {"plain", "agent", "strict"}

ASSUME LaneAssumption == Lanes \subseteq AllLanes
ASSUME SizeAssumption == /\ IsFiniteSet(Sizes) /\ Sizes \subseteq Nat \ {0}
                         /\ Cap \in Nat \ {0} /\ ChunkBound \in Nat

VARIABLES
    lane,
    child,     \* what its child has done, and Node told of it
    others,    \* a descendant is alive in the group
    code,      \* how the child ended
    aborted,   \* options.signal.aborted
    chunks,    \* history: for ChunkBound
    sup        \* the supervisor

world == <<child, others, code>>
vars  == <<lane, world, aborted, chunks, sup>>

\* dead: ended;  told: exit, or error, was emitted;  closed: close was.
Lives   == {"idle", "running", "dead", "told", "closed"}
Codes   == {"none", "ok", "high", "signal"}
Reasons == {"cancelled", "timeout", "output_limit", "rss_limit", "observer_unknown",
            "spawn_error", "close_unknown"}
Seen    == {"terminated", "running", "unknown", "not_started"}

\* Two fields are history: begun counts the shutdowns, lost says that output was
\* dropped.
Supervisors ==
    [settled : BOOLEAN, pid : BOOLEAN, reason : SUBSET Reasons, stopping : BOOLEAN,
     exited : BOOLEAN, closed : BOOLEAN, code : Codes, bytes : Nat,
     deadline : BOOLEAN, kills : Nat, settles : Nat, poll : BOOLEAN,
     rss : {"none", "measured", "failed"}, state : Seen, begun : Nat, lost : BOOLEAN]

\* The supervisor before the child is spawned.
Fresh == [settled |-> FALSE, pid |-> FALSE, reason |-> {}, stopping |-> FALSE,
          exited |-> FALSE, closed |-> FALSE, code |-> "none", bytes |-> 0,
          deadline |-> FALSE, kills |-> 0, settles |-> 0, poll |-> FALSE,
          rss |-> "none", state |-> "unknown", begun |-> 0, lost |-> FALSE]

\* Types of the supervisor's state.
TypeOK ==
    /\ lane \in Lanes /\ child \in Lives /\ others \in BOOLEAN /\ code \in Codes
    /\ aborted \in BOOLEAN /\ chunks \in 0..ChunkBound
    /\ sup \in Supervisors /\ sup.kills <= sup.settles /\ sup.settles <= sup.begun
    /\ lane # "plain" => Cardinality(sup.reason) <= 1

Init ==
    /\ lane \in Lanes /\ aborted \in BOOLEAN
    /\ child = "idle" /\ others = FALSE /\ code = "none"
    /\ chunks = 0 /\ sup = Fresh

-----------------------------------------------------------------------------
(* What the supervisor sees.                                               *)

GroupGone == child # "running" /\ ~others

\* observeOwnedGroup: kill(-pid, 0), then ps, which may fail.  Zombies count
\* as terminated.
Observations ==
    IF ~sup.pid THEN {"not_started"}
    ELSE {"unknown", IF GroupGone THEN "terminated" ELSE "running"}

Ended(state) == state \in {"terminated", "not_started"}

\* cleanupConfirmed
Confirmed(s) == s.closed /\ Ended(s.state)

-----------------------------------------------------------------------------
(* The supervisor's functions.                                             *)

\* plain keeps a flag for each cause, the others keep the first.
Noted_Every(s, why) == [s EXCEPT !.reason = @ \cup why]  \* Variant: every lane keeps all.
Noted(s, why) == IF lane = "plain" \/ s.reason = {} THEN [s EXCEPT !.reason = @ \cup why] ELSE s

\* Only plain starts over when it is already stopping.
Begins_Always(s) == TRUE  \* Variant: every lane does.
Begins(s) == lane = "plain" \/ ~s.stopping

\* stop: SIGTERM, then the timers of the shutdown.
Stop(s, why) ==
    IF Begins(s)
    THEN [Noted(s, why) EXCEPT !.stopping = TRUE, !.begun = @ + 1, !.kills = @ + 1,
                               !.settles = @ + 1, !.poll = lane = "agent"]
    ELSE Noted(s, why)

\* A reference to a timer is a reference to the last one: the others stay.
AllBut1(n) == IF n = 0 THEN 0 ELSE n - 1

\* What a strict result without a reason still lacks.
Lacks(s) ==
    IF lane # "strict" \/ s.reason # {} THEN s.reason
    ELSE IF s.rss # "measured" THEN {"observer_unknown"}
    ELSE IF ~s.closed /\ s.pid THEN {"close_unknown"}
    ELSE {}

\* finish, which looks at the group once more.
Finish(s, state) ==
    IF s.settled THEN s
    ELSE [s EXCEPT !.settled = TRUE, !.deadline = FALSE, !.poll = FALSE,
                   !.kills = AllBut1(@), !.settles = AllBut1(@),
                   !.reason = Lacks(s), !.state = state]

\* check, maybeFinish
Check(s, state, last) == IF s.closed /\ Ended(state) THEN Finish(s, last) ELSE s

\* append, collect: a chunk is ignored, or kept unless it is too much.
Deaf_Stopping(s) == lane = "agent" /\ s.stopping  \* Variant: at every shutdown.
Deaf(s) == lane = "agent" /\ s.stopping /\ s.reason # {}

Taken(s, n) ==
    LET over    == s.bytes + n > Cap
        counted == IF lane = "plain" /\ over THEN s ELSE [s EXCEPT !.bytes = @ + n]
    IN  IF Deaf(s)   THEN [s EXCEPT !.lost = TRUE]
        ELSE IF over THEN Stop([counted EXCEPT !.lost = TRUE], {"output_limit"})
        ELSE counted

\* strict: a sample sees the group's memory under its cap, over it, nobody, or
\* fails.
Looked(s, rss) ==
    LET counted == [s EXCEPT !.rss = IF @ = "none" THEN "measured" ELSE @]
    IN  CASE rss = "low"    -> counted
          [] rss = "high"   -> Stop(counted, {"rss_limit"})
          [] rss = "failed" -> Stop([s EXCEPT !.rss = "failed"], {"observer_unknown"})
          [] OTHER          -> s

\* The settlement timer.  plain reports SIGKILL, whatever became of the child.
Settled_Checked(s, state) == Check(s, state, state)  \* Variant: it waits for the group.
Settled(s, state) ==
    Finish(IF lane = "plain" THEN [s EXCEPT !.code = "signal"] ELSE s, state)

-----------------------------------------------------------------------------
(* The call.                                                               *)

\* The call is refused, or spawn throws.
Refuse ==
    /\ child = "idle" /\ ~sup.settled
    /\ sup' = [sup EXCEPT !.settled = TRUE, !.state = "not_started", !.closed = lane = "agent",
                          !.reason = {IF aborted THEN "cancelled" ELSE "spawn_error"}]
    /\ UNCHANGED <<lane, world, aborted, chunks>>

\* The child is spawned, or its spawn fails and error is emitted later; strict
\* takes its first sample at once, which sees nobody if the child has ended by
\* then.
Start ==
    /\ child = "idle" /\ ~sup.settled /\ ~aborted
    /\ \E pid \in BOOLEAN, rss \in {"low", "high", "failed", "nobody"} :
          LET s     == [sup EXCEPT !.pid = pid, !.deadline = TRUE]
              lives == pid /\ rss # "nobody"
          IN  /\ child' = IF lives THEN "running" ELSE "dead"
              /\ code' \in IF pid /\ ~lives THEN Codes \ {"none"} ELSE {code}
              /\ others' \in IF lives THEN BOOLEAN ELSE {FALSE}
              /\ sup' = IF lane = "strict" /\ pid THEN Looked(s, rss) ELSE s
    /\ UNCHANGED <<lane, aborted, chunks>>

\* The child ends, by itself or by a signal; so does the rest of its group.
Die ==
    /\ child = "running"
    /\ child' = "dead" /\ code' \in Codes \ {"none"}
    /\ UNCHANGED <<lane, others, aborted, chunks, sup>>

Disperse ==
    /\ others /\ others' = FALSE
    /\ UNCHANGED <<lane, child, code, aborted, chunks, sup>>

\* A handler makes the supervisor next, unless the result is resolved.
Handle(next) ==
    /\ sup' = IF sup.settled THEN sup ELSE next
    /\ UNCHANGED <<lane, others, code>>

\* data
Data ==
    /\ sup.pid /\ child # "closed" /\ chunks < ChunkBound
    /\ chunks' = chunks + 1
    /\ \E n \in Sizes : Handle(Taken(sup, n))
    /\ UNCHANGED <<child, aborted>>

\* exit, which plain does not listen to.
Exit ==
    /\ child = "dead" /\ sup.pid /\ child' = "told"
    /\ Handle(IF lane = "plain" THEN sup
              ELSE Stop([sup EXCEPT !.exited = TRUE, !.code = code], {}))
    /\ UNCHANGED <<aborted, chunks>>

\* error: agent lets it replace the reason and takes the pipes as closed.
Failed(s) ==
    LET stopped == Stop([s EXCEPT !.exited = TRUE, !.closed = TRUE, !.reason = {"spawn_error"}], {})
    IN  CASE lane = "plain"  -> Finish(Noted(s, {"spawn_error"}), "unknown")
          [] lane = "strict" -> Stop(s, {"spawn_error"})
          [] lane = "agent"  -> IF s.stopping THEN stopped
                                ELSE Check(stopped, "not_started", "not_started")

Error ==
    /\ child = "dead" /\ ~sup.pid /\ child' = "told"
    /\ Handle(Failed(sup))
    /\ UNCHANGED <<aborted, chunks>>

\* close: the child has ended and every holder of its pipes let go.
Close ==
    /\ child = "told" /\ child' = "closed"
    /\ \E state, last \in Observations :
          Handle(IF lane = "plain" THEN Finish([sup EXCEPT !.code = code], "unknown")
                 ELSE Check(Stop([sup EXCEPT !.closed = TRUE], {}), state, last))
    /\ UNCHANGED <<aborted, chunks>>

\* The caller aborts.
Abort ==
    /\ ~aborted /\ child # "idle" /\ aborted' = TRUE
    /\ Handle(Stop(sup, {"cancelled"}))
    /\ UNCHANGED <<child, chunks>>

\* The timers.  A shutdown's SIGKILL is due before its settlement.
Deadline ==
    /\ sup.deadline
    /\ Handle(Stop([sup EXCEPT !.deadline = FALSE], {"timeout"}))
    /\ UNCHANGED <<child, aborted, chunks>>

Kill ==
    /\ sup.kills > 0
    /\ \E state, last \in Observations :
          LET fired == [sup EXCEPT !.kills = @ - 1]
          IN  sup' = IF lane = "strict" THEN Check(fired, state, last) ELSE fired
    /\ UNCHANGED <<lane, world, aborted, chunks>>

Settle ==
    /\ sup.settles > sup.kills
    /\ \E state \in Observations :
          LET fired == [sup EXCEPT !.settles = @ - 1]
          IN  sup' = IF sup.settled THEN fired ELSE Settled(fired, state)
    /\ UNCHANGED <<lane, world, aborted, chunks>>

\* agent looks every 100 ms once it is stopping.
Poll ==
    /\ sup.poll
    /\ \E state, last \in Observations : Handle(Check(sup, state, last))
    /\ UNCHANGED <<child, aborted, chunks>>

\* strict samples every 100 ms, and the time may be up before its timer says so.
Sample ==
    /\ lane = "strict" /\ child # "idle"
    /\ \E rss \in IF GroupGone THEN {"nobody", "failed"} ELSE {"low", "high", "failed"},
          late \in BOOLEAN, state, last \in Observations :
          LET looked == IF sup.pid THEN Looked(sup, rss) ELSE sup
          IN  Handle(IF sup.exited THEN Check(sup, state, last)
                     ELSE IF sup.pid /\ late THEN Stop(looked, {"timeout"}) ELSE looked)
    /\ UNCHANGED <<child, aborted, chunks>>

Fires == Deadline \/ Kill \/ Settle

Next == \/ Refuse \/ Start
        \/ Die \/ Disperse
        \/ Data \/ Exit \/ Error \/ Close
        \/ Abort \/ Fires \/ Poll \/ Sample

\* Timers fire; the child and its group may live as long as they like.
Fairness == WF_vars(Refuse \/ Start) /\ WF_vars(Fires)

Spec == Init /\ [][Next]_vars /\ Fairness

-----------------------------------------------------------------------------
(* Properties.                                                             *)

\* What the callers take for a run of the tool: processFailure, the checks of
\* invokeCodex and nativeCheckFromProcess.
Accepted(s) ==
    /\ s.settled
    /\ s.code = "ok" \/ (lane = "plain" /\ s.code = "none")
    /\ CASE lane = "plain"  -> s.reason = {}
         [] lane = "agent"  -> /\ s.reason \cap {"cancelled", "timeout", "output_limit"} = {}
                               /\ Confirmed(s)
         [] lane = "strict" -> /\ s.reason = {} /\ s.rss = "measured"
                               /\ s.exited /\ Confirmed(s) /\ s.state # "not_started"

\* A result a caller takes for a run of the tool holds all of its output and
\* its own exit, in whatever order exit, close, output, timers and signals
\* came; one that agent or strict gives out as cleaned up leaves no process of
\* the group.
ResultIsTrue ==
    /\ Accepted(sup) => child = "closed" /\ ~sup.lost /\ code = "ok"
    /\ sup.settled /\ lane # "plain" /\ Confirmed(sup) => GroupGone

\* No timer outlives the result, so that no signal is sent to a group number
\* the system may have given away; only plain, shut down a second time,
\* forgets the timers of the first.
ResultIsSilent ==
    sup.settled =>
        /\ ~sup.deadline /\ ~sup.poll
        /\ sup.settles > 0 => lane = "plain" /\ sup.settles < sup.begun

\* A call gives its result, though the child never ends, a descendant keeps
\* the pipes open or the group cannot be observed.
Resolves == <>sup.settled
=============================================================================

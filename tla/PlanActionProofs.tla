-------------------------- MODULE PlanActionProofs --------------------------
(***************************************************************************)
(* Proofs about PlanAction, for any tree of processes and any groups.      *)
(*                                                                         *)
(* Supervised says what the wrapper may take for granted of a child it was *)
(* told about: an end is final, and the processes nobody knows can make no *)
(* known one.  Reported says what the receipt and the outputs are, from    *)
(* where main stands.                                                      *)
(***************************************************************************)
EXTENDS PlanAction, TLAPS

USE ProcsAssumption

Gone == Cli \in born \ alive

Supervised ==
    /\ stage = "setup" => sup = Fresh /\ told = "nothing" /\ born = {}
    /\ sup.phase \in {"running", "draining"} => stage = "supervise"
    /\ told # "nothing" => Gone
    /\ sup.exit # "none" => Gone /\ sup.exit = end.exit
    /\ sup.closed => told = "close"
    /\ sup.clean => /\ sup.phase = "returned" /\ sup.closed /\ sup.exit = "gate"
                    /\ Active(sup.known) = {} /\ sup.timers = {}
    /\ sup.phase = "draining" => sup.reason # "none"

Reported ==
    /\ stage \in {"verify", "open", "write"} => sup.clean
    /\ delivered => sup.clean /\ end.published
    /\ stage \in {"open", "write"} => delivered
    /\ stage = "write" => owned
    /\ stage \in {"setup", "supervise", "verify", "again"} => ~delivered
    /\ stage \in {"announce", "summary", "done"} /\ delivered => receipt = "whole"
    /\ stage \in {"announce", "summary", "again", "done"} /\ ~delivered => ~owned
    /\ receipt # "absent" => owned \/ "unlink" \in failed
    /\ stage \in Stages \ {"summary", "withdraw", "again", "done"} => outputs \in {"nothing", "no_file"}
    /\ stage = "summary" => outputs = Said
    /\ stage = "done" => IF delivered THEN outputs = Said /\ ~cancelled
                         ELSE outputs = Said \/ "append" \in failed

ActionInv == TypeOK /\ Supervised /\ Reported

-----------------------------------------------------------------------------
(* The supervisor's functions.                                             *)

\* What a function of the supervisor leaves alone.
Same(s, o) ==
    /\ o \in Supervisors /\ o.known \subseteq born
    /\ o.phase = s.phase /\ o.exit = s.exit /\ o.closed = s.closed /\ o.clean = s.clean
    /\ s.reason # "none" => o.reason # "none"

LEMMA ObserveIs ==
    ASSUME alive \subseteq born, born \subseteq Procs,
           NEW s \in Supervisors, s.known \subseteq born, NEW fails \in BOOLEAN
    PROVE  /\ Same(s, Observe(s, fails)) /\ Observe(s, fails).timers = s.timers
           /\ ~Observe(s, fails).blind => ~fails
<1>1. Visible(s.known) \subseteq born
  BY DEF Visible
<1>2. Visible(s.known) \in SUBSET Procs
  BY <1>1
<1>3. QED
  BY <1>1, <1>2 DEF Observe, Same, Supervisors

LEMMA BecauseIs ==
    ASSUME NEW s \in Supervisors, s.known \subseteq born, NEW why \in Reasons \ {"none"}
    PROVE  Because(s, why).reason # "none" /\ Same(s, Because(s, why)) /\ Because(s, why).timers = s.timers
BY DEF Because, Same, Supervisors

LEMMA StopIs ==
    ASSUME alive \subseteq born, born \subseteq Procs,
           NEW s \in Supervisors, s.known \subseteq born,
           NEW why \in Reasons \ {"none"}, NEW fails \in BOOLEAN
    PROVE  Same(s, Stop(s, why, fails))
<1> DEFINE o == [s EXCEPT !.reason = why, !.timers = @ \cup {"grace", "settlement"}]
<1>1. o \in Supervisors /\ Same(s, o)
  BY DEF Same, Supervisors, Timers
<1>2. Stop(s, why, fails) \in {s, Observe(o, fails)}
  BY DEF Stop
<1>3. Same(s, s)
  BY DEF Same
<1> HIDE DEF o
<1>4. Same(o, Observe(o, fails))
  BY <1>1, ObserveIs DEF Same
<1>5. QED
  BY <1>1, <1>2, <1>3, <1>4 DEF Same

LEMMA ReturnedIs ==
    ASSUME NEW s \in Supervisors, s.known \subseteq born, NEW fails \in BOOLEAN,
           ~s.blind => ~fails,
           NEW left, left = IF fails THEN {} ELSE Active(s.known)
    PROVE  LET o == Returned(s, left)
           IN  /\ o \in Supervisors /\ o.known \subseteq born /\ o.timers = s.timers
               /\ o.phase = "returned" /\ o.exit = s.exit /\ o.closed = s.closed
               /\ o.clean => /\ o.closed /\ o.exit = "gate" /\ Active(o.known) = {}
                             /\ s.reason = "none"
<1> DEFINE c == Clean(s) /\ left = {}
<1>1. c \in BOOLEAN
  BY DEF Clean
<1>2. c => s.closed /\ s.exit = "gate" /\ Active(s.known) = {} /\ s.reason = "none"
  BY DEF Clean
<1> DEFINE o == [s EXCEPT !.phase = "returned", !.clean = c]
<1>3. Returned(s, left) = o
  BY DEF Returned
<1> HIDE DEF c
<1>4. /\ o \in Supervisors /\ o.known = s.known /\ o.timers = s.timers /\ o.phase = "returned"
      /\ o.exit = s.exit /\ o.closed = s.closed /\ o.clean = c
  BY <1>1 DEF Supervisors
<1> HIDE DEF o
<1>5. QED
  BY <1>2, <1>3, <1>4

\* What a supervisor is once its child was spawned.
Fits(s) ==
    /\ s \in Supervisors /\ s.known \subseteq born /\ s.phase # "idle"
    /\ s.phase # "running" => s.timers \subseteq {"close"}
    /\ s.phase = "draining" => s.reason # "none"
    /\ s.exit # "none" => Gone /\ s.exit = end.exit
    /\ s.clean => /\ s.phase = "returned" /\ s.closed /\ s.exit = "gate"
                  /\ Active(s.known) = {} /\ s.timers = {}

LEMMA SameFits ==
    ASSUME NEW s, NEW o, Fits(s), ~s.clean, Same(s, o),
           s.phase = "running" \/ o.timers \subseteq {"close"}
    PROVE  Fits(o) /\ ~o.clean /\ o.phase = s.phase /\ o.closed = s.closed
BY DEF Fits, Same

LEMMA SettleIs ==
    ASSUME alive \subseteq born, born \subseteq Procs,
           NEW s, Fits(s), s.phase = "running", NEW fails \in BOOLEAN, NEW again \in BOOLEAN
    PROVE  Fits(Settle(s, fails, again)) /\ Settle(s, fails, again).closed = s.closed
<1> DEFINE c    == Cleared(s)
           seen == Observe(c, fails)
           left == IF fails THEN {} ELSE Active(seen.known)
           why  == Because(seen, "owned_descendants_remaining")
           kill == KillOwned(why, again)
<1>1. Same(s, c) /\ c.timers = {}
  BY DEF Fits, Cleared, Same, Supervisors, Timers
<1>2. Settle(s, fails, again) = IF left = {} THEN Returned(seen, left)
                                ELSE [kill EXCEPT !.phase = "draining"]
  BY Zenon DEF Settle
<1> HIDE DEF c
<1>3. Same(s, seen) /\ seen.timers = {} /\ (~seen.blind => ~fails)
  <2>1. c \in Supervisors /\ c.known \subseteq born
    BY <1>1 DEF Same
  <2>2. Same(c, seen) /\ seen.timers = c.timers /\ (~seen.blind => ~fails)
    BY <2>1, ObserveIs
  <2>3. QED
    BY <1>1, <2>2 DEF Same
<1> HIDE DEF seen
<1>4. CASE left = {}
  <2> DEFINE o == Returned(seen, left)
  <2>1. /\ o \in Supervisors /\ o.known \subseteq born /\ o.timers = {}
        /\ o.phase = "returned" /\ o.exit = seen.exit /\ o.closed = seen.closed
        /\ o.clean => o.closed /\ o.exit = "gate" /\ Active(o.known) = {}
    BY <1>3, ReturnedIs DEF Same
  <2>2. Settle(s, fails, again) = o
    BY <1>2, <1>4
  <2> HIDE DEF o
  <2>3. QED
    BY <1>3, <2>1, <2>2 DEF Fits, Same
<1>5. CASE left # {}
  <2>1. Same(seen, why) /\ why.timers = {} /\ why.reason # "none"
    BY <1>3, BecauseIs DEF Same, Reasons
  <2> HIDE DEF why
  <2>2. Same(why, kill) /\ kill.timers = {} /\ kill.reason # "none"
    BY <2>1, ObserveIs DEF Same, KillOwned
  <2>3. Same(s, kill)
    BY <1>3, <2>1, <2>2 DEF Same
  <2>4. ~kill.clean
    BY <2>3 DEF Fits, Same
  <2>5. Settle(s, fails, again) = [kill EXCEPT !.phase = "draining"]
    BY <1>2, <1>5
  <2> HIDE DEF kill
  <2>6. QED
    BY <2>2, <2>3, <2>4, <2>5 DEF Fits, Same, Supervisors
<1>6. QED
  BY <1>4, <1>5

\* Only the first finish settles; a later one finds the supervisor as it is.
LEMMA FinishIs ==
    ASSUME alive \subseteq born, born \subseteq Procs,
           NEW s, Fits(s), NEW fails \in BOOLEAN, NEW again \in BOOLEAN
    PROVE  LET o == Finish(s, fails, again)
           IN  /\ Fits(o) /\ o.closed = s.closed
               /\ s.phase # "running" => o.phase = s.phase
<1>1. CASE s.phase = "running"
  <2>1. Finish(s, fails, again) = Settle(s, fails, again)
    BY <1>1 DEF Finish
  <2>2. QED
    BY <1>1, <2>1, SettleIs
<1>2. CASE s.phase # "running"
  BY <1>2 DEF Finish
<1>3. QED
  BY <1>1, <1>2

-----------------------------------------------------------------------------
(* The wrapper while it supervises, and what it hears afterwards.          *)

\* The supervisor at hand is as its functions need it.
LEMMA RunningFits ==
    ASSUME ActionInv, sup.phase # "idle"
    PROVE  /\ Fits(sup) /\ alive \subseteq born /\ born \subseteq Procs
           /\ sup.clean => sup.phase = "returned" /\ sup.timers = {} /\ told = "close"
<1>1. sup \in Supervisors
  BY DEF ActionInv, TypeOK
<1>2. QED
  BY <1>1 DEF ActionInv, TypeOK, Supervised, Fits

\* A handler keeps the invariant when it leaves a supervisor that fits.  One
\* that is heard after the result finds a result that is not clean, and leaves
\* it and main where they are.
LEMMA HandlerKeeps ==
    ASSUME ActionInv, NEW phases, phases \subseteq Spawned, NEW next, Handle(phases, next),
           Fits(next), ~sup.clean, sup.phase = "returned" => next.phase = "returned",
           told' \in {"nothing", "exit", "close"},
           told' # "nothing" => Gone, next.closed => told' = "close"
    PROVE  ActionInv'
<1>1. /\ sup.phase \in Spawned /\ sup' = next /\ stage' = Onward(next)
      /\ UNCHANGED <<system, cancelled, report>> /\ stage # "setup"
      /\ sup.phase # "returned" => stage = "supervise"
  <2>1. /\ sup.phase \in Spawned /\ sup' = next /\ stage' = Onward(next)
        /\ UNCHANGED <<system, cancelled, report>>
    BY DEF Handle
  <2>2. stage # "setup"
    BY <2>1 DEF Spawned, ActionInv, Supervised, Fresh
  <2>3. sup.phase # "returned" => stage = "supervise"
    BY <2>1 DEF Spawned, ActionInv, Supervised
  <2>4. QED
    BY <2>1, <2>2, <2>3
<1>2. \/ stage' = stage /\ (next.phase \in {"running", "draining"} => stage = "supervise")
      \/ stage' = "verify" /\ next.phase = "returned" /\ next.clean /\ stage = "supervise"
      \/ stage' = "caught" /\ next.phase = "returned" /\ stage = "supervise"
  BY <1>1 DEF Onward
<1>3. Gone' = Gone
  BY <1>1 DEF Gone, system
<1>4. TypeOK'
  BY <1>1, <1>2 DEF ActionInv, TypeOK, Fits, Stages, system, report
<1>5. Supervised'
  <2>1. /\ stage' # "setup" /\ end' = end /\ sup' = next
        /\ next.phase \in {"running", "draining"} => stage' = "supervise"
    BY <1>1, <1>2 DEF system
  <2>2. /\ next.exit # "none" => Gone /\ next.exit = end.exit
        /\ next.clean => /\ next.phase = "returned" /\ next.closed /\ next.exit = "gate"
                         /\ Active(next.known) = {} /\ next.timers = {}
        /\ next.phase = "draining" => next.reason # "none"
    BY DEF Fits
  <2>3. Active(sup.known)' = Active(next.known)
    BY <1>1 DEF Active, system
  <2>4. QED
    BY <1>3, <2>1, <2>2, <2>3 DEF Supervised
<1>6. Reported'
  <2>1. UNCHANGED <<cancelled, delivered, owned, receipt, outputs, failed>> /\ Said' = Said
    BY <1>1 DEF report, Said, Status
  <2>2. CASE stage' = stage
    <3>1. ~delivered /\ stage \notin {"verify", "open", "write"}
      BY DEF ActionInv, Reported
    <3>2. QED
      BY <2>1, <2>2, <3>1 DEF ActionInv, Reported
  <2>3. CASE stage' # stage
    <3>1. ~delivered /\ outputs \in {"nothing", "no_file"}
          /\ (receipt # "absent" => owned \/ "unlink" \in failed)
      BY <1>2, <2>3 DEF ActionInv, Reported, Stages
    <3>2. stage' \in {"verify", "caught"} /\ (stage' = "verify" => sup'.clean)
      BY <1>1, <1>2, <2>3
    <3>3. QED
      BY <2>1, <3>1, <3>2 DEF Reported
  <2>4. QED
    BY <2>2, <2>3
<1>7. QED
  BY <1>4, <1>5, <1>6 DEF ActionInv

LEMMA SameHandlerKeeps ==
    ASSUME ActionInv, NEW next, Handle(Waiting, next), Same(sup, next),
           told' \in {"nothing", "exit", "close"}, told' # "nothing" => Gone,
           sup.closed => told' = "close"
    PROVE  ActionInv'
<1>1. sup.phase = "running" /\ Waiting \subseteq Spawned
  BY DEF Handle, Waiting, Spawned
<1>2. Fits(sup) /\ ~sup.clean
  BY <1>1, RunningFits
<1>3. Fits(next) /\ next.closed = sup.closed
  BY <1>1, <1>2, SameFits
<1>4. QED
  BY <1>1, <1>2, <1>3, HandlerKeeps

LEMMA FinishKeeps ==
    ASSUME ActionInv, NEW s, Fits(s), s.phase = sup.phase, ~sup.clean,
           NEW phases, phases \subseteq Spawned, NEW fails \in BOOLEAN, NEW again \in BOOLEAN,
           Handle(phases, Finish(s, fails, again)),
           told' \in {"nothing", "exit", "close"}, told' # "nothing" => Gone,
           s.closed => told' = "close"
    PROVE  ActionInv'
<1>1. sup.phase # "idle"
  BY DEF Handle, Spawned
<1>2. alive \subseteq born /\ born \subseteq Procs
  BY <1>1, RunningFits
<1> DEFINE next == Finish(s, fails, again)
<1>3. Fits(next) /\ next.closed = s.closed /\ (sup.phase = "returned" => next.phase = "returned")
  BY <1>2, FinishIs
<1>4. Handle(phases, next)
  OBVIOUS
<1> HIDE DEF next
<1>5. QED
  BY <1>3, <1>4, HandlerKeeps

\* What is told stays told while nobody says more.
LEMMA ToldIs ==
    ASSUME ActionInv
    PROVE  /\ told \in {"nothing", "exit", "close"} /\ (told # "nothing" => Gone)
           /\ sup.closed => told = "close"
BY DEF ActionInv, TypeOK, Supervised

LEMMA FiredIs ==
    ASSUME ActionInv, NEW t, t \in Timers
    PROVE  Same(sup, Fired(t)) /\ Fired(t).timers \subseteq sup.timers
BY DEF ActionInv, TypeOK, Fired, Same, Supervisors

LEMMA PollStep == ActionInv /\ Poll => ActionInv'
<1> SUFFICES ASSUME ActionInv, NEW fails \in BOOLEAN, Handle(Waiting, Observe(sup, fails)),
                    UNCHANGED told
             PROVE  ActionInv'
  BY DEF Poll
<1>1. Same(sup, Observe(sup, fails))
  BY RunningFits, ObserveIs DEF Handle, Waiting, Fits
<1>2. QED
  BY <1>1, ToldIs, SameHandlerKeeps

LEMMA OverflowStep == ActionInv /\ Overflow => ActionInv'
<1> SUFFICES ASSUME ActionInv, NEW fails \in BOOLEAN,
                    Handle(Waiting, Stop(sup, "output_limit", fails)), UNCHANGED told
             PROVE  ActionInv'
  BY DEF Overflow
<1>1. Same(sup, Stop(sup, "output_limit", fails))
  BY RunningFits, StopIs DEF Handle, Waiting, Fits, Reasons
<1>2. QED
  BY <1>1, ToldIs, SameHandlerKeeps

LEMMA ErrorStep == ActionInv /\ Error => ActionInv'
<1> SUFFICES ASSUME ActionInv, NEW fails \in BOOLEAN, NEW again \in BOOLEAN, UNCHANGED told,
                    Handle(Waiting, Finish(Because(sup, "spawn_error"), fails, again))
             PROVE  ActionInv'
  BY DEF Error
<1> DEFINE s == Because(sup, "spawn_error")
<1>1. sup.phase = "running" /\ Fits(sup) /\ ~sup.clean /\ Waiting \subseteq Spawned
  BY RunningFits DEF Handle, Waiting, Spawned
<1>2. Same(sup, s)
  BY <1>1, BecauseIs DEF Fits, Reasons
<1>3. Handle(Waiting, Finish(s, fails, again))
  OBVIOUS
<1> HIDE DEF s
<1>4. Fits(s) /\ s.phase = sup.phase /\ s.closed = sup.closed
  BY <1>1, <1>2, SameFits
<1>5. QED
  BY <1>1, <1>3, <1>4, ToldIs, FinishKeeps

\* The exit may be told late; then the result was not clean, for a clean one
\* comes after close.
LEMMA ExitStep == ActionInv /\ Exit => ActionInv'
<1> DEFINE s == [sup EXCEPT !.exit = end.exit, !.timers = @ \cup {"close"}]
<1> SUFFICES ASSUME ActionInv, Cli \in born \ alive, told = "nothing", told' = "exit",
                    NEW fails \in BOOLEAN, Handle(Spawned, Observe(s, fails))
             PROVE  ActionInv'
  BY DEF Exit
<1>1. sup.phase \in Spawned /\ Fits(sup) /\ ~sup.clean /\ alive \subseteq born /\ born \subseteq Procs
  BY RunningFits DEF Handle, Spawned
<1>2. end.exit \in Exits
  BY DEF ActionInv, TypeOK, Ends
<1>3. s \in Supervisors /\ s.known = sup.known /\ s.phase = sup.phase /\ s.exit = end.exit
      /\ s.closed = sup.closed /\ s.clean = sup.clean /\ s.reason = sup.reason
      /\ s.timers = sup.timers \cup {"close"}
  BY <1>1, <1>2 DEF Fits, Supervisors, Timers
<1> HIDE DEF s
<1>4. Fits(s)
  BY <1>1, <1>3 DEF Fits, Gone
<1> DEFINE next == Observe(s, fails)
<1>5. Same(s, next) /\ next.timers = s.timers
  BY <1>1, <1>4, ObserveIs DEF Fits
<1>6. Handle(Spawned, next)
  OBVIOUS
<1> HIDE DEF next
<1>7. Fits(next) /\ next.closed = s.closed /\ next.phase = s.phase
  <2>1. s.phase = "running" \/ next.timers \subseteq {"close"}
    BY <1>4, <1>5 DEF Fits
  <2>2. QED
    BY <1>1, <1>3, <1>4, <1>5, <2>1, SameFits
<1>8. ~sup.closed
  BY ToldIs
<1>9. QED
  BY <1>1, <1>3, <1>6, <1>7, <1>8, HandlerKeeps DEF Gone

LEMMA CloseStep == ActionInv /\ Close => ActionInv'
<1> DEFINE s == [sup EXCEPT !.closed = TRUE]
<1> SUFFICES ASSUME ActionInv, told = "exit", told' = "close", NEW fails \in BOOLEAN,
                    NEW again \in BOOLEAN, Handle(Spawned, Finish(s, fails, again))
             PROVE  ActionInv'
  BY DEF Close
<1>1. Fits(sup) /\ ~sup.clean
  BY RunningFits DEF Handle, Spawned
<1>2. s \in Supervisors /\ s.known = sup.known /\ s.phase = sup.phase /\ s.exit = sup.exit
      /\ s.timers = sup.timers /\ s.clean = sup.clean /\ s.reason = sup.reason
  BY <1>1 DEF Fits, Supervisors
<1> HIDE DEF s
<1>3. Fits(s)
  BY <1>1, <1>2 DEF Fits
<1>4. QED
  BY <1>1, <1>2, <1>3, ToldIs, FinishKeeps

LEMMA DeadlineStep == ActionInv /\ Deadline => ActionInv'
<1> DEFINE s == Fired("deadline")
<1> SUFFICES ASSUME ActionInv, UNCHANGED told, NEW fails \in BOOLEAN,
                    Handle(Waiting, Stop(s, "timeout", fails))
             PROVE  ActionInv'
  BY DEF Deadline
<1>1. alive \subseteq born /\ born \subseteq Procs
  BY RunningFits DEF Handle, Waiting
<1>2. Same(sup, s)
  BY FiredIs DEF Timers
<1> HIDE DEF s
<1>3. Same(s, Stop(s, "timeout", fails))
  BY <1>1, <1>2, StopIs DEF Same, Reasons
<1>4. Same(sup, Stop(s, "timeout", fails))
  BY <1>2, <1>3 DEF Same
<1>5. QED
  BY <1>4, ToldIs, SameHandlerKeeps

LEMMA GraceStep == ActionInv /\ Grace => ActionInv'
<1> DEFINE s == Fired("grace")
<1> SUFFICES ASSUME ActionInv, UNCHANGED told, NEW fails \in BOOLEAN,
                    Handle(Waiting, KillOwned(s, fails))
             PROVE  ActionInv'
  BY DEF Grace
<1>1. alive \subseteq born /\ born \subseteq Procs
  BY RunningFits DEF Handle, Waiting
<1>2. Same(sup, s)
  BY FiredIs DEF Timers
<1> HIDE DEF s
<1>3. Same(s, KillOwned(s, fails))
  BY <1>1, <1>2, ObserveIs DEF Same, KillOwned
<1>4. Same(sup, KillOwned(s, fails))
  BY <1>2, <1>3 DEF Same
<1>5. QED
  BY <1>4, ToldIs, SameHandlerKeeps

LEMMA GiveUpStep == ActionInv /\ GiveUp => ActionInv'
<1> SUFFICES ASSUME ActionInv, UNCHANGED told,
                    NEW t \in sup.timers \cap {"settlement", "close"}, NEW fails \in BOOLEAN,
                    NEW second \in BOOLEAN, NEW again \in BOOLEAN,
                    NEW s, s = IF t = "close" THEN Because(Fired(t), "close_unknown") ELSE Fired(t),
                    Handle(Spawned, Finish(KillOwned(s, fails), second, again))
             PROVE  ActionInv'
  BY DEF GiveUp
<1> DEFINE o == KillOwned(s, fails)
<1>1. Fits(sup) /\ ~sup.clean /\ alive \subseteq born /\ born \subseteq Procs
  BY RunningFits DEF Handle, Spawned
<1>2. Same(sup, Fired(t)) /\ Fired(t).timers \subseteq sup.timers
  BY FiredIs DEF Timers
<1>3. Same(sup, s) /\ s.timers \subseteq sup.timers
  <2> DEFINE f == Fired(t)
  <2>1. Same(sup, f) /\ f.timers \subseteq sup.timers
    BY <1>2
  <2> HIDE DEF f
  <2>2. Same(f, Because(f, "close_unknown")) /\ Because(f, "close_unknown").timers = f.timers
    BY <2>1, BecauseIs DEF Same, Reasons
  <2>3. s \in {f, Because(f, "close_unknown")}
    BY DEF f
  <2>4. QED
    BY <2>1, <2>2, <2>3 DEF Same
<1>4. Same(s, o) /\ o.timers = s.timers
  BY <1>1, <1>3, ObserveIs DEF Same, KillOwned
<1>5. Handle(Spawned, Finish(o, second, again))
  OBVIOUS
<1> HIDE DEF o
<1>6. Same(sup, o) /\ o.timers \subseteq sup.timers
  BY <1>3, <1>4 DEF Same
<1>7. Fits(o) /\ o.phase = sup.phase /\ o.closed = sup.closed
  <2>1. sup.phase = "running" \/ o.timers \subseteq {"close"}
    BY <1>1, <1>6 DEF Fits
  <2>2. QED
    BY <1>1, <1>6, <2>1, SameFits
<1>8. QED
  BY <1>1, <1>5, <1>7, ToldIs, FinishKeeps

LEMMA DrainStep ==
    ASSUME NEW late \in BOOLEAN
    PROVE  ActionInv /\ Drain(late) => ActionInv'
<1> SUFFICES ASSUME ActionInv, UNCHANGED told, NEW fails \in BOOLEAN,
                    NEW seen, seen = Observe(sup, fails),
                    NEW left, left = IF fails THEN {} ELSE Active(seen.known),
                    Handle({"draining"}, IF left = {} \/ late THEN Returned(seen, left) ELSE seen)
             PROVE  ActionInv'
  BY DEF Drain
<1>1. sup.phase = "draining" /\ Fits(sup) /\ ~sup.clean /\ alive \subseteq born /\ born \subseteq Procs
  BY RunningFits DEF Handle
<1>2. Same(sup, seen) /\ seen.timers = sup.timers /\ (~seen.blind => ~fails)
  BY <1>1, ObserveIs DEF Fits
<1>3. Fits(seen) /\ seen.closed = sup.closed /\ seen.timers \subseteq {"close"} /\ seen.reason # "none"
  BY <1>1, <1>2 DEF Fits, Same
<1> DEFINE o == Returned(seen, left)
<1>4. /\ o \in Supervisors /\ o.known \subseteq born /\ o.timers = seen.timers
      /\ o.phase = "returned" /\ o.exit = seen.exit /\ o.closed = seen.closed
      /\ o.clean => seen.reason = "none"
  BY <1>2, <1>3, ReturnedIs DEF Fits
<1>5. \/ Handle({"draining"}, o)
      \/ Handle({"draining"}, seen)
  BY Zenon
<1> HIDE DEF o
<1>6. Fits(o) /\ o.closed = sup.closed
  BY <1>3, <1>4 DEF Fits
<1>7. {"draining"} \subseteq Spawned
  BY DEF Spawned
<1>8. QED
  BY <1>1, <1>3, <1>5, <1>6, <1>7, ToldIs, HandlerKeeps

-----------------------------------------------------------------------------
(* The processes, the signals and main.                                    *)

LEMMA ParentIs ==
    ASSUME NEW p \in Procs \ {Cli}
    PROVE  Parent(p) \in Procs /\ Group[p] \in {p, Group[Parent(p)]}
<1>1. \E q \in Above[p] : Above[p] = Above[q] \cup {q}
  OBVIOUS
<1>2. Parent(p) \in Above[p] /\ Above[p] = Above[Parent(p)] \cup {Parent(p)}
  BY <1>1 DEF Parent
<1>3. Above[p] \subseteq Procs
  OBVIOUS
<1>4. QED
  BY <1>2, <1>3

\* Whoever comes to be has a parent that nobody waits for, and is in no group
\* that anybody waits for.
LEMMA ForkStep ==
    ASSUME NEW p \in Procs
    PROVE  ActionInv /\ Fork(p) => ActionInv'
<1> SUFFICES ASSUME ActionInv, Fork(p) PROVE ActionInv'
  OBVIOUS
<1>1. /\ p \notin born /\ p # Cli /\ Parent(p) \in alive
      /\ born' = born \cup {p} /\ alive' = alive \cup {p}
      /\ UNCHANGED <<end, told, cancelled, sup, stage, report>>
  BY DEF Fork
<1>2. alive \subseteq born /\ born \subseteq Procs /\ sup.known \subseteq born
  BY DEF ActionInv, TypeOK
<1>3. stage # "setup"
  BY <1>1, <1>2 DEF ActionInv, Supervised
<1>4. Gone => Gone'
  BY <1>1 DEF Gone
<1>5. Active(sup.known) = {} => Active(sup.known)' = {}
  <2> SUFFICES ASSUME Active(sup.known) = {}, NEW q \in Active(sup.known)' PROVE FALSE
    OBVIOUS
  <2>1. q \in alive' /\ (q \in sup.known \/ Group[q] \in sup.known)
    BY <1>1 DEF Active
  <2>2. q \notin alive
    BY <2>1 DEF Active
  <2>3. q = p
    BY <1>1, <2>1, <2>2
  <2>4. Group[p] = Group[Parent(p)] /\ Group[p] \in sup.known
    BY <1>1, <1>2, <2>1, <2>3, ParentIs
  <2>5. Parent(p) \in Active(sup.known)
    BY <1>1, <2>4 DEF Active
  <2>6. QED
    BY <2>5
<1>6. TypeOK'
  BY <1>1, <1>2 DEF ActionInv, TypeOK, report
<1>7. Supervised'
  BY <1>1, <1>3, <1>4, <1>5 DEF ActionInv, Supervised
<1>8. Reported'
  BY <1>1 DEF ActionInv, Reported, Said, Status, report
<1>9. QED
  BY <1>6, <1>7, <1>8 DEF ActionInv

LEMMA DieStep ==
    ASSUME NEW p \in Procs
    PROVE  ActionInv /\ Die(p) => ActionInv'
<1> SUFFICES ASSUME ActionInv, Die(p) PROVE ActionInv'
  OBVIOUS
<1>1. /\ p \in alive /\ alive' = alive \ {p}
      /\ end' \in (IF p = Cli THEN {e \in Ends : e.exit # "none"} ELSE {end})
      /\ UNCHANGED <<born, told, cancelled, sup, stage, report>>
  BY DEF Die
<1>2. Gone => Gone' /\ end' = end
  BY <1>1 DEF Gone
<1>3. Active(sup.known) = {} => Active(sup.known)' = {}
  BY <1>1 DEF Active
<1>4. TypeOK'
  <2>1. end' \in Ends
    BY <1>1 DEF ActionInv, TypeOK
  <2>2. QED
    BY <1>1, <2>1 DEF ActionInv, TypeOK, report
<1>5. Supervised'
  BY <1>1, <1>2, <1>3 DEF ActionInv, Supervised
<1>6. delivered => Gone
  BY DEF ActionInv, Supervised, Reported
<1>7. Reported'
  BY <1>1, <1>2, <1>6 DEF ActionInv, Reported, Said, Status, report
<1>8. QED
  BY <1>4, <1>5, <1>7 DEF ActionInv

LEMMA CancelStep == ActionInv /\ Cancel => ActionInv'
<1> SUFFICES ASSUME ActionInv, Cancel PROVE ActionInv'
  OBVIOUS
<1>1. /\ stage # "done" /\ cancelled' = TRUE
      /\ UNCHANGED <<born, alive, end, told, stage, delivered, owned, receipt, outputs, failed>>
  BY DEF Cancel, system, report
<1>2. Same(sup, sup') /\ (sup.phase # "running" => sup' = sup)
  <2>1. CASE sup.phase = "running"
    <3>1. PICK fails \in BOOLEAN : sup' = Stop(sup, "cancelled", fails)
      BY <2>1 DEF Cancel
    <3>2. QED
      BY <2>1, <3>1, RunningFits, StopIs DEF Fits, Reasons
  <2>2. CASE sup.phase # "running"
    <3>1. sup' = sup
      BY <2>2 DEF Cancel
    <3>2. QED
      BY <2>2, <3>1 DEF Same, ActionInv, TypeOK
  <2>3. QED
    BY <2>1, <2>2
<1>3. /\ sup' \in Supervisors /\ sup'.known \subseteq born /\ sup'.phase = sup.phase
      /\ sup'.exit = sup.exit /\ sup'.closed = sup.closed /\ sup'.clean = sup.clean
  BY <1>2 DEF Same
<1>4. TypeOK'
  BY <1>1, <1>2, <1>3 DEF ActionInv, TypeOK
<1>5. Supervised'
  <2>1. Gone' = Gone /\ (sup' = sup => Active(sup.known)' = Active(sup.known))
    BY <1>1 DEF Gone, Active
  <2>2. stage = "setup" => sup.phase = "idle"
    BY DEF ActionInv, Supervised, Fresh
  <2>3. sup.clean => sup' = sup
    BY <1>2 DEF ActionInv, Supervised
  <2>4. QED
    BY <1>1, <1>2, <1>3, <2>1, <2>2, <2>3 DEF ActionInv, Supervised
<1>6. Reported'
  BY <1>1, <1>3 DEF ActionInv, Reported, Said, Status
<1>7. QED
  BY <1>4, <1>5, <1>6 DEF ActionInv

LEMMA SetupStep == ActionInv /\ Setup => ActionInv'
<1> SUFFICES ASSUME ActionInv, Setup PROVE ActionInv'
  OBVIOUS
<1>1. /\ stage = "setup" /\ sup = Fresh /\ told = "nothing" /\ born = {} /\ alive = {}
      /\ ~delivered /\ outputs \in {"nothing", "no_file"}
  BY DEF Setup, ActionInv, TypeOK, Supervised, Reported, Stages
<1>2. UNCHANGED <<end, told, cancelled, delivered, owned, receipt, outputs, failed>>
  BY DEF Setup, report
<1>3. CASE stage' = "caught" /\ UNCHANGED <<born, alive, sup>>
  <2>1. TypeOK'
    BY <1>1, <1>2, <1>3 DEF ActionInv, TypeOK, Stages
  <2>2. Supervised'
    BY <1>1, <1>2, <1>3 DEF Supervised, Fresh
  <2>3. Reported'
    BY <1>1, <1>2, <1>3 DEF ActionInv, Reported
  <2>4. QED
    BY <2>1, <2>2, <2>3 DEF ActionInv
<1>4. CASE /\ stage' = "supervise" /\ born' \in {{}, {Cli}} /\ alive' = born'
           /\ sup' = [sup EXCEPT !.phase = "running", !.known = born', !.timers = {"deadline"}]
  <2>1. born' \subseteq Procs
    BY <1>4
  <2>2. /\ sup' \in Supervisors /\ sup'.phase = "running" /\ sup'.known = born'
        /\ sup'.exit = "none" /\ sup'.closed = FALSE /\ sup'.clean = FALSE
    BY <1>1, <1>4, <2>1 DEF Fresh, Supervisors, Timers, Reasons, Exits
  <2>3. TypeOK'
    BY <1>2, <1>4, <2>1, <2>2 DEF ActionInv, TypeOK, Stages
  <2>4. Supervised'
    BY <1>1, <1>2, <1>4, <2>2 DEF Supervised
  <2>5. Reported'
    BY <1>1, <1>2, <1>4 DEF ActionInv, Reported
  <2>6. QED
    BY <2>3, <2>4, <2>5 DEF ActionInv
<1>5. QED
  BY <1>3, <1>4 DEF Setup

\* The other steps of main leave the processes and the supervisor alone.
LEMMA MainKeeps ==
    ASSUME ActionInv, UNCHANGED <<system, told, cancelled, sup>>,
           stage' \in Stages \ {"setup"}, stage # "supervise",
           delivered' \in BOOLEAN, owned' \in BOOLEAN, receipt' \in {"absent", "begun", "whole"},
           owned' => receipt' # "absent", outputs' \in {"nothing", "no_file", "delivered", "failed"},
           failed' \subseteq {"unlink", "append"}
    PROVE  TypeOK' /\ Supervised'
<1>1. TypeOK'
  BY DEF ActionInv, TypeOK, system
<1>2. Gone' = Gone /\ Active(sup.known)' = Active(sup.known)
  BY DEF Gone, Active, system
<1>3. Supervised'
  BY <1>2 DEF ActionInv, Supervised, system
<1>4. QED
  BY <1>1, <1>3

LEMMA VerifyStep == ActionInv /\ Verify => ActionInv'
<1> SUFFICES ASSUME ActionInv, Verify PROVE ActionInv'
  OBVIOUS
<1>1. /\ stage = "verify" /\ UNCHANGED <<system, told, cancelled, sup>>
      /\ UNCHANGED <<owned, receipt, outputs, failed>>
      /\ \/ stage' = "caught" /\ delivered' = delivered
         \/ end.published /\ stage' = "open" /\ delivered' = TRUE
  BY DEF Verify, Main, Fact
<1>2. TypeOK' /\ Supervised'
  <2>1. stage' \in Stages \ {"setup"} /\ delivered' \in BOOLEAN
    BY <1>1 DEF ActionInv, TypeOK, Stages
  <2>2. QED
    BY <1>1, <2>1, MainKeeps DEF ActionInv, TypeOK
<1>3. Reported'
  BY <1>1 DEF ActionInv, Reported, Stages, system
<1>4. QED
  BY <1>2, <1>3 DEF ActionInv

LEMMA OpenStep == ActionInv /\ Open => ActionInv'
<1> SUFFICES ASSUME ActionInv, Open PROVE ActionInv'
  OBVIOUS
<1>1. /\ stage = "open" /\ UNCHANGED <<system, told, cancelled, sup>>
      /\ UNCHANGED <<delivered, outputs, failed>>
      /\ \/ stage' = "caught" /\ UNCHANGED <<owned, receipt>>
         \/ stage' = "write" /\ owned' = TRUE /\ receipt' = "begun"
  BY DEF Open, Main
<1>2. TypeOK' /\ Supervised'
  <2>1. /\ stage' \in Stages \ {"setup"} /\ owned \in BOOLEAN
        /\ receipt' \in {"absent", "begun", "whole"} /\ (owned => receipt # "absent")
    BY <1>1 DEF ActionInv, TypeOK, Stages
  <2>2. owned' \in BOOLEAN /\ (owned' => receipt' # "absent")
    <3>1. CASE owned' = owned /\ receipt' = receipt
      BY <2>1, <3>1
    <3>2. CASE owned' = TRUE /\ receipt' = "begun"
      BY <3>2
    <3>3. QED
      BY <1>1, <3>1, <3>2
  <2>3. QED
    BY <1>1, <2>1, <2>2, MainKeeps DEF ActionInv, TypeOK
<1>3. Reported'
  BY <1>1 DEF ActionInv, Reported, Stages, system
<1>4. QED
  BY <1>2, <1>3 DEF ActionInv

LEMMA WriteStep == ActionInv /\ Write => ActionInv'
<1> SUFFICES ASSUME ActionInv, Write PROVE ActionInv'
  OBVIOUS
<1>1. /\ stage = "write" /\ UNCHANGED <<system, told, cancelled, sup>>
      /\ UNCHANGED <<delivered, owned, outputs, failed>>
      /\ \/ stage' = "caught" /\ receipt' = receipt
         \/ receipt' = "whole" /\ stage' \in {"announce", "caught"}
  BY DEF Write, Main
<1>2. delivered /\ outputs \in {"nothing", "no_file"} /\ (receipt # "absent" => owned \/ "unlink" \in failed)
  BY <1>1 DEF ActionInv, Reported, Stages
<1>3. TypeOK' /\ Supervised'
  <2>1. /\ stage' \in Stages \ {"setup"}
        /\ receipt' \in {"absent", "begun", "whole"} /\ (owned' => receipt' # "absent")
    BY <1>1 DEF ActionInv, TypeOK, Stages
  <2>2. QED
    BY <1>1, <2>1, MainKeeps DEF ActionInv, TypeOK
<1>4. Reported'
  <2>1. owned
    BY <1>1 DEF ActionInv, Reported
  <2>2. QED
    BY <1>1, <1>2 DEF ActionInv, Reported, Stages, system
<1>5. QED
  BY <1>3, <1>4 DEF ActionInv

LEMMA CatchStep == ActionInv /\ Catch => ActionInv'
<1> SUFFICES ASSUME ActionInv, Catch PROVE ActionInv'
  OBVIOUS
<1>1. /\ UNCHANGED <<system, told, cancelled, sup>>
      /\ \/ stage = "caught"   /\ stage' = "announce"
         \/ stage = "withdraw" /\ stage' = "again"
      /\ owned' = FALSE /\ delivered' = FALSE /\ outputs' = outputs
  BY DEF Catch, Main
<1>2. /\ receipt \in {"absent", "begun", "whole"} /\ failed \subseteq {"unlink", "append"}
      /\ outputs \in {"nothing", "no_file", "delivered", "failed"}
      /\ receipt # "absent" => owned \/ "unlink" \in failed
  BY DEF ActionInv, TypeOK, Reported
<1>3. \/ ~owned /\ UNCHANGED <<receipt, failed>>
      \/ receipt' = "absent" /\ failed' = failed
      \/ failed' = failed \cup {"unlink"} /\ receipt' = receipt
  BY DEF Catch, TakeBack
<1>4. TypeOK' /\ Supervised'
  <2>1. receipt' \in {"absent", "begun", "whole"} /\ failed' \subseteq {"unlink", "append"}
    BY <1>2, <1>3
  <2>2. stage' \in Stages \ {"setup"} /\ stage # "supervise"
    BY <1>1 DEF Stages
  <2>3. QED
    BY <1>1, <1>2, <2>1, <2>2, MainKeeps
<1>5. Reported'
  <2>1. receipt' # "absent" => "unlink" \in failed'
    BY <1>2, <1>3
  <2>2. stage = "caught" => outputs \in {"nothing", "no_file"}
    BY DEF ActionInv, Reported, Stages
  <2>3. QED
    BY <1>1, <2>1, <2>2 DEF Reported, Stages
<1>6. QED
  BY <1>4, <1>5 DEF ActionInv

LEMMA SaidIs == Said \in {"no_file", "delivered", "failed"}
BY DEF Said, Status

LEMMA AnnounceStep == ActionInv /\ Announce => ActionInv'
<1> SUFFICES ASSUME ActionInv, Announce PROVE ActionInv'
  OBVIOUS
<1>1. /\ stage = "announce" /\ UNCHANGED <<system, told, cancelled, sup>>
      /\ UNCHANGED <<delivered, owned, receipt, failed>>
      /\ \/ outputs' = Said /\ stage' = "summary"
         \/ outputs' \in {outputs, Said} /\ stage' = "withdraw"
  BY DEF Announce, Main
<1>2. outputs \in {"nothing", "no_file"} /\ (outputs' = Said => Said' = Said)
  BY <1>1 DEF ActionInv, Reported, Stages, Said, Status
<1>3. TypeOK' /\ Supervised'
  <2>1. stage' \in Stages \ {"setup"} /\ outputs' \in {"nothing", "no_file", "delivered", "failed"}
    BY <1>1, <1>2, SaidIs DEF Stages
  <2>2. QED
    BY <1>1, <2>1, MainKeeps DEF ActionInv, TypeOK
<1>4. Reported'
  BY <1>1, <1>2 DEF ActionInv, Reported, Stages, system
<1>5. QED
  BY <1>3, <1>4 DEF ActionInv

LEMMA SummaryStep == ActionInv /\ Summary => ActionInv'
<1> SUFFICES ASSUME ActionInv, Summary PROVE ActionInv'
  OBVIOUS
<1>1. /\ stage = "summary" /\ UNCHANGED <<system, told, cancelled, sup>>
      /\ UNCHANGED <<delivered, owned, receipt, outputs, failed>>
      /\ \/ stage' = "withdraw"
         \/ stage' = "done" /\ ~cancelled
  BY DEF Summary, Main, report, Interrupted
<1>2. outputs = Said /\ Said' = Said
  BY <1>1 DEF ActionInv, Reported, Said, Status
<1>3. TypeOK' /\ Supervised'
  <2>1. stage' \in Stages \ {"setup"}
    BY <1>1 DEF Stages
  <2>2. QED
    BY <1>1, <2>1, MainKeeps DEF ActionInv, TypeOK
<1>4. Reported'
  BY <1>1, <1>2 DEF ActionInv, Reported, Stages, system
<1>5. QED
  BY <1>3, <1>4 DEF ActionInv

LEMMA AgainStep == ActionInv /\ Again => ActionInv'
<1> SUFFICES ASSUME ActionInv, Again PROVE ActionInv'
  OBVIOUS
<1>1. /\ stage = "again" /\ stage' = "done" /\ UNCHANGED <<system, told, cancelled, sup>>
      /\ UNCHANGED <<delivered, owned, receipt>>
      /\ \/ outputs' = Said /\ failed' = failed
         \/ outputs' \in {outputs, Said} /\ failed' = failed \cup {"append"}
  BY DEF Again, Main
<1>2. /\ ~delivered /\ ~owned /\ (outputs' = Said => Said' = Said)
      /\ outputs \in {"nothing", "no_file", "delivered", "failed"} /\ failed \subseteq {"unlink", "append"}
      /\ receipt # "absent" => "unlink" \in failed
  BY <1>1 DEF ActionInv, TypeOK, Reported, Said, Status
<1>3. TypeOK' /\ Supervised'
  <2>1. /\ stage' \in Stages \ {"setup"} /\ outputs' \in {"nothing", "no_file", "delivered", "failed"}
        /\ failed' \subseteq {"unlink", "append"}
    BY <1>1, <1>2, SaidIs DEF Stages
  <2>2. QED
    BY <1>1, <2>1, MainKeeps DEF ActionInv, TypeOK
<1>4. Reported'
  <2>1. outputs' = Said' \/ "append" \in failed'
    BY <1>1, <1>2
  <2>2. receipt' # "absent" => "unlink" \in failed'
    BY <1>1, <1>2
  <2>3. QED
    BY <1>1, <1>2, <2>1, <2>2 DEF Reported, Stages
<1>5. QED
  BY <1>3, <1>4 DEF ActionInv

-----------------------------------------------------------------------------
(* Theorems.                                                               *)

LEMMA InitInv == Init => ActionInv
<1> SUFFICES ASSUME Init PROVE ActionInv
  OBVIOUS
<1>1. TypeOK
  BY DEF Init, TypeOK, Ends, Exits, Supervisors, Fresh, Reasons, Timers, Stages
<1>2. Supervised
  BY DEF Init, Supervised, Fresh
<1>3. Reported
  BY DEF Init, Reported
<1>4. QED
  BY <1>1, <1>2, <1>3 DEF ActionInv

LEMMA NextInv == ActionInv /\ [Next]_vars => ActionInv'
<1> SUFFICES ASSUME ActionInv, [Next]_vars PROVE ActionInv'
  OBVIOUS
<1>1. ASSUME NEW p \in Procs, Fork(p) \/ Die(p) PROVE ActionInv'
  BY <1>1, ForkStep, DieStep
<1>2. ASSUME Poll \/ Overflow \/ Error \/ Exit \/ Close PROVE ActionInv'
  BY <1>2, PollStep, OverflowStep, ErrorStep, ExitStep, CloseStep
<1>3. ASSUME Fires \/ Drain(FALSE) PROVE ActionInv'
  BY <1>3, DeadlineStep, GraceStep, GiveUpStep, DrainStep DEF Fires
<1>4. ASSUME Cancel \/ Turn PROVE ActionInv'
  BY <1>4, CancelStep, SetupStep, VerifyStep, OpenStep, WriteStep, CatchStep, AnnounceStep,
     SummaryStep, AgainStep DEF Turn
<1>5. CASE UNCHANGED vars
  <2>1. Gone' = Gone /\ Active(sup.known)' = Active(sup.known) /\ Said' = Said
    BY <1>5 DEF vars, system, report, Gone, Active, Said, Status
  <2>2. TypeOK'
    BY <1>5 DEF ActionInv, TypeOK, vars, system, report
  <2>3. Supervised'
    BY <1>5, <2>1 DEF ActionInv, Supervised, vars, system
  <2>4. Reported'
    BY <1>5, <2>1 DEF ActionInv, Reported, vars, system, report
  <2>5. QED
    BY <2>2, <2>3, <2>4 DEF ActionInv
<1>6. QED
  BY <1>1, <1>2, <1>3, <1>4, <1>5 DEF Next

LEMMA InvHolds == Spec => []ActionInv
<1>1. Init => ActionInv
  BY InitInv
<1>2. ActionInv /\ [Next]_vars => ActionInv'
  BY NextInv
<1>3. QED
  BY <1>1, <1>2, PTL DEF Spec

\* The wrapper's state keeps its types; no timer outlives the wait for the
\* child but the one that an exit heard late starts once more, and a receipt
\* the wrapper holds to be its own is there.
THEOREM TypeCorrect == Spec => []TypeOK
<1>1. ActionInv => TypeOK
  BY DEF ActionInv
<1>2. QED
  BY <1>1, InvHolds, PTL

\* Whatever processes the CLI starts, in whatever groups and in whatever order
\* they start, end and are seen, the step reports a delivery only for a CLI
\* that ended by itself with a gate's exit code, published what it says and
\* left nobody the wrapper had seen; any other end takes the receipt and the
\* outputs back, if what does so does not fail itself.
THEOREM ReportIsAlwaysTrue == Spec => []ReportIsTrue
<1>1. ActionInv => ReportIsTrue
  <2> SUFFICES ASSUME ActionInv PROVE ReportIsTrue
    OBVIOUS
  <2>1. sup.clean => /\ Active(sup.known) = {} /\ sup.timers = {}
                     /\ told = "close" /\ end.exit = "gate"
    BY DEF ActionInv, Supervised
  <2>2. ASSUME stage = "done", delivered
        PROVE  /\ sup.clean /\ end.published /\ ~cancelled
               /\ receipt = "whole" /\ outputs \in {"delivered", "no_file"}
    BY <2>2 DEF ActionInv, Reported, Said, Status
  <2>3. ASSUME stage = "done", ~delivered
        PROVE  /\ receipt # "absent" => "unlink" \in failed
               /\ outputs = "delivered" => "append" \in failed
    BY <2>3 DEF ActionInv, Reported, Said, Status
  <2>4. QED
    BY <2>1, <2>2, <2>3 DEF ReportIsTrue
<1>2. QED
  BY <1>1, InvHolds, PTL
=============================================================================

----------------------------- MODULE PlanAction -----------------------------
(***************************************************************************)
(* The wrapper of the run-plan Action: main() of src/actions/run-plan/     *)
(* run.mjs over superviseCli of supervise.mjs.                             *)
(*                                                                         *)
(* The wrapper spawns the CLI, whose engines are processes of their own,   *)
(* some in groups of their own; it learns of them only by listing the      *)
(* processes while their parents live.  When the CLI has ended and nobody  *)
(* it saw is left, the wrapper verifies what was published, writes its     *)
(* receipt and then the step's outputs.  Until the last of these a SIGINT  *)
(* or SIGTERM, or a step that fails, takes all of it back.                 *)
(*                                                                         *)
(* A signal to a process may be refused or take its time: processes end    *)
(* when they like.                                                         *)
(***************************************************************************)
EXTENDS FiniteSets

CONSTANTS
    Procs,     \* the processes that may come to be
    Cli,       \* the CLI
    Above,     \* Above[p]: its ancestors, up to the CLI
    Group      \* Group[p]: the leader of its group

ASSUME ProcsAssumption ==
    /\ Cli \in Procs /\ Above \in [Procs -> SUBSET Procs] /\ Group \in [Procs -> Procs]
    /\ Above[Cli] = {} /\ \A p \in Procs \ {Cli} : Cli \in Above[p] /\ p \notin Above[p]
    /\ \A p \in Procs : Group[Group[p]] = Group[p]
    \* A process has a parent, whose group it is in or leaves for its own.
    /\ \A p \in Procs \ {Cli} : \E q \in Above[p] : Above[p] = Above[q] \cup {q}
    /\ \A p \in Procs, q \in Procs : Above[p] = Above[q] \cup {q} => Group[p] \in {p, Group[q]}

VARIABLES
    born, alive,  \* the processes so far, and those that live
    end,          \* how the CLI ended: its exit, and whether it had published
    told,         \* what Node told of it: nothing, exit, then close
    cancelled,    \* cancelled.signal.aborted
    sup,          \* superviseCli
    stage,        \* where main stands
    delivered,    \* state.deliveryStatus = "delivered"
    owned,        \* receiptOwned
    receipt,      \* run-action-receipt.json
    outputs,      \* what the last lines of GITHUB_OUTPUT say, if there is one
    failed        \* history: what could not be taken back

system == <<born, alive, end>>
report == <<delivered, owned, receipt, outputs, failed>>
vars   == <<system, told, cancelled, sup, stage, report>>

Exits   == {"none", "gate", "other", "signal"}
Ends    == [exit : Exits, published : BOOLEAN]
Reasons == {"none", "cancelled", "timeout", "output_limit", "spawn_error", "close_unknown",
            "owned_descendants_remaining"}
Stages  == {"setup", "supervise", "verify", "open", "write", "caught", "announce",
            "summary", "withdraw", "again", "done"}

\* The timers of superviseCli.
Timers == {"deadline", "grace", "settlement", "close"}

Supervisors ==
    [phase : {"idle", "running", "draining", "returned"}, reason : Reasons,
     known : SUBSET Procs, blind : BOOLEAN, timers : SUBSET Timers, exit : Exits,
     closed : BOOLEAN, clean : BOOLEAN]

Fresh == [phase |-> "idle", reason |-> "none", known |-> {}, blind |-> FALSE,
          timers |-> {}, exit |-> "none", closed |-> FALSE, clean |-> FALSE]

\* Types of the wrapper's state.  Of the timers only close may run once the
\* wait for the child is over: an exit the wrapper is told of late starts it
\* again, after it was cleared (supervise.mjs:66-71, 75).  A receipt the wrapper
\* holds to be its own is there.
TypeOK ==
    /\ born \subseteq Procs /\ alive \subseteq born /\ end \in Ends
    /\ told \in {"nothing", "exit", "close"} /\ cancelled \in BOOLEAN
    /\ sup \in Supervisors /\ sup.known \subseteq born
    /\ sup.phase # "running" => sup.timers \subseteq {"close"}
    /\ stage \in Stages /\ delivered \in BOOLEAN /\ owned \in BOOLEAN
    /\ receipt \in {"absent", "begun", "whole"} /\ (owned => receipt # "absent")
    /\ outputs \in {"nothing", "no_file", "delivered", "failed"}
    /\ failed \subseteq {"unlink", "append"}

Init ==
    /\ born = {} /\ alive = {} /\ end = [exit |-> "none", published |-> FALSE]
    /\ told = "nothing" /\ cancelled = FALSE /\ sup = Fresh /\ stage = "setup"
    /\ delivered = FALSE /\ owned = FALSE /\ receipt = "absent"
    /\ outputs \in {"nothing", "no_file"} /\ failed = {}

-----------------------------------------------------------------------------
(* What superviseCli knows.                                                *)

\* observe: a process whose parent is known.  The children of a process that
\* ended have another parent by then.
Visible(known) ==
    known \cup {p \in alive : \E a \in known \cap Above[p] :
                    {a} \cup {q \in Above[p] : a \in Above[q]} \subseteq alive}

\* A listing may fail.
Observe(s, fails) ==
    IF fails THEN [s EXCEPT !.blind = TRUE] ELSE [s EXCEPT !.known = Visible(@)]

\* active: the known processes that live, and all of the groups they lead.
Active(known) == {p \in alive : p \in known \/ Group[p] \in known}

\* killOwned: what it signals ends when it likes.
KillOwned(s, fails) == Observe(s, fails)

\* Variant: nothing settles a stop that the CLI does not follow.
Stop_NoSettlement(s, why, fails) ==
    IF s.reason # "none" THEN s
    ELSE Observe([s EXCEPT !.reason = why, !.timers = @ \cup {"grace"}], fails)

\* stop
Stop(s, why, fails) ==
    IF s.reason # "none" THEN s
    ELSE Observe([s EXCEPT !.reason = why, !.timers = @ \cup {"grace", "settlement"}], fails)

Because(s, why) == [s EXCEPT !.reason = IF @ = "none" THEN why ELSE @]

\* The result.  main goes on only from a clean one.
Clean(s) == s.closed /\ ~s.blind /\ s.reason = "none" /\ s.exit = "gate"
Returned(s, left) == [s EXCEPT !.phase = "returned", !.clean = Clean(s) /\ left = {}]

\* What follows the wait for the child.
Cleared_ButSettlement(s) == [s EXCEPT !.timers = @ \cap {"settlement"}]  \* Variant: one is forgotten.
Cleared(s) == [s EXCEPT !.timers = {}]

Settle(s, fails, again) ==
    LET seen == Observe(Cleared(s), fails)
        left == IF fails THEN {} ELSE Active(seen.known)
    IN  IF left = {} THEN Returned(seen, left)
        ELSE [KillOwned(Because(seen, "owned_descendants_remaining"), again)
                EXCEPT !.phase = "draining"]

\* finish: only the first one settles.
Finish(s, fails, again) == IF s.phase = "running" THEN Settle(s, fails, again) ELSE s

-----------------------------------------------------------------------------
(* The CLI and its engines.                                                *)

Parent(p) == CHOOSE q \in Above[p] : Above[p] = Above[q] \cup {q}

Fork(p) ==
    /\ p \in Procs \ (born \cup {Cli}) /\ Parent(p) \in alive
    /\ born' = born \cup {p} /\ alive' = alive \cup {p}
    /\ UNCHANGED <<end, told, cancelled, sup, stage, report>>

Die(p) ==
    /\ p \in alive /\ alive' = alive \ {p}
    /\ end' \in IF p = Cli THEN {e \in Ends : e.exit # "none"} ELSE {end}
    /\ UNCHANGED <<born, told, cancelled, sup, stage, report>>

-----------------------------------------------------------------------------
(* superviseCli.                                                           *)

\* main takes the result in the turn that returns it.
Onward(s) ==
    IF sup.phase = "returned" \/ s.phase # "returned" THEN stage
    ELSE IF s.clean /\ ~cancelled THEN "verify" ELSE "caught"

\* Nobody removes the listeners of exit and close: they hear what comes after
\* the wait for the child, and after its result.
Waiting == {"running"}
Spawned == {"running", "draining", "returned"}

\* A handler, in the phases in which it is heard.
Handle(phases, next) ==
    /\ sup.phase \in phases /\ sup' = next /\ stage' = Onward(next)
    /\ UNCHANGED <<system, cancelled, report>>

Poll == \E fails \in BOOLEAN : Handle(Waiting, Observe(sup, fails)) /\ UNCHANGED told

\* The output is over its limit.
Overflow ==
    /\ told # "close" /\ Cli \in born
    /\ \E fails \in BOOLEAN : Handle(Waiting, Stop(sup, "output_limit", fails))
    /\ UNCHANGED told

Error ==
    /\ born = {}
    /\ \E fails, again \in BOOLEAN :
          Handle(Waiting, Finish(Because(sup, "spawn_error"), fails, again))
    /\ UNCHANGED told

Exit ==
    /\ Cli \in born \ alive /\ told = "nothing" /\ told' = "exit"
    /\ \E fails \in BOOLEAN :
          Handle(Spawned, Observe([sup EXCEPT !.exit = end.exit, !.timers = @ \cup {"close"}], fails))

\* Whoever held the CLI's pipes let go of them.
Close ==
    /\ told = "exit" /\ told' = "close"
    /\ \E fails, again \in BOOLEAN :
          Handle(Spawned, Finish([sup EXCEPT !.closed = TRUE], fails, again))

Fired(t) == [sup EXCEPT !.timers = @ \ {t}]

Deadline ==
    /\ "deadline" \in sup.timers
    /\ \E fails \in BOOLEAN : Handle(Waiting, Stop(Fired("deadline"), "timeout", fails))
    /\ UNCHANGED told

Grace ==
    /\ "grace" \in sup.timers
    /\ \E fails \in BOOLEAN : Handle(Waiting, KillOwned(Fired("grace"), fails))
    /\ UNCHANGED told

\* The settlement, and the timer that waits for close after exit.
GiveUp ==
    /\ \E t \in sup.timers \cap {"settlement", "close"}, fails, second, again \in BOOLEAN :
          /\ t = "settlement" => "grace" \notin sup.timers
          /\ LET s == IF t = "close" THEN Because(Fired(t), "close_unknown") ELSE Fired(t)
             IN  Handle(Spawned, Finish(KillOwned(s, fails), second, again))
    /\ UNCHANGED told

\* The two seconds in which what is left may go, and, late, their end.
Drain(late) ==
    /\ \E fails \in BOOLEAN :
          LET seen == Observe(sup, fails)
              left == IF fails THEN {} ELSE Active(seen.known)
          IN  Handle({"draining"}, IF left = {} \/ late THEN Returned(seen, left) ELSE seen)
    /\ UNCHANGED told

-----------------------------------------------------------------------------
(* main.                                                                   *)

\* SIGINT or SIGTERM.
Cancel ==
    /\ ~cancelled /\ stage # "done" /\ cancelled' = TRUE
    /\ \E fails \in BOOLEAN :
          sup' = IF sup.phase = "running" THEN Stop(sup, "cancelled", fails) ELSE sup
    /\ UNCHANGED <<system, told, stage, report>>

\* The policy, the paths and the bundle; then the CLI is spawned, or its spawn
\* fails and error is emitted.
Setup ==
    /\ stage = "setup"
    /\ \/ /\ stage' = "caught" /\ UNCHANGED <<born, alive, sup>>
       \/ /\ ~cancelled /\ stage' = "supervise"
          /\ born' \in {{}, {Cli}} /\ alive' = born'
          /\ sup' = [sup EXCEPT !.phase = "running", !.known = born', !.timers = {"deadline"}]
    /\ UNCHANGED <<end, told, cancelled, report>>

Main(from) == stage = from /\ UNCHANGED <<system, told, cancelled, sup>>

\* requireFact: a fact does not hold once the wrapper is cancelled.
Fact(holds) == holds /\ ~cancelled

\* verifyPublication, and the bundle's digest once more.
Verify ==
    /\ Main("verify")
    /\ \/ stage' = "caught" /\ UNCHANGED delivered
       \/ Fact(end.published) /\ stage' = "open" /\ delivered' = TRUE
    /\ UNCHANGED <<owned, receipt, outputs, failed>>

Open ==
    /\ Main("open")
    /\ \/ stage' = "caught" /\ UNCHANGED <<owned, receipt>>
       \/ stage' = "write" /\ owned' = TRUE /\ receipt' = "begun"
    /\ UNCHANGED <<delivered, outputs, failed>>

Write ==
    /\ Main("write")
    /\ \/ stage' = "caught" /\ UNCHANGED receipt
       \/ receipt' = "whole" /\ stage' = IF Fact(TRUE) THEN "announce" ELSE "caught"
    /\ UNCHANGED <<delivered, owned, outputs, failed>>

\* The wrapper's receipt is removed, if that succeeds, and the state failed.
TakeBack_KeepsReceipt == UNCHANGED <<receipt, failed>>  \* Variant: it is not.
TakeBack ==
    IF ~owned THEN UNCHANGED <<receipt, failed>>
    ELSE \/ receipt' = "absent" /\ UNCHANGED failed
         \/ failed' = failed \cup {"unlink"} /\ UNCHANGED receipt

Catch ==
    /\ \/ Main("caught")   /\ stage' = "announce"
       \/ Main("withdraw") /\ stage' = "again"
    /\ TakeBack
    /\ owned' = FALSE /\ delivered' = FALSE
    /\ UNCHANGED outputs

\* outputs: without a file it does nothing; an append that fails may have been
\* seen.
Status == IF delivered THEN "delivered" ELSE "failed"
Said   == IF outputs = "no_file" THEN "no_file" ELSE Status

Announce ==
    /\ Main("announce")
    /\ \/ outputs' = Said /\ stage' = "summary"
       \/ outputs # "no_file" /\ outputs' \in {outputs, Said} /\ stage' = "withdraw"
    /\ UNCHANGED <<delivered, owned, receipt, failed>>

\* The step's summary, the last look at the cancellation, and the exit code.
Interrupted_Not == FALSE  \* Variant: nobody looks.
Interrupted == cancelled

Summary ==
    /\ Main("summary")
    /\ \/ stage' = IF Interrupted THEN "withdraw" ELSE "done"
       \/ stage' = "withdraw"
    /\ UNCHANGED report

\* The outputs once more, where a failure is ignored.
Again ==
    /\ Main("again") /\ stage' = "done"
    /\ \/ outputs' = Said /\ UNCHANGED failed
       \/ /\ outputs # "no_file" /\ outputs' \in {outputs, Said}
          /\ failed' = failed \cup {"append"}
    /\ UNCHANGED <<delivered, owned, receipt>>

\* The next turn of main, and the timers that bound the child's life.
Turn  == Setup \/ Verify \/ Open \/ Write \/ Catch \/ Announce \/ Summary \/ Again
Fires == Deadline \/ Grace \/ GiveUp \/ Drain(TRUE)

Next == \/ \E p \in Procs : Fork(p) \/ Die(p)
        \/ Poll \/ Overflow \/ Error \/ Exit \/ Close \/ Fires \/ Drain(FALSE)
        \/ Cancel \/ Turn

Spec == Init /\ [][Next]_vars /\ WF_vars(Turn) /\ WF_vars(Fires)

-----------------------------------------------------------------------------
(* Properties.                                                             *)

\* state.exitCode when main ends: the child's for a delivered run, else 2.
\* A delivered run is that of a CLI that ended by itself with a gate's exit
\* code, published what it says, and left nobody of those the wrapper saw, and
\* no timer that could still signal a group; its receipt is whole, its outputs
\* say so and no signal was taken.  Any other leaves neither receipt nor outputs
\* of a delivery, if what takes them back does not fail itself.
ReportIsTrue ==
    /\ sup.clean => /\ Active(sup.known) = {} /\ sup.timers = {}
                    /\ told = "close" /\ end.exit = "gate"
    /\ stage = "done" =>
          IF delivered
          THEN /\ sup.clean /\ end.published /\ ~cancelled
               /\ receipt = "whole" /\ outputs \in {"delivered", "no_file"}
          ELSE /\ receipt # "absent" => "unlink" \in failed
               /\ outputs = "delivered" => "append" \in failed

\* The wrapper ends, though the CLI or an engine never does.
ActionEnds == <>(stage = "done")
=============================================================================

-------------------------- MODULE AdmissionBudget --------------------------
(***************************************************************************)
(* What admission promises the code that asks for permits, with no queue,  *)
(* clock or counters: at most Limit permits are granted, none after the    *)
(* run has stopped, and stopping settles every permit at that moment.      *)
(* RunAdmission implements it.                                          *)
(***************************************************************************)
EXTENDS Naturals, FiniteSets

CONSTANTS
    Requests,   \* the reservations that may be made
    Limit       \* permits granted at most

VARIABLES
    phase,      \* phase[r]: how far reservation r has come
    stopped

vars == <<phase, stopped>>

Phases == {"new", "asked", "granted", "settled", "refused"}

Charged == {r \in Requests : phase[r] \in {"granted", "settled"}}

Init ==
    /\ phase = [r \in Requests |-> "new"]
    /\ stopped \in BOOLEAN

Move(r, from, to) ==
    /\ phase[r] = from
    /\ phase' = [phase EXCEPT ![r] = to]
    /\ UNCHANGED stopped

Ask(r) == Move(r, "new", "asked")

Grant(r) ==
    /\ ~stopped
    /\ Cardinality(Charged) < Limit
    /\ Move(r, "asked", "granted")

Refuse(r) == Move(r, "asked", "refused")

\* Several permits may be given back at once: one signal aborts them all.
Settle(S) ==
    /\ S # {} /\ \A r \in S : phase[r] = "granted"
    /\ phase' = [r \in Requests |-> IF r \in S THEN "settled" ELSE phase[r]]
    /\ UNCHANGED stopped

Stop ==
    /\ ~stopped
    /\ stopped' = TRUE
    /\ phase' = [r \in Requests |-> IF phase[r] = "granted" THEN "settled" ELSE phase[r]]

Next ==
    \/ \E r \in Requests : Ask(r) \/ Grant(r) \/ Refuse(r)
    \/ \E S \in SUBSET Requests : Settle(S)
    \/ Stop

Spec == Init /\ [][Next]_vars
=============================================================================

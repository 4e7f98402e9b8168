---------------------------- MODULE AbstractJob ----------------------------
(***************************************************************************)
(* What one durable job promises to the agent that submitted it: after     *)
(* submission it alternates between queued and running, possibly many      *)
(* times (its worker may be lost and replaced); it is decided once; a      *)
(* watcher's result can only decide a job that is running; and everybody   *)
(* who waits for it, however often and from wherever, is told that one     *)
(* outcome.  DurableJobs implements this for every job.                    *)
(***************************************************************************)
CONSTANTS
    Outcomes,       \* what a job may end as
    WatcherOutcomes,\* those that come from a watcher's payload
    Undecided       \* not an outcome

VARIABLES
    phase,          \* "unsubmitted", "queued", "running" or "done"
    outcome,        \* Undecided until the job is done
    told            \* the outcomes that waiting clients have been told

vars == <<phase, outcome, told>>

Init ==
    /\ phase = "unsubmitted"
    /\ outcome = Undecided
    /\ told = {}

Submit == phase = "unsubmitted" /\ phase' = "queued" /\ UNCHANGED <<outcome, told>>
Start  == phase = "queued" /\ phase' = "running" /\ UNCHANGED <<outcome, told>>
Lose   == phase = "running" /\ phase' = "queued" /\ UNCHANGED <<outcome, told>>

Decide ==
    /\ phase \in {"queued", "running"}
    /\ phase' = "done"
    /\ outcome' \in Outcomes
    /\ phase = "queued" => outcome' \notin WatcherOutcomes
    /\ UNCHANGED told

Tell ==
    /\ phase = "done"
    /\ told' = told \cup {outcome}
    /\ UNCHANGED <<phase, outcome>>

Next == Submit \/ Start \/ Lose \/ Decide \/ Tell

Spec == Init /\ [][Next]_vars
=============================================================================

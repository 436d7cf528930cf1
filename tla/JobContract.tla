---------------------------- MODULE JobContract ----------------------------
(***************************************************************************)
(* What the Gateway promises about a print job, without saying how.  A job *)
(* is accepted, handed to the agent in attempts of which at most one is    *)
(* out at a time, and ends once.  Only an attempt that is out makes it a   *)
(* success, and the one correction of an end is the report of the attempt  *)
(* that had been given up for lost.                                        *)
(***************************************************************************)
EXTENDS Naturals

CONSTANT Jobs

VARIABLES
    phase,   \* per job: absent, open, or how it ended
    live,    \* per job: the attempts that may be printing
    given    \* per job: every attempt that may have reached the agent

vars == <<phase, live, given>>

Ended  == {"success", "failed", "expired"}
Phases == {"absent", "open"} \cup Ended

Init == /\ phase \in [Jobs -> {"absent", "open"}]
        /\ live = [j \in Jobs |-> {}] /\ given = [j \in Jobs |-> {}]

SamePhase(j)    == phase'[j] = phase[j]
SameAttempts(j) == live'[j] = live[j] /\ given'[j] = given[j]

Accept(j) == phase[j] = "absent" /\ phase'[j] = "open" /\ SameAttempts(j)

\* A job that is about to be sent may end in the meantime.
HandOver(j) ==
    /\ phase[j] # "absent" /\ live[j] = {}
    /\ \E t \in given'[j] \ given[j] : live'[j] = {t} /\ given'[j] = given[j] \cup {t}
    /\ SamePhase(j)

GiveBack(j) ==
    /\ phase[j] = "open" /\ live[j] # {}
    /\ live'[j] = {} /\ given'[j] = given[j]
    /\ SamePhase(j)

End(j) ==
    /\ phase[j] = "open" /\ phase'[j] \in Ended
    /\ phase'[j] = "success" => live[j] # {}
    /\ SameAttempts(j)

Correct(j) ==
    /\ phase[j] \in Ended /\ live[j] # {}
    /\ phase'[j] = "success"
    /\ SameAttempts(j)

Step(j) == \/ SamePhase(j) /\ SameAttempts(j)
           \/ Accept(j) \/ HandOver(j) \/ GiveBack(j) \/ End(j) \/ Correct(j)

\* One response to a poll hands over several jobs.
Next == /\ phase' \in [Jobs -> Phases]
        /\ live' \in [Jobs -> SUBSET Nat] /\ given' \in [Jobs -> SUBSET Nat]
        /\ \A j \in Jobs : Step(j)

Spec == Init /\ [][Next]_vars

=============================================================================

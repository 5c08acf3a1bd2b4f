---------------------------- MODULE ExclusiveWork ----------------------------
(***************************************************************************)
(* What the queue promises to those who enqueue into it, without leases,   *)
(* retries or tables: a job is executed by one worker at a time and by     *)
(* none once it is settled, a worker executes one job at a time, and no    *)
(* two jobs with one concurrency key are executed at once.                 *)
(***************************************************************************)
CONSTANTS Jobs, Workers, None, KeyOf

VARIABLES
    phase,    \* of each job: "absent", "waiting" or "settled"
    executor  \* the worker that executes each job, or None

vars == <<phase, executor>>

Init ==
    /\ phase \in [Jobs -> {"absent", "waiting"}]
    /\ executor = [j \in Jobs |-> None]

Submit(j) ==
    /\ phase[j] = "absent"
    /\ phase' = [phase EXCEPT ![j] = "waiting"]
    /\ UNCHANGED executor

Start(j, w) ==
    /\ phase[j] = "waiting" /\ executor[j] = None
    /\ \A i \in Jobs : executor[i] # None =>
         executor[i] # w /\ (KeyOf[j] # None => KeyOf[i] # KeyOf[j])
    /\ executor' = [executor EXCEPT ![j] = w]
    /\ UNCHANGED phase

(* The execution ends: the job is settled, or it waits for another one     *)
(* because it failed with attempts left or because its worker died.        *)
End(j) ==
    /\ executor[j] # None
    /\ executor' = [executor EXCEPT ![j] = None]
    /\ \E outcome \in {"waiting", "settled"} : phase' = [phase EXCEPT ![j] = outcome]

Next == \E j \in Jobs : Submit(j) \/ End(j) \/ \E w \in Workers : Start(j, w)

Spec == Init /\ [][Next]_vars

=============================================================================

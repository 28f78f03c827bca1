------------------------------- MODULE ForkJoin -------------------------------
(***************************************************************************)
(* What the worker pool promises to a primitive: the threads 0 .. team-1   *)
(* each do their share of a job exactly once, between the fork and the     *)
(* join of that job, and the team only changes while no job is running.    *)
(***************************************************************************)
EXTENDS Integers

CONSTANT MaxCores

VARIABLES
  team,     \* number of threads that share a job
  running,  \* between fork and join
  shares    \* how often each thread did its share of the last job

vars == <<team, running, shares>>

Thread == 0 .. MaxCores-1
NoShares == [t \in Thread |-> 0]

Init == team = 1 /\ running = FALSE /\ shares = NoShares

Fork ==
  /\ ~running /\ team > 1
  /\ running' = TRUE /\ shares' = NoShares
  /\ UNCHANGED team

Share(t) ==
  /\ running /\ t < team /\ shares[t] = 0
  /\ shares' = [shares EXCEPT ![t] = 1]
  /\ UNCHANGED <<team, running>>

Join ==
  /\ running /\ \A t \in 0 .. team-1 : shares[t] = 1
  /\ running' = FALSE
  /\ UNCHANGED <<team, shares>>

Resize ==
  /\ ~running
  /\ team' \in 1..MaxCores
  /\ UNCHANGED <<running, shares>>

Next ==
  \/ Fork
  \/ \E t \in Thread : Share(t)
  \/ Join
  \/ Resize

Spec == Init /\ [][Next]_vars
=============================================================================

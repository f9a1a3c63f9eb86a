---------------------------- MODULE OnceDelivery ----------------------------
(***************************************************************************)
(* What the broadcast pipeline promises, without worker, batch, handlers,  *)
(* clock or faults: jobs are claimed once and one after the other, a job's *)
(* plan (the recipients listed at that moment) is fixed once, its          *)
(* recipients are attempted one at a time and at most once each, an        *)
(* outcome is written once, only by the attempt it is about, and never     *)
(* claims a delivery that did not happen, and a job that says it is done   *)
(* has attempted its whole plan.  A job that is not done may be closed at  *)
(* any moment, whatever is left of its plan.                               *)
(***************************************************************************)
EXTENDS Naturals

CONSTANTS Jobs, Recipients

VARIABLES phase,    \* where a job is
          plan,     \* recipients of a job still to be attempted
          trying,   \* the recipient whose attempt has no outcome yet
          outcome,  \* what the rows say
          sends     \* how often WhatsApp accepted the message

vars == <<phase, plan, trying, outcome, sends>>

Init ==
    /\ phase = [j \in Jobs |-> "absent"]
    /\ plan = [j \in Jobs |-> {}]
    /\ trying = [j \in Jobs |-> {}]
    /\ outcome = [j \in Jobs |-> [r \in Recipients |-> "none"]]
    /\ sends = [j \in Jobs |-> [r \in Recipients |-> 0]]

Accept(j) ==
    /\ phase[j] = "absent"
    /\ phase' = [phase EXCEPT ![j] = "open"]
    /\ UNCHANGED <<plan, trying, outcome, sends>>

\* Recipients are enlisted one by one, possibly after the job was planned.
Enlist(j, r) ==
    /\ phase[j] # "absent"
    /\ outcome[j][r] = "none"
    /\ outcome' = [outcome EXCEPT ![j][r] = "pending"]
    /\ UNCHANGED <<phase, plan, trying, sends>>

\* One job at a time.
Claim(j) ==
    /\ phase[j] = "open"
    /\ \A k \in Jobs : phase[k] \notin {"claimed", "sending"}
    /\ phase' = [phase EXCEPT ![j] = "claimed"]
    /\ UNCHANGED <<plan, trying, outcome, sends>>

Plan(j) ==
    /\ phase[j] = "claimed"
    /\ phase' = [phase EXCEPT ![j] = "sending"]
    /\ plan' = [plan EXCEPT ![j] = {r \in Recipients : outcome[j][r] = "pending"}]
    /\ UNCHANGED <<trying, outcome, sends>>

Attempt(j, r) ==
    /\ r \in plan[j]
    /\ trying[j] = {}
    /\ plan' = [plan EXCEPT ![j] = @ \ {r}]
    /\ trying' = [trying EXCEPT ![j] = {r}]
    /\ \/ sends[j][r] = 0 /\ sends' = [sends EXCEPT ![j][r] = 1]
       \/ UNCHANGED sends
    /\ UNCHANGED <<phase, outcome>>

\* The attempt ends; its outcome may get lost.
Settle(j, r) ==
    /\ trying[j] = {r}
    /\ trying' = [trying EXCEPT ![j] = {}]
    /\ \/ UNCHANGED outcome
       \/ /\ outcome[j][r] = "pending"
          /\ \E o \in {"sent", "failed"} :
                /\ o = "sent" => sends[j][r] = 1
                /\ outcome' = [outcome EXCEPT ![j][r] = o]
    /\ UNCHANGED <<phase, plan, sends>>

Finish(j) ==
    /\ phase[j] = "sending"
    /\ plan[j] = {} /\ trying[j] = {}
    /\ phase' = [phase EXCEPT ![j] = "done"]
    /\ UNCHANGED <<plan, trying, outcome, sends>>

\* Given up after an error, or interrupted by a crash.
Close(S) ==
    /\ \A j \in S : phase[j] \notin {"absent", "done"}
    /\ phase' = [j \in Jobs |-> IF j \in S THEN "closed" ELSE phase[j]]
    /\ plan' = [j \in Jobs |-> IF j \in S THEN {} ELSE plan[j]]
    /\ trying' = [j \in Jobs |-> IF j \in S THEN {} ELSE trying[j]]
    /\ UNCHANGED <<outcome, sends>>

\* The rows of the jobs in S are deleted; those in C will not be claimed, or do
\* not say any more that they are done.
Withdraw(S, C) ==
    /\ \A j \in S : phase[j] # "absent"
    /\ \A j \in C : phase[j] \in {"open", "done"}
    /\ outcome' = [j \in Jobs |-> IF j \in S THEN [r \in Recipients |-> "none"]
                                             ELSE outcome[j]]
    /\ phase' = [j \in Jobs |-> IF j \in C THEN "closed" ELSE phase[j]]
    /\ UNCHANGED <<plan, trying, sends>>

Next ==
    \/ \E j \in Jobs : Accept(j) \/ Claim(j) \/ Plan(j) \/ Finish(j)
    \/ \E j \in Jobs, r \in Recipients : Enlist(j, r) \/ Attempt(j, r) \/ Settle(j, r)
    \/ \E S \in SUBSET Jobs : Close(S)
    \/ \E S \in SUBSET Jobs : \E C \in SUBSET S : Withdraw(S, C)

Spec == Init /\ [][Next]_vars
=============================================================================

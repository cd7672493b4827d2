----------------------------- MODULE JobPromise -----------------------------
(***************************************************************************)
(* What PrintAgent promises about the paper, whatever fails: the service   *)
(* seen by the owner of a job, without handlers, queues, workers or files. *)
(*                                                                         *)
(* A job waits, is claimed for delivery, and is settled.  Bytes of it go   *)
(* to the printer at most once, only while it is claimed, and a job that   *)
(* was claimed can neither wait again nor be claimed a second time: a      *)
(* failure after the claim settles it, at once or at the next start.       *)
(***************************************************************************)
EXTENDS Naturals

CONSTANT Jobs

VARIABLES
    phase,   \* job -> "none", "waiting", "claimed" or "settled"
    paper    \* job -> how often bytes of it went to the printer

promiseVars == <<phase, paper>>

Promised == /\ phase = [j \in Jobs |-> "none"]
            /\ paper = [j \in Jobs |-> 0]

Move(j, from, to) == /\ phase[j] \in from
                     /\ phase' = [phase EXCEPT ![j] = to]
                     /\ UNCHANGED paper

\* A job is recorded, or a record that was never accepted disappears.
Arrive(j)   == Move(j, {"none"}, "waiting")
Withdraw(j) == Move(j, {"waiting"}, "none")

\* It is refused, cancelled or given up before a byte of it was sent.
Drop(j) == Move(j, {"waiting", "none"}, "settled")

Claim(j)  == Move(j, {"waiting"}, "claimed")
Settle(j) == Move(j, {"claimed"}, "settled")

Transmit(j) == /\ phase[j] = "claimed" /\ paper[j] = 0
               /\ paper' = [paper EXCEPT ![j] = 1]
               /\ UNCHANGED phase

Step(j) == Arrive(j) \/ Withdraw(j) \/ Drop(j) \/ Claim(j) \/ Settle(j) \/ Transmit(j)

PromiseSpec == Promised /\ [][\E j \in Jobs : Step(j)]_promiseVars
=============================================================================

-------------------------- MODULE SessionLifecycle --------------------------
(***************************************************************************)
(* What restoring sessions promises, with everything but the activations    *)
(* left out: a device has the session of its newest activation or none, and *)
(* a restore only ever fills a gap, with the newest activation.             *)
(***************************************************************************)
EXTENDS Integers

CONSTANTS DevEUIs, MaxGen

VARIABLES
    activation,   \* the newest activation of each device; 0 = never joined
    current       \* the activation its session belongs to; 0 = no session

vars == <<activation, current>>

Init ==
    /\ activation = [d \in DevEUIs |-> 0]
    /\ current = [d \in DevEUIs |-> 0]

Join(d) ==
    /\ activation[d] < MaxGen
    /\ activation' = [activation EXCEPT ![d] = @ + 1]
    /\ current' = [current EXCEPT ![d] = activation[d] + 1]

Lose(d) ==
    /\ current[d] # 0
    /\ current' = [current EXCEPT ![d] = 0]
    /\ UNCHANGED activation

Restore(d) ==
    /\ current[d] = 0
    /\ activation[d] # 0
    /\ current' = [current EXCEPT ![d] = activation[d]]
    /\ UNCHANGED activation

Next == \E d \in DevEUIs : Join(d) \/ Lose(d) \/ Restore(d)

Spec == Init /\ [][Next]_vars
=============================================================================

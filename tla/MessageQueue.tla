---------------------------- MODULE MessageQueue ----------------------------
(***************************************************************************)
(* What the durable outbox promises its callers, without rows, claims,     *)
(* clocks or workers: the life of each accepted message.  A message is     *)
(* queued, may die of exhausted attempts and be revived, and leaves the    *)
(* queue exactly once and for good, either after it was transmitted at     *)
(* least once (it may be transmitted more often) or because somebody       *)
(* discarded it.                                                           *)
(***************************************************************************)
EXTENDS Naturals

CONSTANT Messages   \* identities of messages

VARIABLES
    stage,  \* what has become of each message
    wire    \* messages transmitted at least once

queueVars == <<stage, wire>>

Stages == {"unknown", "queued", "dead", "sent", "discarded"}

Live(m) == stage[m] \in {"queued", "dead"}

Move(S, to) == stage' = [m \in Messages |-> IF m \in S THEN to ELSE stage[m]]

QueueInit ==
    /\ stage = [m \in Messages |-> "unknown"]
    /\ wire = {}

Accept == \E m \in Messages : /\ stage[m] = "unknown"
                              /\ Move({m}, "queued")
                              /\ UNCHANGED wire

\* A message can reach the wire late: a worker may hold it when it is removed.
Transmit == \E m \in Messages : /\ stage[m] # "unknown"
                                /\ wire' = wire \cup {m}
                                /\ UNCHANGED stage

Exhaust == \E m \in Messages : /\ stage[m] = "queued"
                               /\ Move({m}, "dead")
                               /\ UNCHANGED wire

Revive == \E S \in SUBSET Messages : /\ \A m \in S : stage[m] = "dead"
                                     /\ Move(S, "queued")
                                     /\ UNCHANGED wire

Complete == \E m \in Messages : /\ Live(m)
                                /\ m \in wire
                                /\ Move({m}, "sent")
                                /\ UNCHANGED wire

Discard == \E S \in SUBSET Messages : /\ \A m \in S : Live(m)
                                      /\ Move(S, "discarded")
                                      /\ UNCHANGED wire

QueueNext == Accept \/ Transmit \/ Exhaust \/ Revive \/ Complete \/ Discard

QueueSpec == QueueInit /\ [][QueueNext]_queueVars
=============================================================================

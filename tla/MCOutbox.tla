------------------------------ MODULE MCOutbox ------------------------------
(* Small instances of Outbox for TLC: payloads for two destinations in two   *)
(* categories.  No two of the four limits are reached by the same queues.    *)
EXTENDS Outbox, TLC

CONSTANTS p1, p2, p3, w1, w2

OnePayload == {p1}
TwoPayloads == {p1, p2}
ThreePayloads == {p1, p2, p3}
MCDestinationOf == p1 :> "a" @@ p2 :> "b" @@ p3 :> "b"
MCCategoryOf == p1 :> "alert" @@ p2 :> "alert" @@ p3 :> "news"
MCBytesOf == p1 :> 1 @@ p2 :> 3 @@ p3 :> 1

OneWorker == {w1}
TwoWorkers == {w1, w2}
WorkerSymmetry == Permutations(TwoWorkers)
=============================================================================

------------------------------ MODULE MCNotices ------------------------------
(* The instances of MCDispatcher in which losses of notices are recorded. *)
EXTENDS Notices, MCDispatcher

NotedDelivery == DeliveryInit /\ NoneLost

DeliverySpec ==
    /\ NotedDelivery
    /\ [][Next /\ Record]_noticeVars
    /\ SystemFairness
    /\ HumanFairness
=============================================================================

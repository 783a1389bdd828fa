--------------------------- MODULE MCEventBroker ----------------------------
(* EventBroker on small sets of connections and event types.               *)
EXTENDS EventBroker
=============================================================================

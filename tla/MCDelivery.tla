----------------------------- MODULE MCDelivery -----------------------------
(* A channel that is often full, and reads that end anywhere.              *)
EXTENDS Delivery

MCKinds == <<"start", "board", "shop">>
=============================================================================

----------------------------- MODULE MCExchange -----------------------------
(***************************************************************************)
(* A request of four blocks, a response of three.                          *)
(***************************************************************************)
EXTENDS Exchange

MCBlock == {"root proof", "proof", "invocation", "request", "ran", "receipt", "response"}

MCBlocks == [request |-> <<"root proof", "proof", "invocation">>, response |-> <<"ran", "receipt">>]
MCRoot == [request |-> "request", response |-> "response"]
=============================================================================

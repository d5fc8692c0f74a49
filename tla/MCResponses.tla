---------------------------- MODULE MCResponses -----------------------------
(***************************************************************************)
(* The response cache on the standard engine, for TLC: two requests of a   *)
(* cached route whose handler writes one part.                             *)
(***************************************************************************)
EXTENDS Responses

StandardWithCache == {[engine |-> "standard", accessor |-> TRUE, cache |-> TRUE]}
OnePart ==
  {[route |-> "a", accepts |-> accepts, user |-> "",
    handler |-> [parts |-> 1, ends |-> "ok", noCache |-> FALSE, user |-> "", status |-> 200]] : accepts \in BOOLEAN}
=============================================================================

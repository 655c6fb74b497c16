------------------------------- MODULE Prices -------------------------------
(***************************************************************************)
(* The parts that compute prices and fills: the TWAP engine, the Djed      *)
(* tracker, the ADA/USD price and the swap filler.  None of them shares    *)
(* state with another, so a behaviour is that of one subject.              *)
(***************************************************************************)
EXTENDS Twap, DjedTracker, AdaUsd, SwapFill

VARIABLE subject

vars == <<subject, twapVars, djedVars, asked, fill>>

Init ==
    /\ subject \in {"twap", "djed", "ada_usd", "swap"}
    /\ TwapInit /\ DjedInit /\ AdaUsdInit /\ SwapInit

Next ==
    /\ UNCHANGED subject
    /\ \/ subject = "twap" /\ TwapNext /\ UNCHANGED <<djedVars, asked, fill>>
       \/ subject = "djed" /\ DjedNext /\ UNCHANGED <<twapVars, asked, fill>>
       \/ subject = "ada_usd" /\ AdaUsdNext /\ UNCHANGED <<twapVars, djedVars, fill>>
       \/ subject = "swap" /\ SwapNext /\ UNCHANGED <<twapVars, djedVars, asked>>

Spec == Init /\ [][Next]_vars
=============================================================================

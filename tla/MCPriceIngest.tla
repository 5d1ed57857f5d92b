----------------------------- MODULE MCPriceIngest -----------------------------
(***************************************************************************)
(* Two pools for TLC: one against XLM that trades and is drained, one      *)
(* against USDC that gets a deposit.                                       *)
(***************************************************************************)
EXTENDS PriceIngest

CONSTANTS xlm, poolXlm, poolUsd

QuoteOfPool == poolXlm :> xlm @@ poolUsd :> Usd
Updates     == poolXlm :> <<<<4, 4>>, <<2, 6>>, <<0, 0>>>> @@ poolUsd :> <<<<5, 5>>>>
Updates2    == poolXlm :> <<<<4, 4>>, <<2, 6>>>> @@ poolUsd :> <<<<5, 5>>>>
=============================================================================

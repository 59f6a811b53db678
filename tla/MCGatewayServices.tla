------------------------- MODULE MCGatewayServices --------------------------
(***************************************************************************)
(* A small instance of the services: two prices and amounts that divide    *)
(* evenly and two that leave a remainder, and one price no rate can hold.  *)
(***************************************************************************)
EXTENDS GatewayServices

MCProviders == <<"coingecko", "binance">>

MCPrices == {Decimal(0, 1, 3), Decimal(3, 0, 0), Decimal(0, 7, 1), Decimal(0, 0, 1)}

MCAmounts == {Decimal(1, 0, 0), Decimal(0, 25, 2), Decimal(0, 7, 1), Decimal(0, 1, 3)}
=============================================================================

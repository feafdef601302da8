------------------------------ MODULE MCAlarms ------------------------------
(***************************************************************************)
(* An instance of module Alarms for TLC.                                   *)
(***************************************************************************)
EXTENDS Alarms

\* At a scale of 10, the prices of 3.5 and 4 are normalized to the same 2
Half == Price(2, 7)

Four == Price(1, 4)

Alarm(c, low, high) == [currency |-> c, below |-> low, above |-> high]

MCPriceAlarms ==
    {Alarm(1, Half, Four), Alarm(1, Price(1, 6), NoPrice),
     Alarm(2, Four, NoPrice)}

MCPrices ==
    {<<Four, NoPrice>>, <<Half, Price(1, 5)>>, <<Price(1, 3), Four>>,
     <<NoPrice, Half>>}
=============================================================================

------------------------------- MODULE StockStep -------------------------------
(***************************************************************************)
(* The one stock transition that the baseline, the recommended projection,  *)
(* the policy search and its replay share (advance_bucket of                *)
(* simulate_inventory/application/step.py).  Quantities are naturals in the *)
(* smallest planning unit of the item.                                      *)
(***************************************************************************)
EXTENDS Integers

Stock  == [available : Nat, reserved : Nat, backorder : Nat]
Demand == [order : Nat, forecast : Nat]

Least(a, b) == IF a <= b THEN a ELSE b
Most(a, b)  == IF a >= b THEN a ELSE b

\* One bucket: receipts, then backlog, current orders and forecast; only
\* orders carry over.
Advance(s, d, inbound, recommended) ==
  LET available == s.available + inbound + recommended
      forBacklog  == Least(available, s.backorder)
      forOrder    == Least(available - forBacklog, d.order)
      forForecast == Least(available - forBacklog - forOrder, d.forecast)
  IN [boh |-> s.available, inbound |-> inbound, recommended |-> recommended,
      available |-> available, fulfilledOrder |-> forBacklog + forOrder,
      fulfilledForecast |-> forForecast,
      eoh |-> available - forBacklog - forOrder - forForecast,
      backorderClose |-> s.backorder + d.order - forBacklog - forOrder,
      shortage |-> d.forecast - forForecast]

Row == [boh : Nat, inbound : Nat, recommended : Nat, available : Nat,
        fulfilledOrder : Nat, fulfilledForecast : Nat, eoh : Nat,
        backorderClose : Nat, shortage : Nat]
=============================================================================

------------------------------ MODULE StockLedger ------------------------------
(***************************************************************************)
(* What the shop promises about stock, whatever code keeps the counters:   *)
(* a unit of a product is free, held for an order, or sold; it becomes     *)
(* held only out of the free ones, and a held unit is either sold or given *)
(* back.  No unit appears, disappears, or is sold without being held.      *)
(***************************************************************************)
EXTENDS Integers

CONSTANTS Products, InitialStock   \* InitialStock \in [Products -> Nat]

VARIABLES free, held, sold

ledger == <<free, held, sold>>

LedgerTypeOK == /\ free \in [Products -> Nat]
                /\ held \in [Products -> Nat]
                /\ sold \in [Products -> Nat]

Init == /\ free = InitialStock
        /\ held = [p \in Products |-> 0]
        /\ sold = [p \in Products |-> 0]

\* Units of any number of products pass from free to held in one step.
Hold == /\ sold' = sold
        /\ \A p \in Products : /\ held'[p] >= held[p]
                               /\ free'[p] + held'[p] = free[p] + held[p]

GiveBack == /\ sold' = sold
            /\ \A p \in Products : /\ held'[p] <= held[p]
                                   /\ free'[p] + held'[p] = free[p] + held[p]

Sell == /\ free' = free
        /\ \A p \in Products : /\ sold'[p] >= sold[p]
                               /\ sold'[p] + held'[p] = sold[p] + held[p]

Next == LedgerTypeOK' /\ (Hold \/ GiveBack \/ Sell)

Spec == Init /\ [][Next]_ledger
================================================================================

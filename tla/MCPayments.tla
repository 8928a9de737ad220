------------------------------- MODULE MCPayments -------------------------------
EXTENDS Payments, TLC

CONSTANT apple

PayCarts == { apple :> 1 }
PayStock == apple :> 1

Symmetric == Permutations(Handlers)
================================================================================

-------------------------------- MODULE MCOrders --------------------------------
EXTENDS OrderProperties, TLC

CONSTANTS apple, bread

\* One product per cart, both products, and two units of one of them.
MCCarts == { (apple :> 1 @@ bread :> 0), (apple :> 1 @@ bread :> 1) }
MCDeepCarts == { (apple :> 1 @@ bread :> 1), (apple :> 2 @@ bread :> 0) }
MCStock == apple :> 2 @@ bread :> 1

MCNoMoves == {}

Symmetric == Permutations(Handlers) \cup Permutations(Orders)
================================================================================

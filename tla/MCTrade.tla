------------------------------ MODULE MCTrade -------------------------------
(***************************************************************************)
(* Two players and what lies in their bags; slots 1 and 2 hold potions.    *)
(***************************************************************************)
EXTENDS Trade, TLC

CONSTANTS ann, ben, bot, potion, scroll

\* One slot a tab, or two.
TightTab == (potion :> {1}) @@ (scroll :> {2})
MCTab == [it \in Items |-> {1, 2}]

Potions(n) == Stack(potion, n)
Scrolls(n) == Stack(scroll, n)

\* Both bags are full: potions may join, a scroll finds room only in exchange.
\* A bot stands by that accepts trades and lays zuly it does not have.
TwoOffersItems == [p \in Players |-> IF p \in Bots THEN <<Empty, Empty>>
                                     ELSE <<Potions(1), Scrolls(1)>>]
BothPlayers    == Permutations(Users)
TwoOffersZuly  == [p \in Players |-> 0]

\* A market with shops: one potion and one zuly change hands, past a bot whose
\* can_trade, which nothing initializes, is FALSE.
MarketItems == [p \in Players |-> IF p = ann THEN <<Potions(1), Empty>> ELSE <<Empty, Empty>>]
MarketZuly  == [p \in Players |-> IF p = ben THEN 1 ELSE 0]

\* Trades alone: nobody opens a shop.
TradeOnlySpec == MarketInit /\ [][TradeStep]_marketVars
=============================================================================

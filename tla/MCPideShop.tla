----------------------------- MODULE MCPideShop -----------------------------
(* Clients and cooks of TLC's runs of PideShop are interchangeable. *)
EXTENDS PideShop, TLC

ShopSymmetry == Permutations(Clients) \cup Permutations(Cooks)
=============================================================================

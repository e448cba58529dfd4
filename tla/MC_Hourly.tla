----------------------------- MODULE MC_Hourly ------------------------------
(* A small instance of Hourly: a token on both networks besides WMATIC and  *)
(* USDC, a user with two wallets, two runs or deployments, and one request. *)
EXTENDS Hourly, TLC

CONSTANTS u1, w1, w2

Owners == [w \in Wallets |-> u1]
Held == [w \in Wallets |-> IF w = w1 THEN 1 ELSE 0]
Before ==
  [w \in Wallets |-> IF w = w1 THEN [in |-> 0, out |-> 0, fees |-> 0, reflected |-> 0]
                     ELSE [in |-> 2, out |-> 0, fees |-> 0, reflected |-> 1]]
SomeTokens ==
  <<Token("main", "WMATIC", 0, FALSE), Token("main", "USDC", 0, FALSE),
    Token("main", "CHAT", 0, TRUE), Token("test", "WMATIC", 0, FALSE),
    Token("test", "USDC", 0, FALSE), Token("test", "CHAT", 0, FALSE)>>
=============================================================================

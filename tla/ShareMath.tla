----------------------------- MODULE ShareMath ------------------------------
(***************************************************************************)
(* The exchange of staking tokens and delegation shares of x/staking       *)
(* (Cosmos SDK v0.47, outside src/).  Shares are counted in units of       *)
(* 1/Precision, as sdk.Dec does with Precision = 10^18.                    *)
(***************************************************************************)
EXTENDS Integers

CONSTANT Precision   \* share units per token when a validator starts

ASSUME PrecisionAssumption == Precision \in Nat \ {0}

(* No tokens left behind the shares: nobody can delegate. *)
InvalidExRate(val) == val.tokens = 0 /\ val.shares > 0

SharesFromTokens(val, amt) == (val.shares * amt) \div val.tokens

IssuedShares(val, amt) ==
  IF val.shares = 0 THEN amt * Precision ELSE SharesFromTokens(val, amt)

(* Dec.Quo rounds half to even. *)
RoundedQuo(a, b) ==
  LET q == a \div b
      r == 2 * (a % b)
  IN  IF r > b \/ (r = b /\ q % 2 = 1) THEN q + 1 ELSE q

(* RemoveDelShares: the last shares take all tokens, any other share takes *)
(* its rounded value, truncated to whole tokens.                           *)
RemovedTokens(val, shares) ==
  IF shares = val.shares
    THEN val.tokens
    ELSE RoundedQuo(shares * val.tokens * Precision, val.shares) \div Precision
=============================================================================

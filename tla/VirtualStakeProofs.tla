------------------------- MODULE VirtualStakeProofs -------------------------
(***************************************************************************)
(* Proofs about virtual staking: the books of staking and bank balance,    *)
(* the supply changes by slashing alone, virtual stake never becomes       *)
(* spendable and can always leave.  For any accounts, contracts and        *)
(* validators, any amounts, limits, precision and exchange rates.          *)
(***************************************************************************)
EXTENDS VirtualStake, ShareMathProofs, Foundations

-----------------------------------------------------------------------------
(* The inductive invariant *)

AtVal(v) == {d \in Accounts \X Validators : d[2] = v}

(* The delegations of a validator add up to its shares. *)
SharesAddAt(v, w, f) ==
  SumFunctionOnSet(f, AtVal(v)) = IF v \in DOMAIN w THEN w[v].shares ELSE 0

SharesAdd == \A v \in Validators : SharesAddAt(v, vals, dels)

(* A validator without shares has no tokens left. *)
Backed(w) == \A v \in DOMAIN w : w[v].shares = 0 => w[v].tokens = 0

(* Only a contract with a limit has ever delegated. *)
LimitFirst == \A c \in Contracts : delegated[c] > 0 => HasMaxCapLimit(maxCap, c)

StakeInv ==
  /\ TypeOK /\ SharesAdd /\ Backed(vals) /\ LimitFirst
  /\ PoolsMatch /\ OffsetIsVirtual /\ SupplyNeutral

(* The accounts and the validators of a chain are finitely many. *)
FiniteChain == IsFiniteSet(Accounts) /\ IsFiniteSet(Validators)

-----------------------------------------------------------------------------
(* Sums of balances *)

(* One balance changes: the sum changes by as much. *)
Upd(f, c, n) == [f EXCEPT ![c] = n]

(* The sum of the balances after one change. *)
LEMMA SumExcept ==
  ASSUME NEW S, IsFiniteSet(S), NEW f \in [S -> Nat], NEW c \in S, NEW n \in Nat
  PROVE  /\ Upd(f, c, n) \in [S -> Nat]
         /\ SumFunction(Upd(f, c, n)) = SumFunction(f) + (n - f[c])
<1> DEFINE g == Upd(f, c, n)
<1>1. DOMAIN f = S /\ DOMAIN g = S /\ g[c] = n /\ g \in [S -> Nat]
  BY DEF Upd
<1>2. \A x \in S : f[x] \in Int /\ g[x] \in Int
  BY <1>1
<1>3. \A x \in S \ {c} : f[x] = g[x]
  BY DEF Upd
<1> HIDE DEF g
<1>4. SumFunctionOnSet(g, S) = SumFunctionOnSet(f, S) + (g[c] - f[c])
  BY <1>2, <1>3, SumChange
<1> QED BY <1>1, <1>4 DEF SumFunction, g

(* A sum of balances is a natural number. *)
LEMMA SumType ==
  ASSUME NEW S, IsFiniteSet(S), NEW f \in [S -> Nat]
  PROVE  SumFunction(f) \in Nat
<1>1. DOMAIN f = S /\ \A x \in S : f[x] \in Nat
  OBVIOUS
<1> QED BY <1>1, SumNat DEF SumFunction

-----------------------------------------------------------------------------
(* Shares of one validator *)

(* No account has more shares of v than there are. *)
LEMMA AccountShares ==
  ASSUME IsFiniteSet(Accounts), NEW f \in [Accounts \X Validators -> Nat], NEW v \in Validators
  PROVE  /\ IsFiniteSet(AtVal(v))
         /\ SumFunctionOnSet(f, AtVal(v)) \in Nat
         /\ \A a \in Accounts : f[<<a, v>>] <= SumFunctionOnSet(f, AtVal(v))
<1>1. AtVal(v) = Accounts \X {v}
  BY DEF AtVal
<1>2. IsFiniteSet(AtVal(v))
  <2>1. IsFiniteSet({v})
    BY FS_Singleton
  <2>2. IsFiniteSet(Accounts \X {v})
    BY <2>1, FS_Product
  <2> QED BY <1>1, <2>2
<1>3. \A d \in AtVal(v) : f[d] \in Nat
  BY DEF AtVal
<1>4. SumFunctionOnSet(f, AtVal(v)) \in Nat
  BY <1>2, <1>3, SumNat
<1>5. ASSUME NEW a \in Accounts PROVE f[<<a, v>>] <= SumFunctionOnSet(f, AtVal(v))
  <2> DEFINE d == <<a, v>>
             R == AtVal(v) \ {d}
  <2>1. d \in AtVal(v) /\ f[d] \in Nat
    BY <1>3 DEF AtVal
  <2>2. IsFiniteSet(R) /\ \A x \in R : f[x] \in Nat
    BY <1>2, <1>3, FS_Subset
  <2>3. SumFunctionOnSet(f, R) \in Nat
    BY <2>2, SumNat
  <2>4. SumFunctionOnSet(f, AtVal(v)) = f[d] + SumFunctionOnSet(f, R)
    BY <1>2, <1>3, <2>1, SumFacts
  <2> QED BY <2>1, <2>3, <2>4
<1> QED BY <1>2, <1>4, <1>5

(* One delegation set to n. *)
SetTo(a, v, n) == [dels EXCEPT ![<<a, v>>] = n]

(* The sum of v's shares after one change. *)
LEMMA DelegationSet ==
  ASSUME IsFiniteSet(Accounts), dels \in [Accounts \X Validators -> Nat],
         NEW a \in Accounts, NEW v \in Validators, NEW n \in Nat
  PROVE  /\ SetTo(a, v, n) \in [Accounts \X Validators -> Nat]
         /\ \A d \in Accounts \X Validators : d[2] # v => SetTo(a, v, n)[d] = dels[d]
         /\ SumFunctionOnSet(SetTo(a, v, n), AtVal(v)) =
              SumFunctionOnSet(dels, AtVal(v)) + (n - dels[<<a, v>>])
<1> DEFINE f == SetTo(a, v, n)
           d0 == <<a, v>>
<1>1. /\ f \in [Accounts \X Validators -> Nat] /\ f[d0] = n
      /\ \A d \in Accounts \X Validators : d # d0 => f[d] = dels[d]
  BY DEF SetTo
<1> HIDE DEF f
<1>2. IsFiniteSet(AtVal(v))
  BY AccountShares
<1>3. d0 \in AtVal(v) /\ \A d \in AtVal(v) : dels[d] \in Int /\ f[d] \in Int
  BY <1>1 DEF AtVal
<1>4. \A d \in AtVal(v) \ {d0} : dels[d] = f[d]
  BY <1>1 DEF AtVal
<1> HIDE DEF d0
<1>5. SumFunctionOnSet(f, AtVal(v)) = SumFunctionOnSet(dels, AtVal(v)) + (f[d0] - dels[d0])
  BY <1>2, <1>3, <1>4, SumChange
<1> QED BY <1>1, <1>5 DEF f, d0

(* A step that leaves the delegations at every other validator alone. *)
LEMMA SharesElsewhere ==
  ASSUME FiniteChain, NEW v \in Validators,
         dels \in [Accounts \X Validators -> Nat], dels' \in [Accounts \X Validators -> Nat],
         SharesAdd, SharesAddAt(v, vals', dels'),
         \A d \in Accounts \X Validators : d[2] # v => dels'[d] = dels[d],
         \A x \in Validators \ {v} :
           (x \in DOMAIN vals' <=> x \in DOMAIN vals) /\ (x \in DOMAIN vals => vals'[x] = vals[x])
  PROVE  SharesAdd'
<1>1. ASSUME NEW x \in Validators, x # v PROVE SharesAddAt(x, vals', dels')
  <2>1. \A d \in AtVal(x) : dels[d] \in Int /\ dels[d] = dels'[d]
    BY <1>1 DEF AtVal
  <2>2. IsFiniteSet(AtVal(x))
    BY AccountShares DEF FiniteChain
  <2>3. SumFunctionOnSet(dels, AtVal(x)) = SumFunctionOnSet(dels', AtVal(x))
    BY <2>1, <2>2, SumSame
  <2> QED BY <1>1, <2>3 DEF SharesAdd, SharesAddAt
<1> QED BY <1>1 DEF SharesAdd

-----------------------------------------------------------------------------
(* The tokens in the pools *)

(* What each validator of the store w has in pool p. *)
Held(w, p) == [v \in Validators |-> IF v \in DOMAIN w /\ PoolOf(w[v]) = p THEN w[v].tokens ELSE 0]

HeldSum(w, p) == SumFunctionOnSet(Held(w, p), Validators)

IsStore(w) == DOMAIN w \subseteq Validators /\ w \in [DOMAIN w -> Validator]

(* A pool is never in debt. *)
LEMMA HeldFacts ==
  ASSUME FiniteChain, NEW w, IsStore(w), NEW p
  PROVE  /\ \A v \in Validators : Held(w, p)[v] \in Nat
         /\ HeldSum(w, p) \in Nat
<1>1. \A v \in Validators : Held(w, p)[v] \in Nat
  BY DEF Held, IsStore, Validator
<1> QED BY <1>1, SumNat DEF HeldSum, FiniteChain

(* The sums of PoolsMatch, over all validators. *)
LEMMA TokensHeld ==
  ASSUME FiniteChain, NEW w, IsStore(w), NEW p, NEW R, R = {v \in DOMAIN w : PoolOf(w[v]) = p}
  PROVE  Tokens(Restrict(w, R)) = HeldSum(w, p)
<1> DEFINE f == [v \in R |-> w[v].tokens]
           g == Held(w, p)
<1>1. R \subseteq Validators /\ IsFiniteSet(R)
  BY FS_Subset DEF IsStore, FiniteChain
<1>2. Tokens(Restrict(w, R)) = SumFunctionOnSet(f, R)
  <2>1. DOMAIN Restrict(w, R) = R /\ \A v \in R : Restrict(w, R)[v] = w[v]
    BY DEF Restrict
  <2>2. [v \in DOMAIN Restrict(w, R) |-> Restrict(w, R)[v].tokens] = f
    BY <2>1
  <2> QED BY <2>2 DEF Tokens, SumFunction
<1>3. \A v \in R : f[v] \in Int /\ f[v] = g[v]
  BY <1>1 DEF Held, IsStore, Validator
<1>4. \A v \in Validators : g[v] \in Int
  BY HeldFacts
<1>5. \A v \in Validators \ R : g[v] = 0
  BY DEF Held
<1> HIDE DEF f, g
<1>6. SumFunctionOnSet(f, R) = SumFunctionOnSet(g, R)
  BY <1>1, <1>3, SumSame
<1>7. SumFunctionOnSet(g, Validators) = SumFunctionOnSet(g, R)
  BY <1>1, <1>4, <1>5, SumOfNonzero DEF FiniteChain
<1> QED BY <1>2, <1>6, <1>7 DEF HeldSum, g

(* PoolsMatch, in these terms. *)
Books ==
  /\ supply = SumFunction(liquid) + pool["bonded"] + pool["notBonded"]
  /\ pool["bonded"] = HeldSum(vals, "bonded")
  /\ pool["notBonded"] = SumFunction(unbonding) + HeldSum(vals, "notBonded")

(* Books is PoolsMatch. *)
LEMMA BooksMatch == ASSUME FiniteChain, IsStore(vals) PROVE PoolsMatch <=> Books
<1> DEFINE R1 == {v \in DOMAIN vals : vals[v].status = "bonded"}
           R2 == {v \in DOMAIN vals : vals[v].status # "bonded"}
<1>1. /\ R1 = {v \in DOMAIN vals : PoolOf(vals[v]) = "bonded"}
      /\ R2 = {v \in DOMAIN vals : PoolOf(vals[v]) = "notBonded"}
  BY DEF PoolOf
<1> HIDE DEF R1, R2
<1>2. /\ Tokens(Restrict(vals, R1)) = HeldSum(vals, "bonded")
      /\ Tokens(Restrict(vals, R2)) = HeldSum(vals, "notBonded")
  BY <1>1, TokensHeld
<1> QED BY <1>2 DEF PoolsMatch, Books, R1, R2

(* The same after a step. *)
LEMMA BooksMatchNext == FiniteChain => (IsStore(vals) => (PoolsMatch <=> Books))'
<1>1. FiniteChain => (IsStore(vals) => (PoolsMatch <=> Books))
  BY BooksMatch
<1>2. FiniteChain => FiniteChain'
  BY DEF FiniteChain
<1> QED BY <1>1, <1>2, PTL

(* A step on validator v, by what it adds to the two pools. *)
Others(v, w) ==
  \A x \in Validators \ {v} :
    (x \in DOMAIN w <=> x \in DOMAIN vals) /\ (x \in DOMAIN vals => w[x] = vals[x])

(* The pools change by what v has in them. *)
LEMMA HeldStep ==
  ASSUME FiniteChain, NEW w, IsStore(vals), IsStore(w), NEW v \in Validators, Others(v, w), NEW p
  PROVE  HeldSum(w, p) = HeldSum(vals, p) + (Held(w, p)[v] - Held(vals, p)[v])
<1> DEFINE f == Held(vals, p)
           g == Held(w, p)
<1>1. \A x \in Validators : f[x] \in Int /\ g[x] \in Int
  BY HeldFacts
<1>2. \A x \in Validators \ {v} : f[x] = g[x]
  BY DEF Others, Held
<1> HIDE DEF f, g
<1>3. SumFunctionOnSet(g, Validators) = SumFunctionOnSet(f, Validators) + (g[v] - f[v])
  BY <1>1, <1>2, SumChange DEF FiniteChain
<1> QED BY <1>3 DEF HeldSum, f, g

(* The change of pool p when amt goes to the pool of val. *)
Share(val, p, amt) == IF PoolOf(val) = p THEN amt ELSE 0

StakeStep(v, w, f) ==
  /\ IsStore(w) /\ Others(v, w) /\ Backed(w)
  /\ f \in [Accounts \X Validators -> Nat]
  /\ \A d \in Accounts \X Validators : d[2] # v => f[d] = dels[d]
  /\ SharesAddAt(v, w, f)

BaseInv == TypeOK /\ SharesAdd /\ Backed(vals)

(* The types of the validator store and the delegations. *)
LEMMA BaseFacts ==
  ASSUME BaseInv
  PROVE  IsStore(vals) /\ dels \in [Accounts \X Validators -> Nat]
BY DEF BaseInv, TypeOK, StakingTypeOK, IsStore

(* A step on one validator. *)
LEMMA StepShares ==
  ASSUME FiniteChain, BaseInv, NEW v \in Validators, StakeStep(v, vals', dels')
  PROVE  SharesAdd' /\ Backed(vals)' /\ IsStore(vals)' /\ dels' \in [Accounts \X Validators -> Nat]
<1>1. SharesAdd'
  BY BaseFacts, SharesElsewhere DEF BaseInv, StakeStep, Others
<1> QED BY <1>1 DEF StakeStep, IsStore, Backed

(* What the invariant says of one validator. *)
LEMMA ValidatorFacts ==
  ASSUME FiniteChain, BaseInv, NEW v \in DOMAIN vals
  PROVE  /\ v \in Validators /\ vals[v] \in Validator
         /\ vals[v].tokens \in Nat /\ vals[v].shares \in Nat
         /\ SumFunctionOnSet(dels, AtVal(v)) = vals[v].shares
         /\ \A a \in Accounts : dels[<<a, v>>] \in Nat /\ dels[<<a, v>>] <= vals[v].shares
<1>1. v \in Validators /\ vals[v] \in Validator /\ dels \in [Accounts \X Validators -> Nat]
  BY BaseFacts DEF IsStore
<1>2. SumFunctionOnSet(dels, AtVal(v)) = vals[v].shares
  BY <1>1 DEF BaseInv, SharesAdd, SharesAddAt
<1>3. \A a \in Accounts : dels[<<a, v>>] <= SumFunctionOnSet(dels, AtVal(v))
  BY <1>1, AccountShares DEF FiniteChain
<1> QED BY <1>1, <1>2, <1>3 DEF Validator

(* A validator of the store replaced by b. *)
Put(v, b) == [vals EXCEPT ![v] = b]

(* The store with v replaced, and v's part of the pools. *)
LEMMA Replaced ==
  ASSUME FiniteChain, BaseInv, NEW v \in DOMAIN vals, NEW b \in Validator,
         b.status = vals[v].status, b.shares = 0 => b.tokens = 0
  PROVE  /\ IsStore(Put(v, b)) /\ Others(v, Put(v, b)) /\ Backed(Put(v, b))
         /\ v \in DOMAIN Put(v, b) /\ Put(v, b)[v] = b
         /\ \A p \in Pools : Held(Put(v, b), p)[v] = Share(vals[v], p, b.tokens)
<1> DEFINE w == Put(v, b)
<1>1. IsStore(vals) /\ Backed(vals) /\ v \in Validators
  BY BaseFacts, ValidatorFacts DEF BaseInv
<1>2. DOMAIN w = DOMAIN vals /\ w[v] = b /\ \A x \in DOMAIN vals \ {v} : w[x] = vals[x]
  BY <1>1 DEF IsStore, Put
<1>3. IsStore(w)
  BY <1>1 DEF IsStore, Put
<1> HIDE DEF w
<1>4. Others(v, w) /\ Backed(w)
  BY <1>1, <1>2 DEF Others, Backed
<1>5. \A p \in Pools : Held(w, p)[v] = Share(vals[v], p, b.tokens)
  BY <1>1, <1>2 DEF Held, Share, PoolOf
<1> QED BY <1>2, <1>3, <1>4, <1>5 DEF w

(* What v has in the pools before a step. *)
LEMMA HeldBefore ==
  ASSUME FiniteChain, BaseInv, NEW v \in DOMAIN vals, NEW p
  PROVE  Held(vals, p)[v] = Share(vals[v], p, vals[v].tokens)
BY ValidatorFacts DEF Held, Share

(* Tokens delegated to a validator, by a message or by keeper.Delegate. *)
LEMMA DelegateToFacts ==
  ASSUME FiniteChain, BaseInv, NEW a \in Accounts, NEW v \in Validators, NEW amt \in Amounts,
         CanDelegate(v), DelegateTo(a, v, amt)
  PROVE  /\ StakeStep(v, vals', dels') /\ v \in DOMAIN vals
         /\ \A p \in Pools : Held(vals', p)[v] = Held(vals, p)[v] + Share(vals[v], p, amt)
         /\ \A p \in Pools : pool'[p] = pool[p] + Share(vals[v], p, amt)
         /\ pool' \in [Pools -> Int]
<1> DEFINE m == IssuedShares(vals[v], amt)
           n == vals[v].tokens + amt
           s == vals[v].shares + m
           b == [vals[v] EXCEPT !.tokens = n, !.shares = s]
           d == dels[<<a, v>>]
<1>1. /\ v \in DOMAIN vals /\ ~InvalidExRate(vals[v])
      /\ vals' = [vals EXCEPT ![v].tokens = @ + amt, ![v].shares = @ + m]
      /\ dels' = [dels EXCEPT ![<<a, v>>] = @ + m]
      /\ pool' = [pool EXCEPT ![PoolOf(vals[v])] = @ + amt]
  BY DEF CanDelegate, DelegateTo
<1>2. /\ vals[v] \in Validator /\ vals[v].tokens \in Nat /\ vals[v].shares \in Nat
      /\ SumFunctionOnSet(dels, AtVal(v)) = vals[v].shares /\ d \in Nat
  BY <1>1, ValidatorFacts
<1>3. amt \in Nat \ {0} /\ m \in Nat /\ n \in Nat /\ s \in Nat
  <2>1. amt \in Nat \ {0}
    BY AmountsAssumption
  <2>2. m \in Nat
    BY <1>1, <1>2, <2>1, IssuedSharesType
  <2> HIDE DEF m
  <2> QED BY <1>2, <2>1, <2>2
<1>4. s # 0
  <2>1. CASE vals[v].shares = 0
    <3>1. m = amt * Precision
      BY <2>1 DEF IssuedShares
    <3>2. amt * Precision # 0
      BY <1>3, PrecisionAssumption
    <3> QED BY <1>2, <1>3, <2>1, <3>1, <3>2
  <2>2. CASE vals[v].shares # 0
    <3> HIDE DEF m
    <3> QED BY <1>2, <1>3, <2>2
  <2> QED BY <2>1, <2>2
<1>5. vals' = Put(v, b)
  BY <1>1, BaseFacts DEF IsStore, Put
<1>6. dels' = SetTo(a, v, d + m)
  BY <1>1 DEF SetTo
<1> HIDE DEF m, n, s, d
<1>7. b \in Validator /\ b.status = vals[v].status /\ b.shares = s /\ b.tokens = n
  BY <1>2, <1>3 DEF Validator
<1> HIDE DEF b
<1>8. /\ IsStore(vals') /\ Others(v, vals') /\ Backed(vals') /\ v \in DOMAIN vals' /\ vals'[v] = b
      /\ \A p \in Pools : Held(vals', p)[v] = Share(vals[v], p, b.tokens)
  <2>1. b.shares = 0 => b.tokens = 0
    BY <1>4, <1>7
  <2>2. /\ IsStore(Put(v, b)) /\ Others(v, Put(v, b)) /\ Backed(Put(v, b))
        /\ v \in DOMAIN Put(v, b) /\ Put(v, b)[v] = b
        /\ \A p \in Pools : Held(Put(v, b), p)[v] = Share(vals[v], p, b.tokens)
    BY <1>1, <1>7, <2>1, Replaced
  <2> QED BY <1>5, <2>2
<1>9. d + m \in Nat /\ dels \in [Accounts \X Validators -> Nat]
  BY <1>2, <1>3, BaseFacts
<1>10. /\ SetTo(a, v, d + m) \in [Accounts \X Validators -> Nat]
       /\ \A x \in Accounts \X Validators : x[2] # v => SetTo(a, v, d + m)[x] = dels[x]
       /\ SumFunctionOnSet(SetTo(a, v, d + m), AtVal(v)) =
            SumFunctionOnSet(dels, AtVal(v)) + ((d + m) - dels[<<a, v>>])
  BY <1>9, DelegationSet DEF FiniteChain
<1>11. SharesAddAt(v, vals', dels')
  <2>1. ((d + m) - d) = m
    BY <1>2, <1>3
  <2> QED BY <1>2, <1>6, <1>7, <1>8, <1>10, <2>1 DEF SharesAddAt, s, d
<1>12. StakeStep(v, vals', dels')
  BY <1>6, <1>8, <1>10, <1>11 DEF StakeStep
<1>13. \A p \in Pools : Held(vals', p)[v] = Held(vals, p)[v] + Share(vals[v], p, amt)
  <2> SUFFICES ASSUME NEW p \in Pools
               PROVE  Held(vals', p)[v] = Held(vals, p)[v] + Share(vals[v], p, amt)
    OBVIOUS
  <2>1. Held(vals, p)[v] = Share(vals[v], p, vals[v].tokens)
    BY <1>1, HeldBefore
  <2>2. Held(vals', p)[v] = Share(vals[v], p, vals[v].tokens + amt)
    BY <1>7, <1>8 DEF n
  <2> QED BY <1>2, <1>3, <2>1, <2>2 DEF Share
<1>14. /\ \A p \in Pools : pool'[p] = pool[p] + Share(vals[v], p, amt)
       /\ pool' \in [Pools -> Int]
  <2>1. pool \in [Pools -> Nat] /\ PoolOf(vals[v]) \in Pools
    BY DEF BaseInv, TypeOK, StakingTypeOK, PoolOf, Pools
  <2> QED BY <1>1, <1>3, <2>1 DEF Share
<1> QED BY <1>1, <1>12, <1>13, <1>14

(* A validator of the store removed. *)
Drop(v) == Restrict(vals, DOMAIN vals \ {v})

(* The store without v. *)
LEMMA Removed ==
  ASSUME FiniteChain, BaseInv, NEW v \in DOMAIN vals
  PROVE  /\ IsStore(Drop(v)) /\ Others(v, Drop(v)) /\ Backed(Drop(v)) /\ v \notin DOMAIN Drop(v)
         /\ \A p \in Pools : Held(Drop(v), p)[v] = 0
<1> DEFINE w == Drop(v)
<1>1. IsStore(vals) /\ Backed(vals) /\ v \in Validators
  BY BaseFacts, ValidatorFacts DEF BaseInv
<1>2. DOMAIN w = DOMAIN vals \ {v} /\ \A x \in DOMAIN vals \ {v} : w[x] = vals[x]
  BY DEF Drop, Restrict
<1>3. IsStore(w)
  BY <1>1 DEF IsStore, Drop, Restrict
<1> HIDE DEF w
<1> QED BY <1>1, <1>2, <1>3 DEF w, Others, Backed, Held

(* Shares unbonded from a validator, by a message or by Undelegate. *)
LEMMA UnbondFacts ==
  ASSUME FiniteChain, BaseInv, NEW a \in Accounts, NEW v \in DOMAIN vals, NEW shares \in Nat,
         shares <= dels[<<a, v>>], UnbondFrom(a, v, shares)
  PROVE  /\ StakeStep(v, vals', dels')
         /\ RemovedTokens(vals[v], shares) \in Nat
         /\ \A p \in Pools : Held(vals', p)[v] =
                Held(vals, p)[v] - Share(vals[v], p, RemovedTokens(vals[v], shares))
<1> DEFINE r == RemovedTokens(vals[v], shares)
           n == vals[v].tokens - r
           s == vals[v].shares - shares
           b == [vals[v] EXCEPT !.tokens = n, !.shares = s]
           d == dels[<<a, v>>]
<1>1. /\ dels' = SetTo(a, v, d - shares)
      /\ vals' = IF b.status = "unbonded" /\ b.shares = 0 THEN Drop(v) ELSE Put(v, b)
  BY DEF UnbondFrom, SetTo, Drop, Put
<1>2. /\ v \in Validators /\ vals[v] \in Validator /\ vals[v].tokens \in Nat /\ vals[v].shares \in Nat
      /\ SumFunctionOnSet(dels, AtVal(v)) = vals[v].shares
      /\ d \in Nat /\ d <= vals[v].shares
  BY ValidatorFacts
<1>3. shares <= d /\ shares <= vals[v].shares
  BY <1>2
<1>4. r \in Nat /\ r <= vals[v].tokens
  BY <1>2, <1>3, RemovedTokensFacts
<1>5. shares = vals[v].shares => r = vals[v].tokens
  BY DEF RemovedTokens
<1> HIDE DEF r, d
<1>6. n \in Nat /\ s \in Nat /\ d - shares \in Nat /\ (s = 0 => n = 0)
  BY <1>2, <1>3, <1>4, <1>5
<1> HIDE DEF n, s
<1>7. b \in Validator /\ b.status = vals[v].status /\ b.shares = s /\ b.tokens = n
  BY <1>2, <1>6 DEF Validator
<1> HIDE DEF b
<1>8. /\ SetTo(a, v, d - shares) \in [Accounts \X Validators -> Nat]
      /\ \A x \in Accounts \X Validators : x[2] # v => SetTo(a, v, d - shares)[x] = dels[x]
      /\ SumFunctionOnSet(SetTo(a, v, d - shares), AtVal(v)) =
           SumFunctionOnSet(dels, AtVal(v)) + ((d - shares) - dels[<<a, v>>])
  BY <1>2, <1>6, BaseFacts, DelegationSet DEF FiniteChain
<1>9. SumFunctionOnSet(dels', AtVal(v)) = s
  <2>1. (d - shares) - d = - shares
    BY <1>2
  <2> QED BY <1>1, <1>2, <1>8, <2>1 DEF s, d
<1>10. \A p \in Pools : Held(vals, p)[v] = Share(vals[v], p, vals[v].tokens)
  BY HeldBefore
<1>11. CASE b.status = "unbonded" /\ b.shares = 0
  <2>1. vals' = Drop(v) /\ s = 0 /\ n = 0
    BY <1>1, <1>6, <1>7, <1>11
  <2>2. /\ IsStore(vals') /\ Others(v, vals') /\ Backed(vals') /\ v \notin DOMAIN vals'
        /\ \A p \in Pools : Held(vals', p)[v] = 0
    BY <2>1, Removed
  <2>3. StakeStep(v, vals', dels')
    BY <1>1, <1>8, <1>9, <2>1, <2>2 DEF StakeStep, SharesAddAt
  <2>4. \A p \in Pools : Held(vals', p)[v] = Held(vals, p)[v] - Share(vals[v], p, r)
    <3>1. r = vals[v].tokens
      BY <1>2, <1>4, <2>1 DEF n
    <3>2. \A p \in Pools : Share(vals[v], p, r) - Share(vals[v], p, r) = 0
      BY <1>4 DEF Share
    <3> QED BY <1>10, <2>2, <3>1, <3>2
  <2> QED BY <1>4, <2>3, <2>4 DEF r
<1>12. CASE ~(b.status = "unbonded" /\ b.shares = 0)
  <2>1. vals' = Put(v, b) /\ (b.shares = 0 => b.tokens = 0)
    BY <1>1, <1>6, <1>7, <1>12
  <2>2. /\ IsStore(Put(v, b)) /\ Others(v, Put(v, b)) /\ Backed(Put(v, b))
        /\ v \in DOMAIN Put(v, b) /\ Put(v, b)[v] = b
        /\ \A p \in Pools : Held(Put(v, b), p)[v] = Share(vals[v], p, b.tokens)
    BY <1>7, <2>1, Replaced
  <2>3. StakeStep(v, vals', dels')
    BY <1>1, <1>7, <1>8, <1>9, <2>1, <2>2 DEF StakeStep, SharesAddAt
  <2>4. ASSUME NEW p \in Pools
        PROVE  Held(vals', p)[v] = Held(vals, p)[v] - Share(vals[v], p, r)
    <3>1. Held(vals', p)[v] = Share(vals[v], p, n)
      BY <1>7, <2>1, <2>2
    <3>2. Held(vals, p)[v] = Share(vals[v], p, vals[v].tokens)
      BY <1>10
    <3> QED BY <1>2, <1>4, <3>1, <3>2 DEF Share, n
  <2> QED BY <1>4, <2>3, <2>4 DEF r
<1> QED BY <1>11, <1>12

(* Tokens burned by a slash. *)
LEMMA SlashFacts ==
  ASSUME FiniteChain, BaseInv, NEW v \in Validators, NEW amt \in Amounts, Slash(v, amt)
  PROVE  /\ StakeStep(v, vals', dels') /\ v \in DOMAIN vals
         /\ \A p \in Pools : Held(vals', p)[v] = Held(vals, p)[v] - Share(vals[v], p, amt)
         /\ \A p \in Pools : pool'[p] = pool[p] - Share(vals[v], p, amt)
         /\ pool' \in [Pools -> Int]
<1> DEFINE n == vals[v].tokens - amt
           b == [vals[v] EXCEPT !.tokens = n]
<1>1. /\ v \in DOMAIN vals /\ vals[v].tokens >= amt /\ dels' = dels
      /\ vals' = [vals EXCEPT ![v].tokens = @ - amt]
      /\ pool' = [pool EXCEPT ![PoolOf(vals[v])] = @ - amt]
  BY DEF Slash
<1>2. /\ vals[v] \in Validator /\ vals[v].tokens \in Nat /\ vals[v].shares \in Nat /\ amt \in Nat \ {0}
      /\ SumFunctionOnSet(dels, AtVal(v)) = vals[v].shares
      /\ (vals[v].shares = 0 => vals[v].tokens = 0)
  BY <1>1, ValidatorFacts, AmountsAssumption DEF BaseInv, Backed
<1>3. n \in Nat /\ (vals[v].shares = 0 => n = 0)
  BY <1>1, <1>2
<1>4. vals' = Put(v, b)
  BY <1>1, BaseFacts DEF IsStore, Put
<1> HIDE DEF n
<1>5. b \in Validator /\ b.status = vals[v].status /\ b.shares = vals[v].shares /\ b.tokens = n
  BY <1>2, <1>3 DEF Validator
<1> HIDE DEF b
<1>6. b.shares = 0 => b.tokens = 0
  BY <1>3, <1>5
<1>7. /\ IsStore(Put(v, b)) /\ Others(v, Put(v, b)) /\ Backed(Put(v, b))
      /\ v \in DOMAIN Put(v, b) /\ Put(v, b)[v] = b
      /\ \A p \in Pools : Held(Put(v, b), p)[v] = Share(vals[v], p, b.tokens)
  BY <1>1, <1>5, <1>6, Replaced
<1>8. StakeStep(v, vals', dels')
  BY <1>1, <1>2, <1>4, <1>5, <1>7, BaseFacts DEF StakeStep, SharesAddAt
<1>9. ASSUME NEW p \in Pools PROVE Held(vals', p)[v] = Held(vals, p)[v] - Share(vals[v], p, amt)
  <2>1. Held(vals', p)[v] = Share(vals[v], p, n)
    BY <1>4, <1>5, <1>7
  <2>2. Held(vals, p)[v] = Share(vals[v], p, vals[v].tokens)
    BY <1>1, HeldBefore
  <2> QED BY <1>2, <2>1, <2>2 DEF Share, n
<1>10. /\ \A p \in Pools : pool'[p] = pool[p] - Share(vals[v], p, amt)
       /\ pool' \in [Pools -> Int]
  <2>1. pool \in [Pools -> Nat] /\ PoolOf(vals[v]) \in Pools
    BY DEF BaseInv, TypeOK, StakingTypeOK, PoolOf, Pools
  <2> QED BY <1>1, <1>2, <2>1 DEF Share
<1> QED BY <1>1, <1>8, <1>9, <1>10

(* A validator enters or leaves the active set, with its tokens. *)
LEMMA ChangeStatusFacts ==
  ASSUME FiniteChain, BaseInv, NEW v \in Validators, NEW status \in Status, ChangeStatus(v, status)
  PROVE  /\ StakeStep(v, vals', dels')
         /\ \A p \in Pools : pool'[p] = pool[p] + (Held(vals', p)[v] - Held(vals, p)[v])
         /\ pool' \in [Pools -> Int]
<1> DEFINE from  == PoolOf(vals[v])
           to    == PoolOf([status |-> status])
           t     == vals[v].tokens
           moved == IF from = to THEN 0 ELSE t
           b     == [vals[v] EXCEPT !.status = status]
<1>1. /\ v \in DOMAIN vals /\ dels' = dels
      /\ vals' = IF status = "unbonded" /\ vals[v].shares = 0 THEN Drop(v) ELSE Put(v, b)
      /\ pool' = [p \in Pools |-> IF p = to THEN pool[p] + moved ELSE pool[p] - moved]
      /\ status = "unbonded" => vals[v].status = "unbonding"
  BY BaseFacts DEF ChangeStatus, Drop, Put, IsStore
<1>2. /\ vals[v] \in Validator /\ t \in Nat /\ vals[v].shares \in Nat
      /\ SumFunctionOnSet(dels, AtVal(v)) = vals[v].shares
      /\ (vals[v].shares = 0 => t = 0)
  BY <1>1, ValidatorFacts DEF BaseInv, Backed
<1>3. from \in Pools /\ to \in Pools /\ Pools = {"bonded", "notBonded"}
  BY DEF PoolOf, Pools
<1>4. pool \in [Pools -> Nat] /\ IsStore(vals) /\ Backed(vals) /\ dels \in [Accounts \X Validators -> Nat]
  BY BaseFacts DEF BaseInv, TypeOK, StakingTypeOK
<1>5. \A p \in Pools : Held(vals, p)[v] = IF p = from THEN t ELSE 0
  BY <1>1 DEF Held
<1>6. b \in Validator /\ b.shares = vals[v].shares /\ b.tokens = t /\ PoolOf(b) = to
  BY <1>2 DEF Validator, Status, PoolOf
<1> HIDE DEF b
<1>7. CASE status = "unbonded" /\ vals[v].shares = 0
  <2>1. vals' = Drop(v) /\ t = 0
    BY <1>1, <1>2, <1>7
  <2>2. /\ IsStore(vals') /\ Others(v, vals') /\ Backed(vals') /\ v \notin DOMAIN vals'
        /\ \A p \in Pools : Held(vals', p)[v] = 0
    BY <1>1, <2>1, Removed
  <2>3. StakeStep(v, vals', dels')
    BY <1>1, <1>2, <1>4, <1>7, <2>2 DEF StakeStep, SharesAddAt
  <2> HIDE DEF from, to, t
  <2>4. moved = 0
    BY <2>1
  <2>5. \A p \in Pools : Held(vals, p)[v] = 0
    BY <1>5, <2>1
  <2> QED BY <1>1, <1>4, <2>2, <2>3, <2>4, <2>5
<1>8. CASE ~(status = "unbonded" /\ vals[v].shares = 0)
  <2>1. vals' = Put(v, b)
    BY <1>1, <1>8
  <2>2. DOMAIN vals' = DOMAIN vals /\ vals'[v] = b /\ \A x \in DOMAIN vals \ {v} : vals'[x] = vals[x]
    BY <1>1, <1>4, <2>1 DEF IsStore, Put
  <2>3. IsStore(vals')
    BY <1>1, <1>4, <1>6, <2>1 DEF IsStore, Put
  <2>4. Others(v, vals') /\ Backed(vals')
    BY <1>2, <1>4, <1>6, <2>2 DEF Others, Backed
  <2>5. StakeStep(v, vals', dels')
    BY <1>1, <1>2, <1>4, <1>6, <2>2, <2>3, <2>4 DEF StakeStep, SharesAddAt
  <2>6. \A p \in Pools : Held(vals', p)[v] = IF p = to THEN t ELSE 0
    BY <1>1, <1>6, <2>2 DEF Held
  <2> HIDE DEF from, to, t
  <2>7. ASSUME NEW p \in Pools
        PROVE  pool'[p] = pool[p] + (Held(vals', p)[v] - Held(vals, p)[v])
    <3>1. pool'[p] = IF p = to THEN pool[p] + moved ELSE pool[p] - moved
      BY <1>1
    <3>2. CASE from = to
      BY <1>2, <1>4, <1>5, <2>6, <3>1, <3>2
    <3>3. CASE from # to
      <4>1. p = to \/ p = from
        BY <1>3, <3>3
      <4>2. p = to => Held(vals, p)[v] = 0 /\ Held(vals', p)[v] = t
        BY <1>5, <2>6, <3>3
      <4>3. p = from => Held(vals, p)[v] = t /\ Held(vals', p)[v] = 0
        BY <1>5, <2>6, <3>3
      <4> QED BY <1>2, <1>4, <3>1, <3>3, <4>1, <4>2, <4>3
    <3> QED BY <3>2, <3>3
  <2>8. pool' \in [Pools -> Int]
    <3>1. moved \in Int
      BY <1>2
    <3> QED BY <1>1, <1>4, <3>1
  <2> QED BY <2>5, <2>7, <2>8
<1> QED BY <1>7, <1>8

-----------------------------------------------------------------------------
(* The books, step by step *)

StakingInv == StakingTypeOK /\ SharesAdd /\ Backed(vals) /\ Books

(* Tokens of a validator are in one pool. *)
LEMMA ShareSum ==
  ASSUME NEW val, NEW x \in Int
  PROVE  /\ Share(val, "bonded", x) \in Int /\ Share(val, "notBonded", x) \in Int
         /\ Share(val, "bonded", x) + Share(val, "notBonded", x) = x
BY DEF Share, PoolOf

(* What a step adds to the balances, the unbonding entries, and the tokens *)
(* of the validators: the pools and the supply have to follow.             *)
LEMMA BooksStep ==
  ASSUME FiniteChain, StakingInv, SharesAdd', IsStore(vals'), Backed(vals'),
         dels' \in [Accounts \X Validators -> Nat],
         liquid' \in [Accounts -> Nat], unbonding' \in [Accounts -> Nat], pool' \in [Pools -> Int],
         NEW dl \in Int, NEW du \in Int, NEW db \in Int, NEW dn \in Int,
         SumFunction(liquid') = SumFunction(liquid) + dl,
         SumFunction(unbonding') = SumFunction(unbonding) + du,
         HeldSum(vals', "bonded") = HeldSum(vals, "bonded") + db,
         HeldSum(vals', "notBonded") = HeldSum(vals, "notBonded") + dn,
         pool'["bonded"] = pool["bonded"] + db,
         pool'["notBonded"] = pool["notBonded"] + (dn + du),
         supply' = supply + (dl + du + db + dn)
  PROVE  StakingInv'
<1>1. IsStore(vals) /\ liquid \in [Accounts -> Nat] /\ unbonding \in [Accounts -> Nat]
      /\ pool \in [Pools -> Nat] /\ supply \in Nat
  BY DEF StakingInv, StakingTypeOK, IsStore
<1>2. /\ SumFunction(liquid) \in Nat /\ SumFunction(liquid') \in Nat
      /\ SumFunction(unbonding) \in Nat /\ SumFunction(unbonding') \in Nat
  BY <1>1, SumType DEF FiniteChain
<1>3. /\ HeldSum(vals, "bonded") \in Nat /\ HeldSum(vals', "bonded") \in Nat
      /\ HeldSum(vals, "notBonded") \in Nat /\ HeldSum(vals', "notBonded") \in Nat
  BY <1>1, HeldFacts
<1>4. pool["bonded"] \in Nat /\ pool["notBonded"] \in Nat
  BY <1>1 DEF Pools
<1>5. /\ supply = SumFunction(liquid) + pool["bonded"] + pool["notBonded"]
      /\ pool["bonded"] = HeldSum(vals, "bonded")
      /\ pool["notBonded"] = SumFunction(unbonding) + HeldSum(vals, "notBonded")
  BY DEF StakingInv, Books
<1>6. /\ pool'["bonded"] = HeldSum(vals', "bonded")
      /\ pool'["notBonded"] = SumFunction(unbonding') + HeldSum(vals', "notBonded")
  BY <1>2, <1>3, <1>4, <1>5
<1>7. supply' = SumFunction(liquid') + pool'["bonded"] + pool'["notBonded"]
  BY <1>2, <1>3, <1>4, <1>5
<1>8. supply' \in Nat /\ pool' \in [Pools -> Nat]
  <2>1. pool'["bonded"] \in Nat /\ pool'["notBonded"] \in Nat
    BY <1>2, <1>3, <1>6
  <2>2. \A p \in Pools : pool'[p] \in Nat
    BY <2>1 DEF Pools
  <2> QED BY <1>2, <1>7, <2>1, <2>2
<1>9. Books'
  BY <1>6, <1>7 DEF Books
<1>10. StakingTypeOK'
  BY <1>8 DEF StakingTypeOK, IsStore
<1> QED BY <1>9, <1>10 DEF StakingInv

(* A delegation, paid by the account or minted. *)
LEMMA DelegateBooks ==
  ASSUME FiniteChain, TypeOK, StakingInv, NEW a \in Accounts, NEW v \in Validators,
         NEW amt \in Amounts, CanDelegate(v), DelegateTo(a, v, amt), unbonding' = unbonding,
         \/ liquid' = liquid /\ supply' = supply + amt
         \/ liquid[a] >= amt /\ liquid' = [liquid EXCEPT ![a] = @ - amt] /\ supply' = supply
  PROVE  StakingInv'
<1> DEFINE db == Share(vals[v], "bonded", amt)
           dn == Share(vals[v], "notBonded", amt)
<1>0. BaseInv /\ amt \in Nat /\ IsStore(vals) /\ supply \in Nat
  BY AmountsAssumption DEF BaseInv, StakingInv, StakingTypeOK, IsStore
<1>1. /\ StakeStep(v, vals', dels')
      /\ \A p \in Pools : Held(vals', p)[v] = Held(vals, p)[v] + Share(vals[v], p, amt)
      /\ \A p \in Pools : pool'[p] = pool[p] + Share(vals[v], p, amt)
      /\ pool' \in [Pools -> Int]
  BY <1>0, DelegateToFacts
<1>2. SharesAdd' /\ Backed(vals') /\ IsStore(vals') /\ dels' \in [Accounts \X Validators -> Nat]
  BY <1>0, <1>1, StepShares DEF StakeStep
<1>3. ASSUME NEW p \in Pools PROVE HeldSum(vals', p) = HeldSum(vals, p) + Share(vals[v], p, amt)
  <2>1. HeldSum(vals', p) = HeldSum(vals, p) + (Held(vals', p)[v] - Held(vals, p)[v])
    BY <1>0, <1>1, <1>2, HeldStep DEF StakeStep
  <2>2. Held(vals, p)[v] \in Nat /\ Share(vals[v], p, amt) \in Int
    BY <1>0, HeldFacts DEF Share
  <2> QED BY <1>1, <2>1, <2>2
<1>4. "bonded" \in Pools /\ "notBonded" \in Pools /\ db \in Int /\ dn \in Int /\ db + dn = amt
  BY <1>0, ShareSum DEF Pools
<1>5. /\ HeldSum(vals', "bonded") = HeldSum(vals, "bonded") + db
      /\ HeldSum(vals', "notBonded") = HeldSum(vals, "notBonded") + dn
      /\ pool'["bonded"] = pool["bonded"] + db /\ pool'["notBonded"] = pool["notBonded"] + (dn + 0)
  BY <1>1, <1>3, <1>4
<1>6. liquid \in [Accounts -> Nat] /\ unbonding \in [Accounts -> Nat]
  BY DEF StakingInv, StakingTypeOK
<1>7. SumFunction(liquid) \in Nat /\ SumFunction(unbonding) \in Nat
  BY <1>6, SumType DEF FiniteChain
<1>8. SumFunction(unbonding') = SumFunction(unbonding) + 0 /\ unbonding' \in [Accounts -> Nat]
  BY <1>6, <1>7
<1>9. CASE liquid' = liquid /\ supply' = supply + amt
  <2>1. SumFunction(liquid') = SumFunction(liquid) + 0 /\ liquid' \in [Accounts -> Nat]
    BY <1>6, <1>7, <1>9
  <2>2. supply' = supply + (0 + 0 + db + dn)
    BY <1>4, <1>9
  <2> HIDE DEF db, dn
  <2> QED BY <1>1, <1>2, <1>4, <1>5, <1>8, <2>1, <2>2, BooksStep
<1>10. CASE liquid[a] >= amt /\ liquid' = [liquid EXCEPT ![a] = @ - amt] /\ supply' = supply
  <2> DEFINE n == liquid[a] - amt
             dl == n - liquid[a]
  <2>1. n \in Nat /\ dl = -amt /\ liquid' = Upd(liquid, a, n)
    BY <1>0, <1>6, <1>10 DEF Upd
  <2>2. Upd(liquid, a, n) \in [Accounts -> Nat]
        /\ SumFunction(Upd(liquid, a, n)) = SumFunction(liquid) + (n - liquid[a])
    <3>1. n \in Nat /\ IsFiniteSet(Accounts)
      BY <2>1 DEF FiniteChain
    <3> HIDE DEF n
    <3> QED BY ONLY <1>6, <3>1, a \in Accounts, SumExcept
  <2>3. liquid' \in [Accounts -> Nat] /\ dl \in Int
    BY <1>0, <2>1, <2>2
  <2>4. SumFunction(liquid') = SumFunction(liquid) + dl
    BY <2>1, <2>2
  <2> HIDE DEF n, dl, db, dn
  <2>5. supply' = supply + (dl + 0 + db + dn)
    BY <1>0, <1>4, <1>10, <2>1
  <2> QED BY <1>1, <1>2, <1>4, <1>5, <1>8, <2>3, <2>4, <2>5, BooksStep
<1> QED BY <1>9, <1>10

(* The sums of a step on v, from what it adds at v. *)
LEMMA HeldDelta ==
  ASSUME FiniteChain, IsStore(vals), NEW v \in Validators, StakeStep(v, vals', dels'),
         NEW p, NEW x \in Int, Held(vals', p)[v] = Held(vals, p)[v] + x
  PROVE  HeldSum(vals', p) = HeldSum(vals, p) + x
<1>1. HeldSum(vals', p) = HeldSum(vals, p) + (Held(vals', p)[v] - Held(vals, p)[v])
  BY HeldStep DEF StakeStep
<1>2. Held(vals, p)[v] \in Nat
  BY HeldFacts
<1> QED BY <1>1, <1>2

(* The sum of balances when one of them is set to n. *)
LEMMA BalanceSet ==
  ASSUME FiniteChain, NEW f \in [Accounts -> Nat], NEW a \in Accounts, NEW n \in Nat
  PROVE  /\ Upd(f, a, n) \in [Accounts -> Nat]
         /\ SumFunction(Upd(f, a, n)) = SumFunction(f) + (n - f[a])
<1>1. IsFiniteSet(Accounts)
  BY DEF FiniteChain
<1> QED BY ONLY <1>1, f \in [Accounts -> Nat], a \in Accounts, n \in Nat, SumExcept

(* Tokens that leave a validator: burned at once, or into an unbonding     *)
(* entry of the account.                                                   *)
LEMMA UndelegateBooks ==
  ASSUME FiniteChain, TypeOK, StakingInv, NEW a \in Accounts, NEW v \in Validators,
         NEW amt \in Amounts, ValidUnbondAmount(a, v, amt),
         NEW shares, shares = SharesFromTokens(vals[v], amt),
         NEW r, r = RemovedTokens(vals[v], shares),
         UnbondFrom(a, v, shares), liquid' = liquid,
         \/ /\ pool' = [pool EXCEPT ![PoolOf(vals[v])] = @ - r]
            /\ supply' = supply - r /\ unbonding' = unbonding
         \/ /\ pool' = [p \in Pools |-> pool[p] - (IF p = PoolOf(vals[v]) THEN r ELSE 0)
                                                + (IF p = "notBonded" THEN r ELSE 0)]
            /\ supply' = supply /\ unbonding' = [unbonding EXCEPT ![a] = @ + r]
  PROVE  StakingInv' /\ r \in Nat /\ r <= amt
<1> DEFINE db == 0 - Share(vals[v], "bonded", r)
           dn == 0 - Share(vals[v], "notBonded", r)
<1>0. BaseInv /\ IsStore(vals) /\ supply \in Nat /\ pool \in [Pools -> Nat]
      /\ liquid \in [Accounts -> Nat] /\ unbonding \in [Accounts -> Nat]
  BY DEF BaseInv, StakingInv, StakingTypeOK, IsStore
<1>1. v \in DOMAIN vals /\ dels[<<a, v>>] > 0 /\ vals[v].tokens > 0 /\ shares <= dels[<<a, v>>]
  BY DEF ValidUnbondAmount
<1>2. /\ vals[v].tokens \in Nat /\ vals[v].shares \in Nat
      /\ dels[<<a, v>>] \in Nat /\ dels[<<a, v>>] <= vals[v].shares /\ amt \in Nat
  BY <1>0, <1>1, ValidatorFacts, AmountsAssumption
<1>3. vals[v].tokens \in Nat \ {0} /\ vals[v].shares \in Nat \ {0}
  BY <1>1, <1>2
<1>4. shares \in Nat
  <2>1. vals[v].shares * amt \in Nat
    BY <1>2, ProductType
  <2>2. (vals[v].shares * amt) \div vals[v].tokens \in Nat
    BY <1>3, <2>1, Division
  <2> QED BY <2>2 DEF SharesFromTokens
<1>5. shares <= vals[v].shares
  BY <1>1, <1>2, <1>4
<1>6. r <= amt
  BY <1>2, <1>3, <1>5, RoundingNeverPaysMore
<1>7. /\ StakeStep(v, vals', dels') /\ r \in Nat
      /\ \A p \in Pools : Held(vals', p)[v] = Held(vals, p)[v] - Share(vals[v], p, r)
  BY <1>0, <1>1, <1>4, UnbondFacts
<1>8. SharesAdd' /\ Backed(vals') /\ IsStore(vals') /\ dels' \in [Accounts \X Validators -> Nat]
  BY <1>0, <1>7, StepShares DEF StakeStep
<1>9. "bonded" \in Pools /\ "notBonded" \in Pools /\ db \in Int /\ dn \in Int /\ db + dn = 0 - r
  BY <1>7, ShareSum DEF Pools
<1>10. ASSUME NEW p \in Pools
       PROVE  HeldSum(vals', p) = HeldSum(vals, p) + (0 - Share(vals[v], p, r))
  <2> DEFINE x == 0 - Share(vals[v], p, r)
  <2>1. x \in Int
    BY <1>7 DEF Share
  <2>2. Held(vals', p)[v] = Held(vals, p)[v] + x
    <3>1. Held(vals, p)[v] \in Nat
      BY <1>0, HeldFacts
    <3>2. Share(vals[v], p, r) \in Int
      BY <1>7 DEF Share
    <3> QED BY <1>7, <3>1, <3>2
  <2> HIDE DEF x
  <2>3. HeldSum(vals', p) = HeldSum(vals, p) + x
    BY <1>0, <1>7, <2>1, <2>2, HeldDelta
  <2> QED BY <2>3 DEF x
<1>11. /\ HeldSum(vals', "bonded") = HeldSum(vals, "bonded") + db
       /\ HeldSum(vals', "notBonded") = HeldSum(vals, "notBonded") + dn
  BY <1>9, <1>10
<1>12. SumFunction(liquid) \in Nat /\ SumFunction(unbonding) \in Nat
  BY <1>0, SumType DEF FiniteChain
<1>13. SumFunction(liquid') = SumFunction(liquid) + 0 /\ liquid' \in [Accounts -> Nat]
  BY <1>0, <1>12
<1>14. CASE /\ pool' = [pool EXCEPT ![PoolOf(vals[v])] = @ - r]
            /\ supply' = supply - r /\ unbonding' = unbonding
  <2>1. /\ pool' \in [Pools -> Int] /\ pool'["bonded"] = pool["bonded"] + db
        /\ pool'["notBonded"] = pool["notBonded"] + (dn + 0)
    BY <1>0, <1>7, <1>14 DEF Share, PoolOf, Pools
  <2>2. SumFunction(unbonding') = SumFunction(unbonding) + 0 /\ unbonding' \in [Accounts -> Nat]
    BY <1>0, <1>12, <1>14
  <2> HIDE DEF db, dn
  <2>3. supply' = supply + (0 + 0 + db + dn)
    BY <1>0, <1>7, <1>9, <1>14
  <2>4. StakingInv'
    BY <1>8, <1>9, <1>11, <1>13, <2>1, <2>2, <2>3, BooksStep
  <2> QED BY <1>6, <1>7, <2>4
<1>15. CASE /\ pool' = [p \in Pools |-> pool[p] - (IF p = PoolOf(vals[v]) THEN r ELSE 0)
                                                + (IF p = "notBonded" THEN r ELSE 0)]
            /\ supply' = supply /\ unbonding' = [unbonding EXCEPT ![a] = @ + r]
  <2> DEFINE n == unbonding[a] + r
  <2>1. /\ pool' \in [Pools -> Int] /\ pool'["bonded"] = pool["bonded"] + db
        /\ pool'["notBonded"] = pool["notBonded"] + (dn + r)
    BY <1>0, <1>7, <1>15 DEF Share, PoolOf, Pools
  <2>2. n \in Nat /\ n - unbonding[a] = r /\ unbonding' = Upd(unbonding, a, n)
    BY <1>0, <1>7, <1>15 DEF Upd
  <2>3. Upd(unbonding, a, n) \in [Accounts -> Nat]
        /\ SumFunction(Upd(unbonding, a, n)) = SumFunction(unbonding) + (n - unbonding[a])
    <3> HIDE DEF n
    <3> QED BY <1>0, <2>2, BalanceSet
  <2>4. SumFunction(unbonding') = SumFunction(unbonding) + r /\ unbonding' \in [Accounts -> Nat]
    BY <2>2, <2>3
  <2> HIDE DEF db, dn, n
  <2>5. supply' = supply + (0 + r + db + dn) /\ r \in Int
    BY <1>0, <1>7, <1>9, <1>15
  <2>6. StakingInv'
    <3>1. PICK z : z = 0
      OBVIOUS
    <3>2. FiniteChain /\ StakingInv /\ z \in Int /\ r \in Int /\ db \in Int /\ dn \in Int
      BY <1>0, <1>9, <2>5, <3>1 DEF BaseInv
    <3>3. /\ SumFunction(liquid') = SumFunction(liquid) + z
          /\ SumFunction(unbonding') = SumFunction(unbonding) + r
          /\ pool'["bonded"] = pool["bonded"] + db /\ pool'["notBonded"] = pool["notBonded"] + (dn + r)
          /\ supply' = supply + (z + r + db + dn)
      BY <1>13, <2>1, <2>4, <2>5, <3>1
    <3>4. /\ liquid' \in [Accounts -> Nat] /\ unbonding' \in [Accounts -> Nat]
          /\ pool' \in [Pools -> Int]
      BY <1>13, <2>1, <2>4
    <3> QED BY ONLY <1>8, <1>11, <3>2, <3>3, <3>4, BooksStep
  <2> QED BY <1>6, <1>7, <2>6
<1> QED BY <1>14, <1>15

(* Slashed tokens leave their pool and the supply. *)
LEMMA SlashBooks ==
  ASSUME FiniteChain, TypeOK, StakingInv, NEW v \in Validators, NEW amt \in Amounts, Slash(v, amt)
  PROVE  StakingInv'
<1> DEFINE db == 0 - Share(vals[v], "bonded", amt)
           dn == 0 - Share(vals[v], "notBonded", amt)
<1>0. BaseInv /\ IsStore(vals) /\ supply \in Nat /\ pool \in [Pools -> Nat] /\ amt \in Nat
      /\ liquid \in [Accounts -> Nat] /\ unbonding \in [Accounts -> Nat]
  BY AmountsAssumption DEF BaseInv, StakingInv, StakingTypeOK, IsStore
<1>1. /\ StakeStep(v, vals', dels')
      /\ \A p \in Pools : Held(vals', p)[v] = Held(vals, p)[v] - Share(vals[v], p, amt)
      /\ \A p \in Pools : pool'[p] = pool[p] - Share(vals[v], p, amt)
      /\ pool' \in [Pools -> Int]
  BY <1>0, SlashFacts
<1>2. SharesAdd' /\ Backed(vals') /\ IsStore(vals') /\ dels' \in [Accounts \X Validators -> Nat]
  BY <1>0, <1>1, StepShares DEF StakeStep
<1>3. supply' = supply - amt /\ liquid' = liquid /\ unbonding' = unbonding
  BY DEF Slash
<1>4. "bonded" \in Pools /\ "notBonded" \in Pools /\ db \in Int /\ dn \in Int /\ db + dn = 0 - amt
  BY <1>0, ShareSum DEF Pools
<1>5. ASSUME NEW p \in Pools
      PROVE  /\ HeldSum(vals', p) = HeldSum(vals, p) + (0 - Share(vals[v], p, amt))
             /\ pool'[p] = pool[p] + (0 - Share(vals[v], p, amt))
  <2> DEFINE x == 0 - Share(vals[v], p, amt)
  <2>1. x \in Int /\ Share(vals[v], p, amt) \in Int /\ Held(vals, p)[v] \in Nat /\ pool[p] \in Nat
    BY <1>0, HeldFacts DEF Share
  <2>2. Held(vals', p)[v] = Held(vals, p)[v] + x /\ pool'[p] = pool[p] + x
    BY <1>1, <2>1
  <2> HIDE DEF x
  <2>3. HeldSum(vals', p) = HeldSum(vals, p) + x
    BY <1>0, <1>1, <2>1, <2>2, HeldDelta
  <2> QED BY <2>2, <2>3 DEF x
<1>6. /\ HeldSum(vals', "bonded") = HeldSum(vals, "bonded") + db
      /\ HeldSum(vals', "notBonded") = HeldSum(vals, "notBonded") + dn
      /\ pool'["bonded"] = pool["bonded"] + db /\ pool'["notBonded"] = pool["notBonded"] + (dn + 0)
  BY <1>4, <1>5
<1>7. SumFunction(liquid) \in Nat /\ SumFunction(unbonding) \in Nat
  BY <1>0, SumType DEF FiniteChain
<1>8. /\ SumFunction(liquid') = SumFunction(liquid) + 0 /\ liquid' \in [Accounts -> Nat]
      /\ SumFunction(unbonding') = SumFunction(unbonding) + 0 /\ unbonding' \in [Accounts -> Nat]
  BY <1>0, <1>3, <1>7
<1> HIDE DEF db, dn
<1>9. supply' = supply + (0 + 0 + db + dn)
  BY <1>0, <1>3, <1>4
<1> QED BY <1>1, <1>2, <1>4, <1>6, <1>8, <1>9, BooksStep

(* A validator that changes its status takes its tokens along. *)
LEMMA RankBooks ==
  ASSUME FiniteChain, TypeOK, StakingInv, NEW v \in Validators, NEW status \in Status,
         ChangeStatus(v, status)
  PROVE  StakingInv'
<1> DEFINE d(p) == Held(vals', p)[v] - Held(vals, p)[v]
           db   == d("bonded")
           dn   == d("notBonded")
<1>0. BaseInv /\ IsStore(vals) /\ supply \in Nat /\ pool \in [Pools -> Nat]
      /\ liquid \in [Accounts -> Nat] /\ unbonding \in [Accounts -> Nat]
  BY DEF BaseInv, StakingInv, StakingTypeOK, IsStore
<1>1. /\ StakeStep(v, vals', dels') /\ pool' \in [Pools -> Int]
      /\ \A p \in Pools : pool'[p] = pool[p] + (Held(vals', p)[v] - Held(vals, p)[v])
  BY <1>0, ChangeStatusFacts
<1>2. SharesAdd' /\ Backed(vals') /\ IsStore(vals') /\ dels' \in [Accounts \X Validators -> Nat]
  BY <1>0, <1>1, StepShares DEF StakeStep
<1>3. supply' = supply /\ liquid' = liquid /\ unbonding' = unbonding
  BY DEF ChangeStatus
<1>4. \A p \in Pools : Held(vals', p)[v] \in Nat /\ Held(vals, p)[v] \in Nat
  BY <1>0, <1>2, HeldFacts
<1>5. /\ HeldSum(vals', "bonded") = HeldSum(vals, "bonded") + db
      /\ HeldSum(vals', "notBonded") = HeldSum(vals, "notBonded") + dn
  BY <1>0, <1>1, <1>2, HeldStep DEF StakeStep
<1>6. /\ pool'["bonded"] = pool["bonded"] + db /\ pool'["notBonded"] = pool["notBonded"] + (dn + 0)
      /\ db \in Int /\ dn \in Int
  BY <1>1, <1>4 DEF Pools
<1>7. SumFunction(liquid) \in Nat /\ SumFunction(unbonding) \in Nat
  BY <1>0, SumType DEF FiniteChain
<1>8. /\ SumFunction(liquid') = SumFunction(liquid) + 0 /\ liquid' \in [Accounts -> Nat]
      /\ SumFunction(unbonding') = SumFunction(unbonding) + 0 /\ unbonding' \in [Accounts -> Nat]
  BY <1>0, <1>3, <1>7
\* what leaves one pool enters the other
<1>9. db + dn = 0
  <2>1. PICK to \in Pools, n \in Int :
          pool' = [p \in Pools |-> IF p = to THEN pool[p] + n ELSE pool[p] - n]
    <3>1. PoolOf([status |-> status]) \in Pools
      BY DEF PoolOf, Pools
    <3>2. v \in DOMAIN vals /\ vals[v].tokens \in Int
      BY <1>0, ValidatorFacts DEF ChangeStatus
    <3> DEFINE n == IF PoolOf(vals[v]) = PoolOf([status |-> status]) THEN 0 ELSE vals[v].tokens
    <3>3. n \in Int
      BY <3>2
    <3>4. pool' = [p \in Pools |-> IF p = PoolOf([status |-> status]) THEN pool[p] + n ELSE pool[p] - n]
      BY DEF ChangeStatus
    <3> HIDE DEF n
    <3> QED BY <3>1, <3>3, <3>4
  <2>2. /\ pool["bonded"] \in Nat /\ pool["notBonded"] \in Nat
        /\ pool'["bonded"] + pool'["notBonded"] = pool["bonded"] + pool["notBonded"]
    BY <1>0, <2>1 DEF Pools
  <2> HIDE DEF db, dn
  <2> QED BY <1>6, <2>2
<1> HIDE DEF db, dn
<1>10. supply' = supply + (0 + 0 + db + dn)
  BY <1>0, <1>3, <1>6, <1>9
<1> QED BY <1>1, <1>2, <1>5, <1>6, <1>8, <1>10, BooksStep

(* Unbonded tokens become spendable. *)
LEMMA CompleteBooks ==
  ASSUME FiniteChain, TypeOK, StakingInv, NEW a \in Accounts, CompleteUnbonding(a)
  PROVE  StakingInv'
<1> DEFINE u == unbonding[a]
           n == liquid[a] + u
<1>0. BaseInv /\ IsStore(vals) /\ supply \in Nat /\ pool \in [Pools -> Nat]
      /\ liquid \in [Accounts -> Nat] /\ unbonding \in [Accounts -> Nat]
      /\ dels \in [Accounts \X Validators -> Nat] /\ SharesAdd /\ Backed(vals)
  BY DEF BaseInv, StakingInv, StakingTypeOK, IsStore
<1>1. /\ liquid' = Upd(liquid, a, n) /\ unbonding' = Upd(unbonding, a, 0)
      /\ pool' = [pool EXCEPT !["notBonded"] = @ - u]
      /\ vals' = vals /\ dels' = dels /\ supply' = supply
  BY DEF CompleteUnbonding, Upd
<1>2. u \in Nat /\ n \in Nat /\ n - liquid[a] = u /\ 0 - unbonding[a] = 0 - u /\ 0 \in Nat
  BY <1>0
<1>3. /\ Upd(liquid, a, n) \in [Accounts -> Nat]
      /\ SumFunction(Upd(liquid, a, n)) = SumFunction(liquid) + (n - liquid[a])
  <2> HIDE DEF n
  <2> QED BY <1>0, <1>2, BalanceSet
<1>4. /\ Upd(unbonding, a, 0) \in [Accounts -> Nat]
      /\ SumFunction(Upd(unbonding, a, 0)) = SumFunction(unbonding) + (0 - unbonding[a])
  BY <1>0, <1>2, BalanceSet
<1>5. /\ liquid' \in [Accounts -> Nat] /\ SumFunction(liquid') = SumFunction(liquid) + u
      /\ unbonding' \in [Accounts -> Nat] /\ SumFunction(unbonding') = SumFunction(unbonding) + (0 - u)
  BY <1>1, <1>2, <1>3, <1>4
<1> HIDE DEF u, n
<1>6. /\ pool' \in [Pools -> Int] /\ pool'["bonded"] = pool["bonded"] + 0
      /\ pool'["notBonded"] = pool["notBonded"] + (0 + (0 - u))
  BY <1>0, <1>1, <1>2 DEF Pools
<1>7. /\ HeldSum(vals', "bonded") = HeldSum(vals, "bonded") + 0
      /\ HeldSum(vals', "notBonded") = HeldSum(vals, "notBonded") + 0
  BY <1>0, <1>1, HeldFacts
<1>8. supply' = supply + (u + (0 - u) + 0 + 0) /\ u \in Int /\ 0 - u \in Int
  BY <1>0, <1>1, <1>2
<1>9. SharesAdd' /\ Backed(vals') /\ IsStore(vals') /\ dels' \in [Accounts \X Validators -> Nat]
  BY <1>0, <1>1 DEF SharesAdd
<1> QED BY <1>5, <1>6, <1>7, <1>8, <1>9, BooksStep

(* Tokens that are minted and stay with the contract. *)
LEMMA MintBooks ==
  ASSUME FiniteChain, TypeOK, StakingInv, NEW a \in Accounts, NEW amt \in Amounts,
         liquid' = [liquid EXCEPT ![a] = @ + amt], supply' = supply + amt,
         UNCHANGED <<vals, dels, unbonding, pool>>
  PROVE  StakingInv'
<1> DEFINE n == liquid[a] + amt
<1>0. IsStore(vals) /\ supply \in Nat /\ pool \in [Pools -> Nat] /\ amt \in Nat
      /\ liquid \in [Accounts -> Nat] /\ unbonding \in [Accounts -> Nat]
      /\ dels \in [Accounts \X Validators -> Nat] /\ SharesAdd /\ Backed(vals)
  BY AmountsAssumption DEF StakingInv, StakingTypeOK, IsStore
<1>1. n \in Nat /\ n - liquid[a] = amt /\ liquid' = Upd(liquid, a, n)
  BY <1>0 DEF Upd
<1>2. /\ Upd(liquid, a, n) \in [Accounts -> Nat]
      /\ SumFunction(Upd(liquid, a, n)) = SumFunction(liquid) + (n - liquid[a])
  <2> HIDE DEF n
  <2> QED BY <1>0, <1>1, BalanceSet
<1>3. liquid' \in [Accounts -> Nat] /\ SumFunction(liquid') = SumFunction(liquid) + amt
  BY <1>1, <1>2
<1>4. SumFunction(unbonding') = SumFunction(unbonding) + 0 /\ unbonding' \in [Accounts -> Nat]
  BY <1>0, SumType DEF FiniteChain
<1>5. /\ pool' \in [Pools -> Int] /\ pool'["bonded"] = pool["bonded"] + 0
      /\ pool'["notBonded"] = pool["notBonded"] + (0 + 0)
  BY <1>0 DEF Pools
<1>6. /\ HeldSum(vals', "bonded") = HeldSum(vals, "bonded") + 0
      /\ HeldSum(vals', "notBonded") = HeldSum(vals, "notBonded") + 0
  BY <1>0, HeldFacts
<1>7. supply' = supply + (amt + 0 + 0 + 0) /\ amt \in Int
  BY <1>0
<1>8. SharesAdd' /\ Backed(vals') /\ IsStore(vals') /\ dels' \in [Accounts \X Validators -> Nat]
  BY <1>0 DEF SharesAdd
<1> HIDE DEF n
<1> QED BY ONLY FiniteChain, StakingInv, <1>3, <1>4, <1>5, <1>6, <1>7, <1>8, BooksStep

-----------------------------------------------------------------------------
(* The accounts of virtual stake *)

AccountTypes ==
  /\ DOMAIN maxCap \subseteq Contracts /\ maxCap \in [DOMAIN maxCap -> Nat]
  /\ delegated \in [Contracts -> Nat]
  /\ offset \in Int
  /\ slashed \in Nat

AccountInv == AccountTypes /\ LimitFirst /\ OffsetIsVirtual /\ SupplyNeutral

(* The two halves of the invariant. *)
LEMMA StakeInvParts == ASSUME FiniteChain PROVE StakeInv <=> StakingInv /\ AccountInv
<1>1. TypeOK <=> StakingTypeOK /\ AccountTypes
  BY DEF TypeOK, AccountTypes
<1>2. StakingTypeOK => IsStore(vals)
  BY DEF StakingTypeOK, IsStore
<1>3. StakingTypeOK => (PoolsMatch <=> Books)
  BY <1>2, BooksMatch
<1> QED BY <1>1, <1>3 DEF StakeInv, StakingInv, AccountInv

(* The same after a step. *)
LEMMA StakeInvPartsNext == FiniteChain => (StakeInv <=> StakingInv /\ AccountInv)'
<1>1. FiniteChain => (StakeInv <=> StakingInv /\ AccountInv)
  BY StakeInvParts
<1>2. FiniteChain => FiniteChain'
  BY DEF FiniteChain
<1> QED BY <1>1, <1>2, PTL

(* Contracts are accounts. *)
LEMMA FiniteContracts == FiniteChain => IsFiniteSet(Contracts) /\ \A c \in Contracts : c \in Accounts
BY ContractsAssumption, FS_Subset DEF FiniteChain

(* The supply at the start. *)
LEMMA InitialSupplyType == FiniteChain => InitialSupply \in Nat
<1> SUFFICES ASSUME FiniteChain PROVE InitialSupply \in Nat
  OBVIOUS
<1>1. SumFunction(Funds) \in Nat
  BY SumType, FundsAssumption DEF FiniteChain
<1>2. Cardinality(Validators) \in Nat /\ Stake \in Nat
  BY FS_CardinalityType, FundsAssumption DEF FiniteChain
<1>3. Stake * Cardinality(Validators) \in Nat
  BY <1>2, ProductType
<1> QED BY <1>1, <1>3 DEF InitialSupply

(* The sum of the total delegated amounts after one change. *)
LEMMA VirtualSum ==
  ASSUME FiniteChain, delegated \in [Contracts -> Nat], NEW c \in Contracts, NEW n \in Nat
  PROVE  /\ SumFunction(delegated) \in Nat
         /\ Upd(delegated, c, n) \in [Contracts -> Nat]
         /\ SumFunction(Upd(delegated, c, n)) = SumFunction(delegated) + (n - delegated[c])
<1>1. IsFiniteSet(Contracts)
  BY FiniteContracts
<1>2. SumFunction(delegated) \in Nat
  BY ONLY <1>1, delegated \in [Contracts -> Nat], SumType
<1>3. /\ Upd(delegated, c, n) \in [Contracts -> Nat]
      /\ SumFunction(Upd(delegated, c, n)) = SumFunction(delegated) + (n - delegated[c])
  BY ONLY <1>1, delegated \in [Contracts -> Nat], c \in Contracts, n \in Nat, SumExcept
<1> QED BY <1>2, <1>3

(* What is minted is booked and offset; what is burned is booked back. *)
LEMMA AccountStep ==
  ASSUME FiniteChain, StakingInv, AccountInv, NEW c \in Contracts, NEW n \in Nat,
         delegated' = Upd(delegated, c, n),
         supply' = supply + (n - delegated[c]),
         offset' = IF SupportsOffset THEN offset - (n - delegated[c]) ELSE offset,
         n > 0 => HasMaxCapLimit(maxCap, c),
         maxCap' = maxCap, slashed' = slashed
  PROVE  AccountInv'
<1> DEFINE D == SumFunction(delegated)
           x == n - delegated[c]
<1>1. delegated \in [Contracts -> Nat] /\ offset \in Int /\ slashed \in Nat /\ supply \in Nat
  BY DEF AccountInv, AccountTypes, StakingInv, StakingTypeOK
<1>2. D \in Nat /\ delegated' \in [Contracts -> Nat] /\ SumFunction(delegated') = D + x
  BY <1>1, VirtualSum
<1>3. x \in Int /\ InitialSupply \in Nat
  BY <1>1, InitialSupplyType
<1>4. supply - D = InitialSupply - slashed
  BY DEF AccountInv, SupplyNeutral
<1>5. offset = IF SupportsOffset THEN -D ELSE 0
  BY DEF AccountInv, OffsetIsVirtual
<1>6. LimitFirst'
  <2>1. \A k \in Contracts : delegated'[k] = IF k = c THEN n ELSE delegated[k]
    BY <1>1 DEF Upd
  <2> QED BY <2>1 DEF AccountInv, LimitFirst
<1> HIDE DEF D, x
<1>7. supply' - SumFunction(delegated') = InitialSupply - slashed'
  <2>1. supply' = supply + x
    BY DEF x
  <2> QED BY <1>1, <1>2, <1>3, <1>4, <2>1
<1>8. offset' = IF SupportsOffset THEN -SumFunction(delegated') ELSE 0
  <2>1. offset' = IF SupportsOffset THEN offset - x ELSE offset
    BY DEF x
  <2>2. CASE SupportsOffset
    BY <1>2, <1>3, <1>5, <2>1, <2>2
  <2>3. CASE ~SupportsOffset
    BY <1>5, <2>1, <2>3
  <2> QED BY <2>2, <2>3
<1>9. offset' \in Int
  BY <1>1, <1>3 DEF x
<1>10. AccountTypes'
  BY <1>1, <1>2, <1>9 DEF AccountInv, AccountTypes
<1> QED BY <1>6, <1>7, <1>8, <1>10 DEF AccountInv, OffsetIsVirtual, SupplyNeutral

(* A limit is set. *)
LEMMA SetCapAccounts ==
  ASSUME AccountInv, NEW c \in Contracts, NEW amt \in Caps, SetCap(c, amt)
  PROVE  AccountInv'
<1>1. maxCap' = [x \in DOMAIN maxCap \cup {c} |-> IF x = c THEN amt ELSE maxCap[x]]
  BY DEF SetCap, SetMaxCapLimit
<1>2. UNCHANGED <<delegated, offset, slashed, supply>> /\ amt \in Nat
  BY CapAmountAssumption DEF SetCap, stakingVars
<1>3. AccountTypes'
  BY <1>1, <1>2 DEF AccountInv, AccountTypes
<1>4. LimitFirst'
  BY <1>1, <1>2 DEF AccountInv, LimitFirst, HasMaxCapLimit
<1> QED BY <1>2, <1>3, <1>4 DEF AccountInv, OffsetIsVirtual, SupplyNeutral

(* The books of virtual stake do not notice other steps. *)
LEMMA OtherAccounts ==
  ASSUME AccountInv, UNCHANGED <<maxCap, delegated, offset, slashed, supply>>
  PROVE  AccountInv'
BY DEF AccountInv, AccountTypes, LimitFirst, OffsetIsVirtual, SupplyNeutral

(* A slash is booked as such. *)
LEMMA SlashAccounts ==
  ASSUME FiniteChain, StakingInv, AccountInv, NEW v \in Validators, NEW amt \in Amounts,
         StakingSlashes(v, amt)
  PROVE  AccountInv'
<1>1. /\ supply' = supply - amt /\ slashed' = slashed + amt
      /\ UNCHANGED <<maxCap, delegated, offset>>
  BY DEF StakingSlashes, Slash
<1>2. amt \in Nat /\ slashed \in Nat /\ supply \in Nat /\ InitialSupply \in Nat
  BY AmountsAssumption, InitialSupplyType DEF AccountInv, AccountTypes, StakingInv, StakingTypeOK
<1>3. SumFunction(delegated) \in Nat
  <2>1. IsFiniteSet(Contracts) /\ delegated \in [Contracts -> Nat]
    BY FiniteContracts DEF AccountInv, AccountTypes
  <2> QED BY ONLY <2>1, SumType
<1>4. SupplyNeutral'
  <2>1. supply - SumFunction(delegated) = InitialSupply - slashed
    BY DEF AccountInv, SupplyNeutral
  <2>2. supply' - SumFunction(delegated) = InitialSupply - slashed'
    BY <1>1, <1>2, <1>3, <2>1
  <2> QED BY <1>1, <2>2 DEF SupplyNeutral
<1> QED BY <1>1, <1>2, <1>4 DEF AccountInv, AccountTypes, LimitFirst, OffsetIsVirtual

-----------------------------------------------------------------------------
(* Every step of the specification *)

(* A virtual delegation: minted and booked, whether staking accepts it or, *)
(* for a direct caller, refuses it.                                        *)
LEMMA BondInv ==
  ASSUME FiniteChain, StakingInv, AccountInv, TypeOK, NEW c \in Contracts, NEW v \in Validators,
         NEW amt \in Amounts, Delegate(c, v, amt) \/ DelegateFails(c, v, amt)
  PROVE  /\ StakingInv' /\ AccountInv'
         /\ delegated' = Upd(delegated, c, delegated[c] + amt)
         /\ supply' = supply + amt /\ delegated[c] + amt <= GetMaxCapLimit(maxCap, c)
<1> DEFINE n == delegated[c] + amt
<1>0. c \in Accounts /\ amt \in Nat \ {0} /\ delegated \in [Contracts -> Nat] /\ delegated[c] \in Nat
      /\ offset \in Int
  BY FiniteContracts, AmountsAssumption DEF AccountInv, AccountTypes
<1>1. /\ delegated' = Upd(delegated, c, n) /\ supply' = supply + amt
      /\ n <= GetMaxCapLimit(maxCap, c) /\ maxCap' = maxCap /\ slashed' = slashed
      /\ offset' = IF SupportsOffset THEN offset + (-amt) ELSE offset
  BY DEF Delegate, DelegateFails, WithinMaxCap, AddSupplyOffset, Upd
<1>2. StakingInv'
  <2>1. CASE Delegate(c, v, amt)
    <3>1. CanDelegate(v) /\ DelegateTo(c, v, amt) /\ unbonding' = unbonding /\ liquid' = liquid
      BY <2>1 DEF Delegate
    <3> QED BY <1>0, <1>1, <3>1, DelegateBooks
  <2>2. CASE DelegateFails(c, v, amt)
    <3>1. liquid' = [liquid EXCEPT ![c] = @ + amt] /\ UNCHANGED <<vals, dels, unbonding, pool>>
      BY <2>2 DEF DelegateFails
    <3> QED BY <1>0, <1>1, <3>1, MintBooks
  <2> QED BY <2>1, <2>2
<1>3. n \in Nat /\ n > 0 /\ n - delegated[c] = amt
  BY <1>0
<1>4. offset' = IF SupportsOffset THEN offset - (n - delegated[c]) ELSE offset
  BY <1>0, <1>1, <1>3
<1>5. HasMaxCapLimit(maxCap, c)
  BY <1>1, <1>3 DEF GetMaxCapLimit
<1>6. supply' = supply + (n - delegated[c])
  BY <1>1, <1>3
<1>7. AccountInv'
  <2> HIDE DEF n
  <2> QED BY <1>1, <1>3, <1>4, <1>5, <1>6, AccountStep
<1> QED BY <1>1, <1>2, <1>7

(* An instant undelegation: never more than was asked for, so never more   *)
(* than is on the account.                                                 *)
LEMMA UnbondInv ==
  ASSUME FiniteChain, StakingInv, AccountInv, TypeOK, NEW c \in Contracts, NEW v \in Validators,
         NEW amt \in Amounts, Undelegate(c, v, amt)
  PROVE  /\ StakingInv' /\ AccountInv'
         /\ \E r \in 0 .. delegated[c] :
              delegated' = Upd(delegated, c, delegated[c] - r) /\ supply' = supply - r
<1> DEFINE shares == SharesFromTokens(vals[v], amt)
           r      == RemovedTokens(vals[v], shares)
           n      == delegated[c] - r
<1>0. c \in Accounts /\ amt \in Nat \ {0} /\ delegated \in [Contracts -> Nat] /\ delegated[c] \in Nat
      /\ offset \in Int /\ supply \in Nat
  BY FiniteContracts, AmountsAssumption DEF AccountInv, AccountTypes, StakingInv, StakingTypeOK
<1>1. /\ delegated[c] >= amt /\ ValidUnbondAmount(c, v, amt) /\ UnbondFrom(c, v, shares)
      /\ pool' = [pool EXCEPT ![PoolOf(vals[v])] = @ - r]
      /\ supply' = supply - r /\ delegated' = Upd(delegated, c, n)
      /\ offset' = IF SupportsOffset THEN offset + r ELSE offset
      /\ UNCHANGED <<liquid, unbonding, maxCap, slashed>>
  BY DEF Undelegate, CanUndelegate, InstantUndelegate, BurnUnbonded, AddSupplyOffset, Upd
<1>2. StakingInv' /\ r \in Nat /\ r <= amt
  <2>1. shares = SharesFromTokens(vals[v], amt) /\ r = RemovedTokens(vals[v], shares)
    OBVIOUS
  <2> HIDE DEF shares, r
  <2> QED BY <1>0, <1>1, <2>1, UndelegateBooks
<1> HIDE DEF shares, r
<1>3. n \in Nat /\ n - delegated[c] = 0 - r /\ r \in 0 .. delegated[c]
  BY <1>0, <1>1, <1>2
<1>4. supply' = supply + (n - delegated[c])
  BY <1>0, <1>1, <1>2, <1>3
<1>5. offset' = IF SupportsOffset THEN offset - (n - delegated[c]) ELSE offset
  BY <1>0, <1>1, <1>2, <1>3
<1>6. n > 0 => HasMaxCapLimit(maxCap, c)
  <2>1. delegated[c] > 0
    BY <1>0, <1>1
  <2> QED BY <2>1 DEF AccountInv, LimitFirst
<1>7. AccountInv'
  <2> HIDE DEF n
  <2> QED BY <1>1, <1>3, <1>4, <1>5, <1>6, AccountStep
<1>8. delegated' = Upd(delegated, c, delegated[c] - r) /\ supply' = supply - r
  BY <1>1
<1> QED BY <1>2, <1>3, <1>7, <1>8

(* Every step keeps the invariant. *)
LEMMA NextStakeInv == ASSUME FiniteChain, StakeInv, [Next]_vars PROVE StakeInv'
<1>0. StakingInv /\ AccountInv /\ TypeOK
  BY StakeInvParts DEF StakeInv
<1> SUFFICES StakingInv' /\ AccountInv'
  BY StakeInvPartsNext
<1>1. ASSUME NEW c \in Contracts, NEW amt \in Caps, SetCap(c, amt)
      PROVE  StakingInv' /\ AccountInv'
  <2>1. UNCHANGED <<vals, dels, liquid, unbonding, pool, supply>>
    BY <1>1 DEF SetCap, stakingVars
  <2>2. StakingInv'
    BY <1>0, <2>1 DEF StakingInv, StakingTypeOK, SharesAdd, Books
  <2> QED BY <1>0, <1>1, <2>2, SetCapAccounts
<1>2. ASSUME NEW c \in Contracts, NEW v \in Validators, NEW amt \in Amounts,
             handleBondMsg(c, v, amt) \/ handleUnbondMsg(c, v, amt)
      PROVE  StakingInv' /\ AccountInv'
  <2>1. Delegate(c, v, amt) \/ DelegateFails(c, v, amt) \/ Undelegate(c, v, amt)
    BY <1>2 DEF handleBondMsg, handleUnbondMsg
  <2> QED BY <1>0, <2>1, BondInv, UnbondInv
<1>3. ASSUME NEW a \in Accounts, NEW v \in Validators, NEW amt \in Amounts, DelegateMsg(a, v, amt)
      PROVE  StakingInv' /\ AccountInv'
  <2>1. /\ CanDelegate(v) /\ DelegateTo(a, v, amt) /\ liquid[a] >= amt
        /\ liquid' = [liquid EXCEPT ![a] = @ - amt]
        /\ UNCHANGED <<unbonding, supply, maxCap, delegated, offset, slashed>>
    BY <1>3 DEF DelegateMsg, StakingDelegate
  <2> QED BY <1>0, <2>1, DelegateBooks, OtherAccounts
<1>4. ASSUME NEW a \in Accounts, NEW v \in Validators, NEW amt \in Amounts, UndelegateMsg(a, v, amt)
      PROVE  StakingInv' /\ AccountInv'
  <2> DEFINE shares == SharesFromTokens(vals[v], amt)
             r      == RemovedTokens(vals[v], shares)
  <2>1. /\ ValidUnbondAmount(a, v, amt) /\ UnbondFrom(a, v, shares)
        /\ unbonding' = [unbonding EXCEPT ![a] = @ + r]
        /\ pool' = [p \in Pools |-> pool[p] - (IF p = PoolOf(vals[v]) THEN r ELSE 0)
                                            + (IF p = "notBonded" THEN r ELSE 0)]
        /\ UNCHANGED <<liquid, supply, maxCap, delegated, offset, slashed>>
    BY <1>4 DEF UndelegateMsg, StakingUndelegate
  <2>2. shares = SharesFromTokens(vals[v], amt) /\ r = RemovedTokens(vals[v], shares)
    OBVIOUS
  <2> HIDE DEF shares, r
  <2>3. StakingInv'
    BY <1>0, <2>1, <2>2, UndelegateBooks
  <2> QED BY <1>0, <2>1, <2>3, OtherAccounts
<1>5. ASSUME NEW a \in Accounts, StakingCompletes(a) PROVE StakingInv' /\ AccountInv'
  <2>1. CompleteUnbonding(a) /\ UNCHANGED <<maxCap, delegated, offset, slashed, supply>>
    BY <1>5 DEF StakingCompletes, CompleteUnbonding
  <2> QED BY <1>0, <2>1, CompleteBooks, OtherAccounts
<1>6. ASSUME NEW v \in Validators, NEW amt \in Amounts, StakingSlashes(v, amt)
      PROVE  StakingInv' /\ AccountInv'
  BY <1>0, <1>6, SlashBooks, SlashAccounts DEF StakingSlashes
<1>7. ASSUME NEW v \in Validators, NEW status \in Status, StakingRanks(v, status)
      PROVE  StakingInv' /\ AccountInv'
  <2>1. ChangeStatus(v, status) /\ UNCHANGED <<maxCap, delegated, offset, slashed, supply>>
    BY <1>7 DEF StakingRanks, ChangeStatus
  <2> QED BY <1>0, <2>1, RankBooks, OtherAccounts
<1>8. ASSUME UNCHANGED vars PROVE StakingInv' /\ AccountInv'
  <2>1. UNCHANGED <<vals, dels, liquid, unbonding, pool, supply, maxCap, delegated, offset, slashed>>
    BY <1>8 DEF vars, stakingVars
  <2>2. StakingInv'
    BY <1>0, <2>1 DEF StakingInv, StakingTypeOK, SharesAdd, Books
  <2> QED BY <1>0, <2>1, <2>2, OtherAccounts
<1> QED BY <1>1, <1>2, <1>3, <1>4, <1>5, <1>6, <1>7, <1>8 DEF Next

-----------------------------------------------------------------------------
(* The initial state *)

(* All shares of a validator are the founder's. *)
LEMMA InitShares == ASSUME FiniteChain, Init PROVE SharesAdd
<1> DEFINE n == Stake * Precision
<1>1. n \in Nat
  BY FundsAssumption, PrecisionAssumption, ProductType
<1>2. dels = [d \in Accounts \X Validators |-> IF d[1] = Founder THEN n ELSE 0]
  BY DEF Init
<1>3. vals = [v \in Validators |-> [status |-> "bonded", tokens |-> Stake, shares |-> n]]
  BY DEF Init
<1> HIDE DEF n
<1>4. ASSUME NEW v \in Validators PROVE SharesAddAt(v, vals, dels)
  <2> DEFINE d == <<Founder, v>>
             R == {d}
  <2>1. dels \in [Accounts \X Validators -> Nat]
    BY <1>1, <1>2
  <2>2. IsFiniteSet(AtVal(v))
    BY <2>1, AccountShares DEF FiniteChain
  <2>3. R \subseteq AtVal(v) /\ dels[d] = n
    BY <1>2, ContractsAssumption DEF AtVal
  <2>4. \A x \in AtVal(v) : dels[x] \in Int
    BY <2>1 DEF AtVal
  <2>5. \A x \in AtVal(v) \ R : dels[x] = 0
    BY <1>2 DEF AtVal
  <2> HIDE DEF d
  <2>6. SumFunctionOnSet(dels, AtVal(v)) = SumFunctionOnSet(dels, R)
    BY <2>2, <2>3, <2>4, <2>5, SumOfNonzero
  <2>7. SumFunctionOnSet(dels, R) = dels[d] + SumFunctionOnSet(dels, R \ {d})
    <3>1. IsFiniteSet(R) /\ d \in R /\ \A x \in R : dels[x] \in Int
      BY <2>3, <2>4, FS_Singleton
    <3> QED BY <3>1, SumFacts
  <2>8. SumFunctionOnSet(dels, R \ {d}) = 0
    BY SumEmpty
  <2>9. SumFunctionOnSet(dels, AtVal(v)) = n
    BY <1>1, <2>3, <2>6, <2>7, <2>8
  <2> QED BY <1>3, <2>9 DEF SharesAddAt
<1> QED BY <1>4 DEF SharesAdd

(* The bonded pool holds the founder's stake, the other one nothing. *)
LEMMA InitBooks == ASSUME FiniteChain, Init PROVE StakingTypeOK /\ Books /\ Backed(vals)
<1> DEFINE n == Stake * Precision
           k == Stake * Cardinality(Validators)
<1>1. Stake \in Nat \ {0} /\ n \in Nat \ {0}
  BY FundsAssumption, PrecisionAssumption
<1>2. k \in Nat /\ InitialSupply = SumFunction(Funds) + k /\ SumFunction(Funds) \in Nat
  <2>1. Cardinality(Validators) \in Nat
    BY FS_CardinalityType DEF FiniteChain
  <2>2. SumFunction(Funds) \in Nat
    BY SumType, FundsAssumption DEF FiniteChain
  <2> QED BY <1>1, <2>1, <2>2, ProductType DEF InitialSupply
<1>3. /\ vals = [v \in Validators |-> [status |-> "bonded", tokens |-> Stake, shares |-> n]]
      /\ dels = [d \in Accounts \X Validators |-> IF d[1] = Founder THEN n ELSE 0]
      /\ liquid = Funds
      /\ unbonding = [a \in Accounts |-> 0]
      /\ pool = [p \in Pools |-> IF p = "bonded" THEN k ELSE 0]
      /\ supply = SumFunction(Funds) + k
  BY <1>2 DEF Init
<1>4. HeldSum(vals, "bonded") = k
  <2>1. \A v \in Validators : Held(vals, "bonded")[v] = Stake
    BY <1>3 DEF Held, PoolOf
  <2> QED BY <1>1, <2>1, SumConstant DEF HeldSum, FiniteChain
<1> HIDE DEF n, k
<1>5. HeldSum(vals, "notBonded") = 0
  <2>1. \A v \in Validators : Held(vals, "notBonded")[v] \in Int /\ Held(vals, "notBonded")[v] = 0
    BY <1>3 DEF Held, PoolOf
  <2> QED BY <2>1, SumAllZero DEF HeldSum, FiniteChain
<1>6. SumFunction(unbonding) = 0
  <2>1. DOMAIN unbonding = Accounts /\ \A a \in Accounts : unbonding[a] \in Int /\ unbonding[a] = 0
    BY <1>3
  <2> QED BY <2>1, SumAllZero DEF SumFunction, FiniteChain
<1>7. pool["bonded"] = k /\ pool["notBonded"] = 0 /\ pool \in [Pools -> Nat]
  BY <1>2, <1>3 DEF Pools
<1>8. Books
  BY <1>2, <1>3, <1>4, <1>5, <1>6, <1>7 DEF Books
<1>9. Backed(vals)
  BY <1>1, <1>3 DEF Backed
<1>10. StakingTypeOK
  <2>1. DOMAIN vals = Validators /\ vals \in [Validators -> Validator]
    BY <1>1, <1>3 DEF Validator, Status
  <2>2. dels \in [Accounts \X Validators -> Nat] /\ unbonding \in [Accounts -> Nat]
    BY <1>1, <1>3
  <2>3. liquid \in [Accounts -> Nat] /\ supply \in Nat
    BY <1>2, <1>3, FundsAssumption
  <2> QED BY <1>7, <2>1, <2>2, <2>3 DEF StakingTypeOK
<1> QED BY <1>8, <1>9, <1>10

(* The initial state has no virtual stake. *)
LEMMA InitStakeInv == ASSUME FiniteChain, Init PROVE StakeInv
<1>1. StakingInv
  BY InitShares, InitBooks DEF StakingInv
<1>2. /\ maxCap = [c \in {} |-> 0] /\ delegated = [c \in Contracts |-> 0]
      /\ offset = 0 /\ slashed = 0 /\ supply = InitialSupply
  BY DEF Init
<1>3. SumFunction(delegated) = 0
  <2>1. DOMAIN delegated = Contracts /\ \A c \in Contracts : delegated[c] \in Int /\ delegated[c] = 0
    BY <1>2
  <2> QED BY <2>1, FiniteContracts, SumAllZero DEF SumFunction
<1>4. AccountTypes
  BY <1>2 DEF AccountTypes
<1>5. LimitFirst
  BY <1>2 DEF LimitFirst
<1>6. OffsetIsVirtual
  <2> DEFINE D == SumFunction(delegated)
  <2>1. \A x \in Int : x <= 0 /\ x >= 0 => -x = 0
    OBVIOUS
  <2>2. D \in Int /\ D <= 0 /\ D >= 0
    BY <1>3
  <2> HIDE DEF D
  <2>3. -D = 0
    BY <2>1, <2>2
  <2> QED BY <1>2, <2>3 DEF OffsetIsVirtual, D
<1>7. SupplyNeutral
  BY <1>2, <1>3, InitialSupplyType DEF SupplyNeutral
<1> QED BY <1>1, <1>4, <1>5, <1>6, <1>7, StakeInvParts DEF AccountInv

-----------------------------------------------------------------------------
(* The theorems *)

(* The invariant of virtual staking. *)
LEMMA StakeInvariance == ASSUME FiniteChain PROVE Spec => []StakeInv
<1>1. Init => StakeInv
  BY InitStakeInv
<1>2. StakeInv /\ [Next]_vars => StakeInv'
  BY NextStakeInv
<1> QED BY <1>1, <1>2, PTL DEF Spec

(* Type correctness: no balance, no pool, no total delegated amount, no    *)
(* share and no token count ever goes below zero, although Undelegate,     *)
(* InstantUndelegate and Slash subtract without a check of their own.      *)
THEOREM VirtualTypeCorrect == ASSUME FiniteChain PROVE Spec => []TypeOK
<1>1. StakeInv => TypeOK
  BY DEF StakeInv
<1> QED BY <1>1, StakeInvariance, PTL

(* Minting and bonding, instant undelegation and burning, messages,        *)
(* slashing and changes of the active set leave no token behind, and each  *)
(* pool holds exactly what its validators and unbonding entries need.      *)
THEOREM PoolsAlwaysMatch == ASSUME FiniteChain PROVE Spec => []PoolsMatch
<1>1. StakeInv => PoolsMatch
  BY DEF StakeInv
<1> QED BY <1>1, StakeInvariance, PTL

(* The supply offset that keeper.Delegate and Undelegate move is minus the *)
(* sum of the total delegated amounts, however shares are rounded.         *)
THEOREM OffsetFollowsDelegated == ASSUME FiniteChain PROVE Spec => []OffsetIsVirtual
<1>1. StakeInv => OffsetIsVirtual
  BY DEF StakeInv
<1> QED BY <1>1, StakeInvariance, PTL

(* Without its virtual stake, the supply changes by slashing alone.        *)
THEOREM SupplyStaysNeutral == ASSUME FiniteChain PROVE Spec => []SupplyNeutral
<1>1. StakeInv => SupplyNeutral
  BY DEF StakeInv
<1> QED BY <1>1, StakeInvariance, PTL

(* The shares that stand for what a delegation is worth, or for less, are  *)
(* no more than the delegation has.                                        *)
LEMMA WorthIsCovered ==
  ASSUME NEW S \in Nat \ {0}, NEW T \in Nat \ {0}, NEW d \in Nat, NEW amt \in Nat,
         amt <= (d * T) \div S
  PROVE  (S * amt) \div T <= d
<1> DEFINE q == (d * T) \div S
<1>1. d * T \in Nat /\ S * amt \in Nat
  BY ProductType
<1>2. q \in Nat /\ (d * T) % S \in 0 .. S - 1 /\ d * T = q * S + ((d * T) % S)
  BY <1>1, Division
<1>3. q * S <= d * T
  <2>1. q * S \in Nat
    BY <1>2, ProductType
  <2> HIDE DEF q
  <2> QED BY <1>1, <1>2, <2>1
<1>4. amt * S <= q * S
  BY <1>2, ProductMonotonic
<1>5. S * amt = amt * S
  OBVIOUS
<1>6. q * S \in Nat /\ amt * S \in Nat
  BY <1>2, ProductType
<1> HIDE DEF q
<1>7. S * amt <= d * T
  BY <1>1, <1>3, <1>4, <1>5, <1>6
<1> QED BY <1>1, <1>7, DivisionBound

(* Virtual stake can always leave: whatever limits were set since, however *)
(* the validator was slashed and shares were rounded, keeper.Undelegate    *)
(* accepts all that the delegation of a contract is worth, up to what the  *)
(* contract has delegated.                                                 *)
THEOREM StakeCanAlwaysLeave == ASSUME FiniteChain PROVE Spec => []StakeCanLeave
<1>1. ASSUME StakeInv PROVE StakeCanLeave
  <2> SUFFICES ASSUME NEW c \in Contracts, NEW v \in DOMAIN vals, NEW amt,
                      amt = IF Worth(c, v) < delegated[c] THEN Worth(c, v) ELSE delegated[c],
                      amt > 0
               PROVE  IsAuthorized(c) /\ CanUndelegate(c, v, amt)
    BY DEF StakeCanLeave
  <2> DEFINE S == vals[v].shares
             T == vals[v].tokens
             d == dels[<<c, v>>]
  <2>1. BaseInv /\ delegated[c] \in Nat /\ c \in Accounts
    BY <1>1, FiniteContracts DEF StakeInv, BaseInv, TypeOK
  <2>2. S \in Nat /\ T \in Nat /\ d \in Nat /\ d <= S
    BY <2>1, ValidatorFacts
  <2>3. d # 0
    BY <2>1 DEF Worth
  <2>4. S \in Nat \ {0} /\ d > 0 /\ Worth(c, v) = (d * T) \div S
    BY <2>2, <2>3 DEF Worth
  <2> HIDE DEF S, T, d
  <2>5. (d * T) \div S \in Nat
    BY <2>2, <2>4, Division, ProductType
  <2>6. amt \in Nat /\ amt <= delegated[c] /\ amt <= (d * T) \div S
    BY <2>1, <2>4, <2>5
  <2>7. T # 0
    <3> SUFFICES ASSUME T = 0 PROVE FALSE
      OBVIOUS
    <3>1. d * T = 0
      BY <2>2
    <3>2. 0 <= 0 * S
      BY <2>2
    <3>3. 0 \div S <= 0
      BY <2>4, <3>2, DivisionBound
    <3> QED BY <2>5, <2>6, <3>1, <3>3
  <2>8. (S * amt) \div T <= d
    BY <2>2, <2>4, <2>6, <2>7, WorthIsCovered
  <2>9. IsAuthorized(c)
    BY <1>1, <2>1, <2>6 DEF StakeInv, LimitFirst, IsAuthorized
  <2>10. ValidUnbondAmount(c, v, amt)
    BY <2>2, <2>4, <2>7, <2>8 DEF ValidUnbondAmount, SharesFromTokens, S, T, d
  <2> QED BY <2>1, <2>6, <2>9, <2>10 DEF CanUndelegate
<1> QED BY <1>1, StakeInvariance, PTL

(* While a contract has a limit, no step adds to what it can spend now or  *)
(* after the unbonding time: messages cannot undelegate its virtual stake, *)
(* and the keeper burns what it undelegates.                               *)
THEOREM VirtualStaysIlliquid == ASSUME FiniteChain PROVE Spec => VirtualNeverLiquid
<1>1. ASSUME StakeInv, [Next]_vars, NEW c \in DOMAIN maxCap \ Direct
      PROVE  liquid'[c] + unbonding'[c] <= liquid[c] + unbonding[c]
  <2>0. /\ c \in Contracts /\ c \in Accounts /\ c \notin Direct
        /\ liquid \in [Accounts -> Nat] /\ unbonding \in [Accounts -> Nat]
        /\ liquid[c] \in Nat /\ unbonding[c] \in Nat
    BY <1>1, ContractsAssumption DEF StakeInv, TypeOK, StakingTypeOK
  <2>1. ASSUME liquid' = liquid, unbonding' = unbonding
        PROVE  liquid'[c] + unbonding'[c] <= liquid[c] + unbonding[c]
    BY <2>0, <2>1
  <2>2. ASSUME NEW x \in Contracts, NEW v \in Validators, NEW amt \in Amounts,
               handleBondMsg(x, v, amt) \/ handleUnbondMsg(x, v, amt)
        PROVE  liquid'[c] + unbonding'[c] <= liquid[c] + unbonding[c]
    <3>1. CASE Delegate(x, v, amt)
      BY <2>1, <3>1 DEF Delegate
    <3>2. CASE x \in Direct /\ DelegateFails(x, v, amt)
      <4>1. unbonding' = unbonding /\ liquid'[c] = liquid[c]
        BY <2>0, <3>2 DEF DelegateFails
      <4> QED BY <2>0, <4>1
    <3>3. CASE Undelegate(x, v, amt)
      BY <2>1, <3>3 DEF Undelegate, BurnUnbonded
    <3> QED BY <2>2, <3>1, <3>2, <3>3 DEF handleBondMsg, handleUnbondMsg
  <2>3. ASSUME NEW a \in Accounts, NEW v \in Validators, NEW amt \in Amounts,
               DelegateMsg(a, v, amt) \/ UndelegateMsg(a, v, amt)
        PROVE  liquid'[c] + unbonding'[c] <= liquid[c] + unbonding[c]
    <3>1. a # c
      BY <1>1, <2>0, <2>3 DEF DelegateMsg, UndelegateMsg, MayStake, IntegrityHandlerRejects, HasMaxCapLimit
    <3>2. liquid'[c] = liquid[c] /\ unbonding'[c] = unbonding[c]
      BY <2>0, <2>3, <3>1 DEF DelegateMsg, UndelegateMsg, StakingDelegate, StakingUndelegate
    <3> QED BY <2>0, <3>2
  <2>4. ASSUME NEW a \in Accounts, StakingCompletes(a)
        PROVE  liquid'[c] + unbonding'[c] <= liquid[c] + unbonding[c]
    <3>1. /\ liquid' = [liquid EXCEPT ![a] = @ + unbonding[a]]
          /\ unbonding' = [unbonding EXCEPT ![a] = 0]
      BY <2>4 DEF StakingCompletes, CompleteUnbonding
    <3>2. CASE a = c
      <4>1. liquid'[c] = liquid[c] + unbonding[c] /\ unbonding'[c] = 0
        BY <2>0, <3>1, <3>2
      <4> QED BY <2>0, <4>1
    <3>3. CASE a # c
      <4>1. liquid'[c] = liquid[c] /\ unbonding'[c] = unbonding[c]
        BY <2>0, <3>1, <3>3
      <4> QED BY <2>0, <4>1
    <3> QED BY <3>2, <3>3
  <2>5. ASSUME NEW x \in Contracts, NEW amt \in Caps, SetCap(x, amt)
        PROVE  liquid'[c] + unbonding'[c] <= liquid[c] + unbonding[c]
    BY <2>1, <2>5 DEF SetCap, stakingVars
  <2>6. ASSUME NEW v \in Validators, NEW amt \in Amounts, StakingSlashes(v, amt)
        PROVE  liquid'[c] + unbonding'[c] <= liquid[c] + unbonding[c]
    BY <2>1, <2>6 DEF StakingSlashes, Slash
  <2>7. ASSUME NEW v \in Validators, NEW status \in Status, StakingRanks(v, status)
        PROVE  liquid'[c] + unbonding'[c] <= liquid[c] + unbonding[c]
    BY <2>1, <2>7 DEF StakingRanks, ChangeStatus
  <2>8. ASSUME UNCHANGED vars PROVE liquid'[c] + unbonding'[c] <= liquid[c] + unbonding[c]
    BY <2>1, <2>8 DEF vars, stakingVars
  <2> QED BY <1>1, <2>2, <2>3, <2>4, <2>5, <2>6, <2>7, <2>8 DEF Next
<1>2. StakeInv /\ [Next]_vars =>
        [\A c \in DOMAIN maxCap \ Direct :
           liquid'[c] + unbonding'[c] <= liquid[c] + unbonding[c]]_vars
  BY <1>1
<1> QED BY <1>2, StakeInvariance, PTL DEF Spec, VirtualNeverLiquid

-----------------------------------------------------------------------------
(* Virtual staking implements the ledger *)

Limits(m) == [c \in Contracts |-> GetMaxCapLimit(m, c)]

(* The limits of all contracts, of which only those ever set count. *)
LEMMA LimitsSum ==
  ASSUME IsFiniteSet(Contracts), NEW m, DOMAIN m \subseteq Contracts, m \in [DOMAIN m -> Nat],
         NEW c \in Contracts, NEW amt \in Nat
  PROVE  /\ Limits(SetMaxCapLimit(m, c, amt)) = Upd(Limits(m), c, amt)
         /\ SumFunction(Limits(SetMaxCapLimit(m, c, amt))) = amt + UsedByOthers(m, c)
<1> DEFINE k == SetMaxCapLimit(m, c, amt)
           f == Limits(k)
           R == DOMAIN m \ {c}
           T == Contracts \ {c}
<1>1. /\ DOMAIN k = DOMAIN m \cup {c} /\ k[c] = amt
      /\ \A x \in DOMAIN m \ {c} : k[x] = m[x]
  BY DEF SetMaxCapLimit
<1> HIDE DEF k
<1>2. /\ DOMAIN f = Contracts /\ f[c] = amt
      /\ \A x \in Contracts \ {c} : f[x] = Limits(m)[x]
  BY <1>1 DEF Limits, GetMaxCapLimit, HasMaxCapLimit
<1>3. f = Upd(Limits(m), c, amt)
  BY <1>2 DEF Limits, Upd
<1>4. /\ \A x \in R : m[x] \in Int /\ m[x] = f[x]
      /\ \A x \in T \ R : f[x] = 0
  BY <1>2 DEF Limits, GetMaxCapLimit, HasMaxCapLimit
<1>5. \A x \in Contracts : f[x] \in Int
  BY <1>2 DEF Limits, GetMaxCapLimit, HasMaxCapLimit
<1> HIDE DEF f
<1>6. IsFiniteSet(T) /\ IsFiniteSet(R) /\ R \subseteq T
  BY FS_Subset
<1>7. SumFunctionOnSet(f, Contracts) = f[c] + SumFunctionOnSet(f, T)
  BY <1>5, SumFacts
<1>8. SumFunctionOnSet(f, T) = SumFunctionOnSet(f, R)
  <2>1. \A x \in T : f[x] \in Int
    BY <1>5
  <2> HIDE DEF T, R
  <2> QED BY <2>1, <1>4, <1>6, SumOfNonzero
<1>9. SumFunctionOnSet(m, R) = SumFunctionOnSet(f, R)
  BY <1>4, <1>6, SumSame
<1>10. SumFunction(f) = amt + SumFunctionOnSet(m, R)
  BY <1>2, <1>7, <1>8, <1>9 DEF SumFunction
<1> QED BY <1>3, <1>10 DEF f, k, UsedByOthers

(* A step of the ledger, or none. *)
LedgerStep == [Ledger!Next]_(Ledger!ledger)

(* Bonding, accepted or refused by staking. *)
LEMMA BondRefines ==
  ASSUME FiniteChain, StakeInv, NEW c \in Contracts, NEW v \in Validators, NEW amt \in Amounts,
         Delegate(c, v, amt) \/ DelegateFails(c, v, amt)
  PROVE  LedgerStep
<1>1. StakingInv /\ AccountInv /\ TypeOK
  BY StakeInvParts DEF StakeInv
<1>2. /\ delegated' = Upd(delegated, c, delegated[c] + amt) /\ supply' = supply + amt
      /\ delegated[c] + amt <= GetMaxCapLimit(maxCap, c)
  BY <1>1, BondInv
<1>3. amt \in Nat /\ supply \in Nat /\ delegated \in [Contracts -> Nat] /\ delegated[c] \in Nat
  BY <1>1, AmountsAssumption DEF TypeOK, StakingTypeOK
<1>4. supply' - SumFunction(delegated') = supply - SumFunction(delegated)
  <2> DEFINE n == delegated[c] + amt
             D == SumFunction(delegated)
  <2>1. n \in Nat /\ n - delegated[c] = amt
    BY <1>3
  <2> HIDE DEF n
  <2>2. D \in Nat /\ SumFunction(Upd(delegated, c, n)) = D + (n - delegated[c])
    BY <1>3, <2>1, VirtualSum
  <2> HIDE DEF D
  <2>3. SumFunction(delegated') = D + amt
    BY <1>2, <2>1, <2>2 DEF n
  <2>4. supply' - SumFunction(delegated') = supply - D
    BY <1>2, <1>3, <2>2, <2>3
  <2> QED BY <2>4 DEF D
<1>5. maxCap' = maxCap
  BY DEF Delegate, DelegateFails
<1>6. Ledger!Bond(c, amt)
  BY <1>2, <1>4, <1>5 DEF Ledger!Bond, Upd
<1> QED BY <1>6 DEF LedgerStep, Ledger!Next

(* Unbonding: what comes back leaves the account; nothing may come back. *)
LEMMA UnbondRefines ==
  ASSUME FiniteChain, StakeInv, NEW c \in Contracts, NEW v \in Validators, NEW amt \in Amounts,
         Undelegate(c, v, amt)
  PROVE  LedgerStep
<1>1. StakingInv /\ AccountInv /\ TypeOK
  BY StakeInvParts DEF StakeInv
<1>2. PICK r \in 0 .. delegated[c] :
        delegated' = Upd(delegated, c, delegated[c] - r) /\ supply' = supply - r
  BY <1>1, UnbondInv
<1>3. supply \in Nat /\ delegated \in [Contracts -> Nat] /\ delegated[c] \in Nat /\ r \in Nat
  BY <1>1 DEF TypeOK, StakingTypeOK
<1>4. supply' - SumFunction(delegated') = supply - SumFunction(delegated)
  <2> DEFINE n == delegated[c] - r
             D == SumFunction(delegated)
  <2>1. n \in Nat /\ n - delegated[c] = 0 - r
    BY <1>3
  <2> HIDE DEF n
  <2>2. D \in Nat /\ SumFunction(Upd(delegated, c, n)) = D + (n - delegated[c])
    BY <1>3, <2>1, VirtualSum
  <2> HIDE DEF D
  <2>3. SumFunction(delegated') = D - r
    BY <1>2, <1>3, <2>1, <2>2 DEF n
  <2>4. supply' - SumFunction(delegated') = supply - D
    BY <1>2, <1>3, <2>2, <2>3
  <2> QED BY <2>4 DEF D
<1>5. maxCap' = maxCap
  BY DEF Undelegate
<1>6. CASE r = 0
  <2>1. delegated' = delegated
    BY <1>2, <1>3, <1>6 DEF Upd
  <2> QED BY <1>4, <1>5, <2>1 DEF LedgerStep, Ledger!ledger
<1>7. CASE r # 0
  <2>1. r \in 1 .. delegated[c]
    BY <1>3, <1>7
  <2>2. Ledger!Unbond(c, r)
    BY <1>2, <1>3, <1>4, <1>5 DEF Ledger!Unbond, Upd
  <2> QED BY <2>1, <2>2 DEF LedgerStep, Ledger!Next
<1> QED BY <1>6, <1>7

(* Governance sets a limit: the total is over all contracts. *)
LEMMA SetCapRefines ==
  ASSUME FiniteChain, StakeInv, NEW c \in Contracts, NEW amt \in Caps, SetCap(c, amt)
  PROVE  LedgerStep
<1>1. /\ maxCap' = SetMaxCapLimit(maxCap, c, amt) /\ UNCHANGED <<supply, delegated>>
      /\ UsedByOthers(maxCap, c) + amt <= TotalContractsMaxCap /\ amt \in Nat
  BY CapAmountAssumption DEF SetCap, FitsTotal, stakingVars
<1>2. DOMAIN maxCap \subseteq Contracts /\ maxCap \in [DOMAIN maxCap -> Nat]
  BY DEF StakeInv, TypeOK
<1>3. /\ Limits(SetMaxCapLimit(maxCap, c, amt)) = Upd(Limits(maxCap), c, amt)
      /\ SumFunction(Limits(SetMaxCapLimit(maxCap, c, amt))) = amt + UsedByOthers(maxCap, c)
  BY <1>1, <1>2, FiniteContracts, LimitsSum
<1>4. UsedByOthers(maxCap, c) \in Nat
  <2>1. IsFiniteSet(DOMAIN maxCap \ {c}) /\ \A x \in DOMAIN maxCap \ {c} : maxCap[x] \in Nat
    BY <1>2, FiniteContracts, FS_Subset
  <2> QED BY <2>1, SumNat DEF UsedByOthers
<1>5. SumFunction(Limits(maxCap')) <= TotalContractsMaxCap
  BY <1>1, <1>3, <1>4, TotalContractsMaxCapAssumption
<1>6. Limits(maxCap') = [Limits(maxCap) EXCEPT ![c] = amt]
  BY <1>1, <1>3 DEF Upd
<1>7. Ledger!SetLimit(c, amt)
  <2>1. /\ [x \in Contracts |-> GetMaxCapLimit(maxCap', x)] =
             [[x \in Contracts |-> GetMaxCapLimit(maxCap, x)] EXCEPT ![c] = amt]
        /\ SumFunction([x \in Contracts |-> GetMaxCapLimit(maxCap', x)]) <= TotalContractsMaxCap
    BY <1>5, <1>6 DEF Limits
  <2>2. Ledger!SumFunction(Limits(maxCap')) = SumFunction(Limits(maxCap'))
    BY DEF SumFunction, Ledger!SumFunction, SumFunctionOnSet, Ledger!SumFunctionOnSet,
           FoldFunctionOnSet, Ledger!FoldFunctionOnSet, MapThenFoldSet, Ledger!MapThenFoldSet
  <2> QED BY <1>1, <2>1, <2>2 DEF Ledger!SetLimit, Limits
<1> QED BY <1>7 DEF LedgerStep, Ledger!Next

(* Every step of virtual staking is a step of the ledger, or none. *)
LEMMA NextRefines == ASSUME FiniteChain, StakeInv, [Next]_vars PROVE LedgerStep
<1>1. ASSUME UNCHANGED <<maxCap, delegated, supply>> PROVE LedgerStep
  BY <1>1 DEF LedgerStep, Ledger!ledger
<1>2. ASSUME NEW c \in Contracts, NEW amt \in Caps, SetCap(c, amt) PROVE LedgerStep
  BY <1>2, SetCapRefines
<1>3. ASSUME NEW c \in Contracts, NEW v \in Validators, NEW amt \in Amounts,
             handleBondMsg(c, v, amt) \/ handleUnbondMsg(c, v, amt)
      PROVE  LedgerStep
  BY <1>3, BondRefines, UnbondRefines DEF handleBondMsg, handleUnbondMsg
<1>4. ASSUME NEW a \in Accounts, NEW v \in Validators, NEW amt \in Amounts,
             DelegateMsg(a, v, amt) \/ UndelegateMsg(a, v, amt)
      PROVE  LedgerStep
  BY <1>1, <1>4 DEF DelegateMsg, UndelegateMsg, StakingDelegate, StakingUndelegate
<1>5. ASSUME NEW a \in Accounts, StakingCompletes(a) PROVE LedgerStep
  BY <1>1, <1>5 DEF StakingCompletes, CompleteUnbonding
<1>6. ASSUME NEW v \in Validators, NEW amt \in Amounts, StakingSlashes(v, amt) PROVE LedgerStep
  <2>1. UNCHANGED <<maxCap, delegated>> /\ supply' = supply - amt /\ supply \in Nat /\ amt \in Nat
    BY <1>6, AmountsAssumption DEF StakingSlashes, Slash, StakeInv, TypeOK, StakingTypeOK
  <2>2. SumFunction(delegated) \in Nat
    BY FiniteContracts, SumType DEF StakeInv, TypeOK
  <2>3. supply' - SumFunction(delegated') = supply - SumFunction(delegated) - amt
    BY <2>1, <2>2
  <2>4. Ledger!Slash(amt)
    BY <2>1, <2>3 DEF Ledger!Slash
  <2> QED BY <2>4 DEF LedgerStep, Ledger!Next
<1>7. ASSUME NEW v \in Validators, NEW status \in Status, StakingRanks(v, status) PROVE LedgerStep
  BY <1>1, <1>7 DEF StakingRanks, ChangeStatus
<1>8. ASSUME UNCHANGED vars PROVE LedgerStep
  BY <1>1, <1>8 DEF vars, stakingVars
<1> QED BY <1>2, <1>3, <1>4, <1>5, <1>6, <1>7, <1>8 DEF Next

(* No contract has a limit or virtual stake at the start. *)
LEMMA InitRefines == ASSUME FiniteChain, Init PROVE Ledger!Init
<1>1. /\ maxCap = [c \in {} |-> 0] /\ delegated = [c \in Contracts |-> 0]
      /\ supply = InitialSupply /\ slashed = 0
  BY DEF Init
<1>2. supply - SumFunction(delegated) = InitialSupply
  <2>1. SupplyNeutral /\ InitialSupply \in Nat
    BY InitStakeInv, InitialSupplyType DEF StakeInv
  <2> QED BY <1>1, <2>1 DEF SupplyNeutral
<1>3. Limits(maxCap) = [c \in Contracts |-> 0]
  BY <1>1 DEF Limits, GetMaxCapLimit, HasMaxCapLimit
<1> QED BY <1>1, <1>2, <1>3 DEF Ledger!Init, Limits

(* The ledger of VirtualLedger is implemented: a contract's account grows  *)
(* only within its limit and never falls below zero, the limits together   *)
(* never pass the total when one is set, and the native supply changes by  *)
(* slashing alone.                                                         *)
THEOREM StakeImplementsLedger == ASSUME FiniteChain PROVE Spec => ImplementsVirtualLedger
<1>1. Init => Ledger!Init
  BY InitRefines
<1>2. StakeInv /\ [Next]_vars => [Ledger!Next]_(Ledger!ledger)
  BY NextRefines DEF LedgerStep
<1> QED BY <1>1, <1>2, StakeInvariance, PTL DEF Spec, Ledger!Spec, ImplementsVirtualLedger
=============================================================================

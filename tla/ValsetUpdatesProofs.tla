------------------------ MODULE ValsetUpdatesProofs -------------------------
(***************************************************************************)
(* Proofs about the reports of validator set changes: they contradict      *)
(* nothing, a contract that accepted all of them knows the active set, and *)
(* what they tell of a slash is right up to rounding.  For any number of   *)
(* contracts and validators, any stakes, slashes and precision.            *)
(***************************************************************************)
EXTENDS ValsetUpdates, ShareMathProofs, Foundations

-----------------------------------------------------------------------------
(* The inductive invariant *)

Entry == [val : Validators, burned : SlashAmounts, share : Nat]

(* The operator of a validator owns what the contracts do not own, and     *)
(* nobody owns shares of a validator that is gone.                         *)
SharesCover ==
  \A v \in Validators :
    /\ v \in DOMAIN vals => OperatorShares(v) >= 0
    /\ v \notin DOMAIN vals => \A c \in Contracts : dels[<<c, v>>] = 0

(* What may be in the memory store when: a tombstoned validator stays, and *)
(* stays tombstoned, until staking's EndBlocker.                           *)
EventsByPhase ==
  /\ phase # "report" => \A o \in piped : o.op \notin {"bonded", "unbonded"}
  /\ phase = "begin" => \A o \in piped : o.op # "unjailed"
  /\ phase # "report" =>
       \A o \in piped : o.op = "tombstoned" =>
         /\ o.val \in DOMAIN vals
         /\ vals[o.val].tombstoned /\ vals[o.val].status # "unbonded"

(* The set a contract knows once the report of this block is accepted. *)
After(c) == (view[c] \cup Reported("bonded")) \ Reported("unbonded")

(* A contract that accepted every report knows the active set; between     *)
(* staking's EndBlocker and its callback, it is one report behind.         *)
ViewsFollow ==
  /\ phase # "report" => reported = {}
  /\ \A c \in synced :
       /\ phase = "report" /\ c \in scheduled \ reported => After(c) = Bonded(vals)
       /\ ~(phase = "report" /\ c \in scheduled \ reported) => view[c] = Bonded(vals)

(* Told is only what was slashed in this block; a validator that is gone   *)
(* since lost its shares since.                                            *)
ReportsFollow ==
  /\ phase # "report" => \A c \in Contracts : told[c] = {}
  /\ \A c \in Contracts : \A s \in told[c] :
       /\ WasSlashed(s.val)
       /\ s.val \in moved \/ s.val \in DOMAIN vals

TypeInv == TypeOK /\ told \in [Contracts -> SUBSET Entry] /\ SharesCover

ValsetInv ==
  /\ TypeInv /\ EventsByPhase /\ NoConflictingEvents
  /\ ViewsFollow /\ ReportsFollow /\ SlashReportsAreFair

-----------------------------------------------------------------------------
(* Shares *)

AtVal(v) == {d \in Contracts \X Validators : d[2] = v}

(* The shares all contracts have at a validator. *)
LEMMA ContractShares ==
  ASSUME IsFiniteSet(Contracts), NEW f \in [Contracts \X Validators -> Nat], NEW v \in Validators
  PROVE  /\ IsFiniteSet(AtVal(v))
         /\ SumFunctionOnSet(f, AtVal(v)) \in Nat
         /\ \A c \in Contracts : f[<<c, v>>] <= SumFunctionOnSet(f, AtVal(v))
<1>1. AtVal(v) = Contracts \X {v}
  BY DEF AtVal
<1>2. IsFiniteSet(AtVal(v))
  <2>1. IsFiniteSet({v})
    BY FS_Singleton
  <2>2. IsFiniteSet(Contracts \X {v})
    BY <2>1, FS_Product
  <2> QED BY <1>1, <2>2
<1>3. \A d \in AtVal(v) : f[d] \in Nat
  BY DEF AtVal
<1>4. SumFunctionOnSet(f, AtVal(v)) \in Nat
  BY <1>2, <1>3, SumNat
<1>5. ASSUME NEW c \in Contracts PROVE f[<<c, v>>] <= SumFunctionOnSet(f, AtVal(v))
  <2> DEFINE d == <<c, v>>
             R == AtVal(v) \ {d}
  <2>1. d \in AtVal(v) /\ f[d] \in Nat
    BY <1>3 DEF AtVal
  <2>2. IsFiniteSet(R) /\ \A x \in R : f[x] \in Nat
    BY <1>2, <1>3, FS_Subset
  <2>3. SumFunctionOnSet(f, R) \in Nat
    BY <2>2, SumNat
  <2>4. SumFunctionOnSet(f, AtVal(v)) = f[d] + SumFunctionOnSet(f, R)
    BY <1>2, <1>3, <2>1, SumFacts
  <2> QED BY <2>1, <2>3, <2>4
<1> QED BY <1>2, <1>4, <1>5

(* What the type invariant says of the shares of one validator. *)
LEMMA OwnedShares ==
  ASSUME IsFiniteSet(Contracts), TypeInv, NEW v \in Validators
  PROVE  /\ SumFunctionOnSet(dels, AtVal(v)) \in Nat
         /\ \A c \in Contracts : dels[<<c, v>>] <= SumFunctionOnSet(dels, AtVal(v))
         /\ OperatorShares(v) = vals[v].shares - SumFunctionOnSet(dels, AtVal(v))
         /\ v \in DOMAIN vals => /\ OperatorShares(v) \in Nat
                                 /\ \A c \in Contracts : dels[<<c, v>>] <= vals[v].shares
<1>1. dels \in [Contracts \X Validators -> Nat] /\ DOMAIN dels = Contracts \X Validators
  BY DEF TypeInv, TypeOK
<1>2. {d \in DOMAIN dels : d[2] = v} = AtVal(v)
  BY <1>1 DEF AtVal
<1>3. OperatorShares(v) = vals[v].shares - SumFunctionOnSet(dels, AtVal(v))
  BY <1>2 DEF OperatorShares
<1>4. /\ SumFunctionOnSet(dels, AtVal(v)) \in Nat
      /\ \A c \in Contracts : dels[<<c, v>>] <= SumFunctionOnSet(dels, AtVal(v))
  BY <1>1, ContractShares
<1>5. ASSUME v \in DOMAIN vals
      PROVE  OperatorShares(v) \in Nat /\ \A c \in Contracts : dels[<<c, v>>] <= vals[v].shares
  <2>1. vals[v].shares \in Nat /\ OperatorShares(v) >= 0
    BY <1>5 DEF TypeInv, TypeOK, SharesCover, Validator
  <2>2. \A c \in Contracts : dels[<<c, v>>] \in Nat
    BY <1>1
  <2> HIDE DEF OperatorShares
  <2> QED BY <1>3, <1>4, <2>1, <2>2
<1> QED BY <1>3, <1>4, <1>5

-----------------------------------------------------------------------------
(* Steps that move or burn the stake of one validator *)

(* w is the staking store after a step on validator v: others are as they  *)
(* were, v goes only when it is unbonded, comes back unbonded, and neither *)
(* its status nor a tombstone is touched.                                  *)
Kept(v, w) ==
  /\ DOMAIN w \subseteq Validators /\ w \in [DOMAIN w -> Validator]
  /\ \A x \in Validators \ {v} :
       (x \in DOMAIN w <=> x \in DOMAIN vals) /\ (x \in DOMAIN vals => w[x] = vals[x])
  /\ v \in DOMAIN vals /\ vals[v].status # "unbonded" => v \in DOMAIN w
  /\ v \in DOMAIN vals \cap DOMAIN w =>
       w[v].status = vals[v].status /\ (vals[v].tombstoned => w[v].tombstoned)
  /\ v \in DOMAIN w \ DOMAIN vals => w[v].status = "unbonded"

(* The contracts own no more shares of v than there are. *)
Covered(v, w, f) ==
  /\ v \in DOMAIN w => SumFunctionOnSet(f, AtVal(v)) <= w[v].shares
  /\ v \notin DOMAIN w => SumFunctionOnSet(f, AtVal(v)) = 0

(* The fields of a validator that is tombstoned. *)
LEMMA Buried ==
  ASSUME NEW val \in Validator, NEW x, x = [val EXCEPT !.tombstoned = TRUE]
  PROVE  x \in Validator /\ x.shares = val.shares /\ x.status = val.status /\ x.tombstoned
BY DEF Validator

(* A validator that loses shares loses tokens it has. *)
LEMMA WithoutSharesFacts ==
  ASSUME TypeInv, NEW v \in DOMAIN vals, NEW shares \in Nat, shares <= vals[v].shares
  PROVE  LET w == WithoutShares(v, shares)
         IN  /\ Kept(v, w)
             /\ v \in DOMAIN w => w[v].shares = vals[v].shares - shares
             /\ v \notin DOMAIN w => vals[v].shares = shares
<1> DEFINE t    == RemovedTokens(vals[v], shares)
           left == [vals[v] EXCEPT !.tokens = @ - t, !.shares = @ - shares]
           w    == WithoutShares(v, shares)
<1>1. vals \in [DOMAIN vals -> Validator] /\ DOMAIN vals \subseteq Validators /\ vals[v] \in Validator
  BY DEF TypeInv, TypeOK
<1>2. vals[v].tokens \in Nat /\ vals[v].shares \in Nat
  BY <1>1 DEF Validator
<1>3. t \in Nat /\ t <= vals[v].tokens
  BY <1>2, RemovedTokensFacts
<1>4. w = IF left.status = "unbonded" /\ left.shares = 0
            THEN [x \in DOMAIN vals \ {v} |-> vals[x]]
            ELSE [vals EXCEPT ![v] = left]
  BY DEF WithoutShares, Restrict
<1> HIDE DEF t, w
<1>5. /\ left \in Validator /\ left.status = vals[v].status
      /\ left.tombstoned = vals[v].tombstoned /\ left.shares = vals[v].shares - shares
  <2> DEFINE n == vals[v].tokens - t
             m == vals[v].shares - shares
  <2>1. n \in Nat /\ m \in Nat
    BY <1>2, <1>3
  <2>2. left = [vals[v] EXCEPT !.tokens = n, !.shares = m]
    OBVIOUS
  <2> HIDE DEF left, n, m
  <2>3. left \in Validator /\ left.shares = m /\ left.status = vals[v].status
        /\ left.tombstoned = vals[v].tombstoned
    BY <1>1, <2>1, <2>2 DEF Validator
  <2> QED BY <2>3 DEF m
<1> HIDE DEF left
<1> SUFFICES /\ Kept(v, w)
             /\ v \in DOMAIN w => w[v].shares = vals[v].shares - shares
             /\ v \notin DOMAIN w => vals[v].shares = shares
  BY DEF w
<1>6. CASE left.status = "unbonded" /\ left.shares = 0
  BY <1>1, <1>2, <1>4, <1>5, <1>6 DEF Kept
<1>7. CASE ~(left.status = "unbonded" /\ left.shares = 0)
  BY <1>1, <1>2, <1>4, <1>5, <1>7 DEF Kept
<1> QED BY <1>6, <1>7

(* Burned and jailed: the shares stay. *)
LEMMA BurnFacts ==
  ASSUME TypeInv, NEW v \in DOMAIN vals, NEW amt \in SlashAmounts, CanSlash(v, amt)
  PROVE  /\ Kept(v, Burn(v, amt)) /\ Kept(v, [Burn(v, amt) EXCEPT ![v].tombstoned = TRUE])
         /\ DOMAIN Burn(v, amt) = DOMAIN vals
         /\ Burn(v, amt)[v].shares = vals[v].shares
         /\ [Burn(v, amt) EXCEPT ![v].tombstoned = TRUE][v].shares = vals[v].shares
         /\ [Burn(v, amt) EXCEPT ![v].tombstoned = TRUE][v].tombstoned
<1>1. vals \in [DOMAIN vals -> Validator] /\ DOMAIN vals \subseteq Validators /\ vals[v] \in Validator
  BY DEF TypeInv, TypeOK
<1>2. vals[v].tokens \in Nat /\ amt \in Nat /\ amt <= vals[v].tokens
  BY <1>1, ValsetAssumption DEF Validator, CanSlash
<1> DEFINE b == [vals[v] EXCEPT !.tokens = @ - amt, !.jailed = TRUE]
           t == [b EXCEPT !.tombstoned = TRUE]
<1>3. Burn(v, amt) = [vals EXCEPT ![v] = b]
  BY <1>1 DEF Burn
<1>4. [Burn(v, amt) EXCEPT ![v].tombstoned = TRUE] = [vals EXCEPT ![v] = t]
  BY <1>1, <1>3
<1>5. /\ b \in Validator /\ t \in Validator
      /\ b.status = vals[v].status /\ t.status = vals[v].status
      /\ b.tombstoned = vals[v].tombstoned /\ t.tombstoned
      /\ b.shares = vals[v].shares /\ t.shares = vals[v].shares
  <2> DEFINE n == vals[v].tokens - amt
  <2>1. n \in Nat
    BY <1>2
  <2>2. b = [vals[v] EXCEPT !.tokens = n, !.jailed = TRUE]
    OBVIOUS
  <2> HIDE DEF n, b
  <2>3. /\ b \in Validator /\ b.shares = vals[v].shares
        /\ b.status = vals[v].status /\ b.tombstoned = vals[v].tombstoned
    BY <1>1, <2>1, <2>2 DEF Validator
  <2> QED BY <2>3, Buried
<1> HIDE DEF b, t
<1> QED BY <1>1, <1>3, <1>4, <1>5 DEF Kept

(* The shares of v after a step on v, with the others as they were. *)
Moves(v) ==
  /\ Kept(v, vals') /\ Covered(v, vals', dels')
  /\ dels' \in [Contracts \X Validators -> Nat]
  /\ \A d \in Contracts \X Validators : d[2] # v => dels'[d] = dels[d]

(* A slash burns tokens, never shares. *)
LEMMA SlashMoves ==
  ASSUME IsFiniteSet(Contracts), TypeInv, NEW v \in Validators, NEW amt \in SlashAmounts,
         SlashDowntime(v, amt) \/ SlashDoubleSign(v, amt)
  PROVE  Moves(v) /\ v \in DOMAIN vals'
<1>1. v \in DOMAIN vals /\ CanSlash(v, amt) /\ dels' = dels
      /\ (vals' = Burn(v, amt) \/ vals' = [Burn(v, amt) EXCEPT ![v].tombstoned = TRUE])
  BY DEF SlashDowntime, SlashDoubleSign, Bonded
<1>2. Kept(v, vals') /\ DOMAIN vals' = DOMAIN vals /\ vals'[v].shares = vals[v].shares
  <2> DEFINE w == Burn(v, amt)
             t == [w EXCEPT ![v].tombstoned = TRUE]
  <2>1. Kept(v, w) /\ DOMAIN w = DOMAIN vals /\ w[v].shares = vals[v].shares
    BY <1>1, BurnFacts
  <2>2. Kept(v, t) /\ t[v].shares = vals[v].shares
    BY <1>1, BurnFacts
  <2>3. DOMAIN t = DOMAIN w
    OBVIOUS
  <2> HIDE DEF w, t
  <2>4. vals' = w \/ vals' = t
    BY <1>1 DEF w, t
  <2> QED BY <2>1, <2>2, <2>3, <2>4
<1>3. SumFunctionOnSet(dels, AtVal(v)) <= vals[v].shares
  <2>1. vals[v].shares \in Nat
    BY <1>1 DEF TypeInv, TypeOK, Validator
  <2>2. OperatorShares(v) \in Nat /\ SumFunctionOnSet(dels, AtVal(v)) \in Nat
        /\ OperatorShares(v) = vals[v].shares - SumFunctionOnSet(dels, AtVal(v))
    BY <1>1, OwnedShares
  <2> QED BY <2>1, <2>2
<1>4. Covered(v, vals', dels')
  BY <1>1, <1>2, <1>3 DEF Covered
<1> QED BY <1>1, <1>2, <1>4 DEF Moves, TypeInv, TypeOK

(* Unjailing moves no stake. *)
LEMMA UnjailMoves ==
  ASSUME IsFiniteSet(Contracts), TypeInv, NEW v \in Validators, Unjail(v)
  PROVE  Moves(v)
<1>1. v \in DOMAIN vals /\ dels' = dels /\ vals' = [vals EXCEPT ![v].jailed = FALSE]
  BY DEF Unjail
<1>2. vals \in [DOMAIN vals -> Validator] /\ DOMAIN vals \subseteq Validators /\ vals[v] \in Validator
  BY <1>1 DEF TypeInv, TypeOK
<1> DEFINE b == [vals[v] EXCEPT !.jailed = FALSE]
<1>3. vals' = [vals EXCEPT ![v] = b]
  BY <1>1, <1>2
<1>4. /\ b \in Validator /\ b.status = vals[v].status
      /\ b.tombstoned = vals[v].tombstoned /\ b.shares = vals[v].shares
  BY <1>2 DEF Validator
<1> HIDE DEF b
<1>5. Kept(v, vals') /\ DOMAIN vals' = DOMAIN vals /\ vals'[v].shares = vals[v].shares
  BY <1>1, <1>2, <1>3, <1>4 DEF Kept
<1>6. SumFunctionOnSet(dels, AtVal(v)) <= vals[v].shares
  <2>1. vals[v].shares \in Nat
    BY <1>2 DEF Validator
  <2>2. OperatorShares(v) \in Nat /\ SumFunctionOnSet(dels, AtVal(v)) \in Nat
        /\ OperatorShares(v) = vals[v].shares - SumFunctionOnSet(dels, AtVal(v))
    BY <1>1, OwnedShares
  <2> QED BY <2>1, <2>2
<1>7. Covered(v, vals', dels')
  BY <1>1, <1>5, <1>6 DEF Covered
<1> QED BY <1>1, <1>5, <1>7 DEF Moves, TypeInv, TypeOK

(* A contract's delegation set to n: the sum at v follows. *)
SetTo(c, v, n) == [dels EXCEPT ![<<c, v>>] = n]

(* The sum at v follows one delegation. *)
LEMMA DelegationSet ==
  ASSUME IsFiniteSet(Contracts), TypeInv, NEW c \in Contracts, NEW v \in Validators, NEW n \in Nat
  PROVE  /\ SetTo(c, v, n) \in [Contracts \X Validators -> Nat]
         /\ \A d \in Contracts \X Validators : d[2] # v => SetTo(c, v, n)[d] = dels[d]
         /\ SumFunctionOnSet(SetTo(c, v, n), AtVal(v)) =
              SumFunctionOnSet(dels, AtVal(v)) + (n - dels[<<c, v>>])
<1> DEFINE f == SetTo(c, v, n)
           d0 == <<c, v>>
<1>1. dels \in [Contracts \X Validators -> Nat]
  BY DEF TypeInv, TypeOK
<1>2. /\ f \in [Contracts \X Validators -> Nat] /\ f[d0] = n
      /\ \A d \in Contracts \X Validators : d # d0 => f[d] = dels[d]
  BY <1>1 DEF SetTo
<1> HIDE DEF f
<1>3. IsFiniteSet(AtVal(v))
  BY <1>1, ContractShares
<1>4. d0 \in AtVal(v) /\ \A d \in AtVal(v) : dels[d] \in Int /\ f[d] \in Int
  BY <1>1, <1>2 DEF AtVal
<1>5. \A d \in AtVal(v) \ {d0} : dels[d] = f[d]
  BY <1>2 DEF AtVal
<1> HIDE DEF d0
<1>6. SumFunctionOnSet(f, AtVal(v)) = SumFunctionOnSet(dels, AtVal(v)) + (f[d0] - dels[d0])
  BY <1>3, <1>4, <1>5, SumChange
<1> QED BY <1>2, <1>6 DEF f, d0

(* A contract unbonds its delegation, in a transaction or a callback. *)
LEMMA UnbondMoves ==
  ASSUME IsFiniteSet(Contracts), TypeInv, NEW c \in Contracts, NEW v \in Validators,
         dels[<<c, v>>] > 0, vals' = WithoutShares(v, dels[<<c, v>>]),
         dels' = [dels EXCEPT ![<<c, v>>] = 0]
  PROVE  Moves(v)
<1> DEFINE n == dels[<<c, v>>]
           T == SumFunctionOnSet(dels, AtVal(v))
<1>1. n \in Nat /\ v \in DOMAIN vals
  BY DEF TypeInv, TypeOK, SharesCover
<1>2. vals[v].shares \in Nat
  BY <1>1 DEF TypeInv, TypeOK, Validator
<1>3. T \in Nat /\ n <= T /\ vals[v].shares - T \in Nat /\ n <= vals[v].shares
  BY <1>1, OwnedShares
<1>4. /\ Kept(v, vals')
      /\ v \in DOMAIN vals' => vals'[v].shares = vals[v].shares - n
      /\ v \notin DOMAIN vals' => vals[v].shares = n
  BY <1>1, <1>3, WithoutSharesFacts
<1>5. /\ dels' \in [Contracts \X Validators -> Nat]
      /\ \A d \in Contracts \X Validators : d[2] # v => dels'[d] = dels[d]
      /\ SumFunctionOnSet(dels', AtVal(v)) = T + (0 - n)
  <2>1. dels' = SetTo(c, v, 0) /\ 0 \in Nat
    BY DEF SetTo
  <2>2. /\ SetTo(c, v, 0) \in [Contracts \X Validators -> Nat]
        /\ \A d \in Contracts \X Validators : d[2] # v => SetTo(c, v, 0)[d] = dels[d]
        /\ SumFunctionOnSet(SetTo(c, v, 0), AtVal(v)) =
             SumFunctionOnSet(dels, AtVal(v)) + (0 - dels[<<c, v>>])
    BY <2>1, DelegationSet
  <2> QED BY <2>1, <2>2
<1>6. Covered(v, vals', dels')
  <2> HIDE DEF n, T
  <2> QED BY <1>1, <1>2, <1>3, <1>4, <1>5 DEF Covered
<1> QED BY <1>4, <1>5, <1>6 DEF Moves

(* Tokens added to a validator, for shares at the current rate. *)
LEMMA StakeAdded ==
  ASSUME TypeInv, NEW v \in DOMAIN vals, NEW n \in Nat, NEW m \in Nat,
         vals' = [vals EXCEPT ![v].tokens = @ + n, ![v].shares = @ + m]
  PROVE  Kept(v, vals') /\ v \in DOMAIN vals' /\ vals'[v].shares = vals[v].shares + m
<1>1. vals \in [DOMAIN vals -> Validator] /\ DOMAIN vals \subseteq Validators /\ vals[v] \in Validator
  BY DEF TypeInv, TypeOK
<1> DEFINE tokens == vals[v].tokens + n
           shares == vals[v].shares + m
           b      == [vals[v] EXCEPT !.tokens = tokens, !.shares = shares]
<1>2. tokens \in Nat /\ shares \in Nat
  BY <1>1 DEF Validator
<1>3. vals' = [vals EXCEPT ![v] = b]
  BY <1>1
<1> HIDE DEF tokens, shares
<1>4. /\ b \in Validator /\ b.status = vals[v].status
      /\ b.tombstoned = vals[v].tombstoned /\ b.shares = shares
  BY <1>1, <1>2 DEF Validator
<1> HIDE DEF b
<1>5. Kept(v, vals') /\ v \in DOMAIN vals' /\ vals'[v].shares = shares
  BY <1>1, <1>3, <1>4 DEF Kept
<1> QED BY <1>5 DEF shares

(* A contract bonds one token. *)
LEMMA BondMoves ==
  ASSUME IsFiniteSet(Contracts), TypeInv, NEW c \in Contracts, NEW v \in Validators, Bond(c, v)
  PROVE  Moves(v)
<1> DEFINE m == IssuedShares(vals[v], 1)
           T == SumFunctionOnSet(dels, AtVal(v))
<1>1. /\ v \in DOMAIN vals /\ ~InvalidExRate(vals[v]) /\ dels[<<c, v>>] = 0
      /\ vals' = [vals EXCEPT ![v].tokens = @ + 1, ![v].shares = @ + m]
      /\ dels' = SetTo(c, v, m)
  BY DEF Bond, SetTo
<1>2. vals[v].tokens \in Nat /\ vals[v].shares \in Nat
  BY <1>1 DEF TypeInv, TypeOK, Validator
<1>3. m \in Nat
  BY <1>1, <1>2, IssuedSharesType
<1> HIDE DEF m
<1>4. Kept(v, vals') /\ v \in DOMAIN vals' /\ vals'[v].shares = vals[v].shares + m
  BY <1>1, <1>3, StakeAdded
<1>5. T \in Nat /\ vals[v].shares - T \in Nat
  BY <1>1, OwnedShares
<1>6. /\ SetTo(c, v, m) \in [Contracts \X Validators -> Nat]
      /\ \A d \in Contracts \X Validators : d[2] # v => SetTo(c, v, m)[d] = dels[d]
      /\ SumFunctionOnSet(SetTo(c, v, m), AtVal(v)) = T + (m - dels[<<c, v>>])
  BY <1>3, DelegationSet
<1>7. Covered(v, vals', dels')
  <2> HIDE DEF T
  <2> QED BY <1>1, <1>2, <1>3, <1>4, <1>5, <1>6 DEF Covered
<1> QED BY <1>1, <1>4, <1>6, <1>7 DEF Moves

(* The operator takes out all own shares. *)
LEMMA UnbondSelfMoves ==
  ASSUME IsFiniteSet(Contracts), TypeInv, NEW v \in Validators, UnbondSelf(v)
  PROVE  Moves(v)
<1> DEFINE n    == OperatorShares(v)
           T    == SumFunctionOnSet(dels, AtVal(v))
           left == WithoutShares(v, n)
<1>1. /\ v \in DOMAIN vals /\ dels' = dels
      /\ vals' = [x \in DOMAIN left |-> IF x = v THEN [left[v] EXCEPT !.jailed = TRUE] ELSE left[x]]
  BY DEF UnbondSelf
<1>2. vals[v].shares \in Nat
  BY <1>1 DEF TypeInv, TypeOK, Validator
<1>3. T \in Nat /\ n \in Nat /\ n = vals[v].shares - T
  BY <1>1, OwnedShares
<1> HIDE DEF n, T
<1>4. n <= vals[v].shares
  BY <1>2, <1>3
<1>5. /\ Kept(v, left)
      /\ v \in DOMAIN left => left[v].shares = vals[v].shares - n
      /\ v \notin DOMAIN left => vals[v].shares = n
  BY <1>1, <1>3, <1>4, WithoutSharesFacts
<1> HIDE DEF left
<1> DEFINE b == [left[v] EXCEPT !.jailed = TRUE]
<1>6. v \in DOMAIN left => /\ b \in Validator /\ b.status = left[v].status
                           /\ b.tombstoned = left[v].tombstoned /\ b.shares = left[v].shares
  BY <1>5 DEF Kept, Validator
<1>7. /\ DOMAIN vals' = DOMAIN left
      /\ \A x \in DOMAIN left : vals'[x] = IF x = v THEN b ELSE left[x]
      /\ vals' = [x \in DOMAIN left |-> IF x = v THEN b ELSE left[x]]
  BY <1>1
<1> HIDE DEF b
<1>8. Kept(v, vals')
  BY <1>5, <1>6, <1>7 DEF Kept
<1>9. Covered(v, vals', dels')
  BY <1>1, <1>2, <1>3, <1>5, <1>6, <1>7 DEF Covered, T
<1> QED BY <1>1, <1>8, <1>9 DEF Moves, TypeInv, TypeOK

(* The operator bonds, on a new or an old validator. *)
LEMMA BondSelfMoves ==
  ASSUME IsFiniteSet(Contracts), TypeInv, NEW v \in Validators, BondSelf(v)
  PROVE  Moves(v)
<1> DEFINE T == SumFunctionOnSet(dels, AtVal(v))
<1>1. T \in Nat /\ dels' = dels /\ dels \in [Contracts \X Validators -> Nat]
  BY OwnedShares DEF BondSelf, TypeInv, TypeOK
<1>2. CASE v \in DOMAIN vals
  <2> DEFINE m == IssuedShares(vals[v], Stake)
  <2>1. ~InvalidExRate(vals[v]) /\ vals' = [vals EXCEPT ![v].tokens = @ + Stake, ![v].shares = @ + m]
    BY <1>2 DEF BondSelf
  <2>2. vals[v].tokens \in Nat /\ vals[v].shares \in Nat /\ Stake \in Nat
    BY <1>2, ValsetAssumption DEF TypeInv, TypeOK, Validator
  <2>3. m \in Nat
    BY <2>1, <2>2, IssuedSharesType
  <2> HIDE DEF m
  <2>4. Kept(v, vals') /\ v \in DOMAIN vals' /\ vals'[v].shares = vals[v].shares + m
    BY <1>2, <2>1, <2>2, <2>3, StakeAdded
  <2>5. vals[v].shares - T \in Nat
    BY <1>2, OwnedShares
  <2>6. Covered(v, vals', dels')
    <3> HIDE DEF T
    <3>1. T <= vals[v].shares + m
      BY <1>1, <2>2, <2>3, <2>5
    <3> QED BY <1>1, <2>4, <3>1 DEF Covered, T
  <2> QED BY <1>1, <2>4, <2>6 DEF Moves
<1>3. CASE v \notin DOMAIN vals
  <2>1. vals' = [x \in DOMAIN vals \cup {v} |-> IF x = v THEN NewValidator ELSE vals[x]]
    BY <1>3 DEF BondSelf
  <2>2. vals \in [DOMAIN vals -> Validator] /\ DOMAIN vals \subseteq Validators
    BY DEF TypeInv, TypeOK
  <2>3. NewValidator \in Validator /\ NewValidator.status = "unbonded" /\ NewValidator.shares \in Nat
    <3>1. Stake \in Nat /\ Stake * Precision \in Nat
      BY ValsetAssumption, PrecisionAssumption, ProductType
    <3> DEFINE m == Stake * Precision
    <3> HIDE DEF m
    <3> QED BY <3>1 DEF NewValidator, Validator, m
  <2>4. Kept(v, vals') /\ v \in DOMAIN vals' /\ vals'[v].shares = NewValidator.shares
    BY <1>3, <2>1, <2>2, <2>3 DEF Kept
  <2>5. T = 0
    <3>1. \A d \in AtVal(v) : dels[d] \in Int /\ dels[d] = 0
      BY <1>1, <1>3 DEF TypeInv, SharesCover, AtVal
    <3>2. IsFiniteSet(AtVal(v))
      BY <1>1, ContractShares
    <3> QED BY <3>1, <3>2, SumAllZero
  <2> QED BY <1>1, <2>3, <2>4, <2>5 DEF Moves, Covered
<1> QED BY <1>2, <1>3

-----------------------------------------------------------------------------
(* Type correctness *)

StoreTypes ==
  /\ DOMAIN vals \subseteq Validators /\ vals \in [DOMAIN vals -> Validator]
  /\ dels \in [Contracts \X Validators -> Nat]
  /\ SharesCover

OtherTypes ==
  /\ phase \in {"begin", "deliver", "report"}
  /\ active \subseteq Contracts
  /\ piped \subseteq Operation
  /\ scheduled \subseteq Contracts
  /\ view \in [Contracts -> SUBSET Validators]
  /\ told \in [Contracts -> SUBSET Entry]
  /\ synced \subseteq Contracts /\ reported \subseteq Contracts
  /\ moved \subseteq Validators

(* The two halves of the type invariant. *)
LEMMA TypeParts == TypeInv <=> StoreTypes /\ OtherTypes
BY DEF TypeInv, TypeOK, StoreTypes, OtherTypes, Entry

(* The same after a step. *)
LEMMA TypePartsNext == (TypeInv <=> StoreTypes /\ OtherTypes)'
BY TypeParts, PTL

(* Shares that cover every validator, from sums. *)
LEMMA CoverFromSums ==
  ASSUME IsFiniteSet(Contracts), dels' \in [Contracts \X Validators -> Nat],
         vals' \in [DOMAIN vals' -> Validator], \A x \in Validators : Covered(x, vals', dels')
  PROVE  SharesCover'
<1> DEFINE f == dels'
           w == vals'
<1> SUFFICES ASSUME NEW x \in Validators
             PROVE  /\ x \in DOMAIN w => OperatorShares(x)' >= 0
                    /\ x \notin DOMAIN w => \A c \in Contracts : f[<<c, x>>] = 0
  BY DEF SharesCover
<1>1. /\ SumFunctionOnSet(f, AtVal(x)) \in Nat
      /\ \A c \in Contracts : f[<<c, x>>] <= SumFunctionOnSet(f, AtVal(x))
  BY ContractShares
<1>2. {d \in DOMAIN f : d[2] = x} = AtVal(x)
  BY DEF AtVal
<1>3. OperatorShares(x)' = w[x].shares - SumFunctionOnSet(f, AtVal(x))
  BY <1>2 DEF OperatorShares
<1>4. \A c \in Contracts : f[<<c, x>>] \in Nat
  OBVIOUS
<1>5. x \in DOMAIN w => w[x].shares \in Nat
  BY DEF Validator
<1> DEFINE T == SumFunctionOnSet(f, AtVal(x))
           O == OperatorShares(x)'
<1>6. Covered(x, w, f)
  OBVIOUS
<1>7. T \in Nat /\ (\A c \in Contracts : f[<<c, x>>] <= T) /\ O = w[x].shares - T
      /\ (x \in DOMAIN w => T <= w[x].shares) /\ (x \notin DOMAIN w => T = 0)
  BY <1>1, <1>3, <1>6 DEF Covered
<1> HIDE DEF T, O, f, w
<1>8. ASSUME x \notin DOMAIN w, NEW c \in Contracts PROVE f[<<c, x>>] = 0
  BY <1>4, <1>7, <1>8
<1>9. ASSUME x \in DOMAIN w PROVE O >= 0
  BY <1>5, <1>7, <1>9
<1> QED BY <1>8, <1>9 DEF O

(* In the state before, as sums. *)
LEMMA SumsCover ==
  ASSUME IsFiniteSet(Contracts), TypeInv, NEW x \in Validators
  PROVE  Covered(x, vals, dels)
<1> DEFINE T == SumFunctionOnSet(dels, AtVal(x))
<1>1. CASE x \in DOMAIN vals
  <2>1. T \in Nat /\ vals[x].shares - T \in Nat
    BY <1>1, OwnedShares
  <2>2. vals[x].shares \in Nat
    BY <1>1 DEF TypeInv, TypeOK, Validator
  <2>3. T <= vals[x].shares
    <3> HIDE DEF T
    <3> QED BY <2>1, <2>2
  <2> QED BY <1>1, <2>3 DEF Covered
<1>2. CASE x \notin DOMAIN vals
  <2>0. dels \in [Contracts \X Validators -> Nat]
    BY DEF TypeInv, TypeOK
  <2>1. \A d \in AtVal(x) : dels[d] \in Int /\ dels[d] = 0
    BY <1>2, <2>0 DEF TypeInv, SharesCover, AtVal
  <2>2. IsFiniteSet(AtVal(x))
    BY <2>0, ContractShares
  <2>3. T = 0
    BY <2>1, <2>2, SumAllZero
  <2> QED BY <1>2, <2>3 DEF Covered
<1> QED BY <1>1, <1>2

(* A step on one validator keeps the types and the cover of shares. *)
LEMMA MovesTypes ==
  ASSUME IsFiniteSet(Contracts), TypeInv, NEW v \in Validators, Moves(v)
  PROVE  StoreTypes'
<1>1. /\ DOMAIN vals' \subseteq Validators /\ vals' \in [DOMAIN vals' -> Validator]
      /\ dels' \in [Contracts \X Validators -> Nat]
      /\ Covered(v, vals', dels')
  BY DEF Moves, Kept
<1>2. ASSUME NEW x \in Validators, x # v PROVE Covered(x, vals', dels')
  <2>1. (x \in DOMAIN vals' <=> x \in DOMAIN vals) /\ (x \in DOMAIN vals => vals'[x] = vals[x])
    BY <1>2 DEF Moves, Kept
  <2>2. \A d \in AtVal(x) : dels[d] \in Int /\ dels[d] = dels'[d]
    BY <1>2 DEF Moves, AtVal, TypeInv, TypeOK
  <2>3. IsFiniteSet(AtVal(x))
    BY <1>1, ContractShares
  <2>4. SumFunctionOnSet(dels, AtVal(x)) = SumFunctionOnSet(dels', AtVal(x))
    BY <2>2, <2>3, SumSame
  <2> QED BY <2>1, <2>4, SumsCover DEF Covered
<1>3. SharesCover'
  BY <1>1, <1>2, CoverFromSums
<1> QED BY <1>1, <1>3 DEF StoreTypes

(* The store after staking's EndBlocker: the new active set is bonded, no  *)
(* one else is, and only unbonded validators without shares are gone.      *)
LEMMA RankingFacts ==
  ASSUME TypeInv, NEW set \in SUBSET Validators, NEW mature \in SUBSET Validators,
         StakingEndBlocker(set, mature)
  PROVE  /\ DOMAIN vals' \subseteq DOMAIN vals /\ vals' \in [DOMAIN vals' -> Validator]
         /\ \A x \in DOMAIN vals' : vals'[x].shares = vals[x].shares
         /\ \A x \in DOMAIN vals \ DOMAIN vals' : vals[x].shares = 0
         /\ Bonded(vals') = set
<1> DEFINE gone == {v \in mature : vals[v].shares = 0}
           status(v) == IF v \in set THEN "bonded"
                        ELSE IF v \in mature THEN "unbonded"
                        ELSE IF vals[v].status = "bonded" THEN "unbonding"
                        ELSE vals[v].status
           b(v) == [vals[v] EXCEPT !.status = status(v)]
<1>1. /\ vals' = [v \in DOMAIN vals \ gone |-> b(v)]
      /\ set \subseteq DOMAIN vals /\ mature \cap set = {}
  BY DEF StakingEndBlocker, Eligible
<1>2. vals \in [DOMAIN vals -> Validator]
  BY DEF TypeInv, TypeOK
<1>3. ASSUME NEW v \in DOMAIN vals
      PROVE  /\ b(v) \in Validator /\ b(v).shares = vals[v].shares
             /\ b(v).status = "bonded" <=> v \in set
  <2>1. vals[v] \in Validator /\ vals[v].status \in {"bonded", "unbonding", "unbonded"}
    BY <1>2, <1>3 DEF Validator
  <2>2. status(v) \in {"bonded", "unbonding", "unbonded"} /\ (status(v) = "bonded" <=> v \in set)
    BY <2>1
  <2> HIDE DEF status
  <2> QED BY <2>1, <2>2 DEF Validator
<1> HIDE DEF b
<1>4. /\ DOMAIN vals' = DOMAIN vals \ gone
      /\ \A x \in DOMAIN vals' : vals'[x] = b(x)
  BY <1>1
<1>5. set \subseteq DOMAIN vals'
  BY <1>1, <1>4
<1>6. Bonded(vals') = set
  BY <1>3, <1>4, <1>5 DEF Bonded
<1>7. vals' \in [DOMAIN vals' -> Validator]
  BY <1>1, <1>3, <1>4
<1>8. \A x \in DOMAIN vals \ DOMAIN vals' : vals[x].shares = 0
  BY <1>4
<1> QED BY <1>3, <1>4, <1>6, <1>7, <1>8

(* So does the ranking at the end of a block. *)
LEMMA RankingTypes ==
  ASSUME IsFiniteSet(Contracts), TypeInv, NEW set \in SUBSET Validators,
         NEW mature \in SUBSET Validators, StakingEndBlocker(set, mature)
  PROVE  StoreTypes'
<1>1. /\ DOMAIN vals' \subseteq DOMAIN vals /\ vals' \in [DOMAIN vals' -> Validator]
      /\ \A x \in DOMAIN vals' : vals'[x].shares = vals[x].shares
      /\ \A x \in DOMAIN vals \ DOMAIN vals' : vals[x].shares = 0
  BY RankingFacts
<1>2. dels' = dels /\ dels \in [Contracts \X Validators -> Nat] /\ DOMAIN vals \subseteq Validators
  BY DEF StakingEndBlocker, TypeInv, TypeOK
<1>3. ASSUME NEW x \in Validators PROVE Covered(x, vals', dels')
  <2>1. SumFunctionOnSet(dels, AtVal(x)) \in Nat
    BY OwnedShares
  <2> QED BY <1>1, <1>2, <2>1, SumsCover DEF Covered
<1>4. SharesCover'
  BY <1>1, <1>2, <1>3, CoverFromSums
<1> QED BY <1>1, <1>2, <1>4 DEF StoreTypes

(* Every operation that is sent is well formed. *)
LEMMA OpType ==
  ASSUME NEW v \in Validators
  PROVE  /\ \A op \in PipedValsetOperation \ {"slashed"} : Op(op, v) \in Operation
         /\ \A amt \in SlashAmounts : Slashed(v, amt) \in Operation
BY ValsetAssumption DEF Op, Slashed, Operation, PipedValsetOperation

(* Operations that are piped. *)
LEMMA SendTypes ==
  ASSUME OtherTypes, NEW ops, ops \subseteq Operation, sendAsync(ops)
  PROVE  piped' \subseteq Operation /\ scheduled' \subseteq Contracts /\ synced' \subseteq Contracts
BY DEF OtherTypes, sendAsync

(* The entries of a report: every slashed validator is still there. *)
LEMMA EntryTypes ==
  ASSUME TypeInv, ~ReportFails, NEW c \in Contracts
  PROVE  SlashedEntries(c) \subseteq Entry
<1> SUFFICES ASSUME NEW o \in piped, o.op = "slashed"
             PROVE  [val |-> o.val, burned |-> o.burned,
                     share |-> DelegatorSlashAmount(c, o.val, o.burned)] \in Entry
  BY DEF SlashedEntries
<1>1. o.val \in DOMAIN vals /\ o.val \in Validators /\ o.burned \in SlashAmounts
  BY DEF ReportFails, TypeInv, TypeOK, Operation
<1> DEFINE d == dels[<<c, o.val>>]
           n == vals[o.val].shares
<1>2. d \in Nat /\ n \in Nat /\ o.burned \in Nat
  BY <1>1, ValsetAssumption DEF TypeInv, TypeOK, Validator
<1>3. DelegatorSlashAmount(c, o.val, o.burned) =
        IF n = 0 THEN 0 ELSE RoundedQuo(RoundedQuo(d * Precision, n) * o.burned, Precision)
  BY DEF DelegatorSlashAmount
<1> HIDE DEF d, n
<1>4. n # 0 => RoundedQuo(RoundedQuo(d * Precision, n) * o.burned, Precision) \in Nat
  BY <1>2, TwiceRounded
<1> QED BY <1>1, <1>3, <1>4 DEF Entry

(* A report, whether the contract takes it or not. *)
LEMMA ReportTypes ==
  ASSUME TypeInv, NEW c \in Contracts, ReportDone(c), SendReport(c)
  PROVE  /\ phase' \in {"begin", "deliver", "report"} /\ active' \subseteq Contracts
         /\ piped' \subseteq Operation /\ scheduled' \subseteq Contracts
         /\ view' \in [Contracts -> SUBSET Validators] /\ told' \in [Contracts -> SUBSET Entry]
         /\ synced' \subseteq Contracts /\ reported' \subseteq Contracts
<1>1. SlashedEntries(c) \in SUBSET Entry
  BY EntryTypes DEF SendReport
<1>2. told' \in [Contracts -> SUBSET Entry]
  BY <1>1, TypeParts DEF SendReport, OtherTypes
<1>3. Reported("bonded") \subseteq Validators
  BY DEF Reported, TypeInv, TypeOK, Operation
<1>4. view' \in [Contracts -> SUBSET Validators]
  BY <1>3, TypeParts DEF SendReport, OtherTypes
<1> QED BY <1>2, <1>4, TypeParts DEF SendReport, ReportDone, OtherTypes

(* The initial state is typed. *)
LEMMA InitTypes == ASSUME IsFiniteSet(Contracts), Init PROVE TypeInv
<1> SUFFICES StoreTypes /\ OtherTypes
  BY TypeParts
<1>1. PICK set \in SUBSET Validators :
        /\ vals = [v \in Validators |->
                    IF v \in set THEN [NewValidator EXCEPT !.status = "bonded"] ELSE NewValidator]
        /\ view = [c \in Contracts |-> set]
  BY DEF Init, kSubset
<1> DEFINE b == [NewValidator EXCEPT !.status = "bonded"]
<1>2. /\ NewValidator \in Validator /\ b \in Validator
      /\ NewValidator.shares \in Nat /\ b.shares = NewValidator.shares
  <2>1. Stake \in Nat /\ Stake * Precision \in Nat
    BY ValsetAssumption, PrecisionAssumption, ProductType
  <2> DEFINE m == Stake * Precision
  <2> HIDE DEF m
  <2> QED BY <2>1 DEF NewValidator, Validator, m
<1> HIDE DEF b
<1>3. DOMAIN vals = Validators /\ vals \in [DOMAIN vals -> Validator]
  BY <1>1, <1>2 DEF b
<1>4. dels \in [Contracts \X Validators -> Nat] /\ \A d \in Contracts \X Validators : dels[d] = 0
  BY DEF Init
<1>5. OtherTypes
  BY <1>1 DEF Init, OtherTypes, Operation
<1>6. ASSUME NEW v \in Validators PROVE OperatorShares(v) >= 0
  <2>1. {d \in DOMAIN dels : d[2] = v} = AtVal(v)
    BY <1>4 DEF AtVal
  <2>2. IsFiniteSet(AtVal(v)) /\ \A d \in AtVal(v) : dels[d] \in Int /\ dels[d] = 0
    BY <1>4, ContractShares DEF AtVal
  <2>3. SumFunctionOnSet(dels, AtVal(v)) = 0
    BY <2>2, SumAllZero
  <2>4. vals[v].shares \in Nat
    BY <1>3 DEF Validator
  <2> QED BY <2>1, <2>3, <2>4 DEF OperatorShares
<1> QED BY <1>3, <1>4, <1>5, <1>6 DEF StoreTypes, SharesCover

(* One step per action; the store by the lemmas above. *)
LEMMA NextTypes == ASSUME IsFiniteSet(Contracts), TypeInv, [Next]_vars PROVE TypeInv'
<1> USE TypeParts
<1> SUFFICES StoreTypes' /\ OtherTypes'
  BY TypePartsNext
<1>0. OtherTypes /\ StoreTypes
  OBVIOUS
<1>1. ASSUME NEW v \in Validators, NEW amt \in SlashAmounts,
             SlashDowntime(v, amt) \/ SlashDoubleSign(v, amt)
      PROVE  StoreTypes' /\ OtherTypes'
  <2>1. StoreTypes'
    BY <1>1, SlashMoves, MovesTypes
  <2> DEFINE o1 == Slashed(v, amt)
             o2 == Op("jailed", v)
             o3 == Op("tombstoned", v)
             o4 == Op("modified", v)
  <2>2. o1 \in Operation /\ o2 \in Operation /\ o3 \in Operation /\ o4 \in Operation
    BY OpType DEF PipedValsetOperation
  <2> HIDE DEF o1, o2, o3, o4
  <2>3. \E ops \in SUBSET {o1, o2, o3, o4} : sendAsync(ops)
    BY <1>1 DEF SlashDowntime, SlashDoubleSign, SlashOps, o1, o2, o3, o4
  <2>4. piped' \subseteq Operation /\ scheduled' \subseteq Contracts /\ synced' \subseteq Contracts
    BY <1>0, <2>2, <2>3, SendTypes
  <2>5. UNCHANGED <<phase, active, view, told, reported, moved>>
    BY <1>1 DEF SlashDowntime, SlashDoubleSign
  <2>6. OtherTypes'
    BY <1>0, <2>4, <2>5 DEF OtherTypes
  <2> QED BY <2>1, <2>6
<1>2. ASSUME EndBeginBlock PROVE StoreTypes' /\ OtherTypes'
  BY <1>0, <1>2 DEF EndBeginBlock, StoreTypes, OtherTypes, SharesCover, OperatorShares
<1>3. ASSUME NEW v \in Edited, EditValidator(v) PROVE StoreTypes' /\ OtherTypes'
  <2>1. v \in Validators
    BY ValsetAssumption
  <2> DEFINE o1 == Op("modified", v)
  <2>2. o1 \in Operation
    BY <2>1, OpType DEF PipedValsetOperation
  <2> HIDE DEF o1
  <2>3. sendAsync({o1})
    BY <1>3 DEF EditValidator, o1
  <2>4. piped' \subseteq Operation /\ scheduled' \subseteq Contracts /\ synced' \subseteq Contracts
    BY <1>0, <2>2, <2>3, SendTypes
  <2>5. UNCHANGED <<vals, dels, phase, active, view, told, reported, moved>>
    BY <1>3 DEF EditValidator
  <2> QED BY <1>0, <2>4, <2>5 DEF StoreTypes, OtherTypes, SharesCover, OperatorShares
<1>4. ASSUME NEW v \in Validators, Unjail(v) PROVE StoreTypes' /\ OtherTypes'
  <2>1. StoreTypes'
    BY <1>4, UnjailMoves, MovesTypes
  <2> DEFINE o1 == Op("unjailed", v)
  <2>2. o1 \in Operation
    BY OpType DEF PipedValsetOperation
  <2> HIDE DEF o1
  <2>3. sendAsync({o1}) /\ UNCHANGED <<phase, active, view, told, reported, moved>>
    BY <1>4 DEF Unjail, o1
  <2>4. piped' \subseteq Operation /\ scheduled' \subseteq Contracts /\ synced' \subseteq Contracts
    BY <1>0, <2>2, <2>3, SendTypes
  <2> QED BY <1>0, <2>1, <2>3, <2>4 DEF OtherTypes
<1>5. ASSUME NEW v \in Validators, UnbondSelf(v) \/ BondSelf(v) PROVE StoreTypes' /\ OtherTypes'
  <2>1. StoreTypes'
    BY <1>5, UnbondSelfMoves, BondSelfMoves, MovesTypes
  <2>2. SharesMoved(v) /\ UNCHANGED <<phase, active, piped, scheduled, synced, view, told, reported>>
    BY <1>5 DEF UnbondSelf, BondSelf, NothingSent
  <2> QED BY <1>0, <2>1, <2>2 DEF OtherTypes, SharesMoved
<1>6. ASSUME NEW c \in Contracts, NEW v \in Validators, Bond(c, v) \/ Unbond(c, v)
      PROVE  StoreTypes' /\ OtherTypes'
  <2>1. StoreTypes'
    BY <1>6, BondMoves, UnbondMoves, MovesTypes DEF Unbond
  <2>2. SharesMoved(v) /\ UNCHANGED <<phase, active, piped, scheduled, synced, view, told, reported>>
    BY <1>6 DEF Bond, Unbond, NothingSent
  <2> QED BY <1>0, <2>1, <2>2 DEF OtherTypes, SharesMoved
<1>7. ASSUME NEW c \in Adjusted, ToggleLimit(c) PROVE StoreTypes' /\ OtherTypes'
  <2>1. c \in Contracts
    BY ValsetAssumption
  <2> QED BY <1>0, <1>7, <2>1 DEF ToggleLimit, StoreTypes, OtherTypes, SharesCover, OperatorShares
<1>8. ASSUME NEW set \in SUBSET Validators, NEW mature \in SUBSET Validators,
             StakingEndBlocker(set, mature)
      PROVE  StoreTypes' /\ OtherTypes'
  <2>1. StoreTypes'
    BY <1>8, RankingTypes
  <2> DEFINE ops == ValsetHooks(Bonded(vals), set)
  <2>2. ops \subseteq Operation
    BY <1>0, OpType DEF ValsetHooks, Bonded, StoreTypes, PipedValsetOperation
  <2> HIDE DEF ops
  <2>3. sendAsync(ops) /\ phase' = "report" /\ UNCHANGED <<active, view, told, reported, moved>>
    BY <1>8 DEF StakingEndBlocker, ops
  <2>4. piped' \subseteq Operation /\ scheduled' \subseteq Contracts /\ synced' \subseteq Contracts
    BY <1>0, <2>2, <2>3, SendTypes
  <2> QED BY <1>0, <2>1, <2>3, <2>4 DEF OtherTypes
<1>9. ASSUME NEW c \in Contracts,
             SendValsetUpdate(c) \/ RejectValsetUpdate(c) \/ FailValsetUpdate(c)
      PROVE  StoreTypes' /\ OtherTypes'
  <2>1. StoreTypes'
    BY <1>0, <1>9 DEF SendValsetUpdate, RejectValsetUpdate, FailValsetUpdate, StoreTypes,
                      SharesCover, OperatorShares
  <2>2. CASE SendValsetUpdate(c)
    <3>1. moved' \subseteq Validators
      BY <1>0, <2>2 DEF SendValsetUpdate, OtherTypes
    <3> QED BY <2>1, <2>2, <3>1, ReportTypes DEF SendValsetUpdate, OtherTypes
  <2>3. CASE RejectValsetUpdate(c) \/ FailValsetUpdate(c)
    BY <1>0, <2>1, <2>3 DEF RejectValsetUpdate, FailValsetUpdate, ReportDone, OtherTypes
  <2> QED BY <1>9, <2>2, <2>3
<1>10. ASSUME NEW c \in Contracts, NEW v \in Validators, SendValsetUpdateUnbond(c, v)
       PROVE  StoreTypes' /\ OtherTypes'
  <2>1. StoreTypes'
    BY <1>10, UnbondMoves, MovesTypes DEF SendValsetUpdateUnbond
  <2>2. moved' \subseteq Validators
    BY <1>0, <1>10 DEF SendValsetUpdateUnbond, SharesMoved, OtherTypes
  <2> QED BY <1>10, <2>1, <2>2, ReportTypes DEF SendValsetUpdateUnbond, OtherTypes
<1>11. ASSUME ClearPipedValsetOperations PROVE StoreTypes' /\ OtherTypes'
  BY <1>0, <1>11 DEF ClearPipedValsetOperations, StoreTypes, OtherTypes, SharesCover, OperatorShares
<1>12. ASSUME UNCHANGED vars PROVE StoreTypes' /\ OtherTypes'
  BY <1>0, <1>12 DEF vars, StoreTypes, OtherTypes, SharesCover, OperatorShares
<1> QED BY <1>1, <1>2, <1>3, <1>4, <1>5, <1>6, <1>7, <1>8, <1>9, <1>10, <1>11, <1>12 DEF Next

-----------------------------------------------------------------------------
(* Events of one block *)

Contradict(a, b) == \E o \in piped, p \in piped : o.op = a /\ p.op = b /\ o.val = p.val

(* NoConflictingEvents, pair by pair. *)
LEMMA ConflictFree ==
  NoConflictingEvents <=> ~Contradict("bonded", "unbonded") /\ ~Contradict("tombstoned", "unjailed")
BY DEF NoConflictingEvents, Contradict, Reported

(* The same after a step. *)
LEMMA ConflictFreeNext ==
  (NoConflictingEvents <=>
     ~Contradict("bonded", "unbonded") /\ ~Contradict("tombstoned", "unjailed"))'
BY ConflictFree, PTL

(* Steps that move stake keep the tombstones this block reports. *)
LEMMA MovesEvents ==
  ASSUME TypeInv, EventsByPhase, NEW v \in Validators, Moves(v), phase # "report"
  PROVE  \A o \in piped : o.op = "tombstoned" =>
           /\ o.val \in DOMAIN vals'
           /\ vals'[o.val].tombstoned /\ vals'[o.val].status # "unbonded"
<1> SUFFICES ASSUME NEW o \in piped, o.op = "tombstoned"
             PROVE  /\ o.val \in DOMAIN vals'
                    /\ vals'[o.val].tombstoned /\ vals'[o.val].status # "unbonded"
  OBVIOUS
<1>1. /\ o.val \in DOMAIN vals /\ o.val \in Validators
      /\ vals[o.val].tombstoned /\ vals[o.val].status # "unbonded"
  BY DEF EventsByPhase, TypeInv, TypeOK
<1> QED BY <1>1 DEF Moves, Kept

(* Every step keeps the events of a block free of conflicts. *)
LEMMA NextEvents ==
  ASSUME IsFiniteSet(Contracts), TypeInv, EventsByPhase, NoConflictingEvents, [Next]_vars
  PROVE  EventsByPhase' /\ NoConflictingEvents'
<1> USE ConflictFree
<1> SUFFICES EventsByPhase' /\ Contradict("bonded", "unbonded")' = FALSE
                            /\ Contradict("tombstoned", "unjailed")' = FALSE
  BY ConflictFreeNext
<1> DEFINE Goal == EventsByPhase' /\ Contradict("bonded", "unbonded")' = FALSE
                                  /\ Contradict("tombstoned", "unjailed")' = FALSE
<1>1. ASSUME NEW v \in Validators, NEW amt \in SlashAmounts,
             SlashDowntime(v, amt) \/ SlashDoubleSign(v, amt)
      PROVE  Goal
  <2>1. Moves(v) /\ v \in DOMAIN vals'
    BY <1>1, SlashMoves
  <2>2. phase = "begin" /\ phase' = "begin"
    BY <1>1 DEF SlashDowntime, SlashDoubleSign
  <2>3. \A o \in piped : o.op = "tombstoned" =>
          /\ o.val \in DOMAIN vals'
          /\ vals'[o.val].tombstoned /\ vals'[o.val].status # "unbonded"
    BY <2>1, <2>2, MovesEvents
  <2>4. \A o \in piped' : \/ o \in piped
                          \/ o.op \in {"modified", "slashed", "jailed"}
                          \/ o.op = "tombstoned" /\ o.val = v /\ SlashDoubleSign(v, amt)
    BY <1>1 DEF SlashDowntime, SlashDoubleSign, SlashOps, sendAsync, Slashed, Op
  <2>5. ASSUME SlashDoubleSign(v, amt)
        PROVE  vals'[v].tombstoned /\ vals'[v].status # "unbonded"
    <3>1. v \in DOMAIN vals /\ CanSlash(v, amt) /\ vals[v].status # "unbonded"
          /\ vals' = [Burn(v, amt) EXCEPT ![v].tombstoned = TRUE]
      BY <2>5 DEF SlashDoubleSign
    <3>2. [Burn(v, amt) EXCEPT ![v].tombstoned = TRUE][v].tombstoned
      BY <3>1, BurnFacts
    <3> QED BY <2>1, <3>1, <3>2 DEF Moves, Kept
  <2>6. \A o \in piped' : o.op \notin {"bonded", "unbonded", "unjailed"}
    BY <2>2, <2>4 DEF EventsByPhase
  <2>7. \A o \in piped' : o.op = "tombstoned" =>
          /\ o.val \in DOMAIN vals'
          /\ vals'[o.val].tombstoned /\ vals'[o.val].status # "unbonded"
    BY <2>1, <2>3, <2>4, <2>5
  <2>8. EventsByPhase'
    BY <2>2, <2>6, <2>7 DEF EventsByPhase
  <2> QED BY <2>6, <2>8 DEF Contradict
<1>2. ASSUME EndBeginBlock \/ (\E c \in Adjusted : ToggleLimit(c)) \/ UNCHANGED vars PROVE Goal
  BY <1>2 DEF EndBeginBlock, ToggleLimit, vars, EventsByPhase, Contradict
<1>3. ASSUME NEW v \in Edited, EditValidator(v) PROVE Goal
  <2>1. UNCHANGED <<phase, vals>> /\ phase = "deliver"
    BY <1>3 DEF EditValidator
  <2>2. \A o \in piped' : o \in piped \/ o.op = "modified"
    BY <1>3 DEF EditValidator, sendAsync, Op
  <2>3. piped \subseteq piped'
    BY <1>3 DEF EditValidator, sendAsync
  <2>4. EventsByPhase'
    BY <2>1, <2>2 DEF EventsByPhase
  <2> QED BY <2>2, <2>4 DEF Contradict
<1>4. ASSUME NEW v \in Validators, Unjail(v) PROVE Goal
  <2>1. /\ phase = "deliver" /\ phase' = "deliver" /\ ~vals[v].tombstoned
        /\ piped' = piped \cup {Op("unjailed", v)}
    BY <1>4 DEF Unjail, sendAsync
  <2>2. \A o \in piped' : o \in piped \/ (o.op = "unjailed" /\ o.val = v)
    BY <2>1 DEF Op
  <2>3. \A o \in piped : o.op = "tombstoned" =>
          /\ o.val \in DOMAIN vals'
          /\ vals'[o.val].tombstoned /\ vals'[o.val].status # "unbonded"
    BY <1>4, <2>1, UnjailMoves, MovesEvents
  <2>4. EventsByPhase'
    BY <2>1, <2>2, <2>3 DEF EventsByPhase
  <2>5. \A o \in piped : o.op = "tombstoned" => o.val # v
    BY <2>1 DEF EventsByPhase
  <2>6. Contradict("tombstoned", "unjailed")' = FALSE
    BY <2>2, <2>5 DEF Contradict
  <2>7. Contradict("bonded", "unbonded")' = FALSE
    BY <2>2 DEF Contradict
  <2> QED BY <2>4, <2>6, <2>7
<1>5. ASSUME NEW v \in Validators,
             UnbondSelf(v) \/ BondSelf(v) \/ (\E c \in Contracts : Bond(c, v) \/ Unbond(c, v))
      PROVE  Goal
  <2>1. Moves(v)
    BY <1>5, UnbondSelfMoves, BondSelfMoves, BondMoves, UnbondMoves DEF Unbond
  <2>2. phase = "deliver" /\ phase' = "deliver" /\ piped' = piped
    BY <1>5 DEF UnbondSelf, BondSelf, Bond, Unbond, NothingSent
  <2>3. EventsByPhase'
    BY <2>1, <2>2, MovesEvents DEF EventsByPhase
  <2> QED BY <2>2, <2>3 DEF Contradict
<1>6. ASSUME NEW set \in SUBSET Validators, NEW mature \in SUBSET Validators,
             StakingEndBlocker(set, mature)
      PROVE  Goal
  <2>1. phase = "deliver" /\ phase' = "report"
        /\ piped' = piped \cup ValsetHooks(Bonded(vals), set)
    BY <1>6 DEF StakingEndBlocker, sendAsync
  <2>2. \A o \in piped' : \/ o \in piped /\ o.op \notin {"bonded", "unbonded"}
                          \/ o.op = "bonded" /\ o.val \in set \ Bonded(vals)
                          \/ o.op = "unbonded" /\ o.val \in Bonded(vals) \ set
    BY <2>1 DEF ValsetHooks, Op, EventsByPhase
  <2>3. EventsByPhase'
    BY <2>1 DEF EventsByPhase
  <2>4. Contradict("bonded", "unbonded")' = FALSE /\ Contradict("tombstoned", "unjailed")' = FALSE
    BY <2>2 DEF Contradict
  <2> QED BY <2>3, <2>4
<1>7. ASSUME NEW c \in Contracts, ReportDone(c) PROVE Goal
  BY <1>7 DEF ReportDone, EventsByPhase, Contradict
<1>8. ASSUME ClearPipedValsetOperations PROVE Goal
  BY <1>8 DEF ClearPipedValsetOperations, EventsByPhase, Contradict
<1> QED BY <1>1, <1>2, <1>3, <1>4, <1>5, <1>6, <1>7, <1>8
        DEF Next, SendValsetUpdate, RejectValsetUpdate, FailValsetUpdate, SendValsetUpdateUnbond

-----------------------------------------------------------------------------
(* What the contracts know *)

(* Moving stake changes nobody's place in the active set. *)
LEMMA MovesBonded ==
  ASSUME TypeInv, NEW v \in Validators, Moves(v)
  PROVE  Bonded(vals') = Bonded(vals)
<1>1. DOMAIN vals \subseteq Validators /\ DOMAIN vals' \subseteq Validators
  BY DEF TypeInv, TypeOK, Moves, Kept
<1>2. ASSUME NEW x \in Validators PROVE x \in Bonded(vals') <=> x \in Bonded(vals)
  <2>1. CASE x = v
    BY <2>1 DEF Moves, Kept, Bonded
  <2>2. CASE x # v
    BY <2>2 DEF Moves, Kept, Bonded
  <2> QED BY <2>1, <2>2
<1> QED BY <1>1, <1>2 DEF Bonded

(* Steps before the reports: the active set stays, contracts drop out of   *)
(* synced but none comes back.                                             *)
LEMMA BeforeReports ==
  ASSUME TypeInv, ViewsFollow, phase # "report", phase' # "report",
         Bonded(vals') = Bonded(vals), synced' \subseteq synced, UNCHANGED <<view, reported>>
  PROVE  ViewsFollow'
BY DEF ViewsFollow

(* Every step keeps the contracts' views in line with the valset. *)
LEMMA NextViews ==
  ASSUME IsFiniteSet(Contracts), TypeInv, EventsByPhase, ViewsFollow, [Next]_vars
  PROVE  ViewsFollow'
<1>1. ASSUME NEW v \in Validators, NEW amt \in SlashAmounts,
             SlashDowntime(v, amt) \/ SlashDoubleSign(v, amt)
      PROVE  ViewsFollow'
  <2>1. phase = "begin" /\ UNCHANGED <<phase, view, reported>> /\ synced' \subseteq synced
    BY <1>1 DEF SlashDowntime, SlashDoubleSign, sendAsync
  <2> QED BY <1>1, <2>1, SlashMoves, MovesBonded, BeforeReports
<1>2. ASSUME NEW v \in Edited, EditValidator(v) PROVE ViewsFollow'
  <2>1. phase = "deliver" /\ UNCHANGED <<phase, vals, view, reported>> /\ synced' \subseteq synced
    BY <1>2 DEF EditValidator, sendAsync
  <2> QED BY <2>1, BeforeReports
<1>3. ASSUME NEW v \in Validators, Unjail(v) PROVE ViewsFollow'
  <2>1. phase = "deliver" /\ UNCHANGED <<phase, view, reported>> /\ synced' \subseteq synced
    BY <1>3 DEF Unjail, sendAsync
  <2> QED BY <1>3, <2>1, UnjailMoves, MovesBonded, BeforeReports
<1>4. ASSUME NEW v \in Validators,
             UnbondSelf(v) \/ BondSelf(v) \/ (\E c \in Contracts : Bond(c, v) \/ Unbond(c, v))
      PROVE  ViewsFollow'
  <2>1. Moves(v)
    BY <1>4, UnbondSelfMoves, BondSelfMoves, BondMoves, UnbondMoves DEF Unbond
  <2>2. phase = "deliver" /\ UNCHANGED <<phase, synced, view, reported>>
    BY <1>4 DEF UnbondSelf, BondSelf, Bond, Unbond, NothingSent
  <2> QED BY <2>1, <2>2, MovesBonded, BeforeReports
<1>5. ASSUME EndBeginBlock \/ (\E c \in Adjusted : ToggleLimit(c)) PROVE ViewsFollow'
  <2>1. phase # "report" /\ phase' # "report" /\ UNCHANGED <<vals, synced, view, reported>>
    BY <1>5 DEF EndBeginBlock, ToggleLimit
  <2> QED BY <2>1, BeforeReports
<1>6. ASSUME NEW set \in SUBSET Validators, NEW mature \in SUBSET Validators,
             StakingEndBlocker(set, mature)
      PROVE  ViewsFollow'
  <2> DEFINE old == Bonded(vals)
             ops == ValsetHooks(old, set)
  <2>1. /\ phase = "deliver" /\ phase' = "report" /\ Bonded(vals') = set
        /\ UNCHANGED <<view, reported>> /\ reported = {}
    BY <1>6, RankingFacts DEF StakingEndBlocker, ViewsFollow
  <2>2. /\ piped' = piped \cup ops
        /\ scheduled' = IF ops = {} THEN scheduled ELSE scheduled \cup active
        /\ synced' = IF ops = {} THEN synced ELSE synced \cap (active \cup scheduled)
    BY <1>6 DEF StakingEndBlocker, sendAsync
  <2>3. Reported("bonded")' = set \ old /\ Reported("unbonded")' = old \ set
    <3>1. \A o \in piped : o.op \notin {"bonded", "unbonded"}
      BY <2>1 DEF EventsByPhase
    <3>2. /\ \A x \in set \ old : Op("bonded", x) \in piped'
          /\ \A x \in old \ set : Op("unbonded", x) \in piped'
      BY <2>2 DEF ValsetHooks
    <3>3. \A o \in piped' : \/ o \in piped
                            \/ \E x \in set \ old : o = Op("bonded", x)
                            \/ \E x \in old \ set : o = Op("unbonded", x)
      BY <2>2 DEF ValsetHooks
    <3> HIDE DEF old, ops
    <3>4. \A o \in piped' : /\ o.op = "bonded" => o.val \in set \ old
                            /\ o.op = "unbonded" => o.val \in old \ set
      BY <3>1, <3>3 DEF Op
    <3>5. \A x, k : Op(k, x).op = k /\ Op(k, x).val = x
      BY DEF Op
    <3>6. \A x : /\ x \in set \ old <=> \E o \in piped' : o.op = "bonded" /\ o.val = x
                 /\ x \in old \ set <=> \E o \in piped' : o.op = "unbonded" /\ o.val = x
      BY <3>2, <3>4, <3>5
    <3> QED BY <3>6 DEF Reported
  <2>4. ops = {} => set = old
    <3> SUFFICES ASSUME set # old PROVE ops # {}
      OBVIOUS
    <3>1. (\E x : x \in set \ old) \/ (\E x : x \in old \ set)
      OBVIOUS
    <3> QED BY <3>1 DEF ValsetHooks
  <2> HIDE DEF ops
  <2>5. ASSUME NEW c \in synced' PROVE view[c] = old
    BY <2>1, <2>2 DEF ViewsFollow
  <2>6. ASSUME NEW c \in synced', c \in scheduled' PROVE After(c)' = set
    <3>1. After(c)' = (view[c] \cup (set \ old)) \ (old \ set)
      BY <2>1, <2>3 DEF After
    <3> QED BY <2>5, <2>6, <3>1
  <2>7. ASSUME NEW c \in synced', c \notin scheduled' PROVE view[c] = set
    BY <2>2, <2>4, <2>5, <2>7
  <2> QED BY <2>1, <2>6, <2>7 DEF ViewsFollow
<1>7. ASSUME NEW c \in Contracts, SendValsetUpdate(c) \/ (\E v \in Validators : SendValsetUpdateUnbond(c, v))
      PROVE  ViewsFollow'
  <2>1. Bonded(vals') = Bonded(vals)
    BY <1>7, UnbondMoves, MovesBonded DEF SendValsetUpdate, SendValsetUpdateUnbond
  <2>2. /\ phase = "report" /\ phase' = "report" /\ c \in scheduled \ reported
        /\ UNCHANGED <<piped, scheduled, synced>> /\ reported' = reported \cup {c}
        /\ view' = [view EXCEPT ![c] = After(c)]
    BY <1>7 DEF SendValsetUpdate, SendValsetUpdateUnbond, ReportDone, SendReport, After
  <2>3. view \in [Contracts -> SUBSET Validators] /\ synced \subseteq Contracts
    BY DEF TypeInv, TypeOK
  <2>4. \A x \in synced : (x # c => After(x)' = After(x) /\ view'[x] = view[x])
                          /\ (x = c => view'[x] = After(c))
    BY <2>2, <2>3 DEF After, Reported
  <2> HIDE DEF After
  <2>5. ASSUME NEW x \in synced
        PROVE  /\ x \in scheduled \ reported' => After(x)' = Bonded(vals')
               /\ x \notin scheduled \ reported' => view'[x] = Bonded(vals')
    BY <2>1, <2>2, <2>4 DEF ViewsFollow
  <2> QED BY <2>2, <2>5 DEF ViewsFollow
<1>8. ASSUME NEW c \in Contracts, RejectValsetUpdate(c) \/ FailValsetUpdate(c) PROVE ViewsFollow'
  <2>1. /\ phase = "report" /\ UNCHANGED <<phase, vals, view, piped, scheduled>>
        /\ reported' = reported \cup {c} /\ synced' = synced \ {c}
    BY <1>8 DEF RejectValsetUpdate, FailValsetUpdate, ReportDone
  <2>2. \A x : After(x)' = After(x)
    BY <2>1 DEF After, Reported
  <2> QED BY <2>1, <2>2 DEF ViewsFollow
<1>9. ASSUME ClearPipedValsetOperations PROVE ViewsFollow'
  BY <1>9 DEF ClearPipedValsetOperations, ViewsFollow
<1>10. ASSUME UNCHANGED vars PROVE ViewsFollow'
  <2>1. UNCHANGED <<phase, vals, view, piped, scheduled, synced, reported>>
    BY <1>10 DEF vars
  <2>2. \A x : After(x)' = After(x)
    BY <2>1 DEF After, Reported
  <2> QED BY <2>1, <2>2 DEF ViewsFollow
<1> QED BY <1>1, <1>2, <1>3, <1>4, <1>5, <1>6, <1>7, <1>8, <1>9, <1>10 DEF Next

-----------------------------------------------------------------------------
(* What the contracts are told of slashes *)

Fair(c, s) ==
  2 * Precision * Distance(s.share * vals[s.val].shares, dels[<<c, s.val>>] * s.burned)
    <= vals[s.val].shares * (Precision + s.burned)

(* The entries of a report are right for the shares it is made from. *)
LEMMA EntriesAreFair ==
  ASSUME IsFiniteSet(Contracts), TypeInv, ~ReportFails, NEW c \in Contracts,
         NEW s \in SlashedEntries(c)
  PROVE  s.val \in DOMAIN vals /\ WasSlashed(s.val) /\ Fair(c, s)
<1>1. PICK o \in piped :
        /\ o.op = "slashed"
        /\ s = [val |-> o.val, burned |-> o.burned, share |-> DelegatorSlashAmount(c, o.val, o.burned)]
  BY DEF SlashedEntries
<1>2. o.val \in DOMAIN vals /\ o.val \in Validators /\ o.burned \in SlashAmounts
  BY <1>1 DEF ReportFails, TypeInv, TypeOK, Operation
<1>3. s.val = o.val /\ s.burned = o.burned
  BY <1>1
<1> DEFINE d == dels[<<c, s.val>>]
           n == vals[s.val].shares
           b == s.burned
           P == Precision
           y == s.share
<1>4. d \in Nat /\ n \in Nat /\ b \in Nat /\ P \in Nat \ {0}
  BY <1>2, <1>3, ValsetAssumption, PrecisionAssumption DEF TypeInv, TypeOK, Validator
<1>5. d <= n
  BY <1>2, <1>3, OwnedShares
<1>6. y = IF n = 0 THEN 0 ELSE RoundedQuo(RoundedQuo(d * P, n) * b, P)
  BY <1>1 DEF DelegatorSlashAmount
<1>7. Fair(c, s) <=> 2 * P * Distance(y * n, d * b) <= n * (P + b)
  BY DEF Fair
<1> DEFINE x == RoundedQuo(RoundedQuo(d * P, n) * b, P)
<1>8. n # 0 => /\ x \in Nat
               /\ 2 * P * (x * n - d * b) <= n * (P + b)
               /\ 2 * P * (d * b - x * n) <= n * (P + b)
  <2> HIDE DEF d, n, b, x
  <2> SUFFICES ASSUME n # 0
               PROVE  /\ x \in Nat
                      /\ 2 * P * (x * n - d * b) <= n * (P + b)
                      /\ 2 * P * (d * b - x * n) <= n * (P + b)
    OBVIOUS
  <2>1. n \in Nat \ {0}
    BY <1>4
  <2> QED BY <1>4, <2>1, TwiceRounded DEF x
<1> HIDE DEF d, n, b, P, x, y
<1>9. CASE n = 0
  <2>1. d = 0 /\ y = 0
    BY <1>4, <1>5, <1>6, <1>9
  <2>2. y * n = 0 /\ d * b = 0 /\ n * (P + b) = 0
    BY <1>4, <1>9, <2>1
  <2>3. Distance(0, 0) = 0
    BY DEF Distance
  <2>4. 2 * P * 0 = 0
    BY <1>4
  <2>5. Fair(c, s)
    BY <1>7, <2>2, <2>3, <2>4
  <2> QED BY <1>1, <1>2, <1>3, <2>5 DEF WasSlashed
<1>10. CASE n # 0
  <2>1. y = x
    BY <1>6, <1>10 DEF x
  <2>2. Distance(y * n, d * b) = y * n - d * b \/ Distance(y * n, d * b) = d * b - y * n
    BY DEF Distance
  <2>3. Fair(c, s)
    BY <1>7, <1>8, <1>10, <2>1, <2>2
  <2> QED BY <1>1, <1>2, <1>3, <2>3 DEF WasSlashed
<1> QED BY <1>9, <1>10

(* SlashReportsAreFair, entry by entry. *)
LEMMA FairParts ==
  SlashReportsAreFair <=>
    \A c \in Contracts : \A s \in told[c] : s.val \notin moved => Fair(c, s)
BY DEF SlashReportsAreFair, Fair

(* The same after a step. *)
LEMMA FairPartsNext ==
  (SlashReportsAreFair <=>
    \A c \in Contracts : \A s \in told[c] : s.val \notin moved => Fair(c, s))'
BY FairParts, PTL

(* Nothing is told outside of phase "report". *)
LEMMA NothingTold ==
  ASSUME \A c \in Contracts : told'[c] = {}
  PROVE  ReportsFollow' /\ SlashReportsAreFair'
BY DEF ReportsFollow, SlashReportsAreFair

(* Every step keeps what was told about slashes fair. *)
LEMMA NextReports ==
  ASSUME IsFiniteSet(Contracts), TypeInv, ReportsFollow, SlashReportsAreFair, [Next]_vars
  PROVE  ReportsFollow' /\ SlashReportsAreFair'
<1>1. ASSUME phase # "report", told' = told PROVE ReportsFollow' /\ SlashReportsAreFair'
  BY <1>1, NothingTold DEF ReportsFollow
<1>2. ASSUME NEW c \in Contracts, ReportDone(c), SendReport(c),
             NEW v, \/ UNCHANGED <<vals, dels, moved>>
                    \/ v \in Validators /\ Moves(v) /\ SharesMoved(v)
      PROVE  ReportsFollow' /\ SlashReportsAreFair'
  <2>1. /\ phase' = "report" /\ piped' = piped /\ ~ReportFails
        /\ told' = [told EXCEPT ![c] = SlashedEntries(c)]
        /\ told \in [Contracts -> SUBSET Entry]
    BY <1>2 DEF ReportDone, SendReport, TypeInv
  <2>2. ASSUME NEW x \in Contracts, NEW s \in told'[x]
        PROVE  /\ s.val \in Validators
               /\ WasSlashed(s.val)
               /\ s.val \in moved \/ s.val \in DOMAIN vals
               /\ s.val \notin moved => Fair(x, s)
    <3>1. CASE x = c
      <4>1. s \in SlashedEntries(c) /\ s \in Entry
        BY <2>1, <2>2, <3>1, EntryTypes
      <4> QED BY <2>1, <3>1, <4>1, EntriesAreFair DEF Entry
    <3>2. CASE x # c
      <4>1. s \in told[x] /\ s \in Entry
        BY <2>1, <2>2, <3>2
      <4> QED BY <4>1, FairParts DEF ReportsFollow, Entry
    <3> QED BY <3>1, <3>2
  <2>3. ASSUME NEW x \in Contracts, NEW s \in told'[x]
        PROVE  /\ WasSlashed(s.val)'
               /\ s.val \in moved' \/ s.val \in DOMAIN vals'
               /\ s.val \notin moved' => Fair(x, s)'
    <3>1. WasSlashed(s.val)'
      BY <2>1, <2>2, <2>3 DEF WasSlashed
    <3>2. CASE UNCHANGED <<vals, dels, moved>>
      BY <2>2, <2>3, <3>1, <3>2 DEF Fair
    <3>3. CASE v \in Validators /\ Moves(v) /\ SharesMoved(v)
      <4>1. CASE s.val = v
        BY <2>2, <2>3, <3>1, <3>3, <4>1 DEF SharesMoved
      <4>2. CASE s.val # v
        <5>1. s.val \in moved => s.val \in moved'
          BY <3>3 DEF SharesMoved
        <5>2. ASSUME s.val \notin moved
              PROVE  /\ s.val \in DOMAIN vals' /\ vals'[s.val] = vals[s.val]
                     /\ dels'[<<x, s.val>>] = dels[<<x, s.val>>]
          BY <2>2, <2>3, <3>3, <4>2, <5>2 DEF Moves, Kept
        <5>3. s.val \notin moved => Fair(x, s)'
          BY <2>2, <2>3, <5>2 DEF Fair
        <5> QED BY <2>2, <2>3, <3>1, <5>1, <5>2, <5>3
      <4> QED BY <4>1, <4>2
    <3> QED BY <1>2, <3>2, <3>3
  <2>4. ReportsFollow'
    BY <2>1, <2>3 DEF ReportsFollow
  <2>5. SlashReportsAreFair'
    BY <2>3, FairPartsNext
  <2> QED BY <2>4, <2>5
<1>3. ASSUME NEW c \in Contracts, SendValsetUpdate(c) PROVE ReportsFollow' /\ SlashReportsAreFair'
  BY <1>2, <1>3 DEF SendValsetUpdate
<1>4. ASSUME NEW c \in Contracts, NEW v \in Validators, SendValsetUpdateUnbond(c, v)
      PROVE  ReportsFollow' /\ SlashReportsAreFair'
  <2>1. Moves(v)
    BY <1>4, UnbondMoves DEF SendValsetUpdateUnbond
  <2> QED BY <1>2, <1>4, <2>1 DEF SendValsetUpdateUnbond
<1>5. ASSUME (\E c \in Contracts : RejectValsetUpdate(c) \/ FailValsetUpdate(c)) \/ UNCHANGED vars
      PROVE  ReportsFollow' /\ SlashReportsAreFair'
  <2>1. UNCHANGED <<phase, vals, dels, piped, told, moved>>
    BY <1>5 DEF RejectValsetUpdate, FailValsetUpdate, ReportDone, vars
  <2>2. ReportsFollow'
    BY <2>1 DEF ReportsFollow, WasSlashed
  <2>3. SlashReportsAreFair'
    BY <2>1 DEF SlashReportsAreFair
  <2> QED BY <2>2, <2>3
<1>6. ASSUME ClearPipedValsetOperations PROVE ReportsFollow' /\ SlashReportsAreFair'
  BY <1>6, NothingTold DEF ClearPipedValsetOperations
<1>7. ASSUME \/ \E v \in Validators, amt \in SlashAmounts :
                  SlashDowntime(v, amt) \/ SlashDoubleSign(v, amt)
             \/ EndBeginBlock
             \/ \E v \in Edited : EditValidator(v)
             \/ \E v \in Validators : Unjail(v) \/ UnbondSelf(v) \/ BondSelf(v)
             \/ \E c \in Contracts, v \in Validators : Bond(c, v) \/ Unbond(c, v)
             \/ \E c \in Adjusted : ToggleLimit(c)
             \/ \E set, mature \in SUBSET Validators : StakingEndBlocker(set, mature)
      PROVE  phase # "report" /\ told' = told
  BY <1>7 DEF SlashDowntime, SlashDoubleSign, EndBeginBlock, EditValidator, Unjail, UnbondSelf,
              BondSelf, Bond, Unbond, ToggleLimit, StakingEndBlocker
<1> QED BY <1>1, <1>3, <1>4, <1>5, <1>6, <1>7 DEF Next

-----------------------------------------------------------------------------
(* Theorems *)

(* Nothing was slashed, told or piped yet. *)
LEMMA InitValsetInv == ASSUME IsFiniteSet(Contracts), Init PROVE ValsetInv
<1>1. TypeInv
  BY InitTypes
<1>2. EventsByPhase /\ NoConflictingEvents
  BY DEF Init, EventsByPhase, NoConflictingEvents, Reported
<1>3. ReportsFollow /\ SlashReportsAreFair
  BY DEF Init, ReportsFollow, SlashReportsAreFair
<1>4. ViewsFollow
  <2>1. PICK set \in SUBSET Validators :
          /\ vals = [v \in Validators |->
                      IF v \in set THEN [NewValidator EXCEPT !.status = "bonded"] ELSE NewValidator]
          /\ view = [c \in Contracts |-> set]
    BY DEF Init, kSubset
  <2>2. NewValidator.status = "unbonded" /\ [NewValidator EXCEPT !.status = "bonded"].status = "bonded"
    BY DEF NewValidator
  <2>3. Bonded(vals) = set
    BY <2>1, <2>2 DEF Bonded
  <2> QED BY <2>1, <2>3 DEF Init, ViewsFollow
<1> QED BY <1>1, <1>2, <1>3, <1>4 DEF ValsetInv

(* The invariant of the validator set updates. *)
LEMMA ValsetInvariance == ASSUME IsFiniteSet(Contracts) PROVE Spec => []ValsetInv
<1>1. Init => ValsetInv
  BY InitValsetInv
<1>2. ASSUME ValsetInv, [Next]_vars PROVE ValsetInv'
  <2>1. TypeInv' /\ (EventsByPhase' /\ NoConflictingEvents') /\ ViewsFollow'
    BY <1>2, NextTypes, NextEvents, NextViews DEF ValsetInv
  <2>2. ReportsFollow' /\ SlashReportsAreFair'
    BY <1>2, NextReports DEF ValsetInv
  <2> QED BY <2>1, <2>2 DEF ValsetInv
<1> QED BY <1>1, <1>2, PTL DEF Spec

(* The types are kept: in particular no unbonding, slash or removal, in    *)
(* any order and with any rounding, drives tokens or shares below zero.    *)
THEOREM ValsetTypeCorrect == ASSUME IsFiniteSet(Contracts) PROVE Spec => []TypeOK
<1>1. ValsetInv => TypeOK
  BY DEF ValsetInv, TypeInv
<1> QED BY <1>1, ValsetInvariance, PTL

(* The comment of ValsetUpdateReport holds: no block reports a validator   *)
(* both bonded and unbonded, or tombstoned and unjailed.                   *)
THEOREM EventsNeverConflict == ASSUME IsFiniteSet(Contracts) PROVE Spec => []NoConflictingEvents
<1>1. ValsetInv => NoConflictingEvents
  BY DEF ValsetInv
<1> QED BY <1>1, ValsetInvariance, PTL

(* Contracts that were sent and accepted every report know the active set  *)
(* at every commit, although reports carry only differences by type.       *)
THEOREM ReportsCarryTheValset ==
  ASSUME IsFiniteSet(Contracts) PROVE Spec => []SyncedContractsKnowTheValset
<1>1. ValsetInv => SyncedContractsKnowTheValset
  BY DEF ValsetInv, ViewsFollow, SyncedContractsKnowTheValset
<1> QED BY <1>1, ValsetInvariance, PTL

(* The slash amounts computed by the EndBlocker are the contract's part up *)
(* to the two roundings, at every precision, stake and burned amount.      *)
THEOREM SlashAmountsAreFair == ASSUME IsFiniteSet(Contracts) PROVE Spec => []SlashReportsAreFair
<1>1. ValsetInv => SlashReportsAreFair
  BY DEF ValsetInv
<1> QED BY <1>1, ValsetInvariance, PTL
=============================================================================

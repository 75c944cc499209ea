------------------------------ MODULE SlashKey ------------------------------
(***************************************************************************)
(* A slash on its way from x/slashing to the contracts: the decorator      *)
(* takes it apart, the memory store keeps it as the bytes of a key, and    *)
(* the report is read back from those bytes.  Lengths and offsets are      *)
(* computed in the arithmetic of one byte when the key is read.            *)
(***************************************************************************)
EXTENDS Integers, Sequences

CONSTANTS
  ByteSize,    \* values of a byte: 256 in the code
  IntLen,      \* bytes of an int64: 8 in the code
  ValAddrs,    \* operator addresses, sequences of bytes
  Numbers,     \* heights and powers
  Amounts,     \* burned amounts, as text
  Fractions    \* slash fractions, as text

Bytes == 0 .. ByteSize - 1

(* n >> 8*k, for k up to the bytes of an integer *)
Shifted(n) ==
  LET shift[k \in 0 .. IntLen] == IF k = 0 THEN n ELSE shift[k - 1] \div ByteSize
  IN  shift

(* Numbers fit in an integer, and the text of an amount has a digit. *)
ASSUME BytesAssumption ==
  /\ ByteSize \in Nat \ {0} /\ IntLen \in Nat \ {0}
  /\ ValAddrs \cup Amounts \cup Fractions \subseteq Seq(Bytes)
  /\ <<>> \notin Amounts
  /\ Numbers \subseteq Nat
  /\ \A n \in Numbers : Shifted(n)[IntLen] = 0

VARIABLES
  slash,   \* what x/slashing says, by the positions of its call
  stage,   \* "slashed", "stored", "reported"
  piped,   \* the key in the memory store
  entry    \* the slashed entries of the report; none when reading panics

vars == <<slash, stage, piped, entry>>

ValidatorSlashed == 7

(* x/slashing and x/evidence call Slash(infraction height, power, ...). *)
Slash == [val : ValAddrs, height : Numbers, power : Numbers, amount : Amounts, fraction : Fractions]

Init ==
  /\ slash \in Slash
  /\ stage = "slashed"
  /\ piped = <<>>
  /\ entry = {}

-----------------------------------------------------------------------------
(* Writing *)

BigEndian(n) == [i \in 1 .. IntLen |-> Shifted(n)[IntLen - i] % ByteSize]

(* The address with its length, the operation, both numbers, the amount    *)
(* with its length, and the fraction up to the end.                        *)
BuildPipedValsetOpKey(op, val, info) ==
  <<Len(val) % ByteSize>> \o val \o <<op>>
    \o BigEndian(info.InfractionHeight) \o BigEndian(info.Power)
    \o <<Len(info.TotalSlashAmount) % ByteSize>> \o info.TotalSlashAmount \o info.SlashFraction

(* Variant: the arguments of the call under their proper names. *)
SlashInfo_Renamed(s) ==
  [InfractionHeight |-> s.height, Power |-> s.power,
   TotalSlashAmount |-> s.amount, SlashFraction |-> s.fraction]

(* StakingDecorator.Slash calls its first number power and its second one  *)
(* height, x/slashing passes them the other way round.                     *)
SlashInfo(s) ==
  [InfractionHeight |-> s.power, Power |-> s.height,
   TotalSlashAmount |-> s.amount, SlashFraction |-> s.fraction]

Store ==
  /\ stage = "slashed"
  /\ stage' = "stored"
  /\ piped' = BuildPipedValsetOpKey(ValidatorSlashed, slash.val, SlashInfo(slash))
  /\ UNCHANGED <<slash, entry>>

-----------------------------------------------------------------------------
(* Reading: key[a:b] with a and b computed in a byte *)

Byte(n) == n % ByteSize
IsSlice(key, a, b) == Byte(a) <= Byte(b) /\ Byte(b) <= Len(key)
Slice(key, a, b) == SubSeq(key, Byte(a) + 1, Byte(b))
At(key, i) == key[Byte(i) + 1]

BigEndianToUint64(s) ==
  LET value[i \in 0 .. IntLen] == IF i = 0 THEN 0 ELSE value[i - 1] * ByteSize + s[i]
  IN  value[IntLen]

(* iteratePipedValsetOperations on the key of a slash. *)
ReadSlash(key) ==
  LET n      == key[1]
      info   == n + 2
      length == info + IntLen + IntLen
      amount == length + 1
      an     == IF Byte(length) < Len(key) THEN At(key, length) ELSE 0
  IN  IF /\ Len(key) > 1 + n + 1 + IntLen + IntLen + 1
         /\ IsSlice(key, 1, n + 1) /\ Byte(n + 1) < Len(key) /\ At(key, n + 1) = ValidatorSlashed
         /\ IsSlice(key, info, info + IntLen) /\ IsSlice(key, info + IntLen, length)
         /\ IsSlice(key, amount, amount + an) /\ Byte(amount + an) <= Len(key)
      THEN {[val      |-> Slice(key, 1, n + 1),
             power    |-> BigEndianToUint64(Slice(key, info, info + IntLen)),
             height   |-> BigEndianToUint64(Slice(key, info + IntLen, length)),
             amount   |-> Slice(key, amount, amount + an),
             fraction |-> SubSeq(key, Byte(amount + an) + 1, Len(key))]}
      ELSE {}

Report ==
  /\ stage = "stored"
  /\ stage' = "reported"
  /\ entry' = ReadSlash(piped)
  /\ UNCHANGED <<slash, piped>>

Next == Store \/ Report

Spec == Init /\ [][Next]_vars

-----------------------------------------------------------------------------
(* Properties *)

(* The last offset that is computed in a byte does not overflow. *)
Fits(s) == Len(s.val) + 2 + IntLen + IntLen + 1 + Len(s.amount) < ByteSize

(* Through the exchanged names, the key and the byte arithmetic, a         *)
(* contract is told the validator, height, power, amount and fraction of   *)
(* the slash, as long as the address leaves room in a byte for the rest.   *)
SlashIsReported == stage = "reported" /\ Fits(slash) => entry = {slash}
=============================================================================

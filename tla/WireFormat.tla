----------------------------- MODULE WireFormat -----------------------------
(***************************************************************************)
(* Which bytes stand for which message, said without a decoder.            *)
(*                                                                         *)
(* A part [type, from, bytes, to] says that bytes, read as fields of a     *)
(* message of that type, turn the message from into the message to.  A set *)
(* of parts is closed when each of them is empty or starts with a field    *)
(* whose rest is again a part of the set, and so is the message a field    *)
(* holds.  A group [depth, bytes] is the same for what skip steps over.    *)
(***************************************************************************)
EXTENDS ProtoDecoder, ProtoMessages

Byte         == 0 .. 255
Word         == 0 .. 2 ^ WordBits - 1
FieldNumbers == 1 .. 2 ^ (FieldBits - 1) - 1

(* A field of message m of type t gets a value; a list grows by it. *)
Put(t, m, name, v) == [m EXCEPT ![name] = IF Appends(t, name) THEN Append(@, v) ELSE v]

-----------------------------------------------------------------------------
(* Unknown fields *)

SkipRest(U, d, s) == IF d = 0 THEN s = <<>> ELSE [depth |-> d, bytes |-> s] \in U

(* What follows a tag: a varint, n bytes, or bytes after their number. *)
SkipsVarint(U, d, rest) ==
  \E v \in Word, s \in Seq(Byte) : rest = VarintBytes[v] \o s /\ SkipRest(U, d, s)

SkipsBytes(U, d, n, rest) ==
  \E f \in Seq(Byte), s \in Seq(Byte) : Len(f) = n /\ rest = f \o s /\ SkipRest(U, d, s)

SkipsString(U, d, rest) ==
  \E f \in Seq(Byte), s \in Seq(Byte) :
    Len(f) \in Word /\ rest = VarintBytes[Len(f)] \o (f \o s) /\ SkipRest(U, d, s)

(* d groups are open. *)
SkipField(U, d, tag, rest) ==
  \/ tag % 8 = 0 /\ SkipsVarint(U, d, rest)
  \/ tag % 8 = 1 /\ SkipsBytes(U, d, 8, rest)
  \/ tag % 8 = 2 /\ SkipsString(U, d, rest)
  \/ tag % 8 = 3 /\ SkipRest(U, d + 1, rest)
  \/ tag % 8 = 4 /\ d > 0 /\ SkipRest(U, d - 1, rest)
  \/ tag % 8 = 5 /\ SkipsBytes(U, d, 4, rest)

Groups(U) ==
  \A u \in U :
    /\ u.depth \in Nat
    /\ \E tag \in Word, rest \in Seq(Byte) :
         u.bytes = VarintBytes[tag] \o rest /\ SkipField(U, u.depth, tag, rest)

-----------------------------------------------------------------------------
(* Known fields *)

(* What follows the tag of case c in a message m of type t: the number v,  *)
(* and tail, which ends with the part y of the fields after this one.      *)
Holds(P, t, m, c, v, tail, y) ==
  \/ /\ c.wireType # 2
     /\ tail = y.bytes
     /\ y.from = Put(t, m, c.name, IF c.kind = "bool" THEN v # 0 ELSE v % 2 ^ UintBits)
  \/ /\ c.wireType = 2 /\ c.kind \in {"string", "int"}
     /\ \E s \in Seq(Byte) :
          /\ v = Len(s) /\ tail = s \o y.bytes
          /\ c.kind = "int" => s \in Seq(48 .. 57)
          /\ y.from = Put(t, m, c.name, IF c.kind = "int" /\ s = <<>> THEN m[c.name] ELSE s)
  \/ /\ c.wireType = 2 /\ c.kind \in {"message", "repeated"}
     /\ \E z \in P :
          /\ z.type = c.of
          /\ z.from = IF c.kind = "repeated" THEN Zero[c.of] ELSE m[c.name]
          /\ v = Len(z.bytes) /\ tail = z.bytes \o y.bytes
          /\ y.from = Put(t, m, c.name, z.to)

(* The fields after the first one are a part of R, embedded messages are   *)
(* parts of P.                                                             *)
Field(P, R, U, x, tag, rest) ==
  LET n == tag \div 8
  IN  /\ n \in FieldNumbers
      /\ tag % 8 # 4
      /\ \E y \in R :
           /\ y.type = x.type /\ y.to = x.to
           /\ IF n \in DOMAIN Unmarshal[x.type]
              THEN /\ tag % 8 = Unmarshal[x.type][n].wireType
                   /\ \E v \in Word, tail \in Seq(Byte) :
                        /\ rest = VarintBytes[v] \o tail
                        /\ Holds(P, x.type, x.from, Unmarshal[x.type][n], v, tail, y)
              ELSE /\ y.from = x.from
                   /\ \E u \in U : u.depth = 0 /\ x.bytes = u.bytes \o y.bytes

Closed(P, R, U) ==
  \A x \in R :
    /\ x.bytes \in Seq(Byte)
    /\ \/ x.bytes = <<>> /\ x.to = x.from
       \/ \E tag \in Word, rest \in Seq(Byte) :
            x.bytes = VarintBytes[tag] \o rest /\ Field(P, R, U, x, tag, rest)

-----------------------------------------------------------------------------
(* Inputs *)

(* Each field of m is the one of sent or missing, and a list lost elements *)
(* at its end only.                                                        *)
Partial(t, sent, m) ==
  \A f \in DOMAIN sent :
    \/ m[f] = sent[f]
    \/ m[f] = Zero[t][f]
    \/ Appends(t, f) /\ m[f] = SubSeq(sent[f], 1, Len(m[f]))

(* bytes W stand for the message in.sent: R holds the parts of the message *)
(* itself, P those of the messages in it.  The input has all of W, or the  *)
(* beginning of it; then the message is one of which no field occurs       *)
(* twice, so what is read on the way to it is a part of it.                *)
StandsFor(in, W, P, R, U) ==
  /\ Groups(U) /\ Closed(P, P, U) /\ Closed(P, R, U)
  /\ \A x \in R : x.type = in.type /\ x.to = in.sent
  /\ [type |-> in.type, from |-> Zero[in.type], bytes |-> W, to |-> in.sent] \in R
  /\ Len(in.bytes) <= Len(W) /\ \A i \in 1 .. Len(in.bytes) : in.bytes[i] = W[i]
  /\ in.how = "valid" => Len(in.bytes) = Len(W)
  /\ in.how = "cut" => \A x \in R : Partial(in.type, in.sent, x.from)

(* There are such bytes and parts. *)
IsSent(in) == \E W, P, R, U : StandsFor(in, W, P, R, U)

(* The inputs that claim to stem from a message do. *)
InputsAreSent == \A in \in Inputs : in.how \in {"valid", "cut"} => IsSent(in)

-----------------------------------------------------------------------------
(* Marshal *)

(* What the messages hold: strings, amounts, which have a digit at least,  *)
(* and numbers that fit into uint32.                                       *)
Text    == Seq(Byte)
Digits  == Seq(48 .. 57) \ {<<>>}
Uint32s == 0 .. 2 ^ UintBits - 1

Coins       == [Denom : Text, Amount : Digits]
CapInfos    == [Contract : Text, Delegated : Coins, Cap : Coins]
ParamValues == [TotalContractsMaxCap : Coins, EpochLength : Uint32s, MaxGasEndBlocker : Uint32s]

Messages ==
  [Coin |-> Coins,
   VirtualStakingMaxCapInfo |-> CapInfos,
   Params |-> ParamValues,
   GenesisState |-> [Params : ParamValues],
   ScheduledWork |-> [Repeat : BOOLEAN],
   ValidatorAddress |-> [Address : Text],
   MsgSetVirtualStakingMaxCap |-> [Authority : Text, Contract : Text, MaxCap : Coins],
   MsgSetVirtualStakingMaxCapResponse |-> {Empty},
   QueryVirtualStakingMaxCapLimitRequest |-> [Address : Text],
   QueryVirtualStakingMaxCapLimitResponse |-> [Delegated : Coins, Cap : Coins],
   QueryVirtualStakingMaxCapLimitsRequest |-> {Empty},
   QueryVirtualStakingMaxCapLimitsResponse |-> [MaxCapInfos : Seq(CapInfos)],
   QueryParamsRequest |-> {Empty},
   QueryParamsResponse |-> [Params : ParamValues],
   ProviderParams |-> {Empty},
   ProviderGenesisState |-> [Params : {Empty}],
   ParamsRequest |-> {Empty},
   ParamsResponse |-> [Params : {Empty}],
   MsgTest |-> [Sender : Text],
   MsgTestResponse |-> {Empty},
   MsgUpdateParams |-> [Authority : Text, Params : {Empty}],
   MsgUpdateParamsResponse |-> {Empty}]

(* The decoders are the generated ones. *)
Generated == Unmarshal = Unmarshals /\ Zero = Zeros /\ Types = DOMAIN Unmarshals

(* The input is what Marshal returns for a message, or the beginning of it. *)
IsMarshaled(in) ==
  LET W == MarshalOf(in.type, in.sent)
  IN  /\ in.sent \in Messages[in.type]
      /\ Len(W) < 2 ^ (WordBits - 1)
      /\ \/ in.how = "valid" /\ in.bytes = W
         \/ in.how = "cut" /\ \E n \in 0 .. Len(W) : in.bytes = SubSeq(W, 1, n)
=============================================================================

--------------------------- MODULE ProtoMessages ----------------------------
(***************************************************************************)
(* The messages of both modules as the generated code treats them.  Each   *)
(* has a zero value, a Marshal (MarshalToSizedBuffer), a Size and the      *)
(* cases of its Unmarshal, all four written down from the code on their    *)
(* own.  Strings are sequences of bytes; a type is named by a string.      *)
(*                                                                         *)
(* Marshal fills a buffer from its end: the fields appear innermost first, *)
(* and each Put takes what was written so far.                             *)
(***************************************************************************)
EXTENDS Integers, Sequences

-----------------------------------------------------------------------------
(* Varints *)

(* Bits that it takes to write x. *)
Len64[x \in Nat] == IF x = 0 THEN 0 ELSE 1 + Len64[x \div 2]

(* Bytes of the varint of x: (math_bits.Len64(x|1) + 6) / 7. *)
sov(x) == (Len64[IF x % 2 = 0 THEN x + 1 ELSE x] + 6) \div 7

VarintBytes[v \in Nat] ==
  IF v >= 128 THEN <<(v % 128) + 128>> \o VarintBytes[v \div 128] ELSE <<v>>

(* The offset moves back by sov(v) and the loop writes forward from there, *)
(* over what was there if it needs more room.                              *)
encodeVarint(dAtA, v) ==
  LET w    == VarintBytes[v]
      room == [i \in 1 .. sov(v) |-> 0] \o dAtA
  IN  w \o SubSeq(room, Len(w) + 1, Len(room))

PutTag(tag, dAtA) == <<tag>> \o dAtA

(* The five ways in which a field is written. *)
PutString(tag, s, dAtA) ==
  IF s = <<>> THEN dAtA ELSE PutTag(tag, encodeVarint(s \o dAtA, Len(s)))
PutUint(tag, v, dAtA) ==
  IF v = 0 THEN dAtA ELSE PutTag(tag, encodeVarint(dAtA, v))
PutBool(tag, b, dAtA) ==
  IF b THEN PutTag(tag, <<1>> \o dAtA) ELSE dAtA
PutMessage(tag, m, dAtA) == PutTag(tag, encodeVarint(m \o dAtA, Len(m)))
PutRepeated(tag, ms, dAtA) ==
  LET last[k \in 0 .. Len(ms)] ==
        IF k = 0 THEN dAtA ELSE PutMessage(tag, ms[Len(ms) + 1 - k], last[k - 1])
  IN  last[Len(ms)]

SizeBytes(l)   == 1 + l + sov(l)
SizeString(s)  == IF s = <<>> THEN 0 ELSE SizeBytes(Len(s))
SizeUint(v)    == IF v = 0 THEN 0 ELSE 1 + sov(v)
SizeBool(b)    == IF b THEN 2 ELSE 0
SizeMessage(l) == SizeBytes(l)
SizeRepeated(ls) ==
  LET upTo[i \in 0 .. Len(ls)] == IF i = 0 THEN 0 ELSE upTo[i - 1] + SizeBytes(ls[i])
  IN  upTo[Len(ls)]

(* Marshal: a buffer of size bytes is filled from its end with n bytes,    *)
(* and its first n bytes are the result.  A buffer that is too small is an *)
(* index out of range.                                                     *)
Panic == <<-1>>
Marshal(dAtA, size) ==
  IF size < Len(dAtA) THEN Panic
  ELSE SubSeq([i \in 1 .. size - Len(dAtA) |-> 0] \o dAtA, 1, Len(dAtA))

String(name)        == [wireType |-> 2, name |-> name, kind |-> "string", of |-> ""]
Amount(name)        == [wireType |-> 2, name |-> name, kind |-> "int", of |-> ""]
Message(name, of)   == [wireType |-> 2, name |-> name, kind |-> "message", of |-> of]
Repeated(name, of)  == [wireType |-> 2, name |-> name, kind |-> "repeated", of |-> of]
Uint32(name)        == [wireType |-> 0, name |-> name, kind |-> "uint32", of |-> ""]
Bool(name)          == [wireType |-> 0, name |-> name, kind |-> "bool", of |-> ""]

-----------------------------------------------------------------------------
(* cosmos.base.v1beta1.Coin, external: the amount is always written. *)

Coin_Zero       == [Denom |-> <<>>, Amount |-> <<>>]
Coin_Marshal(m) == PutString(\h0a, m.Denom, PutTag(\h12, encodeVarint(m.Amount, Len(m.Amount))))
Coin_Size(m)    == SizeString(m.Denom) + SizeBytes(Len(m.Amount))
Coin_Unmarshal  == <<String("Denom"), Amount("Amount")>>

-----------------------------------------------------------------------------
(* x/meshsecurity: meshsecurity.pb.go *)

VirtualStakingMaxCapInfo_Zero ==
  [Contract |-> <<>>, Delegated |-> Coin_Zero, Cap |-> Coin_Zero]
VirtualStakingMaxCapInfo_Marshal(m) ==
  PutString(\h0a, m.Contract,
    PutMessage(\h12, Coin_Marshal(m.Delegated), PutMessage(\h1a, Coin_Marshal(m.Cap), <<>>)))
VirtualStakingMaxCapInfo_Size(m) ==
  SizeString(m.Contract) + SizeMessage(Coin_Size(m.Delegated)) + SizeMessage(Coin_Size(m.Cap))
VirtualStakingMaxCapInfo_Unmarshal ==
  <<String("Contract"), Message("Delegated", "Coin"), Message("Cap", "Coin")>>

Params_Zero ==
  [TotalContractsMaxCap |-> Coin_Zero, EpochLength |-> 0, MaxGasEndBlocker |-> 0]
Params_Marshal(m) ==
  PutMessage(\h0a, Coin_Marshal(m.TotalContractsMaxCap),
    PutUint(\h10, m.EpochLength, PutUint(\h18, m.MaxGasEndBlocker, <<>>)))
Params_Size(m) ==
  SizeMessage(Coin_Size(m.TotalContractsMaxCap)) + SizeUint(m.EpochLength) + SizeUint(m.MaxGasEndBlocker)
Params_Unmarshal ==
  <<Message("TotalContractsMaxCap", "Coin"), Uint32("EpochLength"), Uint32("MaxGasEndBlocker")>>

(* genesis.pb.go *)

GenesisState_Zero       == [Params |-> Params_Zero]
GenesisState_Marshal(m) == PutMessage(\h0a, Params_Marshal(m.Params), <<>>)
GenesisState_Size(m)    == SizeMessage(Params_Size(m.Params))
GenesisState_Unmarshal  == <<Message("Params", "Params")>>

(* scheduler.pb.go *)

ScheduledWork_Zero       == [Repeat |-> FALSE]
ScheduledWork_Marshal(m) == PutBool(\h08, m.Repeat, <<>>)
ScheduledWork_Size(m)    == SizeBool(m.Repeat)
ScheduledWork_Unmarshal  == <<Bool("Repeat")>>

ValidatorAddress_Zero       == [Address |-> <<>>]
ValidatorAddress_Marshal(m) == PutString(\h0a, m.Address, <<>>)
ValidatorAddress_Size(m)    == SizeString(m.Address)
ValidatorAddress_Unmarshal  == <<String("Address")>>

(* tx.pb.go *)

MsgSetVirtualStakingMaxCap_Zero ==
  [Authority |-> <<>>, Contract |-> <<>>, MaxCap |-> Coin_Zero]
MsgSetVirtualStakingMaxCap_Marshal(m) ==
  PutString(\h0a, m.Authority,
    PutString(\h12, m.Contract, PutMessage(\h1a, Coin_Marshal(m.MaxCap), <<>>)))
MsgSetVirtualStakingMaxCap_Size(m) ==
  SizeString(m.Authority) + SizeString(m.Contract) + SizeMessage(Coin_Size(m.MaxCap))
MsgSetVirtualStakingMaxCap_Unmarshal ==
  <<String("Authority"), String("Contract"), Message("MaxCap", "Coin")>>

(* Messages without fields have the empty record as only value. *)
Empty == [f \in {} |-> 0]

MsgSetVirtualStakingMaxCapResponse_Zero       == Empty
MsgSetVirtualStakingMaxCapResponse_Marshal(m) == <<>>
MsgSetVirtualStakingMaxCapResponse_Size(m)    == 0
MsgSetVirtualStakingMaxCapResponse_Unmarshal  == <<>>

(* query.pb.go *)

QueryVirtualStakingMaxCapLimitRequest_Zero       == [Address |-> <<>>]
QueryVirtualStakingMaxCapLimitRequest_Marshal(m) == PutString(\h0a, m.Address, <<>>)
QueryVirtualStakingMaxCapLimitRequest_Size(m)    == SizeString(m.Address)
QueryVirtualStakingMaxCapLimitRequest_Unmarshal  == <<String("Address")>>

QueryVirtualStakingMaxCapLimitResponse_Zero == [Delegated |-> Coin_Zero, Cap |-> Coin_Zero]
QueryVirtualStakingMaxCapLimitResponse_Marshal(m) ==
  PutMessage(\h0a, Coin_Marshal(m.Delegated), PutMessage(\h12, Coin_Marshal(m.Cap), <<>>))
QueryVirtualStakingMaxCapLimitResponse_Size(m) ==
  SizeMessage(Coin_Size(m.Delegated)) + SizeMessage(Coin_Size(m.Cap))
QueryVirtualStakingMaxCapLimitResponse_Unmarshal ==
  <<Message("Delegated", "Coin"), Message("Cap", "Coin")>>

QueryVirtualStakingMaxCapLimitsRequest_Zero       == Empty
QueryVirtualStakingMaxCapLimitsRequest_Marshal(m) == <<>>
QueryVirtualStakingMaxCapLimitsRequest_Size(m)    == 0
QueryVirtualStakingMaxCapLimitsRequest_Unmarshal  == <<>>

QueryVirtualStakingMaxCapLimitsResponse_Zero == [MaxCapInfos |-> <<>>]
QueryVirtualStakingMaxCapLimitsResponse_Marshal(m) ==
  PutRepeated(\h0a, [i \in DOMAIN m.MaxCapInfos |->
                       VirtualStakingMaxCapInfo_Marshal(m.MaxCapInfos[i])], <<>>)
QueryVirtualStakingMaxCapLimitsResponse_Size(m) ==
  SizeRepeated([i \in DOMAIN m.MaxCapInfos |-> VirtualStakingMaxCapInfo_Size(m.MaxCapInfos[i])])
QueryVirtualStakingMaxCapLimitsResponse_Unmarshal ==
  <<Repeated("MaxCapInfos", "VirtualStakingMaxCapInfo")>>

QueryParamsRequest_Zero       == Empty
QueryParamsRequest_Marshal(m) == <<>>
QueryParamsRequest_Size(m)    == 0
QueryParamsRequest_Unmarshal  == <<>>

QueryParamsResponse_Zero       == [Params |-> Params_Zero]
QueryParamsResponse_Marshal(m) == PutMessage(\h0a, Params_Marshal(m.Params), <<>>)
QueryParamsResponse_Size(m)    == SizeMessage(Params_Size(m.Params))
QueryParamsResponse_Unmarshal  == <<Message("Params", "Params")>>

-----------------------------------------------------------------------------
(* x/meshsecurityprovider: genesis.pb.go *)

ProviderParams_Zero       == Empty
ProviderParams_Marshal(m) == <<>>
ProviderParams_Size(m)    == 0
ProviderParams_Unmarshal  == <<>>

ProviderGenesisState_Zero       == [Params |-> ProviderParams_Zero]
ProviderGenesisState_Marshal(m) == PutMessage(\h0a, ProviderParams_Marshal(m.Params), <<>>)
ProviderGenesisState_Size(m)    == SizeMessage(ProviderParams_Size(m.Params))
ProviderGenesisState_Unmarshal  == <<Message("Params", "ProviderParams")>>

(* query.pb.go *)

ParamsRequest_Zero       == Empty
ParamsRequest_Marshal(m) == <<>>
ParamsRequest_Size(m)    == 0
ParamsRequest_Unmarshal  == <<>>

ParamsResponse_Zero       == [Params |-> ProviderParams_Zero]
ParamsResponse_Marshal(m) == PutMessage(\h0a, ProviderParams_Marshal(m.Params), <<>>)
ParamsResponse_Size(m)    == SizeMessage(ProviderParams_Size(m.Params))
ParamsResponse_Unmarshal  == <<Message("Params", "ProviderParams")>>

(* tx.pb.go *)

MsgTest_Zero       == [Sender |-> <<>>]
MsgTest_Marshal(m) == PutString(\h0a, m.Sender, <<>>)
MsgTest_Size(m)    == SizeString(m.Sender)
MsgTest_Unmarshal  == <<String("Sender")>>

MsgTestResponse_Zero       == Empty
MsgTestResponse_Marshal(m) == <<>>
MsgTestResponse_Size(m)    == 0
MsgTestResponse_Unmarshal  == <<>>

MsgUpdateParams_Zero == [Authority |-> <<>>, Params |-> ProviderParams_Zero]
MsgUpdateParams_Marshal(m) ==
  PutString(\h0a, m.Authority, PutMessage(\h12, ProviderParams_Marshal(m.Params), <<>>))
MsgUpdateParams_Size(m) ==
  SizeString(m.Authority) + SizeMessage(ProviderParams_Size(m.Params))
MsgUpdateParams_Unmarshal == <<String("Authority"), Message("Params", "ProviderParams")>>

MsgUpdateParamsResponse_Zero       == Empty
MsgUpdateParamsResponse_Marshal(m) == <<>>
MsgUpdateParamsResponse_Size(m)    == 0
MsgUpdateParamsResponse_Unmarshal  == <<>>

-----------------------------------------------------------------------------
(* All of them: the cases, the zero value, and what Marshal returns.       *)

Unmarshals ==
  [Coin |-> Coin_Unmarshal,
   VirtualStakingMaxCapInfo |-> VirtualStakingMaxCapInfo_Unmarshal,
   Params |-> Params_Unmarshal,
   GenesisState |-> GenesisState_Unmarshal,
   ScheduledWork |-> ScheduledWork_Unmarshal,
   ValidatorAddress |-> ValidatorAddress_Unmarshal,
   MsgSetVirtualStakingMaxCap |-> MsgSetVirtualStakingMaxCap_Unmarshal,
   MsgSetVirtualStakingMaxCapResponse |-> MsgSetVirtualStakingMaxCapResponse_Unmarshal,
   QueryVirtualStakingMaxCapLimitRequest |-> QueryVirtualStakingMaxCapLimitRequest_Unmarshal,
   QueryVirtualStakingMaxCapLimitResponse |-> QueryVirtualStakingMaxCapLimitResponse_Unmarshal,
   QueryVirtualStakingMaxCapLimitsRequest |-> QueryVirtualStakingMaxCapLimitsRequest_Unmarshal,
   QueryVirtualStakingMaxCapLimitsResponse |-> QueryVirtualStakingMaxCapLimitsResponse_Unmarshal,
   QueryParamsRequest |-> QueryParamsRequest_Unmarshal,
   QueryParamsResponse |-> QueryParamsResponse_Unmarshal,
   ProviderParams |-> ProviderParams_Unmarshal,
   ProviderGenesisState |-> ProviderGenesisState_Unmarshal,
   ParamsRequest |-> ParamsRequest_Unmarshal,
   ParamsResponse |-> ParamsResponse_Unmarshal,
   MsgTest |-> MsgTest_Unmarshal,
   MsgTestResponse |-> MsgTestResponse_Unmarshal,
   MsgUpdateParams |-> MsgUpdateParams_Unmarshal,
   MsgUpdateParamsResponse |-> MsgUpdateParamsResponse_Unmarshal]

Zeros ==
  [Coin |-> Coin_Zero,
   VirtualStakingMaxCapInfo |-> VirtualStakingMaxCapInfo_Zero,
   Params |-> Params_Zero,
   GenesisState |-> GenesisState_Zero,
   ScheduledWork |-> ScheduledWork_Zero,
   ValidatorAddress |-> ValidatorAddress_Zero,
   MsgSetVirtualStakingMaxCap |-> MsgSetVirtualStakingMaxCap_Zero,
   MsgSetVirtualStakingMaxCapResponse |-> MsgSetVirtualStakingMaxCapResponse_Zero,
   QueryVirtualStakingMaxCapLimitRequest |-> QueryVirtualStakingMaxCapLimitRequest_Zero,
   QueryVirtualStakingMaxCapLimitResponse |-> QueryVirtualStakingMaxCapLimitResponse_Zero,
   QueryVirtualStakingMaxCapLimitsRequest |-> QueryVirtualStakingMaxCapLimitsRequest_Zero,
   QueryVirtualStakingMaxCapLimitsResponse |-> QueryVirtualStakingMaxCapLimitsResponse_Zero,
   QueryParamsRequest |-> QueryParamsRequest_Zero,
   QueryParamsResponse |-> QueryParamsResponse_Zero,
   ProviderParams |-> ProviderParams_Zero,
   ProviderGenesisState |-> ProviderGenesisState_Zero,
   ParamsRequest |-> ParamsRequest_Zero,
   ParamsResponse |-> ParamsResponse_Zero,
   MsgTest |-> MsgTest_Zero,
   MsgTestResponse |-> MsgTestResponse_Zero,
   MsgUpdateParams |-> MsgUpdateParams_Zero,
   MsgUpdateParamsResponse |-> MsgUpdateParamsResponse_Zero]

MarshalOf(t, m) ==
  CASE t = "Coin" -> Marshal(Coin_Marshal(m), Coin_Size(m))
    [] t = "VirtualStakingMaxCapInfo" ->
         Marshal(VirtualStakingMaxCapInfo_Marshal(m), VirtualStakingMaxCapInfo_Size(m))
    [] t = "Params" -> Marshal(Params_Marshal(m), Params_Size(m))
    [] t = "GenesisState" -> Marshal(GenesisState_Marshal(m), GenesisState_Size(m))
    [] t = "ScheduledWork" -> Marshal(ScheduledWork_Marshal(m), ScheduledWork_Size(m))
    [] t = "ValidatorAddress" -> Marshal(ValidatorAddress_Marshal(m), ValidatorAddress_Size(m))
    [] t = "MsgSetVirtualStakingMaxCap" ->
         Marshal(MsgSetVirtualStakingMaxCap_Marshal(m), MsgSetVirtualStakingMaxCap_Size(m))
    [] t = "MsgSetVirtualStakingMaxCapResponse" ->
         Marshal(MsgSetVirtualStakingMaxCapResponse_Marshal(m), MsgSetVirtualStakingMaxCapResponse_Size(m))
    [] t = "QueryVirtualStakingMaxCapLimitRequest" ->
         Marshal(QueryVirtualStakingMaxCapLimitRequest_Marshal(m), QueryVirtualStakingMaxCapLimitRequest_Size(m))
    [] t = "QueryVirtualStakingMaxCapLimitResponse" ->
         Marshal(QueryVirtualStakingMaxCapLimitResponse_Marshal(m), QueryVirtualStakingMaxCapLimitResponse_Size(m))
    [] t = "QueryVirtualStakingMaxCapLimitsRequest" ->
         Marshal(QueryVirtualStakingMaxCapLimitsRequest_Marshal(m), QueryVirtualStakingMaxCapLimitsRequest_Size(m))
    [] t = "QueryVirtualStakingMaxCapLimitsResponse" ->
         Marshal(QueryVirtualStakingMaxCapLimitsResponse_Marshal(m), QueryVirtualStakingMaxCapLimitsResponse_Size(m))
    [] t = "QueryParamsRequest" ->
         Marshal(QueryParamsRequest_Marshal(m), QueryParamsRequest_Size(m))
    [] t = "QueryParamsResponse" ->
         Marshal(QueryParamsResponse_Marshal(m), QueryParamsResponse_Size(m))
    [] t = "ProviderParams" -> Marshal(ProviderParams_Marshal(m), ProviderParams_Size(m))
    [] t = "ProviderGenesisState" ->
         Marshal(ProviderGenesisState_Marshal(m), ProviderGenesisState_Size(m))
    [] t = "ParamsRequest" -> Marshal(ParamsRequest_Marshal(m), ParamsRequest_Size(m))
    [] t = "ParamsResponse" -> Marshal(ParamsResponse_Marshal(m), ParamsResponse_Size(m))
    [] t = "MsgTest" -> Marshal(MsgTest_Marshal(m), MsgTest_Size(m))
    [] t = "MsgTestResponse" -> Marshal(MsgTestResponse_Marshal(m), MsgTestResponse_Size(m))
    [] t = "MsgUpdateParams" -> Marshal(MsgUpdateParams_Marshal(m), MsgUpdateParams_Size(m))
    [] t = "MsgUpdateParamsResponse" ->
         Marshal(MsgUpdateParamsResponse_Marshal(m), MsgUpdateParamsResponse_Size(m))
=============================================================================

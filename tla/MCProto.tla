------------------------------ MODULE MCProto -------------------------------
(* Every message of the two modules, sent and decoded: intact, followed by *)
(* another one, with unknown fields, cut at every byte; and short strings  *)
(* of bytes nobody sent.                                                   *)
EXTENDS WireFormat, FiniteSets, TLC

CONSTANTS
  LongLength,      \* length of a string whose length takes two bytes
  GarbageLength    \* bound: bytes of an arbitrary input

-----------------------------------------------------------------------------
(* Sample messages *)

Addr  == <<97, 98>>
Long  == [i \in 1 .. LongLength |-> 99]
CoinSamples == {[Denom |-> <<117>>, Amount |-> <<48>>], [Denom |-> <<117>>, Amount |-> <<49, 50>>]}
Texts == {<<>>, Addr, Long}
Uints == {0, 127, 128, 255}

ParamsSamples == [TotalContractsMaxCap : CoinSamples, EpochLength : Uints, MaxGasEndBlocker : {0, 200}]
InfoSamples   == [Contract : {<<>>, Addr}, Delegated : CoinSamples, Cap : CoinSamples]
Lists         == UNION {[1 .. n -> {i \in InfoSamples : i.Cap # i.Delegated}] : n \in 0 .. 2}

Samples ==
  [VirtualStakingMaxCapInfo |->
     InfoSamples \cup [Contract : {Long}, Delegated : CoinSamples, Cap : CoinSamples],
   Params |-> ParamsSamples,
   GenesisState |-> [Params : ParamsSamples],
   ScheduledWork |-> [Repeat : BOOLEAN],
   ValidatorAddress |-> [Address : Texts],
   MsgSetVirtualStakingMaxCap |-> [Authority : {<<>>, Addr}, Contract : Texts, MaxCap : CoinSamples],
   QueryVirtualStakingMaxCapLimitRequest |-> [Address : Texts],
   QueryVirtualStakingMaxCapLimitResponse |-> [Delegated : CoinSamples, Cap : CoinSamples],
   QueryVirtualStakingMaxCapLimitsResponse |-> [MaxCapInfos : Lists],
   QueryParamsResponse |-> [Params : ParamsSamples],
   ProviderGenesisState |-> [Params : {Empty}],
   ParamsResponse |-> [Params : {Empty}],
   MsgTest |-> [Sender : Texts],
   MsgUpdateParams |-> [Authority : Texts, Params : {Empty}],
   MsgSetVirtualStakingMaxCapResponse |-> {Empty},
   QueryVirtualStakingMaxCapLimitsRequest |-> {Empty},
   QueryParamsRequest |-> {Empty},
   ProviderParams |-> {Empty},
   ParamsRequest |-> {Empty},
   MsgTestResponse |-> {Empty},
   MsgUpdateParamsResponse |-> {Empty}]

Encoded ==
  UNION {{[type |-> t, sent |-> m, bytes |-> MarshalOf(t, m)] : m \in Samples[t]} :
           t \in DOMAIN Samples}

MCTypes == DOMAIN Unmarshals

-----------------------------------------------------------------------------
(* What happens to them on the way *)

(* A field numbered 15 of each wire type, and nested groups of all of them. *)
UnknownFields ==
  LET plain == {<<120, 200, 1>>, <<121>> \o [i \in 1 .. 8 |-> 255],
                <<122, 2, 10, 255>>, <<125, 8, 10, 8, 10>>}
      group(u) == <<123>> \o u \o <<124>>
  IN  plain \cup {group(u) : u \in plain} \cup {group(group(u) \o w) : u, w \in plain} \cup {group(<<>>)}

(* Protobuf: the concatenation of two encodings is the merged message. *)
Merged(t, m, n) ==
  [f \in DOMAIN m |-> IF Appends(t, f) THEN m[f] \o n[f]
                      ELSE IF n[f] = Zeros[t][f] THEN m[f] ELSE n[f]]

Input(how, e, b, m) == [how |-> how, type |-> e.type, bytes |-> b, sent |-> m]

(* The messages whose embedded messages, if any, are written in full. *)
FlatTypes == {"VirtualStakingMaxCapInfo", "Params", "ScheduledWork", "ValidatorAddress",
              "MsgSetVirtualStakingMaxCap", "MsgUpdateParams", "QueryVirtualStakingMaxCapLimitResponse"}

Short(e) == Len(e.bytes) < 24

(* What Marshal returned, intact or without its end. *)
Intact == {Input("valid", e, e.bytes, e.sent) : e \in Encoded}
Cut    == UNION {{Input("cut", e, SubSeq(e.bytes, 1, n), e.sent) : n \in 0 .. Len(e.bytes) - 1} :
                   e \in Encoded}

ASSUME InputsAreMarshaled == Generated /\ \A in \in Intact \cup Cut : IsMarshaled(in)

MCInputs ==
  Intact \cup Cut
  \cup UNION {{Input("valid", e, u \o e.bytes, e.sent), Input("valid", e, e.bytes \o u, e.sent)} :
                u \in UnknownFields, e \in {x \in Encoded : Short(x)}}
  \cup UNION {{Input("valid", e, e.bytes \o d.bytes, Merged(e.type, e.sent, d.sent)) :
                 d \in {x \in Encoded : x.type = e.type /\ Short(x)}} :
                e \in {x \in Encoded : x.type \in FlatTypes}}
  \cup {Input("valid", e, e.bytes \o d.bytes, [Params |-> Merged("Params", e.sent.Params, d.sent.Params)]) :
          e, d \in {x \in Encoded : x.type = "GenesisState"}}
  \cup {[how |-> "garbage", type |-> t, bytes |-> b, sent |-> Zeros[t]] :
          t \in {"Params", "QueryVirtualStakingMaxCapLimitsResponse"},
          b \in UNION {[1 .. n -> {1, 8, 10, 16, 122, 123, 124, 125, 128, 255}] : n \in 0 .. GarbageLength}}
=============================================================================

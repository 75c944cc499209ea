---------------------------- MODULE ProtoDecoder ----------------------------
(***************************************************************************)
(* The generated Unmarshal methods and skip functions of the *.pb.go       *)
(* files: one loop over the bytes of a message, the same text for every    *)
(* message but for the cases of its switch, which are a parameter here.    *)
(*                                                                         *)
(* A message inside a message is decoded by a call on a slice; frames is   *)
(* the call stack.  iNdEx and the limits count from the start of the       *)
(* outermost buffer instead of from the start of each slice.  Errors are   *)
(* not told apart: callers drop the message whatever the error was.        *)
(*                                                                         *)
(* The 64 bit words of the code have WordBits bits; like 64, WordBits is   *)
(* one more than a multiple of 7, so the last byte of a longest varint     *)
(* carries one bit.                                                        *)
(***************************************************************************)
EXTENDS Integers, Sequences

CONSTANTS
  Types,       \* message types
  Unmarshal,   \* Unmarshal[t]: the cases of the switch of t, by field number
  Zero,        \* Zero[t]: the message a decoder of t starts from
  Inputs,      \* what is decoded: [type, bytes, how, sent]
  WordBits,    \* bits of uint64 and int
  FieldBits,   \* bits of int32, the type of a field number
  UintBits     \* bits of uint32

ASSUME WidthAssumption ==
  /\ WordBits \in Nat /\ FieldBits \in Nat /\ UintBits \in Nat
  /\ 3 < FieldBits /\ FieldBits < WordBits /\ UintBits < WordBits

(* The decoder of an embedded message is there. *)
ASSUME UnmarshalAssumption ==
  \A t \in Types : \A n \in DOMAIN Unmarshal[t] :
    Unmarshal[t][n].kind \in {"message", "repeated"} => Unmarshal[t][n].of \in Types

ASSUME InputsAssumption ==
  \A in \in Inputs :
    /\ in.type \in Types
    /\ in.bytes \in Seq(0 .. 255)
    /\ Len(in.bytes) < 2 ^ (WordBits - 1)

VARIABLES
  request,    \* the input; request.bytes is dAtA
  iNdEx,      \* bytes consumed
  frames,     \* running Unmarshal calls: type, message so far, limit, field of the caller
  pc,         \* what is being read: "loop" between fields, "end" after the call
  varint,     \* the varint loop: bits so far, shift, and whether it ended
  preIndex,   \* start of the current field
  fieldNum,   \* case of the switch
  depth,      \* open groups in skip
  status      \* "running", "ok" or "error"

vars == <<request, iNdEx, frames, pc, varint, preIndex, fieldNum, depth, status>>

Counters == {"tag", "length", "value", "skip_tag", "skip_varint", "skip_length"}

frame == frames[Len(frames)]
limit == frame.limit                       \* l of the running call
Case  == Unmarshal[frame.type][fieldNum]

Signed(x, w) == IF x >= 2 ^ (w - 1) THEN x - 2 ^ w ELSE x
Plus(x, y)   == Signed((x + y) % 2 ^ WordBits, WordBits)   \* addition of int

NoBits == [bits |-> 0, shift |-> 0, done |-> FALSE]

TypeOK ==
  /\ request.type \in Types
  /\ iNdEx \in Nat
  /\ frames # <<>>
  /\ \A i \in 1 .. Len(frames) : frames[i].type \in Types /\ frames[i].limit \in Nat
  /\ pc \in Counters \cup {"loop", "end"}
  /\ varint \in [bits : 0 .. 2 ^ WordBits - 1, shift : Nat, done : BOOLEAN]
  /\ preIndex \in Nat
  /\ depth \in Nat
  /\ status \in {"running", "ok", "error"}

Init ==
  /\ request \in Inputs
  /\ iNdEx = 0
  /\ frames = <<[type |-> request.type, msg |-> Zero[request.type],
                 limit |-> Len(request.bytes), field |-> ""]>>
  /\ pc = "loop"
  /\ varint = NoBits
  /\ preIndex = 0
  /\ fieldNum = 0
  /\ depth = 0
  /\ status = "running"

Read(what) == pc' = what /\ varint' = NoBits

Fail ==
  /\ status' = "error"
  /\ pc' = "end"
  /\ UNCHANGED <<request, iNdEx, frames, varint, preIndex, fieldNum, depth>>

-----------------------------------------------------------------------------
(* for shift := uint(0); ; shift += 7 *)

ReadFails ==
  /\ pc \in Counters /\ ~varint.done
  /\ varint.shift >= WordBits \/ iNdEx >= limit
  /\ Fail

(* Variant: the word is wide enough for every byte. *)
ReadByte_Wide ==
  /\ pc \in Counters /\ ~varint.done
  /\ varint.shift < WordBits
  /\ iNdEx < limit
  /\ LET b == request.bytes[iNdEx + 1]
     IN  varint' = [bits  |-> varint.bits + (b % 128) * 2 ^ varint.shift,
                    shift |-> varint.shift + 7,
                    done  |-> b < 128]
  /\ iNdEx' = iNdEx + 1
  /\ UNCHANGED <<request, frames, pc, preIndex, fieldNum, depth, status>>

ReadByte ==
  /\ pc \in Counters /\ ~varint.done
  /\ varint.shift < WordBits
  /\ iNdEx < limit
  /\ LET b == request.bytes[iNdEx + 1]
     IN  varint' = [bits  |-> (varint.bits + (b % 128) * 2 ^ varint.shift) % 2 ^ WordBits,
                    shift |-> varint.shift + 7,
                    done  |-> b < 128]
  /\ iNdEx' = iNdEx + 1
  /\ UNCHANGED <<request, frames, pc, preIndex, fieldNum, depth, status>>

Have(what) == pc = what /\ varint.done

-----------------------------------------------------------------------------
(* for iNdEx < l *)

NextField ==
  /\ pc = "loop"
  /\ iNdEx < limit
  /\ preIndex' = iNdEx
  /\ Read("tag")
  /\ UNCHANGED <<request, iNdEx, frames, fieldNum, depth, status>>

(* A decoded value goes into the message; a list grows by it. *)
Appends(t, name) == \E n \in DOMAIN Unmarshal[t] :
                      Unmarshal[t][n].name = name /\ Unmarshal[t][n].kind = "repeated"
Assign(fr, name, v) ==
  [fr EXCEPT !.msg[name] = IF Appends(fr.type, name) THEN Append(@, v) ELSE v]

(* The end of the slice: the call returns, to the call whose field it      *)
(* decoded or to the caller of the outermost one.                          *)
Return ==
  /\ pc = "loop"
  /\ iNdEx >= limit
  /\ IF iNdEx > limit THEN Fail
     ELSE /\ IF Len(frames) = 1
             THEN status' = "ok" /\ pc' = "end" /\ UNCHANGED frames
             ELSE /\ frames' = LET outer == SubSeq(frames, 1, Len(frames) - 1)
                               IN  [outer EXCEPT ![Len(outer)] = Assign(@, frame.field, frame.msg)]
                  /\ UNCHANGED <<status, pc>>
          /\ UNCHANGED <<request, iNdEx, varint, preIndex, fieldNum, depth>>

-----------------------------------------------------------------------------
(* switch fieldNum *)

Number   == Signed((varint.bits \div 8) % 2 ^ FieldBits, FieldBits)   \* int32(wire >> 3)
WireType == varint.bits % 8
Known    == Number \in DOMAIN Unmarshal[frame.type]

BadTag ==
  /\ Have("tag")
  /\ \/ WireType = 4
     \/ Number <= 0
     \/ Known /\ Unmarshal[frame.type][Number].wireType # WireType
  /\ Fail

KnownField ==
  /\ Have("tag")
  /\ Known /\ Unmarshal[frame.type][Number].wireType = WireType
  /\ fieldNum' = Number
  /\ Read(IF WireType = 2 THEN "length" ELSE "value")
  /\ UNCHANGED <<request, iNdEx, frames, preIndex, depth, status>>

(* default: skip reads the tag again. *)
UnknownField ==
  /\ Have("tag")
  /\ WireType # 4 /\ Number > 0 /\ ~Known
  /\ iNdEx' = preIndex
  /\ depth' = 0
  /\ Read("skip_tag")
  /\ UNCHANGED <<request, frames, preIndex, fieldNum, status>>

Value == IF Case.kind = "bool" THEN varint.bits # 0 ELSE varint.bits % 2 ^ UintBits

SetValue ==
  /\ Have("value")
  /\ frames' = [frames EXCEPT ![Len(frames)] = Assign(@, Case.name, Value)]
  /\ Read("loop")
  /\ UNCHANGED <<request, iNdEx, preIndex, fieldNum, depth, status>>

(* The three checks before a slice is taken. *)
Fits(post) == Signed(varint.bits, WordBits) >= 0 /\ post >= 0 /\ post <= limit

(* Variant: a string that is too long for the slice is cut. *)
postIndex_Cut ==
  LET post == Plus(iNdEx, Signed(varint.bits, WordBits))
  IN  IF pc = "length" /\ post > limit /\ Case.kind = "string" THEN limit ELSE post

postIndex == Plus(iNdEx, Signed(varint.bits, WordBits))

(* Amounts are parsed by sdk.Int, which wants decimal digits. *)
Parses(s) == Case.kind = "int" => \A i \in 1 .. Len(s) : s[i] \in 48 .. 57

Slice == SubSeq(request.bytes, iNdEx + 1, postIndex)

(* An empty amount leaves the one that is there. *)
Bytes == IF Case.kind = "int" /\ Slice = <<>> THEN frame.msg[Case.name] ELSE Slice

BadLength ==
  /\ Have("length")
  /\ ~Fits(postIndex) \/ (Case.kind = "int" /\ ~Parses(Slice))
  /\ Fail

SetBytes ==
  /\ Have("length")
  /\ Case.kind \in {"string", "int"}
  /\ Fits(postIndex) /\ Parses(Slice)
  /\ frames' = [frames EXCEPT ![Len(frames)] = Assign(@, Case.name, Bytes)]
  /\ iNdEx' = postIndex
  /\ Read("loop")
  /\ UNCHANGED <<request, preIndex, fieldNum, depth, status>>

(* Variant: an embedded message starts from its zero value. *)
StartOf_Zero == Zero[Case.of]

(* An embedded message is merged into the one that is there; an element of *)
(* a list starts from its zero value.                                      *)
StartOf == IF Case.kind = "repeated" THEN Zero[Case.of] ELSE frame.msg[Case.name]

CallUnmarshal ==
  /\ Have("length")
  /\ Case.kind \in {"message", "repeated"}
  /\ Fits(postIndex)
  /\ frames' = Append(frames, [type |-> Case.of, msg |-> StartOf,
                               limit |-> postIndex, field |-> Case.name])
  /\ Read("loop")
  /\ UNCHANGED <<request, iNdEx, preIndex, fieldNum, depth, status>>

-----------------------------------------------------------------------------
(* skip *)

(* Variants: the limit is not looked at; the caller does not move on. *)
Skipped_NoLimit(next, open) ==
  /\ next >= 0
  /\ iNdEx' = next
  /\ Read(IF open = 0 THEN "loop" ELSE "skip_tag")
  /\ depth' = open
  /\ UNCHANGED <<request, frames, preIndex, fieldNum, status>>

Skipped_Stays(next, open) ==
  /\ next >= 0
  /\ open = 0 => next <= limit
  /\ iNdEx' = IF open = 0 THEN preIndex ELSE next
  /\ Read(IF open = 0 THEN "loop" ELSE "skip_tag")
  /\ depth' = open
  /\ UNCHANGED <<request, frames, preIndex, fieldNum, status>>

(* The end of a round: with no group open skip returns, and its caller     *)
(* looks at the limit; otherwise the next tag is read.                     *)
Skipped(next, open) ==
  /\ next >= 0
  /\ open = 0 => next <= limit
  /\ iNdEx' = next
  /\ Read(IF open = 0 THEN "loop" ELSE "skip_tag")
  /\ depth' = open
  /\ UNCHANGED <<request, frames, preIndex, fieldNum, status>>

SkipFails(next) ==
  /\ next < 0 \/ (depth = 0 /\ next > limit)
  /\ Fail

SkipTag ==
  /\ Have("skip_tag")
  /\ WireType \in {0, 2}
  /\ Read(IF WireType = 0 THEN "skip_varint" ELSE "skip_length")
  /\ UNCHANGED <<request, iNdEx, frames, preIndex, fieldNum, depth, status>>

(* 8 or 4 bytes. *)
SkipFixed ==
  /\ Have("skip_tag")
  /\ WireType \in {1, 5}
  /\ LET next == Plus(iNdEx, IF WireType = 1 THEN 8 ELSE 4)
     IN  Skipped(next, depth) \/ SkipFails(next)

SkipGroup ==
  /\ Have("skip_tag")
  /\ \/ WireType = 3 /\ Skipped(iNdEx, depth + 1)
     \/ WireType = 4 /\ depth > 0 /\ Skipped(iNdEx, depth - 1)

BadSkip ==
  /\ Have("skip_tag")
  /\ WireType \in {6, 7} \/ (WireType = 4 /\ depth = 0)
  /\ Fail

SkipVarint == Have("skip_varint") /\ Skipped(iNdEx, depth)

(* A negative length is an error of its own. *)
SkipLength ==
  /\ Have("skip_length")
  /\ LET next == IF Signed(varint.bits, WordBits) < 0 THEN -1 ELSE postIndex
     IN  Skipped(next, depth) \/ SkipFails(next)

-----------------------------------------------------------------------------
Next ==
  \/ ReadByte \/ ReadFails
  \/ NextField \/ Return
  \/ BadTag \/ KnownField \/ UnknownField
  \/ SetValue \/ BadLength \/ SetBytes \/ CallUnmarshal
  \/ SkipTag \/ SkipFixed \/ SkipGroup \/ SkipVarint \/ SkipLength \/ BadSkip

Spec == Init /\ [][Next]_vars

(* A call runs until it returns. *)
FairSpec == Spec /\ WF_vars(Next)

-----------------------------------------------------------------------------
(* Properties *)

(* No index and no slice expression goes out of bounds: what an Unmarshal  *)
(* call reads lies within its slice, slices nest, and only skip, inside an *)
(* open group, steps past the end (and finds out before it reads).         *)
ReadsInBounds ==
  /\ frames[1].limit = Len(request.bytes)
  /\ \A i \in 2 .. Len(frames) : frames[i].limit <= frames[i - 1].limit
  /\ iNdEx > limit => status = "error" \/ (pc = "skip_tag" /\ depth > 0)

(* What was sent is what is read: the encoding of a message decodes to     *)
(* that message, also with fields in it that this version does not know,   *)
(* and encodings one after the other decode to the merged message.         *)
DecodesWhatWasSent ==
  request.how = "valid" =>
    status # "error" /\ (status = "ok" => frames[1].msg = request.sent)

(* A message of which the end was lost is refused, or read as one in which *)
(* each field is the sent one or missing: no field is made up, and a list  *)
(* loses elements at its end only.                                         *)
TruncationNeverCorrupts ==
  request.how = "cut" /\ status = "ok" =>
    \A f \in DOMAIN request.sent :
      LET got == frames[1].msg[f]
      IN  \/ got = request.sent[f]
          \/ got = Zero[request.type][f]
          \/ Appends(request.type, f) /\ got = SubSeq(request.sent[f], 1, Len(got))

(* Whatever the bytes are, decoding comes to an end.                       *)
Terminates == <>(status # "running")
=============================================================================

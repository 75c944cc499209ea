------------------------- MODULE ProtoDecoderProofs -------------------------
(***************************************************************************)
(* For any bytes, any messages and nesting of messages, and words of any   *)
(* width: no decoder reads outside of its slice; bytes that stand for a    *)
(* message decode to that message, the beginning of them to a part of it   *)
(* or to an error; and what the generated Marshal returns for a message of *)
(* any of the types stands for that message.                               *)
(***************************************************************************)
EXTENDS WireFormat, Foundations

-----------------------------------------------------------------------------
(* The arithmetic of int *)

Words == 2 ^ WordBits
Half  == 2 ^ (WordBits - 1)

(* The widths of a word, of a field number and of a uint32. *)
LEMMA WidthFacts ==
  /\ Half \in Nat \ {0} /\ Words \in Nat \ {0} /\ Words = Half + Half
  /\ 2 ^ FieldBits \in Nat \ {0} /\ 2 ^ (FieldBits - 1) \in Nat \ {0}
<1>1. /\ WordBits \in Nat /\ WordBits - 1 \in Nat /\ (WordBits - 1) + 1 = WordBits
      /\ FieldBits \in Nat /\ FieldBits - 1 \in Nat
  BY WidthAssumption
<1>2. 2 ^ ((WordBits - 1) + 1) = 2 ^ (WordBits - 1) + 2 ^ (WordBits - 1)
  BY <1>1, PowerDouble
<1> QED BY <1>1, <1>2, PowerType DEF Words, Half

(* A remainder. *)
LEMMA Remainder ==
  ASSUME NEW a \in Int, NEW b \in Nat \ {0}
  PROVE  /\ a % b \in 0 .. b - 1
         /\ 0 <= a /\ a < b => a % b = a
OBVIOUS

(* The conversion of a word to int. *)
LEMMA SignedFacts ==
  ASSUME NEW x \in 0 .. Words - 1
  PROVE  /\ Signed(x, WordBits) \in Int
         /\ x < Half => Signed(x, WordBits) = x
         /\ Signed(x, WordBits) >= 0 => x < Half
<1>1. Half \in Nat \ {0} /\ Words = Half + Half
  BY WidthFacts
<1>2. Signed(x, WordBits) = IF x >= Half THEN x - Words ELSE x
  BY DEF Signed, Words, Half
<1> HIDE DEF Words, Half
<1> QED BY <1>1, <1>2

(* A sum of int is an int. *)
LEMMA PlusType == ASSUME NEW x \in Int, NEW y \in Int PROVE Plus(x, y) \in Int
<1>1. Words \in Nat \ {0}
  BY WidthFacts
<1>2. (x + y) % Words \in 0 .. Words - 1
  BY <1>1, Remainder
<1>3. Plus(x, y) = Signed((x + y) % Words, WordBits)
  BY DEF Plus, Words
<1> QED BY <1>2, <1>3, SignedFacts

(* A length that is read and an index below Half: a sum that overflows is  *)
(* negative, one that is not negative is the sum.                          *)
LEMMA PlusExact ==
  ASSUME NEW x \in Nat, x < Half, NEW bits \in 0 .. Words - 1,
         Signed(bits, WordBits) >= 0, Plus(x, Signed(bits, WordBits)) >= 0
  PROVE  Plus(x, Signed(bits, WordBits)) = x + bits
<1> DEFINE y == Signed(bits, WordBits)
<1>1. Half \in Nat \ {0} /\ Words \in Nat \ {0} /\ Words = Half + Half
  BY WidthFacts
<1>2. bits < Half /\ y = bits
  BY SignedFacts
<1> HIDE DEF y
<1>3. x + y \in 0 .. Words - 1
  BY <1>1, <1>2
<1>4. (x + y) % Words = x + y
  <2>1. x + y \in Int /\ 0 <= x + y /\ x + y < Words
    BY <1>1, <1>3
  <2> QED BY ONLY <1>1, <2>1, Remainder
<1>5. Plus(x, y) = Signed(x + y, WordBits)
  BY <1>4 DEF Plus, Words
<1>6. x + y < Half
  BY <1>3, <1>5, SignedFacts DEF y
<1>7. Plus(x, y) = x + y
  BY <1>3, <1>5, <1>6, SignedFacts
<1> QED BY <1>2, <1>7 DEF y

-----------------------------------------------------------------------------
(* The call stack *)

FrameFields == {"type", "msg", "limit", "field"}

Entries(fs) == {fs[i] : i \in DOMAIN fs}

(* Calls within calls: each has a slice of its caller's slice, the         *)
(* outermost one all max bytes.                                            *)
Stack(fs, max) ==
  /\ fs \in Seq(Entries(fs))
  /\ Len(fs) > 0
  /\ \A i \in 1 .. Len(fs) :
       /\ DOMAIN fs[i] = FrameFields
       /\ fs[i].type \in Types
       /\ fs[i].limit \in 0 .. max
  /\ fs[1].limit = max
  /\ \A i \in 2 .. Len(fs) : fs[i].limit <= fs[i - 1].limit

Top(fs) == fs[Len(fs)]

(* A stack has an innermost call. *)
LEMMA StackFacts ==
  ASSUME NEW fs, NEW max \in Nat, Stack(fs, max)
  PROVE  /\ Len(fs) \in Nat \ {0} /\ DOMAIN fs = 1 .. Len(fs) /\ fs # <<>>
         /\ DOMAIN Top(fs) = FrameFields /\ Top(fs).type \in Types /\ Top(fs).limit \in 0 .. max
<1>1. Len(fs) \in Nat /\ DOMAIN fs = 1 .. Len(fs)
  BY LenProperties DEF Stack
<1>2. fs # <<>>
  BY DEF Stack
<1> QED BY <1>1, <1>2 DEF Stack, Top

(* A call on a slice of the caller's slice. *)
LEMMA PushStack ==
  ASSUME NEW max \in Nat, NEW fs, Stack(fs, max),
         NEW f, DOMAIN f = FrameFields, f.type \in Types, f.limit \in 0 .. Top(fs).limit
  PROVE  Stack(Append(fs, f), max) /\ Top(Append(fs, f)) = f
<1> DEFINE n == Len(fs)
           S == Entries(fs) \cup {f}
           g == Append(fs, f)
<1>1. /\ n \in Nat \ {0} /\ fs \in Seq(Entries(fs)) /\ fs \in Seq(S)
      /\ DOMAIN fs = 1 .. n /\ Top(fs).limit \in 0 .. max
  <2>1. \A T, U : T \subseteq U => Seq(T) \subseteq Seq(U)
    OBVIOUS
  <2> QED BY <2>1, StackFacts DEF Stack
<1>2. g \in Seq(S) /\ Len(g) = n + 1 /\ (\A i \in 1 .. n : g[i] = fs[i]) /\ g[n + 1] = f
  BY <1>1, AppendProperties
<1>3. DOMAIN g = 1 .. n + 1
  BY <1>1, <1>2, LenProperties
<1> HIDE DEF g, n
<1>4. g \in Seq(Entries(g))
  <2>1. g \in [1 .. n + 1 -> S]
    BY <1>2, LenProperties
  <2>2. g \in [1 .. n + 1 -> Entries(g)]
    BY <1>3, <2>1 DEF Entries
  <2> QED BY <1>1, <2>2
<1>5. \A i \in 1 .. n : /\ DOMAIN fs[i] = FrameFields /\ fs[i].type \in Types
                        /\ fs[i].limit \in 0 .. max
  BY DEF Stack, n
<1>6. \A i \in 1 .. n + 1 : /\ DOMAIN g[i] = FrameFields /\ g[i].type \in Types
                            /\ g[i].limit \in 0 .. max
  <2>1. f.limit \in 0 .. max
    BY <1>1
  <2>2. \A i \in 1 .. n + 1 : i \in 1 .. n \/ i = n + 1
    BY <1>1
  <2> QED BY <1>2, <1>5, <2>1, <2>2
<1>7. g[1].limit = max
  BY <1>1, <1>2 DEF Stack
<1>8. ASSUME NEW i \in 2 .. n + 1 PROVE g[i].limit <= g[i - 1].limit
  <2>1. CASE i \in 2 .. n
    <3>1. i - 1 \in 1 .. n /\ i \in 1 .. n
      BY <1>1, <2>1
    <3>2. fs[i].limit <= fs[i - 1].limit
      BY <2>1 DEF Stack, n
    <3> QED BY <1>2, <3>1, <3>2
  <2>2. CASE i = n + 1
    <3>1. i - 1 = n /\ n \in 1 .. n /\ g[i - 1] = Top(fs)
      BY <1>1, <1>2, <2>2 DEF Top, n
    <3> QED BY <1>1, <1>2, <2>2, <3>1
  <2> QED BY <1>1, <2>1, <2>2
<1>9. Stack(g, max) /\ Top(g) = f
  BY <1>1, <1>2, <1>4, <1>6, <1>7, <1>8 DEF Stack, Top
<1> QED BY <1>9 DEF g

(* The innermost call returns. *)
Popped(fs) == SubSeq(fs, 1, Len(fs) - 1)

(* The caller's slice holds the slice of the call that returned. *)
LEMMA PopStack ==
  ASSUME NEW max \in Nat, NEW fs, Stack(fs, max), Len(fs) # 1
  PROVE  Stack(Popped(fs), max) /\ Top(fs).limit <= Top(Popped(fs)).limit
<1> DEFINE n == Len(fs)
           S == Entries(fs)
           g == Popped(fs)
<1>1. n \in Nat \ {0} /\ n - 1 \in Nat \ {0} /\ DOMAIN fs = 1 .. n
  BY StackFacts
<1>2. \A i \in 1 .. n - 1 : fs[i] \in S
  BY <1>1 DEF Entries
<1>3. /\ g \in Seq(S) /\ Len(g) = IF 1 <= n - 1 THEN n - 1 - 1 + 1 ELSE 0
      /\ \A i \in 1 .. n - 1 - 1 + 1 : g[i] = fs[1 + i - 1]
  BY <1>1, <1>2, SubSeqProperties DEF Popped
<1>4. Len(g) = n - 1 /\ \A i \in 1 .. n - 1 : g[i] = fs[i]
  <2> HIDE DEF g, n
  <2>1. \A i \in 1 .. n - 1 : i \in 1 .. n - 1 - 1 + 1 /\ 1 + i - 1 = i
    BY <1>1
  <2> QED BY <1>1, <1>3, <2>1
<1> HIDE DEF g, n
<1>5. g \in Seq(Entries(g))
  <2>1. g \in [1 .. n - 1 -> S] /\ DOMAIN g = 1 .. n - 1
    BY <1>3, <1>4, LenProperties
  <2>2. g \in [1 .. n - 1 -> Entries(g)]
    BY <2>1 DEF Entries
  <2> QED BY <1>1, <2>2
<1>6. \A i \in 1 .. n - 1 : /\ DOMAIN g[i] = FrameFields /\ g[i].type \in Types
                            /\ g[i].limit \in 0 .. max
  <2>1. \A i \in 1 .. n - 1 : i \in 1 .. n
    BY <1>1
  <2>2. \A i \in 1 .. n : /\ DOMAIN fs[i] = FrameFields /\ fs[i].type \in Types
                          /\ fs[i].limit \in 0 .. max
    BY DEF Stack, n
  <2> QED BY <1>4, <2>1, <2>2
<1>7. g[1].limit = max
  BY <1>1, <1>4 DEF Stack
<1>8. \A i \in 2 .. n - 1 : g[i].limit <= g[i - 1].limit
  <2>1. \A i \in 2 .. n - 1 : i \in 2 .. n /\ i \in 1 .. n - 1 /\ i - 1 \in 1 .. n - 1
    BY <1>1
  <2> QED BY <1>4, <2>1 DEF Stack, n
<1>9. Top(fs).limit <= Top(g).limit
  <2>1. n \in 2 .. n /\ n - 1 \in 1 .. n - 1
    BY <1>1
  <2> QED BY <1>4, <2>1 DEF Stack, Top, n
<1>10. Stack(g, max)
  BY <1>1, <1>4, <1>5, <1>6, <1>7, <1>8 DEF Stack
<1> QED BY <1>9, <1>10 DEF g

(* The innermost call changes its message. *)
SetTop(fs, f) == [fs EXCEPT ![Len(fs)] = f]

(* The limits do not notice. *)
LEMMA ReplaceTop ==
  ASSUME NEW max \in Nat, NEW fs, Stack(fs, max),
         NEW f, DOMAIN f = FrameFields, f.type = Top(fs).type, f.limit = Top(fs).limit
  PROVE  Stack(SetTop(fs, f), max) /\ Top(SetTop(fs, f)) = f
<1> DEFINE n == Len(fs)
           S == Entries(fs) \cup {f}
           g == SetTop(fs, f)
<1>1. n \in Nat \ {0} /\ fs \in Seq(S) /\ n \in 1 .. n /\ DOMAIN fs = 1 .. n
  <2>1. \A T, U : T \subseteq U => Seq(T) \subseteq Seq(U)
    OBVIOUS
  <2> QED BY <2>1, StackFacts DEF Stack
<1>2. /\ g \in Seq(S) /\ Len(g) = n /\ g[n] = f
      /\ \A i \in 1 .. n : i # n => g[i] = fs[i]
  BY <1>1 DEF SetTop
<1>3. f.type = fs[n].type /\ f.limit = fs[n].limit
  BY DEF Top
<1> HIDE DEF g, n
<1>4. \A i \in 1 .. n : DOMAIN g[i] = FrameFields /\ g[i].type = fs[i].type /\ g[i].limit = fs[i].limit
  BY <1>2, <1>3 DEF Stack, n
<1>5. g \in Seq(Entries(g))
  <2>1. g \in [1 .. n -> S] /\ DOMAIN g = 1 .. n
    BY <1>2, LenProperties
  <2>2. g \in [1 .. n -> Entries(g)]
    BY <2>1 DEF Entries
  <2> QED BY <1>1, <2>2
<1>6. \A i \in 2 .. n : g[i].limit <= g[i - 1].limit
  <2>1. \A i \in 2 .. n : i \in 1 .. n /\ i - 1 \in 1 .. n
    BY <1>1
  <2>2. \A i \in 2 .. n : g[i].limit = fs[i].limit /\ g[i - 1].limit = fs[i - 1].limit
    BY <1>4, <2>1
  <2> QED BY <2>2 DEF Stack, n
<1>7. g[1].limit = max
  <2>1. 1 \in 1 .. n
    BY <1>1
  <2>2. fs[1].limit = max
    BY DEF Stack
  <2> QED BY ONLY <1>4, <2>1, <2>2
<1>8. \A i \in 1 .. n : g[i].type \in Types /\ g[i].limit \in 0 .. max
  BY <1>4 DEF Stack, n
<1>9. Stack(g, max) /\ Top(g) = f
  BY <1>1, <1>2, <1>4, <1>5, <1>6, <1>7, <1>8 DEF Stack, Top
<1> QED BY <1>9 DEF g

(* A field of the message is set. *)
LEMMA AssignFacts ==
  ASSUME NEW fr, DOMAIN fr = FrameFields, NEW name, NEW x
  PROVE  /\ DOMAIN Assign(fr, name, x) = FrameFields
         /\ Assign(fr, name, x).type = fr.type
         /\ Assign(fr, name, x).limit = fr.limit
BY DEF Assign, FrameFields

-----------------------------------------------------------------------------
(* The inductive invariant *)

(* What the running call relies on: a tag is read from within the slice,   *)
(* the case of the switch is there while its value is read, and the index  *)
(* is within the slice, unless skip just stepped over its end inside a     *)
(* group, where nothing is read yet.                                       *)
Control ==
  /\ pc # "end" => status = "running"
  /\ pc = "tag" => preIndex <= limit
  /\ pc \in {"length", "value"} => fieldNum \in DOMAIN Unmarshal[frame.type]
  /\ iNdEx > limit => status = "error" \/ (pc = "skip_tag" /\ depth > 0 /\ ~varint.done)

Max == Len(request.bytes)

Varint == [bits : 0 .. 2 ^ WordBits - 1, shift : Nat, done : BOOLEAN]

Scalars ==
  /\ iNdEx \in Nat
  /\ pc \in Counters \cup {"loop", "end"}
  /\ varint \in Varint
  /\ preIndex \in Nat
  /\ depth \in Nat
  /\ status \in {"running", "ok", "error"}

DecoderInv == request \in Inputs /\ Scalars /\ Stack(frames, Max) /\ Control

(* The buffer of an input. *)
LEMMA InputFacts ==
  ASSUME request \in Inputs
  PROVE  /\ request.type \in Types /\ request.bytes \in Seq(0 .. 255)
         /\ Max \in Nat /\ Max < Half
  BY InputsAssumption DEF Max, Half

(* The running call. *)
LEMMA Running ==
  ASSUME DecoderInv
  PROVE  /\ Max \in Nat /\ Max < Half
         /\ frame = Top(frames) /\ limit = Top(frames).limit /\ limit \in 0 .. Max
         /\ frame.type \in Types /\ DOMAIN frame = FrameFields
         /\ varint.bits \in 0 .. Words - 1 /\ varint.shift \in Nat /\ varint.done \in BOOLEAN
<1>1. Max \in Nat /\ Max < Half
  BY InputFacts DEF DecoderInv
<1>2. frame = Top(frames) /\ limit = Top(frames).limit
  BY DEF frame, limit, Top
<1>3. DOMAIN Top(frames) = FrameFields /\ Top(frames).type \in Types /\ Top(frames).limit \in 0 .. Max
  BY <1>1, StackFacts DEF DecoderInv
<1> QED BY <1>1, <1>2, <1>3 DEF DecoderInv, Scalars, Varint, Words

(* The parts of the invariant after a step that keeps the frames. *)
LEMMA SameFrames ==
  ASSUME DecoderInv, request' = request, frames' = frames, Scalars', Control'
  PROVE  DecoderInv'
BY DEF DecoderInv, Max

(* A varint starts from no bits. *)
LEMMA NoBitsType == NoBits \in Varint
<1>1. Words \in Nat \ {0}
  BY WidthFacts
<1>2. 0 \in 0 .. Words - 1
  BY <1>1
<1> QED BY <1>2 DEF NoBits, Varint, Words

(* An error ends the call. *)
LEMMA FailInv == ASSUME DecoderInv, Fail PROVE DecoderInv'
<1>1. Scalars'
  BY DEF Fail, DecoderInv, Scalars
<1>2. Control'
  BY DEF Fail, Control, limit, frame
<1> QED BY <1>1, <1>2, SameFrames DEF Fail

(* One byte of a varint. *)
LEMMA ReadByteInv == ASSUME DecoderInv, ReadByte PROVE DecoderInv'
<1> DEFINE b == request.bytes[iNdEx + 1]
           x == varint.bits + (b % 128) * 2 ^ varint.shift
<1>1. /\ pc \in Counters /\ ~varint.done /\ iNdEx < limit /\ iNdEx' = iNdEx + 1
      /\ varint' = [bits |-> x % 2 ^ WordBits, shift |-> varint.shift + 7, done |-> b < 128]
      /\ UNCHANGED <<request, frames, pc, preIndex, fieldNum, depth, status>>
  BY DEF ReadByte
<1>2. iNdEx \in Nat /\ limit \in 0 .. Max /\ varint.bits \in Nat /\ varint.shift \in Nat /\ Max \in Nat
  <2>1. Words \in Nat
    BY WidthFacts
  <2> QED BY <2>1, Running DEF DecoderInv, Scalars
<1>3. b \in 0 .. 255
  <2>1. iNdEx + 1 \in 1 .. Len(request.bytes) /\ request.bytes \in Seq(0 .. 255)
    BY <1>1, <1>2, InputFacts DEF Max, DecoderInv
  <2> QED BY <2>1, ElementOfSeq
<1>4. varint' \in Varint
  <2>1. 2 ^ varint.shift \in Nat /\ b % 128 \in Nat
    BY <1>2, <1>3, PowerType
  <2>2. (b % 128) * 2 ^ varint.shift \in Nat
    <3>1. \A m, n \in Nat : m * n \in Nat
      OBVIOUS
    <3> QED BY <2>1, <3>1
  <2> HIDE DEF b
  <2>3. x \in Int
    BY <1>2, <2>2
  <2> HIDE DEF x
  <2>4. x % Words \in 0 .. Words - 1
    BY <2>3, WidthFacts, Remainder
  <2>5. (b < 128) \in BOOLEAN /\ varint.shift + 7 \in Nat
    BY <1>2, <1>3 DEF b
  <2> QED BY <1>1, <2>4, <2>5 DEF Varint, Words
<1> HIDE DEF b, x
<1>5. Scalars'
  BY <1>1, <1>2, <1>4 DEF DecoderInv, Scalars
<1>6. limit' = limit /\ frame' = frame
  BY <1>1 DEF limit, frame
<1>7. Control'
  <2>1. iNdEx' <= limit
    BY <1>1, <1>2
  <2>2. ~(iNdEx' > limit')
    BY <1>1, <1>2, <1>6, <2>1
  <2> QED BY <1>1, <1>6, <2>2 DEF Control, DecoderInv
<1> QED BY <1>1, <1>5, <1>7, SameFrames

(* Between reads, the call runs within its slice. *)
LEMMA Within ==
  ASSUME DecoderInv, pc # "end", pc # "skip_tag" \/ varint.done
  PROVE  status = "running" /\ iNdEx \in Nat /\ limit \in Nat /\ iNdEx <= limit
<1>1. status = "running" /\ iNdEx \in Nat /\ limit \in Nat
  BY Running DEF DecoderInv, Control, Scalars
<1>2. ~(iNdEx > limit)
  BY <1>1 DEF DecoderInv, Control
<1> QED BY <1>1, <1>2

(* A step to the next thing to read, in the same call. *)
LEMMA ReadNext ==
  ASSUME DecoderInv, status = "running", UNCHANGED <<request, frames, status>>,
         NEW what \in Counters \cup {"loop"}, Read(what),
         iNdEx' \in Nat, preIndex' \in Nat, depth' \in Nat,
         what = "tag" => preIndex' <= limit,
         what \in {"length", "value"} => fieldNum' \in DOMAIN Unmarshal[frame.type],
         iNdEx' > limit => what = "skip_tag" /\ depth' > 0
  PROVE  DecoderInv'
<1>1. limit' = limit /\ frame' = frame
  BY DEF limit, frame
<1>2. pc' = what /\ varint' = NoBits /\ varint' \in Varint /\ ~varint'.done /\ pc' # "end"
  BY NoBitsType DEF Read, NoBits, Counters
<1>3. Scalars'
  BY <1>2 DEF Scalars
<1>4. Control'
  BY <1>1, <1>2 DEF Control
<1> QED BY <1>3, <1>4, SameFrames

(* Where a length leads to is an int. *)
LEMMA PostType == ASSUME DecoderInv PROVE postIndex \in Int
<1>1. Signed(varint.bits, WordBits) \in Int /\ iNdEx \in Int
  BY Running, SignedFacts DEF DecoderInv, Scalars
<1> QED BY <1>1, PlusType DEF postIndex

(* The next field starts within the slice. *)
LEMMA NextFieldInv == ASSUME DecoderInv, NextField PROVE DecoderInv'
<1>1. /\ pc = "loop" /\ iNdEx < limit /\ preIndex' = iNdEx /\ Read("tag")
      /\ UNCHANGED <<request, iNdEx, frames, fieldNum, depth, status>>
  BY DEF NextField
<1>2. /\ status = "running" /\ iNdEx \in Nat /\ limit \in Nat /\ iNdEx <= limit /\ depth \in Nat
  BY <1>1, Within DEF DecoderInv, Scalars
<1>3. "tag" \in Counters /\ iNdEx' \in Nat /\ preIndex' \in Nat /\ depth' \in Nat
      /\ preIndex' <= limit /\ ~(iNdEx' > limit)
  BY <1>1, <1>2 DEF Counters
<1> QED BY <1>1, <1>2, <1>3, ReadNext

(* The switch: a known field, or one to be skipped from its tag on. *)
LEMMA TagInv == ASSUME DecoderInv, KnownField \/ UnknownField PROVE DecoderInv'
<1>0. pc = "tag" /\ varint.done
  BY DEF KnownField, UnknownField, Have
<1>1. status = "running" /\ iNdEx \in Nat /\ limit \in Nat /\ iNdEx <= limit
      /\ preIndex \in Nat /\ depth \in Nat /\ preIndex <= limit
  BY <1>0, Within DEF DecoderInv, Scalars, Control
<1>2. CASE KnownField
  <2> DEFINE what == IF WireType = 2 THEN "length" ELSE "value"
  <2>1. /\ Number \in DOMAIN Unmarshal[frame.type] /\ fieldNum' = Number /\ Read(what)
        /\ UNCHANGED <<request, iNdEx, frames, preIndex, depth, status>>
    BY <1>2 DEF KnownField, Known
  <2>2. what \in Counters \cup {"loop"} /\ what # "tag"
    BY DEF Counters
  <2>3. iNdEx' \in Nat /\ preIndex' \in Nat /\ depth' \in Nat /\ ~(iNdEx' > limit)
    BY <1>1, <2>1
  <2> HIDE DEF what
  <2> QED BY <1>1, <2>1, <2>2, <2>3, ReadNext
<1>3. CASE UnknownField
  <2>1. /\ iNdEx' = preIndex /\ depth' = 0 /\ Read("skip_tag")
        /\ UNCHANGED <<request, frames, preIndex, fieldNum, status>>
    BY <1>3 DEF UnknownField
  <2>2. /\ "skip_tag" \in Counters \cup {"loop"}
        /\ iNdEx' \in Nat /\ preIndex' \in Nat /\ depth' \in Nat /\ ~(iNdEx' > limit)
    BY <1>1, <2>1 DEF Counters
  <2> QED BY <1>1, <2>1, <2>2, ReadNext
<1> QED BY <1>2, <1>3

(* A value of the innermost message is set. *)
LEMMA AssignInv ==
  ASSUME DecoderInv, status = "running", NEW name, NEW x,
         frames' = [frames EXCEPT ![Len(frames)] = Assign(@, name, x)],
         Read("loop"), iNdEx' \in Nat, iNdEx' <= limit,
         UNCHANGED <<request, preIndex, fieldNum, depth, status>>
  PROVE  DecoderInv'
<1> DEFINE f == Assign(Top(frames), name, x)
<1>1. frames' = SetTop(frames, f)
  BY DEF SetTop, Top
<1>2. /\ Stack(frames, Max) /\ Max \in Nat /\ limit = Top(frames).limit /\ limit \in 0 .. Max
      /\ DOMAIN Top(frames) = FrameFields
  BY Running DEF DecoderInv
<1>3. DOMAIN f = FrameFields /\ f.type = Top(frames).type /\ f.limit = Top(frames).limit
  BY <1>2, AssignFacts
<1> HIDE DEF f
<1>4. Stack(frames', Max) /\ Top(frames') = f
  <2>1. Stack(SetTop(frames, f), Max) /\ Top(SetTop(frames, f)) = f
    BY ONLY <1>2, <1>3, ReplaceTop
  <2> QED BY <1>1, <2>1
<1>5. limit' = limit
  <2>1. limit' = Top(frames').limit
    BY DEF limit, frame, Top
  <2> QED BY <1>2, <1>3, <1>4, <2>1
<1>6. pc' = "loop" /\ varint' \in Varint
  BY NoBitsType DEF Read
<1>7. Scalars'
  BY <1>6 DEF DecoderInv, Scalars
<1>8. Control'
  <2>1. ~(iNdEx' > limit')
    BY <1>2, <1>5
  <2> QED BY <1>6, <2>1 DEF Control
<1>9. Stack(frames, Max)' /\ request' \in Inputs
  BY <1>4 DEF DecoderInv, Max
<1> QED BY <1>7, <1>8, <1>9 DEF DecoderInv

(* A uint32 or a bool. *)
LEMMA SetValueInv == ASSUME DecoderInv, SetValue PROVE DecoderInv'
<1>1. /\ pc = "value" /\ frames' = [frames EXCEPT ![Len(frames)] = Assign(@, Case.name, Value)]
      /\ Read("loop") /\ UNCHANGED <<request, iNdEx, preIndex, fieldNum, depth, status>>
  BY DEF SetValue, Have
<1>2. status = "running" /\ iNdEx' \in Nat /\ iNdEx' <= limit
  BY <1>1, Within
<1> QED BY <1>1, <1>2, AssignInv

(* A string or an amount. *)
LEMMA SetBytesInv == ASSUME DecoderInv, SetBytes PROVE DecoderInv'
<1>1. /\ pc = "length" /\ frames' = [frames EXCEPT ![Len(frames)] = Assign(@, Case.name, Bytes)]
      /\ Read("loop") /\ iNdEx' = postIndex /\ postIndex >= 0 /\ postIndex <= limit
      /\ UNCHANGED <<request, preIndex, fieldNum, depth, status>>
  BY DEF SetBytes, Have, Fits
<1>2. status = "running" /\ iNdEx' \in Nat /\ iNdEx' <= limit
  BY <1>1, Within, PostType
<1> QED BY <1>1, <1>2, AssignInv

(* A call for an embedded message: its slice starts at the index, because  *)
(* the sum of index and length did not overflow.                           *)
LEMMA CallInv == ASSUME DecoderInv, CallUnmarshal PROVE DecoderInv'
<1> DEFINE f == [type |-> Case.of, msg |-> StartOf, limit |-> postIndex, field |-> Case.name]
<1>1. /\ pc = "length" /\ Case.kind \in {"message", "repeated"}
      /\ Signed(varint.bits, WordBits) >= 0 /\ postIndex >= 0 /\ postIndex <= limit
      /\ frames' = Append(frames, f) /\ Read("loop")
      /\ UNCHANGED <<request, iNdEx, preIndex, fieldNum, depth, status>>
  BY DEF CallUnmarshal, Have, Fits
<1>2. status = "running" /\ iNdEx \in Nat /\ limit \in Nat /\ iNdEx <= limit
  BY <1>1, Within
<1>3. /\ Stack(frames, Max) /\ Max \in Nat /\ Max < Half /\ limit = Top(frames).limit
      /\ limit \in 0 .. Max /\ frame.type \in Types /\ varint.bits \in 0 .. Words - 1
  BY Running DEF DecoderInv
<1>4. Half \in Nat /\ Words \in Nat
  BY WidthFacts
<1>5. iNdEx <= postIndex
  <2>1. iNdEx < Half
    BY <1>2, <1>3, <1>4
  <2>2. postIndex = iNdEx + varint.bits
    BY <1>1, <1>2, <1>3, <2>1, PlusExact DEF postIndex
  <2> QED BY <1>2, <1>3, <1>4, <2>2
<1>6. Case.of \in Types
  <2>1. fieldNum \in DOMAIN Unmarshal[frame.type]
    BY <1>1 DEF DecoderInv, Control
  <2> QED BY <1>1, <1>3, <2>1, UnmarshalAssumption DEF Case
<1>7. postIndex \in 0 .. Top(frames).limit
  BY <1>1, <1>3, PostType
<1>8. DOMAIN f = FrameFields /\ f.type \in Types /\ f.limit \in 0 .. Top(frames).limit /\ f.limit = postIndex
  BY <1>6, <1>7 DEF FrameFields
<1> HIDE DEF f
<1>9. Stack(frames', Max) /\ Top(frames') = f
  <2>1. Stack(Append(frames, f), Max) /\ Top(Append(frames, f)) = f
    BY ONLY <1>3, <1>8, PushStack
  <2> QED BY <1>1, <2>1
<1>10. limit' = postIndex
  <2>1. limit' = Top(frames').limit
    BY DEF limit, frame, Top
  <2> QED BY <1>8, <1>9, <2>1
<1>11. pc' = "loop" /\ varint' \in Varint
  BY <1>1, NoBitsType DEF Read
<1>12. Scalars'
  BY <1>1, <1>11 DEF DecoderInv, Scalars
<1>13. Control'
  <2>1. ~(iNdEx' > limit')
    BY <1>1, <1>2, <1>5, <1>10, PostType
  <2> QED BY <1>1, <1>2, <1>11, <2>1 DEF Control
<1>14. Stack(frames, Max)' /\ request' \in Inputs
  BY <1>1, <1>9 DEF DecoderInv, Max
<1> QED BY <1>12, <1>13, <1>14 DEF DecoderInv

(* The end of a slice: back to the caller, whose slice goes on. *)
LEMMA ReturnInv == ASSUME DecoderInv, Return PROVE DecoderInv'
<1>1. pc = "loop" /\ iNdEx >= limit
  BY DEF Return
<1>2. status = "running" /\ iNdEx \in Nat /\ limit \in Nat /\ iNdEx <= limit
  BY <1>1, Within
<1>3. ~(iNdEx > limit) /\ UNCHANGED <<request, iNdEx, varint, preIndex, fieldNum, depth>>
  BY <1>2 DEF Return
<1>4. CASE Len(frames) = 1
  <2>1. status' = "ok" /\ pc' = "end" /\ frames' = frames
    BY <1>3, <1>4 DEF Return
  <2>2. Scalars'
    BY <1>3, <2>1 DEF DecoderInv, Scalars
  <2>3. limit' = limit
    BY <2>1 DEF limit, frame
  <2>4. ~(iNdEx' > limit')
    BY <1>3, <2>3
  <2>5. Control'
    BY <2>1, <2>4 DEF Control
  <2> QED BY <1>3, <2>1, <2>2, <2>5, SameFrames
<1>5. CASE Len(frames) # 1
  <2> DEFINE out == Popped(frames)
             f   == Assign(Top(out), frame.field, frame.msg)
  <2>1. frames' = SetTop(out, f) /\ UNCHANGED <<status, pc>>
    BY <1>3, <1>5 DEF Return, Popped, SetTop, Top
  <2>2. Stack(frames, Max) /\ Max \in Nat /\ limit = Top(frames).limit
    BY Running DEF DecoderInv
  <2>3. Stack(out, Max) /\ limit <= Top(out).limit
    BY <1>5, <2>2, PopStack
  <2> HIDE DEF out
  <2>4. DOMAIN Top(out) = FrameFields /\ Top(out).limit \in 0 .. Max
    BY <2>2, <2>3, StackFacts
  <2>5. DOMAIN f = FrameFields /\ f.type = Top(out).type /\ f.limit = Top(out).limit
    BY <2>4, AssignFacts
  <2> HIDE DEF f
  <2>6. Stack(frames', Max) /\ Top(frames') = f
    BY <2>1, <2>2, <2>3, <2>5, ReplaceTop
  <2>7. limit' = Top(out).limit
    <3>1. limit' = Top(frames').limit
      BY DEF limit, frame, Top
    <3> QED BY <2>5, <2>6, <3>1
  <2>8. Scalars'
    BY <1>3, <2>1 DEF DecoderInv, Scalars
  <2>9. ~(iNdEx' > limit')
    BY <1>2, <1>3, <2>2, <2>3, <2>4, <2>7
  <2>10. Control'
    BY <1>1, <1>2, <2>1, <2>9 DEF Control
  <2>11. Stack(frames, Max)' /\ request' \in Inputs
    BY <1>3, <2>6 DEF DecoderInv, Max
  <2> QED BY <2>8, <2>10, <2>11 DEF DecoderInv
<1> QED BY <1>4, <1>5

(* skip goes on to the next tag, or returns within the limit. *)
LEMMA SkippedInv ==
  ASSUME DecoderInv, status = "running", NEW next \in Int, NEW open \in Nat, Skipped(next, open)
  PROVE  DecoderInv'
<1> DEFINE what == IF open = 0 THEN "loop" ELSE "skip_tag"
<1>1. /\ next >= 0 /\ (open = 0 => next <= limit) /\ iNdEx' = next /\ Read(what)
      /\ depth' = open /\ UNCHANGED <<request, frames, preIndex, fieldNum, status>>
  BY DEF Skipped
<1>2. what \in Counters \cup {"loop"} /\ what \notin {"tag", "length", "value"}
  BY DEF Counters
<1>3. iNdEx' \in Nat /\ preIndex' \in Nat /\ depth' \in Nat
  BY <1>1 DEF DecoderInv, Scalars
<1>4. iNdEx' > limit => what = "skip_tag" /\ depth' > 0
  <2>1. limit \in Nat
    BY Running
  <2> QED BY <1>1, <2>1
<1> HIDE DEF what
<1> QED BY <1>1, <1>2, <1>3, <1>4, ReadNext

(* All rounds of skip. *)
LEMMA SkipInv ==
  ASSUME DecoderInv, SkipTag \/ SkipFixed \/ SkipGroup \/ SkipVarint \/ SkipLength
  PROVE  DecoderInv'
<1>0. pc \in {"skip_tag", "skip_varint", "skip_length"} /\ varint.done
  BY DEF SkipTag, SkipFixed, SkipGroup, SkipVarint, SkipLength, Have
<1>1. /\ status = "running" /\ iNdEx \in Nat /\ limit \in Nat /\ iNdEx <= limit
      /\ depth \in Nat /\ preIndex \in Nat
  BY <1>0, Within DEF DecoderInv, Scalars
<1>2. CASE SkipTag
  <2> DEFINE what == IF WireType = 0 THEN "skip_varint" ELSE "skip_length"
  <2>1. Read(what) /\ UNCHANGED <<request, iNdEx, frames, preIndex, fieldNum, depth, status>>
    BY <1>2 DEF SkipTag
  <2>2. what \in Counters \cup {"loop"} /\ what \notin {"tag", "length", "value"}
    BY DEF Counters
  <2>3. iNdEx' \in Nat /\ preIndex' \in Nat /\ depth' \in Nat /\ ~(iNdEx' > limit)
    BY <1>1, <2>1
  <2> HIDE DEF what
  <2> QED BY <1>1, <2>1, <2>2, <2>3, ReadNext
<1>3. CASE SkipFixed
  <2> DEFINE next == Plus(iNdEx, IF WireType = 1 THEN 8 ELSE 4)
  <2>1. Skipped(next, depth) \/ SkipFails(next)
    BY <1>3 DEF SkipFixed
  <2>2. next \in Int
    <3>1. \A n \in Int : Plus(iNdEx, n) \in Int
      BY <1>1, PlusType
    <3>2. (IF WireType = 1 THEN 8 ELSE 4) \in Int
      OBVIOUS
    <3> QED BY ONLY <3>1, <3>2
  <2> HIDE DEF next
  <2> QED BY <1>1, <2>1, <2>2, SkippedInv, FailInv DEF SkipFails
<1>4. CASE SkipGroup
  <2>1. Skipped(iNdEx, depth + 1) \/ (depth > 0 /\ Skipped(iNdEx, depth - 1))
    BY <1>4 DEF SkipGroup
  <2>2. CASE Skipped(iNdEx, depth + 1)
    BY <1>1, <2>2, SkippedInv
  <2>3. CASE depth > 0 /\ Skipped(iNdEx, depth - 1)
    <3>1. depth - 1 \in Nat
      BY <1>1, <2>3
    <3> QED BY <1>1, <2>3, <3>1, SkippedInv
  <2> QED BY <2>1, <2>2, <2>3
<1>5. CASE SkipVarint
  BY <1>1, <1>5, SkippedInv DEF SkipVarint
<1>6. CASE SkipLength
  <2> DEFINE next == IF Signed(varint.bits, WordBits) < 0 THEN -1 ELSE postIndex
  <2>1. Skipped(next, depth) \/ SkipFails(next)
    BY <1>6 DEF SkipLength
  <2>2. next \in Int
    BY PostType
  <2> HIDE DEF next
  <2> QED BY <1>1, <2>1, <2>2, SkippedInv, FailInv DEF SkipFails
<1> QED BY <1>2, <1>3, <1>4, <1>5, <1>6

(* The outermost call starts with all bytes. *)
LEMMA InitInv == ASSUME Init PROVE DecoderInv
<1> DEFINE f == [type |-> request.type, msg |-> Zero[request.type], limit |-> Max, field |-> ""]
<1>1. request \in Inputs /\ iNdEx = 0 /\ frames = <<f>> /\ pc = "loop" /\ varint = NoBits
      /\ preIndex = 0 /\ fieldNum = 0 /\ depth = 0 /\ status = "running"
  BY DEF Init, Max
<1>2. request.type \in Types /\ Max \in Nat
  BY <1>1, InputFacts
<1>3. DOMAIN f = FrameFields /\ f.type \in Types /\ f.limit = Max
  BY <1>2 DEF FrameFields
<1> HIDE DEF f
<1>4. Len(frames) = 1 /\ frames[1] = f /\ DOMAIN frames = 1 .. 1
  BY <1>1
<1>5. Stack(frames, Max)
  <2>1. frames \in Seq(Entries(frames))
    BY <1>1, <1>4 DEF Entries
  <2>2. \A i \in 1 .. 1 : frames[i] = f
    BY <1>4
  <2> QED BY <1>2, <1>3, <1>4, <2>1, <2>2 DEF Stack
<1>6. Scalars
  BY <1>1, NoBitsType DEF Scalars
<1>7. Control
  <2>1. limit = Max
    BY <1>3, <1>4 DEF limit, frame
  <2> QED BY <1>1, <1>2, <2>1 DEF Control
<1> QED BY <1>1, <1>5, <1>6, <1>7 DEF DecoderInv

(* Every step keeps the invariant. *)
LEMMA NextInv == ASSUME DecoderInv, [Next]_vars PROVE DecoderInv'
<1>1. CASE ReadByte
  BY <1>1, ReadByteInv
<1>2. CASE ReadFails \/ BadTag \/ BadLength \/ BadSkip
  BY <1>2, FailInv DEF ReadFails, BadTag, BadLength, BadSkip
<1>3. CASE NextField \/ Return
  BY <1>3, NextFieldInv, ReturnInv
<1>4. CASE KnownField \/ UnknownField
  BY <1>4, TagInv
<1>5. CASE SetValue \/ SetBytes \/ CallUnmarshal
  BY <1>5, SetValueInv, SetBytesInv, CallInv
<1>6. CASE SkipTag \/ SkipFixed \/ SkipGroup \/ SkipVarint \/ SkipLength
  BY <1>6, SkipInv
<1>7. CASE UNCHANGED vars
  BY <1>7 DEF vars, DecoderInv, Scalars, Control, Max, limit, frame
<1> QED BY <1>1, <1>2, <1>3, <1>4, <1>5, <1>6, <1>7 DEF Next

-----------------------------------------------------------------------------
(* The theorems *)

(* The invariant of the decoder. *)
LEMMA DecoderInvariance == Spec => []DecoderInv
<1>1. Init => DecoderInv
  BY InitInv
<1>2. DecoderInv /\ [Next]_vars => DecoderInv'
  BY NextInv
<1> QED BY <1>1, <1>2, PTL DEF Spec

(* Type correctness: indices are never negative, a varint never leaves its *)
(* word, and only known messages are decoded.                              *)
THEOREM DecoderTypeCorrect == Spec => []TypeOK
<1>1. ASSUME DecoderInv PROVE TypeOK
  <2>1. request.type \in Types /\ Max \in Nat
    BY <1>1, InputFacts DEF DecoderInv
  <2>2. frames # <<>>
    BY <1>1, <2>1, StackFacts DEF DecoderInv
  <2>3. \A i \in 1 .. Len(frames) : frames[i].type \in Types /\ frames[i].limit \in Nat
    BY <1>1, <2>1 DEF DecoderInv, Stack
  <2> QED BY <1>1, <2>1, <2>2, <2>3 DEF DecoderInv, Scalars, Varint, TypeOK
<1> QED BY <1>1, DecoderInvariance, PTL

(* No index and no slice expression of the generated decoders goes out of  *)
(* bounds, whatever the bytes are: a length that overflows int, a group    *)
(* that is not closed and a field longer than its message included.        *)
THEOREM DecoderReadsInBounds == Spec => []ReadsInBounds
<1>1. ASSUME DecoderInv PROVE ReadsInBounds
  BY <1>1 DEF DecoderInv, Stack, Control, Max, ReadsInBounds
<1> QED BY <1>1, DecoderInvariance, PTL

-----------------------------------------------------------------------------
(* Varints *)

IsVarint(f) == f = [v \in Nat |-> IF v >= 128 THEN <<(v % 128) + 128>> \o f[v \div 128] ELSE <<v>>]

(* Seven bits of a number and the others. *)
LEMMA SevenBits ==
  ASSUME NEW v \in Nat
  PROVE  /\ v % 128 \in 0 .. 127 /\ v \div 128 \in Nat /\ v = 128 * (v \div 128) + (v % 128)
         /\ v >= 128 => v \div 128 < v /\ v \div 128 > 0
OBVIOUS

(* The varint of a number is made of bytes: low bits first, the highest    *)
(* bit of a byte set when there are more.                                  *)
LEMMA VarintUnfold ==
  ASSUME NEW v \in Nat
  PROVE  /\ VarintBytes[v] \in Seq(Byte) /\ VarintBytes[v] # <<>>
         /\ v < 128 => VarintBytes[v] = <<v>>
         /\ v >= 128 => VarintBytes[v] = <<(v % 128) + 128>> \o VarintBytes[v \div 128]
<1> DEFINE D  == {k \in Nat : k >= 128}
           p  == [k \in D |-> k \div 128]
           V  == Seq(Nat)
           b  == [k \in Nat \ D |-> <<k>>]
           st == [x \in D \X V |-> <<(x[1] % 128) + 128>> \o x[2]]
<1>1. IsRecursion(D, p, V, b, st)
  <2>1. \A k \in D : k \div 128 \in Nat /\ k \div 128 < k
    BY SevenBits
  <2>2. \A x \in D \X V : <<(x[1] % 128) + 128>> \o x[2] \in V
    <3>1. \A k \in D : <<(k % 128) + 128>> \in V
      BY SevenBits
    <3>2. \A s, t \in V : s \o t \in V
      BY ConcatProperties
    <3> HIDE DEF V, D
    <3> QED BY <3>1, <3>2
  <2>3. \A k \in Nat : <<k>> \in V
    OBVIOUS
  <2> HIDE DEF V
  <2>4. p \in [D -> Nat] /\ (\A k \in D : p[k] < k) /\ b \in [Nat \ D -> V] /\ st \in [D \X V -> V]
    BY <2>1, <2>2, <2>3
  <2> HIDE DEF p, b, st
  <2> QED BY <2>4 DEF IsRecursion
<1>2. PICK F \in [Nat -> V] : Recurs(F, Nat, D, p, b, st)
  <2> HIDE DEF D, p, V, b, st
  <2> QED BY <1>1, RecursionExists
<1>3. IsVarint(F)
  <2>1. ASSUME NEW k \in Nat PROVE F[k] = IF k >= 128 THEN <<(k % 128) + 128>> \o F[k \div 128] ELSE <<k>>
    <3>1. F[k] = IF k \in D THEN st[<<k, F[p[k]]>>] ELSE b[k]
      BY <1>2 DEF Recurs
    <3>2. CASE k >= 128
      <4>1. k \in D /\ p[k] = k \div 128 /\ k \div 128 \in Nat
        BY <3>2, SevenBits
      <4>2. F[k \div 128] \in V
        BY <1>2, <4>1
      <4>3. st[<<k, F[k \div 128]>>] = <<(k % 128) + 128>> \o F[k \div 128]
        <5> HIDE DEF V, D
        <5> QED BY <4>1, <4>2
      <4> QED BY <3>1, <3>2, <4>1, <4>3
    <3>3. CASE ~(k >= 128)
      BY <3>1, <3>3
    <3> QED BY <3>2, <3>3
  <2>2. F = [k \in Nat |-> F[k]]
    BY <1>2
  <2> QED BY <2>1, <2>2 DEF IsVarint
<1>4. IsVarint(VarintBytes)
  <2>1. VarintBytes = CHOOSE f : IsVarint(f)
    BY DEF VarintBytes, IsVarint
  <2> QED BY <1>3, <2>1
<1>5. \A k \in Nat : VarintBytes[k] = IF k >= 128 THEN <<(k % 128) + 128>> \o VarintBytes[k \div 128] ELSE <<k>>
  BY <1>4 DEF IsVarint
<1> DEFINE G == {k \in Nat : VarintBytes[k] \in Seq(Byte) /\ VarintBytes[k] # <<>>}
<1>6. ASSUME NEW k \in Nat, \A j \in 0 .. k - 1 : j \in G PROVE k \in G
  <2>1. CASE k < 128
    <3>1. <<k>> \in Seq(Byte) /\ <<k>> # <<>>
      BY <2>1 DEF Byte
    <3>2. ~(k >= 128)
      BY <2>1
    <3>3. VarintBytes[k] = <<k>>
      BY <1>5, <3>2
    <3> QED BY <3>1, <3>3
  <2>2. CASE k >= 128
    <3> DEFINE s == <<(k % 128) + 128>>
               t == VarintBytes[k \div 128]
    <3>1. s \in Seq(Byte) /\ Len(s) = 1
      BY SevenBits DEF Byte
    <3>2. k \div 128 \in 0 .. k - 1
      BY <2>2, SevenBits
    <3>3. t \in Seq(Byte)
      BY <1>6, <3>2
    <3>4. VarintBytes[k] = s \o t
      BY <1>5, <2>2
    <3> HIDE DEF s, t
    <3>5. s \o t \in Seq(Byte) /\ Len(s \o t) = Len(s) + Len(t) /\ Len(t) \in Nat
      BY <3>1, <3>3, ConcatProperties, LenProperties
    <3>6. s \o t # <<>>
      BY <3>1, <3>5
    <3> QED BY <3>4, <3>5, <3>6
  <2> QED BY <2>1, <2>2
<1> HIDE DEF G
<1>7. Nat \subseteq G
  BY <1>6, StrongInduction
<1>8. v < 128 => ~(v >= 128)
  OBVIOUS
<1> QED BY <1>5, <1>7, <1>8 DEF G

-----------------------------------------------------------------------------
(* What the decoder has in front of it *)

(* Bytes one after the other. *)
LEMMA BytesConcat ==
  ASSUME NEW s \in Seq(Byte), NEW t \in Seq(Byte)
  PROVE  /\ s \o t \in Seq(Byte) /\ Len(s) \in Nat /\ Len(t) \in Nat /\ Len(s \o t) = Len(s) + Len(t)
         /\ \A u \in Seq(Byte) : (s \o t) \o u = s \o (t \o u)
<1>1. s \o t \in Seq(Byte) /\ Len(s) \in Nat /\ Len(t) \in Nat /\ Len(s \o t) = Len(s) + Len(t)
  BY ConcatProperties, LenProperties
<1>2. ASSUME NEW u \in Seq(Byte) PROVE (s \o t) \o u = s \o (t \o u)
  BY ConcatAssociative
<1> QED BY <1>1, <1>2

(* The bytes at pos are those of s, as far as the input goes. *)
Agrees(pos, s) == \A j \in 1 .. Len(s) : pos + j <= Max => request.bytes[pos + j] = s[j]

(* s is what follows in call i: up to the end of its slice, or, in the     *)
(* outermost call, beyond it when the end of the input was lost.           *)
Follows(i, pos, s) ==
  /\ s \in Seq(Byte)
  /\ Agrees(pos, s)
  /\ pos + Len(s) >= frames[i].limit
  /\ i > 1 \/ request.how = "valid" => pos + Len(s) = frames[i].limit

(* The varint of v is being read, and then rest follows. *)
Reading(v, rest) ==
  /\ v \in Word /\ rest \in Seq(Byte)
  /\ IF varint.done THEN varint.bits = v /\ Follows(Len(frames), iNdEx, rest)
     ELSE \E w \in Nat :
            /\ v = varint.bits + w * 2 ^ varint.shift
            /\ w > 0 \/ varint.shift = 0
            /\ Follows(Len(frames), iNdEx, VarintBytes[w] \o rest)

(* Past the first part of what follows. *)
LEMMA FollowsTail ==
  ASSUME NEW i \in Nat, NEW pos \in Nat, NEW s \in Seq(Byte), NEW t \in Seq(Byte),
         Follows(i, pos, s \o t)
  PROVE  /\ Follows(i, pos + Len(s), t) /\ pos + Len(s) \in Nat
         /\ \A j \in 1 .. Len(s) : pos + j <= Max => request.bytes[pos + j] = s[j]
<1>1. /\ Len(s) \in Nat /\ Len(t) \in Nat
      /\ Len(s \o t) = Len(s) + Len(t)
      /\ \A j \in 1 .. Len(s) : (s \o t)[j] = s[j]
      /\ \A j \in 1 .. Len(t) : (s \o t)[Len(s) + j] = t[j]
  BY ConcatProperties, LenProperties
<1> DEFINE st == s \o t
<1>2. Agrees(pos, st) /\ pos + Len(st) >= frames[i].limit
      /\ (i > 1 \/ request.how = "valid" => pos + Len(st) = frames[i].limit)
  BY DEF Follows
<1> HIDE DEF st
<1>3. pos + Len(st) = (pos + Len(s)) + Len(t)
  BY <1>1 DEF st
<1>4. Agrees(pos + Len(s), t)
  <2> SUFFICES ASSUME NEW j \in 1 .. Len(t), (pos + Len(s)) + j <= Max
               PROVE  request.bytes[(pos + Len(s)) + j] = t[j]
    BY DEF Agrees
  <2>1. Len(s) + j \in 1 .. Len(st) /\ pos + (Len(s) + j) = (pos + Len(s)) + j
    BY <1>1 DEF st
  <2>2. request.bytes[pos + (Len(s) + j)] = st[Len(s) + j]
    BY <1>2, <2>1 DEF Agrees
  <2> QED BY <1>1, <2>1, <2>2 DEF st
<1>5. ASSUME NEW j \in 1 .. Len(s), pos + j <= Max PROVE request.bytes[pos + j] = s[j]
  <2>1. j \in 1 .. Len(st)
    BY <1>1 DEF st
  <2> QED BY <1>1, <1>2, <1>5, <2>1 DEF Agrees, st
<1> QED BY <1>1, <1>2, <1>3, <1>4, <1>5 DEF Follows

(* A varint is going to be read. *)
LEMMA ReadingStarts ==
  ASSUME NEW v \in Word, NEW rest \in Seq(Byte),
         varint' = NoBits, Follows(Len(frames), iNdEx, VarintBytes[v] \o rest)'
  PROVE  Reading(v, rest)'
<1>1. v \in Nat
  BY WidthFacts DEF Word, Words
<1>2. varint'.bits = 0 /\ varint'.shift = 0 /\ ~varint'.done
  BY DEF NoBits
<1>3. v = varint'.bits + v * 2 ^ varint'.shift
  BY <1>1, <1>2, PowerZero
<1> QED BY <1>1, <1>2, <1>3 DEF Reading

(* The next byte of a varint that is being read, whose value fits a word. *)
LEMMA ReadingBytes ==
  ASSUME DecoderInv, NEW v, NEW rest, Reading(v, rest), ReadByte
  PROVE  Reading(v, rest)'
<1> DEFINE k == Len(frames)
           b == request.bytes[iNdEx + 1]
           s == varint.shift
           x == varint.bits
<1>1. /\ ~varint.done /\ iNdEx < limit /\ iNdEx' = iNdEx + 1
      /\ varint' = [bits |-> (x + (b % 128) * 2 ^ s) % 2 ^ WordBits, shift |-> s + 7, done |-> b < 128]
      /\ UNCHANGED <<request, frames, pc, preIndex, fieldNum, depth, status>>
  BY DEF ReadByte
<1>2. PICK w \in Nat : /\ v = x + w * 2 ^ s
                       /\ Follows(k, iNdEx, VarintBytes[w] \o rest)
  BY <1>1 DEF Reading
<1>3. /\ iNdEx \in Nat /\ limit \in 0 .. Max /\ x \in Nat /\ s \in Nat /\ Max \in Nat
      /\ 2 ^ s \in Nat /\ Words \in Nat \ {0} /\ v \in 0 .. Words - 1 /\ rest \in Seq(Byte)
      /\ k \in Nat
  <2>1. Words \in Nat \ {0}
    BY WidthFacts
  <2>2. Len(frames) \in Nat
    BY Running, StackFacts DEF DecoderInv
  <2> QED BY <2>1, <2>2, Running, PowerType DEF DecoderInv, Scalars, Reading, Word, Words
<1>4. /\ VarintBytes[w] \in Seq(Byte) /\ VarintBytes[w] # <<>>
      /\ w < 128 => VarintBytes[w] = <<w>>
      /\ w >= 128 => VarintBytes[w] = <<(w % 128) + 128>> \o VarintBytes[w \div 128]
  BY VarintUnfold
<1>5. /\ w % 128 \in 0 .. 127 /\ w \div 128 \in Nat /\ w = 128 * (w \div 128) + (w % 128)
      /\ w >= 128 => w \div 128 > 0
  BY SevenBits
<1>6. v = (x + (w % 128) * 2 ^ s) + (w \div 128) * 2 ^ (s + 7)
  <2>1. 2 ^ (s + 7) = 128 * 2 ^ s
    BY <1>3, PowerSeven
  <2>2. \A a, c, q, m \in Nat : a + (128 * q + m) * c = (a + m * c) + q * (128 * c)
    OBVIOUS
  <2> DEFINE c == 2 ^ s
             q == w \div 128
             m == w % 128
  <2> HIDE DEF c, q, m, x, s
  <2>3. x \in Nat /\ c \in Nat /\ q \in Nat /\ m \in Nat /\ v = x + w * c /\ w = 128 * q + m
    BY <1>2, <1>3, <1>5 DEF c, q, m
  <2>4. v = (x + m * c) + q * (128 * c)
    BY ONLY <2>2, <2>3
  <2> QED BY <2>1, <2>4 DEF c, q, m
<1>7. (x + (w % 128) * 2 ^ s) % Words = x + (w % 128) * 2 ^ s
  <2>1. \A m, n \in Nat : m * n \in Nat
    OBVIOUS
  <2>2. (w % 128) * 2 ^ s \in Nat /\ (w \div 128) * 2 ^ (s + 7) \in Nat
    <3>1. 2 ^ s \in Nat /\ 2 ^ (s + 7) \in Nat
      BY <1>3, PowerType
    <3> DEFINE a == w % 128
               d == w \div 128
    <3>2. a \in Nat /\ d \in Nat
      BY <1>5
    <3> HIDE DEF a, d, s
    <3>3. a * 2 ^ s \in Nat /\ d * 2 ^ (s + 7) \in Nat
      BY ONLY <2>1, <3>1, <3>2
    <3> QED BY <3>3 DEF a, d
  <2> DEFINE y == (w % 128) * 2 ^ s
             z == (w \div 128) * 2 ^ (s + 7)
  <2> HIDE DEF y, z
  <2>3. x + y \in Int /\ 0 <= x + y /\ x + y < Words
    <3>1. v = (x + y) + z /\ y \in Nat /\ z \in Nat
      BY <1>6, <2>2 DEF y, z
    <3>2. x \in Nat /\ Words \in Nat /\ v \in 0 .. Words - 1
      BY <1>3
    <3> HIDE DEF x
    <3> QED BY ONLY <3>1, <3>2
  <2>4. (x + y) % Words = x + y
    BY ONLY <1>3, <2>3, Remainder
  <2> QED BY <2>4 DEF y
<1> HIDE DEF b, s, x
<1>8. CASE w < 128
  <2>1. Follows(k, iNdEx + Len(<<w>>), rest) /\ request.bytes[iNdEx + 1] = <<w>>[1]
    <3>1. <<w>> \in Seq(Byte) /\ Len(<<w>>) = 1
      BY <1>4, <1>8
    <3>2. Follows(k, iNdEx, <<w>> \o rest)
      BY <1>2, <1>4, <1>8
    <3> DEFINE c == <<w>>
    <3>3. c \in Seq(Byte) /\ Follows(k, iNdEx, c \o rest) /\ k \in Nat /\ iNdEx \in Nat /\ rest \in Seq(Byte)
      BY <1>3, <3>1, <3>2
    <3> HIDE DEF k, c
    <3>4. /\ Follows(k, iNdEx + Len(c), rest)
          /\ \A j \in 1 .. Len(c) : iNdEx + j <= Max => request.bytes[iNdEx + j] = c[j]
      BY ONLY <3>3, FollowsTail
    <3> QED BY <1>1, <1>3, <3>1, <3>4 DEF c
  <2>2. b = w /\ Follows(k, iNdEx + 1, rest)
    BY <2>1 DEF b
  <2>3. b % 128 = w % 128 /\ w % 128 = w /\ w \div 128 = 0 /\ b < 128
    BY <1>8, <2>2
  <2>4. v = x + (w % 128) * 2 ^ s
    <3>1. (w \div 128) * 2 ^ (s + 7) = 0
      BY <1>3, <2>3, PowerType
    <3>2. x + (w % 128) * 2 ^ s \in Int
      BY <1>3, <1>5
    <3> QED BY <1>6, <3>1, <3>2
  <2>5. varint'.done /\ varint'.bits = v
    BY <1>1, <1>7, <2>3, <2>4 DEF Words
  <2>6. Follows(Len(frames), iNdEx, rest)'
    BY <1>1, <2>2 DEF Follows, Agrees, Max
  <2> QED BY <1>3, <2>5, <2>6 DEF Reading, Word, Words
<1>9. CASE w >= 128
  <2> DEFINE c == <<(w % 128) + 128>>
             q == VarintBytes[w \div 128]
  <2>1. c \in Seq(Byte) /\ Len(c) = 1 /\ c[1] = (w % 128) + 128
    BY <1>5 DEF Byte
  <2>2. q \in Seq(Byte)
    BY <1>5, VarintUnfold
  <2>3. VarintBytes[w] = c \o q
    BY <1>4, <1>9
  <2> HIDE DEF c, q
  <2>4. (c \o q) \o rest = c \o (q \o rest) /\ q \o rest \in Seq(Byte)
    <3>1. rest \in Seq(Byte)
      BY <1>3
    <3>2. c \in Seq(Byte)
      BY <2>1
    <3> QED BY ONLY <2>2, <3>1, <3>2, BytesConcat
  <2>5. Follows(k, iNdEx + 1, q \o rest) /\ b = (w % 128) + 128
    <3>1. Follows(k, iNdEx, c \o (q \o rest))
      BY <1>2, <2>3, <2>4
    <3>2. /\ Follows(k, iNdEx + Len(c), q \o rest)
          /\ \A j \in 1 .. Len(c) : iNdEx + j <= Max => request.bytes[iNdEx + j] = c[j]
      <4>1. k \in Nat /\ iNdEx \in Nat /\ c \in Seq(Byte) /\ q \o rest \in Seq(Byte)
        BY <1>3, <2>1, <2>4
      <4> HIDE DEF k
      <4> QED BY ONLY <3>1, <4>1, FollowsTail
    <3> QED BY <1>1, <1>3, <2>1, <3>2 DEF b
  <2>6. b % 128 = w % 128 /\ ~(b < 128)
    BY <1>5, <2>5
  <2>7. ~varint'.done /\ varint'.bits = x + (w % 128) * 2 ^ s /\ varint'.shift = s + 7
    BY <1>1, <1>7, <2>6 DEF Words
  <2>8. Follows(Len(frames), iNdEx, q \o rest)'
    BY <1>1, <2>5 DEF Follows, Agrees, Max
  <2>9. /\ w \div 128 \in Nat /\ w \div 128 > 0
        /\ v = varint'.bits + (w \div 128) * 2 ^ varint'.shift
    BY <1>5, <1>6, <1>9, <2>7
  <2> QED BY <1>3, <2>7, <2>8, <2>9 DEF Reading, Word, Words, q
<1> QED BY <1>8, <1>9

(* All of the varint is there, and it ends before the shift leaves the     *)
(* word.                                                                   *)
LEMMA ReadingGoesOn ==
  ASSUME DecoderInv, request.how = "valid", NEW v, NEW rest, Reading(v, rest), ~varint.done
  PROVE  varint.shift < WordBits /\ iNdEx < limit
<1> DEFINE s == varint.shift
           x == varint.bits
<1>1. PICK w \in Nat : /\ v = x + w * 2 ^ s
                       /\ w > 0 \/ s = 0
                       /\ Follows(Len(frames), iNdEx, VarintBytes[w] \o rest)
  BY DEF Reading
<1>2. /\ iNdEx \in Nat /\ limit \in Nat /\ x \in Nat /\ s \in Nat /\ 2 ^ s \in Nat
      /\ Words \in Nat /\ v \in 0 .. Words - 1 /\ rest \in Seq(Byte) /\ WordBits \in Nat \ {0}
  <2>1. Words \in Nat
    BY WidthFacts
  <2>2. WordBits \in Nat \ {0}
    BY WidthAssumption
  <2>3. iNdEx \in Nat /\ limit \in Nat
    BY Running DEF DecoderInv, Scalars
  <2>4. x \in Nat /\ s \in Nat
    BY Running
  <2>5. 2 ^ s \in Nat
    BY ONLY <2>4, PowerType
  <2>6. v \in 0 .. Words - 1 /\ rest \in Seq(Byte)
    <3>1. v \in Word /\ rest \in Seq(Byte)
      BY DEF Reading
    <3> QED BY <3>1 DEF Word, Words
  <2> QED BY ONLY <2>1, <2>2, <2>3, <2>4, <2>5, <2>6
<1> HIDE DEF s, x
<1>3. s < WordBits
  <2> SUFFICES ASSUME ~(s < WordBits), s # 0 PROVE FALSE
    BY <1>2
  <2>1. Words <= 2 ^ s
    <3>1. WordBits <= s
      BY <1>2
    <3> QED BY <1>2, <3>1, PowerMonotonic DEF Words
  <2>2. w >= 1
    BY <1>1
  <2>3. \A c \in Nat : w * c >= c
    BY <2>2
  <2> DEFINE c == 2 ^ s
  <2>4. c \in Nat /\ w * c >= c /\ v = x + w * c /\ Words <= c
    BY <1>1, <1>2, <2>1, <2>3
  <2> HIDE DEF c
  <2>5. w * c \in Nat
    BY <2>4
  <2> DEFINE d == w * c
  <2> HIDE DEF d
  <2>6. d \in Nat /\ d >= c /\ v = x + d
    BY <2>4, <2>5 DEF d
  <2> QED BY <1>2, <2>4, <2>6
<1>4. iNdEx < limit
  <2> DEFINE b == VarintBytes[w]
             t == b \o rest
  <2>1. b \in Seq(Byte) /\ b # <<>>
    BY VarintUnfold
  <2> HIDE DEF b
  <2>2. Len(t) \in Nat /\ Len(t) > 0
    <3>1. Len(b) \in Nat /\ Len(rest) \in Nat /\ Len(t) = Len(b) + Len(rest)
      BY <1>2, <2>1, BytesConcat
    <3>2. Len(b) # 0
      BY <2>1, EmptySeq
    <3> HIDE DEF t
    <3> QED BY <3>1, <3>2
  <2>3. iNdEx + Len(t) = limit
    BY <1>1 DEF Follows, limit, frame, b
  <2> HIDE DEF t
  <2> QED BY <1>2, <2>2, <2>3
<1> QED BY <1>3, <1>4 DEF s

(* A step within the input does not overflow. *)
LEMMA PlusWithin ==
  ASSUME NEW x \in Nat, NEW y \in Nat, x + y < Half
  PROVE  Plus(x, y) = x + y
<1>1. Half \in Nat \ {0} /\ Words \in Nat \ {0} /\ Words = Half + Half
  BY WidthFacts
<1>2. x + y \in Int /\ 0 <= x + y /\ x + y < Words
  BY <1>1
<1>3. (x + y) % Words = x + y
  BY ONLY <1>1, <1>2, Remainder
<1>4. Plus(x, y) = Signed(x + y, WordBits)
  BY <1>3 DEF Plus, Words
<1>5. x + y \in 0 .. Words - 1
  BY <1>1, <1>2
<1> QED BY <1>4, <1>5, SignedFacts

(* A length of a message: postIndex is where it ends, or the checks fail,  *)
(* which they do not when it ends within the slice.                        *)
LEMMA PostIndex ==
  ASSUME DecoderInv, varint.done, NEW v \in Nat, varint.bits = v, iNdEx <= limit
  PROVE  /\ Fits(postIndex) => postIndex = iNdEx + v
         /\ iNdEx + v <= limit => Fits(postIndex) /\ postIndex = iNdEx + v
<1>1. /\ iNdEx \in Nat /\ limit \in 0 .. Max /\ Max \in Nat /\ Max < Half
      /\ Half \in Nat /\ v \in 0 .. Words - 1 /\ Words = Half + Half
  BY Running, WidthFacts DEF DecoderInv, Scalars
<1>2. ASSUME Fits(postIndex) PROVE postIndex = iNdEx + v
  <2>1. Signed(v, WordBits) >= 0 /\ Plus(iNdEx, Signed(v, WordBits)) >= 0
    BY <1>2 DEF Fits, postIndex
  <2>2. iNdEx < Half
    BY <1>1
  <2>3. Plus(iNdEx, Signed(v, WordBits)) = iNdEx + v
    BY <1>1, <2>1, <2>2, PlusExact
  <2> QED BY <2>3 DEF postIndex
<1>3. ASSUME iNdEx + v <= limit PROVE Fits(postIndex) /\ postIndex = iNdEx + v
  <2>1. v < Half /\ iNdEx + v < Half
    BY <1>1, <1>3
  <2>2. Signed(v, WordBits) = v
    BY <1>1, <2>1, SignedFacts
  <2>3. Plus(iNdEx, v) = iNdEx + v
    BY <1>1, <2>1, PlusWithin
  <2>4. postIndex = iNdEx + v
    BY <2>2, <2>3 DEF postIndex
  <2>5. Signed(varint.bits, WordBits) >= 0
    BY <2>2
  <2>6. postIndex >= 0 /\ postIndex <= limit
    BY <1>1, <1>3, <2>4
  <2> QED BY <2>4, <2>5, <2>6 DEF Fits
<1> QED BY <1>2, <1>3

-----------------------------------------------------------------------------
(* The invariant of an input that was sent *)

Src(P, R, i) == IF i = 1 THEN R ELSE P

(* p[i] is what call i still has to read: from here on in the running      *)
(* call, from the end of the next call's slice in the others, with the     *)
(* message that the next call returns already in its field.                *)
Calls(P, R, p) ==
  /\ \A i \in 1 .. Len(frames) : p[i] \in Src(P, R, i) /\ p[i].type = frames[i].type
  /\ \A i \in 1 .. Len(frames) - 1 :
       /\ p[i].from = Put(frames[i].type, frames[i].msg, frames[i + 1].field, p[i + 1].to)
       /\ Follows(i, frames[i + 1].limit, p[i].bytes)

(* x is the part that starts at this field, and its tag is being read. *)
AtTag(P, S, U, x) ==
  /\ x.from = frame.msg /\ Follows(Len(frames), preIndex, x.bytes)
  /\ \E tag \in Word, rest \in Seq(Byte) :
       x.bytes = VarintBytes[tag] \o rest /\ Field(P, S, U, x, tag, rest) /\ Reading(tag, rest)

(* y is the part after this field, whose number is being read. *)
AtNumber(P, y) ==
  /\ pc = "length" <=> Case.wireType = 2
  /\ \E v \in Word, tail \in Seq(Byte) :
       Holds(P, frame.type, frame.msg, Case, v, tail, y) /\ Reading(v, tail)

(* y is the part after the field that is skipped. *)
AtSkipTag(U, y) ==
  /\ y.from = frame.msg
  /\ \E tag \in Word, rest \in Seq(Byte) :
       SkipField(U, depth, tag, rest) /\ Reading(tag, rest \o y.bytes)

AtSkipVarint(U, y) ==
  /\ y.from = frame.msg
  /\ \E v \in Word, s \in Seq(Byte) : SkipRest(U, depth, s) /\ Reading(v, s \o y.bytes)

AtSkipLength(U, y) ==
  /\ y.from = frame.msg
  /\ \E f \in Seq(Byte), s \in Seq(Byte) :
       SkipRest(U, depth, s) /\ Reading(Len(f), f \o (s \o y.bytes))

Doing(P, S, U, x) ==
  /\ pc = "loop" => x.from = frame.msg /\ Follows(Len(frames), iNdEx, x.bytes)
  /\ pc = "tag" => AtTag(P, S, U, x)
  /\ pc \in {"length", "value"} => AtNumber(P, x)
  /\ pc = "skip_tag" => AtSkipTag(U, x)
  /\ pc = "skip_varint" => AtSkipVarint(U, x)
  /\ pc = "skip_length" => AtSkipLength(U, x)

Outcome(R) ==
  /\ request.how = "valid" => status # "error"
  /\ status = "ok" =>
       \E x \in R : frames[1].msg = x.from /\ (request.how = "valid" => x.from = request.sent)

OnTrack(P, R, U) ==
  /\ pc # "end" =>
       \E p : Calls(P, R, p) /\ Doing(P, Src(P, R, Len(frames)), U, p[Len(frames)])
  /\ pc = "end" => Outcome(R)

WireInv ==
  IsSent(request) =>
    \E W, P, R, U : StandsFor(request, W, P, R, U) /\ OnTrack(P, R, U)

(* Parts are closed, in every call. *)
LEMMA SrcClosed ==
  ASSUME NEW W, NEW P, NEW R, NEW U, StandsFor(request, W, P, R, U), NEW i
  PROVE  Closed(P, Src(P, R, i), U)
BY DEF StandsFor, Src

(* The running call goes on with another part that leads to the same       *)
(* message.                                                                *)
LEMMA SameCalls ==
  ASSUME DecoderInv, NEW P, NEW R, NEW p, Calls(P, R, p),
         NEW y \in Src(P, R, Len(frames)), y.type = frame.type, y.to = p[Len(frames)].to,
         request' = request, Len(frames') = Len(frames),
         \A i \in 1 .. Len(frames) : /\ frames'[i].type = frames[i].type
                                     /\ frames'[i].limit = frames[i].limit
                                     /\ frames'[i].field = frames[i].field
                                     /\ i # Len(frames) => frames'[i].msg = frames[i].msg
  PROVE  \E q : Calls(P, R, q)' /\ q[Len(frames')] = y
<1> DEFINE k == Len(frames)
<1>0. PICK q : q = [i \in 1 .. k |-> IF i = k THEN y ELSE p[i]]
  OBVIOUS
<1>1. k \in Nat \ {0} /\ Len(frames') = k
  BY Running, StackFacts DEF DecoderInv
<1>2. y.type = frames[k].type
  BY DEF frame
<1> HIDE DEF k
<1>3. /\ q[k] = y /\ \A i \in 1 .. k : i # k => q[i] = p[i]
      /\ \A i \in 1 .. k : q[i].to = p[i].to
  BY <1>0, <1>1 DEF k
<1>4. ASSUME NEW i \in 1 .. k PROVE q[i] \in Src(P, R, i) /\ q[i].type = frames'[i].type
  BY <1>2, <1>3 DEF Calls, k
<1>5. ASSUME NEW i \in 1 .. k - 1
      PROVE  /\ q[i].from = Put(frames'[i].type, frames'[i].msg, frames'[i + 1].field, q[i + 1].to)
             /\ Follows(i, frames[i + 1].limit, q[i].bytes)'
  <2>1. i \in 1 .. k /\ i # k /\ i + 1 \in 1 .. k
    BY <1>1
  <2>2. q[i] = p[i] /\ q[i + 1].to = p[i + 1].to
    BY <1>3, <2>1
  <2>3. /\ p[i].from = Put(frames[i].type, frames[i].msg, frames[i + 1].field, p[i + 1].to)
        /\ Follows(i, frames[i + 1].limit, p[i].bytes)
    BY DEF Calls, k
  <2>4. /\ frames'[i].type = frames[i].type /\ frames'[i].msg = frames[i].msg
        /\ frames'[i].limit = frames[i].limit
        /\ frames'[i + 1].field = frames[i + 1].field /\ frames'[i + 1].limit = frames[i + 1].limit
    BY <2>1 DEF k
  <2>5. Follows(i, frames[i + 1].limit, p[i].bytes)'
    BY <2>3, <2>4 DEF Follows, Agrees, Max
  <2> QED BY <2>2, <2>3, <2>4, <2>5
<1>6. Calls(P, R, q)'
  BY <1>1, <1>4, <1>5 DEF Calls, k
<1> QED BY <1>1, <1>3, <1>6

(* The calls do not notice what only reads. *)
LEMMA CallsUnchanged ==
  ASSUME NEW P, NEW R, NEW p, Calls(P, R, p), UNCHANGED <<request, frames>>
  PROVE  Calls(P, R, p)'
BY DEF Calls, Follows, Agrees, Max

(* One byte of a varint. *)
LEMMA ReadByteWire ==
  ASSUME DecoderInv, NEW P, NEW R, NEW U, OnTrack(P, R, U), ReadByte
  PROVE  OnTrack(P, R, U)'
<1>1. /\ pc \in Counters /\ UNCHANGED <<request, frames, pc, preIndex, fieldNum, depth, status>>
  BY DEF ReadByte
<1>2. pc # "end" /\ pc # "loop" /\ pc' = pc
  BY <1>1 DEF Counters
<1>3. PICK p : Calls(P, R, p) /\ Doing(P, Src(P, R, Len(frames)), U, p[Len(frames)])
  BY <1>2 DEF OnTrack
<1> DEFINE S == Src(P, R, Len(frames))
           x == p[Len(frames)]
<1>4. /\ Len(frames') = Len(frames) /\ frame' = frame /\ Case' = Case
      /\ x' = x /\ S' = S
  BY <1>1 DEF frame, Case
<1>5. ASSUME NEW v, NEW rest, Reading(v, rest) PROVE Reading(v, rest)'
  BY <1>5, ReadingBytes
<1>6. ASSUME AtTag(P, S, U, x) PROVE AtTag(P, S, U, x)'
  <2>1. PICK tag \in Word, rest \in Seq(Byte) :
          x.bytes = VarintBytes[tag] \o rest /\ Field(P, S, U, x, tag, rest) /\ Reading(tag, rest)
    BY <1>6 DEF AtTag
  <2>2. Reading(tag, rest)'
    BY <1>5, <2>1
  <2>3. x.from = frame.msg /\ Follows(Len(frames), preIndex, x.bytes)
    BY <1>6 DEF AtTag
  <2>4. (x.from = frame.msg)' /\ Follows(Len(frames), preIndex, x.bytes)'
    BY <1>1, <1>4, <2>3 DEF Follows, Agrees, Max
  <2>5. Field(P, S, U, x, tag, rest)'
    <3> PICK T, z : T = S /\ z = x
      OBVIOUS
    <3>1. T = S' /\ z = x'
      BY <1>4
    <3> HIDE DEF S, x
    <3>2. Field(P, T, U, z, tag, rest)
      BY <2>1
    <3>3. Field(P, T, U, z, tag, rest)'
      BY <3>2 DEF Field, Holds
    <3> QED BY <3>1, <3>3
  <2>6. (x.bytes = VarintBytes[tag] \o rest)'
    BY <1>4, <2>1
  <2> HIDE DEF S, x
  <2> QED BY <2>2, <2>4, <2>5, <2>6 DEF AtTag
<1>7. ASSUME AtNumber(P, x) PROVE AtNumber(P, x)'
  <2>1. PICK v \in Word, tail \in Seq(Byte) :
          Holds(P, frame.type, frame.msg, Case, v, tail, x) /\ Reading(v, tail)
    BY <1>7 DEF AtNumber
  <2>2. Reading(v, tail)'
    BY <1>5, <2>1
  <2>3. Holds(P, frame.type, frame.msg, Case, v, tail, x)'
    BY <1>4, <2>1 DEF Holds
  <2>4. (pc = "length" <=> Case.wireType = 2)'
    BY <1>2, <1>4, <1>7 DEF AtNumber
  <2> HIDE DEF x
  <2> QED BY <2>2, <2>3, <2>4 DEF AtNumber
<1>8. ASSUME AtSkipTag(U, x) PROVE AtSkipTag(U, x)'
  <2>1. PICK tag \in Word, rest \in Seq(Byte) :
          SkipField(U, depth, tag, rest) /\ Reading(tag, rest \o x.bytes)
    BY <1>8 DEF AtSkipTag
  <2>2. Reading(tag, rest \o x.bytes)'
    <3> PICK t : t = rest \o x.bytes
      OBVIOUS
    <3>1. Reading(tag, t)'
      BY <1>5, <2>1
    <3>2. t = (rest \o x.bytes)'
      BY <1>4
    <3> QED BY <3>1, <3>2
  <2>3. SkipField(U, depth, tag, rest)' /\ (x.from = frame.msg)'
    BY <1>1, <1>4, <1>8, <2>1 DEF AtSkipTag, SkipField, SkipRest
  <2> HIDE DEF x
  <2> QED BY <2>2, <2>3 DEF AtSkipTag
<1>9. ASSUME AtSkipVarint(U, x) PROVE AtSkipVarint(U, x)'
  <2>1. PICK v \in Word, s \in Seq(Byte) : SkipRest(U, depth, s) /\ Reading(v, s \o x.bytes)
    BY <1>9 DEF AtSkipVarint
  <2>2. Reading(v, s \o x.bytes)'
    <3> PICK t : t = s \o x.bytes
      OBVIOUS
    <3>1. Reading(v, t)'
      BY <1>5, <2>1
    <3>2. t = (s \o x.bytes)'
      BY <1>4
    <3> QED BY <3>1, <3>2
  <2>3. SkipRest(U, depth, s)' /\ (x.from = frame.msg)'
    BY <1>1, <1>4, <1>9, <2>1 DEF AtSkipVarint, SkipRest
  <2> HIDE DEF x
  <2> QED BY <2>2, <2>3 DEF AtSkipVarint
<1>10. ASSUME AtSkipLength(U, x) PROVE AtSkipLength(U, x)'
  <2>1. PICK f \in Seq(Byte), s \in Seq(Byte) :
          SkipRest(U, depth, s) /\ Reading(Len(f), f \o (s \o x.bytes))
    BY <1>10 DEF AtSkipLength
  <2>2. Reading(Len(f), f \o (s \o x.bytes))'
    <3> PICK t : t = f \o (s \o x.bytes)
      OBVIOUS
    <3>1. Reading(Len(f), t)'
      BY <1>5, <2>1
    <3>2. t = (f \o (s \o x.bytes))'
      BY <1>4
    <3> QED BY <3>1, <3>2
  <2>3. SkipRest(U, depth, s)' /\ (x.from = frame.msg)'
    BY <1>1, <1>4, <1>10, <2>1 DEF AtSkipLength, SkipRest
  <2> HIDE DEF x
  <2> QED BY <2>2, <2>3 DEF AtSkipLength
<1>11. Doing(P, S, U, x)
  BY <1>3
<1>12. Calls(P, R, p)'
  BY <1>1, <1>3, CallsUnchanged
<1>13. Doing(P, S, U, x)'
  <2> HIDE DEF S, x
  <2> QED BY <1>2, <1>6, <1>7, <1>8, <1>9, <1>10, <1>11 DEF Doing
<1> QED BY <1>2, <1>12, <1>13 DEF OnTrack

(* A part starts with a field exactly if there are bytes in it. *)
LEMMA PartCases ==
  ASSUME NEW P, NEW S, NEW U, Closed(P, S, U), NEW x \in S
  PROVE  /\ x.bytes \in Seq(Byte)
         /\ x.bytes = <<>> => x.to = x.from
         /\ x.bytes # <<>> => \E tag \in Word, rest \in Seq(Byte) :
                                x.bytes = VarintBytes[tag] \o rest /\ Field(P, S, U, x, tag, rest)
<1>1. x.bytes \in Seq(Byte)
  BY DEF Closed
<1>2. ASSUME NEW tag \in Word, NEW rest \in Seq(Byte) PROVE VarintBytes[tag] \o rest # <<>>
  <2> DEFINE b == VarintBytes[tag]
  <2>1. tag \in Nat
    BY WidthFacts DEF Word, Words
  <2>2. b \in Seq(Byte) /\ b # <<>>
    BY <2>1, VarintUnfold
  <2> HIDE DEF b
  <2>3. Len(b) \in Nat /\ Len(b) # 0 /\ Len(rest) \in Nat /\ Len(b \o rest) = Len(b) + Len(rest)
    BY <2>2, BytesConcat, EmptySeq
  <2>4. Len(b \o rest) # 0
    BY <2>3
  <2> QED BY <2>4 DEF b
<1> QED BY <1>1, <1>2 DEF Closed

(* The calls at a step that only goes on to something else. *)
LEMMA NextFieldWire ==
  ASSUME DecoderInv, NEW W, NEW P, NEW R, NEW U, StandsFor(request, W, P, R, U),
         OnTrack(P, R, U), NextField
  PROVE  OnTrack(P, R, U)'
<1>1. /\ pc = "loop" /\ iNdEx < limit /\ preIndex' = iNdEx /\ pc' = "tag" /\ varint' = NoBits
      /\ UNCHANGED <<request, iNdEx, frames, fieldNum, depth, status>>
  BY DEF NextField, Read
<1>2. PICK p : Calls(P, R, p) /\ Doing(P, Src(P, R, Len(frames)), U, p[Len(frames)])
  BY <1>1 DEF OnTrack
<1>3. PICK k, x : k = Len(frames) /\ x = p[k]
  OBVIOUS
<1>4. x.from = frame.msg /\ Follows(k, iNdEx, x.bytes) /\ x \in Src(P, R, k)
  <2>1. k \in 1 .. k
    BY <1>3, Running, StackFacts DEF DecoderInv
  <2> QED BY <1>1, <1>2, <1>3, <2>1 DEF Doing, Calls
<1>5. Closed(P, Src(P, R, k), U)
  BY SrcClosed
<1>6. x.bytes # <<>>
  <2>1. iNdEx + Len(x.bytes) >= limit /\ iNdEx \in Nat /\ limit \in Nat
    BY <1>3, <1>4, Running DEF Follows, limit, frame, DecoderInv, Scalars
  <2>2. Len(<<>>) = 0
    OBVIOUS
  <2> QED BY <1>1, <2>1, <2>2
<1>7. PICK tag \in Word, rest \in Seq(Byte) :
        x.bytes = VarintBytes[tag] \o rest /\ Field(P, Src(P, R, k), U, x, tag, rest)
  <2> DEFINE S == Src(P, R, k)
  <2> HIDE DEF S
  <2>1. Closed(P, S, U) /\ x \in S
    BY <1>4, <1>5 DEF S
  <2> QED BY <1>6, <2>1, PartCases DEF S
<1>8. Calls(P, R, p)' /\ Len(frames') = k /\ frame' = frame
  BY <1>1, <1>2, <1>3, CallsUnchanged DEF frame
<1>9. Follows(k, iNdEx, x.bytes)'
  BY <1>1, <1>4 DEF Follows, Agrees, Max
<1>10. Reading(tag, rest)'
  <2>1. Follows(Len(frames), iNdEx, VarintBytes[tag] \o rest)'
    BY <1>7, <1>8, <1>9
  <2> QED BY <1>1, <2>1, ReadingStarts
<1>11. AtTag(P, Src(P, R, k), U, x)'
  <2>1. Follows(Len(frames), preIndex, x.bytes)'
    BY <1>1, <1>8, <1>9 DEF Follows, Agrees, Max
  <2>2. (x.from = frame.msg)'
    BY <1>4, <1>8
  <2> QED BY <1>7, <1>10, <2>1, <2>2 DEF AtTag
<1>12. Doing(P, Src(P, R, Len(frames)), U, p[Len(frames)])'
  BY <1>1, <1>3, <1>8, <1>11 DEF Doing
<1> QED BY <1>1, <1>8, <1>12 DEF OnTrack

(* A field of the innermost message is set. *)
LEMMA AssignMessage ==
  ASSUME NEW fr, DOMAIN fr = FrameFields, NEW name, NEW v
  PROVE  /\ Assign(fr, name, v).type = fr.type /\ Assign(fr, name, v).limit = fr.limit
         /\ Assign(fr, name, v).field = fr.field
         /\ Assign(fr, name, v).msg = Put(fr.type, fr.msg, name, v)
         /\ DOMAIN Assign(fr, name, v) = FrameFields
<1>1. DOMAIN fr = {"type", "msg", "limit", "field"}
  BY DEF FrameFields
<1> QED BY <1>1 DEF Assign, Put, FrameFields

(* The end of a slice: the message is complete, and the caller goes on     *)
(* with it in its field; or the outermost call is done.                    *)
LEMMA ReturnWire ==
  ASSUME DecoderInv, NEW W, NEW P, NEW R, NEW U, StandsFor(request, W, P, R, U),
         OnTrack(P, R, U), Return
  PROVE  OnTrack(P, R, U)'
<1>1. pc = "loop" /\ iNdEx >= limit
  BY DEF Return
<1>2. status = "running" /\ iNdEx \in Nat /\ limit \in Nat /\ iNdEx = limit
  <2>1. status = "running" /\ iNdEx \in Nat /\ limit \in Nat /\ iNdEx <= limit
    BY <1>1, Within
  <2> QED BY <1>1, <2>1
<1>3. UNCHANGED <<request, iNdEx, varint, preIndex, fieldNum, depth>>
  BY <1>2 DEF Return
<1>4. PICK p : Calls(P, R, p) /\ Doing(P, Src(P, R, Len(frames)), U, p[Len(frames)])
  BY <1>1 DEF OnTrack
<1>5. PICK k, x : k = Len(frames) /\ x = p[k]
  OBVIOUS
<1>6. /\ k \in Nat \ {0} /\ Stack(frames, Max) /\ Max \in Nat /\ frame = frames[k]
      /\ limit = frames[k].limit /\ DOMAIN frames = 1 .. k
  BY <1>5, Running, StackFacts DEF DecoderInv, frame, limit
<1>7. x.from = frame.msg /\ Follows(k, iNdEx, x.bytes) /\ x \in Src(P, R, k)
  <2>1. k \in 1 .. k
    BY <1>6
  <2> QED BY <1>1, <1>4, <1>5, <2>1 DEF Doing, Calls
<1>8. k > 1 \/ request.how = "valid" => x.to = frame.msg
  <2> SUFFICES ASSUME k > 1 \/ request.how = "valid" PROVE x.to = frame.msg
    OBVIOUS
  <2>1. x.bytes \in Seq(Byte) /\ (x.bytes = <<>> => x.to = x.from)
    <3> DEFINE S == Src(P, R, k)
    <3> HIDE DEF S
    <3>1. Closed(P, S, U) /\ x \in S
      BY <1>7, SrcClosed DEF S
    <3> QED BY <3>1, PartCases
  <2>2. iNdEx + Len(x.bytes) = limit
    BY <1>6, <1>7 DEF Follows
  <2>3. Len(x.bytes) = 0
    BY <1>2, <2>1, <2>2, LenProperties
  <2>4. x.bytes = <<>>
    BY <2>1, <2>3, EmptySeq
  <2> QED BY <1>7, <2>1, <2>4
<1>9. CASE k = 1
  <2>1. status' = "ok" /\ pc' = "end" /\ frames' = frames
    BY <1>2, <1>5, <1>9 DEF Return
  <2>2. x \in R /\ x.to = request.sent
    BY <1>7, <1>9 DEF Src, StandsFor
  <2>3. frames'[1].msg = x.from /\ (request'.how = "valid" => x.from = request'.sent)
    BY <1>3, <1>6, <1>7, <1>8, <1>9, <2>1, <2>2
  <2> QED BY <2>1, <2>2, <2>3 DEF OnTrack, Outcome
<1>10. CASE k > 1
  <2> DEFINE out == Popped(frames)
             f   == Assign(Top(out), frame.field, frame.msg)
             h   == k - 1
  <2>1. frames' = SetTop(out, f) /\ UNCHANGED <<status, pc>> /\ h \in Nat \ {0}
    BY <1>2, <1>5, <1>6, <1>10 DEF Return, Popped, SetTop, Top
  <2>2. Stack(out, Max)
    <3>1. Len(frames) # 1
      BY <1>5, <1>10
    <3> QED BY ONLY <1>6, <3>1, PopStack
  <2>3. Len(out) = h /\ DOMAIN out = 1 .. h /\ \A i \in 1 .. h : out[i] = frames[i]
    <3>1. out = [i \in 1 .. h |-> frames[i]]
      <4>1. out = SubSeq(frames, 1, h)
        BY <1>5 DEF Popped
      <4> HIDE DEF out
      <4> QED BY <1>6, <2>1, <4>1 DEF SubSeq
    <3> HIDE DEF out
    <3>2. \A i \in 1 .. h : out[i] = frames[i]
      BY <3>1
    <3>3. DOMAIN out = 1 .. h
      BY <3>1
    <3>4. Len(out) = h
      BY <1>6, <2>1, <2>2, <3>3, StackFacts
    <3> QED BY <3>2, <3>3, <3>4
  <2> HIDE DEF out
  <2>4. Top(out) = frames[h] /\ DOMAIN Top(out) = FrameFields
    BY <1>6, <2>1, <2>2, <2>3, StackFacts DEF Top
  <2>5. /\ f.type = frames[h].type /\ f.limit = frames[h].limit /\ f.field = frames[h].field
        /\ f.msg = Put(frames[h].type, frames[h].msg, frames[k].field, x.to)
        /\ DOMAIN f = FrameFields
    BY <1>6, <1>8, <1>10, <2>4, AssignMessage
  <2> HIDE DEF f
  <2>6. Len(frames') = h /\ frames'[h] = f /\ \A i \in 1 .. h : i # h => frames'[i] = frames[i]
    <3>1. Stack(SetTop(out, f), Max) /\ Top(SetTop(out, f)) = f
      BY <1>6, <2>2, <2>4, <2>5, ReplaceTop
    <3>2. DOMAIN SetTop(out, f) = DOMAIN out
      BY DEF SetTop
    <3>3. Len(SetTop(out, f)) = h
      <4>1. DOMAIN SetTop(out, f) = 1 .. Len(SetTop(out, f)) /\ Len(SetTop(out, f)) \in Nat
        BY <1>6, <3>1, StackFacts
      <4> QED BY <2>1, <2>3, <3>2, <4>1
    <3> QED BY <2>1, <2>3, <3>1, <3>3 DEF Top, SetTop
  <2> HIDE DEF h
  <2>7. h + 1 = k /\ h \in 1 .. k - 1 /\ h \in 1 .. k
    BY <1>6, <2>1 DEF h
  <2>8. /\ p[h].from = Put(frames[h].type, frames[h].msg, frames[k].field, x.to)
        /\ Follows(h, frames[k].limit, p[h].bytes)
    BY <1>4, <1>5, <2>7 DEF Calls
  <2>9. /\ \A i \in 1 .. h : frames'[i].type = frames[i].type /\ frames'[i].limit = frames[i].limit
                             /\ frames'[i].field = frames[i].field
        /\ \A i \in 1 .. h : i # h => frames'[i].msg = frames[i].msg
    BY <2>5, <2>6
  <2>10. Calls(P, R, p)'
    <3>1. ASSUME NEW i \in 1 .. h PROVE p[i] \in Src(P, R, i) /\ p[i].type = frames'[i].type
      <4>1. i \in 1 .. k
        BY <2>1, <2>7
      <4> QED BY <1>4, <1>5, <2>9, <4>1 DEF Calls
    <3>2. ASSUME NEW i \in 1 .. h - 1
          PROVE  /\ p[i].from = Put(frames'[i].type, frames'[i].msg, frames'[i + 1].field, p[i + 1].to)
                 /\ Follows(i, frames[i + 1].limit, p[i].bytes)'
      <4>1. i \in 1 .. k - 1 /\ i \in 1 .. h /\ i # h /\ i + 1 \in 1 .. h
        BY <2>1, <2>7
      <4>2. /\ p[i].from = Put(frames[i].type, frames[i].msg, frames[i + 1].field, p[i + 1].to)
            /\ Follows(i, frames[i + 1].limit, p[i].bytes)
        BY <1>4, <1>5, <4>1 DEF Calls
      <4>3. /\ frames'[i].type = frames[i].type /\ frames'[i].limit = frames[i].limit
            /\ frames'[i].msg = frames[i].msg
            /\ frames'[i + 1].field = frames[i + 1].field
            /\ frames'[i + 1].limit = frames[i + 1].limit
        BY <2>9, <4>1
      <4>4. Follows(i, frames[i + 1].limit, p[i].bytes)'
        BY <1>3, <4>2, <4>3 DEF Follows, Agrees, Max
      <4> QED BY <4>2, <4>3, <4>4
    <3> QED BY <2>6, <3>1, <3>2 DEF Calls
  <2>11. Doing(P, Src(P, R, Len(frames)), U, p[Len(frames)])'
    <3>1. p[h].from = frame'.msg
      BY <2>5, <2>6, <2>8 DEF frame
    <3>2. Follows(Len(frames), iNdEx, p[h].bytes)'
      BY <1>2, <1>3, <1>6, <2>6, <2>8, <2>9, <2>7 DEF Follows, Agrees, Max
    <3> QED BY <1>1, <2>1, <2>6, <3>1, <3>2 DEF Doing
  <2> QED BY <1>1, <2>1, <2>10, <2>11 DEF OnTrack
<1> QED BY <1>6, <1>9, <1>10

(* The number in a tag. *)
LEMMA TagNumber ==
  ASSUME NEW tag \in Nat, varint.bits = tag, tag \div 8 \in FieldNumbers
  PROVE  Number = tag \div 8 /\ Number > 0
<1> DEFINE H == 2 ^ (FieldBits - 1)
           F == 2 ^ FieldBits
           n == tag \div 8
<1>1. H \in Nat \ {0} /\ F \in Nat \ {0} /\ F = H + H
  <2>1. FieldBits - 1 \in Nat /\ (FieldBits - 1) + 1 = FieldBits
    BY WidthAssumption
  <2>2. 2 ^ ((FieldBits - 1) + 1) = 2 ^ (FieldBits - 1) + 2 ^ (FieldBits - 1)
    BY <2>1, PowerDouble
  <2> QED BY <2>1, <2>2, WidthFacts
<1>2. n \in 1 .. H - 1
  BY DEF FieldNumbers
<1>3. Number = IF (n % F) >= H THEN (n % F) - F ELSE n % F
  BY DEF Number, Signed
<1> HIDE DEF H, F, n
<1>4. n \in Int /\ 0 <= n /\ n < F
  BY <1>1, <1>2
<1>5. n % F = n
  BY ONLY <1>1, <1>4, Remainder
<1>6. Number = n /\ n > 0
  BY <1>1, <1>2, <1>3, <1>5
<1> QED BY <1>6 DEF n

(* The tag has been read: what the calls and the field in front are. *)
LEMMA TagRead ==
  ASSUME DecoderInv, NEW P, NEW R, NEW U, OnTrack(P, R, U), Have("tag")
  PROVE  \E p, k, x, tag, rest :
           /\ tag \in Word /\ rest \in Seq(Byte)
           /\ k = Len(frames) /\ k \in Nat \ {0} /\ Calls(P, R, p) /\ x = p[k]
           /\ x.from = frame.msg /\ x.type = frame.type
           /\ Follows(k, preIndex, x.bytes) /\ x.bytes = VarintBytes[tag] \o rest
           /\ Field(P, Src(P, R, k), U, x, tag, rest)
           /\ varint.bits = tag /\ Follows(k, iNdEx, rest)
           /\ WireType = tag % 8 /\ Number = tag \div 8 /\ Number > 0
<1>1. pc = "tag" /\ varint.done
  BY DEF Have
<1>2. PICK p : Calls(P, R, p) /\ Doing(P, Src(P, R, Len(frames)), U, p[Len(frames)])
  BY <1>1 DEF OnTrack
<1>3. PICK k, x : k = Len(frames) /\ x = p[k]
  OBVIOUS
<1>4. k \in Nat \ {0} /\ x.type = frame.type
  <2>1. k \in Nat \ {0}
    BY <1>3, Running, StackFacts DEF DecoderInv
  <2>2. k \in 1 .. k
    BY <2>1
  <2> QED BY <1>2, <1>3, <2>1, <2>2 DEF Calls, frame
<1>5. AtTag(P, Src(P, R, k), U, x)
  BY <1>1, <1>2, <1>3 DEF Doing
<1>6. x.from = frame.msg /\ Follows(k, preIndex, x.bytes)
  BY <1>3, <1>5 DEF AtTag
<1>7. PICK tag \in Word, rest \in Seq(Byte) :
        x.bytes = VarintBytes[tag] \o rest /\ Field(P, Src(P, R, k), U, x, tag, rest) /\ Reading(tag, rest)
  BY <1>5 DEF AtTag
<1>8. varint.bits = tag /\ Follows(k, iNdEx, rest)
  BY <1>1, <1>3, <1>7 DEF Reading
<1>9. tag \in Nat
  BY WidthFacts DEF Word, Words
<1>10. tag \div 8 \in FieldNumbers
  BY <1>7 DEF Field
<1>11. Number = tag \div 8 /\ Number > 0
  BY <1>8, <1>9, <1>10, TagNumber
<1>12. WireType = tag % 8
  BY <1>8 DEF WireType
<1> QED BY <1>2, <1>3, <1>4, <1>6, <1>7, <1>8, <1>11, <1>12

(* The switch over the field number. *)
LEMMA TagWire ==
  ASSUME DecoderInv, NEW W, NEW P, NEW R, NEW U, StandsFor(request, W, P, R, U),
         OnTrack(P, R, U), KnownField \/ UnknownField
  PROVE  OnTrack(P, R, U)'
<1>1. Have("tag")
  BY DEF KnownField, UnknownField
<1>2. PICK p, k, x, tag, rest :
           /\ tag \in Word /\ rest \in Seq(Byte)
           /\ k = Len(frames) /\ k \in Nat \ {0} /\ Calls(P, R, p) /\ x = p[k]
           /\ x.from = frame.msg /\ x.type = frame.type
           /\ Follows(k, preIndex, x.bytes) /\ x.bytes = VarintBytes[tag] \o rest
           /\ Field(P, Src(P, R, k), U, x, tag, rest)
           /\ varint.bits = tag /\ Follows(k, iNdEx, rest)
           /\ WireType = tag % 8 /\ Number = tag \div 8 /\ Number > 0
  BY <1>1, TagRead
<1>3. PICK S, n : S = Src(P, R, k) /\ n = tag \div 8
  OBVIOUS
<1>4. PICK y \in S :
        /\ y.type = x.type /\ y.to = x.to
        /\ IF n \in DOMAIN Unmarshal[x.type]
           THEN /\ tag % 8 = Unmarshal[x.type][n].wireType
                /\ \E v \in Word, tail \in Seq(Byte) :
                     /\ rest = VarintBytes[v] \o tail
                     /\ Holds(P, x.type, x.from, Unmarshal[x.type][n], v, tail, y)
           ELSE /\ y.from = x.from
                /\ \E u \in U : u.depth = 0 /\ x.bytes = u.bytes \o y.bytes
  BY <1>2, <1>3 DEF Field
<1>5. UNCHANGED <<request, frames>> /\ frame' = frame
  BY DEF KnownField, UnknownField, frame
<1>6. PICK q : Calls(P, R, q)' /\ q[Len(frames')] = y
  <2>1. y \in Src(P, R, Len(frames)) /\ y.type = frame.type /\ y.to = p[Len(frames)].to /\ Calls(P, R, p)
    BY <1>2, <1>3, <1>4
  <2>2. request' = request /\ Len(frames') = Len(frames)
    BY <1>5
  <2>3. \A i \in 1 .. Len(frames) : /\ frames'[i].type = frames[i].type
                                    /\ frames'[i].limit = frames[i].limit
                                    /\ frames'[i].field = frames[i].field
                                    /\ i # Len(frames) => frames'[i].msg = frames[i].msg
    BY <1>5
  <2> QED BY <2>1, <2>2, <2>3, SameCalls
<1>7. CASE KnownField
  <2>1. /\ n \in DOMAIN Unmarshal[x.type] /\ Unmarshal[frame.type][n].wireType = WireType
        /\ fieldNum' = n /\ pc' = (IF WireType = 2 THEN "length" ELSE "value") /\ varint' = NoBits
        /\ UNCHANGED <<iNdEx, preIndex, depth, status>>
    BY <1>2, <1>3, <1>7 DEF KnownField, Known, Read
  <2>2. PICK v \in Word, tail \in Seq(Byte) :
          /\ rest = VarintBytes[v] \o tail
          /\ Holds(P, x.type, x.from, Unmarshal[x.type][n], v, tail, y)
    BY <1>4, <2>1
  <2>3. Case' = Unmarshal[x.type][n]
    BY <1>2, <1>5, <2>1 DEF Case
  <2>4. Reading(v, tail)'
    <3>1. Follows(Len(frames), iNdEx, VarintBytes[v] \o tail)'
      BY <1>2, <1>5, <2>1, <2>2 DEF Follows, Agrees, Max
    <3> QED BY <2>1, <3>1, ReadingStarts
  <2>5. Holds(P, frame.type, frame.msg, Case, v, tail, y)'
    <3>1. frame'.type = x.type /\ frame'.msg = x.from
      BY <1>2, <1>5
    <3>2. Holds(P, frame'.type, frame'.msg, Case', v, tail, y)
      BY ONLY <2>2, <2>3, <3>1
    <3> QED BY <3>2 DEF Holds
  <2>6. (pc = "length" <=> Case.wireType = 2)'
    BY <1>2, <2>1, <2>3
  <2>7. AtNumber(P, y)'
    BY <2>4, <2>5, <2>6 DEF AtNumber
  <2>8. pc' \in {"length", "value"}
    BY <2>1
  <2>9. Doing(P, Src(P, R, Len(frames)), U, q[Len(frames)])'
    BY <1>6, <2>7, <2>8 DEF Doing
  <2> QED BY <1>6, <2>8, <2>9 DEF OnTrack
<1>8. CASE UnknownField
  <2>1. /\ n \notin DOMAIN Unmarshal[x.type] /\ iNdEx' = preIndex /\ depth' = 0
        /\ pc' = "skip_tag" /\ varint' = NoBits /\ UNCHANGED <<preIndex, fieldNum, status>>
    BY <1>2, <1>3, <1>8 DEF UnknownField, Known, Read
  <2>2. PICK u \in U : u.depth = 0 /\ x.bytes = u.bytes \o y.bytes
    BY <1>4, <2>1
  <2>3. PICK t \in Word, s \in Seq(Byte) :
          u.bytes = VarintBytes[t] \o s /\ SkipField(U, u.depth, t, s)
    BY DEF StandsFor, Groups
  <2>4. y.bytes \in Seq(Byte)
    <3>1. Closed(P, S, U)
      BY <1>3, SrcClosed
    <3> QED BY <3>1 DEF Closed
  <2>5. x.bytes = VarintBytes[t] \o (s \o y.bytes) /\ s \o y.bytes \in Seq(Byte)
    <3> DEFINE b == VarintBytes[t]
               z == y.bytes
    <3>1. b \in Seq(Byte) /\ z \in Seq(Byte)
      <4>1. t \in Nat
        BY WidthFacts DEF Word, Words
      <4> QED BY <2>4, <4>1, VarintUnfold
    <3>2. x.bytes = (b \o s) \o z
      BY <2>2, <2>3
    <3> HIDE DEF b, z
    <3>3. (b \o s) \o z = b \o (s \o z) /\ s \o z \in Seq(Byte)
      BY <3>1, BytesConcat
    <3> QED BY <3>2, <3>3 DEF b, z
  <2>6. Reading(t, s \o y.bytes)'
    <3> DEFINE z == s \o y.bytes
    <3>1. z \in Seq(Byte) /\ x.bytes = VarintBytes[t] \o z
      BY <2>5
    <3> HIDE DEF z
    <3>2. Follows(Len(frames), iNdEx, VarintBytes[t] \o z)'
      BY <1>2, <1>5, <2>1, <3>1 DEF Follows, Agrees, Max
    <3>3. Reading(t, z)'
      BY <2>1, <3>1, <3>2, ReadingStarts
    <3> QED BY <3>3 DEF z
  <2>7. AtSkipTag(U, y)'
    <3>1. SkipField(U, depth, t, s)' /\ (y.from = frame.msg)'
      BY <1>2, <1>4, <1>5, <2>1, <2>2, <2>3 DEF SkipField, SkipRest
    <3> QED BY <2>6, <3>1 DEF AtSkipTag
  <2>8. Doing(P, Src(P, R, Len(frames)), U, q[Len(frames)])'
    BY <1>6, <2>1, <2>7 DEF Doing
  <2> QED BY <1>6, <2>1, <2>8 DEF OnTrack
<1> QED BY <1>7, <1>8

(* A number has been read: what the calls are, and what it says. *)
LEMMA NumberRead ==
  ASSUME DecoderInv, NEW P, NEW R, NEW U, OnTrack(P, R, U), Have("length") \/ Have("value")
  PROVE  \E p, k, y, v, tail :
           /\ v \in Word /\ tail \in Seq(Byte)
           /\ k = Len(frames) /\ k \in Nat \ {0} /\ Calls(P, R, p) /\ y = p[k]
           /\ y.type = frame.type /\ y \in Src(P, R, k)
           /\ pc = "length" <=> Case.wireType = 2
           /\ varint.bits = v /\ Follows(k, iNdEx, tail)
           /\ Holds(P, frame.type, frame.msg, Case, v, tail, y)
<1>1. pc \in {"length", "value"} /\ varint.done
  BY DEF Have
<1>2. PICK p : Calls(P, R, p) /\ Doing(P, Src(P, R, Len(frames)), U, p[Len(frames)])
  BY <1>1 DEF OnTrack
<1>3. PICK k, y : k = Len(frames) /\ y = p[k]
  OBVIOUS
<1>4. k \in Nat \ {0} /\ y.type = frame.type /\ y \in Src(P, R, k)
  <2>1. k \in Nat \ {0}
    BY <1>3, Running, StackFacts DEF DecoderInv
  <2>2. k \in 1 .. k
    BY <2>1
  <2> QED BY <1>2, <1>3, <2>1, <2>2 DEF Calls, frame
<1>5. AtNumber(P, y)
  BY <1>1, <1>2, <1>3 DEF Doing
<1>6. PICK v \in Word, tail \in Seq(Byte) :
        Holds(P, frame.type, frame.msg, Case, v, tail, y) /\ Reading(v, tail)
  BY <1>5 DEF AtNumber
<1>7. varint.bits = v /\ Follows(k, iNdEx, tail)
  BY <1>1, <1>3, <1>6 DEF Reading
<1>8. pc = "length" <=> Case.wireType = 2
  BY <1>5 DEF AtNumber
<1> QED BY <1>2, <1>3, <1>4, <1>6, <1>7, <1>8

(* The value is in the message, the fields after it follow. *)
LEMMA AssignWire ==
  ASSUME DecoderInv, NEW P, NEW R, NEW U, NEW p, Calls(P, R, p), NEW y, y = p[Len(frames)],
         NEW name, NEW x, y.from = Put(frame.type, frame.msg, name, x),
         frames' = [frames EXCEPT ![Len(frames)] = Assign(@, name, x)],
         Read("loop"), request' = request, NEW pos, iNdEx' = pos, Follows(Len(frames), pos, y.bytes)
  PROVE  OnTrack(P, R, U)'
<1>1. PICK k : k = Len(frames)
  OBVIOUS
<1>2. k \in Nat \ {0} /\ DOMAIN frames = 1 .. k /\ frame = frames[k] /\ DOMAIN frame = FrameFields
  BY <1>1, Running, StackFacts DEF DecoderInv, frame
<1> DEFINE f == Assign(frame, name, x)
<1>3. /\ f.type = frame.type /\ f.limit = frame.limit /\ f.field = frame.field
      /\ f.msg = Put(frame.type, frame.msg, name, x)
  BY <1>2, AssignMessage
<1>4. frames' = SetTop(frames, f)
  BY <1>1, <1>2 DEF SetTop
<1> HIDE DEF f
<1>5. frames'[k] = f /\ (\A i \in 1 .. k : i # k => frames'[i] = frames[i]) /\ DOMAIN frames' = 1 .. k
  BY <1>1, <1>2, <1>4 DEF SetTop
<1>6. Len(frames') = k
  <2>1. frames \in Seq(Entries(frames) \cup {f})
    <3>1. frames \in [1 .. k -> Entries(frames) \cup {f}]
      <4>1. \A i \in 1 .. k : frames[i] \in Entries(frames)
        BY <1>2 DEF Entries
      <4>2. frames = [i \in 1 .. k |-> frames[i]]
        <5>1. frames \in Seq(Entries(frames))
          BY DEF DecoderInv, Stack
        <5> QED BY <1>2, <5>1, LenProperties
      <4> QED BY <4>1, <4>2
    <3> QED BY <1>2, <3>1
  <2>2. f \in Entries(frames) \cup {f}
    OBVIOUS
  <2> QED BY <1>1, <1>2, <1>4, <2>1, <2>2, ExceptSeq DEF SetTop
<1>7. \A i \in 1 .. k : /\ frames'[i].type = frames[i].type
                        /\ frames'[i].limit = frames[i].limit
                        /\ frames'[i].field = frames[i].field
                        /\ i # k => frames'[i].msg = frames[i].msg
  BY <1>2, <1>3, <1>5
<1>8. PICK q : Calls(P, R, q)' /\ q[Len(frames')] = y
  <2>1. y \in Src(P, R, k) /\ y.type = frame.type
    <3>1. k \in 1 .. k
      BY <1>2
    <3> QED BY <1>1, <1>2, <3>1 DEF Calls
  <2>2. y.to = p[Len(frames)].to
    OBVIOUS
  <2> QED BY <1>1, <1>6, <1>7, <2>1, <2>2, SameCalls
<1>9. y.from = frame'.msg
  BY <1>3, <1>5, <1>6 DEF frame
<1>10. Follows(Len(frames), iNdEx, y.bytes)'
  <2>1. k \in 1 .. k
    BY <1>2
  <2> QED BY <1>1, <1>6, <1>7, <2>1 DEF Follows, Agrees, Max
<1>11. Doing(P, Src(P, R, Len(frames)), U, q[Len(frames)])'
  BY <1>8, <1>9, <1>10 DEF Doing, Read
<1>12. pc' # "end"
  BY DEF Read
<1> QED BY <1>8, <1>11, <1>12 DEF OnTrack

(* A uint32 or a bool. *)
LEMMA SetValueWire ==
  ASSUME DecoderInv, NEW P, NEW R, NEW U, OnTrack(P, R, U), SetValue
  PROVE  OnTrack(P, R, U)'
<1>1. /\ Have("value") /\ frames' = [frames EXCEPT ![Len(frames)] = Assign(@, Case.name, Value)]
      /\ Read("loop") /\ UNCHANGED <<request, iNdEx>>
  BY DEF SetValue
<1>2. PICK p, k, y, v, tail :
           /\ v \in Word /\ tail \in Seq(Byte)
           /\ k = Len(frames) /\ k \in Nat \ {0} /\ Calls(P, R, p) /\ y = p[k]
           /\ y.type = frame.type /\ y \in Src(P, R, k)
           /\ pc = "length" <=> Case.wireType = 2
           /\ varint.bits = v /\ Follows(k, iNdEx, tail)
           /\ Holds(P, frame.type, frame.msg, Case, v, tail, y)
  BY <1>1, NumberRead
<1>3. tail = y.bytes /\ y.from = Put(frame.type, frame.msg, Case.name, Value)
  <2>1. Case.wireType # 2
    BY <1>1, <1>2 DEF Have
  <2> QED BY <1>2, <2>1 DEF Holds, Value
<1>4. iNdEx' = iNdEx /\ Follows(Len(frames), iNdEx, y.bytes) /\ y = p[Len(frames)]
  BY <1>1, <1>2, <1>3
<1>5. PICK pos, name, x : pos = iNdEx /\ name = Case.name /\ x = Value
  OBVIOUS
<1>6. /\ y.from = Put(frame.type, frame.msg, name, x)
      /\ frames' = [frames EXCEPT ![Len(frames)] = Assign(@, name, x)]
      /\ request' = request /\ iNdEx' = pos /\ Follows(Len(frames), pos, y.bytes)
  BY <1>1, <1>3, <1>4, <1>5
<1>7. DecoderInv /\ Calls(P, R, p) /\ y = p[Len(frames)] /\ Read("loop")
  BY <1>1, <1>2
<1> QED BY ONLY <1>6, <1>7, AssignWire

(* A slice that lies in the input holds what follows. *)
LEMMA SliceRead ==
  ASSUME DecoderInv, NEW s \in Seq(Byte), iNdEx + Len(s) <= limit,
         \A j \in 1 .. Len(s) : iNdEx + j <= Max => request.bytes[iNdEx + j] = s[j]
  PROVE  SubSeq(request.bytes, iNdEx + 1, iNdEx + Len(s)) = s
<1>1. /\ iNdEx \in Nat /\ limit \in 0 .. Max /\ Max \in Nat /\ Len(s) \in Nat
      /\ request.bytes \in Seq(Byte) /\ Max = Len(request.bytes)
  BY Running, InputFacts, LenProperties DEF DecoderInv, Scalars, Max, Byte
<1> DEFINE m == iNdEx + 1
           n == iNdEx + Len(s)
           r == SubSeq(request.bytes, m, n)
<1>2. \A i \in m .. n : request.bytes[i] \in Byte
  <2>1. \A i \in m .. n : i \in 1 .. Len(request.bytes)
    BY <1>1
  <2> QED BY <1>1, <2>1, ElementOfSeq
<1>3. /\ r \in Seq(Byte) /\ Len(r) = Len(s)
      /\ \A i \in 1 .. n - m + 1 : r[i] = request.bytes[m + i - 1]
  <2>1. /\ r \in Seq(Byte) /\ Len(r) = IF m <= n THEN n - m + 1 ELSE 0
        /\ \A i \in 1 .. n - m + 1 : r[i] = request.bytes[m + i - 1]
    BY <1>1, <1>2, SubSeqProperties
  <2> HIDE DEF r
  <2> QED BY <1>1, <2>1
<1> HIDE DEF r
<1>4. \A i \in 1 .. Len(s) : r[i] = s[i]
  <2>1. \A i \in 1 .. Len(s) : i \in 1 .. n - m + 1 /\ m + i - 1 = iNdEx + i /\ iNdEx + i <= Max
    BY <1>1
  <2> QED BY <1>3, <2>1
<1> QED BY <1>3, <1>4, SeqEqual DEF r

(* A string or an amount. *)
LEMMA SetBytesWire ==
  ASSUME DecoderInv, NEW W, NEW P, NEW R, NEW U, StandsFor(request, W, P, R, U),
         OnTrack(P, R, U), SetBytes
  PROVE  OnTrack(P, R, U)'
<1>1. /\ Have("length") /\ Case.kind \in {"string", "int"} /\ Fits(postIndex)
      /\ frames' = [frames EXCEPT ![Len(frames)] = Assign(@, Case.name, Bytes)]
      /\ Read("loop") /\ iNdEx' = postIndex /\ request' = request
  BY DEF SetBytes
<1>2. PICK p, k, y, v, tail :
           /\ v \in Word /\ tail \in Seq(Byte)
           /\ k = Len(frames) /\ k \in Nat \ {0} /\ Calls(P, R, p) /\ y = p[k]
           /\ y.type = frame.type /\ y \in Src(P, R, k)
           /\ pc = "length" <=> Case.wireType = 2
           /\ varint.bits = v /\ Follows(k, iNdEx, tail)
           /\ Holds(P, frame.type, frame.msg, Case, v, tail, y)
  BY <1>1, NumberRead
<1>3. PICK s \in Seq(Byte) :
        /\ v = Len(s) /\ tail = s \o y.bytes
        /\ y.from = Put(frame.type, frame.msg, Case.name,
                        IF Case.kind = "int" /\ s = <<>> THEN frame.msg[Case.name] ELSE s)
  <2>1. Case.wireType = 2
    BY <1>1, <1>2 DEF Have
  <2> QED BY <1>1, <1>2, <2>1 DEF Holds
<1>4. y.bytes \in Seq(Byte)
  <2>1. Closed(P, Src(P, R, k), U)
    BY SrcClosed
  <2> QED BY <1>2, <2>1 DEF Closed
<1>5. /\ Follows(k, iNdEx + Len(s), y.bytes)
      /\ \A j \in 1 .. Len(s) : iNdEx + j <= Max => request.bytes[iNdEx + j] = s[j]
  <2> DEFINE z == y.bytes
  <2>1. z \in Seq(Byte) /\ Follows(k, iNdEx, s \o z) /\ k \in Nat /\ iNdEx \in Nat
    BY <1>2, <1>3, <1>4 DEF DecoderInv, Scalars
  <2> HIDE DEF z
  <2>2. /\ Follows(k, iNdEx + Len(s), z)
        /\ \A j \in 1 .. Len(s) : iNdEx + j <= Max => request.bytes[iNdEx + j] = s[j]
    BY <2>1, FollowsTail
  <2> QED BY <2>2 DEF z
<1>6. postIndex = iNdEx + Len(s) /\ postIndex <= limit
  <2>1. iNdEx <= limit /\ varint.done
    BY <1>1, Within DEF Have
  <2>2. v \in Nat
    BY <1>3, LenProperties
  <2>3. postIndex = iNdEx + v
    BY <1>1, <1>2, <2>1, <2>2, PostIndex
  <2> QED BY <1>1, <1>3, <2>3 DEF Fits
<1>7. Bytes = IF Case.kind = "int" /\ s = <<>> THEN frame.msg[Case.name] ELSE s
  <2>1. Slice = s
    <3>1. iNdEx + Len(s) <= limit
      BY <1>6
    <3>2. SubSeq(request.bytes, iNdEx + 1, iNdEx + Len(s)) = s
      BY <1>5, <3>1, SliceRead
    <3> QED BY <1>6, <3>2 DEF Slice
  <2> QED BY <2>1 DEF Bytes
<1>8. PICK pos, name, x : pos = postIndex /\ name = Case.name /\ x = Bytes
  OBVIOUS
<1>9. /\ y.from = Put(frame.type, frame.msg, name, x)
      /\ frames' = [frames EXCEPT ![Len(frames)] = Assign(@, name, x)]
      /\ request' = request /\ iNdEx' = pos /\ Follows(Len(frames), pos, y.bytes)
  BY <1>1, <1>2, <1>3, <1>5, <1>6, <1>7, <1>8
<1>10. DecoderInv /\ Calls(P, R, p) /\ y = p[Len(frames)] /\ Read("loop")
  BY <1>1, <1>2
<1> QED BY ONLY <1>9, <1>10, AssignWire

(* A call for an embedded message. *)
LEMMA CallWire ==
  ASSUME DecoderInv, NEW W, NEW P, NEW R, NEW U, StandsFor(request, W, P, R, U),
         OnTrack(P, R, U), CallUnmarshal
  PROVE  OnTrack(P, R, U)'
<1>1. /\ Have("length") /\ Case.kind \in {"message", "repeated"} /\ Fits(postIndex)
      /\ frames' = Append(frames, [type |-> Case.of, msg |-> StartOf,
                                   limit |-> postIndex, field |-> Case.name])
      /\ Read("loop") /\ UNCHANGED <<request, iNdEx>>
  BY DEF CallUnmarshal
<1>2. PICK p, k, y, v, tail :
           /\ v \in Word /\ tail \in Seq(Byte)
           /\ k = Len(frames) /\ k \in Nat \ {0} /\ Calls(P, R, p) /\ y = p[k]
           /\ y.type = frame.type /\ y \in Src(P, R, k)
           /\ pc = "length" <=> Case.wireType = 2
           /\ varint.bits = v /\ Follows(k, iNdEx, tail)
           /\ Holds(P, frame.type, frame.msg, Case, v, tail, y)
  BY <1>1, NumberRead
<1>3. PICK z \in P :
        /\ z.type = Case.of
        /\ z.from = IF Case.kind = "repeated" THEN Zero[Case.of] ELSE frame.msg[Case.name]
        /\ v = Len(z.bytes) /\ tail = z.bytes \o y.bytes
        /\ y.from = Put(frame.type, frame.msg, Case.name, z.to)
  <2>1. Case.wireType = 2
    BY <1>1, <1>2 DEF Have
  <2> QED BY <1>1, <1>2, <2>1 DEF Holds
<1>4. y.bytes \in Seq(Byte) /\ z.bytes \in Seq(Byte)
  <2>1. Closed(P, Src(P, R, k), U) /\ Closed(P, P, U)
    BY SrcClosed DEF StandsFor
  <2> QED BY <1>2, <2>1 DEF Closed
<1>5. /\ Follows(k, iNdEx + Len(z.bytes), y.bytes) /\ Len(z.bytes) \in Nat
      /\ Agrees(iNdEx, z.bytes)
  <2> DEFINE s == z.bytes
             t == y.bytes
  <2>1. /\ s \in Seq(Byte) /\ t \in Seq(Byte) /\ Follows(k, iNdEx, s \o t)
        /\ k \in Nat /\ iNdEx \in Nat
    BY <1>2, <1>3, <1>4 DEF DecoderInv, Scalars
  <2> HIDE DEF s, t
  <2>2. /\ Follows(k, iNdEx + Len(s), t)
        /\ \A j \in 1 .. Len(s) : iNdEx + j <= Max => request.bytes[iNdEx + j] = s[j]
    BY <2>1, FollowsTail
  <2> QED BY <2>1, <2>2, LenProperties DEF s, t, Agrees
<1>6. postIndex = iNdEx + Len(z.bytes)
  <2>1. iNdEx <= limit /\ varint.done
    BY <1>1, Within DEF Have
  <2>2. v \in Nat
    BY <1>3, <1>5
  <2>3. postIndex = iNdEx + v
    BY <1>1, <1>2, <2>1, <2>2, PostIndex
  <2> QED BY <1>3, <2>3
<1>7. PICK f : f = [type |-> Case.of, msg |-> StartOf, limit |-> postIndex, field |-> Case.name]
  OBVIOUS
<1>8. /\ f.type = z.type /\ f.msg = z.from /\ f.limit = iNdEx + Len(z.bytes) /\ f.field = Case.name
  BY <1>3, <1>6, <1>7 DEF StartOf
<1>9. /\ Len(frames') = k + 1 /\ frames'[k + 1] = f /\ frames[k] = frame
      /\ \A i \in 1 .. k : frames'[i] = frames[i]
  <2>1. frames \in Seq(Entries(frames) \cup {f})
    <3>1. \A T, V : T \subseteq V => Seq(T) \subseteq Seq(V)
      OBVIOUS
    <3> QED BY <3>1 DEF DecoderInv, Stack
  <2>2. frames' = Append(frames, f)
    BY <1>1, <1>7
  <2> QED BY <1>2, <2>1, <2>2, AppendProperties DEF frame
<1>10. PICK q : q = [i \in 1 .. k + 1 |-> IF i = k + 1 THEN z ELSE p[i]]
  OBVIOUS
<1>11. q[k + 1] = z /\ (\A i \in 1 .. k : q[i] = p[i]) /\ k \in 1 .. k
  BY <1>2, <1>10
<1>12. Calls(P, R, q)'
  <2>1. ASSUME NEW i \in 1 .. k + 1 PROVE q[i] \in Src(P, R, i) /\ q[i].type = frames'[i].type
    <3>1. CASE i = k + 1
      <4>1. i # 1
        BY <1>2, <3>1
      <4> QED BY <1>8, <1>9, <1>11, <3>1, <4>1 DEF Src
    <3>2. CASE i # k + 1
      <4>1. i \in 1 .. k
        BY <1>2, <3>2
      <4> QED BY <1>2, <1>9, <1>11, <4>1 DEF Calls
    <3> QED BY <3>1, <3>2
  <2>2. ASSUME NEW i \in 1 .. k
        PROVE  /\ q[i].from = Put(frames'[i].type, frames'[i].msg, frames'[i + 1].field, q[i + 1].to)
               /\ Follows(i, frames[i + 1].limit, q[i].bytes)'
    <3>1. CASE i = k
      <4>1. /\ q[i] = y /\ q[i + 1] = z /\ frames'[i] = frame /\ frames'[i + 1] = f
        BY <1>2, <1>9, <1>11, <3>1
      <4>2. Follows(i, frames[i + 1].limit, y.bytes)'
        BY <1>1, <1>5, <1>8, <1>9, <3>1, <4>1 DEF Follows, Agrees, Max
      <4> QED BY <1>3, <1>8, <4>1, <4>2
    <3>2. CASE i # k
      <4>1. i \in 1 .. k - 1 /\ i + 1 \in 1 .. k
        BY <1>2, <3>2
      <4>2. /\ p[i].from = Put(frames[i].type, frames[i].msg, frames[i + 1].field, p[i + 1].to)
            /\ Follows(i, frames[i + 1].limit, p[i].bytes)
        BY <1>2, <4>1 DEF Calls
      <4>3. frames'[i] = frames[i] /\ frames'[i + 1] = frames[i + 1] /\ q[i] = p[i] /\ q[i + 1] = p[i + 1]
        BY <1>9, <1>11, <4>1
      <4>4. Follows(i, frames[i + 1].limit, p[i].bytes)'
        BY <1>1, <4>2, <4>3 DEF Follows, Agrees, Max
      <4> QED BY <4>2, <4>3, <4>4
    <3> QED BY <3>1, <3>2
  <2>3. 1 .. Len(frames') = 1 .. k + 1 /\ 1 .. Len(frames') - 1 = 1 .. k
    BY <1>2, <1>9
  <2>4. \A i \in 1 .. k + 1 : q[i] \in Src(P, R, i) /\ q[i].type = frames'[i].type
    BY ONLY <2>1
  <2>5. \A i \in 1 .. k :
          /\ q[i].from = Put(frames'[i].type, frames'[i].msg, frames'[i + 1].field, q[i + 1].to)
          /\ Follows(i, frames[i + 1].limit, q[i].bytes)'
    BY ONLY <2>2
  <2> QED BY ONLY <2>3, <2>4, <2>5 DEF Calls
<1>13. Doing(P, Src(P, R, Len(frames)), U, q[Len(frames)])'
  <2>1. frame' = f /\ z.from = frame'.msg
    BY <1>8, <1>9 DEF frame
  <2>2. Agrees(iNdEx, z.bytes)'
    BY <1>1, <1>5 DEF Agrees, Max
  <2>3. frames'[k + 1].limit = iNdEx' + Len(z.bytes) /\ iNdEx' + Len(z.bytes) \in Nat
    BY <1>1, <1>5, <1>8, <1>9 DEF DecoderInv, Scalars
  <2>4. Follows(Len(frames), iNdEx, z.bytes)'
    BY <1>4, <1>9, <2>2, <2>3 DEF Follows
  <2> QED BY <1>1, <1>9, <1>11, <2>1, <2>4 DEF Doing, Read
<1>14. pc' # "end"
  BY <1>1 DEF Read
<1> QED BY <1>12, <1>13, <1>14 DEF OnTrack

(* An error is no harm when the input may be cut. *)
LEMMA FailWire ==
  ASSUME NEW P, NEW R, NEW U, request.how # "valid", Fail
  PROVE  OnTrack(P, R, U)'
BY DEF Fail, OnTrack, Outcome

(* skip has stepped over something: the field ends, or the group goes on. *)
LEMMA SkippedWire ==
  ASSUME DecoderInv, NEW P, NEW R, NEW U, Groups(U), NEW p, Calls(P, R, p),
         NEW y, y = p[Len(frames)], y.from = frame.msg, y.bytes \in Seq(Byte),
         NEW next, NEW open, NEW s \in Seq(Byte), SkipRest(U, open, s),
         Follows(Len(frames), next, s \o y.bytes), Skipped(next, open)
  PROVE  OnTrack(P, R, U)'
<1>1. /\ iNdEx' = next /\ pc' = (IF open = 0 THEN "loop" ELSE "skip_tag") /\ varint' = NoBits
      /\ depth' = open /\ UNCHANGED <<request, frames, preIndex, fieldNum, status>>
  BY DEF Skipped, Read
<1>2. Calls(P, R, p)' /\ y = p[Len(frames')] /\ y.from = frame'.msg
  BY <1>1, CallsUnchanged DEF frame
<1> DEFINE z == y.bytes
           e == s \o z
<1>3. Follows(Len(frames), iNdEx, e)' /\ z \in Seq(Byte)
  BY <1>1 DEF Follows, Agrees, Max
<1>4. CASE open = 0
  <2>1. s = <<>>
    BY <1>4 DEF SkipRest
  <2>2. e = z
    <3> HIDE DEF z
    <3> QED BY <1>3, <2>1, ConcatEmptySeq
  <2>3. Doing(P, Src(P, R, Len(frames)), U, p[Len(frames)])'
    BY <1>1, <1>2, <1>3, <1>4, <2>2 DEF Doing
  <2> QED BY <1>1, <1>2, <1>4, <2>3 DEF OnTrack
<1>5. CASE open # 0
  <2>1. PICK tag \in Word, rest \in Seq(Byte) :
          s = VarintBytes[tag] \o rest /\ SkipField(U, open, tag, rest)
    <3>1. PICK u \in U : u.depth = open /\ u.bytes = s
      BY <1>5 DEF SkipRest
    <3> QED BY <3>1 DEF Groups
  <2> DEFINE b == VarintBytes[tag]
  <2>2. b \in Seq(Byte) /\ s = b \o rest
    <3>1. tag \in Nat
      BY WidthFacts DEF Word, Words
    <3> QED BY <2>1, <3>1, VarintUnfold
  <2> HIDE DEF b, z
  <2>3. e = b \o (rest \o z) /\ rest \o z \in Seq(Byte)
    <3>1. rest \in Seq(Byte) /\ z \in Seq(Byte) /\ b \in Seq(Byte)
      BY <1>3, <2>1, <2>2
    <3>2. (b \o rest) \o z = b \o (rest \o z) /\ rest \o z \in Seq(Byte)
      BY ONLY <3>1, BytesConcat
    <3> QED BY <2>2, <3>2
  <2>4. Reading(tag, rest \o z)'
    <3>1. PICK t : t = rest \o z
      OBVIOUS
    <3>2. t \in Seq(Byte) /\ Follows(Len(frames), iNdEx, VarintBytes[tag] \o t)'
      BY <1>3, <2>3, <3>1 DEF b
    <3>3. Reading(tag, t)'
      BY <1>1, <3>2, ReadingStarts
    <3> QED BY <3>1, <3>3 DEF z
  <2>5. AtSkipTag(U, y)'
    <3>1. SkipField(U, depth, tag, rest)'
      BY <1>1, <2>1 DEF SkipField, SkipRest
    <3> QED BY <1>2, <2>4, <3>1 DEF AtSkipTag, z
  <2>6. Doing(P, Src(P, R, Len(frames)), U, p[Len(frames)])'
    BY <1>1, <1>2, <1>5, <2>5 DEF Doing
  <2> QED BY <1>1, <1>2, <1>5, <2>6 DEF OnTrack
<1> QED BY <1>4, <1>5

(* The calls while skip reads something. *)
LEMMA SkipRead ==
  ASSUME DecoderInv, NEW W, NEW P, NEW R, NEW U, StandsFor(request, W, P, R, U),
         OnTrack(P, R, U), pc \in {"skip_tag", "skip_varint", "skip_length"}
  PROVE  \E p, k, y :
           /\ k = Len(frames) /\ k \in Nat \ {0} /\ Calls(P, R, p) /\ y = p[k]
           /\ y.from = frame.msg /\ y.bytes \in Seq(Byte)
           /\ pc = "skip_tag" => AtSkipTag(U, y)
           /\ pc = "skip_varint" => AtSkipVarint(U, y)
           /\ pc = "skip_length" => AtSkipLength(U, y)
<1>1. PICK p : Calls(P, R, p) /\ Doing(P, Src(P, R, Len(frames)), U, p[Len(frames)])
  BY DEF OnTrack
<1>2. PICK k, y : k = Len(frames) /\ y = p[k]
  OBVIOUS
<1>3. k \in Nat \ {0} /\ y \in Src(P, R, k)
  <2>1. k \in Nat \ {0}
    BY <1>2, Running, StackFacts DEF DecoderInv
  <2>2. k \in 1 .. k
    BY <2>1
  <2> QED BY <1>1, <1>2, <2>1, <2>2 DEF Calls
<1>4. y.bytes \in Seq(Byte)
  <2>1. Closed(P, Src(P, R, k), U)
    BY SrcClosed
  <2> QED BY <1>3, <2>1 DEF Closed
<1>5. /\ pc = "skip_tag" => AtSkipTag(U, y)
      /\ pc = "skip_varint" => AtSkipVarint(U, y)
      /\ pc = "skip_length" => AtSkipLength(U, y)
  BY <1>1, <1>2 DEF Doing
<1>6. y.from = frame.msg
  BY <1>5 DEF AtSkipTag, AtSkipVarint, AtSkipLength
<1> QED BY <1>1, <1>2, <1>3, <1>4, <1>5, <1>6

(* The numbers of bytes of fixed size fit a word. *)
LEMMA EightFits == 8 < Half
<1>1. WordBits \in Nat /\ WordBits - 1 \in Nat /\ 4 <= WordBits - 1
  BY WidthAssumption
<1>2. 2 ^ 4 <= 2 ^ (WordBits - 1)
  BY <1>1, PowerMonotonic
<1>3. 2 ^ 4 = 16
  <2>1. 2 ^ (0 + 1) = 2 ^ 0 + 2 ^ 0 /\ 2 ^ (1 + 1) = 2 ^ 1 + 2 ^ 1
        /\ 2 ^ (2 + 1) = 2 ^ 2 + 2 ^ 2 /\ 2 ^ (3 + 1) = 2 ^ 3 + 2 ^ 3
    BY PowerDouble
  <2> QED BY <2>1, PowerZero
<1> QED BY <1>2, <1>3, WidthFacts DEF Half

(* A step by v from within the slice: to where v says, or negative. *)
LEMMA StepBy ==
  ASSUME DecoderInv, iNdEx <= limit, NEW v \in 0 .. Words - 1,
         Signed(v, WordBits) >= 0, Plus(iNdEx, Signed(v, WordBits)) >= 0
  PROVE  Plus(iNdEx, Signed(v, WordBits)) = iNdEx + v
<1>1. iNdEx \in Nat /\ iNdEx < Half
  BY Running, WidthFacts DEF DecoderInv, Scalars
<1> QED BY <1>1, PlusExact

(* What follows a tag depends on its wire type. *)
LEMMA SkipCases ==
  ASSUME NEW U, NEW d, NEW tag, NEW rest, SkipField(U, d, tag, rest)
  PROVE  /\ tag % 8 \in {0, 1, 2, 3, 4, 5}
         /\ tag % 8 = 0 => SkipsVarint(U, d, rest)
         /\ tag % 8 = 1 => SkipsBytes(U, d, 8, rest)
         /\ tag % 8 = 2 => SkipsString(U, d, rest)
         /\ tag % 8 = 3 => SkipRest(U, d + 1, rest)
         /\ tag % 8 = 4 => d > 0 /\ SkipRest(U, d - 1, rest)
         /\ tag % 8 = 5 => SkipsBytes(U, d, 4, rest)
BY DEF SkipField

(* skip has read a tag. *)
LEMMA SkipTagRead ==
  ASSUME DecoderInv, NEW W, NEW P, NEW R, NEW U, StandsFor(request, W, P, R, U),
         OnTrack(P, R, U), Have("skip_tag")
  PROVE  \E p, k, y, rest :
           /\ k = Len(frames) /\ k \in Nat \ {0} /\ Calls(P, R, p) /\ y = p[k]
           /\ y.from = frame.msg /\ y.bytes \in Seq(Byte)
           /\ rest \in Seq(Byte) /\ Follows(k, iNdEx, rest \o y.bytes)
           /\ WireType \in {0, 1, 2, 3, 4, 5}
           /\ WireType = 0 => SkipsVarint(U, depth, rest)
           /\ WireType = 1 => SkipsBytes(U, depth, 8, rest)
           /\ WireType = 2 => SkipsString(U, depth, rest)
           /\ WireType = 3 => SkipRest(U, depth + 1, rest)
           /\ WireType = 4 => depth > 0 /\ SkipRest(U, depth - 1, rest)
           /\ WireType = 5 => SkipsBytes(U, depth, 4, rest)
<1>1. pc = "skip_tag" /\ varint.done
  BY DEF Have
<1>2. PICK p, k, y :
           /\ k = Len(frames) /\ k \in Nat \ {0} /\ Calls(P, R, p) /\ y = p[k]
           /\ y.from = frame.msg /\ y.bytes \in Seq(Byte)
           /\ pc = "skip_tag" => AtSkipTag(U, y)
           /\ pc = "skip_varint" => AtSkipVarint(U, y)
           /\ pc = "skip_length" => AtSkipLength(U, y)
  BY <1>1, SkipRead
<1>3. PICK tag \in Word, rest \in Seq(Byte) :
        SkipField(U, depth, tag, rest) /\ Reading(tag, rest \o y.bytes)
  BY <1>1, <1>2 DEF AtSkipTag
<1>4. varint.bits = tag /\ Follows(k, iNdEx, rest \o y.bytes)
  BY <1>1, <1>2, <1>3 DEF Reading
<1>5. WireType = tag % 8
  BY <1>4 DEF WireType
<1>6. PICK w, d : w = WireType /\ d = depth
  OBVIOUS
<1>7. SkipField(U, d, tag, rest) /\ tag % 8 = w
  BY <1>3, <1>5, <1>6
<1>8. /\ w \in {0, 1, 2, 3, 4, 5}
      /\ w = 0 => SkipsVarint(U, d, rest)
      /\ w = 1 => SkipsBytes(U, d, 8, rest)
      /\ w = 2 => SkipsString(U, d, rest)
      /\ w = 3 => SkipRest(U, d + 1, rest)
      /\ w = 4 => d > 0 /\ SkipRest(U, d - 1, rest)
      /\ w = 5 => SkipsBytes(U, d, 4, rest)
  BY ONLY <1>7, SkipCases
<1> QED BY <1>2, <1>3, <1>4, <1>6, <1>8

(* A varint or a length is to be skipped. *)
LEMMA SkipTagWire ==
  ASSUME DecoderInv, NEW W, NEW P, NEW R, NEW U, StandsFor(request, W, P, R, U),
         OnTrack(P, R, U), SkipTag
  PROVE  OnTrack(P, R, U)'
<1>1. /\ Have("skip_tag") /\ WireType \in {0, 2} /\ varint' = NoBits
      /\ pc' = IF WireType = 0 THEN "skip_varint" ELSE "skip_length"
      /\ UNCHANGED <<request, iNdEx, frames, preIndex, fieldNum, depth, status>>
  BY DEF SkipTag, Read
<1>2. PICK p, k, y, rest :
           /\ k = Len(frames) /\ k \in Nat \ {0} /\ Calls(P, R, p) /\ y = p[k]
           /\ y.from = frame.msg /\ y.bytes \in Seq(Byte)
           /\ rest \in Seq(Byte) /\ Follows(k, iNdEx, rest \o y.bytes)
           /\ WireType \in {0, 1, 2, 3, 4, 5}
           /\ WireType = 0 => SkipsVarint(U, depth, rest)
           /\ WireType = 1 => SkipsBytes(U, depth, 8, rest)
           /\ WireType = 2 => SkipsString(U, depth, rest)
           /\ WireType = 3 => SkipRest(U, depth + 1, rest)
           /\ WireType = 4 => depth > 0 /\ SkipRest(U, depth - 1, rest)
           /\ WireType = 5 => SkipsBytes(U, depth, 4, rest)
  BY <1>1, SkipTagRead
<1>3. Calls(P, R, p)' /\ k = Len(frames') /\ y.from = frame'.msg
  BY <1>1, <1>2, CallsUnchanged DEF frame
<1>4. PICK z : z = y.bytes
  OBVIOUS
<1>5. Follows(Len(frames), iNdEx, rest \o z)'
  BY <1>1, <1>2, <1>4 DEF Follows, Agrees, Max
<1>6. CASE WireType = 0
  <2>1. PICK v \in Word, s \in Seq(Byte) : rest = VarintBytes[v] \o s /\ SkipRest(U, depth, s)
    BY <1>2, <1>6 DEF SkipsVarint
  <2>2. rest \o z = VarintBytes[v] \o (s \o z) /\ s \o z \in Seq(Byte)
    <3>1. v \in Nat
      BY WidthFacts DEF Word, Words
    <3>2. PICK b : b = VarintBytes[v]
      OBVIOUS
    <3>3. b \in Seq(Byte) /\ z \in Seq(Byte) /\ rest = b \o s
      BY <1>2, <1>4, <2>1, <3>1, <3>2, VarintUnfold
    <3>4. (b \o s) \o z = b \o (s \o z) /\ s \o z \in Seq(Byte)
      BY <3>3, BytesConcat
    <3> QED BY <3>2, <3>3, <3>4
  <2>3. Reading(v, s \o z)'
    <3>1. PICK t : t = s \o z
      OBVIOUS
    <3>2. Follows(Len(frames), iNdEx, VarintBytes[v] \o t)' /\ t \in Seq(Byte)
      BY <1>5, <2>2, <3>1
    <3> QED BY <1>1, <3>1, <3>2, ReadingStarts
  <2>4. SkipRest(U, depth, s)'
    BY <1>1, <2>1 DEF SkipRest
  <2>5. AtSkipVarint(U, y)'
    BY <1>3, <1>4, <2>3, <2>4 DEF AtSkipVarint
  <2>6. pc' = "skip_varint"
    BY <1>1, <1>6
  <2>7. Doing(P, Src(P, R, Len(frames)), U, p[Len(frames)])'
    BY <1>2, <1>3, <2>5, <2>6 DEF Doing
  <2> QED BY <1>3, <2>6, <2>7 DEF OnTrack
<1>7. CASE WireType = 2
  <2>1. PICK f \in Seq(Byte), s \in Seq(Byte) :
          Len(f) \in Word /\ rest = VarintBytes[Len(f)] \o (f \o s) /\ SkipRest(U, depth, s)
    BY <1>2, <1>7 DEF SkipsString
  <2>2. rest \o z = VarintBytes[Len(f)] \o (f \o (s \o z)) /\ f \o (s \o z) \in Seq(Byte)
    <3>1. Len(f) \in Nat
      BY LenProperties
    <3>2. PICK b, e : b = VarintBytes[Len(f)] /\ e = f \o s
      OBVIOUS
    <3>3. b \in Seq(Byte) /\ z \in Seq(Byte) /\ rest = b \o e /\ e \in Seq(Byte)
      BY <1>2, <1>4, <2>1, <3>1, <3>2, VarintUnfold, BytesConcat
    <3>4. rest \o z = b \o (e \o z)
      <4>1. (b \o e) \o z = b \o (e \o z)
        <5>1. b \in Seq(Byte) /\ e \in Seq(Byte) /\ z \in Seq(Byte)
          BY ONLY <3>3
        <5> QED BY ONLY <5>1, BytesConcat, SMTT(30)
      <4> QED BY ONLY <3>3, <4>1
    <3>5. e \o z = f \o (s \o z) /\ s \o z \in Seq(Byte) /\ e \o z \in Seq(Byte)
      <4>1. f \in Seq(Byte) /\ s \in Seq(Byte) /\ z \in Seq(Byte)
        BY <3>3
      <4>2. s \o z \in Seq(Byte) /\ e \o z \in Seq(Byte)
        BY ONLY <3>3, <4>1, BytesConcat
      <4>3. (f \o s) \o z = f \o (s \o z)
        BY ONLY <4>1, BytesConcat
      <4> QED BY ONLY <3>2, <4>2, <4>3
    <3> QED BY <3>2, <3>4, <3>5
  <2>3. Reading(Len(f), f \o (s \o z))'
    <3>1. PICK t, v : t = f \o (s \o z) /\ v = Len(f)
      OBVIOUS
    <3>2. Follows(Len(frames), iNdEx, VarintBytes[v] \o t)' /\ t \in Seq(Byte) /\ v \in Word
      BY <1>5, <2>1, <2>2, <3>1
    <3> QED BY <1>1, <3>1, <3>2, ReadingStarts
  <2>4. SkipRest(U, depth, s)'
    BY <1>1, <2>1 DEF SkipRest
  <2>5. AtSkipLength(U, y)'
    BY <1>3, <1>4, <2>3, <2>4 DEF AtSkipLength
  <2>6. pc' = "skip_length"
    BY <1>1, <1>7
  <2>7. Doing(P, Src(P, R, Len(frames)), U, p[Len(frames)])'
    BY <1>2, <1>3, <2>5, <2>6 DEF Doing
  <2> QED BY <1>3, <2>6, <2>7 DEF OnTrack
<1> QED BY <1>1, <1>6, <1>7

(* A field of fixed size is stepped over, *)
LEMMA SkipFixedWire ==
  ASSUME DecoderInv, NEW W, NEW P, NEW R, NEW U, StandsFor(request, W, P, R, U),
         OnTrack(P, R, U), SkipFixed
  PROVE  OnTrack(P, R, U)'
<1>1. Have("skip_tag") /\ WireType \in {1, 5}
  BY DEF SkipFixed
<1>2. PICK p, k, y, rest :
           /\ k = Len(frames) /\ k \in Nat \ {0} /\ Calls(P, R, p) /\ y = p[k]
           /\ y.from = frame.msg /\ y.bytes \in Seq(Byte)
           /\ rest \in Seq(Byte) /\ Follows(k, iNdEx, rest \o y.bytes)
           /\ WireType \in {0, 1, 2, 3, 4, 5}
           /\ WireType = 0 => SkipsVarint(U, depth, rest)
           /\ WireType = 1 => SkipsBytes(U, depth, 8, rest)
           /\ WireType = 2 => SkipsString(U, depth, rest)
           /\ WireType = 3 => SkipRest(U, depth + 1, rest)
           /\ WireType = 4 => depth > 0 /\ SkipRest(U, depth - 1, rest)
           /\ WireType = 5 => SkipsBytes(U, depth, 4, rest)
  BY <1>1, SkipTagRead
<1>3. PICK n : n = IF WireType = 1 THEN 8 ELSE 4
  OBVIOUS
<1>4. PICK f \in Seq(Byte), s \in Seq(Byte) : Len(f) = n /\ rest = f \o s /\ SkipRest(U, depth, s)
  <2>1. SkipsBytes(U, depth, n, rest)
    BY <1>1, <1>2, <1>3
  <2> QED BY <2>1 DEF SkipsBytes
<1>5. n \in {4, 8}
  BY <1>3
<1>6. PICK z : z = y.bytes
  OBVIOUS
<1>7. Follows(k, iNdEx + n, s \o z) /\ iNdEx \in Nat
  <2>1. z \in Seq(Byte) /\ iNdEx \in Nat /\ k \in Nat
    BY <1>2, <1>6 DEF DecoderInv, Scalars
  <2>2. (f \o s) \o z = f \o (s \o z) /\ s \o z \in Seq(Byte)
    BY <2>1, BytesConcat
  <2>3. PICK t : t = s \o z
    OBVIOUS
  <2>4. Follows(k, iNdEx, f \o t) /\ t \in Seq(Byte)
    BY <1>2, <1>4, <1>6, <2>2, <2>3
  <2>5. Follows(k, iNdEx + Len(f), t)
    BY <2>1, <2>4, FollowsTail
  <2> QED BY <1>4, <2>1, <2>3, <2>5
<1>8. iNdEx <= limit /\ limit \in 0 .. Max /\ Max < Half /\ Max \in Nat
  BY <1>1, Within, Running DEF Have
<1>9. Plus(iNdEx, n) >= 0 => Plus(iNdEx, n) = iNdEx + n
  <2>1. Half \in Nat /\ Words = Half + Half /\ 8 < Half
    BY WidthFacts, EightFits
  <2>2. n \in 0 .. Words - 1 /\ n < Half
    BY <1>5, <2>1
  <2>3. Signed(n, WordBits) = n
    BY <2>2, SignedFacts
  <2>4. n >= 0
    BY <1>5
  <2> QED BY <1>8, <2>2, <2>3, <2>4, StepBy
<1>10. Skipped(Plus(iNdEx, n), depth) \/ SkipFails(Plus(iNdEx, n))
  BY <1>3 DEF SkipFixed
<1>11. CASE Skipped(Plus(iNdEx, n), depth)
  <2>1. PICK next : next = Plus(iNdEx, n)
    OBVIOUS
  <2>2. Skipped(next, depth) /\ next = iNdEx + n
    BY <1>9, <1>11, <2>1 DEF Skipped
  <2>3. PICK open : open = depth
    OBVIOUS
  <2>4. Follows(Len(frames), next, s \o y.bytes) /\ SkipRest(U, open, s) /\ Skipped(next, open)
    BY <1>2, <1>4, <1>6, <1>7, <2>2, <2>3
  <2>5. DecoderInv /\ Calls(P, R, p) /\ y = p[Len(frames)] /\ y.from = frame.msg /\ y.bytes \in Seq(Byte)
        /\ Groups(U)
    BY <1>2 DEF StandsFor
  <2> QED BY <2>4, <2>5, SkippedWire
<1>12. CASE SkipFails(Plus(iNdEx, n))
  <2>1. request.how = "valid" => ~SkipFails(Plus(iNdEx, n))
    <3> SUFFICES ASSUME request.how = "valid" PROVE ~SkipFails(Plus(iNdEx, n))
      OBVIOUS
    <3>1. iNdEx + n <= limit
      <4>1. PICK t : t = s \o z
        OBVIOUS
      <4>2. (iNdEx + n) + Len(t) = limit /\ Len(t) \in Nat
        BY <1>2, <1>7, <4>1, LenProperties DEF Follows, limit, frame
      <4> QED BY <1>5, <1>7, <1>8, <4>2
    <3>2. iNdEx + n < Half /\ n \in Nat
      BY <1>5, <1>7, <1>8, <3>1, WidthFacts
    <3>3. Plus(iNdEx, n) = iNdEx + n
      BY <1>7, <3>2, PlusWithin
    <3> QED BY <1>7, <1>8, <3>1, <3>2, <3>3 DEF SkipFails
  <2> QED BY <1>12, <2>1, FailWire DEF SkipFails
<1> QED BY <1>10, <1>11, <1>12

(* a group starts or ends, *)
LEMMA SkipGroupWire ==
  ASSUME DecoderInv, NEW W, NEW P, NEW R, NEW U, StandsFor(request, W, P, R, U),
         OnTrack(P, R, U), SkipGroup
  PROVE  OnTrack(P, R, U)'
<1>1. Have("skip_tag")
  BY DEF SkipGroup
<1>2. PICK p, k, y, rest :
           /\ k = Len(frames) /\ k \in Nat \ {0} /\ Calls(P, R, p) /\ y = p[k]
           /\ y.from = frame.msg /\ y.bytes \in Seq(Byte)
           /\ rest \in Seq(Byte) /\ Follows(k, iNdEx, rest \o y.bytes)
           /\ WireType \in {0, 1, 2, 3, 4, 5}
           /\ WireType = 0 => SkipsVarint(U, depth, rest)
           /\ WireType = 1 => SkipsBytes(U, depth, 8, rest)
           /\ WireType = 2 => SkipsString(U, depth, rest)
           /\ WireType = 3 => SkipRest(U, depth + 1, rest)
           /\ WireType = 4 => depth > 0 /\ SkipRest(U, depth - 1, rest)
           /\ WireType = 5 => SkipsBytes(U, depth, 4, rest)
  BY <1>1, SkipTagRead
<1>3. PICK open : SkipRest(U, open, rest) /\ Skipped(iNdEx, open)
  <2>1. CASE WireType = 3 /\ Skipped(iNdEx, depth + 1)
    BY <1>2, <2>1
  <2>2. CASE WireType = 4 /\ Skipped(iNdEx, depth - 1)
    BY <1>2, <2>2
  <2> QED BY <2>1, <2>2 DEF SkipGroup
<1>4. PICK next : next = iNdEx
  OBVIOUS
<1>5. Follows(Len(frames), next, rest \o y.bytes) /\ Skipped(next, open) /\ rest \in Seq(Byte)
  BY <1>2, <1>3, <1>4
<1>6. DecoderInv /\ Calls(P, R, p) /\ y = p[Len(frames)] /\ y.from = frame.msg /\ y.bytes \in Seq(Byte)
      /\ Groups(U)
  BY <1>2 DEF StandsFor
<1> QED BY <1>3, <1>5, <1>6, SkippedWire

(* a varint is stepped over, *)
LEMMA SkipVarintWire ==
  ASSUME DecoderInv, NEW W, NEW P, NEW R, NEW U, StandsFor(request, W, P, R, U),
         OnTrack(P, R, U), SkipVarint
  PROVE  OnTrack(P, R, U)'
<1>1. pc = "skip_varint" /\ varint.done /\ Skipped(iNdEx, depth)
  BY DEF SkipVarint, Have
<1>2. PICK p, k, y :
           /\ k = Len(frames) /\ k \in Nat \ {0} /\ Calls(P, R, p) /\ y = p[k]
           /\ y.from = frame.msg /\ y.bytes \in Seq(Byte)
           /\ pc = "skip_tag" => AtSkipTag(U, y)
           /\ pc = "skip_varint" => AtSkipVarint(U, y)
           /\ pc = "skip_length" => AtSkipLength(U, y)
  BY <1>1, SkipRead
<1>3. PICK v \in Word, s \in Seq(Byte) : SkipRest(U, depth, s) /\ Reading(v, s \o y.bytes)
  BY <1>1, <1>2 DEF AtSkipVarint
<1>4. PICK next, open : next = iNdEx /\ open = depth
  OBVIOUS
<1>5. Follows(Len(frames), next, s \o y.bytes) /\ Skipped(next, open) /\ SkipRest(U, open, s)
  BY <1>1, <1>3, <1>4 DEF Reading
<1>6. DecoderInv /\ Calls(P, R, p) /\ y = p[Len(frames)] /\ y.from = frame.msg /\ y.bytes \in Seq(Byte)
      /\ Groups(U)
  BY <1>2 DEF StandsFor
<1> QED BY <1>5, <1>6, SkippedWire

(* and so is a string. *)
LEMMA SkipLengthWire ==
  ASSUME DecoderInv, NEW W, NEW P, NEW R, NEW U, StandsFor(request, W, P, R, U),
         OnTrack(P, R, U), SkipLength
  PROVE  OnTrack(P, R, U)'
<1> DEFINE to == IF Signed(varint.bits, WordBits) < 0 THEN -1 ELSE postIndex
<1>1. pc = "skip_length" /\ varint.done /\ (Skipped(to, depth) \/ SkipFails(to))
  BY DEF SkipLength, Have
<1>2. PICK p, k, y :
           /\ k = Len(frames) /\ k \in Nat \ {0} /\ Calls(P, R, p) /\ y = p[k]
           /\ y.from = frame.msg /\ y.bytes \in Seq(Byte)
           /\ pc = "skip_tag" => AtSkipTag(U, y)
           /\ pc = "skip_varint" => AtSkipVarint(U, y)
           /\ pc = "skip_length" => AtSkipLength(U, y)
  BY <1>1, SkipRead
<1>3. PICK f \in Seq(Byte), s \in Seq(Byte) :
        SkipRest(U, depth, s) /\ Reading(Len(f), f \o (s \o y.bytes))
  BY <1>1, <1>2 DEF AtSkipLength
<1>4. PICK z, n : z = y.bytes /\ n = Len(f)
  OBVIOUS
<1>5. varint.bits = n /\ n \in Nat /\ n \in 0 .. Words - 1
  BY <1>1, <1>3, <1>4, LenProperties DEF Reading, Word, Words
<1>6. Follows(k, iNdEx + n, s \o z) /\ iNdEx \in Nat
  <2>1. z \in Seq(Byte) /\ iNdEx \in Nat /\ k \in Nat
    BY <1>2, <1>4 DEF DecoderInv, Scalars
  <2>2. PICK t : t = s \o z
    OBVIOUS
  <2>3. Follows(k, iNdEx, f \o t) /\ t \in Seq(Byte)
    BY <1>1, <1>2, <1>3, <1>4, <2>1, <2>2, BytesConcat DEF Reading
  <2>4. Follows(k, iNdEx + Len(f), t)
    BY <2>1, <2>3, FollowsTail
  <2> QED BY <1>4, <2>1, <2>2, <2>4
<1>7. iNdEx <= limit /\ limit \in 0 .. Max /\ Max < Half /\ Max \in Nat
  BY <1>1, Within, Running DEF Have
<1>8. to >= 0 => to = iNdEx + n
  <2> SUFFICES ASSUME to >= 0 PROVE to = iNdEx + n
    OBVIOUS
  <2>1. Signed(n, WordBits) \in Int
    BY <1>5, SignedFacts
  <2>2. ~(Signed(n, WordBits) < 0) /\ to = Plus(iNdEx, Signed(n, WordBits))
    BY <1>5 DEF postIndex
  <2>3. Signed(n, WordBits) >= 0
    BY <2>1, <2>2
  <2> HIDE DEF to
  <2> QED BY <1>5, <1>7, <2>2, <2>3, StepBy
<1>9. CASE Skipped(to, depth)
  <2>1. PICK next, open : next = to /\ open = depth
    OBVIOUS
  <2>2. next = iNdEx + n /\ Skipped(next, open)
    <3>1. to >= 0
      BY <1>9 DEF Skipped
    <3> HIDE DEF to
    <3> QED BY <1>8, <1>9, <2>1, <3>1
  <2>3. Follows(Len(frames), next, s \o y.bytes) /\ SkipRest(U, open, s)
    BY <1>2, <1>3, <1>4, <1>6, <2>1, <2>2
  <2>4. DecoderInv /\ Calls(P, R, p) /\ y = p[Len(frames)] /\ y.from = frame.msg /\ y.bytes \in Seq(Byte)
        /\ Groups(U)
    BY <1>2 DEF StandsFor
  <2> QED BY <2>2, <2>3, <2>4, SkippedWire
<1>10. CASE SkipFails(to)
  <2>1. request.how = "valid" => ~SkipFails(to)
    <3> SUFFICES ASSUME request.how = "valid" PROVE ~SkipFails(to)
      OBVIOUS
    <3>1. iNdEx + n <= limit
      <4>1. PICK t : t = s \o z
        OBVIOUS
      <4>2. (iNdEx + n) + Len(t) = limit /\ Len(t) \in Nat
        BY <1>2, <1>6, <4>1, LenProperties DEF Follows, limit, frame
      <4> QED BY <1>5, <1>6, <1>7, <4>2
    <3>2. postIndex = iNdEx + n
      BY <1>1, <1>5, <1>7, <3>1, PostIndex
    <3>3. Fits(postIndex)
      BY <1>1, <1>5, <1>7, <3>1, PostIndex
    <3>4. to = iNdEx + n
      <4>1. Signed(varint.bits, WordBits) >= 0
        BY <3>3 DEF Fits
      <4>2. Signed(varint.bits, WordBits) \in Int
        BY <1>5, SignedFacts
      <4>3. ~(Signed(varint.bits, WordBits) < 0)
        BY <4>1, <4>2
      <4> QED BY <3>2, <4>3
    <3> HIDE DEF to
    <3> QED BY <1>5, <1>6, <1>7, <3>1, <3>4 DEF SkipFails
  <2> QED BY <1>10, <2>1, FailWire DEF SkipFails
<1> QED BY <1>1, <1>9, <1>10

(* What stands for a message gives no reason to fail: not in a varint, *)
LEMMA NoReadFails ==
  ASSUME DecoderInv, NEW P, NEW R, NEW U, OnTrack(P, R, U), request.how = "valid"
  PROVE  ~ReadFails
<1> SUFFICES ASSUME pc \in Counters, ~varint.done
             PROVE  varint.shift < WordBits /\ iNdEx < limit
  <2>1. varint.shift \in Nat /\ iNdEx \in Nat
    BY DEF DecoderInv, Scalars, Varint
  <2>2. WordBits \in Nat
    BY WidthAssumption
  <2>3. limit \in Int
    BY Running
  <2> QED BY <2>1, <2>2, <2>3 DEF ReadFails
<1>1. PICK p : Doing(P, Src(P, R, Len(frames)), U, p[Len(frames)])
  BY DEF OnTrack, Counters
<1>2. PICK v, rest : Reading(v, rest)
  <2>1. CASE pc = "tag"
    BY <1>1, <2>1 DEF Doing, AtTag
  <2>2. CASE pc \in {"length", "value"}
    BY <1>1, <2>2 DEF Doing, AtNumber
  <2>3. CASE pc = "skip_tag"
    BY <1>1, <2>3 DEF Doing, AtSkipTag
  <2>4. CASE pc = "skip_varint"
    BY <1>1, <2>4 DEF Doing, AtSkipVarint
  <2>5. CASE pc = "skip_length"
    BY <1>1, <2>5 DEF Doing, AtSkipLength
  <2> QED BY <2>1, <2>2, <2>3, <2>4, <2>5 DEF Counters
<1> QED BY <1>2, ReadingGoesOn

(* not after a tag, *)
LEMMA NoBadTag ==
  ASSUME DecoderInv, NEW P, NEW R, NEW U, OnTrack(P, R, U)
  PROVE  ~BadTag
<1> SUFFICES ASSUME Have("tag")
             PROVE  /\ WireType # 4 /\ ~(Number <= 0)
                    /\ Known => Unmarshal[frame.type][Number].wireType = WireType
  BY DEF BadTag
<1>1. PICK p, k, x, tag, rest :
           /\ x.type = frame.type
           /\ Field(P, Src(P, R, k), U, x, tag, rest)
           /\ WireType = tag % 8 /\ Number = tag \div 8 /\ Number > 0
  BY TagRead
<1>2. ~(Number <= 0)
  <2>1. tag \div 8 \in FieldNumbers
    BY <1>1 DEF Field
  <2>2. Number \in Int
    BY <1>1, <2>1 DEF FieldNumbers
  <2> QED BY <1>1, <2>2
<1> QED BY <1>1, <1>2 DEF Field, Known

(* not at a length, *)
LEMMA NoBadLength ==
  ASSUME DecoderInv, NEW P, NEW R, NEW U, OnTrack(P, R, U), request.how = "valid", Closed(P, P, U),
         Closed(P, R, U)
  PROVE  ~BadLength
<1> SUFFICES ASSUME Have("length")
             PROVE  Fits(postIndex) /\ (Case.kind = "int" => Parses(Slice))
  BY DEF BadLength
<1>1. PICK p, k, y, v, tail :
           /\ v \in Word /\ tail \in Seq(Byte)
           /\ k = Len(frames) /\ k \in Nat \ {0} /\ Calls(P, R, p) /\ y = p[k]
           /\ y.type = frame.type /\ y \in Src(P, R, k)
           /\ pc = "length" <=> Case.wireType = 2
           /\ varint.bits = v /\ Follows(k, iNdEx, tail)
           /\ Holds(P, frame.type, frame.msg, Case, v, tail, y)
  BY NumberRead
<1>2. /\ pc = "length" /\ varint.done /\ iNdEx <= limit /\ limit \in 0 .. Max /\ iNdEx \in Nat /\ Max \in Nat
  BY Within, Running, InputFacts DEF Have, DecoderInv, Scalars
<1>3. iNdEx + Len(tail) = limit
  BY <1>1, <1>2 DEF Follows, limit, frame
<1>4. y.bytes \in Seq(Byte)
  BY <1>1 DEF Src, Closed
<1>5. PICK s : s \in Seq(Byte) /\ v = Len(s) /\ tail = s \o y.bytes
               /\ (Case.kind = "int" => s \in Seq(48 .. 57))
  <2>1. CASE /\ Case.kind \in {"string", "int"}
             /\ \E s \in Seq(Byte) :
                  /\ v = Len(s) /\ tail = s \o y.bytes
                  /\ Case.kind = "int" => s \in Seq(48 .. 57)
    BY <2>1
  <2>2. CASE /\ Case.kind \in {"message", "repeated"}
             /\ \E z \in P : v = Len(z.bytes) /\ tail = z.bytes \o y.bytes
    <3>1. PICK z \in P : v = Len(z.bytes) /\ tail = z.bytes \o y.bytes
      BY <2>2
    <3>2. z.bytes \in Seq(Byte)
      BY <3>1 DEF Closed
    <3> QED BY <2>2, <3>1, <3>2
  <2> QED BY <1>1, <1>2, <2>1, <2>2 DEF Holds
<1>6. iNdEx + v <= limit /\ v \in Nat
  <2>1. PICK z : z = y.bytes
    OBVIOUS
  <2>2. Len(tail) = Len(s) + Len(z) /\ Len(s) \in Nat /\ Len(z) \in Nat
    BY <1>4, <1>5, <2>1, LenProperties, ConcatProperties
  <2> QED BY <1>2, <1>3, <1>5, <2>2
<1>7. Fits(postIndex) /\ postIndex = iNdEx + v
  BY <1>1, <1>2, <1>6, PostIndex
<1>8. Slice = s
  <2>1. \A j \in 1 .. Len(s) : iNdEx + j <= Max => request.bytes[iNdEx + j] = s[j]
    <3>1. PICK z : z = y.bytes
      OBVIOUS
    <3>2. \A j \in 1 .. Len(s) : j \in 1 .. Len(tail) /\ tail[j] = s[j]
      BY <1>4, <1>5, <3>1, ConcatProperties, LenProperties
    <3> QED BY <1>1, <3>2 DEF Follows, Agrees
  <2>2. SubSeq(request.bytes, iNdEx + 1, iNdEx + Len(s)) = s
    BY <1>5, <1>6, <2>1, SliceRead
  <2> QED BY <1>5, <1>7, <2>2 DEF Slice
<1>9. Case.kind = "int" => Parses(Slice)
  <2>1. ASSUME Case.kind = "int" PROVE \A i \in 1 .. Len(s) : s[i] \in 48 .. 57
    BY <1>5, <2>1, ElementOfSeq
  <2> QED BY <1>8, <2>1 DEF Parses
<1> QED BY <1>7, <1>9

(* and not in skip. *)
LEMMA NoBadSkip ==
  ASSUME DecoderInv, NEW W, NEW P, NEW R, NEW U, StandsFor(request, W, P, R, U), OnTrack(P, R, U)
  PROVE  ~BadSkip
<1> SUFFICES ASSUME Have("skip_tag") PROVE WireType \in {0, 1, 2, 3, 4, 5} /\ (WireType = 4 => depth > 0)
  <2>1. depth \in Nat
    BY DEF DecoderInv, Scalars
  <2> QED BY <2>1 DEF BadSkip
<1> QED BY SkipTagRead

(* Nothing has happened. *)
LEMMA StutterWire ==
  ASSUME NEW P, NEW R, NEW U, OnTrack(P, R, U), UNCHANGED vars
  PROVE  OnTrack(P, R, U)'
<1>1. UNCHANGED <<request, iNdEx, frames, pc, varint, preIndex, fieldNum, depth, status>>
  BY DEF vars
<1>2. frame' = frame /\ Case' = Case /\ Max' = Max
  BY <1>1 DEF frame, Case, Max
<1>3. \A i, pos, s : Follows(i, pos, s)' <=> Follows(i, pos, s)
  BY <1>1, <1>2 DEF Follows, Agrees
<1>4. \A v, rest : Reading(v, rest)' <=> Reading(v, rest)
  BY <1>1, <1>3 DEF Reading
<1>5. CASE pc # "end"
  <2>1. PICK p : Calls(P, R, p) /\ Doing(P, Src(P, R, Len(frames)), U, p[Len(frames)])
    BY <1>5 DEF OnTrack
  <2>2. PICK S, x : S = Src(P, R, Len(frames)) /\ x = p[Len(frames)]
    OBVIOUS
  <2>3. Calls(P, R, p)'
    BY <1>1, <2>1, CallsUnchanged
  <2>4. pc = "loop" => x.from = frame'.msg /\ Follows(Len(frames), iNdEx, x.bytes)'
    BY <1>1, <1>2, <1>3, <2>1, <2>2 DEF Doing
  <2>5. pc = "tag" => AtTag(P, S, U, x)'
    BY <1>1, <1>2, <1>3, <1>4, <2>1, <2>2 DEF Doing, AtTag
  <2>6. pc \in {"length", "value"} => AtNumber(P, x)'
    BY <1>1, <1>2, <1>4, <2>1, <2>2 DEF Doing, AtNumber
  <2>7. pc = "skip_tag" => AtSkipTag(U, x)'
    BY <1>1, <1>2, <1>4, <2>1, <2>2 DEF Doing, AtSkipTag
  <2>8. pc = "skip_varint" => AtSkipVarint(U, x)'
    BY <1>1, <1>2, <1>4, <2>1, <2>2 DEF Doing, AtSkipVarint
  <2>9. pc = "skip_length" => AtSkipLength(U, x)'
    BY <1>1, <1>2, <1>4, <2>1, <2>2 DEF Doing, AtSkipLength
  <2>10. Doing(P, S, U, x)'
    BY <1>1, <2>4, <2>5, <2>6, <2>7, <2>8, <2>9 DEF Doing
  <2> QED BY <1>1, <1>5, <2>2, <2>3, <2>10 DEF OnTrack
<1>6. CASE pc = "end"
  BY <1>1, <1>6 DEF OnTrack, Outcome
<1> QED BY <1>5, <1>6

(* At first all is to be read. *)
LEMMA InitWire ==
  ASSUME Init
  PROVE  WireInv
<1> SUFFICES ASSUME IsSent(request)
             PROVE  \E W, P, R, U : StandsFor(request, W, P, R, U) /\ OnTrack(P, R, U)
  BY DEF WireInv
<1>1. request \in Inputs /\ iNdEx = 0 /\ pc = "loop"
      /\ frames = <<[type |-> request.type, msg |-> Zero[request.type],
                     limit |-> Len(request.bytes), field |-> ""]>>
  BY DEF Init
<1>2. PICK W, P, R, U : StandsFor(request, W, P, R, U)
  BY DEF IsSent
<1>3. PICK x : x = [type |-> request.type, from |-> Zero[request.type], bytes |-> W, to |-> request.sent]
  OBVIOUS
<1>4. x \in R /\ W \in Seq(Byte) /\ x.bytes = W /\ x.from = Zero[request.type] /\ x.type = request.type
  BY <1>2, <1>3 DEF StandsFor, Closed
<1>5. /\ Len(frames) = 1 /\ frames[1].type = request.type /\ frames[1].msg = Zero[request.type]
      /\ frames[1].limit = Len(request.bytes) /\ frame = frames[1]
  BY <1>1 DEF frame
<1>6. Len(W) \in Nat /\ Max \in Nat
  BY <1>1, <1>4, LenProperties, InputFacts
<1>7. Follows(1, 0, W)
  <2>1. Len(request.bytes) <= Len(W) /\ (request.how = "valid" => Len(request.bytes) = Len(W))
        /\ \A i \in 1 .. Len(request.bytes) : request.bytes[i] = W[i]
    BY <1>2 DEF StandsFor
  <2>2. \A j \in 1 .. Len(W) : 0 + j <= Max => request.bytes[0 + j] = W[j]
    BY <1>6, <2>1 DEF Max
  <2> QED BY <1>4, <1>5, <1>6, <2>1, <2>2 DEF Follows, Agrees, Max
<1>8. PICK p : p = [i \in 1 .. 1 |-> x]
  OBVIOUS
<1>9. Calls(P, R, p)
  <2>1. 1 .. Len(frames) = {1} /\ 1 .. Len(frames) - 1 = {} /\ p[1] = x
    BY <1>5, <1>8
  <2> QED BY <1>4, <1>5, <2>1 DEF Calls, Src
<1>10. Doing(P, Src(P, R, Len(frames)), U, p[Len(frames)])
  <2>1. p[Len(frames)] = x
    BY <1>5, <1>8
  <2>2. x.from = frame.msg /\ Follows(Len(frames), iNdEx, x.bytes)
    BY <1>1, <1>4, <1>5, <1>7
  <2> QED BY <1>1, <2>1, <2>2 DEF Doing
<1> QED BY <1>1, <1>2, <1>9, <1>10 DEF OnTrack

(* Every step keeps to what stands for the message. *)
LEMMA StepWire ==
  ASSUME DecoderInv, NEW W, NEW P, NEW R, NEW U, StandsFor(request, W, P, R, U),
         OnTrack(P, R, U), [Next]_vars
  PROVE  OnTrack(P, R, U)'
<1>1. Closed(P, P, U) /\ Closed(P, R, U)
  BY DEF StandsFor
<1>2. CASE ReadFails \/ BadTag \/ BadLength \/ BadSkip
  <2>1. Fail
    BY <1>2 DEF ReadFails, BadTag, BadLength, BadSkip
  <2>2. request.how # "valid"
    BY <1>1, <1>2, NoReadFails, NoBadTag, NoBadLength, NoBadSkip
  <2> QED BY <2>1, <2>2, FailWire
<1>3. CASE ReadByte
  BY <1>3, ReadByteWire
<1>4. CASE NextField \/ Return
  BY <1>4, NextFieldWire, ReturnWire
<1>5. CASE KnownField \/ UnknownField
  BY <1>5, TagWire
<1>6. CASE SetValue \/ SetBytes \/ CallUnmarshal
  BY <1>6, SetValueWire, SetBytesWire, CallWire
<1>7. CASE SkipTag \/ SkipFixed \/ SkipGroup \/ SkipVarint \/ SkipLength
  BY <1>7, SkipTagWire, SkipFixedWire, SkipGroupWire, SkipVarintWire, SkipLengthWire
<1>8. CASE UNCHANGED vars
  BY <1>8, StutterWire
<1> QED BY <1>2, <1>3, <1>4, <1>5, <1>6, <1>7, <1>8 DEF Next

(* The input stays what it was, *)
LEMMA RequestStays == ASSUME [Next]_vars PROVE request' = request
<1>1. Fail => request' = request
  BY DEF Fail
<1>2. \A n, d : Skipped(n, d) => request' = request
  BY DEF Skipped
<1>3. CASE ReadByte \/ ReadFails \/ NextField \/ Return \/ BadTag \/ KnownField \/ UnknownField
  BY <1>1, <1>3 DEF ReadByte, ReadFails, NextField, Return, BadTag, KnownField, UnknownField
<1>4. CASE SetValue \/ BadLength \/ SetBytes \/ CallUnmarshal
  BY <1>1, <1>4 DEF SetValue, BadLength, SetBytes, CallUnmarshal
<1>5. CASE SkipTag \/ SkipFixed \/ SkipGroup \/ SkipVarint \/ SkipLength \/ BadSkip
  BY <1>1, <1>2, <1>5 DEF SkipTag, SkipFixed, SkipGroup, SkipVarint, SkipLength, BadSkip, SkipFails
<1>6. CASE UNCHANGED vars
  BY <1>6 DEF vars
<1> QED BY <1>3, <1>4, <1>5, <1>6 DEF Next

(* every step keeps the invariant, *)
LEMMA NextWire ==
  ASSUME DecoderInv, WireInv, [Next]_vars
  PROVE  WireInv'
<1>1. request' = request
  BY RequestStays
<1> SUFFICES ASSUME IsSent(request)
             PROVE  (\E W, P, R, U : StandsFor(request, W, P, R, U) /\ OnTrack(P, R, U))'
  BY <1>1 DEF WireInv
<1>2. PICK W, P, R, U : StandsFor(request, W, P, R, U) /\ OnTrack(P, R, U)
  BY DEF WireInv
<1>3. StandsFor(request', W, P, R, U)
  BY <1>1, <1>2
<1>4. OnTrack(P, R, U)'
  BY <1>2, StepWire
<1> QED BY <1>3, <1>4

(* so it always holds. *)
LEMMA WireInvariance == Spec => []WireInv
<1>1. Init => WireInv
  BY InitWire
<1>2. DecoderInv /\ WireInv /\ [Next]_vars => WireInv'
  BY NextWire
<1> QED BY <1>1, <1>2, DecoderInvariance, PTL DEF Spec

(* Bytes that stand for a message decode to that message, and the          *)
(* beginning of them to a part of it or to an error.                       *)
THEOREM SentDecodes ==
  Spec => [](IsSent(request) => DecodesWhatWasSent /\ TruncationNeverCorrupts)
<1>1. ASSUME DecoderInv, WireInv, IsSent(request) PROVE DecodesWhatWasSent
  BY <1>1 DEF WireInv, OnTrack, Outcome, DecodesWhatWasSent, DecoderInv, Control
<1>2. ASSUME DecoderInv, WireInv, IsSent(request) PROVE TruncationNeverCorrupts
  <2> SUFFICES ASSUME request.how = "cut", status = "ok"
               PROVE  Partial(request.type, request.sent, frames[1].msg)
    BY DEF TruncationNeverCorrupts, Partial
  <2>1. pc = "end"
    BY <1>2 DEF DecoderInv, Control
  <2>2. PICK W, P, R, U : StandsFor(request, W, P, R, U) /\ OnTrack(P, R, U)
    BY <1>2 DEF WireInv
  <2>3. PICK x \in R : frames[1].msg = x.from
    BY <2>1, <2>2 DEF OnTrack, Outcome
  <2>4. Partial(request.type, request.sent, x.from)
    BY <2>2, <2>3 DEF StandsFor
  <2> QED BY <2>3, <2>4
<1>3. DecoderInv /\ WireInv => (IsSent(request) => DecodesWhatWasSent /\ TruncationNeverCorrupts)
  BY <1>1, <1>2
<1> QED BY <1>3, WireInvariance, DecoderInvariance, PTL

(* An input is never changed. *)
LEMMA RequestIsInput == Spec => [](request \in Inputs)
<1>1. Init => request \in Inputs
  BY DEF Init
<1>2. request \in Inputs /\ [Next]_vars => (request \in Inputs)'
  BY RequestStays
<1> QED BY <1>1, <1>2, PTL DEF Spec

(* So where all inputs that claim to come from a message do, each of them  *)
(* is decoded to what was sent,                                            *)
THEOREM SentIsDecoded == ASSUME InputsAreSent PROVE Spec => []DecodesWhatWasSent
<1>1. request \in Inputs /\ (IsSent(request) => DecodesWhatWasSent /\ TruncationNeverCorrupts)
        => DecodesWhatWasSent
  BY DEF InputsAreSent, DecodesWhatWasSent
<1> QED BY <1>1, SentDecodes, RequestIsInput, PTL

(* and none is corrupted by a lost end.                                    *)
THEOREM CutIsPartial == ASSUME InputsAreSent PROVE Spec => []TruncationNeverCorrupts
<1>1. request \in Inputs /\ (IsSent(request) => DecodesWhatWasSent /\ TruncationNeverCorrupts)
        => TruncationNeverCorrupts
  BY DEF InputsAreSent, TruncationNeverCorrupts
<1> QED BY <1>1, SentDecodes, RequestIsInput, PTL

-----------------------------------------------------------------------------
(* Sizes *)

IsLen64(f) == f = [x \in Nat |-> IF x = 0 THEN 0 ELSE 1 + f[x \div 2]]

(* A bit more for twice the number. *)
LEMMA BitsUnfold ==
  ASSUME NEW x \in Nat
  PROVE  /\ Len64[x] \in Nat
         /\ x = 0 => Len64[x] = 0
         /\ x # 0 => Len64[x] = 1 + Len64[x \div 2]
<1> DEFINE D  == Nat \ {0}
           p  == [k \in D |-> k \div 2]
           b  == [k \in Nat \ D |-> 0]
           st == [y \in D \X Nat |-> 1 + y[2]]
<1>1. IsRecursion(D, p, Nat, b, st)
  <2>1. \A k \in D : k \div 2 \in Nat /\ k \div 2 < k
    OBVIOUS
  <2>2. p \in [D -> Nat] /\ (\A k \in D : p[k] < k) /\ b \in [Nat \ D -> Nat] /\ st \in [D \X Nat -> Nat]
    BY <2>1
  <2> HIDE DEF p, b, st
  <2> QED BY <2>2 DEF IsRecursion
<1>2. PICK F \in [Nat -> Nat] : Recurs(F, Nat, D, p, b, st)
  <2> HIDE DEF D, p, b, st
  <2> QED BY <1>1, RecursionExists
<1>3. IsLen64(F)
  <2>1. ASSUME NEW k \in Nat PROVE F[k] = IF k = 0 THEN 0 ELSE 1 + F[k \div 2]
    <3>1. F[k] = IF k \in D THEN st[<<k, F[p[k]]>>] ELSE b[k]
      BY <1>2 DEF Recurs
    <3>2. CASE k # 0
      <4>1. k \in D /\ p[k] = k \div 2 /\ k \div 2 \in Nat
        BY <3>2
      <4>2. F[k \div 2] \in Nat
        BY <1>2, <4>1
      <4> QED BY <3>1, <3>2, <4>1, <4>2
    <3>3. CASE k = 0
      BY <3>1, <3>3
    <3> QED BY <3>2, <3>3
  <2>2. F = [k \in Nat |-> F[k]]
    BY <1>2
  <2> QED BY <2>1, <2>2 DEF IsLen64
<1>4. IsLen64(Len64)
  <2>1. Len64 = CHOOSE f : IsLen64(f)
    BY DEF Len64, IsLen64
  <2> QED BY <1>3, <2>1
<1>5. \A k \in Nat : Len64[k] = IF k = 0 THEN 0 ELSE 1 + Len64[k \div 2]
  BY <1>4 DEF IsLen64
<1> DEFINE G == {k \in Nat : Len64[k] \in Nat}
<1>6. ASSUME NEW k \in Nat, \A j \in 0 .. k - 1 : j \in G PROVE k \in G
  <2>1. k # 0 => k \div 2 \in 0 .. k - 1
    OBVIOUS
  <2>2. k # 0 => Len64[k \div 2] \in Nat
    BY <1>6, <2>1
  <2> QED BY <1>5, <2>2
<1> HIDE DEF G
<1>7. Nat \subseteq G
  BY <1>6, StrongInduction
<1> QED BY <1>5, <1>7 DEF G

(* Seven bits more. *)
LEMMA BitsOfByte ==
  ASSUME NEW x \in Nat
  PROVE  /\ x \in 1 .. 127 => Len64[x] \in 1 .. 7
         /\ x >= 128 => Len64[x] = 7 + Len64[x \div 128]
<1>1. \A y \in Nat : y \div 2 \in Nat /\ 2 * (y \div 2) <= y /\ y < 2 * (y \div 2) + 2
  OBVIOUS
<1>2. PICK x1, x2, x3, x4, x5, x6, x7 :
        /\ x1 = x \div 2 /\ x2 = x1 \div 2 /\ x3 = x2 \div 2 /\ x4 = x3 \div 2 /\ x5 = x4 \div 2
        /\ x6 = x5 \div 2 /\ x7 = x6 \div 2
  OBVIOUS
<1> DEFINE Halves(y, h) == h \in Nat /\ 2 * h <= y /\ y < 2 * h + 2
<1>3. Halves(x, x1) /\ Halves(x1, x2) /\ Halves(x2, x3) /\ Halves(x3, x4) /\ Halves(x4, x5)
      /\ Halves(x5, x6) /\ Halves(x6, x7)
  <2>1. Halves(x, x1)
    BY ONLY <1>1, <1>2, x \in Nat
  <2>2. Halves(x1, x2)
    BY ONLY <1>1, <1>2, <2>1
  <2>3. Halves(x2, x3)
    BY ONLY <1>1, <1>2, <2>2
  <2>4. Halves(x3, x4)
    BY ONLY <1>1, <1>2, <2>3
  <2>5. Halves(x4, x5)
    BY ONLY <1>1, <1>2, <2>4
  <2>6. Halves(x5, x6)
    BY ONLY <1>1, <1>2, <2>5
  <2>7. Halves(x6, x7)
    BY ONLY <1>1, <1>2, <2>6
  <2> QED BY <2>1, <2>2, <2>3, <2>4, <2>5, <2>6, <2>7
<1>13. x7 = x \div 128
  <2>1. 128 * x7 <= x /\ x < 128 * x7 + 128 /\ x7 \in Nat
    BY ONLY <1>3, x \in Nat
  <2>2. x \div 128 \in Nat /\ x % 128 \in 0 .. 127 /\ x = 128 * (x \div 128) + (x % 128)
    BY SevenBits
  <2> QED BY ONLY <2>1, <2>2, x \in Nat
<1>4. \A y \in Nat : Len64[y] \in Nat /\ (y = 0 => Len64[y] = 0) /\ (y # 0 => Len64[y] = 1 + Len64[y \div 2])
  BY BitsUnfold
<1>5. /\ (x = 0 => Len64[x] = 0) /\ (x # 0 => Len64[x] = 1 + Len64[x1])
      /\ (x1 = 0 => Len64[x1] = 0) /\ (x1 # 0 => Len64[x1] = 1 + Len64[x2])
      /\ (x2 = 0 => Len64[x2] = 0) /\ (x2 # 0 => Len64[x2] = 1 + Len64[x3])
      /\ (x3 = 0 => Len64[x3] = 0) /\ (x3 # 0 => Len64[x3] = 1 + Len64[x4])
      /\ (x4 = 0 => Len64[x4] = 0) /\ (x4 # 0 => Len64[x4] = 1 + Len64[x5])
      /\ (x5 = 0 => Len64[x5] = 0) /\ (x5 # 0 => Len64[x5] = 1 + Len64[x6])
      /\ (x6 = 0 => Len64[x6] = 0) /\ (x6 # 0 => Len64[x6] = 1 + Len64[x7])
      /\ (x7 = 0 => Len64[x7] = 0)
  BY <1>2, <1>3, <1>4
<1>6. /\ Len64[x] \in Nat /\ Len64[x1] \in Nat /\ Len64[x2] \in Nat /\ Len64[x3] \in Nat
      /\ Len64[x4] \in Nat /\ Len64[x5] \in Nat /\ Len64[x6] \in Nat /\ Len64[x7] \in Nat
  BY <1>3, <1>4
<1>7. x >= 128 => x1 # 0 /\ x2 # 0 /\ x3 # 0 /\ x4 # 0 /\ x5 # 0 /\ x6 # 0 /\ x # 0
  BY ONLY <1>3, x \in Nat
<1>8. x \in 1 .. 127 => x7 = 0 /\ x # 0
  BY ONLY <1>3, x \in Nat
<1>9. (x1 = 0 => x2 = 0) /\ (x2 = 0 => x3 = 0) /\ (x3 = 0 => x4 = 0) /\ (x4 = 0 => x5 = 0)
      /\ (x5 = 0 => x6 = 0) /\ (x6 = 0 => x7 = 0)
  BY ONLY <1>3
<1>10. PICK l0, l1, l2, l3, l4, l5, l6, l7 :
         /\ l0 = Len64[x] /\ l1 = Len64[x1] /\ l2 = Len64[x2] /\ l3 = Len64[x3]
         /\ l4 = Len64[x4] /\ l5 = Len64[x5] /\ l6 = Len64[x6] /\ l7 = Len64[x7]
  OBVIOUS
<1>11. /\ l0 \in Nat /\ l1 \in Nat /\ l2 \in Nat /\ l3 \in Nat /\ l4 \in Nat /\ l5 \in Nat /\ l6 \in Nat /\ l7 \in Nat
       /\ (x = 0 => l0 = 0) /\ (x # 0 => l0 = 1 + l1) /\ (x1 = 0 => l1 = 0) /\ (x1 # 0 => l1 = 1 + l2)
       /\ (x2 = 0 => l2 = 0) /\ (x2 # 0 => l2 = 1 + l3) /\ (x3 = 0 => l3 = 0) /\ (x3 # 0 => l3 = 1 + l4)
       /\ (x4 = 0 => l4 = 0) /\ (x4 # 0 => l4 = 1 + l5) /\ (x5 = 0 => l5 = 0) /\ (x5 # 0 => l5 = 1 + l6)
       /\ (x6 = 0 => l6 = 0) /\ (x6 # 0 => l6 = 1 + l7) /\ (x7 = 0 => l7 = 0)
  BY <1>5, <1>6, <1>10
<1>12. (x >= 128 => l0 = 7 + l7) /\ (x \in 1 .. 127 => l0 \in 1 .. 7)
  BY <1>7, <1>8, <1>9, <1>11
<1> QED BY <1>13, <1>10, <1>12

(* sov is the number of bytes of a varint. *)
LEMMA VarintSize == ASSUME NEW v \in Nat PROVE sov(v) = Len(VarintBytes[v]) /\ sov(v) \in Nat \ {0}
<1> DEFINE Odd(x) == IF x % 2 = 0 THEN x + 1 ELSE x
           G == {k \in Nat : sov(k) = Len(VarintBytes[k]) /\ sov(k) \in Nat \ {0}}
<1>1. ASSUME NEW k \in Nat, k # 0 PROVE Len64[Odd(k)] = Len64[k]
  <2>1. Odd(k) \in Nat /\ Odd(k) # 0 /\ Odd(k) \div 2 = k \div 2
    BY <1>1
  <2> HIDE DEF Odd
  <2> QED BY <1>1, <2>1, BitsUnfold
<1>2. ASSUME NEW k \in Nat, \A j \in 0 .. k - 1 : j \in G PROVE k \in G
  <2>1. CASE k < 128
    <3>1. Odd(k) \in 1 .. 127
      BY <2>1
    <3>2. Len64[Odd(k)] \in 1 .. 7
      <4> HIDE DEF Odd
      <4> QED BY <3>1, BitsOfByte
    <3>3. sov(k) = (Len64[Odd(k)] + 6) \div 7
      BY DEF sov
    <3> HIDE DEF Odd
    <3>4. sov(k) = 1
      BY <3>2, <3>3
    <3>5. VarintBytes[k] = <<k>>
      BY <2>1, VarintUnfold
    <3> QED BY <3>4, <3>5
  <2>2. CASE k >= 128
    <3> DEFINE h == k \div 128
               s == <<(k % 128) + 128>>
    <3>1. h \in 0 .. k - 1 /\ h # 0 /\ h \in Nat
      BY <2>2, SevenBits
    <3>2. sov(h) = Len(VarintBytes[h]) /\ sov(h) \in Nat \ {0}
      BY <1>2, <3>1
    <3>3. sov(k) = (Len64[k] + 6) \div 7 /\ sov(h) = (Len64[h] + 6) \div 7
      BY <1>1, <2>2, <3>1 DEF sov
    <3>4. Len64[k] = 7 + Len64[h] /\ Len64[h] \in Nat
      BY <2>2, <3>1, BitsOfByte, BitsUnfold
    <3>5. sov(k) = 1 + sov(h)
      <4>1. PICK l : l = Len64[h]
        OBVIOUS
      <4>2. sov(k) = ((7 + l) + 6) \div 7 /\ sov(h) = (l + 6) \div 7 /\ l \in Nat
        BY <3>3, <3>4, <4>1
      <4> QED BY <4>2
    <3>6. VarintBytes[k] = s \o VarintBytes[h] /\ VarintBytes[h] \in Seq(Byte)
      BY <2>2, <3>1, VarintUnfold
    <3>7. s \in Seq(Byte) /\ Len(s) = 1
      BY SevenBits DEF Byte
    <3>8. Len(VarintBytes[k]) = 1 + Len(VarintBytes[h])
      <4>1. PICK w, t : w = s /\ t = VarintBytes[h]
        OBVIOUS
      <4>2. Len(w \o t) = Len(w) + Len(t)
        BY <3>6, <3>7, <4>1, BytesConcat
      <4> QED BY <3>6, <3>7, <4>1, <4>2
    <3> QED BY <3>2, <3>5, <3>8
  <2> QED BY <2>1, <2>2
<1> HIDE DEF G
<1>3. Nat \subseteq G
  BY <1>2, StrongInduction
<1> QED BY <1>3 DEF G

-----------------------------------------------------------------------------
(* What is written *)

(* encodeVarint puts a varint before what is there. *)
LEMMA EncodeVarint ==
  ASSUME NEW d \in Seq(Byte), NEW v \in Nat
  PROVE  encodeVarint(d, v) = VarintBytes[v] \o d
<1> DEFINE w == VarintBytes[v]
           pad == [i \in 1 .. sov(v) |-> 0]
<1>1. w \in Seq(Byte) /\ sov(v) = Len(w) /\ sov(v) \in Nat
  BY VarintUnfold, VarintSize
<1>2. pad \in Seq(Byte) /\ Len(pad) = Len(w)
  <2>1. \A i \in 1 .. sov(v) : 0 \in Byte
    BY DEF Byte
  <2> QED BY <1>1, <2>1
<1> HIDE DEF w, pad
<1>3. PICK room : room = pad \o d
  OBVIOUS
<1>4. room \in Seq(Byte) /\ Len(room) = Len(pad) + Len(d) /\ Len(pad) \in Nat
  BY <1>2, <1>3, BytesConcat
<1>5. Starts(room, pad \o d)
  BY <1>3, <1>4, LenProperties DEF Starts
<1>6. SubSeq(room, Len(pad) + 1, Len(pad) + Len(d)) = d
  BY <1>2, <1>4, <1>5, SliceOfPart
<1>7. encodeVarint(d, v) = w \o SubSeq(room, Len(w) + 1, Len(room))
  BY <1>3 DEF encodeVarint, w, pad
<1> QED BY <1>2, <1>4, <1>6, <1>7 DEF w

(* A buffer of the right size is filled completely. *)
LEMMA MarshalExact ==
  ASSUME NEW d \in Seq(Byte)
  PROVE  Marshal(d, Len(d)) = d
<1> DEFINE pad == [i \in 1 .. Len(d) - Len(d) |-> 0]
<1>1. Len(d) \in Nat
  BY LenProperties
<1>2. pad = <<>>
  <2>1. 1 .. Len(d) - Len(d) = {}
    BY <1>1
  <2> QED BY <2>1
<1>3. ~(Len(d) < Len(d))
  BY <1>1
<1>4. Marshal(d, Len(d)) = SubSeq(pad \o d, 1, Len(d))
  BY <1>3 DEF Marshal
<1> HIDE DEF pad
<1>5. pad \o d = d /\ SubSeq(d, 1, Len(d)) = d
  BY <1>2
<1> QED BY <1>4, <1>5

(* A string, or a message, with its length and its tag. *)
LEMMA TaggedBytes ==
  ASSUME NEW tag \in Byte, NEW s \in Seq(Byte), NEW d \in Seq(Byte)
  PROVE  LET r == PutTag(tag, encodeVarint(s \o d, Len(s)))
         IN  /\ r = <<tag>> \o (VarintBytes[Len(s)] \o (s \o d))
             /\ r \in Seq(Byte) /\ Len(r) = SizeBytes(Len(s)) + Len(d)
             /\ Len(s) \in Nat /\ Len(d) \in Nat /\ Len(s) <= Len(r) /\ Len(d) <= Len(r)
<1>1. PICK w, e, f, g, r : /\ w = VarintBytes[Len(s)] /\ e = s \o d /\ f = w \o e /\ g = <<tag>>
                           /\ r = g \o f
  OBVIOUS
<1>2. Len(s) \in Nat /\ Len(d) \in Nat /\ e \in Seq(Byte) /\ Len(e) = Len(s) + Len(d)
  BY <1>1, BytesConcat
<1>3. w \in Seq(Byte) /\ Len(w) = sov(Len(s)) /\ sov(Len(s)) \in Nat
  BY <1>1, <1>2, VarintUnfold, VarintSize
<1>4. f \in Seq(Byte) /\ Len(f) = Len(w) + Len(e)
  BY <1>1, <1>2, <1>3, BytesConcat
<1>5. g \in Seq(Byte) /\ Len(g) = 1
  BY <1>1
<1>6. r \in Seq(Byte) /\ Len(r) = 1 + Len(f)
  BY <1>1, <1>4, <1>5, BytesConcat
<1>7. PutTag(tag, encodeVarint(e, Len(s))) = r
  BY <1>1, <1>2, EncodeVarint DEF PutTag
<1>8. Len(r) = SizeBytes(Len(s)) + Len(d) /\ Len(s) <= Len(r) /\ Len(d) <= Len(r)
  BY <1>2, <1>3, <1>4, <1>6 DEF SizeBytes
<1> QED BY <1>1, <1>2, <1>6, <1>7, <1>8

(* A string is left out when it is empty, *)
LEMMA StringWritten ==
  ASSUME NEW tag \in Byte, NEW s \in Seq(Byte), NEW d \in Seq(Byte)
  PROVE  LET r == PutString(tag, s, d)
         IN  /\ s = <<>> => r = d
             /\ s # <<>> => r = <<tag>> \o (VarintBytes[Len(s)] \o (s \o d))
             /\ r \in Seq(Byte) /\ Len(r) = SizeString(s) + Len(d)
             /\ Len(s) \in Nat /\ Len(d) \in Nat /\ Len(s) <= Len(r) /\ Len(d) <= Len(r)
<1>1. CASE s = <<>>
  <2>1. Len(d) \in Nat /\ Len(s) = 0
    BY <1>1, LenProperties
  <2> QED BY <1>1, <2>1 DEF PutString, SizeString
<1>2. CASE s # <<>>
  <2>1. PutString(tag, s, d) = PutTag(tag, encodeVarint(s \o d, Len(s))) /\ SizeString(s) = SizeBytes(Len(s))
    BY <1>2 DEF PutString, SizeString
  <2>2. PICK r : r = PutTag(tag, encodeVarint(s \o d, Len(s)))
    OBVIOUS
  <2>3. /\ r = <<tag>> \o (VarintBytes[Len(s)] \o (s \o d))
        /\ r \in Seq(Byte) /\ Len(r) = SizeBytes(Len(s)) + Len(d)
        /\ Len(s) \in Nat /\ Len(d) \in Nat /\ Len(s) <= Len(r) /\ Len(d) <= Len(r)
    BY <2>2, TaggedBytes
  <2> QED BY <1>2, <2>1, <2>2, <2>3
<1> QED BY <1>1, <1>2

(* a message is always written, *)
LEMMA MessageWritten ==
  ASSUME NEW tag \in Byte, NEW s \in Seq(Byte), NEW d \in Seq(Byte)
  PROVE  LET r == PutMessage(tag, s, d)
         IN  /\ r = <<tag>> \o (VarintBytes[Len(s)] \o (s \o d))
             /\ r \in Seq(Byte) /\ Len(r) = SizeMessage(Len(s)) + Len(d)
             /\ Len(s) \in Nat /\ Len(d) \in Nat /\ Len(s) <= Len(r) /\ Len(d) <= Len(r)
BY TaggedBytes DEF PutMessage, SizeMessage

(* a number is left out when it is 0, *)
LEMMA UintWritten ==
  ASSUME NEW tag \in Byte, NEW v \in Nat, NEW d \in Seq(Byte)
  PROVE  LET r == PutUint(tag, v, d)
         IN  /\ v = 0 => r = d
             /\ v # 0 => r = <<tag>> \o (VarintBytes[v] \o d)
             /\ r \in Seq(Byte) /\ Len(r) = SizeUint(v) + Len(d)
             /\ Len(d) \in Nat /\ Len(d) <= Len(r)
<1>1. Len(d) \in Nat
  BY LenProperties
<1>2. CASE v = 0
  BY <1>1, <1>2 DEF PutUint, SizeUint
<1>3. CASE v # 0
  <2>1. PICK w, f, g, r : w = VarintBytes[v] /\ f = w \o d /\ g = <<tag>> /\ r = g \o f
    OBVIOUS
  <2>2. w \in Seq(Byte) /\ Len(w) = sov(v) /\ sov(v) \in Nat
    BY <2>1, VarintUnfold, VarintSize
  <2>3. f \in Seq(Byte) /\ Len(f) = Len(w) + Len(d) /\ g \in Seq(Byte) /\ Len(g) = 1
    BY <2>1, <2>2, BytesConcat
  <2>4. r \in Seq(Byte) /\ Len(r) = 1 + Len(f)
    BY <2>1, <2>3, BytesConcat
  <2>5. PutUint(tag, v, d) = r /\ SizeUint(v) = 1 + sov(v)
    BY <1>3, <2>1, EncodeVarint DEF PutUint, PutTag, SizeUint
  <2>6. Len(r) = SizeUint(v) + Len(d) /\ Len(d) <= Len(r)
    BY <1>1, <2>2, <2>3, <2>4, <2>5
  <2> QED BY <1>1, <1>3, <2>1, <2>4, <2>5, <2>6
<1> QED BY <1>2, <1>3

(* and a flag when it is FALSE. *)
LEMMA BoolWritten ==
  ASSUME NEW tag \in Byte, NEW d \in Seq(Byte)
  PROVE  /\ PutBool(tag, FALSE, d) = d /\ SizeBool(FALSE) = 0
         /\ PutBool(tag, TRUE, d) = <<tag>> \o (VarintBytes[1] \o d) /\ SizeBool(TRUE) = 2
         /\ PutBool(tag, TRUE, d) \in Seq(Byte) /\ Len(PutBool(tag, TRUE, d)) = 2 + Len(d)
         /\ Len(d) \in Nat
<1>1. VarintBytes[1] = <<1>> /\ 1 \in Byte
  <2>1. \A v \in Nat : v < 128 => VarintBytes[v] = <<v>>
    BY VarintUnfold
  <2> QED BY <2>1 DEF Byte
<1>2. PICK w, f, g, r : w = <<1>> /\ f = w \o d /\ g = <<tag>> /\ r = g \o f
  OBVIOUS
<1>3. w \in Seq(Byte) /\ Len(w) = 1 /\ g \in Seq(Byte) /\ Len(g) = 1
  BY <1>1, <1>2
<1>4. f \in Seq(Byte) /\ Len(f) = 1 + Len(d) /\ Len(d) \in Nat
  BY <1>2, <1>3, BytesConcat
<1>5. r \in Seq(Byte) /\ Len(r) = 2 + Len(d)
  <2>1. r \in Seq(Byte) /\ Len(r) = 1 + Len(f)
    BY <1>2, <1>3, <1>4, BytesConcat
  <2> QED BY <1>4, <2>1
<1>6. PutBool(tag, TRUE, d) = r
  BY <1>2 DEF PutBool, PutTag
<1> QED BY <1>1, <1>2, <1>4, <1>5, <1>6 DEF PutBool, SizeBool

-----------------------------------------------------------------------------
(* What is written is what stands for the message *)

(* The bytes s take a message of type t from the value from to the value   *)
(* to, by way of parts of to only.                                         *)
Part(t, from, s, to) == [type |-> t, from |-> from, bytes |-> s, to |-> to]

Reads(t, from, s, to) ==
  \E P, R :
    /\ Closed(P, P, {}) /\ Closed(P, R, {})
    /\ Part(t, from, s, to) \in R
    /\ \A x \in R : x.type = t /\ x.to = to /\ Partial(t, to, x.from)

(* More parts do no harm. *)
LEMMA HoldsInMore ==
  ASSUME NEW P, NEW Q, P \subseteq Q, NEW t, NEW m, NEW c, NEW v, NEW tail, NEW y,
         Holds(P, t, m, c, v, tail, y)
  PROVE  Holds(Q, t, m, c, v, tail, y)
<1> DEFINE A == c.wireType # 2 /\ tail = y.bytes
                /\ y.from = Put(t, m, c.name, IF c.kind = "bool" THEN v # 0 ELSE v % 2 ^ UintBits)
           B == /\ c.wireType = 2 /\ c.kind \in {"string", "int"}
                /\ \E s \in Seq(Byte) :
                     /\ v = Len(s) /\ tail = s \o y.bytes
                     /\ c.kind = "int" => s \in Seq(48 .. 57)
                     /\ y.from = Put(t, m, c.name, IF c.kind = "int" /\ s = <<>> THEN m[c.name] ELSE s)
           H == c.wireType = 2 /\ c.kind \in {"message", "repeated"}
           Z(z) == /\ z.type = c.of
                   /\ z.from = IF c.kind = "repeated" THEN Zero[c.of] ELSE m[c.name]
                   /\ v = Len(z.bytes) /\ tail = z.bytes \o y.bytes
                   /\ y.from = Put(t, m, c.name, z.to)
<1>1. A \/ B \/ (H /\ \E z \in P : Z(z))
  BY DEF Holds
<1>2. A \/ B \/ (H /\ \E z \in Q : Z(z))
  <2> HIDE DEF A, B, H, Z
  <2> QED BY <1>1
<1> QED BY <1>2 DEF Holds

(* A field remains one, *)
LEMMA FieldInMore ==
  ASSUME NEW P, NEW Q, P \subseteq Q, NEW R, NEW S, R \subseteq S, NEW U,
         NEW x, NEW tag, NEW rest, Field(P, R, U, x, tag, rest)
  PROVE  Field(Q, S, U, x, tag, rest)
<1> DEFINE n == tag \div 8
           K(T, y) == /\ tag % 8 = Unmarshal[x.type][n].wireType
                      /\ \E v \in Word, tail \in Seq(Byte) :
                           /\ rest = VarintBytes[v] \o tail
                           /\ Holds(T, x.type, x.from, Unmarshal[x.type][n], v, tail, y)
           O(y) == /\ y.from = x.from
                   /\ \E u \in U : u.depth = 0 /\ x.bytes = u.bytes \o y.bytes
           A(y) == y.type = x.type /\ y.to = x.to
<1>1. n \in FieldNumbers /\ tag % 8 # 4
  BY DEF Field
<1>2. PICK y \in R : A(y) /\ IF n \in DOMAIN Unmarshal[x.type] THEN K(P, y) ELSE O(y)
  BY Zenon DEF Field
<1>3. K(P, y) => K(Q, y)
  BY HoldsInMore
<1>4. y \in S /\ A(y) /\ IF n \in DOMAIN Unmarshal[x.type] THEN K(Q, y) ELSE O(y)
  <2> HIDE DEF A, K, O
  <2> QED BY <1>2, <1>3
<1> QED BY <1>1, <1>4, Zenon DEF Field

(* every part of the set starts with a field of the larger set, *)
LEMMA ClosedInMore ==
  ASSUME NEW P, NEW Q, P \subseteq Q, NEW R, NEW S, R \subseteq S, NEW U, Closed(P, R, U)
  PROVE  \A x \in R :
           /\ x.bytes \in Seq(Byte)
           /\ \/ x.bytes = <<>> /\ x.to = x.from
              \/ \E tag \in Word, rest \in Seq(Byte) :
                   x.bytes = VarintBytes[tag] \o rest /\ Field(Q, S, U, x, tag, rest)
<1> SUFFICES ASSUME NEW x \in R
             PROVE  /\ x.bytes \in Seq(Byte)
                    /\ \/ x.bytes = <<>> /\ x.to = x.from
                       \/ \E tag \in Word, rest \in Seq(Byte) :
                            x.bytes = VarintBytes[tag] \o rest /\ Field(Q, S, U, x, tag, rest)
  OBVIOUS
<1>1. x.bytes \in Seq(Byte) /\ (x.bytes = <<>> => x.to = x.from)
      /\ (x.bytes # <<>> => \E tag \in Word, rest \in Seq(Byte) :
                               x.bytes = VarintBytes[tag] \o rest /\ Field(P, R, U, x, tag, rest))
  BY PartCases
<1>2. \A tag, rest : Field(P, R, U, x, tag, rest) => Field(Q, S, U, x, tag, rest)
  BY FieldInMore
<1> QED BY <1>1, <1>2

(* and the parts of a message join those of the messages in it. *)
LEMMA ClosedUnion ==
  ASSUME NEW P, NEW Q, P \subseteq Q, NEW R, Closed(P, R, {}), NEW O, NEW S, O \subseteq Q, Closed(O, S, {})
  PROVE  Closed(Q, R \cup S, {})
<1>1. \A x \in R :
           /\ x.bytes \in Seq(Byte)
           /\ \/ x.bytes = <<>> /\ x.to = x.from
              \/ \E tag \in Word, rest \in Seq(Byte) :
                   x.bytes = VarintBytes[tag] \o rest /\ Field(Q, R \cup S, {}, x, tag, rest)
  <2>1. R \subseteq R \cup S
    OBVIOUS
  <2> QED BY <2>1, ClosedInMore
<1>2. \A x \in S :
           /\ x.bytes \in Seq(Byte)
           /\ \/ x.bytes = <<>> /\ x.to = x.from
              \/ \E tag \in Word, rest \in Seq(Byte) :
                   x.bytes = VarintBytes[tag] \o rest /\ Field(Q, R \cup S, {}, x, tag, rest)
  <2>1. S \subseteq R \cup S
    OBVIOUS
  <2> QED BY <2>1, ClosedInMore
<1> QED BY <1>1, <1>2, Zenon DEF Closed

(* The tags of the messages have one byte. *)
LEMMA SmallTags ==
  ASSUME NEW n \in 1 .. 3, NEW w \in 0 .. 2
  PROVE  LET tag == 8 * n + w
         IN  /\ tag \in Word /\ tag \in Byte /\ VarintBytes[tag] = <<tag>>
             /\ tag % 8 = w /\ tag \div 8 = n /\ n \in FieldNumbers
<1>1. 2 ^ 3 = 8 /\ 2 ^ 5 = 32
  <2>1. 2 ^ (0 + 1) = 2 ^ 0 + 2 ^ 0 /\ 2 ^ (1 + 1) = 2 ^ 1 + 2 ^ 1 /\ 2 ^ (2 + 1) = 2 ^ 2 + 2 ^ 2
        /\ 2 ^ (3 + 1) = 2 ^ 3 + 2 ^ 3 /\ 2 ^ (4 + 1) = 2 ^ 4 + 2 ^ 4
    BY PowerDouble
  <2>2. 0 + 1 = 1 /\ 1 + 1 = 2 /\ 2 + 1 = 3 /\ 3 + 1 = 4 /\ 4 + 1 = 5
    OBVIOUS
  <2> QED BY <2>1, <2>2, PowerZero
<1>2. 2 ^ 5 <= 2 ^ WordBits /\ 2 ^ 3 <= 2 ^ (FieldBits - 1)
  <2>1. WordBits \in Nat /\ 5 <= WordBits /\ FieldBits - 1 \in Nat /\ 3 <= FieldBits - 1
    BY WidthAssumption
  <2> QED BY <2>1, PowerMonotonic
<1>3. 2 ^ WordBits \in Nat /\ 2 ^ (FieldBits - 1) \in Nat
  <2>1. WordBits \in Nat /\ FieldBits - 1 \in Nat
    BY WidthAssumption
  <2> QED BY <2>1, PowerType
<1>4. PICK a, b, tag : a = 2 ^ WordBits /\ b = 2 ^ (FieldBits - 1) /\ tag = 8 * n + w
  OBVIOUS
<1>5. a \in Nat /\ b \in Nat /\ 32 <= a /\ 8 <= b
  BY <1>1, <1>2, <1>3, <1>4
<1>6. tag \in 0 .. a - 1 /\ tag \in 0 .. 127 /\ n \in 1 .. b - 1 /\ tag % 8 = w /\ tag \div 8 = n
  BY <1>4, <1>5
<1>7. VarintBytes[tag] = <<tag>>
  <2>1. tag \in Nat /\ tag < 128
    BY <1>6
  <2> QED BY <2>1, VarintUnfold
<1>8. tag \in Word /\ tag \in Byte /\ n \in FieldNumbers
  BY <1>4, <1>6 DEF Word, Byte, FieldNumbers
<1> QED BY <1>4, <1>6, <1>7, <1>8

(* A field before the others. *)
LEMMA FieldFirst ==
  ASSUME NEW t, NEW n \in 1 .. 3, n \in DOMAIN Unmarshal[t], NEW c, c = Unmarshal[t][n],
         c.wireType \in {0, 2}, NEW tag, tag = 8 * n + c.wireType,
         NEW v \in Word, NEW tail \in Seq(Byte), NEW from, NEW b, NEW d, NEW to,
         Partial(t, to, from), Reads(t, b, d, to),
         NEW O, Closed(O, O, {}), Holds(O, t, from, c, v, tail, Part(t, b, d, to))
  PROVE  Reads(t, from, <<tag>> \o (VarintBytes[v] \o tail), to)
<1>1. PICK P, R : /\ Closed(P, P, {}) /\ Closed(P, R, {})
                  /\ Part(t, b, d, to) \in R
                  /\ \A x \in R : x.type = t /\ x.to = to /\ Partial(t, to, x.from)
  BY DEF Reads
<1>2. PICK rest : rest = VarintBytes[v] \o tail
  OBVIOUS
<1>3. rest \in Seq(Byte)
  <2>1. v \in Nat
    BY WidthFacts DEF Word, Words
  <2>2. VarintBytes[v] \in Seq(Byte)
    BY <2>1, VarintUnfold
  <2> QED BY <1>2, <2>2, BytesConcat
<1>4. tag \in Word /\ tag \in Byte /\ VarintBytes[tag] = <<tag>> /\ tag % 8 = c.wireType
      /\ tag \div 8 = n /\ n \in FieldNumbers
  <2>1. PICK w \in 0 .. 2 : w = c.wireType
    OBVIOUS
  <2>2. tag = 8 * n + w
    BY <2>1
  <2>3. /\ tag \in Word /\ tag \in Byte /\ VarintBytes[tag] = <<tag>>
        /\ tag % 8 = w /\ tag \div 8 = n /\ n \in FieldNumbers
    BY ONLY n \in 1 .. 3, w \in 0 .. 2, <2>2, SmallTags
  <2> QED BY ONLY <2>1, <2>3
<1>5. PICK x, y : x = Part(t, from, <<tag>> \o rest, to) /\ y = Part(t, b, d, to)
  OBVIOUS
<1>6. x.type = t /\ x.to = to /\ x.from = from /\ x.bytes = VarintBytes[tag] \o rest
      /\ y.type = t /\ y.to = to
  BY <1>4, <1>5 DEF Part
<1>7. x.bytes \in Seq(Byte)
  <2>1. <<tag>> \in Seq(Byte)
    BY <1>4
  <2> QED BY <1>3, <1>4, <1>6, <2>1, BytesConcat
<1> DEFINE Q == P \cup O
           S == R \cup {x}
<1>8. Closed(Q, Q, {}) /\ Closed(Q, R \cup {}, {})
  <2>1. P \subseteq Q /\ O \subseteq Q
    OBVIOUS
  <2>2. Closed(O, {}, {})
    BY DEF Closed
  <2> QED BY <1>1, <2>1, <2>2, ClosedUnion
<1>9. Field(Q, S, {}, x, tag, rest)
  <2>1. Holds(Q, t, from, c, v, tail, y)
    BY <1>5, HoldsInMore
  <2>2. y \in S
    BY <1>1, <1>5
  <2>3. tag % 8 # 4
    BY <1>4
  <2> HIDE DEF Q, S
  <2> QED BY <1>2, <1>4, <1>6, <2>1, <2>2, <2>3 DEF Field
<1>10. Closed(Q, S, {})
  <2>1. R \subseteq S /\ Closed(Q, R, {})
    BY <1>8
  <2> HIDE DEF Q
  <2>2. \A z \in R :
           /\ z.bytes \in Seq(Byte)
           /\ \/ z.bytes = <<>> /\ z.to = z.from
              \/ \E k \in Word, s \in Seq(Byte) :
                   z.bytes = VarintBytes[k] \o s /\ Field(Q, S, {}, z, k, s)
    BY <2>1, ClosedInMore
  <2>3. \E k \in Word, s \in Seq(Byte) :
                   x.bytes = VarintBytes[k] \o s /\ Field(Q, S, {}, x, k, s)
    BY <1>3, <1>4, <1>6, <1>9
  <2> QED BY <1>7, <2>2, <2>3, Zenon DEF Closed
<1>11. \A z \in S : z.type = t /\ z.to = to /\ Partial(t, to, z.from)
  BY <1>1, <1>6
<1>12. Part(t, from, <<tag>> \o rest, to) \in S
  BY <1>5
<1> HIDE DEF Q, S
<1> QED BY <1>2, <1>8, <1>10, <1>11, <1>12 DEF Reads

(* Nothing is left. *)
LEMMA NothingLeft ==
  ASSUME NEW t, NEW to
  PROVE  Reads(t, to, <<>>, to)
<1> DEFINE x == Part(t, to, <<>>, to)
<1>1. Closed({}, {}, {})
  BY DEF Closed
<1>2. x.type = t /\ x.to = to /\ x.from = to /\ x.bytes = <<>>
  BY DEF Part
<1>3. Closed({}, {x}, {})
  <2>1. <<>> \in Seq(Byte)
    OBVIOUS
  <2> HIDE DEF x
  <2> QED BY <1>2, <2>1 DEF Closed
<1>4. Partial(t, to, to)
  BY DEF Partial
<1>5. x \in {x} /\ \A z \in {x} : z.type = t /\ z.to = to /\ Partial(t, to, z.from)
  BY <1>2, <1>4
<1> QED BY <1>1, <1>3, <1>5 DEF Reads

(* A string, *)
LEMMA StringReads ==
  ASSUME NEW t, NEW n \in 1 .. 3, n \in DOMAIN Unmarshal[t], NEW name, Unmarshal[t][n] = String(name),
         NEW tag, tag = 8 * n + 2, NEW s \in Seq(Byte), Len(s) \in Word, NEW d \in Seq(Byte),
         NEW from, NEW b, NEW to, b = Put(t, from, name, s), s = <<>> => b = from,
         Partial(t, to, from), Reads(t, b, d, to)
  PROVE  Reads(t, from, PutString(tag, s, d), to)
<1>1. tag \in Byte
  BY DEF Byte
<1>2. CASE s = <<>>
  <2>1. PutString(tag, s, d) = d
    BY <1>2 DEF PutString
  <2> QED BY <1>2, <2>1
<1>3. CASE s # <<>>
  <2>1. PutString(tag, s, d) = <<tag>> \o (VarintBytes[Len(s)] \o (s \o d))
    BY <1>1, <1>3, StringWritten
  <2>2. PICK c, y, tail, v : c = Unmarshal[t][n] /\ y = Part(t, b, d, to) /\ tail = s \o d /\ v = Len(s)
    OBVIOUS
  <2>3. c.wireType = 2 /\ c.kind = "string" /\ c.name = name
    <3>1. c = String(name)
      BY <2>2
    <3> QED BY <3>1 DEF String
  <2>4. y.bytes = d /\ y.from = b
    BY <2>2 DEF Part
  <2>5. Holds({}, t, from, c, v, tail, y)
    BY <2>2, <2>3, <2>4 DEF Holds
  <2>6. Closed({}, {}, {}) /\ tail \in Seq(Byte) /\ v \in Word
    BY <2>2, BytesConcat DEF Closed
  <2>7. Reads(t, from, <<tag>> \o (VarintBytes[v] \o tail), to)
    BY <2>2, <2>3, <2>5, <2>6, FieldFirst
  <2> QED BY <2>1, <2>2, <2>7
<1> QED BY <1>2, <1>3

(* an amount, *)
LEMMA AmountReads ==
  ASSUME NEW t, NEW n \in 1 .. 3, n \in DOMAIN Unmarshal[t], NEW name, Unmarshal[t][n] = Amount(name),
         NEW tag, tag = 8 * n + 2, NEW s \in Seq(48 .. 57), s # <<>>, Len(s) \in Word,
         NEW from, NEW to, to = Put(t, from, name, s), Partial(t, to, from)
  PROVE  Reads(t, from, PutTag(tag, encodeVarint(s, Len(s))), to)
<1>1. tag \in Byte /\ s \in Seq(Byte) /\ <<>> \in Seq(Byte) /\ s \o <<>> = s
  BY DEF Byte
<1>2. PutTag(tag, encodeVarint(s, Len(s))) = <<tag>> \o (VarintBytes[Len(s)] \o s)
  <2>1. PICK d : d = <<>>
    OBVIOUS
  <2>2. d \in Seq(Byte) /\ s \o d = s
    BY <1>1, <2>1
  <2>3. PutTag(tag, encodeVarint(s \o d, Len(s))) = <<tag>> \o (VarintBytes[Len(s)] \o (s \o d))
    BY <1>1, <2>2, TaggedBytes
  <2> QED BY <2>2, <2>3
<1>3. PICK c, y, v : c = Unmarshal[t][n] /\ y = Part(t, to, <<>>, to) /\ v = Len(s)
  OBVIOUS
<1>4. c.wireType = 2 /\ c.kind = "int" /\ c.name = name
  <2>1. c = Amount(name)
    BY <1>3
  <2> QED BY <2>1 DEF Amount
<1>5. y.bytes = <<>> /\ y.from = to
  BY <1>3 DEF Part
<1>6. Holds({}, t, from, c, v, s, y)
  BY <1>1, <1>3, <1>4, <1>5 DEF Holds
<1>7. Closed({}, {}, {})
  BY DEF Closed
<1>8. Reads(t, from, <<tag>> \o (VarintBytes[v] \o s), to)
  BY <1>1, <1>3, <1>4, <1>6, <1>7, FieldFirst, NothingLeft
<1> QED BY <1>2, <1>3, <1>8

(* a number, *)
LEMMA UintReads ==
  ASSUME NEW t, NEW n \in 1 .. 3, n \in DOMAIN Unmarshal[t], NEW name, Unmarshal[t][n] = Uint32(name),
         NEW tag, tag = 8 * n, NEW v \in 0 .. 2 ^ UintBits - 1, NEW d \in Seq(Byte),
         NEW from, NEW b, NEW to, b = Put(t, from, name, v), v = 0 => b = from,
         Partial(t, to, from), Reads(t, b, d, to)
  PROVE  Reads(t, from, PutUint(tag, v, d), to)
<1>1. tag \in Byte
  BY DEF Byte
<1>2. 2 ^ UintBits \in Nat \ {0} /\ 2 ^ UintBits <= 2 ^ WordBits /\ 2 ^ WordBits \in Nat
  <2>1. UintBits \in Nat /\ WordBits \in Nat /\ UintBits <= WordBits
    BY WidthAssumption
  <2> QED BY <2>1, PowerType, PowerMonotonic
<1>3. v \in Nat /\ v \in Word /\ v % 2 ^ UintBits = v
  <2>1. PICK k, w : k = 2 ^ UintBits /\ w = 2 ^ WordBits
    OBVIOUS
  <2>2. k \in Nat \ {0} /\ k <= w /\ v \in 0 .. k - 1 /\ w \in Nat
    BY <1>2, <2>1
  <2>3. v \in Nat /\ v \in 0 .. w - 1 /\ 0 <= v /\ v < k
    BY ONLY <2>2
  <2>4. v % k = v
    <3>1. v \in Int /\ k \in Nat \ {0}
      BY <2>2, <2>3
    <3> QED BY ONLY <2>3, <3>1, Remainder
  <2> QED BY <2>1, <2>3, <2>4 DEF Word
<1>4. CASE v = 0
  <2>1. PutUint(tag, v, d) = d
    BY <1>4 DEF PutUint
  <2> QED BY <1>4, <2>1
<1>5. CASE v # 0
  <2>1. PutUint(tag, v, d) = <<tag>> \o (VarintBytes[v] \o d)
    BY <1>1, <1>3, <1>5, UintWritten
  <2>2. PICK c, y : c = Unmarshal[t][n] /\ y = Part(t, b, d, to)
    OBVIOUS
  <2>3. c.wireType = 0 /\ c.kind = "uint32" /\ c.name = name
    <3>1. c = Uint32(name)
      BY <2>2
    <3> QED BY <3>1 DEF Uint32
  <2>4. y.bytes = d /\ y.from = b
    BY <2>2 DEF Part
  <2>5. Holds({}, t, from, c, v, d, y)
    BY <1>3, <2>2, <2>3, <2>4 DEF Holds
  <2>6. Closed({}, {}, {})
    BY DEF Closed
  <2>7. tag = 8 * n + c.wireType
    BY <2>3
  <2>8. Reads(t, from, <<tag>> \o (VarintBytes[v] \o d), to)
    BY <1>3, <2>2, <2>3, <2>5, <2>6, <2>7, FieldFirst
  <2> QED BY <2>1, <2>8
<1> QED BY <1>4, <1>5

(* a flag, *)
LEMMA BoolReads ==
  ASSUME NEW t, NEW n \in 1 .. 3, n \in DOMAIN Unmarshal[t], NEW name, Unmarshal[t][n] = Bool(name),
         NEW tag, tag = 8 * n, NEW from, NEW to, to = Put(t, from, name, TRUE), Partial(t, to, from)
  PROVE  Reads(t, from, PutBool(tag, TRUE, <<>>), to)
<1>1. tag \in Byte
  BY DEF Byte
<1>2. PICK c, y, d, v : c = Unmarshal[t][n] /\ y = Part(t, to, <<>>, to) /\ d = <<>> /\ v = 1
  OBVIOUS
<1>3. d \in Seq(Byte)
  BY <1>2
<1>4. PutBool(tag, TRUE, d) = <<tag>> \o (VarintBytes[v] \o d)
  BY <1>1, <1>2, <1>3, BoolWritten
<1>5. c.wireType = 0 /\ c.kind = "bool" /\ c.name = name
  <2>1. c = Bool(name)
    BY <1>2
  <2> QED BY <2>1 DEF Bool
<1>6. y.bytes = d /\ y.from = to
  BY <1>2 DEF Part
<1>7. Holds({}, t, from, c, v, d, y)
  <2>1. (v # 0) = TRUE
    BY <1>2
  <2>2. (IF c.kind = "bool" THEN v # 0 ELSE v % 2 ^ UintBits) = TRUE
    BY <1>5, <2>1, Zenon
  <2>3. y.from = Put(t, from, c.name, IF c.kind = "bool" THEN v # 0 ELSE v % 2 ^ UintBits)
    BY <1>5, <1>6, <2>2, Zenon
  <2>4. c.wireType # 2 /\ d = y.bytes
    BY <1>5, <1>6
  <2> QED BY <2>3, <2>4, Zenon DEF Holds
<1>8. Closed({}, {}, {})
  BY DEF Closed
<1>9. v \in Word
  <2>1. 1 < Words /\ Words \in Nat
    BY EightFits, WidthFacts
  <2> QED BY <1>2, <2>1 DEF Word, Words
<1>10. tag = 8 * n + c.wireType
  BY <1>5
<1>11. Reads(t, from, <<tag>> \o (VarintBytes[v] \o d), to)
  BY <1>2, <1>3, <1>5, <1>7, <1>8, <1>9, <1>10, FieldFirst, NothingLeft
<1> QED BY <1>2, <1>4, <1>11

(* a message, or an element of a list of messages. *)
LEMMA MessageReads ==
  ASSUME NEW t, NEW n \in 1 .. 3, n \in DOMAIN Unmarshal[t], NEW name, NEW of, NEW from, NEW start,
         \/ Unmarshal[t][n] = Message(name, of) /\ start = from[name]
         \/ Unmarshal[t][n] = Repeated(name, of) /\ start = Zero[of],
         NEW tag, tag = 8 * n + 2, NEW s \in Seq(Byte), Len(s) \in Word, NEW d \in Seq(Byte),
         NEW val, Reads(of, start, s, val),
         NEW b, NEW to, b = Put(t, from, name, val), Partial(t, to, from), Reads(t, b, d, to)
  PROVE  Reads(t, from, PutMessage(tag, s, d), to)
<1>1. tag \in Byte
  BY DEF Byte
<1>2. PutMessage(tag, s, d) = <<tag>> \o (VarintBytes[Len(s)] \o (s \o d))
  BY <1>1, MessageWritten
<1>3. PICK c, y, z, tail, v : c = Unmarshal[t][n] /\ y = Part(t, b, d, to) /\ z = Part(of, start, s, val)
                              /\ tail = s \o d /\ v = Len(s)
  OBVIOUS
<1>4. /\ c.wireType = 2 /\ c.kind \in {"message", "repeated"} /\ c.name = name /\ c.of = of
      /\ start = IF c.kind = "repeated" THEN Zero[of] ELSE from[name]
  <2>1. CASE Unmarshal[t][n] = Message(name, of) /\ start = from[name]
    <3>1. c = Message(name, of)
      BY <1>3, <2>1
    <3> QED BY <2>1, <3>1 DEF Message
  <2>2. CASE Unmarshal[t][n] = Repeated(name, of) /\ start = Zero[of]
    <3>1. c = Repeated(name, of)
      BY <1>3, <2>2
    <3> QED BY <2>2, <3>1 DEF Repeated
  <2> QED BY <2>1, <2>2
<1>5. y.bytes = d /\ y.from = b /\ z.type = of /\ z.from = start /\ z.bytes = s /\ z.to = val
  BY <1>3 DEF Part
<1>6. PICK P, R : Closed(P, P, {}) /\ Closed(P, R, {}) /\ z \in R
  BY <1>3 DEF Reads
<1> DEFINE O == P \cup R
<1>7. Closed(O, O, {})
  <2>1. P \subseteq O
    OBVIOUS
  <2> QED BY <1>6, <2>1, ClosedUnion
<1>8. Holds(O, t, from, c, v, tail, y)
  <2>1. z \in O
    BY <1>6
  <2> HIDE DEF O
  <2> QED BY <1>3, <1>4, <1>5, <2>1 DEF Holds
<1>9. tail \in Seq(Byte) /\ v \in Word
  BY <1>3, BytesConcat
<1> HIDE DEF O
<1>10. Reads(t, from, <<tag>> \o (VarintBytes[v] \o tail), to)
  BY <1>3, <1>4, <1>7, <1>8, <1>9, FieldFirst
<1> QED BY <1>2, <1>3, <1>10

-----------------------------------------------------------------------------
(* Every message *)

(* s is what Marshal writes for m, in a buffer that has the size it asks   *)
(* for, and stands for m.                                                  *)
Written(t, m, s, size) ==
  /\ s \in Seq(Byte) /\ Len(s) = size
  /\ Len(s) < Half => Reads(t, Zero[t], s, m)

(* The tags as the generated code writes them. *)
LEMMA HexTags == \h08 = 8 /\ \h0a = 10 /\ \h10 = 16 /\ \h12 = 18 /\ \h18 = 24 /\ \h1a = 26
OBVIOUS

(* A length that is an int is a varint of a word. *)
LEMMA ShortLength == ASSUME NEW n \in Nat, n < Half PROVE n \in Word
BY WidthFacts DEF Word, Words

(* Only one message has a list. *)
LEMMA PutPlain ==
  ASSUME NEW t, NEW m, NEW name, NEW v, ~Appends(t, name)
  PROVE  Put(t, m, name, v) = [m EXCEPT ![name] = v]
BY DEF Put

(* No other kind of field is a list, *)
LEMMA Plain ==
  ASSUME NEW name, NEW of
  PROVE  /\ String(name).kind # "repeated" /\ Amount(name).kind # "repeated" /\ Bool(name).kind # "repeated"
         /\ Uint32(name).kind # "repeated" /\ Message(name, of).kind # "repeated"
BY DEF String, Amount, Bool, Uint32, Message

(* so a message of up to three such fields has none that grows. *)
LEMMA PlainCases ==
  ASSUME NEW t, NEW a, a.kind # "repeated", NEW b, b.kind # "repeated", NEW c, c.kind # "repeated",
         Unmarshal[t] \in {<<>>, <<a>>, <<a, b>>, <<a, b, c>>}
  PROVE  \A name : ~Appends(t, name)
<1>1. \A n \in DOMAIN Unmarshal[t] : Unmarshal[t][n] \in {a, b, c}
  <2>1. CASE Unmarshal[t] = <<>>
    BY <2>1
  <2>2. CASE Unmarshal[t] = <<a>>
    BY <2>2
  <2>3. CASE Unmarshal[t] = <<a, b>>
    BY <2>3
  <2>4. CASE Unmarshal[t] = <<a, b, c>>
    BY <2>4
  <2> QED BY <2>1, <2>2, <2>3, <2>4
<1> QED BY <1>1 DEF Appends

(* Coin: a string, and the amount, which is always written. *)
LEMMA Coin_Written ==
  ASSUME Generated, NEW m \in Coins
  PROVE  Written("Coin", m, Coin_Marshal(m), Coin_Size(m))
<1>1. Unmarshal["Coin"] = <<String("Denom"), Amount("Amount")>> /\ Zero["Coin"] = Coin_Zero
  BY DEF Generated, Unmarshals, Zeros, Coin_Unmarshal
<1>2. PICK t : t = "Coin"
  OBVIOUS
<1>3. /\ 1 \in DOMAIN Unmarshal[t] /\ Unmarshal[t][1] = String("Denom")
      /\ 2 \in DOMAIN Unmarshal[t] /\ Unmarshal[t][2] = Amount("Amount")
  BY <1>1, <1>2
<1>4. \A name : ~Appends(t, name)
  BY <1>1, <1>2, Plain, PlainCases
<1>5. PICK denom, amount : denom = m.Denom /\ amount = m.Amount
  OBVIOUS
<1>6. m = [Denom |-> denom, Amount |-> amount]
  BY <1>5 DEF Coins
<1>7. /\ denom \in Seq(Byte) /\ amount \in Seq(48 .. 57) /\ amount # <<>> /\ amount \in Seq(Byte)
  BY <1>5 DEF Coins, Text, Digits, Byte
<1>8. PICK a, s : a = PutTag(18, encodeVarint(amount, Len(amount))) /\ s = PutString(10, denom, a)
  OBVIOUS
<1>9. Coin_Marshal(m) = s /\ Coin_Size(m) = SizeString(denom) + SizeBytes(Len(amount))
  BY <1>5, <1>8, HexTags DEF Coin_Marshal, Coin_Size
<1>10. a \in Seq(Byte) /\ Len(a) = SizeBytes(Len(amount)) /\ Len(a) \in Nat /\ Len(amount) \in Nat /\ Len(amount) <= Len(a)
  <2>1. PICK d : d = <<>>
    OBVIOUS
  <2>2. d \in Seq(Byte) /\ amount \o d = amount /\ Len(d) = 0 /\ 18 \in Byte
    BY <1>7, <2>1 DEF Byte
  <2>3. /\ PutTag(18, encodeVarint(amount \o d, Len(amount))) \in Seq(Byte)
        /\ Len(PutTag(18, encodeVarint(amount \o d, Len(amount)))) = SizeBytes(Len(amount)) + Len(d)
        /\ Len(amount) \in Nat /\ Len(amount) <= Len(PutTag(18, encodeVarint(amount \o d, Len(amount))))
    BY <1>7, <2>2, TaggedBytes
  <2>4. a \in Seq(Byte) /\ Len(a) = SizeBytes(Len(amount)) + 0 /\ Len(amount) \in Nat /\ Len(amount) <= Len(a)
    BY <1>8, <2>2, <2>3
  <2>5. Len(a) \in Nat /\ SizeBytes(Len(amount)) \in Nat
    BY <2>4, VarintSize, LenProperties DEF SizeBytes
  <2> QED BY <2>4, <2>5
<1>11. /\ s \in Seq(Byte) /\ Len(s) = SizeString(denom) + Len(a)
       /\ Len(denom) \in Nat /\ Len(denom) <= Len(s) /\ Len(a) <= Len(s)
  <2>1. 10 \in Byte
    BY DEF Byte
  <2> QED BY <1>7, <1>8, <1>10, <2>1, StringWritten
<1>12. ASSUME Len(s) < Half PROVE Reads(t, Zero[t], s, m)
  <2>1. Len(denom) \in Word /\ Len(amount) \in Word
    <3>1. Half \in Nat /\ Len(s) \in Nat
      BY <1>11, WidthFacts, LenProperties
    <3>2. Len(denom) < Half /\ Len(amount) < Half
      BY <1>10, <1>11, <1>12, <3>1
    <3> QED BY <1>10, <1>11, <3>2, ShortLength
  <2>2. PICK z, b : z = [Denom |-> <<>>, Amount |-> <<>>] /\ b = [Denom |-> denom, Amount |-> <<>>]
    OBVIOUS
  <2>3. Zero[t] = z
    BY <1>1, <1>2, <2>2 DEF Coin_Zero
  <2>4. b = Put(t, z, "Denom", denom) /\ m = Put(t, b, "Amount", amount) /\ (denom = <<>> => b = z)
    BY <1>4, <1>6, <2>2, PutPlain
  <2>5. Partial(t, m, z) /\ Partial(t, m, b)
    BY <1>6, <2>2, <2>3 DEF Partial
  <2>6. Reads(t, b, a, m)
    BY <1>3, <1>7, <1>8, <2>1, <2>4, <2>5, AmountReads
  <2>7. Reads(t, z, s, m)
    BY <1>3, <1>7, <1>8, <1>10, <2>1, <2>4, <2>5, <2>6, StringReads
  <2> QED BY <2>3, <2>7
<1> QED BY <1>2, <1>9, <1>10, <1>11, <1>12 DEF Written

(* What a field takes is a number. *)
LEMMA SizeTypes ==
  /\ \A l \in Nat : SizeBytes(l) \in Nat /\ SizeMessage(l) \in Nat
  /\ \A s \in Seq(Byte) : SizeString(s) \in Nat
  /\ \A v \in Nat : SizeUint(v) \in Nat
<1>1. ASSUME NEW l \in Nat PROVE SizeBytes(l) \in Nat /\ SizeMessage(l) \in Nat /\ SizeUint(l) \in Nat
  <2>1. sov(l) \in Nat
    BY VarintSize
  <2> QED BY <2>1 DEF SizeBytes, SizeMessage, SizeUint
<1>2. ASSUME NEW s \in Seq(Byte) PROVE SizeString(s) \in Nat
  <2>1. Len(s) \in Nat
    BY LenProperties
  <2> QED BY <1>1, <2>1 DEF SizeString
<1> QED BY <1>1, <1>2

(* A uint32 is a number. *)
LEMMA UintIsNat == ASSUME NEW v \in 0 .. 2 ^ UintBits - 1 PROVE v \in Nat
OBVIOUS

(* Messages with several fields. *)
LEMMA VirtualStakingMaxCapInfo_Written ==
  ASSUME Generated, NEW m \in CapInfos
  PROVE  Written("VirtualStakingMaxCapInfo", m, VirtualStakingMaxCapInfo_Marshal(m), VirtualStakingMaxCapInfo_Size(m))
<1>1. /\ Unmarshal["VirtualStakingMaxCapInfo"] = <<String("Contract"), Message("Delegated", "Coin"), Message("Cap", "Coin")>>
      /\ Zero["VirtualStakingMaxCapInfo"] = VirtualStakingMaxCapInfo_Zero /\ Zero["Coin"] = Coin_Zero
  BY DEF Generated, Unmarshals, Zeros, VirtualStakingMaxCapInfo_Unmarshal
<1>2. PICK t : t = "VirtualStakingMaxCapInfo"
  OBVIOUS
<1>3. /\ 1 \in DOMAIN Unmarshal[t] /\ Unmarshal[t][1] = String("Contract")
      /\ 2 \in DOMAIN Unmarshal[t] /\ Unmarshal[t][2] = Message("Delegated", "Coin")
      /\ 3 \in DOMAIN Unmarshal[t] /\ Unmarshal[t][3] = Message("Cap", "Coin")
  BY <1>1, <1>2
<1>4. \A name : ~Appends(t, name)
  BY <1>1, <1>2, Plain, PlainCases
<1>5. PICK v1, v2, v3 : v1 = m.Contract /\ v2 = m.Delegated /\ v3 = m.Cap
  OBVIOUS
<1>6. m = [Contract |-> v1, Delegated |-> v2, Cap |-> v3]
  BY <1>5 DEF CapInfos
<1>7. v1 \in Seq(Byte) /\ v2 \in Coins /\ v3 \in Coins
  BY <1>5 DEF CapInfos, Text
<1>8. PICK e2, e3 : e2 = Coin_Marshal(v2) /\ e3 = Coin_Marshal(v3)
  OBVIOUS
<1>9. /\ Written("Coin", v2, e2, Coin_Size(v2))
      /\ Written("Coin", v3, e3, Coin_Size(v3))
  BY <1>7, <1>8, Coin_Written
<1>10. /\ e2 \in Seq(Byte) /\ Len(e2) = Coin_Size(v2) /\ Len(e2) \in Nat
       /\ e3 \in Seq(Byte) /\ Len(e3) = Coin_Size(v3) /\ Len(e3) \in Nat
  BY <1>9, LenProperties DEF Written
<1>11. PICK s1, s2, s3, s4 :
         s4 = <<>> /\ s3 = PutMessage(26, e3, s4) /\ s2 = PutMessage(18, e2, s3) /\ s1 = PutString(10, v1, s2)
  OBVIOUS
<1>12. /\ VirtualStakingMaxCapInfo_Marshal(m) = s1
       /\ VirtualStakingMaxCapInfo_Size(m) = SizeString(v1) + SizeMessage(Len(e2)) + SizeMessage(Len(e3))
  BY <1>5, <1>8, <1>10, <1>11, HexTags DEF VirtualStakingMaxCapInfo_Marshal, VirtualStakingMaxCapInfo_Size
<1>13. s4 \in Seq(Byte) /\ Len(s4) = 0 /\ 10 \in Byte /\ 18 \in Byte /\ 26 \in Byte
  BY <1>11 DEF Byte
<1>14. /\ s3 \in Seq(Byte) /\ Len(s3) = SizeMessage(Len(e3)) + Len(s4) /\ Len(s4) <= Len(s3)
       /\ Len(e3) \in Nat /\ Len(e3) <= Len(s3) /\ SizeMessage(Len(e3)) \in Nat
  <2>1. e3 \in Seq(Byte) /\ s4 \in Seq(Byte) /\ 26 \in Byte
    BY <1>10, <1>13
  <2>2. s3 = PutMessage(26, e3, s4)
    BY <1>11
  <2> QED BY ONLY <2>1, <2>2, MessageWritten, SizeTypes
<1>15. /\ s2 \in Seq(Byte) /\ Len(s2) = SizeMessage(Len(e2)) + Len(s3) /\ Len(s3) <= Len(s2)
       /\ Len(e2) \in Nat /\ Len(e2) <= Len(s2) /\ SizeMessage(Len(e2)) \in Nat
  <2>1. e2 \in Seq(Byte) /\ s3 \in Seq(Byte) /\ 18 \in Byte
    BY <1>10, <1>13, <1>14
  <2>2. s2 = PutMessage(18, e2, s3)
    BY <1>11
  <2> QED BY ONLY <2>1, <2>2, MessageWritten, SizeTypes
<1>16. /\ s1 \in Seq(Byte) /\ Len(s1) = SizeString(v1) + Len(s2) /\ Len(s2) <= Len(s1)
       /\ Len(v1) \in Nat /\ Len(v1) <= Len(s1) /\ SizeString(v1) \in Nat
  <2>1. v1 \in Seq(Byte) /\ s2 \in Seq(Byte) /\ 10 \in Byte
    BY <1>7, <1>13, <1>15
  <2>2. s1 = PutString(10, v1, s2)
    BY <1>11
  <2> QED BY ONLY <2>1, <2>2, StringWritten, SizeTypes
<1>17. Len(s1) = VirtualStakingMaxCapInfo_Size(m) /\ Len(s1) \in Nat /\ Len(s2) \in Nat /\ Len(s3) \in Nat
  <2>1. Len(s1) \in Nat /\ Len(s2) \in Nat /\ Len(s3) \in Nat
    BY <1>16, <1>15, <1>14, <1>13, LenProperties
  <2>2. PICK a, b, c, d : a = SizeString(v1) /\ b = SizeMessage(Len(e2)) /\ c = SizeMessage(Len(e3)) /\ d = VirtualStakingMaxCapInfo_Size(m)
    OBVIOUS
  <2>3. /\ a \in Nat /\ b \in Nat /\ c \in Nat /\ d = a + b + c
        /\ Len(s1) = a + Len(s2) /\ Len(s2) = b + Len(s3) /\ Len(s3) = c + Len(s4) /\ Len(s4) = 0
    BY ONLY <1>12, <1>13, <1>14, <1>15, <1>16, <2>2
  <2>4. PICK l1, l2, l3, l4 : l1 = Len(s1) /\ l2 = Len(s2) /\ l3 = Len(s3) /\ l4 = Len(s4)
    OBVIOUS
  <2>5. l1 = d
    <3>1. l1 = a + l2 /\ l2 = b + l3 /\ l3 = c + l4 /\ l4 = 0
      BY ONLY <2>3, <2>4
    <3> QED BY ONLY <2>3, <3>1
  <2> QED BY ONLY <2>1, <2>2, <2>4, <2>5
<1>18. ASSUME Len(s1) < Half PROVE Reads(t, Zero[t], s1, m)
  <2>1. Len(v1) \in Word /\ Len(v1) < Half /\ Len(e2) \in Word /\ Len(e2) < Half /\ Len(e3) \in Word /\ Len(e3) < Half
    <3>1. Len(v1) < Half /\ Len(e2) < Half /\ Len(e3) < Half
      <4>1. Half \in Nat
        BY WidthFacts
      <4>2. Len(v1) \in Nat /\ Len(v1) <= Len(s1) /\ Len(e2) \in Nat /\ Len(e2) <= Len(s2) /\ Len(e3) \in Nat /\ Len(e3) <= Len(s3)
           /\ Len(s1) \in Nat /\ Len(s2) \in Nat /\ Len(s3) \in Nat /\ Len(s2) <= Len(s1) /\ Len(s3) <= Len(s2)
        BY <1>16, <1>15, <1>14, <1>13, <1>17
      <4> QED BY ONLY <4>1, <4>2, <1>18
    <3> QED BY <1>16, <1>15, <1>14, <1>13, <3>1, ShortLength
  <2>2. PICK b0, b1, b2, b3 :
            /\ b0 = [Contract |-> <<>>, Delegated |-> Coin_Zero, Cap |-> Coin_Zero]
            /\ b1 = [Contract |-> v1, Delegated |-> Coin_Zero, Cap |-> Coin_Zero]
            /\ b2 = [Contract |-> v1, Delegated |-> v2, Cap |-> Coin_Zero]
            /\ b3 = [Contract |-> v1, Delegated |-> v2, Cap |-> v3]
    OBVIOUS
  <2>3. Zero[t] = b0 /\ b3 = m
    BY <1>1, <1>2, <1>6, <2>2 DEF VirtualStakingMaxCapInfo_Zero
  <2>4. b1 = Put(t, b0, "Contract", v1) /\ (v1 = <<>> => b1 = b0)
    BY <1>4, <2>2, PutPlain
  <2>5. b2 = Put(t, b1, "Delegated", v2) /\ b1["Delegated"] = Coin_Zero
    BY <1>4, <2>2, PutPlain
  <2>6. b3 = Put(t, b2, "Cap", v3) /\ b2["Cap"] = Coin_Zero
    BY <1>4, <2>2, PutPlain
  <2>7. Partial(t, m, b0) /\ Partial(t, m, b1) /\ Partial(t, m, b2)
    BY <1>6, <2>2, <2>3 DEF Partial
  <2>8. Reads(t, b3, s4, m)
    BY <1>11, <2>3, NothingLeft
  <2>9. Reads(t, b2, s3, m)
    <3>1. PICK start : start = Coin_Zero
      OBVIOUS
    <3>2. Reads("Coin", start, e3, v3) /\ start = b2["Cap"]
      BY <1>1, <1>9, <2>1, <2>6, <3>1 DEF Written
    <3>3. 3 \in 1 .. 3 /\ 3 \in DOMAIN Unmarshal[t] /\ Unmarshal[t][3] = Message("Cap", "Coin") /\ 26 = 8 * 3 + 2
      BY <1>3
    <3>4. e3 \in Seq(Byte) /\ s4 \in Seq(Byte) /\ s3 = PutMessage(26, e3, s4)
      BY <1>10, <1>11, <1>13
    <3> QED BY ONLY <2>1, <2>6, <2>7, <2>8, <3>2, <3>3, <3>4, MessageReads
  <2>10. Reads(t, b1, s2, m)
    <3>1. PICK start : start = Coin_Zero
      OBVIOUS
    <3>2. Reads("Coin", start, e2, v2) /\ start = b1["Delegated"]
      BY <1>1, <1>9, <2>1, <2>5, <3>1 DEF Written
    <3>3. 2 \in 1 .. 3 /\ 2 \in DOMAIN Unmarshal[t] /\ Unmarshal[t][2] = Message("Delegated", "Coin") /\ 18 = 8 * 2 + 2
      BY <1>3
    <3>4. e2 \in Seq(Byte) /\ s3 \in Seq(Byte) /\ s2 = PutMessage(18, e2, s3)
      BY <1>10, <1>11, <1>14
    <3> QED BY ONLY <2>1, <2>5, <2>7, <2>9, <3>2, <3>3, <3>4, MessageReads
  <2>11. Reads(t, b0, s1, m)
    <3>3. 1 \in 1 .. 3 /\ 1 \in DOMAIN Unmarshal[t] /\ Unmarshal[t][1] = String("Contract") /\ 10 = 8 * 1 + 2
      BY <1>3
    <3>4. v1 \in Seq(Byte) /\ s2 \in Seq(Byte) /\ s1 = PutString(10, v1, s2)
      BY <1>7, <1>11, <1>15
    <3> QED BY ONLY <2>1, <2>4, <2>7, <2>10, <3>3, <3>4, StringReads
  <2> QED BY <2>3, <2>11
<1> QED BY <1>2, <1>12, <1>16, <1>17, <1>18 DEF Written

(* Params: a message and two numbers. *)
LEMMA Params_Written ==
  ASSUME Generated, NEW m \in ParamValues
  PROVE  Written("Params", m, Params_Marshal(m), Params_Size(m))
<1>1. /\ Unmarshal["Params"] = <<Message("TotalContractsMaxCap", "Coin"), Uint32("EpochLength"), Uint32("MaxGasEndBlocker")>>
      /\ Zero["Params"] = Params_Zero /\ Zero["Coin"] = Coin_Zero
  BY DEF Generated, Unmarshals, Zeros, Params_Unmarshal
<1>2. PICK t : t = "Params"
  OBVIOUS
<1>3. /\ 1 \in DOMAIN Unmarshal[t] /\ Unmarshal[t][1] = Message("TotalContractsMaxCap", "Coin")
      /\ 2 \in DOMAIN Unmarshal[t] /\ Unmarshal[t][2] = Uint32("EpochLength")
      /\ 3 \in DOMAIN Unmarshal[t] /\ Unmarshal[t][3] = Uint32("MaxGasEndBlocker")
  BY <1>1, <1>2
<1>4. \A name : ~Appends(t, name)
  BY <1>1, <1>2, Plain, PlainCases
<1>5. PICK v1, v2, v3 : v1 = m.TotalContractsMaxCap /\ v2 = m.EpochLength /\ v3 = m.MaxGasEndBlocker
  OBVIOUS
<1>6. m = [TotalContractsMaxCap |-> v1, EpochLength |-> v2, MaxGasEndBlocker |-> v3]
  BY <1>5 DEF ParamValues
<1>7. v1 \in Coins /\ v2 \in 0 .. 2 ^ UintBits - 1 /\ v3 \in 0 .. 2 ^ UintBits - 1
  BY <1>5 DEF ParamValues, Uint32s
<1>8. PICK e1 : e1 = Coin_Marshal(v1)
  OBVIOUS
<1>9. /\ Written("Coin", v1, e1, Coin_Size(v1))
  BY <1>7, <1>8, Coin_Written
<1>10. /\ e1 \in Seq(Byte) /\ Len(e1) = Coin_Size(v1) /\ Len(e1) \in Nat
  BY <1>9, LenProperties DEF Written
<1>11. PICK s1, s2, s3, s4 :
         s4 = <<>> /\ s3 = PutUint(24, v3, s4) /\ s2 = PutUint(16, v2, s3) /\ s1 = PutMessage(10, e1, s2)
  OBVIOUS
<1>12. /\ Params_Marshal(m) = s1
       /\ Params_Size(m) = SizeMessage(Len(e1)) + SizeUint(v2) + SizeUint(v3)
  BY <1>5, <1>8, <1>10, <1>11, HexTags DEF Params_Marshal, Params_Size
<1>13. s4 \in Seq(Byte) /\ Len(s4) = 0 /\ 10 \in Byte /\ 16 \in Byte /\ 24 \in Byte
  BY <1>11 DEF Byte
<1>14. /\ s3 \in Seq(Byte) /\ Len(s3) = SizeUint(v3) + Len(s4) /\ Len(s4) <= Len(s3)
       /\ SizeUint(v3) \in Nat
  <2>1. v3 \in Nat /\ s4 \in Seq(Byte) /\ 24 \in Byte
    BY <1>7, UintIsNat, <1>13
  <2>2. s3 = PutUint(24, v3, s4)
    BY <1>11
  <2> QED BY ONLY <2>1, <2>2, UintWritten, SizeTypes
<1>15. /\ s2 \in Seq(Byte) /\ Len(s2) = SizeUint(v2) + Len(s3) /\ Len(s3) <= Len(s2)
       /\ SizeUint(v2) \in Nat
  <2>1. v2 \in Nat /\ s3 \in Seq(Byte) /\ 16 \in Byte
    BY <1>7, UintIsNat, <1>13, <1>14
  <2>2. s2 = PutUint(16, v2, s3)
    BY <1>11
  <2> QED BY ONLY <2>1, <2>2, UintWritten, SizeTypes
<1>16. /\ s1 \in Seq(Byte) /\ Len(s1) = SizeMessage(Len(e1)) + Len(s2) /\ Len(s2) <= Len(s1)
       /\ Len(e1) \in Nat /\ Len(e1) <= Len(s1) /\ SizeMessage(Len(e1)) \in Nat
  <2>1. e1 \in Seq(Byte) /\ s2 \in Seq(Byte) /\ 10 \in Byte
    BY <1>10, <1>13, <1>15
  <2>2. s1 = PutMessage(10, e1, s2)
    BY <1>11
  <2> QED BY ONLY <2>1, <2>2, MessageWritten, SizeTypes
<1>17. Len(s1) = Params_Size(m) /\ Len(s1) \in Nat /\ Len(s2) \in Nat /\ Len(s3) \in Nat
  <2>1. Len(s1) \in Nat /\ Len(s2) \in Nat /\ Len(s3) \in Nat
    BY <1>16, <1>15, <1>14, <1>13, LenProperties
  <2>2. PICK a, b, c, d : a = SizeMessage(Len(e1)) /\ b = SizeUint(v2) /\ c = SizeUint(v3) /\ d = Params_Size(m)
    OBVIOUS
  <2>3. /\ a \in Nat /\ b \in Nat /\ c \in Nat /\ d = a + b + c
        /\ Len(s1) = a + Len(s2) /\ Len(s2) = b + Len(s3) /\ Len(s3) = c + Len(s4) /\ Len(s4) = 0
    BY ONLY <1>12, <1>13, <1>14, <1>15, <1>16, <2>2
  <2>4. PICK l1, l2, l3, l4 : l1 = Len(s1) /\ l2 = Len(s2) /\ l3 = Len(s3) /\ l4 = Len(s4)
    OBVIOUS
  <2>5. l1 = d
    <3>1. l1 = a + l2 /\ l2 = b + l3 /\ l3 = c + l4 /\ l4 = 0
      BY ONLY <2>3, <2>4
    <3> QED BY ONLY <2>3, <3>1
  <2> QED BY ONLY <2>1, <2>2, <2>4, <2>5
<1>18. ASSUME Len(s1) < Half PROVE Reads(t, Zero[t], s1, m)
  <2>1. Len(e1) \in Word /\ Len(e1) < Half
    <3>1. Len(e1) < Half
      <4>1. Half \in Nat
        BY WidthFacts
      <4>2. Len(e1) \in Nat /\ Len(e1) <= Len(s1)
           /\ Len(s1) \in Nat /\ Len(s2) \in Nat /\ Len(s3) \in Nat /\ Len(s2) <= Len(s1) /\ Len(s3) <= Len(s2)
        BY <1>16, <1>15, <1>14, <1>13, <1>17
      <4> QED BY ONLY <4>1, <4>2, <1>18
    <3> QED BY <1>16, <1>15, <1>14, <1>13, <3>1, ShortLength
  <2>2. PICK b0, b1, b2, b3 :
            /\ b0 = [TotalContractsMaxCap |-> Coin_Zero, EpochLength |-> 0, MaxGasEndBlocker |-> 0]
            /\ b1 = [TotalContractsMaxCap |-> v1, EpochLength |-> 0, MaxGasEndBlocker |-> 0]
            /\ b2 = [TotalContractsMaxCap |-> v1, EpochLength |-> v2, MaxGasEndBlocker |-> 0]
            /\ b3 = [TotalContractsMaxCap |-> v1, EpochLength |-> v2, MaxGasEndBlocker |-> v3]
    OBVIOUS
  <2>3. Zero[t] = b0 /\ b3 = m
    BY <1>1, <1>2, <1>6, <2>2 DEF Params_Zero
  <2>4. b1 = Put(t, b0, "TotalContractsMaxCap", v1) /\ b0["TotalContractsMaxCap"] = Coin_Zero
    BY <1>4, <2>2, PutPlain
  <2>5. b2 = Put(t, b1, "EpochLength", v2) /\ (v2 = 0 => b2 = b1)
    BY <1>4, <2>2, PutPlain
  <2>6. b3 = Put(t, b2, "MaxGasEndBlocker", v3) /\ (v3 = 0 => b3 = b2)
    BY <1>4, <2>2, PutPlain
  <2>7. Partial(t, m, b0) /\ Partial(t, m, b1) /\ Partial(t, m, b2)
    BY <1>6, <2>2, <2>3 DEF Partial
  <2>8. Reads(t, b3, s4, m)
    BY <1>11, <2>3, NothingLeft
  <2>9. Reads(t, b2, s3, m)
    <3>3. 3 \in 1 .. 3 /\ 3 \in DOMAIN Unmarshal[t] /\ Unmarshal[t][3] = Uint32("MaxGasEndBlocker") /\ 24 = 8 * 3
      BY <1>3
    <3>4. v3 \in 0 .. 2 ^ UintBits - 1 /\ s4 \in Seq(Byte) /\ s3 = PutUint(24, v3, s4)
      BY <1>7, <1>11, <1>13
    <3> QED BY ONLY <2>6, <2>7, <2>8, <3>3, <3>4, UintReads
  <2>10. Reads(t, b1, s2, m)
    <3>3. 2 \in 1 .. 3 /\ 2 \in DOMAIN Unmarshal[t] /\ Unmarshal[t][2] = Uint32("EpochLength") /\ 16 = 8 * 2
      BY <1>3
    <3>4. v2 \in 0 .. 2 ^ UintBits - 1 /\ s3 \in Seq(Byte) /\ s2 = PutUint(16, v2, s3)
      BY <1>7, <1>11, <1>14
    <3> QED BY ONLY <2>5, <2>7, <2>9, <3>3, <3>4, UintReads
  <2>11. Reads(t, b0, s1, m)
    <3>1. PICK start : start = Coin_Zero
      OBVIOUS
    <3>2. Reads("Coin", start, e1, v1) /\ start = b0["TotalContractsMaxCap"]
      BY <1>1, <1>9, <2>1, <2>4, <3>1 DEF Written
    <3>3. 1 \in 1 .. 3 /\ 1 \in DOMAIN Unmarshal[t] /\ Unmarshal[t][1] = Message("TotalContractsMaxCap", "Coin") /\ 10 = 8 * 1 + 2
      BY <1>3
    <3>4. e1 \in Seq(Byte) /\ s2 \in Seq(Byte) /\ s1 = PutMessage(10, e1, s2)
      BY <1>10, <1>11, <1>15
    <3> QED BY ONLY <2>1, <2>4, <2>7, <2>10, <3>2, <3>3, <3>4, MessageReads
  <2> QED BY <2>3, <2>11
<1> QED BY <1>2, <1>12, <1>16, <1>17, <1>18 DEF Written


(* MsgSetVirtualStakingMaxCap: two strings and a message. *)
LEMMA MsgSetVirtualStakingMaxCap_Written ==
  ASSUME Generated, NEW m \in [Authority : Text, Contract : Text, MaxCap : Coins]
  PROVE  Written("MsgSetVirtualStakingMaxCap", m, MsgSetVirtualStakingMaxCap_Marshal(m), MsgSetVirtualStakingMaxCap_Size(m))
<1>1. /\ Unmarshal["MsgSetVirtualStakingMaxCap"] = <<String("Authority"), String("Contract"), Message("MaxCap", "Coin")>>
      /\ Zero["MsgSetVirtualStakingMaxCap"] = MsgSetVirtualStakingMaxCap_Zero /\ Zero["Coin"] = Coin_Zero
  BY DEF Generated, Unmarshals, Zeros, MsgSetVirtualStakingMaxCap_Unmarshal
<1>2. PICK t : t = "MsgSetVirtualStakingMaxCap"
  OBVIOUS
<1>3. /\ 1 \in DOMAIN Unmarshal[t] /\ Unmarshal[t][1] = String("Authority")
      /\ 2 \in DOMAIN Unmarshal[t] /\ Unmarshal[t][2] = String("Contract")
      /\ 3 \in DOMAIN Unmarshal[t] /\ Unmarshal[t][3] = Message("MaxCap", "Coin")
  BY <1>1, <1>2
<1>4. \A name : ~Appends(t, name)
  BY <1>1, <1>2, Plain, PlainCases
<1>5. PICK v1, v2, v3 : v1 = m.Authority /\ v2 = m.Contract /\ v3 = m.MaxCap
  OBVIOUS
<1>6. m = [Authority |-> v1, Contract |-> v2, MaxCap |-> v3]
  BY <1>5 DEF Coins
<1>7. v1 \in Seq(Byte) /\ v2 \in Seq(Byte) /\ v3 \in Coins
  BY <1>5 DEF Text
<1>8. PICK e3 : e3 = Coin_Marshal(v3)
  OBVIOUS
<1>9. /\ Written("Coin", v3, e3, Coin_Size(v3))
  BY <1>7, <1>8, Coin_Written
<1>10. /\ e3 \in Seq(Byte) /\ Len(e3) = Coin_Size(v3) /\ Len(e3) \in Nat
  BY <1>9, LenProperties DEF Written
<1>11. PICK s1, s2, s3, s4 :
         s4 = <<>> /\ s3 = PutMessage(26, e3, s4) /\ s2 = PutString(18, v2, s3) /\ s1 = PutString(10, v1, s2)
  OBVIOUS
<1>12. /\ MsgSetVirtualStakingMaxCap_Marshal(m) = s1
       /\ MsgSetVirtualStakingMaxCap_Size(m) = SizeString(v1) + SizeString(v2) + SizeMessage(Len(e3))
  BY <1>5, <1>8, <1>10, <1>11, HexTags DEF MsgSetVirtualStakingMaxCap_Marshal, MsgSetVirtualStakingMaxCap_Size
<1>13. s4 \in Seq(Byte) /\ Len(s4) = 0 /\ 10 \in Byte /\ 18 \in Byte /\ 26 \in Byte
  BY <1>11 DEF Byte
<1>14. /\ s3 \in Seq(Byte) /\ Len(s3) = SizeMessage(Len(e3)) + Len(s4) /\ Len(s4) <= Len(s3)
       /\ Len(e3) \in Nat /\ Len(e3) <= Len(s3) /\ SizeMessage(Len(e3)) \in Nat
  <2>1. e3 \in Seq(Byte) /\ s4 \in Seq(Byte) /\ 26 \in Byte
    BY <1>10, <1>13
  <2>2. s3 = PutMessage(26, e3, s4)
    BY <1>11
  <2> QED BY ONLY <2>1, <2>2, MessageWritten, SizeTypes
<1>15. /\ s2 \in Seq(Byte) /\ Len(s2) = SizeString(v2) + Len(s3) /\ Len(s3) <= Len(s2)
       /\ Len(v2) \in Nat /\ Len(v2) <= Len(s2) /\ SizeString(v2) \in Nat
  <2>1. v2 \in Seq(Byte) /\ s3 \in Seq(Byte) /\ 18 \in Byte
    BY <1>7, <1>13, <1>14
  <2>2. s2 = PutString(18, v2, s3)
    BY <1>11
  <2> QED BY ONLY <2>1, <2>2, StringWritten, SizeTypes
<1>16. /\ s1 \in Seq(Byte) /\ Len(s1) = SizeString(v1) + Len(s2) /\ Len(s2) <= Len(s1)
       /\ Len(v1) \in Nat /\ Len(v1) <= Len(s1) /\ SizeString(v1) \in Nat
  <2>1. v1 \in Seq(Byte) /\ s2 \in Seq(Byte) /\ 10 \in Byte
    BY <1>7, <1>13, <1>15
  <2>2. s1 = PutString(10, v1, s2)
    BY <1>11
  <2> QED BY ONLY <2>1, <2>2, StringWritten, SizeTypes
<1>17. Len(s1) = MsgSetVirtualStakingMaxCap_Size(m) /\ Len(s1) \in Nat /\ Len(s2) \in Nat /\ Len(s3) \in Nat
  <2>1. Len(s1) \in Nat /\ Len(s2) \in Nat /\ Len(s3) \in Nat
    BY <1>16, <1>15, <1>14, <1>13, LenProperties
  <2>2. PICK a, b, c, d : a = SizeString(v1) /\ b = SizeString(v2) /\ c = SizeMessage(Len(e3)) /\ d = MsgSetVirtualStakingMaxCap_Size(m)
    OBVIOUS
  <2>3. /\ a \in Nat /\ b \in Nat /\ c \in Nat /\ d = a + b + c
        /\ Len(s1) = a + Len(s2) /\ Len(s2) = b + Len(s3) /\ Len(s3) = c + Len(s4) /\ Len(s4) = 0
    BY ONLY <1>12, <1>13, <1>14, <1>15, <1>16, <2>2
  <2>4. PICK l1, l2, l3, l4 : l1 = Len(s1) /\ l2 = Len(s2) /\ l3 = Len(s3) /\ l4 = Len(s4)
    OBVIOUS
  <2>5. l1 = d
    <3>1. l1 = a + l2 /\ l2 = b + l3 /\ l3 = c + l4 /\ l4 = 0
      BY ONLY <2>3, <2>4
    <3> QED BY ONLY <2>3, <3>1
  <2> QED BY ONLY <2>1, <2>2, <2>4, <2>5
<1>18. ASSUME Len(s1) < Half PROVE Reads(t, Zero[t], s1, m)
  <2>1. Len(v1) \in Word /\ Len(v1) < Half /\ Len(v2) \in Word /\ Len(v2) < Half /\ Len(e3) \in Word /\ Len(e3) < Half
    <3>1. Len(v1) < Half /\ Len(v2) < Half /\ Len(e3) < Half
      <4>1. Half \in Nat
        BY WidthFacts
      <4>2. Len(v1) \in Nat /\ Len(v1) <= Len(s1) /\ Len(v2) \in Nat /\ Len(v2) <= Len(s2) /\ Len(e3) \in Nat /\ Len(e3) <= Len(s3)
           /\ Len(s1) \in Nat /\ Len(s2) \in Nat /\ Len(s3) \in Nat /\ Len(s2) <= Len(s1) /\ Len(s3) <= Len(s2)
        BY <1>16, <1>15, <1>14, <1>13, <1>17
      <4> QED BY ONLY <4>1, <4>2, <1>18
    <3> QED BY <1>16, <1>15, <1>14, <1>13, <3>1, ShortLength
  <2>2. PICK b0, b1, b2, b3 :
            /\ b0 = [Authority |-> <<>>, Contract |-> <<>>, MaxCap |-> Coin_Zero]
            /\ b1 = [Authority |-> v1, Contract |-> <<>>, MaxCap |-> Coin_Zero]
            /\ b2 = [Authority |-> v1, Contract |-> v2, MaxCap |-> Coin_Zero]
            /\ b3 = [Authority |-> v1, Contract |-> v2, MaxCap |-> v3]
    OBVIOUS
  <2>3. Zero[t] = b0 /\ b3 = m
    BY <1>1, <1>2, <1>6, <2>2 DEF MsgSetVirtualStakingMaxCap_Zero
  <2>4. b1 = Put(t, b0, "Authority", v1) /\ (v1 = <<>> => b1 = b0)
    BY <1>4, <2>2, PutPlain
  <2>5. b2 = Put(t, b1, "Contract", v2) /\ (v2 = <<>> => b2 = b1)
    BY <1>4, <2>2, PutPlain
  <2>6. b3 = Put(t, b2, "MaxCap", v3) /\ b2["MaxCap"] = Coin_Zero
    BY <1>4, <2>2, PutPlain
  <2>7. Partial(t, m, b0) /\ Partial(t, m, b1) /\ Partial(t, m, b2)
    BY <1>6, <2>2, <2>3 DEF Partial
  <2>8. Reads(t, b3, s4, m)
    BY <1>11, <2>3, NothingLeft
  <2>9. Reads(t, b2, s3, m)
    <3>1. PICK start : start = Coin_Zero
      OBVIOUS
    <3>2. Reads("Coin", start, e3, v3) /\ start = b2["MaxCap"]
      BY <1>1, <1>9, <2>1, <2>6, <3>1 DEF Written
    <3>3. 3 \in 1 .. 3 /\ 3 \in DOMAIN Unmarshal[t] /\ Unmarshal[t][3] = Message("MaxCap", "Coin") /\ 26 = 8 * 3 + 2
      BY <1>3
    <3>4. e3 \in Seq(Byte) /\ s4 \in Seq(Byte) /\ s3 = PutMessage(26, e3, s4)
      BY <1>10, <1>11, <1>13
    <3> QED BY ONLY <2>1, <2>6, <2>7, <2>8, <3>2, <3>3, <3>4, MessageReads
  <2>10. Reads(t, b1, s2, m)
    <3>3. 2 \in 1 .. 3 /\ 2 \in DOMAIN Unmarshal[t] /\ Unmarshal[t][2] = String("Contract") /\ 18 = 8 * 2 + 2
      BY <1>3
    <3>4. v2 \in Seq(Byte) /\ s3 \in Seq(Byte) /\ s2 = PutString(18, v2, s3)
      BY <1>7, <1>11, <1>14
    <3> QED BY ONLY <2>1, <2>5, <2>7, <2>9, <3>3, <3>4, StringReads
  <2>11. Reads(t, b0, s1, m)
    <3>3. 1 \in 1 .. 3 /\ 1 \in DOMAIN Unmarshal[t] /\ Unmarshal[t][1] = String("Authority") /\ 10 = 8 * 1 + 2
      BY <1>3
    <3>4. v1 \in Seq(Byte) /\ s2 \in Seq(Byte) /\ s1 = PutString(10, v1, s2)
      BY <1>7, <1>11, <1>15
    <3> QED BY ONLY <2>1, <2>4, <2>7, <2>10, <3>3, <3>4, StringReads
  <2> QED BY <2>3, <2>11
<1> QED BY <1>2, <1>12, <1>16, <1>17, <1>18 DEF Written


(* QueryVirtualStakingMaxCapLimitResponse: two messages. *)
LEMMA QueryVirtualStakingMaxCapLimitResponse_Written ==
  ASSUME Generated, NEW m \in [Delegated : Coins, Cap : Coins]
  PROVE  Written("QueryVirtualStakingMaxCapLimitResponse", m, QueryVirtualStakingMaxCapLimitResponse_Marshal(m), QueryVirtualStakingMaxCapLimitResponse_Size(m))
<1>1. /\ Unmarshal["QueryVirtualStakingMaxCapLimitResponse"] = <<Message("Delegated", "Coin"), Message("Cap", "Coin")>>
      /\ Zero["QueryVirtualStakingMaxCapLimitResponse"] = QueryVirtualStakingMaxCapLimitResponse_Zero /\ Zero["Coin"] = Coin_Zero
  BY DEF Generated, Unmarshals, Zeros, QueryVirtualStakingMaxCapLimitResponse_Unmarshal
<1>2. PICK t : t = "QueryVirtualStakingMaxCapLimitResponse"
  OBVIOUS
<1>3. /\ 1 \in DOMAIN Unmarshal[t] /\ Unmarshal[t][1] = Message("Delegated", "Coin")
      /\ 2 \in DOMAIN Unmarshal[t] /\ Unmarshal[t][2] = Message("Cap", "Coin")
  BY <1>1, <1>2
<1>4. \A name : ~Appends(t, name)
  BY <1>1, <1>2, Plain, PlainCases
<1>5. PICK v1, v2 : v1 = m.Delegated /\ v2 = m.Cap
  OBVIOUS
<1>6. m = [Delegated |-> v1, Cap |-> v2]
  BY <1>5 DEF Coins
<1>7. v1 \in Coins /\ v2 \in Coins
  BY <1>5
<1>8. PICK e1, e2 : e1 = Coin_Marshal(v1) /\ e2 = Coin_Marshal(v2)
  OBVIOUS
<1>9. /\ Written("Coin", v1, e1, Coin_Size(v1))
      /\ Written("Coin", v2, e2, Coin_Size(v2))
  BY <1>7, <1>8, Coin_Written
<1>10. /\ e1 \in Seq(Byte) /\ Len(e1) = Coin_Size(v1) /\ Len(e1) \in Nat
       /\ e2 \in Seq(Byte) /\ Len(e2) = Coin_Size(v2) /\ Len(e2) \in Nat
  BY <1>9, LenProperties DEF Written
<1>11. PICK s1, s2, s3 :
         s3 = <<>> /\ s2 = PutMessage(18, e2, s3) /\ s1 = PutMessage(10, e1, s2)
  OBVIOUS
<1>12. /\ QueryVirtualStakingMaxCapLimitResponse_Marshal(m) = s1
       /\ QueryVirtualStakingMaxCapLimitResponse_Size(m) = SizeMessage(Len(e1)) + SizeMessage(Len(e2))
  BY <1>5, <1>8, <1>10, <1>11, HexTags DEF QueryVirtualStakingMaxCapLimitResponse_Marshal, QueryVirtualStakingMaxCapLimitResponse_Size
<1>13. s3 \in Seq(Byte) /\ Len(s3) = 0 /\ 10 \in Byte /\ 18 \in Byte
  BY <1>11 DEF Byte
<1>14. /\ s2 \in Seq(Byte) /\ Len(s2) = SizeMessage(Len(e2)) + Len(s3) /\ Len(s3) <= Len(s2)
       /\ Len(e2) \in Nat /\ Len(e2) <= Len(s2) /\ SizeMessage(Len(e2)) \in Nat
  <2>1. e2 \in Seq(Byte) /\ s3 \in Seq(Byte) /\ 18 \in Byte
    BY <1>10, <1>13
  <2>2. s2 = PutMessage(18, e2, s3)
    BY <1>11
  <2> QED BY ONLY <2>1, <2>2, MessageWritten, SizeTypes
<1>15. /\ s1 \in Seq(Byte) /\ Len(s1) = SizeMessage(Len(e1)) + Len(s2) /\ Len(s2) <= Len(s1)
       /\ Len(e1) \in Nat /\ Len(e1) <= Len(s1) /\ SizeMessage(Len(e1)) \in Nat
  <2>1. e1 \in Seq(Byte) /\ s2 \in Seq(Byte) /\ 10 \in Byte
    BY <1>10, <1>13, <1>14
  <2>2. s1 = PutMessage(10, e1, s2)
    BY <1>11
  <2> QED BY ONLY <2>1, <2>2, MessageWritten, SizeTypes
<1>16. Len(s1) = QueryVirtualStakingMaxCapLimitResponse_Size(m) /\ Len(s1) \in Nat /\ Len(s2) \in Nat
  <2>1. Len(s1) \in Nat /\ Len(s2) \in Nat
    BY <1>15, <1>14, <1>13, LenProperties
  <2> QED BY ONLY <1>12, <1>15, <1>14, <1>13, <2>1
<1>17. ASSUME Len(s1) < Half PROVE Reads(t, Zero[t], s1, m)
  <2>1. Len(e1) \in Word /\ Len(e1) < Half /\ Len(e2) \in Word /\ Len(e2) < Half
    <3>1. Len(e1) < Half /\ Len(e2) < Half
      <4>1. Half \in Nat
        BY WidthFacts
      <4>2. Len(e1) \in Nat /\ Len(e1) <= Len(s1) /\ Len(e2) \in Nat /\ Len(e2) <= Len(s2)
           /\ Len(s1) \in Nat /\ Len(s2) \in Nat /\ Len(s2) <= Len(s1)
        BY <1>15, <1>14, <1>13, <1>16
      <4> QED BY ONLY <4>1, <4>2, <1>17
    <3> QED BY <1>15, <1>14, <1>13, <3>1, ShortLength
  <2>2. PICK b0, b1, b2 :
            /\ b0 = [Delegated |-> Coin_Zero, Cap |-> Coin_Zero]
            /\ b1 = [Delegated |-> v1, Cap |-> Coin_Zero]
            /\ b2 = [Delegated |-> v1, Cap |-> v2]
    OBVIOUS
  <2>3. Zero[t] = b0 /\ b2 = m
    BY <1>1, <1>2, <1>6, <2>2 DEF QueryVirtualStakingMaxCapLimitResponse_Zero
  <2>4. b1 = Put(t, b0, "Delegated", v1) /\ b0["Delegated"] = Coin_Zero
    BY <1>4, <2>2, PutPlain
  <2>5. b2 = Put(t, b1, "Cap", v2) /\ b1["Cap"] = Coin_Zero
    BY <1>4, <2>2, PutPlain
  <2>6. Partial(t, m, b0) /\ Partial(t, m, b1)
    BY <1>6, <2>2, <2>3 DEF Partial
  <2>7. Reads(t, b2, s3, m)
    BY <1>11, <2>3, NothingLeft
  <2>8. Reads(t, b1, s2, m)
    <3>1. PICK start : start = Coin_Zero
      OBVIOUS
    <3>2. Reads("Coin", start, e2, v2) /\ start = b1["Cap"]
      BY <1>1, <1>9, <2>1, <2>5, <3>1 DEF Written
    <3>3. 2 \in 1 .. 3 /\ 2 \in DOMAIN Unmarshal[t] /\ Unmarshal[t][2] = Message("Cap", "Coin") /\ 18 = 8 * 2 + 2
      BY <1>3
    <3>4. e2 \in Seq(Byte) /\ s3 \in Seq(Byte) /\ s2 = PutMessage(18, e2, s3)
      BY <1>10, <1>11, <1>13
    <3> QED BY ONLY <2>1, <2>5, <2>6, <2>7, <3>2, <3>3, <3>4, MessageReads
  <2>9. Reads(t, b0, s1, m)
    <3>1. PICK start : start = Coin_Zero
      OBVIOUS
    <3>2. Reads("Coin", start, e1, v1) /\ start = b0["Delegated"]
      BY <1>1, <1>9, <2>1, <2>4, <3>1 DEF Written
    <3>3. 1 \in 1 .. 3 /\ 1 \in DOMAIN Unmarshal[t] /\ Unmarshal[t][1] = Message("Delegated", "Coin") /\ 10 = 8 * 1 + 2
      BY <1>3
    <3>4. e1 \in Seq(Byte) /\ s2 \in Seq(Byte) /\ s1 = PutMessage(10, e1, s2)
      BY <1>10, <1>11, <1>14
    <3> QED BY ONLY <2>1, <2>4, <2>6, <2>8, <3>2, <3>3, <3>4, MessageReads
  <2> QED BY <2>3, <2>9
<1> QED BY <1>2, <1>12, <1>15, <1>16, <1>17 DEF Written

(* Messages without fields, *)
LEMMA EmptyWritten ==
  ASSUME NEW t, Zero[t] = Empty
  PROVE  Written(t, Empty, <<>>, 0)
<1>1. Reads(t, Zero[t], <<>>, Empty)
  BY NothingLeft
<1> QED BY <1>1 DEF Written

(* The parameters of the provider have no field. *)
LEMMA ProviderParams_Written ==
  ASSUME Generated, NEW m \in {Empty}
  PROVE  Written("ProviderParams", m, ProviderParams_Marshal(m), ProviderParams_Size(m))
<1>1. Zero["ProviderParams"] = Empty
  BY DEF Generated, Zeros, ProviderParams_Zero
<1> QED BY <1>1, EmptyWritten DEF ProviderParams_Marshal, ProviderParams_Size


(* MsgUpdateParams: a string and a message without fields. *)
LEMMA MsgUpdateParams_Written ==
  ASSUME Generated, NEW m \in [Authority : Text, Params : {Empty}]
  PROVE  Written("MsgUpdateParams", m, MsgUpdateParams_Marshal(m), MsgUpdateParams_Size(m))
<1>1. /\ Unmarshal["MsgUpdateParams"] = <<String("Authority"), Message("Params", "ProviderParams")>>
      /\ Zero["MsgUpdateParams"] = MsgUpdateParams_Zero /\ Zero["ProviderParams"] = ProviderParams_Zero
  BY DEF Generated, Unmarshals, Zeros, MsgUpdateParams_Unmarshal
<1>2. PICK t : t = "MsgUpdateParams"
  OBVIOUS
<1>3. /\ 1 \in DOMAIN Unmarshal[t] /\ Unmarshal[t][1] = String("Authority")
      /\ 2 \in DOMAIN Unmarshal[t] /\ Unmarshal[t][2] = Message("Params", "ProviderParams")
  BY <1>1, <1>2
<1>4. \A name : ~Appends(t, name)
  BY <1>1, <1>2, Plain, PlainCases
<1>5. PICK v1, v2 : v1 = m.Authority /\ v2 = m.Params
  OBVIOUS
<1>6. m = [Authority |-> v1, Params |-> v2]
  BY <1>5 DEF Coins
<1>7. v1 \in Seq(Byte) /\ v2 \in {Empty}
  BY <1>5 DEF Text
<1>8. PICK e2 : e2 = ProviderParams_Marshal(v2)
  OBVIOUS
<1>9. /\ Written("ProviderParams", v2, e2, ProviderParams_Size(v2))
  BY <1>7, <1>8, ProviderParams_Written
<1>10. /\ e2 \in Seq(Byte) /\ Len(e2) = ProviderParams_Size(v2) /\ Len(e2) \in Nat
  BY <1>9, LenProperties DEF Written
<1>11. PICK s1, s2, s3 :
         s3 = <<>> /\ s2 = PutMessage(18, e2, s3) /\ s1 = PutString(10, v1, s2)
  OBVIOUS
<1>12. /\ MsgUpdateParams_Marshal(m) = s1
       /\ MsgUpdateParams_Size(m) = SizeString(v1) + SizeMessage(Len(e2))
  BY <1>5, <1>8, <1>10, <1>11, HexTags DEF MsgUpdateParams_Marshal, MsgUpdateParams_Size
<1>13. s3 \in Seq(Byte) /\ Len(s3) = 0 /\ 10 \in Byte /\ 18 \in Byte
  BY <1>11 DEF Byte
<1>14. /\ s2 \in Seq(Byte) /\ Len(s2) = SizeMessage(Len(e2)) + Len(s3) /\ Len(s3) <= Len(s2)
       /\ Len(e2) \in Nat /\ Len(e2) <= Len(s2) /\ SizeMessage(Len(e2)) \in Nat
  <2>1. e2 \in Seq(Byte) /\ s3 \in Seq(Byte) /\ 18 \in Byte
    BY <1>10, <1>13
  <2>2. s2 = PutMessage(18, e2, s3)
    BY <1>11
  <2> QED BY ONLY <2>1, <2>2, MessageWritten, SizeTypes
<1>15. /\ s1 \in Seq(Byte) /\ Len(s1) = SizeString(v1) + Len(s2) /\ Len(s2) <= Len(s1)
       /\ Len(v1) \in Nat /\ Len(v1) <= Len(s1) /\ SizeString(v1) \in Nat
  <2>1. v1 \in Seq(Byte) /\ s2 \in Seq(Byte) /\ 10 \in Byte
    BY <1>7, <1>13, <1>14
  <2>2. s1 = PutString(10, v1, s2)
    BY <1>11
  <2> QED BY ONLY <2>1, <2>2, StringWritten, SizeTypes
<1>16. Len(s1) = MsgUpdateParams_Size(m) /\ Len(s1) \in Nat /\ Len(s2) \in Nat
  <2>1. Len(s1) \in Nat /\ Len(s2) \in Nat
    BY <1>15, <1>14, <1>13, LenProperties
  <2> QED BY ONLY <1>12, <1>15, <1>14, <1>13, <2>1
<1>17. ASSUME Len(s1) < Half PROVE Reads(t, Zero[t], s1, m)
  <2>1. Len(v1) \in Word /\ Len(v1) < Half /\ Len(e2) \in Word /\ Len(e2) < Half
    <3>1. Len(v1) < Half /\ Len(e2) < Half
      <4>1. Half \in Nat
        BY WidthFacts
      <4>2. Len(v1) \in Nat /\ Len(v1) <= Len(s1) /\ Len(e2) \in Nat /\ Len(e2) <= Len(s2)
           /\ Len(s1) \in Nat /\ Len(s2) \in Nat /\ Len(s2) <= Len(s1)
        BY <1>15, <1>14, <1>13, <1>16
      <4> QED BY ONLY <4>1, <4>2, <1>17
    <3> QED BY <1>15, <1>14, <1>13, <3>1, ShortLength
  <2>2. PICK b0, b1, b2 :
            /\ b0 = [Authority |-> <<>>, Params |-> ProviderParams_Zero]
            /\ b1 = [Authority |-> v1, Params |-> ProviderParams_Zero]
            /\ b2 = [Authority |-> v1, Params |-> v2]
    OBVIOUS
  <2>3. Zero[t] = b0 /\ b2 = m
    BY <1>1, <1>2, <1>6, <2>2 DEF MsgUpdateParams_Zero
  <2>4. b1 = Put(t, b0, "Authority", v1) /\ (v1 = <<>> => b1 = b0)
    BY <1>4, <2>2, PutPlain
  <2>5. b2 = Put(t, b1, "Params", v2) /\ b1["Params"] = ProviderParams_Zero
    BY <1>4, <2>2, PutPlain
  <2>6. Partial(t, m, b0) /\ Partial(t, m, b1)
    BY <1>6, <2>2, <2>3 DEF Partial
  <2>7. Reads(t, b2, s3, m)
    BY <1>11, <2>3, NothingLeft
  <2>8. Reads(t, b1, s2, m)
    <3>1. PICK start : start = ProviderParams_Zero
      OBVIOUS
    <3>2. Reads("ProviderParams", start, e2, v2) /\ start = b1["Params"]
      BY <1>1, <1>9, <2>1, <2>5, <3>1 DEF Written
    <3>3. 2 \in 1 .. 3 /\ 2 \in DOMAIN Unmarshal[t] /\ Unmarshal[t][2] = Message("Params", "ProviderParams") /\ 18 = 8 * 2 + 2
      BY <1>3
    <3>4. e2 \in Seq(Byte) /\ s3 \in Seq(Byte) /\ s2 = PutMessage(18, e2, s3)
      BY <1>10, <1>11, <1>13
    <3> QED BY ONLY <2>1, <2>5, <2>6, <2>7, <3>2, <3>3, <3>4, MessageReads
  <2>9. Reads(t, b0, s1, m)
    <3>3. 1 \in 1 .. 3 /\ 1 \in DOMAIN Unmarshal[t] /\ Unmarshal[t][1] = String("Authority") /\ 10 = 8 * 1 + 2
      BY <1>3
    <3>4. v1 \in Seq(Byte) /\ s2 \in Seq(Byte) /\ s1 = PutString(10, v1, s2)
      BY <1>7, <1>11, <1>14
    <3> QED BY ONLY <2>1, <2>4, <2>6, <2>8, <3>3, <3>4, StringReads
  <2> QED BY <2>3, <2>9
<1> QED BY <1>2, <1>12, <1>15, <1>16, <1>17 DEF Written

(* with one string, *)
LEMMA OneString ==
  ASSUME NEW t, NEW name, Unmarshal[t] = <<String(name)>>, Zero[t] = [f \in {name} |-> <<>>],
         NEW v \in Text
  PROVE  Written(t, [f \in {name} |-> v], PutString(10, v, <<>>), SizeString(v))
<1>1. PICK d, s, from, m : d = <<>> /\ s = PutString(10, v, d) /\ from = Zero[t] /\ m = [f \in {name} |-> v]
  OBVIOUS
<1>2. v \in Seq(Byte) /\ d \in Seq(Byte) /\ Len(d) = 0 /\ 10 \in Byte
  BY <1>1 DEF Text, Byte
<1>3. s \in Seq(Byte) /\ Len(s) = SizeString(v) + Len(d) /\ Len(v) \in Nat /\ Len(v) <= Len(s) /\ SizeString(v) \in Nat
  BY ONLY <1>1, <1>2, StringWritten, SizeTypes
<1>4. Len(s) = SizeString(v) /\ Len(s) \in Nat
  BY <1>2, <1>3
<1>5. ASSUME Len(s) < Half PROVE Reads(t, from, s, m)
  <2>1. Len(v) \in Word
    <3>1. Half \in Nat
      BY WidthFacts
    <3>2. Len(v) < Half
      BY ONLY <1>3, <1>4, <1>5, <3>1
    <3> QED BY <1>3, <3>2, ShortLength
  <2>2. 1 \in DOMAIN Unmarshal[t] /\ Unmarshal[t][1] = String(name) /\ 1 \in 1 .. 3 /\ 10 = 8 * 1 + 2
    OBVIOUS
  <2>3. \A n : ~Appends(t, n)
    BY Plain, PlainCases
  <2>4. m = Put(t, from, name, v) /\ (v = <<>> => m = from)
    BY <1>1, <2>3, PutPlain
  <2>5. Partial(t, m, from)
    BY <1>1 DEF Partial
  <2>6. Reads(t, m, d, m)
    BY <1>1, NothingLeft
  <2>7. s = PutString(10, v, d) /\ v \in Seq(Byte) /\ d \in Seq(Byte)
    BY <1>1, <1>2
  <2> QED BY ONLY <2>1, <2>2, <2>4, <2>5, <2>6, <2>7, StringReads
<1> QED BY <1>1, <1>3, <1>4, <1>5 DEF Written

(* A message with one field. *)
One(name, v) == [f \in {name} |-> v]

(* with one message, *)
LEMMA OneMessage ==
  ASSUME NEW t, NEW name, NEW of, Unmarshal[t] = <<Message(name, of)>>,
         Zero[t] = One(name, Zero[of]),
         NEW v, NEW e, NEW size, Written(of, v, e, size)
  PROVE  Written(t, One(name, v), PutMessage(10, e, <<>>), SizeMessage(size))
<1>1. PICK d, s, from, m : d = <<>> /\ s = PutMessage(10, e, d) /\ from = Zero[t] /\ m = One(name, v)
  OBVIOUS
<1>2. e \in Seq(Byte) /\ Len(e) = size /\ d \in Seq(Byte) /\ Len(d) = 0 /\ 10 \in Byte
  BY <1>1 DEF Written, Byte
<1>3. s \in Seq(Byte) /\ Len(s) = SizeMessage(Len(e)) + Len(d) /\ Len(e) \in Nat /\ Len(e) <= Len(s)
      /\ SizeMessage(Len(e)) \in Nat
  BY ONLY <1>1, <1>2, MessageWritten, SizeTypes
<1>4. Len(s) = SizeMessage(size) /\ Len(s) \in Nat
  BY <1>2, <1>3
<1>5. ASSUME Len(s) < Half PROVE Reads(t, from, s, m)
  <2>1. Len(e) \in Word /\ Len(e) < Half
    <3>1. Half \in Nat
      BY WidthFacts
    <3>2. Len(e) < Half
      BY ONLY <1>3, <1>4, <1>5, <3>1
    <3> QED BY <1>3, <3>2, ShortLength
  <2>2. 1 \in DOMAIN Unmarshal[t] /\ Unmarshal[t][1] = Message(name, of) /\ 1 \in 1 .. 3 /\ 10 = 8 * 1 + 2
    OBVIOUS
  <2>3. \A n : ~Appends(t, n)
    BY Plain, PlainCases
  <2>4. m = Put(t, from, name, v)
    BY <1>1, <2>3, PutPlain DEF One
  <2>5. Partial(t, m, from)
    BY <1>1 DEF Partial, One
  <2>6. Reads(t, m, d, m)
    BY <1>1, NothingLeft
  <2>7. PICK start : start = from[name]
    OBVIOUS
  <2>8. Reads(of, start, e, v)
    <3>1. from[name] = Zero[of]
      BY <1>1 DEF One
    <3> QED BY <2>1, <2>7, <3>1 DEF Written
  <2>9. s = PutMessage(10, e, d) /\ e \in Seq(Byte) /\ d \in Seq(Byte)
    BY <1>1, <1>2
  <2> QED BY ONLY <2>1, <2>2, <2>4, <2>5, <2>6, <2>7, <2>8, <2>9, MessageReads
<1> QED BY <1>1, <1>3, <1>4, <1>5 DEF Written

(* with a flag. *)
LEMMA ScheduledWork_Written ==
  ASSUME Generated, NEW m \in [Repeat : BOOLEAN]
  PROVE  Written("ScheduledWork", m, ScheduledWork_Marshal(m), ScheduledWork_Size(m))
<1>1. Unmarshal["ScheduledWork"] = <<Bool("Repeat")>> /\ Zero["ScheduledWork"] = [Repeat |-> FALSE]
  BY DEF Generated, Unmarshals, Zeros, ScheduledWork_Unmarshal, ScheduledWork_Zero
<1>2. PICK t, d : t = "ScheduledWork" /\ d = <<>>
  OBVIOUS
<1>3. d \in Seq(Byte) /\ Len(d) = 0 /\ 8 \in Byte
  BY <1>2 DEF Byte
<1>4. CASE m.Repeat = FALSE
  <2>1. m = Zero[t]
    BY <1>1, <1>2, <1>4
  <2>2. ScheduledWork_Marshal(m) = d /\ ScheduledWork_Size(m) = 0
    <3>1. PutBool(8, FALSE, d) = d /\ SizeBool(FALSE) = 0
      BY ONLY <1>3, BoolWritten
    <3> QED BY <1>2, <1>4, <3>1, HexTags DEF ScheduledWork_Marshal, ScheduledWork_Size
  <2>3. Reads(t, Zero[t], d, m)
    BY <1>2, <2>1, NothingLeft
  <2> QED BY <1>2, <1>3, <2>2, <2>3 DEF Written
<1>5. CASE m.Repeat = TRUE
  <2>1. ScheduledWork_Marshal(m) = PutBool(8, TRUE, <<>>) /\ ScheduledWork_Size(m) = 2
    BY <1>3, <1>5, HexTags, BoolWritten DEF ScheduledWork_Marshal, ScheduledWork_Size
  <2>2. PutBool(8, TRUE, <<>>) \in Seq(Byte) /\ Len(PutBool(8, TRUE, <<>>)) = 2
    <3>1. PutBool(8, TRUE, d) \in Seq(Byte) /\ Len(PutBool(8, TRUE, d)) = 2 + Len(d)
      BY ONLY <1>3, BoolWritten
    <3>2. 2 + Len(d) = 2
      BY ONLY <1>3
    <3> QED BY ONLY <1>2, <3>1, <3>2, Zenon
  <2>3. 1 \in DOMAIN Unmarshal[t] /\ Unmarshal[t][1] = Bool("Repeat") /\ 1 \in 1 .. 3 /\ 8 = 8 * 1
    BY <1>1, <1>2
  <2>4. \A n : ~Appends(t, n)
    BY <1>1, <1>2, Plain, PlainCases
  <2>5. PICK z : z = [Repeat |-> FALSE]
    OBVIOUS
  <2>6. m = [Repeat |-> TRUE] /\ z = Zero[t]
    BY <1>1, <1>2, <1>5, <2>5
  <2>7. m = Put(t, z, "Repeat", TRUE)
    <3>1. \A v : Put(t, z, "Repeat", v) = [z EXCEPT !["Repeat"] = v]
      BY <2>4, PutPlain
    <3>2. \A v : [z EXCEPT !["Repeat"] = v] = [Repeat |-> v]
      BY <2>5
    <3> QED BY <2>6, <3>1, <3>2, Zenon
  <2>8. Partial(t, m, z)
    BY <2>5, <2>6 DEF Partial
  <2>9. Reads(t, z, PutBool(8, TRUE, <<>>), m)
    BY <2>3, <2>7, <2>8, BoolReads
  <2> QED BY <1>2, <2>1, <2>2, <2>6, <2>9 DEF Written
<1> QED BY <1>4, <1>5

(* A list is written from its end, *)
IsLast(f, tag, ms, d) ==
  f = [k \in 0 .. Len(ms) |-> IF k = 0 THEN d ELSE PutMessage(tag, ms[Len(ms) + 1 - k], f[k - 1])]

(* The recursion of PutRepeated, over the list from its end. *)
LEMMA RepeatedUnfold ==
  ASSUME NEW tag \in Byte, NEW ms \in Seq(Seq(Byte)), NEW d \in Seq(Byte)
  PROVE  \E f \in [0 .. Len(ms) -> Seq(Byte)] : IsLast(f, tag, ms, d) /\ PutRepeated(tag, ms, d) = f[Len(ms)]
<1> DEFINE n == Len(ms)
           V == Seq(Byte)
           st == [x \in (1 .. n) \X V |-> PutMessage(tag, ms[n + 1 - x[1]], x[2])]
<1>1. n \in Nat /\ \A k \in 1 .. n : n + 1 - k \in 1 .. n /\ ms[n + 1 - k] \in V
  <2>1. n \in Nat /\ \A k \in 1 .. n : ms[k] \in V
    BY LenProperties, ElementOfSeq
  <2> QED BY <2>1
<1>2. st \in [(1 .. n) \X V -> V]
  <2>1. \A k \in 1 .. n, s \in V : PutMessage(tag, ms[n + 1 - k], s) \in V
    BY <1>1, MessageWritten
  <2> HIDE DEF n, V
  <2> QED BY <2>1
<1>3. PICK f \in [0 .. n -> V] : f = [k \in 0 .. n |-> IF k = 0 THEN d ELSE st[<<k, f[k - 1]>>]]
  <2>1. PICK N, S, s : N = n /\ S = V /\ s = st
    OBVIOUS
  <2>2. N \in Nat /\ d \in S /\ s \in [(1 .. N) \X S -> S]
    <3>1. d \in V
      OBVIOUS
    <3> HIDE DEF n, V, st
    <3> QED BY <1>1, <1>2, <2>1, <3>1
  <2>3. \E f : IsSteps(f, N, S, d, s)
    BY ONLY <2>2, StepsExist
  <2> HIDE DEF n, V, st
  <2> QED BY <2>1, <2>3 DEF IsSteps
<1>4. IsLast(f, tag, ms, d)
  <2>1. ASSUME NEW k \in 0 .. n PROVE f[k] = IF k = 0 THEN d ELSE PutMessage(tag, ms[n + 1 - k], f[k - 1])
    <3>1. k # 0 => k \in 1 .. n /\ f[k - 1] \in V
      <4>1. k # 0 => k \in 1 .. n /\ k - 1 \in 0 .. n
        <5> HIDE DEF n
        <5> QED BY <1>1
      <4> HIDE DEF n, V, st
      <4> QED BY <1>3, <4>1
    <3>2. k # 0 => st[<<k, f[k - 1]>>] = PutMessage(tag, ms[n + 1 - k], f[k - 1])
      <4> HIDE DEF n, V
      <4> QED BY <3>1
    <3> HIDE DEF st
    <3> QED BY <1>3, <3>2
  <2>2. f = [k \in 0 .. n |-> f[k]]
    BY <1>3
  <2> QED BY <2>1, <2>2 DEF IsLast
<1>5. PICK g : g = CHOOSE h : IsLast(h, tag, ms, d)
  OBVIOUS
<1>6. IsLast(g, tag, ms, d)
  BY <1>4, <1>5
<1>7. PutRepeated(tag, ms, d) = g[n]
  BY <1>5 DEF PutRepeated, IsLast
<1>8. \A k \in 0 .. n : g[k] \in V
  <2> DEFINE G == {k \in Nat : k <= n => g[k] \in V}
  <2>1. \A k \in 0 .. n : g[k] = IF k = 0 THEN d ELSE PutMessage(tag, ms[n + 1 - k], g[k - 1])
    BY <1>6 DEF IsLast
  <2>2. 0 \in G
    BY <1>1, <2>1
  <2>3. ASSUME NEW k \in Nat, k \in G PROVE k + 1 \in G
    <3> SUFFICES ASSUME k + 1 <= n PROVE g[k + 1] \in V
      OBVIOUS
    <3>1. k + 1 \in 0 .. n /\ k + 1 # 0 /\ k + 1 \in 1 .. n /\ (k + 1) - 1 = k
      BY <1>1
    <3>2. g[k] \in V
      BY <1>1, <2>3
    <3>3. g[k + 1] = PutMessage(tag, ms[n + 1 - (k + 1)], g[k])
      BY <2>1, <3>1
    <3>4. ms[n + 1 - (k + 1)] \in V
      BY <1>1, <3>1
    <3>5. PutMessage(tag, ms[n + 1 - (k + 1)], g[k]) \in Seq(Byte)
      <4>1. PICK a, s : a = ms[n + 1 - (k + 1)] /\ s = g[k]
        OBVIOUS
      <4>2. a \in Seq(Byte) /\ s \in Seq(Byte)
        BY <3>2, <3>4, <4>1
      <4>3. PutMessage(tag, a, s) \in Seq(Byte)
        BY <4>2, MessageWritten
      <4> HIDE DEF n, V
      <4> QED BY <4>1, <4>3
    <3> QED BY <3>3, <3>5
  <2> HIDE DEF G
  <2>4. Nat \subseteq G
    BY <2>2, <2>3, StepInduction
  <2> QED BY <1>1, <2>4 DEF G
<1>9. g \in [0 .. n -> V]
  <2>1. g = [k \in 0 .. n |-> g[k]]
    BY <1>6 DEF IsLast
  <2> QED BY <1>8, <2>1
<1> QED BY <1>6, <1>7, <1>9

(* and its size is added up from its start. *)
IsUpTo(f, ls) == f = [i \in 0 .. Len(ls) |-> IF i = 0 THEN 0 ELSE f[i - 1] + SizeBytes(ls[i])]

(* The recursion of SizeRepeated. *)
LEMMA SizeUnfold ==
  ASSUME NEW ls \in Seq(Nat)
  PROVE  \E f : IsUpTo(f, ls) /\ (\A k \in 0 .. Len(ls) : f[k] \in Nat) /\ SizeRepeated(ls) = f[Len(ls)]
<1> DEFINE n == Len(ls)
           st == [x \in (1 .. n) \X Nat |-> x[2] + SizeBytes(ls[x[1]])]
<1>1. n \in Nat /\ \A k \in 1 .. n : ls[k] \in Nat /\ SizeBytes(ls[k]) \in Nat
  BY LenProperties, ElementOfSeq, SizeTypes
<1>2. st \in [(1 .. n) \X Nat -> Nat]
  <2>1. \A k \in 1 .. n, s \in Nat : s + SizeBytes(ls[k]) \in Nat
    BY <1>1
  <2> HIDE DEF n
  <2> QED BY <2>1
<1>3. PICK f \in [0 .. n -> Nat] : f = [k \in 0 .. n |-> IF k = 0 THEN 0 ELSE st[<<k, f[k - 1]>>]]
  <2>1. PICK N, S, s : N = n /\ S = Nat /\ s = st
    OBVIOUS
  <2>2. N \in Nat /\ 0 \in S /\ s \in [(1 .. N) \X S -> S]
    <3> HIDE DEF n, st
    <3> QED BY <1>1, <1>2, <2>1
  <2>3. \E f : IsSteps(f, N, S, 0, s)
    BY ONLY <2>2, StepsExist
  <2> HIDE DEF n, st
  <2> QED BY <2>1, <2>3 DEF IsSteps
<1>4. IsUpTo(f, ls)
  <2>1. ASSUME NEW k \in 0 .. n PROVE f[k] = IF k = 0 THEN 0 ELSE f[k - 1] + SizeBytes(ls[k])
    <3>1. k # 0 => k \in 1 .. n /\ f[k - 1] \in Nat
      <4>1. k # 0 => k \in 1 .. n /\ k - 1 \in 0 .. n
        <5> HIDE DEF n
        <5> QED BY <1>1
      <4> HIDE DEF n, st
      <4> QED BY <1>3, <4>1
    <3>2. k # 0 => st[<<k, f[k - 1]>>] = f[k - 1] + SizeBytes(ls[k])
      <4> HIDE DEF n
      <4> QED BY <3>1
    <3> HIDE DEF st
    <3> QED BY <1>3, <3>2
  <2>2. f = [k \in 0 .. n |-> f[k]]
    BY <1>3
  <2> QED BY <2>1, <2>2 DEF IsUpTo
<1>5. PICK g : g = CHOOSE h : IsUpTo(h, ls)
  OBVIOUS
<1>6. IsUpTo(g, ls)
  BY <1>4, <1>5
<1>7. SizeRepeated(ls) = g[n]
  BY <1>5 DEF SizeRepeated, IsUpTo
<1>8. \A k \in 0 .. n : g[k] \in Nat
  <2> DEFINE G == {k \in Nat : k <= n => g[k] \in Nat}
  <2>1. \A k \in 0 .. n : g[k] = IF k = 0 THEN 0 ELSE g[k - 1] + SizeBytes(ls[k])
    BY <1>6 DEF IsUpTo
  <2>2. 0 \in G
    BY <1>1, <2>1
  <2>3. ASSUME NEW k \in Nat, k \in G PROVE k + 1 \in G
    <3> SUFFICES ASSUME k + 1 <= n PROVE g[k + 1] \in Nat
      OBVIOUS
    <3>1. k + 1 \in 0 .. n /\ k + 1 # 0 /\ k + 1 \in 1 .. n /\ (k + 1) - 1 = k
      BY <1>1
    <3>2. g[k] \in Nat
      BY <1>1, <2>3
    <3>3. g[k + 1] = g[k] + SizeBytes(ls[k + 1])
      BY <2>1, <3>1
    <3> QED BY <1>1, <3>1, <3>2, <3>3
  <2> HIDE DEF G
  <2>4. Nat \subseteq G
    BY <2>2, <2>3, StepInduction
  <2> QED BY <1>1, <2>4 DEF G
<1> QED BY <1>6, <1>7, <1>8
(* The list up to its j-th element, and with the next one. *)
LEMMA FirstElements ==
  ASSUME NEW C, NEW l \in Seq(C)
  PROVE  /\ Len(l) \in Nat /\ SubSeq(l, 1, 0) = <<>> /\ SubSeq(l, 1, Len(l)) = l
         /\ \A j \in 0 .. Len(l) : SubSeq(l, 1, j) \in Seq(C) /\ Len(SubSeq(l, 1, j)) = j
         /\ \A j \in 0 .. Len(l) - 1 : SubSeq(l, 1, j + 1) = Append(SubSeq(l, 1, j), l[j + 1])
<1>1. Len(l) \in Nat /\ \A i \in 1 .. Len(l) : l[i] \in C
  BY LenProperties, ElementOfSeq
<1>2. ASSUME NEW j \in 0 .. Len(l)
      PROVE  /\ SubSeq(l, 1, j) \in Seq(C) /\ Len(SubSeq(l, 1, j)) = j
             /\ \A i \in 1 .. j : SubSeq(l, 1, j)[i] = l[i]
  <2>1. /\ 1 \in Int /\ j \in Int /\ (\A i \in 1 .. j : l[i] \in C)
        /\ (IF 1 <= j THEN j - 1 + 1 ELSE 0) = j /\ 1 .. j - 1 + 1 = 1 .. j
    BY <1>1
  <2>2. /\ SubSeq(l, 1, j) \in Seq(C) /\ Len(SubSeq(l, 1, j)) = (IF 1 <= j THEN j - 1 + 1 ELSE 0)
        /\ \A i \in 1 .. j - 1 + 1 : SubSeq(l, 1, j)[i] = l[1 + i - 1]
    BY <2>1, SubSeqProperties
  <2> QED BY <2>1, <2>2
<1>3. ASSUME NEW j \in 0 .. Len(l) - 1
      PROVE  SubSeq(l, 1, j + 1) = Append(SubSeq(l, 1, j), l[j + 1])
  <2>1. PICK s, r, e : s = SubSeq(l, 1, j) /\ r = SubSeq(l, 1, j + 1) /\ e = l[j + 1]
    OBVIOUS
  <2>2. j \in 0 .. Len(l) /\ j + 1 \in 0 .. Len(l) /\ j + 1 \in 1 .. Len(l)
    BY <1>1
  <2>3. /\ s \in Seq(C) /\ Len(s) = j /\ (\A i \in 1 .. j : s[i] = l[i]) /\ e \in C
        /\ r \in Seq(C) /\ Len(r) = j + 1 /\ \A i \in 1 .. j + 1 : r[i] = l[i]
    BY <1>1, <1>2, <2>1, <2>2
  <2>4. /\ Append(s, e) \in Seq(C) /\ Len(Append(s, e)) = j + 1
        /\ (\A i \in 1 .. j : Append(s, e)[i] = s[i]) /\ Append(s, e)[j + 1] = e
    BY <2>3, AppendProperties
  <2>5. \A i \in 1 .. j + 1 : r[i] = Append(s, e)[i]
    <3>1. \A i \in 1 .. j + 1 : i \in 1 .. j \/ i = j + 1
      OBVIOUS
    <3> QED BY <2>1, <2>3, <2>4, <3>1
  <2>6. r = Append(s, e)
    BY <2>3, <2>4, <2>5, SeqEqual
  <2> QED BY <2>1, <2>6
<1>4. SubSeq(l, 1, 0) = <<>>
  BY SubSeqEmpty
<1> QED BY <1>1, <1>2, <1>3, <1>4, SubSeqFull

(* A list takes the bytes it asks for, and each element fits into them. *)
LEMMA ListLengths ==
  ASSUME NEW n \in Nat, NEW e, \A k \in 1 .. n : e[k] \in Seq(Byte),
         NEW f, f[0] = <<>>, \A k \in 0 .. n : f[k] \in Seq(Byte),
         \A k \in 1 .. n : f[k] = PutMessage(10, e[n + 1 - k], f[k - 1]),
         NEW g, g[0] = 0, \A k \in 0 .. n : g[k] \in Nat,
         \A k \in 1 .. n : g[k] = g[k - 1] + SizeBytes(Len(e[k]))
  PROVE  /\ Len(f[n]) = g[n]
         /\ \A k \in 0 .. n : Len(f[k]) \in Nat
         /\ \A k \in 1 .. n : Len(f[k - 1]) <= Len(f[k]) /\ Len(e[n + 1 - k]) <= Len(f[k])
<1>1. \A k \in 0 .. n : Len(f[k]) \in Nat
  BY LenProperties
<1>2. ASSUME NEW k \in 1 .. n
      PROVE  /\ Len(f[k]) = SizeBytes(Len(e[n + 1 - k])) + Len(f[k - 1])
             /\ Len(f[k - 1]) <= Len(f[k]) /\ Len(e[n + 1 - k]) <= Len(f[k])
             /\ SizeBytes(Len(e[n + 1 - k])) \in Nat
  <2>1. PICK a, b, c : a = e[n + 1 - k] /\ b = f[k - 1] /\ c = f[k]
    OBVIOUS
  <2>2. a \in Seq(Byte) /\ b \in Seq(Byte) /\ 10 \in Byte /\ c = PutMessage(10, a, b)
    <3>1. n + 1 - k \in 1 .. n /\ k - 1 \in 0 .. n
      OBVIOUS
    <3>2. 10 \in Byte
      BY DEF Byte
    <3> QED BY <2>1, <3>1, <3>2
  <2>3. Len(c) = SizeMessage(Len(a)) + Len(b) /\ Len(b) <= Len(c) /\ Len(a) <= Len(c) /\ Len(a) \in Nat
    BY ONLY <2>2, MessageWritten
  <2>4. SizeMessage(Len(a)) \in Nat /\ SizeMessage(Len(a)) = SizeBytes(Len(a))
    BY <2>3, SizeTypes DEF SizeMessage
  <2> QED BY <2>1, <2>3, <2>4
<1> DEFINE G == {k \in Nat : k <= n => Len(f[k]) + g[n - k] = g[n]}
<1>3. 0 \in G
  <2>1. Len(f[0]) = 0 /\ n - 0 = n
    OBVIOUS
  <2> QED BY <2>1
<1>4. ASSUME NEW k \in Nat, k \in G PROVE k + 1 \in G
  <2> SUFFICES ASSUME k + 1 <= n PROVE Len(f[k + 1]) + g[n - (k + 1)] = g[n]
    OBVIOUS
  <2>1. PICK h, i, j : h = k + 1 /\ i = n - k /\ j = n - (k + 1)
    OBVIOUS
  <2>2. /\ h \in 1 .. n /\ h - 1 = k /\ i \in 1 .. n /\ i - 1 = j /\ n + 1 - h = i
        /\ h \in 0 .. n /\ i \in 0 .. n /\ j \in 0 .. n /\ k \in 0 .. n
    BY <2>1
  <2>3. Len(f[k]) + g[i] = g[n]
    BY <1>4, <2>1
  <2>4. Len(f[h]) = SizeBytes(Len(e[i])) + Len(f[k]) /\ SizeBytes(Len(e[i])) \in Nat
    BY <1>2, <2>2
  <2>5. g[i] = g[j] + SizeBytes(Len(e[i])) /\ g[j] \in Nat /\ g[i] \in Nat
    BY <2>2
  <2>6. Len(f[k]) \in Nat /\ Len(f[h]) \in Nat
    BY <1>1, <2>2
  <2>7. Len(f[h]) + g[j] = g[n]
    BY ONLY <2>3, <2>4, <2>5, <2>6
  <2> QED BY <2>1, <2>7
<1>5. n \in G
  <2> HIDE DEF G
  <2>1. Nat \subseteq G
    BY <1>3, <1>4, StepInduction
  <2> QED BY <2>1
<1>6. Len(f[n]) = g[n]
  <2>1. Len(f[n]) + g[n - n] = g[n] /\ n - n = 0
    BY <1>5
  <2>2. Len(f[n]) \in Nat
    BY <1>1
  <2> QED BY <2>1, <2>2
<1> QED BY <1>1, <1>2, <1>6
(* Or a list of messages, *)
LEMMA OneList ==
  ASSUME NEW t, NEW name, NEW of, Unmarshal[t] = <<Repeated(name, of)>>,
         Zero[t] = One(name, <<>>),
         NEW C, NEW l \in Seq(C), NEW e \in Seq(Seq(Byte)), Len(e) = Len(l),
         \A i \in 1 .. Len(l) : Written(of, l[i], e[i], Len(e[i])),
         NEW ls \in Seq(Nat), Len(ls) = Len(l), \A i \in 1 .. Len(l) : ls[i] = Len(e[i])
  PROVE  Written(t, One(name, l), PutRepeated(10, e, <<>>), SizeRepeated(ls))
<1>1. PICK n, d, w : n = Len(l) /\ d = <<>> /\ w = [j \in 0 .. n |-> One(name, SubSeq(l, 1, j))]
  OBVIOUS
<1>2. n \in Nat /\ d \in Seq(Byte) /\ 10 \in Byte
  BY <1>1, LenProperties DEF Byte
<1>3. PICK f \in [0 .. n -> Seq(Byte)] : IsLast(f, 10, e, d) /\ PutRepeated(10, e, d) = f[n]
  <2>1. \E f \in [0 .. Len(e) -> Seq(Byte)] : IsLast(f, 10, e, d) /\ PutRepeated(10, e, d) = f[Len(e)]
    BY <1>2, RepeatedUnfold
  <2> QED BY <1>1, <2>1
<1>4. PICK g : IsUpTo(g, ls) /\ (\A k \in 0 .. n : g[k] \in Nat) /\ SizeRepeated(ls) = g[n]
  <2>1. \E g : IsUpTo(g, ls) /\ (\A k \in 0 .. Len(ls) : g[k] \in Nat) /\ SizeRepeated(ls) = g[Len(ls)]
    BY SizeUnfold
  <2> QED BY <1>1, <2>1
<1>5. f[0] = d /\ (\A k \in 0 .. n : f[k] \in Seq(Byte))
      /\ \A k \in 1 .. n : f[k] = PutMessage(10, e[n + 1 - k], f[k - 1])
  <2>1. \A k \in 0 .. n : f[k] = IF k = 0 THEN d ELSE PutMessage(10, e[n + 1 - k], f[k - 1])
    BY <1>1, <1>3 DEF IsLast
  <2>2. \A k \in 0 .. n : f[k] \in Seq(Byte)
    BY <1>3
  <2>3. 0 \in 0 .. n /\ \A k \in 1 .. n : k \in 0 .. n /\ k # 0
    BY <1>2
  <2> QED BY <2>1, <2>2, <2>3
<1>6. g[0] = 0 /\ \A k \in 1 .. n : g[k] = g[k - 1] + SizeBytes(Len(e[k]))
  <2>1. \A k \in 0 .. n : g[k] = IF k = 0 THEN 0 ELSE g[k - 1] + SizeBytes(ls[k])
    BY <1>1, <1>4 DEF IsUpTo
  <2>2. 0 \in 0 .. n /\ \A k \in 1 .. n : k \in 0 .. n /\ k # 0 /\ ls[k] = Len(e[k])
    BY <1>1, <1>2
  <2> QED BY <2>1, <2>2
<1>7. \A k \in 1 .. n : e[k] \in Seq(Byte) /\ l[k] \in C
  BY <1>1, ElementOfSeq
<1>8. /\ Len(f[n]) = g[n]
      /\ \A k \in 0 .. n : Len(f[k]) \in Nat
      /\ \A k \in 1 .. n : Len(f[k - 1]) <= Len(f[k]) /\ Len(e[n + 1 - k]) <= Len(f[k])
  <2>1. n \in Nat /\ (\A k \in 1 .. n : e[k] \in Seq(Byte))
    BY ONLY <1>1, <1>2, <1>7
  <2>2. f[0] = <<>>
    BY <1>1, <1>5
  <2>3. \A k \in 0 .. n : g[k] \in Nat
    BY <1>4
  <2> QED BY ONLY <2>1, <2>2, <2>3, <1>5, <1>6, ListLengths
<1>9. /\ w[0] = Zero[t] /\ w[n] = One(name, l)
      /\ \A j \in 0 .. n : w[j] = One(name, SubSeq(l, 1, j)) /\ Partial(t, w[n], w[j])
      /\ \A j \in 0 .. n - 1 : w[j + 1] = Put(t, w[j], name, l[j + 1])
  <2>1. \A j \in 0 .. n : w[j] = One(name, SubSeq(l, 1, j)) /\ w[j][name] = SubSeq(l, 1, j)
    BY <1>1 DEF One
  <2>2. 0 \in 0 .. n /\ n \in 0 .. n /\ \A j \in 0 .. n - 1 : j \in 0 .. n /\ j + 1 \in 0 .. n
    BY <1>2
  <2>3. w[0] = Zero[t] /\ w[n] = One(name, l) /\ w[n][name] = l /\ DOMAIN w[n] = {name}
    BY <1>1, <2>1, <2>2, FirstElements DEF One
  <2>4. Appends(t, name)
    <3>1. 1 \in DOMAIN Unmarshal[t] /\ Unmarshal[t][1] = Repeated(name, of)
      OBVIOUS
    <3>2. Repeated(name, of).name = name /\ Repeated(name, of).kind = "repeated"
      BY DEF Repeated
    <3> QED BY <3>1, <3>2 DEF Appends
  <2>5. ASSUME NEW j \in 0 .. n PROVE Partial(t, w[n], w[j])
    <3>1. Len(w[j][name]) = j
      BY <1>1, <2>1, FirstElements
    <3>2. w[j][name] = SubSeq(w[n][name], 1, Len(w[j][name]))
      BY <2>1, <2>3, <3>1
    <3> QED BY <2>3, <2>4, <3>2 DEF Partial
  <2>6. ASSUME NEW j \in 0 .. n - 1 PROVE w[j + 1] = Put(t, w[j], name, l[j + 1])
    <3>1. SubSeq(l, 1, j + 1) = Append(SubSeq(l, 1, j), l[j + 1])
      BY <1>1, FirstElements
    <3>2. Put(t, w[j], name, l[j + 1]) = [w[j] EXCEPT ![name] = Append(@, l[j + 1])]
      BY <2>4 DEF Put
    <3>3. [w[j] EXCEPT ![name] = Append(@, l[j + 1])] = One(name, Append(SubSeq(l, 1, j), l[j + 1]))
      BY <2>1, <2>2 DEF One
    <3> QED BY <2>1, <2>2, <3>1, <3>2, <3>3
  <2> QED BY <2>1, <2>3, <2>5, <2>6
<1> DEFINE G == {k \in Nat : k <= n /\ Len(f[k]) < Half => Reads(t, w[n - k], f[k], w[n])}
<1>10. 0 \in G
  <2>1. n - 0 = n /\ f[0] = <<>>
    BY <1>1, <1>2, <1>5
  <2>2. Reads(t, w[n], <<>>, w[n])
    BY NothingLeft
  <2> QED BY <2>1, <2>2
<1>11. ASSUME NEW k \in Nat, k \in G PROVE k + 1 \in G
  <2> SUFFICES ASSUME k + 1 <= n, Len(f[k + 1]) < Half
               PROVE  Reads(t, w[n - (k + 1)], f[k + 1], w[n])
    OBVIOUS
  <2>1. PICK h, i, j : h = k + 1 /\ i = n - k /\ j = n - (k + 1)
    OBVIOUS
  <2>2. /\ h \in 1 .. n /\ h - 1 = k /\ i \in 1 .. n /\ j + 1 = i /\ n + 1 - h = i
        /\ h \in 0 .. n /\ j \in 0 .. n /\ j \in 0 .. n - 1 /\ k \in 0 .. n /\ k <= n
    BY <1>2, <2>1
  <2>3. PICK a, b, c, x, y, v, to : a = e[i] /\ b = f[k] /\ c = f[h] /\ x = w[j] /\ y = w[i] /\ v = l[i] /\ to = w[n]
    OBVIOUS
  <2>4. a \in Seq(Byte) /\ b \in Seq(Byte) /\ c = PutMessage(10, a, b)
    BY <1>5, <1>7, <2>2, <2>3
  <2>5. Len(a) \in Word /\ Len(a) < Half /\ Len(b) < Half
    <3>1. Half \in Nat
      BY WidthFacts
    <3>2. Len(a) \in Nat /\ Len(b) \in Nat /\ Len(c) \in Nat
      BY <1>8, <2>2, <2>3, <2>4, LenProperties
    <3>3. Len(a) <= Len(c) /\ Len(b) <= Len(c)
      BY <1>8, <2>2, <2>3
    <3>4. Len(c) < Half
      BY <2>1, <2>3
    <3>5. Len(a) < Half /\ Len(b) < Half
      BY ONLY <3>1, <3>2, <3>3, <3>4
    <3> QED BY <3>2, <3>5, ShortLength
  <2>6. Reads(of, Zero[of], a, v)
    BY <1>1, <2>2, <2>3, <2>5 DEF Written
  <2>7. Reads(t, y, b, to)
    BY <1>11, <2>1, <2>2, <2>3, <2>5
  <2>8. y = Put(t, x, name, v) /\ Partial(t, to, x)
    BY <1>9, <2>2, <2>3
  <2>9. /\ 1 \in DOMAIN Unmarshal[t] /\ Unmarshal[t][1] = Repeated(name, of) /\ 1 \in 1 .. 3 /\ 10 = 8 * 1 + 2
    OBVIOUS
  <2>10. PICK start : start = Zero[of]
    OBVIOUS
  <2>11. Reads(of, start, a, v)
    BY <2>6, <2>10
  <2>12. Reads(t, x, PutMessage(10, a, b), to)
    BY ONLY <2>4, <2>5, <2>7, <2>8, <2>9, <2>10, <2>11, MessageReads
  <2> QED BY <2>1, <2>3, <2>4, <2>12
<1>12. n \in G
  <2> HIDE DEF G
  <2>1. Nat \subseteq G
    BY <1>10, <1>11, StepInduction
  <2> QED BY <1>2, <2>1
<1>13. PICK s, m : s = f[n] /\ m = One(name, l)
  OBVIOUS
<1>14. s \in Seq(Byte) /\ Len(s) = SizeRepeated(ls)
  <2>1. n \in 0 .. n
    BY <1>2
  <2> QED BY <1>4, <1>5, <1>8, <1>13, <2>1
<1>15. Len(s) < Half => Reads(t, Zero[t], s, m)
  <2>1. Len(f[n]) < Half => Reads(t, w[n - n], f[n], w[n])
    BY <1>2, <1>12
  <2>2. n - n = 0
    BY <1>2
  <2> QED BY <1>9, <1>13, <2>1, <2>2
<1>16. Written(t, m, s, SizeRepeated(ls))
  BY <1>14, <1>15 DEF Written
<1> QED BY <1>1, <1>3, <1>13, <1>16

(* The list of limits is the one list there is. *)
LEMMA QueryVirtualStakingMaxCapLimitsResponse_Written ==
  ASSUME Generated, NEW m \in [MaxCapInfos : Seq(CapInfos)]
  PROVE  Written("QueryVirtualStakingMaxCapLimitsResponse", m, QueryVirtualStakingMaxCapLimitsResponse_Marshal(m),
                 QueryVirtualStakingMaxCapLimitsResponse_Size(m))
<1>1. PICK t, l, e, ls :
        /\ t = "QueryVirtualStakingMaxCapLimitsResponse" /\ l = m.MaxCapInfos
        /\ e = [i \in DOMAIN m.MaxCapInfos |-> VirtualStakingMaxCapInfo_Marshal(m.MaxCapInfos[i])]
        /\ ls = [i \in DOMAIN m.MaxCapInfos |-> VirtualStakingMaxCapInfo_Size(m.MaxCapInfos[i])]
  OBVIOUS
<1>2. l \in Seq(CapInfos) /\ Len(l) \in Nat /\ DOMAIN l = 1 .. Len(l) /\ \A i \in 1 .. Len(l) : l[i] \in CapInfos
  <2>1. l \in Seq(CapInfos)
    BY <1>1
  <2> QED BY <2>1, LenProperties, ElementOfSeq
<1>3. ASSUME NEW i \in 1 .. Len(l)
      PROVE  /\ e[i] \in Seq(Byte) /\ ls[i] = Len(e[i]) /\ ls[i] \in Nat
             /\ Written("VirtualStakingMaxCapInfo", l[i], e[i], Len(e[i]))
  <2>1. PICK c, a, n : c = l[i] /\ a = VirtualStakingMaxCapInfo_Marshal(c) /\ n = VirtualStakingMaxCapInfo_Size(c)
    OBVIOUS
  <2>2. Written("VirtualStakingMaxCapInfo", c, a, n)
    BY <1>2, <2>1, VirtualStakingMaxCapInfo_Written
  <2>3. a \in Seq(Byte) /\ Len(a) = n /\ n \in Nat
    BY <2>2, LenProperties DEF Written
  <2>4. e[i] = a /\ ls[i] = n
    BY <1>1, <1>2, <2>1
  <2> QED BY <2>1, <2>2, <2>3, <2>4
<1>4. e \in Seq(Seq(Byte)) /\ Len(e) = Len(l) /\ ls \in Seq(Nat) /\ Len(ls) = Len(l)
  <2>1. DOMAIN e = 1 .. Len(l) /\ DOMAIN ls = 1 .. Len(l)
    BY <1>1, <1>2
  <2>2. e \in [1 .. Len(l) -> Seq(Byte)] /\ ls \in [1 .. Len(l) -> Nat]
    <3>1. e = [i \in 1 .. Len(l) |-> e[i]] /\ ls = [i \in 1 .. Len(l) |-> ls[i]]
      BY <1>1, <1>2
    <3> QED BY <1>3, <3>1
  <2>3. PICK n, V : n = Len(l) /\ V = Seq(Byte)
    OBVIOUS
  <2>4. n \in Nat /\ e \in [1 .. n -> V] /\ ls \in [1 .. n -> Nat]
    BY <1>2, <2>2, <2>3
  <2>5. e \in Seq(V) /\ Len(e) = n
    BY ONLY <2>4
  <2>6. ls \in Seq(Nat) /\ Len(ls) = n
    BY ONLY <2>4
  <2> QED BY <2>3, <2>5, <2>6
<1>5. /\ Unmarshal[t] = <<Repeated("MaxCapInfos", "VirtualStakingMaxCapInfo")>>
      /\ Zero[t] = One("MaxCapInfos", <<>>)
  BY <1>1 DEF Generated, Unmarshals, Zeros, QueryVirtualStakingMaxCapLimitsResponse_Unmarshal,
              QueryVirtualStakingMaxCapLimitsResponse_Zero, One
<1>6. Written(t, One("MaxCapInfos", l), PutRepeated(10, e, <<>>), SizeRepeated(ls))
  <2>1. PICK C : C = CapInfos
    OBVIOUS
  <2>2. /\ l \in Seq(C) /\ \A i \in 1 .. Len(l) : ls[i] = Len(e[i])
        /\ \A i \in 1 .. Len(l) : Written("VirtualStakingMaxCapInfo", l[i], e[i], Len(e[i]))
    BY <1>2, <1>3, <2>1
  <2> QED BY ONLY <1>4, <1>5, <2>2, OneList
<1>7. m = One("MaxCapInfos", l)
  BY <1>1 DEF One
<1>8. /\ QueryVirtualStakingMaxCapLimitsResponse_Marshal(m) = PutRepeated(10, e, <<>>)
      /\ QueryVirtualStakingMaxCapLimitsResponse_Size(m) = SizeRepeated(ls)
  BY <1>1, HexTags DEF QueryVirtualStakingMaxCapLimitsResponse_Marshal, QueryVirtualStakingMaxCapLimitsResponse_Size
<1> QED BY <1>1, <1>6, <1>7, <1>8

(* The buffer has the size of what is written into it, so Marshal returns  *)
(* that.                                                                   *)
LEMMA MarshalWritten ==
  ASSUME NEW t, NEW m, NEW s, NEW size, Written(t, m, s, size)
  PROVE  Written(t, m, Marshal(s, size), Len(Marshal(s, size)))
<1>1. s \in Seq(Byte) /\ Len(s) = size
  BY DEF Written
<1>2. Marshal(s, size) = s
  BY <1>1, MarshalExact
<1> QED BY <1>1, <1>2

(* ValidatorAddress: a string. *)
LEMMA ValidatorAddress_Written ==
  ASSUME Generated, NEW m \in [Address : Text]
  PROVE  Written("ValidatorAddress", m, ValidatorAddress_Marshal(m), ValidatorAddress_Size(m))
<1>1. PICK t, v : t = "ValidatorAddress" /\ v = m.Address
  OBVIOUS
<1>2. v \in Text /\ m = [f \in {"Address"} |-> v]
  BY <1>1
<1>3. Unmarshal[t] = <<String("Address")>> /\ Zero[t] = [f \in {"Address"} |-> <<>>]
  BY <1>1 DEF Generated, Unmarshals, Zeros, ValidatorAddress_Unmarshal, ValidatorAddress_Zero
<1>4. Written(t, [f \in {"Address"} |-> v], PutString(10, v, <<>>), SizeString(v))
  BY <1>2, <1>3, OneString
<1>5. ValidatorAddress_Marshal(m) = PutString(10, v, <<>>) /\ ValidatorAddress_Size(m) = SizeString(v)
  BY <1>1, HexTags DEF ValidatorAddress_Marshal, ValidatorAddress_Size
<1> QED BY <1>1, <1>2, <1>4, <1>5

(* QueryVirtualStakingMaxCapLimitRequest: a string. *)
LEMMA QueryVirtualStakingMaxCapLimitRequest_Written ==
  ASSUME Generated, NEW m \in [Address : Text]
  PROVE  Written("QueryVirtualStakingMaxCapLimitRequest", m, QueryVirtualStakingMaxCapLimitRequest_Marshal(m), QueryVirtualStakingMaxCapLimitRequest_Size(m))
<1>1. PICK t, v : t = "QueryVirtualStakingMaxCapLimitRequest" /\ v = m.Address
  OBVIOUS
<1>2. v \in Text /\ m = [f \in {"Address"} |-> v]
  BY <1>1
<1>3. Unmarshal[t] = <<String("Address")>> /\ Zero[t] = [f \in {"Address"} |-> <<>>]
  BY <1>1 DEF Generated, Unmarshals, Zeros, QueryVirtualStakingMaxCapLimitRequest_Unmarshal, QueryVirtualStakingMaxCapLimitRequest_Zero
<1>4. Written(t, [f \in {"Address"} |-> v], PutString(10, v, <<>>), SizeString(v))
  BY <1>2, <1>3, OneString
<1>5. QueryVirtualStakingMaxCapLimitRequest_Marshal(m) = PutString(10, v, <<>>) /\ QueryVirtualStakingMaxCapLimitRequest_Size(m) = SizeString(v)
  BY <1>1, HexTags DEF QueryVirtualStakingMaxCapLimitRequest_Marshal, QueryVirtualStakingMaxCapLimitRequest_Size
<1> QED BY <1>1, <1>2, <1>4, <1>5

(* MsgTest: a string. *)
LEMMA MsgTest_Written ==
  ASSUME Generated, NEW m \in [Sender : Text]
  PROVE  Written("MsgTest", m, MsgTest_Marshal(m), MsgTest_Size(m))
<1>1. PICK t, v : t = "MsgTest" /\ v = m.Sender
  OBVIOUS
<1>2. v \in Text /\ m = [f \in {"Sender"} |-> v]
  BY <1>1
<1>3. Unmarshal[t] = <<String("Sender")>> /\ Zero[t] = [f \in {"Sender"} |-> <<>>]
  BY <1>1 DEF Generated, Unmarshals, Zeros, MsgTest_Unmarshal, MsgTest_Zero
<1>4. Written(t, [f \in {"Sender"} |-> v], PutString(10, v, <<>>), SizeString(v))
  BY <1>2, <1>3, OneString
<1>5. MsgTest_Marshal(m) = PutString(10, v, <<>>) /\ MsgTest_Size(m) = SizeString(v)
  BY <1>1, HexTags DEF MsgTest_Marshal, MsgTest_Size
<1> QED BY <1>1, <1>2, <1>4, <1>5

(* GenesisState: a message. *)
LEMMA GenesisState_Written ==
  ASSUME Generated, NEW m \in [Params : ParamValues]
  PROVE  Written("GenesisState", m, GenesisState_Marshal(m), GenesisState_Size(m))
<1>1. PICK t, v, e, size : t = "GenesisState" /\ v = m.Params /\ e = Params_Marshal(v) /\ size = Params_Size(v)
  OBVIOUS
<1>2. v \in ParamValues /\ m = One("Params", v)
  BY <1>1 DEF One
<1>3. Unmarshal[t] = <<Message("Params", "Params")>> /\ Zero[t] = One("Params", Zero["Params"])
  BY <1>1 DEF Generated, Unmarshals, Zeros, GenesisState_Unmarshal, GenesisState_Zero, One
<1>4. Written("Params", v, e, size)
  BY <1>1, <1>2, Params_Written
<1>5. Written(t, One("Params", v), PutMessage(10, e, <<>>), SizeMessage(size))
  BY ONLY <1>3, <1>4, OneMessage
<1>6. GenesisState_Marshal(m) = PutMessage(10, e, <<>>) /\ GenesisState_Size(m) = SizeMessage(size)
  BY <1>1, HexTags DEF GenesisState_Marshal, GenesisState_Size
<1> QED BY <1>1, <1>2, <1>5, <1>6

(* QueryParamsResponse: a message. *)
LEMMA QueryParamsResponse_Written ==
  ASSUME Generated, NEW m \in [Params : ParamValues]
  PROVE  Written("QueryParamsResponse", m, QueryParamsResponse_Marshal(m), QueryParamsResponse_Size(m))
<1>1. PICK t, v, e, size : t = "QueryParamsResponse" /\ v = m.Params /\ e = Params_Marshal(v) /\ size = Params_Size(v)
  OBVIOUS
<1>2. v \in ParamValues /\ m = One("Params", v)
  BY <1>1 DEF One
<1>3. Unmarshal[t] = <<Message("Params", "Params")>> /\ Zero[t] = One("Params", Zero["Params"])
  BY <1>1 DEF Generated, Unmarshals, Zeros, QueryParamsResponse_Unmarshal, QueryParamsResponse_Zero, One
<1>4. Written("Params", v, e, size)
  BY <1>1, <1>2, Params_Written
<1>5. Written(t, One("Params", v), PutMessage(10, e, <<>>), SizeMessage(size))
  BY ONLY <1>3, <1>4, OneMessage
<1>6. QueryParamsResponse_Marshal(m) = PutMessage(10, e, <<>>) /\ QueryParamsResponse_Size(m) = SizeMessage(size)
  BY <1>1, HexTags DEF QueryParamsResponse_Marshal, QueryParamsResponse_Size
<1> QED BY <1>1, <1>2, <1>5, <1>6

(* ProviderGenesisState: a message. *)
LEMMA ProviderGenesisState_Written ==
  ASSUME Generated, NEW m \in [Params : {Empty}]
  PROVE  Written("ProviderGenesisState", m, ProviderGenesisState_Marshal(m), ProviderGenesisState_Size(m))
<1>1. PICK t, v, e, size : t = "ProviderGenesisState" /\ v = m.Params /\ e = ProviderParams_Marshal(v) /\ size = ProviderParams_Size(v)
  OBVIOUS
<1>2. v \in {Empty} /\ m = One("Params", v)
  BY <1>1 DEF One
<1>3. Unmarshal[t] = <<Message("Params", "ProviderParams")>> /\ Zero[t] = One("Params", Zero["ProviderParams"])
  BY <1>1 DEF Generated, Unmarshals, Zeros, ProviderGenesisState_Unmarshal, ProviderGenesisState_Zero, One
<1>4. Written("ProviderParams", v, e, size)
  BY <1>1, <1>2, ProviderParams_Written
<1>5. Written(t, One("Params", v), PutMessage(10, e, <<>>), SizeMessage(size))
  BY ONLY <1>3, <1>4, OneMessage
<1>6. ProviderGenesisState_Marshal(m) = PutMessage(10, e, <<>>) /\ ProviderGenesisState_Size(m) = SizeMessage(size)
  BY <1>1, HexTags DEF ProviderGenesisState_Marshal, ProviderGenesisState_Size
<1> QED BY <1>1, <1>2, <1>5, <1>6

(* ParamsResponse: a message. *)
LEMMA ParamsResponse_Written ==
  ASSUME Generated, NEW m \in [Params : {Empty}]
  PROVE  Written("ParamsResponse", m, ParamsResponse_Marshal(m), ParamsResponse_Size(m))
<1>1. PICK t, v, e, size : t = "ParamsResponse" /\ v = m.Params /\ e = ProviderParams_Marshal(v) /\ size = ProviderParams_Size(v)
  OBVIOUS
<1>2. v \in {Empty} /\ m = One("Params", v)
  BY <1>1 DEF One
<1>3. Unmarshal[t] = <<Message("Params", "ProviderParams")>> /\ Zero[t] = One("Params", Zero["ProviderParams"])
  BY <1>1 DEF Generated, Unmarshals, Zeros, ParamsResponse_Unmarshal, ParamsResponse_Zero, One
<1>4. Written("ProviderParams", v, e, size)
  BY <1>1, <1>2, ProviderParams_Written
<1>5. Written(t, One("Params", v), PutMessage(10, e, <<>>), SizeMessage(size))
  BY ONLY <1>3, <1>4, OneMessage
<1>6. ParamsResponse_Marshal(m) = PutMessage(10, e, <<>>) /\ ParamsResponse_Size(m) = SizeMessage(size)
  BY <1>1, HexTags DEF ParamsResponse_Marshal, ParamsResponse_Size
<1> QED BY <1>1, <1>2, <1>5, <1>6

(* What Marshal returns for any message of any type stands for it. *)
LEMMA MarshalOfWritten ==
  ASSUME Generated, NEW t \in Types, NEW m \in Messages[t]
  PROVE  Written(t, m, MarshalOf(t, m), Len(MarshalOf(t, m)))
<1>0. t \in {"Coin",
            "VirtualStakingMaxCapInfo",
            "Params",
            "GenesisState",
            "ScheduledWork",
            "ValidatorAddress",
            "MsgSetVirtualStakingMaxCap",
            "MsgSetVirtualStakingMaxCapResponse",
            "QueryVirtualStakingMaxCapLimitRequest",
            "QueryVirtualStakingMaxCapLimitResponse",
            "QueryVirtualStakingMaxCapLimitsRequest",
            "QueryVirtualStakingMaxCapLimitsResponse",
            "QueryParamsRequest",
            "QueryParamsResponse",
            "ProviderParams",
            "ProviderGenesisState",
            "ParamsRequest",
            "ParamsResponse",
            "MsgTest",
            "MsgTestResponse",
            "MsgUpdateParams",
            "MsgUpdateParamsResponse"}
  BY DEF Generated, Unmarshals
<1>1. CASE t = "Coin"
  <2>1. m \in Coins
    BY <1>1 DEF Messages
  <2>2. MarshalOf(t, m) = Marshal(Coin_Marshal(m), Coin_Size(m))
    BY <1>1 DEF MarshalOf
  <2>4. Written(t, m, Coin_Marshal(m), Coin_Size(m))
    BY <1>1, <2>1, Coin_Written
  <2> QED BY <2>2, <2>4, MarshalWritten
<1>2. CASE t = "VirtualStakingMaxCapInfo"
  <2>1. m \in CapInfos
    BY <1>2 DEF Messages
  <2>2. MarshalOf(t, m) = Marshal(VirtualStakingMaxCapInfo_Marshal(m), VirtualStakingMaxCapInfo_Size(m))
    BY <1>2 DEF MarshalOf
  <2>4. Written(t, m, VirtualStakingMaxCapInfo_Marshal(m), VirtualStakingMaxCapInfo_Size(m))
    BY <1>2, <2>1, VirtualStakingMaxCapInfo_Written
  <2> QED BY <2>2, <2>4, MarshalWritten
<1>3. CASE t = "Params"
  <2>1. m \in ParamValues
    BY <1>3 DEF Messages
  <2>2. MarshalOf(t, m) = Marshal(Params_Marshal(m), Params_Size(m))
    BY <1>3 DEF MarshalOf
  <2>4. Written(t, m, Params_Marshal(m), Params_Size(m))
    BY <1>3, <2>1, Params_Written
  <2> QED BY <2>2, <2>4, MarshalWritten
<1>4. CASE t = "GenesisState"
  <2>1. m \in [Params : ParamValues]
    BY <1>4 DEF Messages
  <2>2. MarshalOf(t, m) = Marshal(GenesisState_Marshal(m), GenesisState_Size(m))
    BY <1>4 DEF MarshalOf
  <2>4. Written(t, m, GenesisState_Marshal(m), GenesisState_Size(m))
    BY <1>4, <2>1, GenesisState_Written
  <2> QED BY <2>2, <2>4, MarshalWritten
<1>5. CASE t = "ScheduledWork"
  <2>1. m \in [Repeat : BOOLEAN]
    BY <1>5 DEF Messages
  <2>2. MarshalOf(t, m) = Marshal(ScheduledWork_Marshal(m), ScheduledWork_Size(m))
    BY <1>5 DEF MarshalOf
  <2>4. Written(t, m, ScheduledWork_Marshal(m), ScheduledWork_Size(m))
    BY <1>5, <2>1, ScheduledWork_Written
  <2> QED BY <2>2, <2>4, MarshalWritten
<1>6. CASE t = "ValidatorAddress"
  <2>1. m \in [Address : Text]
    BY <1>6 DEF Messages
  <2>2. MarshalOf(t, m) = Marshal(ValidatorAddress_Marshal(m), ValidatorAddress_Size(m))
    BY <1>6 DEF MarshalOf
  <2>4. Written(t, m, ValidatorAddress_Marshal(m), ValidatorAddress_Size(m))
    BY <1>6, <2>1, ValidatorAddress_Written
  <2> QED BY <2>2, <2>4, MarshalWritten
<1>7. CASE t = "MsgSetVirtualStakingMaxCap"
  <2>1. m \in [Authority : Text, Contract : Text, MaxCap : Coins]
    BY <1>7 DEF Messages
  <2>2. MarshalOf(t, m) = Marshal(MsgSetVirtualStakingMaxCap_Marshal(m), MsgSetVirtualStakingMaxCap_Size(m))
    BY <1>7 DEF MarshalOf
  <2>4. Written(t, m, MsgSetVirtualStakingMaxCap_Marshal(m), MsgSetVirtualStakingMaxCap_Size(m))
    BY <1>7, <2>1, MsgSetVirtualStakingMaxCap_Written
  <2> QED BY <2>2, <2>4, MarshalWritten
<1>8. CASE t = "MsgSetVirtualStakingMaxCapResponse"
  <2>1. m \in {Empty}
    BY <1>8 DEF Messages
  <2>2. MarshalOf(t, m) = Marshal(MsgSetVirtualStakingMaxCapResponse_Marshal(m), MsgSetVirtualStakingMaxCapResponse_Size(m))
    BY <1>8 DEF MarshalOf
  <2>3. Zero[t] = Empty /\ m = Empty
    BY <1>8, <2>1 DEF Generated, Zeros, MsgSetVirtualStakingMaxCapResponse_Zero
  <2>4. Written(t, m, MsgSetVirtualStakingMaxCapResponse_Marshal(m), MsgSetVirtualStakingMaxCapResponse_Size(m))
    BY <2>3, EmptyWritten DEF MsgSetVirtualStakingMaxCapResponse_Marshal, MsgSetVirtualStakingMaxCapResponse_Size
  <2> QED BY <2>2, <2>4, MarshalWritten
<1>9. CASE t = "QueryVirtualStakingMaxCapLimitRequest"
  <2>1. m \in [Address : Text]
    BY <1>9 DEF Messages
  <2>2. MarshalOf(t, m) = Marshal(QueryVirtualStakingMaxCapLimitRequest_Marshal(m), QueryVirtualStakingMaxCapLimitRequest_Size(m))
    BY <1>9 DEF MarshalOf
  <2>4. Written(t, m, QueryVirtualStakingMaxCapLimitRequest_Marshal(m), QueryVirtualStakingMaxCapLimitRequest_Size(m))
    BY <1>9, <2>1, QueryVirtualStakingMaxCapLimitRequest_Written
  <2> QED BY <2>2, <2>4, MarshalWritten
<1>10. CASE t = "QueryVirtualStakingMaxCapLimitResponse"
  <2>1. m \in [Delegated : Coins, Cap : Coins]
    BY <1>10 DEF Messages
  <2>2. MarshalOf(t, m) = Marshal(QueryVirtualStakingMaxCapLimitResponse_Marshal(m), QueryVirtualStakingMaxCapLimitResponse_Size(m))
    BY <1>10 DEF MarshalOf
  <2>4. Written(t, m, QueryVirtualStakingMaxCapLimitResponse_Marshal(m), QueryVirtualStakingMaxCapLimitResponse_Size(m))
    BY <1>10, <2>1, QueryVirtualStakingMaxCapLimitResponse_Written
  <2> QED BY <2>2, <2>4, MarshalWritten
<1>11. CASE t = "QueryVirtualStakingMaxCapLimitsRequest"
  <2>1. m \in {Empty}
    BY <1>11 DEF Messages
  <2>2. MarshalOf(t, m) = Marshal(QueryVirtualStakingMaxCapLimitsRequest_Marshal(m), QueryVirtualStakingMaxCapLimitsRequest_Size(m))
    BY <1>11 DEF MarshalOf
  <2>3. Zero[t] = Empty /\ m = Empty
    BY <1>11, <2>1 DEF Generated, Zeros, QueryVirtualStakingMaxCapLimitsRequest_Zero
  <2>4. Written(t, m, QueryVirtualStakingMaxCapLimitsRequest_Marshal(m), QueryVirtualStakingMaxCapLimitsRequest_Size(m))
    BY <2>3, EmptyWritten DEF QueryVirtualStakingMaxCapLimitsRequest_Marshal, QueryVirtualStakingMaxCapLimitsRequest_Size
  <2> QED BY <2>2, <2>4, MarshalWritten
<1>12. CASE t = "QueryVirtualStakingMaxCapLimitsResponse"
  <2>1. m \in [MaxCapInfos : Seq(CapInfos)]
    BY <1>12 DEF Messages
  <2>2. MarshalOf(t, m) = Marshal(QueryVirtualStakingMaxCapLimitsResponse_Marshal(m), QueryVirtualStakingMaxCapLimitsResponse_Size(m))
    BY <1>12 DEF MarshalOf
  <2>4. Written(t, m, QueryVirtualStakingMaxCapLimitsResponse_Marshal(m), QueryVirtualStakingMaxCapLimitsResponse_Size(m))
    BY <1>12, <2>1, QueryVirtualStakingMaxCapLimitsResponse_Written
  <2> QED BY <2>2, <2>4, MarshalWritten
<1>13. CASE t = "QueryParamsRequest"
  <2>1. m \in {Empty}
    BY <1>13 DEF Messages
  <2>2. MarshalOf(t, m) = Marshal(QueryParamsRequest_Marshal(m), QueryParamsRequest_Size(m))
    BY <1>13 DEF MarshalOf
  <2>3. Zero[t] = Empty /\ m = Empty
    BY <1>13, <2>1 DEF Generated, Zeros, QueryParamsRequest_Zero
  <2>4. Written(t, m, QueryParamsRequest_Marshal(m), QueryParamsRequest_Size(m))
    BY <2>3, EmptyWritten DEF QueryParamsRequest_Marshal, QueryParamsRequest_Size
  <2> QED BY <2>2, <2>4, MarshalWritten
<1>14. CASE t = "QueryParamsResponse"
  <2>1. m \in [Params : ParamValues]
    BY <1>14 DEF Messages
  <2>2. MarshalOf(t, m) = Marshal(QueryParamsResponse_Marshal(m), QueryParamsResponse_Size(m))
    BY <1>14 DEF MarshalOf
  <2>4. Written(t, m, QueryParamsResponse_Marshal(m), QueryParamsResponse_Size(m))
    BY <1>14, <2>1, QueryParamsResponse_Written
  <2> QED BY <2>2, <2>4, MarshalWritten
<1>15. CASE t = "ProviderParams"
  <2>1. m \in {Empty}
    BY <1>15 DEF Messages
  <2>2. MarshalOf(t, m) = Marshal(ProviderParams_Marshal(m), ProviderParams_Size(m))
    BY <1>15 DEF MarshalOf
  <2>4. Written(t, m, ProviderParams_Marshal(m), ProviderParams_Size(m))
    BY <1>15, <2>1, ProviderParams_Written
  <2> QED BY <2>2, <2>4, MarshalWritten
<1>16. CASE t = "ProviderGenesisState"
  <2>1. m \in [Params : {Empty}]
    BY <1>16 DEF Messages
  <2>2. MarshalOf(t, m) = Marshal(ProviderGenesisState_Marshal(m), ProviderGenesisState_Size(m))
    BY <1>16 DEF MarshalOf
  <2>4. Written(t, m, ProviderGenesisState_Marshal(m), ProviderGenesisState_Size(m))
    BY <1>16, <2>1, ProviderGenesisState_Written
  <2> QED BY <2>2, <2>4, MarshalWritten
<1>17. CASE t = "ParamsRequest"
  <2>1. m \in {Empty}
    BY <1>17 DEF Messages
  <2>2. MarshalOf(t, m) = Marshal(ParamsRequest_Marshal(m), ParamsRequest_Size(m))
    BY <1>17 DEF MarshalOf
  <2>3. Zero[t] = Empty /\ m = Empty
    BY <1>17, <2>1 DEF Generated, Zeros, ParamsRequest_Zero
  <2>4. Written(t, m, ParamsRequest_Marshal(m), ParamsRequest_Size(m))
    BY <2>3, EmptyWritten DEF ParamsRequest_Marshal, ParamsRequest_Size
  <2> QED BY <2>2, <2>4, MarshalWritten
<1>18. CASE t = "ParamsResponse"
  <2>1. m \in [Params : {Empty}]
    BY <1>18 DEF Messages
  <2>2. MarshalOf(t, m) = Marshal(ParamsResponse_Marshal(m), ParamsResponse_Size(m))
    BY <1>18 DEF MarshalOf
  <2>4. Written(t, m, ParamsResponse_Marshal(m), ParamsResponse_Size(m))
    BY <1>18, <2>1, ParamsResponse_Written
  <2> QED BY <2>2, <2>4, MarshalWritten
<1>19. CASE t = "MsgTest"
  <2>1. m \in [Sender : Text]
    BY <1>19 DEF Messages
  <2>2. MarshalOf(t, m) = Marshal(MsgTest_Marshal(m), MsgTest_Size(m))
    BY <1>19 DEF MarshalOf
  <2>4. Written(t, m, MsgTest_Marshal(m), MsgTest_Size(m))
    BY <1>19, <2>1, MsgTest_Written
  <2> QED BY <2>2, <2>4, MarshalWritten
<1>20. CASE t = "MsgTestResponse"
  <2>1. m \in {Empty}
    BY <1>20 DEF Messages
  <2>2. MarshalOf(t, m) = Marshal(MsgTestResponse_Marshal(m), MsgTestResponse_Size(m))
    BY <1>20 DEF MarshalOf
  <2>3. Zero[t] = Empty /\ m = Empty
    BY <1>20, <2>1 DEF Generated, Zeros, MsgTestResponse_Zero
  <2>4. Written(t, m, MsgTestResponse_Marshal(m), MsgTestResponse_Size(m))
    BY <2>3, EmptyWritten DEF MsgTestResponse_Marshal, MsgTestResponse_Size
  <2> QED BY <2>2, <2>4, MarshalWritten
<1>21. CASE t = "MsgUpdateParams"
  <2>1. m \in [Authority : Text, Params : {Empty}]
    BY <1>21 DEF Messages
  <2>2. MarshalOf(t, m) = Marshal(MsgUpdateParams_Marshal(m), MsgUpdateParams_Size(m))
    BY <1>21 DEF MarshalOf
  <2>4. Written(t, m, MsgUpdateParams_Marshal(m), MsgUpdateParams_Size(m))
    BY <1>21, <2>1, MsgUpdateParams_Written
  <2> QED BY <2>2, <2>4, MarshalWritten
<1>22. CASE t = "MsgUpdateParamsResponse"
  <2>1. m \in {Empty}
    BY <1>22 DEF Messages
  <2>2. MarshalOf(t, m) = Marshal(MsgUpdateParamsResponse_Marshal(m), MsgUpdateParamsResponse_Size(m))
    BY <1>22 DEF MarshalOf
  <2>3. Zero[t] = Empty /\ m = Empty
    BY <1>22, <2>1 DEF Generated, Zeros, MsgUpdateParamsResponse_Zero
  <2>4. Written(t, m, MsgUpdateParamsResponse_Marshal(m), MsgUpdateParamsResponse_Size(m))
    BY <2>3, EmptyWritten DEF MsgUpdateParamsResponse_Marshal, MsgUpdateParamsResponse_Size
  <2> QED BY <2>2, <2>4, MarshalWritten
<1> QED BY <1>0, <1>1, <1>2, <1>3, <1>4, <1>5, <1>6, <1>7, <1>8, <1>9, <1>10, <1>11, <1>12, <1>13, <1>14, <1>15, <1>16, <1>17, <1>18, <1>19, <1>20, <1>21, <1>22

-----------------------------------------------------------------------------
(* What is read to a message stands for it, and so does its beginning. *)
LEMMA ReadsStandsFor ==
  ASSUME NEW in, NEW W \in Seq(Byte), Reads(in.type, Zero[in.type], W, in.sent),
         Len(in.bytes) <= Len(W), \A i \in 1 .. Len(in.bytes) : in.bytes[i] = W[i],
         in.how = "valid" => Len(in.bytes) = Len(W)
  PROVE  \E P, R : StandsFor(in, W, P, R, {})
<1>1. PICK t, z, m : t = in.type /\ z = Zero[in.type] /\ m = in.sent
  OBVIOUS
<1>2. Reads(t, z, W, m)
  BY <1>1
<1>3. PICK P, R :
        /\ Closed(P, P, {}) /\ Closed(P, R, {})
        /\ Part(t, z, W, m) \in R
        /\ \A x \in R : x.type = t /\ x.to = m /\ Partial(t, m, x.from)
  BY <1>2 DEF Reads
<1>4. Groups({})
  BY DEF Groups
<1>5. [type |-> in.type, from |-> Zero[in.type], bytes |-> W, to |-> in.sent] \in R
  BY <1>1, <1>3 DEF Part
<1>6. StandsFor(in, W, P, R, {})
  BY <1>1, <1>3, <1>4, <1>5 DEF StandsFor
<1> QED BY <1>6

(* The generated Marshal of every type and the generated cases of its     *)
(* Unmarshal fit: whatever message was marshaled, the bytes stand for it. *)
THEOREM MarshaledIsSent ==
  ASSUME Generated, NEW in \in Inputs, IsMarshaled(in)
  PROVE  IsSent(in)
<1>1. PICK W : W = MarshalOf(in.type, in.sent)
  OBVIOUS
<1>2. /\ in.sent \in Messages[in.type] /\ Len(W) < Half
      /\ \/ in.how = "valid" /\ in.bytes = W
         \/ in.how = "cut" /\ \E n \in 0 .. Len(W) : in.bytes = SubSeq(W, 1, n)
  BY <1>1 DEF IsMarshaled, Half
<1>3. in.type \in Types
  BY InputsAssumption
<1>4. Written(in.type, in.sent, W, Len(W))
  BY <1>1, <1>2, <1>3, MarshalOfWritten
<1>5. W \in Seq(Byte) /\ Reads(in.type, Zero[in.type], W, in.sent)
  BY <1>2, <1>4 DEF Written
<1>6. Len(in.bytes) <= Len(W) /\ \A i \in 1 .. Len(in.bytes) : in.bytes[i] = W[i]
  <2>1. Len(W) \in Nat
    BY <1>5, LenProperties
  <2>2. CASE in.how = "valid"
    BY <1>2, <2>1, <2>2
  <2>3. CASE in.how = "cut"
    <3>1. PICK n \in 0 .. Len(W) : in.bytes = SubSeq(W, 1, n)
      BY <1>2, <2>3
    <3>2. PICK b : b = in.bytes
      OBVIOUS
    <3>3. n \in Int /\ 1 \in Int /\ (\A i \in 1 .. n : W[i] \in Byte) /\ n - 1 + 1 = n
          /\ (IF 1 <= n THEN n - 1 + 1 ELSE 0) = n
      BY <1>5, <2>1, ElementOfSeq
    <3>4. /\ Len(SubSeq(W, 1, n)) = IF 1 <= n THEN n - 1 + 1 ELSE 0
          /\ \A i \in 1 .. n - 1 + 1 : SubSeq(W, 1, n)[i] = W[1 + i - 1]
      BY <3>3, SubSeqProperties
    <3>5. Len(b) = n /\ \A i \in 1 .. n : b[i] = W[i]
      BY <3>1, <3>2, <3>3, <3>4
    <3> QED BY <2>1, <3>2, <3>5
  <2> QED BY <1>2, <2>2, <2>3
<1>7. in.how = "valid" => Len(in.bytes) = Len(W)
  BY <1>2
<1>8. \E P, R : StandsFor(in, W, P, R, {})
  BY <1>5, <1>6, <1>7, ReadsStandsFor
<1> QED BY <1>8 DEF IsSent

(* So every message of every type is decoded to what was marshaled, and    *)
(* the beginning of its bytes to a part of it or to an error.              *)
THEOREM MarshaledIsDecoded ==
  ASSUME Generated
  PROVE  Spec => [](IsMarshaled(request) => DecodesWhatWasSent /\ TruncationNeverCorrupts)
<1>1. request \in Inputs /\ (IsSent(request) => DecodesWhatWasSent /\ TruncationNeverCorrupts)
        => (IsMarshaled(request) => DecodesWhatWasSent /\ TruncationNeverCorrupts)
  BY MarshaledIsSent
<1> QED BY <1>1, SentDecodes, RequestIsInput, PTL
=============================================================================

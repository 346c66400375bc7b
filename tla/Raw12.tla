------------------------------- MODULE Raw12 -------------------------------
(***************************************************************************)
(* RAW12 images (include/prism/usb/profile_video.hpp, raw12_header.hpp):   *)
(* the rules of their header, checked by the header parser and again by    *)
(* the decoders, the checksum in its two implementations, and the decoder  *)
(* of Rice-coded blocks with its bit reader, one pixel per step.  ZSTD is  *)
(* a library; a block is decoded with pixels of PixelBits bits (12), of    *)
(* which there are BlockPixels (256), from bytes of ByteBits bits (8); the *)
(* pixels are packed in pairs into three bytes.                            *)
(***************************************************************************)
EXTENDS Integers, SequencesExt

CONSTANTS
  PixelBits, BlockPixels, ByteBits,
  SeedBytes, LengthBytes,  \* of the head of a block: 4 and 2
  Blocks,    \* the blocks under check: [mode, k, length, seeds, data]
  Headers,   \* the headers under check
  Messages   \* the messages under check, sequences of bytes

ASSUME WidthAssumption == /\ PixelBits \in Nat \ {0} /\ BlockPixels \in Nat \ {0, 1}
                          /\ 2 * (PixelBits - ByteBits) = ByteBits
                          /\ ByteBits \in Nat \ {0} /\ SeedBytes \in Nat /\ LengthBytes \in Nat

(* A byte of a message is the set of its bits that are one; sizes are numbers. *)
ASSUME InputAssumption ==
  /\ \A m \in Messages : m \in Seq(SUBSET (0 .. 7))
  /\ \A h \in Headers  : {h.total, h.bytes, h.bayer, h.camera, h.timing} \subseteq Nat

VARIABLES
  input,   \* what is given
  stage,   \* "idle", "header", "message", "block", "pixels", "accepted", "refused"
  taken,    \* bits read of a block's data, or bytes of a message
  values    \* pixels stored, or both checksums

rawImageVars == <<input, stage, taken, values>>

Top == 2 ^ PixelBits
Up(n, d) == (n + d - 1) \div d

-----------------------------------------------------------------------------
(* Headers *)

(* parseRaw12Header; sizes are the header's own and that of the whole image. *)
ParsesHeader(h) ==
  LET legacy == IF h.magic = "PRG1" THEN 64 ELSE 48
      size   == legacy + (IF h.version = 2 THEN 16 ELSE 0) IN
  /\ h.total <= 32 * 1024 * 1024
  /\ h.magic \in {"PRG1", "PRZ1"} /\ h.format \in {0, IF h.magic = "PRG1" THEN 4 ELSE 3}
  /\ h.version \in {1, 2} /\ h.bytes = size /\ h.total > size
  /\ h.depth = 12 /\ h.bayer <= 3 /\ h.kind = 2 /\ h.camera < 4 /\ h.geometry = "5120x3072"
  /\ \/ h.timing = 0 /\ h.stamp = 0
     \/ h.timing \in 1 .. 3
     \/ h.timing = 4 /\ h.stamp # 0
  /\ h.magic = "PRG1" => h.block = 256 /\ h.payload = h.total - size
  /\ h.version = 2 => /\ h.group_crc = "good"
                       /\ \/ h.timing = 4 /\ h.trigger # 0
                          \/ h.timing = 0 /\ h.trigger = 0

(* validProfileTiming *)
ValidProfileTiming(mode, stamp) ==
  mode <= 4 /\ (mode = 0 => stamp = 0) /\ (mode = 4 => stamp # 0)

(* The checks of a decoder once the header is parsed; decodeRaw12 chooses the *)
(* decoder by the magic, and refuses another format.                            *)
DecodesHeader(h) ==
  /\ h.format \in {0, IF h.magic = "PRG1" THEN 4 ELSE 3}
  /\ h.total >= (IF h.magic = "PRG1" THEN 65 ELSE 49) /\ h.total <= 25 * 1024 * 1024
  /\ h.depth = 12 /\ h.bayer <= 3 /\ h.kind = 2 /\ h.camera <= 3 /\ h.timing <= 4
  /\ ValidProfileTiming(h.timing, h.stamp) /\ h.geometry = "5120x3072"
  /\ h.magic = "PRG1" => h.block = 256 /\ h.payload = h.total - h.bytes

(* The trigger group of an image, 0 if it has none. *)
TriggerOf(h) == IF h.version = 2 THEN h.trigger ELSE 0

-----------------------------------------------------------------------------
(* Checksums: a word is the set of its bits that are one. *)

Xor(a, b)     == (a \cup b) \ (a \cap b)
ShiftedBy(a, n) == {i - n : i \in {j \in a : j >= n}}
LowByte(a)    == {i \in a : i < 8}
ByteAt(a, j)  == LowByte(ShiftedBy(a, j * 8))
Polynomial    == {5, 8, 9, 15, 19, 20, 21, 23, 24, 26, 27, 29, 30, 31}   \* 0xedb88320
DividedOnce(x) == Xor(ShiftedBy(x, 1), IF 0 \in x THEN Polynomial ELSE {})
Divided(x)    == LET four(y) == DividedOnce(DividedOnce(DividedOnce(DividedOnce(y))))
                 IN  four(four(x))
AllOnes       == 0 .. 31

(* One byte of rawHeaderCrc32, bit after bit. *)
HeaderCrc(c, byte) == Divided(Xor(c, byte))

(* The remaining bytes of rawCrc32. *)
OneByte(c, byte) == Xor(ShiftedBy(c, 8), Divided(LowByte(Xor(c, byte))))

(* The tables of rawCrc32: the checksum of a byte followed by n zero bytes. *)
Table(n, b) == LET t[i \in 0 .. 7] == IF i = 0 THEN Divided(b) ELSE OneByte(t[i - 1], {})
               IN  t[n]

(* Mutant: the state is mixed into the second word. *)
MixedLate(c, bytes, j) ==
  Table(8 - j, IF j > 4 THEN Xor(bytes[j], ByteAt(c, j - 5)) ELSE bytes[j])

(* The j-th byte of a slice of two words, the first word mixed with the state. *)
Slice(c, bytes, j) ==
  Table(8 - j, IF j <= 4 THEN Xor(bytes[j], ByteAt(c, j - 1)) ELSE bytes[j])

(* rawCrc32, two words at a time. *)
TwoWords(c, bytes) ==
  LET s(j) == Slice(c, bytes, j)
  IN  Xor(Xor(Xor(Xor(Xor(Xor(Xor(s(1), s(2)), s(3)), s(4)), s(5)), s(6)), s(7)), s(8))

-----------------------------------------------------------------------------
(* Blocks *)

Rice(b) == b.mode = "rice"
Raw(b)  == b.mode = "fixed" /\ b.k = PixelBits

(* Bytes of a block's data, and of the whole block. *)
DataBytes(b) == IF Rice(b) THEN b.length
                ELSE IF Raw(b) THEN Up(BlockPixels * PixelBits, ByteBits)
                ELSE Up((BlockPixels - 2) * b.k, ByteBits)
HeadBytes(b) == 1 + (IF Raw(b) THEN 0 ELSE SeedBytes) + (IF Rice(b) THEN LengthBytes ELSE 0)
MaxBytes     == 1 + Up(BlockPixels * PixelBits, ByteBits)

OpensBlock(b) ==
  /\ (b.mode = "fixed" /\ b.k <= PixelBits) \/ (Rice(b) /\ b.k < PixelBits)
  /\ HeadBytes(b) + DataBytes(b) <= MaxBytes
  /\ ByteBits * DataBytes(b) <= Len(b.data)
  /\ Raw(b) \/ (b.seeds[1] < Top /\ b.seeds[2] < Top)

Number(bits) == FoldRight(LAMBDA x, n : x + 2 * n, bits, 0)
Bits(n, count) == [i \in 1 .. count |-> (n \div 2 ^ (i - 1)) % 2]

(* The longest run of zeros of a residual that fits into a pixel. *)
RunFits(b, zeros) == zeros <= (Top - 1) \div 2 ^ b.k

(* The symbol at the reader's place, its length included: none when the data *)
(* end in it.                                                                  *)
Symbols(b) ==
  LET size == ByteBits * DataBytes(b)
      bit(i) == b.data[taken + i]
      low(from, count) == Number(SubSeq(b.data, taken + from + 1, taken + from + count))
  IN  IF ~Rice(b) THEN {[length |-> b.k, q |-> low(0, b.k)] : x \in {y \in {1} : taken + b.k <= size}}
      ELSE {[length |-> z + 1 + b.k, q |-> z * 2 ^ b.k + low(z + 1, b.k)] :
              z \in {z \in 0 .. size : /\ taken + z + 1 + b.k <= size /\ RunFits(b, z)
                                       /\ bit(z + 1) = 1 /\ \A i \in 1 .. z : bit(i) = 0}}

(* The residual's sign is its lowest bit. *)
Delta(q) == IF q % 2 = 1 THEN -((q + 1) \div 2) ELSE q \div 2

Predicted(previous, q) == (previous + Delta(q)) % Top

(* Mutant: whatever is left of the last byte is ignored. *)
AnyPadding(b) == Up(taken, ByteBits) = DataBytes(b)

(* All bytes are used, and the bits left over of the last one are zero. *)
PaddingZero(b) ==
  /\ Up(taken, ByteBits) = DataBytes(b)
  /\ \A i \in taken + 1 .. ByteBits * DataBytes(b) : b.data[i] = 0

RawImageInit == input = <<>> /\ stage = "idle" /\ taken = 0 /\ values = <<>>

Give ==
  /\ stage = "idle"
  /\ \/ \E h \in Headers  : input' = h /\ stage' = "header"
     \/ \E b \in Blocks   : input' = b /\ stage' = "block"
  /\ UNCHANGED <<taken, values>>

GiveMessage ==
  /\ stage = "idle" /\ stage' = "message"
  /\ \E m \in Messages : input' = m
  /\ values' = <<AllOnes, AllOnes>> /\ UNCHANGED taken

(* Both checksums read a byte; rawCrc32 waits until it has two words. *)
Checksum ==
  /\ stage = "message" /\ taken < Len(input)
  /\ taken' = taken + 1
  /\ values' = <<HeaderCrc(values[1], input[taken']),
                IF taken' % 8 = 0 THEN TwoWords(values[2], SubSeq(input, taken' - 7, taken'))
                ELSE IF taken' > Len(input) - (Len(input) % 8) THEN OneByte(values[2], input[taken'])
                ELSE values[2]>>
  /\ UNCHANGED <<input, stage>>

(* The head of a block: its mode, size and first two pixels. *)
OpenBlock ==
  /\ stage = "block"
  /\ stage' = (IF OpensBlock(input) THEN "pixels" ELSE "refused")
  /\ values' = (IF OpensBlock(input) /\ ~Raw(input) THEN input.seeds ELSE <<>>)
  /\ UNCHANGED <<input, taken>>

(* One pixel, predicted from the last one of its column. *)
Pixel ==
  /\ stage = "pixels" /\ Len(values) < BlockPixels
  /\ IF Symbols(input) = {} THEN stage' = "refused" /\ UNCHANGED <<taken, values>>
     ELSE \E s \in Symbols(input) :
            /\ taken' = taken + s.length
            /\ values' = Append(values, IF Raw(input) THEN s.q ELSE Predicted(values[Len(values) - 1], s.q))
            /\ UNCHANGED stage
  /\ UNCHANGED input

(* Two pixels in three bytes, and a pixel of them. *)
Low          == 2 ^ (PixelBits - ByteBits)
PackedPair(a, b) == <<a \div Low, b \div Low, (a % Low) + Low * (b % Low)>>
Packed(v)    == FlattenSeq([i \in 1 .. Len(v) \div 2 |-> PackedPair(v[2 * i - 1], v[2 * i])])
Raw12Pixel(packed, i) ==
  LET at == 3 * (i \div 2)
  IN  packed[at + (i % 2) + 1] * Low + (IF i % 2 = 1 THEN packed[at + 3] \div Low ELSE packed[at + 3] % Low)

(* The end of the block, which is also the end of the image: it is packed. *)
EndBlock ==
  /\ stage = "pixels" /\ Len(values) = BlockPixels
  /\ IF PaddingZero(input) /\ Len(input.data) = ByteBits * DataBytes(input)
     THEN stage' = "accepted" /\ values' = Packed(values)
     ELSE stage' = "refused" /\ UNCHANGED values
  /\ UNCHANGED <<input, taken>>

RawImageNext == Give \/ GiveMessage \/ Checksum \/ OpenBlock \/ Pixel \/ EndBlock

RawImageSpec == RawImageInit /\ [][RawImageNext]_rawImageVars

-----------------------------------------------------------------------------
(* Properties *)

(* The encoder the decoder is made for: the residual of a value, a symbol of a *)
(* residual, and a block's bits filled up with zeros; empty if it does not fit.  *)
Residual(previous, v) ==
  CHOOSE q \in 0 .. Top - 1 : Predicted(previous, q) = v
Symbol(b, q) ==
  IF Rice(b) THEN [i \in 1 .. q \div 2 ^ b.k |-> 0] \o <<1>> \o Bits(q % 2 ^ b.k, b.k) ELSE Bits(q, b.k)
Encoding(b, v) ==
  LET code(i) == Symbol(b, IF Raw(b) THEN v[i] ELSE Residual(v[i - 2], v[i]))
      bits    == FlattenSeq([i \in 1 .. BlockPixels |-> IF i < 3 /\ ~Raw(b) THEN <<>> ELSE code(i)])
  IN  bits \o [i \in 1 .. ByteBits * Up(Len(bits), ByteBits) - Len(bits) |-> 0]
Encodes(b, v) ==
  /\ ~Rice(b) /\ ~Raw(b) => \A i \in 3 .. BlockPixels : Residual(v[i - 2], v[i]) < 2 ^ b.k
  /\ b.data = Encoding(b, v) /\ Len(b.data) = ByteBits * DataBytes(b)
PixelsFor(b) == IF Raw(b) THEN [1 .. BlockPixels -> 0 .. Top - 1]
                ELSE {b.seeds \o v : v \in [1 .. BlockPixels - 2 -> 0 .. Top - 1]}

(* A block is accepted exactly when it is the encoding of some pixels in its     *)
(* mode, and decoded to those: no quotient or padding admits a second encoding,    *)
(* and nothing the encoder makes is refused.                                        *)
BlocksCanonical ==
  /\ stage = "accepted" => LET v == [i \in 1 .. BlockPixels |-> Raw12Pixel(values, i - 1)]
                           IN  v \in PixelsFor(input) /\ Encodes(input, v)
  /\ stage = "refused" /\ OpensBlock(input) => ~ \E v \in PixelsFor(input) : Encodes(input, v)

(* What the header parser lets through the decoders do not refuse for its      *)
(* header, except for its size; an image has a trigger group only with the        *)
(* time of a common trigger.                                                        *)
HeadersAgree ==
  stage = "header" /\ ParsesHeader(input) =>
    /\ DecodesHeader(input) <=> input.total <= 25 * 1024 * 1024
    /\ TriggerOf(input) # 0 => input.timing = 4 /\ input.stamp # 0

(* Both implementations of the checksum agree, whatever the length; each inverts it last. *)
ChecksumsAgree ==
  stage = "message" /\ taken = Len(input) => values[1] = values[2]

(* What is written twice in the code decides the same: both of the above. *)
TwinsAgree == HeadersAgree /\ ChecksumsAgree
=============================================================================

------------------------------ MODULE Encoders ------------------------------
(***************************************************************************)
(* Images inside documents: base64_encode and raster_to_string of          *)
(* base_64.cpp.  The PNG library is external: the bytes of an image are    *)
(* its width, its height and its pixels, of which each is one byte here.   *)
(***************************************************************************)
EXTENDS Integers, Sequences, SequencesExt

Pad == 64    \* pad_character, after the 64 characters of encode_lookup

(* Four characters for three bytes.                                        *)
Sextets(a, b, c) ==
    LET temp == a * 65536 + b * 256 + c
    IN  <<temp \div 262144, (temp \div 4096) % 64, (temp \div 64) % 64, temp % 64>>

(* base64_encode: groups of three bytes, then one or two that are left.    *)
Base64Encode(buffer) ==
    LET full == Len(buffer) \div 3
        rest == SubSeq(buffer, 3 * full + 1, Len(buffer))
    IN  FlattenSeq([k \in 1..full |->
            Sextets(buffer[3 * k - 2], buffer[3 * k - 1], buffer[3 * k])])
        \o CASE Len(rest) = 0 -> <<>>
             [] Len(rest) = 1 -> SubSeq(Sextets(rest[1], 0, 0), 1, 2) \o <<Pad, Pad>>
             [] Len(rest) = 2 -> SubSeq(Sextets(rest[1], rest[2], 0), 1, 3) \o <<Pad>>

(* What a reader of base64 gets.                                           *)
Base64Decode(chars) ==
    LET Bits(k, n) == IF chars[4 * k - 4 + n] = Pad THEN 0 ELSE chars[4 * k - 4 + n]
        Bytes(k) == <<Bits(k, 1) * 4 + Bits(k, 2) \div 16,
                      (Bits(k, 2) % 16) * 16 + Bits(k, 3) \div 4,
                      (Bits(k, 3) % 4) * 64 + Bits(k, 4)>>
        first == SelectInSeq(chars, LAMBDA c : c = Pad)
        pads == IF first = 0 THEN 0 ELSE Len(chars) + 1 - first
        bytes == FlattenSeq([k \in 1..Len(chars) \div 4 |-> Bytes(k)])
    IN  SubSeq(bytes, 1, Len(bytes) - pads)

----------------------------------------------------------------------------

(* How often a pixel is repeated to fill an extent, 1 when it need not be. *)
Factor(pixels, extent) ==
    IF pixels < extent THEN (extent + pixels - 1) \div pixels ELSE 1

(* raster_to_string: unless it is interpolated, an image with less pixels  *)
(* than its place has units is made larger, pixels and rows being repeated.*)
RasterPng(raster) ==
    LET wfac == IF raster.interpolate THEN 1 ELSE Factor(raster.w, raster.rect[3])
        hfac == IF raster.interpolate THEN 1 ELSE Factor(raster.h, raster.rect[4])
        Row(i) == FlattenSeq([j \in 1..raster.w |->
                      [rep \in 1..wfac |-> raster.pixels[(i - 1) * raster.w + j]]])
        Rows(i) == FlattenSeq([rep \in 1..hfac |-> Row(i)])
    IN  <<raster.w * wfac, raster.h * hfac>> \o FlattenSeq([i \in 1..raster.h |-> Rows(i)])

RasterBase64(raster) == Base64Encode(RasterPng(raster))
=============================================================================

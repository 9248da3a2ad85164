------------------------------ MODULE IrDecode ------------------------------
(***************************************************************************)
(* The infrared codec: ir/ir_codec_samsung_ac.c (checksums and encoder),   *)
(* ir/ir_decode.c (NEC, LG and Samsung decoders), the temperature field of *)
(* ir/ir_aircon.c, and ir_rx_frame_cb of app_main_zephyr.c, which collects *)
(* the three sections of an air-conditioner frame over several receptions. *)
(*                                                                         *)
(* Bytes are 0..255; a symbol is a mark and a space in microseconds.       *)
(* Arrays start at 1.                                                      *)
(***************************************************************************)
EXTENDS Integers, Sequences, FiniteSets, FiniteSetsExt

CONSTANTS
    Samples,    \* the frames sent to the codec, with the receiver's timing error
    Buttons     \* what the keys of a remote control send: the contents of two or three
                \* sections; frames of different keys may share some of them, as the
                \* power-on frames of ir_aircon.c share section 0

Byte == 0 .. 255
Inverse8(a, b) == a + b = 255

\* Frames in the form their protocol prescribes: one to three sections, as many
\* as ir_decode has room for; a NEC command, or an LG second byte, is followed by
\* its inverse.
ASSUME SamplesAssumption ==
    \A smp \in Samples :
        \/ /\ smp.kind = "SAMSUNG_AC"
           /\ \E nsec \in 1 .. 3 : smp.bytes \in [1 .. 7 * nsec -> Byte]
        \/ /\ smp.kind = "NEC" /\ smp.bytes \in [1 .. 4 -> Byte]
           /\ Inverse8(smp.bytes[3], smp.bytes[4])
        \/ /\ smp.kind = "LG_AC" /\ smp.bytes \in [1 .. 4 -> Byte]
           /\ Inverse8(smp.bytes[2], smp.bytes[3])

Sym(m, s) == [mark |-> m, space |-> s]

\* The bits of a byte, counted from 0.
Weight(k) == <<1, 2, 4, 8, 16, 32, 64, 128>>[k + 1]
Bit(v, k) == (v \div Weight(k)) % 2

-----------------------------------------------------------------------------
(***************************************************************************)
(* ir_codec_samsung_ac.c.                                                  *)
(***************************************************************************)
popcount_u8(v) == Bit(v, 0) + Bit(v, 1) + Bit(v, 2) + Bit(v, 3)
                  + Bit(v, 4) + Bit(v, 5) + Bit(v, 6) + Bit(v, 7)

\* Mutant: the checksum counts one byte less.
M_sec_checksum(s) ==
    255 - (popcount_u8(s[1]) + popcount_u8(s[2] % 16) + popcount_u8(s[3] \div 16)
           + popcount_u8(s[4]) + popcount_u8(s[5]) + popcount_u8(s[6]))

\* At most 48 bits are counted, so ^ 0xFF is 255 minus their number.
sec_checksum(s) ==
    255 - (popcount_u8(s[1]) + popcount_u8(s[2] % 16) + popcount_u8(s[3] \div 16)
           + popcount_u8(s[4]) + popcount_u8(s[5]) + popcount_u8(s[6]) + popcount_u8(s[7]))

fix_checksum(s) ==
    LET cs == sec_checksum(s)
    IN  [s EXCEPT ![2] = (@ % 16) + 16 * (cs % 16),
                  ![3] = 16 * (@ \div 16) + (cs \div 16)]

verify(s) == sec_checksum(s) = 16 * (s[3] % 16) + (s[2] \div 16)

\* The sections of a frame, and the calls that go through all of them.
Section(data, i) == SubSeq(data, 7 * i + 1, 7 * i + 7)
verify_all(data) ==
    /\ Len(data) > 0 /\ Len(data) % 7 = 0
    /\ \A i \in 0 .. (Len(data) \div 7) - 1 : verify(Section(data, i))

HdrSym == Sym(690, 17844)
SecSym == Sym(3086, 8864)

\* Header, then per section its header, 56 bits LSB first, and a foot.
encode(data) ==
    LET nsec == Len(data) \div 7
        At(s, k) ==
            CASE k = 0  -> SecSym
              [] k = 57 -> Sym(586, IF s + 1 < nsec THEN 2886 ELSE 20000)
              [] OTHER  -> Sym(586, IF Bit(data[7 * s + ((k - 1) \div 8) + 1], (k - 1) % 8) = 1
                                    THEN 1432 ELSE 436)
    IN  <<HdrSym>> \o [n \in 1 .. 58 * nsec |-> At((n - 1) \div 58, (n - 1) % 58)]

\* samsung_set_temp_c_locked on byte 11 (from 0) of the cached state, with both
\* checksums rewritten as samsung_send_state_with_temp_locked does, and
\* samsung_get_temp_c_locked.
set_temp_c(state, c) ==
    LET nib == (IF c < 16 THEN 16 ELSE IF c > 30 THEN 30 ELSE c) - 16
        st  == [state EXCEPT ![12] = (@ % 16) + 16 * nib]
    IN  fix_checksum(Section(st, 0)) \o fix_checksum(Section(st, 1))
get_temp_c(state) == (state[12] \div 16) + 16

-----------------------------------------------------------------------------
(***************************************************************************)
(* ir_decode.c.                                                            *)
(***************************************************************************)
in_range(v, ref) == v >= (ref * 3) \div 4 /\ v <= (ref * 5) \div 4
Matches(sym, ref) == in_range(sym.mark, ref.mark) /\ in_range(sym.space, ref.space)

\* LSB first.
ByteOf(bits, from) ==
    bits[from] + 2 * bits[from + 1] + 4 * bits[from + 2] + 8 * bits[from + 3]
    + 16 * bits[from + 4] + 32 * bits[from + 5] + 64 * bits[from + 6] + 128 * bits[from + 7]

\* decode_space_bits: bits from the second symbol on, until one is malformed,
\* the space is missing (a stop bit, counted as 0) or max is reached.
decode_space_bits(syms, mark, zero, one, max) ==
    LET MarkOk(i) == in_range(syms[i].mark, mark)
        IsBit(i)  == MarkOk(i) /\ (in_range(syms[i].space, zero) \/ in_range(syms[i].space, one))
        last == Min({Len(syms), max + 1})
        stop == Min({i \in 2 .. last : ~IsBit(i)} \cup {last + 1})
        n    == IF stop <= last /\ MarkOk(stop) /\ syms[stop].space = 0 THEN stop - 1 ELSE stop - 2
    IN  [k \in 1 .. n |-> IF k + 1 < stop /\ ~in_range(syms[k + 1].space, zero) THEN 1 ELSE 0]

\* One bit of a Samsung section: the one-space is tested first, and a space that
\* was not measured is a zero.
SacBitOk(sym) ==
    /\ in_range(sym.mark, 586)
    /\ in_range(sym.space, 1432) \/ in_range(sym.space, 436) \/ sym.space = 0
SacBit(sym) == IF in_range(sym.space, 1432) THEN 1 ELSE 0

\* ir_decode_samsung_ac_section: <<>> without a header, or the result and bytes.
decode_section(syms, sec) ==
    LET hdr == 58 * sec + 1
        bits == [k \in 1 .. 56 |-> SacBit(syms[hdr + k])]
    IN  IF hdr + 57 > Len(syms) \/ ~Matches(syms[hdr], SecSym) THEN [rc |-> -1, bytes |-> <<>>]
        ELSE IF \E k \in 1 .. 56 : ~SacBitOk(syms[hdr + k]) THEN [rc |-> 0, bytes |-> <<>>]
        ELSE [rc |-> 1, bytes |-> [i \in 1 .. 7 |-> ByteOf(bits, 8 * i - 7)]]

\* The good bits after a section header at symbol i, the whole bytes in them, and
\* the symbol after them and their foot.
GoodBits(syms, i) ==
    Min({g \in 0 .. 55 : i + 1 + g > Len(syms) \/ ~SacBitOk(syms[i + 1 + g])} \cup {56})
SectionBytes(syms, i) ==
    LET bits == [k \in 1 .. GoodBits(syms, i) |-> SacBit(syms[i + k])]
    IN  [b \in 1 .. GoodBits(syms, i) \div 8 |-> ByteOf(bits, 8 * b - 7)]
AfterSection(syms, i) ==
    LET j == i + 1 + GoodBits(syms, i)
    IN  IF j <= Len(syms) /\ in_range(syms[j].mark, 586) THEN j + 1 ELSE j

\* decode_samsung_ac_bytes: section after section, as long as a header follows.
decode_bytes(syms, cap) ==
    LET from[i \in 1 .. Len(syms) + 2] ==
            IF i > Len(syms) \/ ~Matches(syms[i], SecSym) THEN <<>>
            ELSE SectionBytes(syms, i) \o from[AfterSection(syms, i)]
        all == from[1]
    IN  SubSeq(all, 1, Min({Len(all), cap}))

Decoded(p, a, c, bytes) == [rc |-> 0, proto |-> p, address |-> a, command |-> c, bytes |-> bytes]
NotDecoded == [rc |-> -2, proto |-> "UNKNOWN", address |-> 0, command |-> 0, bytes |-> <<>>]

\* The LG branch of ir_decode: 28 bits whose third byte inverts the second.
LgBits(syms) == decode_space_bits(syms, 560, 560, 1600, 28)
IsLg(syms) ==
    /\ Matches(syms[1], Sym(8500, 4250)) /\ Len(syms) >= 29
    /\ Len(LgBits(syms)) = 28
    /\ Inverse8(ByteOf(LgBits(syms), 9), ByteOf(LgBits(syms), 17))

\* Mutant: every NEC frame has a 16-bit address.
M_Nec(bits) == Decoded("NEC_EXT", 256 * ByteOf(bits, 9) + ByteOf(bits, 1), ByteOf(bits, 17), <<>>)

Nec(bits) ==
    IF ~Inverse8(ByteOf(bits, 17), ByteOf(bits, 25)) THEN NotDecoded
    ELSE IF Inverse8(ByteOf(bits, 1), ByteOf(bits, 9))
    THEN Decoded("NEC", ByteOf(bits, 1), ByteOf(bits, 17), <<>>)
    ELSE Decoded("NEC_EXT", 256 * ByteOf(bits, 9) + ByteOf(bits, 1), ByteOf(bits, 17), <<>>)

\* ir_decode: Samsung by its header, then LG, then NEC.
ir_decode(syms) ==
    LET global == Matches(syms[1], HdrSym)
        bytes  == decode_bytes(IF global THEN Tail(syms) ELSE syms, 24)
        bits   == decode_space_bits(syms, 562, 562, 1687, 32)
    IN  IF global \/ Matches(syms[1], SecSym)
        THEN IF bytes = <<>> THEN [NotDecoded EXCEPT !.proto = "SAMSUNG_AC"]
             ELSE Decoded("SAMSUNG_AC", 0, 0, bytes)
        ELSE IF IsLg(syms)
        THEN Decoded("LG_AC", ByteOf(LgBits(syms), 1), ByteOf(LgBits(syms), 9), <<>>)
        ELSE IF Matches(syms[1], Sym(9000, 2250)) THEN Decoded("NEC_REPEAT", 0, 0, <<>>)
        ELSE IF Matches(syms[1], Sym(9000, 4500)) /\ Len(syms) >= 33 /\ Len(bits) = 32
        THEN Nec(bits)
        ELSE NotDecoded

-----------------------------------------------------------------------------
(***************************************************************************)
(* The state: one sample and what the receiver made of it; and the         *)
(* contents of the sections collected so far.  The code does not keep      *)
(* where a section came from: two history variables do.                    *)
(***************************************************************************)
VARIABLES sample, decoded, s_sec, s_have,
    anchor,     \* per section, the section 0 of the frame it was taken from;
                \* empty if that section 0 was damaged
    reported    \* the last frame reported, with its anchors

assembly == <<s_sec, s_have, anchor, reported>>
dec_vars == <<sample, decoded, assembly>>

SecIds  == 0 .. 2
Pending == [NotDecoded EXCEPT !.rc = 1]

DecInit ==
    /\ sample \in Samples /\ decoded = Pending
    /\ s_sec = [i \in SecIds |-> [k \in 1 .. 7 |-> 0]]
    /\ s_have = [i \in SecIds |-> FALSE]
    /\ anchor = [i \in SecIds |-> {}] /\ reported = {}

(***************************************************************************)
(* A frame as the remote controls send it: Samsung's as the encoder makes  *)
(* it, without the header, whose space is longer than the capture's gap.   *)
(* The last space is not measured, and durations are off by up to 25 %.    *)
(***************************************************************************)
SpaceBits(bytes, n, mark, zero, one) ==
    [k \in 1 .. n |-> Sym(mark, IF Bit(bytes[((k - 1) \div 8) + 1], (k - 1) % 8) = 1
                                THEN one ELSE zero)]

OnAir(smp) ==
    CASE smp.kind = "SAMSUNG_AC" -> Tail(encode(smp.bytes))
      [] smp.kind = "NEC" -> <<Sym(9000, 4500)>> \o SpaceBits(smp.bytes, 32, 562, 562, 1687)
                              \o <<Sym(562, 0)>>
      [] smp.kind = "LG_AC" -> <<Sym(8500, 4250)>> \o SpaceBits(smp.bytes, 28, 560, 560, 1600)
                              \o <<Sym(560, 0)>>

Off(v, jitter) ==
    CASE jitter = "short" -> (v * 3) \div 4 [] jitter = "long" -> (v * 5) \div 4 [] OTHER -> v

Captured(smp) ==
    LET air == OnAir(smp)
    IN  [i \in 1 .. Len(air) |->
            Sym(Off(air[i].mark, smp.marks),
                IF i = Len(air) THEN 0 ELSE Off(air[i].space, smp.spaces))]

Decode ==
    /\ decoded = Pending
    /\ decoded' = ir_decode(Captured(sample))
    /\ UNCHANGED <<sample, assembly>>

-----------------------------------------------------------------------------
(***************************************************************************)
(* ir_rx_frame_cb: the sections that decode and pass their checksum are    *)
(* collected; a frame without a header for section 0 is somebody else's.   *)
(***************************************************************************)

\* Mutant: another section 0 does not reset what was collected.
M_Collected(b, good) == [i \in SecIds |-> s_have[i] \/ i \in good]

\* A section 0 with other bytes resets sections 1 and 2, then the good sections
\* are taken over.
Collected(b, good) ==
    LET other == 0 \in good /\ s_have[0] /\ b[0] # s_sec[0]
    IN  [i \in SecIds |-> (s_have[i] /\ ~(other /\ i # 0)) \/ i \in good]

\* With all three sections the frame is reported and the collection cleared.
FrameCb(b, good) ==
    /\ s_sec' = [i \in SecIds |-> IF i \in good THEN b[i] ELSE s_sec[i]]
    /\ LET with == IF 0 \in good THEN {b[0]} ELSE {}
       IN  anchor' = [i \in SecIds |-> IF i \in good THEN with ELSE anchor[i]]
    /\ LET have == Collected(b, good)
           full == \A i \in SecIds : have[i]
       IN  /\ s_have' = [i \in SecIds |-> have[i] /\ ~full]
           /\ reported' = IF full THEN {[sec |-> s_sec', anchor |-> anchor']} ELSE reported
    /\ UNCHANGED <<sample, decoded>>

DecNext == Decode \/ \E b \in Buttons : \E good \in SUBSET (SecIds \cap DOMAIN b) : FrameCb(b, good)

DecSpec == DecInit /\ [][DecNext]_dec_vars

-----------------------------------------------------------------------------
(***************************************************************************)
(* Properties.                                                             *)
(***************************************************************************)

\* What the decoders must return for the frame smp, heard as syms.
Returns(d, syms, smp) ==
    LET by == smp.bytes
    IN  CASE smp.kind = "SAMSUNG_AC" ->
                 /\ d.proto = "SAMSUNG_AC" /\ d.bytes = by
                 /\ \A i \in 0 .. (Len(by) \div 7) - 1 :
                       decode_section(syms, i) = [rc |-> 1, bytes |-> Section(by, i)]
          [] smp.kind = "LG_AC" ->
                 d.proto = "LG_AC" /\ d.address = by[1] /\ d.command = by[2]
          [] smp.kind = "NEC" /\ ~Inverse8(by[2], by[3]) ->
                 /\ d.command = by[3]
                 /\ IF Inverse8(by[1], by[2]) THEN d.proto = "NEC" /\ d.address = by[1]
                    ELSE d.proto = "NEC_EXT" /\ d.address = 256 * by[2] + by[1]
          [] OTHER -> TRUE

\* Whatever the bytes and the timing error of marks and spaces, ir_decode finds
\* the protocol and returns what was sent, and the section decoder agrees with
\* it.  Not covered: a NEC frame whose second and third byte are inverse (for a
\* standard address: command = address) has the form of an LG frame, which is
\* tried first.
DecodesWhatWasSent == decoded # Pending => Returns(decoded, Captured(sample), sample)

\* Section s with bit k of byte b inverted.
Flip(s, b, k) == [s EXCEPT ![b] = IF Bit(@, k) = 1 THEN @ - Weight(k) ELSE @ + Weight(k)]

\* A section whose checksum was fixed is accepted, and no longer once any single
\* bit of it is wrong; and setting any temperature of the cached state keeps it
\* acceptable, changes nothing but the temperature and the checksums, and reads
\* back as the clamped temperature.
ChecksumGuards ==
    sample.kind = "SAMSUNG_AC" /\ decoded = Pending =>
        /\ \A i \in 0 .. (Len(sample.bytes) \div 7) - 1 :
              LET s == fix_checksum(Section(sample.bytes, i))
              IN  verify(s) /\ \A b \in 1 .. 7, k \in 0 .. 7 : ~verify(Flip(s, b, k))
        /\ Len(sample.bytes) = 14 => \A c \in Byte :
              LET st == set_temp_c(sample.bytes, c)
              IN  /\ verify_all(st)
                  /\ get_temp_c(st) = Max({16, Min({30, c})})
                  /\ \A i \in 1 .. 14 : i \notin {2, 3, 9, 10, 12} => st[i] = sample.bytes[i]

\* Sections heard together with an intact section 0 stand, in the collection and
\* in what is reported, beside that same section 0: one that came with another
\* section 0 was reset (ir_rx_frame_cb).
SectionsAgree ==
    /\ \A i \in SecIds : s_have[i] /\ anchor[i] # {} => s_have[0] /\ anchor[i] = {s_sec[0]}
    /\ \A f \in reported, i \in SecIds : f.anchor[i] \subseteq {f.sec[0]}

\* A reported frame is one that a button sends, when each of its sections came
\* with an intact section 0 (the comment of ir_rx_frame_cb: another button resets
\* the sections collected).  The code takes equal sections 0 for the same button,
\* so this fails: sections of frames that share section 0 are mixed.
OneButton ==
    \A f \in reported : (\A i \in SecIds : f.anchor[i] # {}) => f.sec \in Buttons
=============================================================================

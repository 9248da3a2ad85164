------------------------------- MODULE MCParts -------------------------------
(***************************************************************************)
(* One instance of the parts around the download and the station that are  *)
(* checked for safety.  They share no state, so a behaviour runs one of    *)
(* them, its `focus', and the others stay put: the run checks each part    *)
(* without the product of them all.  The codec and the assembly of         *)
(* IrDecode are two focuses.                                               *)
(***************************************************************************)
EXTENDS TcpClient, Provisioning, IrReceive, IrDecode, MatterHub, LedTask, SensorTasks, Rotary,
        Radar

VARIABLE focus

(***************************************************************************)
(* The codec's inputs: sections of extreme and mixed bytes in frames of    *)
(* one to three, the NEC and LG frames over a few byte values, each with   *)
(* marks and spaces as short or as long as the tolerance allows.           *)
(***************************************************************************)
Few == {0, 1, 90, 255}
SectionOf(a, b, p) == fix_checksum([i \in 1 .. 7 |-> IF i = p THEN b ELSE a])
Sections == {SectionOf(a, 129, p) : a \in {0, 90, 255}, p \in {1, 2, 5, 7}}
Frames   == Sections \cup {sec \o SectionOf(90, 129, 3) : sec \in Sections}
                     \cup {sec \o sec \o SectionOf(0, 7, 6) : sec \in Sections}

MCSamples ==
    LET Air(kind, all) ==
          {[kind |-> kind, bytes |-> b, marks |-> m, spaces |-> p] :
              b \in all, m \in {"short", "long"}, p \in {"short", "long"}}
    IN  Air("SAMSUNG_AC", Frames)
        \cup Air("NEC", {<<a, b, c, 255 - c>> : a \in Few, b \in Few, c \in Few})
        \cup Air("LG_AC", {<<a, c, 255 - c, 5>> : a \in Few, c \in Few})

OneSample == [kind |-> "NEC", bytes |-> <<0, 255, 1, 254>>, marks |-> "short", spaces |-> "short"]

\* Three frames of ir_aircon.c: on_21, off_21, and on_14, the two sections of the
\* steady state, which has the section 0 of on_21 and another section 1.
MCButtons ==
    LET on0 == <<2, 146, 15, 0, 0, 0, 240>>    off0 == <<2, 178, 15, 0, 0, 0, 192>>
        set == <<1, 226, 254, 113, 128, 17, 240>>
        std == <<1, 210, 15, 0, 0, 0, 0>>
        on2 == <<1, 82, 15, 0, 32, 17, 248>>   off2 == <<1, 114, 15, 0, 32, 17, 200>>
        Key(secs) == [i \in 0 .. Len(secs) - 1 |-> secs[i + 1]]
    IN  {Key(<<on0, std, on2>>), Key(<<off0, std, off2>>), Key(<<on0, set>>)}

MCColours == {<<255, 128, 0, 7>>}

Focuses == {"client", "prov", "capture", "codec", "assembly", "matter", "leds", "sensors",
            "rotary", "radar"}

all_vars == <<focus, tcp_vars, prov_vars, rx_vars, dec_vars, mat_vars, led_vars, sen_vars,
              rot_vars, rad_vars>>

MCInit ==
    /\ focus \in Focuses
    /\ focus # "prov" => stored = NoRecord
    /\ focus # "codec" => sample = OneSample
    /\ focus # "leds" => led_type = "SK6812"
    /\ focus # "sensors" => therm_kind = "amg" /\ attached = {}
    /\ TcpInit /\ ProvInit /\ RxInit /\ DecInit /\ MatInit /\ LedInit /\ SenInit /\ RotInit /\ RadInit

Frame == \E b \in Buttons : \E good \in SUBSET (SecIds \cap DOMAIN b) : FrameCb(b, good)

\* A decoded frame is final, and a clock or a counter stops at its bound.
Rests == focus \in {"codec", "matter", "rotary"} /\ UNCHANGED all_vars

MCNext ==
    \/ /\ focus = "client" /\ TcpNext
       /\ UNCHANGED <<focus, prov_vars, rx_vars, dec_vars, mat_vars, led_vars, sen_vars, rot_vars, rad_vars>>
    \/ /\ focus = "prov" /\ ProvNext
       /\ UNCHANGED <<focus, tcp_vars, rx_vars, dec_vars, mat_vars, led_vars, sen_vars, rot_vars, rad_vars>>
    \/ /\ focus = "capture" /\ RxNext
       /\ UNCHANGED <<focus, tcp_vars, prov_vars, dec_vars, mat_vars, led_vars, sen_vars, rot_vars, rad_vars>>
    \/ /\ focus = "codec" /\ Decode
       /\ UNCHANGED <<focus, tcp_vars, prov_vars, rx_vars, mat_vars, led_vars, sen_vars, rot_vars, rad_vars>>
    \/ /\ focus = "assembly" /\ Frame
       /\ UNCHANGED <<focus, tcp_vars, prov_vars, rx_vars, mat_vars, led_vars, sen_vars, rot_vars, rad_vars>>
    \/ /\ focus = "matter" /\ MatNext
       /\ UNCHANGED <<focus, tcp_vars, prov_vars, rx_vars, dec_vars, led_vars, sen_vars, rot_vars, rad_vars>>
    \/ /\ focus = "leds" /\ LedNext
       /\ UNCHANGED <<focus, tcp_vars, prov_vars, rx_vars, dec_vars, mat_vars, sen_vars, rot_vars, rad_vars>>
    \/ /\ focus = "sensors" /\ SenNext
       /\ UNCHANGED <<focus, tcp_vars, prov_vars, rx_vars, dec_vars, mat_vars, led_vars, rot_vars, rad_vars>>
    \/ /\ focus = "rotary" /\ RotNext
       /\ UNCHANGED <<focus, tcp_vars, prov_vars, rx_vars, dec_vars, mat_vars, led_vars, sen_vars, rad_vars>>
    \/ /\ focus = "radar" /\ RadNext
       /\ UNCHANGED <<focus, tcp_vars, prov_vars, rx_vars, dec_vars, mat_vars, led_vars, sen_vars, rot_vars>>
    \/ Rests

MCSpec == MCInit /\ [][MCNext]_all_vars
=============================================================================

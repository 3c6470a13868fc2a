------------------------------ MODULE MCSensorScan ------------------------------
EXTENDS DeviceJson

MCHexCode == "00e9" :> 233 @@ "20ac" :> 8364 @@ "d83d" :> 55357 @@ "de00" :> 56832

Q(word) == <<Quote, word, Quote>>
Member(name, value) == Q(name) \o <<":">> \o value
Object(members) == <<"{">> \o members \o <<"}">>
BoardText(type, number) ==
    Object(Member("type", Q(type)) \o <<",">> \o Member("address", number))
Document(boards) == Object(Member("boards", <<"[">> \o boards \o <<"]">>))

Said(type, number) == [type |-> type, address |-> number]
File(text, boards, whole) == [text |-> text, boards |-> boards, whole |-> whole]

Expansion(number) == BoardText("spiExpansion", number)
Plain == Document(Expansion(<<"5">>))

\* Text that a program which looks only for quotes and braces would stumble over.
Odd == <<Quote, Backslash, Quote, "}", Backslash, "u", "20ac", Backslash, "u", "d83d", Backslash, "u", "de00", Quote>>

MCFiles == {
    File(<<>>, <<>>, FALSE),
    File(Plain, <<Said("spiExpansion", 5)>>, TRUE),
    File(<<"BOM", " ", " ">> \o Object(Member("name", Odd) \o <<",", " ", " ">> \o
            Member("boards", <<" ", "[", " ", " ">> \o Expansion(<<" ", " ", "5", ".", "3">>) \o <<" ", "]">>)),
         <<Said("spiExpansion", 5)>>, TRUE),
    File(Document(Expansion(Q("5")) \o <<",">> \o Expansion(<<"1", "e", "1">>) \o <<",">> \o BoardText("spiDigital", <<"3">>)),
         <<Said("spiExpansion", None), Said("spiExpansion", 10), Said("spiDigital", 3)>>, TRUE),
    \* the byte that the program keeps of a number may be an address, or none
    File(Document(Expansion(<<"-", "2", "5", "1">>) \o <<",">> \o Expansion(<<"5", "1", "2">>)),
         <<Said("spiExpansion", 0 - 251), Said("spiExpansion", 512)>>, TRUE),
    \* cut short, nested too deep, with a lone surrogate
    File(SubSeq(Plain, 1, Len(Plain) - 2), <<Said("spiExpansion", 5)>>, FALSE),
    File(Object(Member("x", <<"[", "[", "[", "[", "]", "]", "]", "]", ",">>) \o Member("boards", <<"null">>)), <<>>, FALSE),
    File(Object(Member("name", <<Quote, Backslash, "u", "de00", Quote, ",">>) \o
                Member("boards", <<"[">> \o Expansion(<<"5">>) \o <<"]">>)), <<Said("spiExpansion", 5)>>, FALSE) }

MCGarbage == {<<>>, <<"x">>, <<"}">>}

Device(channel, behind, number) == [mux |-> channel, ext |-> behind, address |-> number]

\* Without an extension board; with one at address 5 and at address 10.
MCRacks == {
    [board |-> 0, devices |-> {Device(0, 0, PRIM), Device(0, 0, SEC), Device(3, 0, PRIM), Device(1, 0, DFLT)}],
    [board |-> 5, devices |-> {Device(1, 0, PRIM), Device(3, 1, PRIM), Device(3, 4, PRIM), Device(2, 0, ALT)}],
    [board |-> 10, devices |-> {Device(0, 0, DFLT), Device(3, 1, SEC), Device(3, 12, PRIM)}] }

MCSignals == {<<0, 65535>>, <<26214, 32768>>}
MCNoise == {Quiet, <<1, 0, 0, 0, 0, 0>>, <<0, 0, 0, 0, 128, 7>>, <<0, 0, 255, 0, 0, 0>>}

\* A frame with one or two bits changed is never taken for another one.
Flips == {0} \cup {2^b : b \in 0..7}
ASSUME FramesDetectTwoBits ==
    \A word \in {0, 1, 26214, 65535}, x, y, z \in Flips :
        Cardinality({m \in 1..3 : <<x, y, z>>[m] # 0}) \in {1, 2} =>
            LET f == Framed(word)
            IN  ~sensirion_common_check_crc(<<Xor(f[1], x), Xor(f[2], y)>>, Xor(f[3], z))

\* A limit that is set is read back within the resolution of the word that holds it:
\* 1.57 %RH and 0.35 degrees.
ASSUME LimitsAreKept ==
    \A humidity \in {0, 20000, 50000, 99000}, temperature \in {0 - 40000, 0, 23500, 120000} :
        LET sent == sht3x_set_alert_thd([write |-> OK, bytes |-> <<>>], "HIALRT_SET", humidity, temperature).sent
            got  == sht3x_get_alert_thd([write |-> OK, bytes |-> sent], "HIALRT_SET", <<0>>)
        IN  /\ got.ret = OK
            /\ humidity - got.humidity \in 0..1570
            /\ temperature - got.temperature \in 0..350
===============================================================================

-------------------------------- MODULE DeviceJson --------------------------------
(***************************************************************************)
(* What the bme service makes of /opt/device.json (main lines 133 to 161): *)
(* SensorScan with the parser of CJson.  A file is a record of its text,   *)
(* the boards it names and whether it is whole.                            *)
(***************************************************************************)
EXTENDS SensorScan, CJson

CONSTANT Garbage    \* what may follow the text in memory: the buffer is not terminated

Text(word) == <<word>>

\* Mutant: every board counts as an extension board.
Expansions_Any(root) ==
    LET boards == cJSON_GetObjectItemCaseSensitive(root, Text("boards"))
        number(b) == cJSON_GetObjectItemCaseSensitive(b, Text("address"))
    IN  SelectSeq([m \in 1..Len(boards.child) |-> number(boards.child[m])], cJSON_IsNumber)

\* The addresses of the extension boards, in the order of the file.
Expansions(root) ==
    LET boards == cJSON_GetObjectItemCaseSensitive(root, Text("boards"))
        type(b) == cJSON_GetObjectItemCaseSensitive(b, Text("type"))
        IsExpansion(b) == cJSON_IsString(type(b)) /\ type(b).text = Text("spiExpansion")
        number(b) == cJSON_GetObjectItemCaseSensitive(b, Text("address"))
        expansions == SelectSeq(boards.child, IsExpansion)
    IN  SelectSeq([m \in 1..Len(expansions) |-> number(expansions[m])], cJSON_IsNumber)

\* set_ext_addr
set_ext_addr(addr, at) == IF addr > 15 \/ addr = 0 THEN at ELSE addr

\* What device.json comes to, with what follows it in memory.
FileConfigurations ==
    {LET addresses == Expansions(cJSON_Parse(Buffer(f.text, g)).item)
     IN  [file |-> f,
          iface_board_len |-> IF addresses = <<>> THEN DefaultLen ELSE 3,
          ext_addr |-> FoldLeft(LAMBDA at, a : set_ext_addr(a.int % 256, at), 255, addresses)] :
     f \in Files, g \in Garbage}

-------------------------------------------------------------------------------
\* What device.json says is what is scanned, with anything behind it in memory; of
\* a file cut short nothing is used; the parser keeps no memory but the items it
\* returns (main lines 133-161, cJSON.c).
DeviceJsonIsUnderstood ==
    /\ pc = "bme" =>
         LET said == IF file.whole THEN SelectSeq(file.boards, LAMBDA b : b.type = "spiExpansion" /\ b.address # None)
                                   ELSE <<>>
             valid == SelectSeq(said, LAMBDA b : b.address % 256 \in 1..15)
         IN  /\ (iface_board_len = 3) = (said # <<>>)
             /\ ext_addr = IF valid = <<>> THEN 255 ELSE valid[Len(valid)].address % 256
    /\ pc = "config" =>
         \A g \in Garbage : LET parsed == cJSON_Parse(Buffer(file.text, g))
                            IN  parsed.live = IF parsed.ok THEN Blocks(parsed.item) ELSE 0
===============================================================================
